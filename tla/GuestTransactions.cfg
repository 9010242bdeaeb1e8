CONSTANTS
    Plans <- MCPlans
    Catalogues <- MCCatalogues
    Polls <- MCPolls
    MayFail <- MCMayFail
    MaxOther = 1
    PlaceAttempts = 2
    None = None
    Garbled = Garbled
SPECIFICATION FairSpec
INVARIANTS
    
    CancelledIsGoing
    OrdersAreCounted
    OrdersFit
PROPERTY EndsUnlessBlocked
