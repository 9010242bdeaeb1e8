CONSTANTS
    c1 = c1
    c2 = c2
    c3 = c3
    g1 = g1
    g2 = g2
    Call = {c1, c2, c3}
    Guest = {g1, g2}
    Size <- MCSize
    SizeOf <- MCSizeOf
    InPool <- MCInPool
    Held <- MCHeld
    First = First
    NoEntry = NoEntry
    None = None
    MaxFaults = 2
SPECIFICATION Spec
INVARIANTS
    NoGuestIsShared
    HeldIsNotOffered
    SizeIsAsked
PROPERTY KeepsPoolContract
