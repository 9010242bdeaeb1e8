CONSTANTS
    Edit = {e1, e2}
    Disk = {d1}
    NoDoc = NoDoc
    None = None
    MaxAttempts = 3
    MaxFaults = 2
    TroubleStatus = {502}
SPECIFICATION FairSpec
INVARIANTS
    SettledEditsAreKept
PROPERTIES
    KeepsContract
    EditsEnd
