CONSTANTS
    Guest = {g1, g2}
    Stock = {}
    Call = {c1, c2, c3}
    None = None
    EnableVps = FALSE
    DisableOsReload = TRUE
    DirectorRetries = TRUE
    MayFail = {"prepare", "findByIp", "unregister", "upgrade", "reload", "reloading", "configure", "ephemeral", "register", "releaseGuest", "unregisterGuest"}
    MayLose = {"reload", "register", "releaseGuest", "unregisterGuest"}
    MayCrash = TRUE
    Healthy = {c3}
SPECIFICATION FairSpec
INVARIANT FailedCreateDeletesItsGuest
PROPERTY EveryCallEnds
