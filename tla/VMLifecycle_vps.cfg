CONSTANTS
    Guest = {s1, s2, g1}
    Stock = {s1, s2}
    Call = {c1, c2, c3}
    None = None
    EnableVps = TRUE
    DisableOsReload = TRUE
    DirectorRetries = FALSE
    MayFail = {"prepare", "findByIp", "unregister", "upgrade", "orderPool", "order", "provision", "reload", "reloading", "commit", "configure", "ephemeral", "register", "cleanup", "releaseGuest", "unregisterGuest"}
    MayLose = {"unregister", "orderPool", "order", "reload", "commit", "register", "releaseGuest", "unregisterGuest"}
    MayCrash = TRUE
    Healthy = {}
SPECIFICATION Spec
SYMMETRY Symmetry
INVARIANTS
    ExclusiveGuest
    HeldGuestInPool
    PoolOffersLiveGuests
