CONSTANTS
    Guest = {s1, g1, g2}
    Stock = {s1}
    Call = {c1, c2, c3, c4}
    None = None
    EnableVps = FALSE
    DisableOsReload = FALSE
    DirectorRetries = TRUE
    MayFail = {"prepare", "findByIp", "unregister", "upgrade", "orderPool", "order", "provision", "reload", "reloading", "commit", "configure", "ephemeral", "register", "cleanup", "releaseGuest", "unregisterGuest"}
    MayLose = {"unregister", "orderPool", "order", "reload", "commit", "register", "releaseGuest", "unregisterGuest"}
    MayCrash = TRUE
    Healthy = {}
SPECIFICATION Spec
SYMMETRY Symmetry
INVARIANTS
    ExclusiveGuest
    HeldGuestServes
    DeletedIsGone
    PreexistingGuestKept
PROPERTY KeepsVMContract
