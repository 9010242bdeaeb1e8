CONSTANTS
    Disk = {s1, s2, d1}
    Stock = {s1, s2}
    Vm = {v1, v2}
    Call = {c1, c2, c3, c4}
    None = None
    MayFail = {"findDisk", "readVolume", "authorize", "credential", "fetchToAttach", "putAttached", "readAllowed", "deauthorize", "exists", "fetchToDetach", "putDetached", "orderVolume", "awaitVolume", "findToDelete", "cancelVolume"}
    MayLose = {"authorize", "deauthorize", "putAttached", "putDetached", "orderVolume", "cancelVolume"}
    MayCrash = TRUE
    Registry500 = FALSE
    CancelDeclined = FALSE
    Unreadable = {v2}
SPECIFICATION Spec
SYMMETRY Symmetry
INVARIANTS
    AttachedIsAuthorized
    LatestInSettings
    DetachedIsGone
    DeletedIsCancelled
