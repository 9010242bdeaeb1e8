CONSTANTS
    c1 = c1
    c2 = c2
    g1 = g1
    g2 = g2
    d1 = d1
    d2 = d2
    d3 = d3
    p1 = p1
    p2 = p2
    p3 = p3
    i1 = i1
    Call = {c1, c2}
    Guest = {g1, g2}
    Disk = {d1, d2, d3}
    Snapshot = {p1, p2, p3}
    Image = {i1}
    Calls <- Both
    Place <- Where
    Stock = {d1}
    Taken <- First
    None = None
    Attempts = 2
    Sends = 2
    MayFail = {"read", "write", "findVM", "findImage", "reboot", "setTags", "allowedStorage", "findDisk", "setNotes", "readBilling", "cancel", "createVolume", "createSnapshot", "deleteSnapshot"}
    Declines = {"reboot", "setTags", "setNotes", "cancel", "deleteSnapshot"}
SPECIFICATION Spec
INVARIANT RetryIsTold
CHECK_DEADLOCK FALSE
