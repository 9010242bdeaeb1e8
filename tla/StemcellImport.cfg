CONSTANTS
    Worker = {w1, w2}
    Buffer = {b1, b2, b3}
    MaxPart = 3
    None = None
    MayFail = {"decompress", "uuid", "createContainer", "container", "read", "put",
               "publish", "createImage", "setBootMode",
               "list", "delete", "deleteObject", "deleteContainer"}
    MayLose = {"put", "createImage"}
SPECIFICATION FairImportSpec
INVARIANTS
    ImportTypeOK
    ImportedImageIsWhole
    BufferHasOneUser
    ClosedImportLeavesNothing
    FailedCloseLeavesNothing
PROPERTY ImportEnds
