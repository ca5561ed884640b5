CONSTANTS
    Clients = {c, d}
    Files = {f}
    MaxSize = 2
    MaxTransfers = 2
    MaxFiles = 3
    MaxOps = 2
SYMMETRY Symmetry
SPECIFICATION Spec
INVARIANTS UploadsDoNotMix AvatarFlagsTrue DownloadsAsPromised
PROPERTIES CompleteUploadsWhole
CHECK_DEADLOCK FALSE
