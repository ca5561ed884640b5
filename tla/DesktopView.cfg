CONSTANTS
    Addrs <- MCAddrs
    KindsAt <- MCKindsAt
    MaxChannelId = 2
    MaxClid = 2
    ParentsUsed = {0}
    CreateKinds = {"temporary"}
    EditKinds = {"permanent"}
    MaxOps = 3
    MaxQueue = 2
SPECIFICATION ViewSpec
CHECK_DEADLOCK FALSE
INVARIANTS
    ViewsAgree
    SessionsOnline
PROPERTIES
    OnlyOwnLeavingEnds
