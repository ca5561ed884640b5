CONSTANTS
    Ts6 = {t, u}
    Others = {w}
    Streamers = {t}
    MaxStreams = 2
    MaxTasks = 1
    MaxOps = 4
SPECIFICATION Spec
INVARIANTS StreamsMatchBroadcasts BroadcastsListed BridgesFollowStreams BridgesAreFed
CHECK_DEADLOCK FALSE
