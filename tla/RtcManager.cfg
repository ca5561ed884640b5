CONSTANTS
    v = v
    b = b
    s = s
    Viewer = v
    Broadcasts <- MCBroadcasts
    Ts6 = {s}
    Ssrcs = {1, 2, 3}
    Offers <- MCOffers
    None = none
    FirstSlots = 2
    TargetSlots = 3
    MaxDescribes = 2
    MaxOps = 4
SPECIFICATION Spec
INVARIANTS TypeOK SlotsShowBroadcasts TracksKeepTypes
PROPERTY RemoteViewsKept
CHECK_DEADLOCK FALSE
