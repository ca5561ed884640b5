CONSTANTS
    Admin = admin
    People = {p}
    MaxServerGroup = 9
    MaxChannelGroup = 10
    MaxOps = 3
    MaxEdits = 2
    Keys <- SomeKeys
    EditNames = {"right"}
    EditAssignments <- SomeAssignments
SPECIFICATION Spec
INVARIANTS TypeOK RightsWereGiven RightsLast LayersDecide
PROPERTIES FallsBackToGuest
CHECK_DEADLOCK FALSE
