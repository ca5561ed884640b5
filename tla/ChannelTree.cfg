CONSTANTS
    MaxChannelId = 3
    Clients = {u, b}
    Bots = {b}
    KindsUsed = {"temporary"}
    ForceValues = {0, 1}
    Dialects = {"ts3", "teaspeak"}
    RawIds = {1, 3}
    MaxCommands = 3
SPECIFICATION Spec
INVARIANTS TypeOK TreeWellFormed AtMostOneDefault SiblingChain
PROPERTY NobodyStranded
