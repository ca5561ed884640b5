CONSTANTS
    MaxChannelId = 3
    Clients = {u, b}
    Bots = {b}
    KindsUsed = {"permanent", "temporary"}
    ForceValues = {0, 1}
    Dialects = {}
    RawIds = {}
    MaxCommands = 3
SPECIFICATION Spec
PROPERTY DefaultChannelNeverDeleted
