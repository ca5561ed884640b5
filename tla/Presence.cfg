CONSTANTS
    Telnet = {}
    Ssh = {p}
    Desktop = {d}
    MaxChannelId = 3
    MaxQueryId = 2
    MaxClientId = 3
    ParentsUsed = {2}
    ChatKinds = {"temporary"}
SPECIFICATION FairSpec
INVARIANTS TypeOK UniqueClientIds
PROPERTIES OnlyStaleSessionsStrand GhostsLeave AbandonedChannelsGo
