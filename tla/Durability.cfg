CONSTANTS
    Accounts = {a}
    Members = {m, n}
    MaxTokenId = 2
    MaxBanId = 1
    MaxUses = 1
    MaxUsesValues = {0, 1}
    Identities = {x, y, z}
    Accused = {x}
    AutobanCount = 2
    MaxMailId = 2
    Logins = {p, q}
    MaxDbId = 2
    Mixes = {{"keys"}, {"bans", "mail"}, {"accounts"}}
SPECIFICATION Spec
INVARIANTS OverusedOnlyByCrash RepliesSurviveCrashes RecordsLostOnlyByCollision
CHECK_DEADLOCK FALSE
SYMMETRY Interchangeable
