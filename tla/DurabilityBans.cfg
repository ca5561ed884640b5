CONSTANTS
    Accounts = {a}
    Members = {m}
    MaxTokenId = 2
    MaxBanId = 1
    MaxUses = 1
    MaxUsesValues = {1}
    Identities = {x, y, z}
    Accused = {x}
    AutobanCount = 2
    MaxMailId = 2
    Logins = {p}
    MaxDbId = 1
    Mixes = {{"bans"}}
SPECIFICATION Spec
INVARIANT BansSurviveRestart
CHECK_DEADLOCK FALSE
