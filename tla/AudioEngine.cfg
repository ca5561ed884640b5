CONSTANTS
    MaxClient = 2
    Tracks <- MCTracks
    MaxStream = 2
SPECIFICATION EngineSpec
INVARIANTS OneLiveStream BroadcastBacked
PROPERTY WantedIsPlayed
