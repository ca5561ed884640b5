CONSTANTS
    MaxBot = 2
    MaxClient = 2
    MaxSong = 2
    Urls = {1}
    Modes = {0, 1}
SPECIFICATION Spec
INVARIANT TypeOK
PROPERTIES CurrentStaysQueued PlaysSomething ImplementsPlayer
