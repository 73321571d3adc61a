SPECIFICATION FairSpec
CONSTANTS
    o1 = o1
    o2 = o2
    Overlays = {o1, o2}
    Fds = {1, 2, 3}
    MaxLines = 2
    MaxDrops = 2
    MaxClones = 1
    Slow = TRUE
INVARIANTS TypeOK PauseFollowsList HoldMeansPaused
PROPERTIES Resumed
