SPECIFICATION Spec
CONSTANTS
    o1 = o1
    o2 = o2
    Overlays = {o1, o2}
    Fds = {1, 2, 3}
    MaxLines = 1
    MaxDrops = 1
    MaxClones = 0
    Slow = FALSE
PROPERTIES ResumeAfterLastHold
