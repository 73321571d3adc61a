SPECIFICATION Spec
CONSTANTS
    c1 = c1
    c2 = c2
    c3 = c3
    usb = usb
    bt = bt
    x360 = x360
    None = None
    Conns = {c1, c2, c3}
    Shapes = {x360}
    NeutralShapes = {x360}
    Instance = "xi"
    MaxLive = 1
    SockCap = 2
    EvCap = 2
    MaxRefused = 0
    MaxDied = 0
    MaxRestarts = 1
SYMMETRY ConnSymmetry
PROPERTIES ReusedIsLive
