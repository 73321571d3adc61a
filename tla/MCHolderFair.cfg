SPECIFICATION FairSpec
CONSTANTS
    c1 = c1
    c2 = c2
    c3 = c3
    usb = usb
    bt = bt
    x360 = x360
    None = None
    Conns = {c1, c2}
    Shapes = {usb}
    NeutralShapes = {usb}
    Instance = "ds"
    MaxLive = 2
    SockCap = 1
    EvCap = 2
    MaxRefused = 0
    MaxDied = 0
    MaxRestarts = 1
PROPERTIES DeadHandLetsGo EventuallyServed
