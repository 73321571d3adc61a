SPECIFICATION Spec
CONSTANTS
    c1 = c1
    c2 = c2
    c3 = c3
    usb = usb
    bt = bt
    x360 = x360
    None = None
    Conns = {c1, c2}
    Shapes = {usb, bt}
    NeutralShapes = {usb}
    Instance = "ds"
    MaxLive = 1
    SockCap = 2
    EvCap = 2
    MaxRefused = 1
    MaxDied = 1
    MaxRestarts = 1
SYMMETRY ConnSymmetry
INVARIANTS TypeOK KnowsDevice HeldInputMatchesPad ParkedWithoutProxy
    StoredNeutralFits
PROPERTIES KeepsPromise
