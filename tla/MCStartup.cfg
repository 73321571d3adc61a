SPECIFICATION FairSpec
CONSTANTS
    p1 = p1
    p2 = p2
    c1 = c1
    h1 = h1
    h2 = h2
    None = None
    Proxies = {p1, p2}
    Clis = {c1}
    Holders = {h1, h2}
    Settings = {"speaker", "xinput"}
    Overlap = FALSE
    MaxFiles = 2
    MaxStarts = 2
    MaxHolders = 1
    MaxKills = 1
INVARIANTS
    TypeOK
    Exclusive
    ReloadOwed
CHECK_DEADLOCK FALSE
PROPERTIES
    Followed
    HolderComesUp
