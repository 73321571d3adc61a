SPECIFICATION FairSpec
CONSTANTS
    Modes <- AllModes
    Tries = 2
    Reads = 2
    Fetches = 2
    MaxQueue = 2
INVARIANTS
    TypeOK
    DriverTakesIt
    NoPhantom
PROPERTIES
    ServesDriver
    OpenEnds
    Answered
