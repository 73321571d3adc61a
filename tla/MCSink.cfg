SPECIFICATION FairSpec
CONSTANTS
    MaxSessions = 2
    MaxOut = 2
    QueueCap = 1
    SeqMod = 2
    Quiet = 2
    MaxFlips = 1
INVARIANTS
    TypeOK
    SeqUnified
    MirrorTruthful
    StopHeard
    AttachSeen
    NewestKept
PROPERTIES
    StopReturns
    LinkFollowsJack
    InOrder
    OneWriter
CHECK_DEADLOCK FALSE
