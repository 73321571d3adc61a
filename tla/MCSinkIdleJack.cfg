SPECIFICATION FairSpec
CONSTANTS
    MaxSessions = 2
    MaxOut = 1
    QueueCap = 1
    SeqMod = 2
    Quiet = 2
    MaxFlips = 1
PROPERTIES
    JackAnswered
CHECK_DEADLOCK FALSE
