SPECIFICATION FairSpec
CONSTANTS
    SeqMod = 8
    NPackets = 2
    Deadline = 4
    Preload = 1
    Interval = 2
    MinInterval = 1
    MaxNores = 2
    Linger = 2
    Timing = TRUE
    Quiet = TRUE
    AckErrors = FALSE
    Rtts = {1}
    MaxAge = 7
    MaxFaults = 2
PROPERTIES
    Terminates
