SPECIFICATION FairSpec
CONSTANTS
    SeqMod = 4
    NPackets = 5
    Deadline = 0
    Preload = 2
    Interval = 2
    MinInterval = 2
    MaxNores = 2
    Linger = 3
    Timing = TRUE
    Quiet = FALSE
    AckErrors = TRUE
    Rtts = {1}
    MaxAge = 3
    MaxFaults = 1
INVARIANTS
    RateBound
    CountedOnce
    InFlightExact
    NeverTooMany
    ExitArmed
PROPERTIES
    Terminates
