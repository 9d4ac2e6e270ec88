SPECIFICATION FairSpec
CONSTANTS
    Options <- Usual
    Late = TRUE
    MayInterrupt = TRUE
    MaxQueue = 2
    MaxPackets = 2
    MaxTime = 4
    MaxFaults = 1
INVARIANTS
    NeverTooMany
    QuitFirst
PROPERTIES
    UnicastAfterAnswer
    NeverSpins
    Terminates
