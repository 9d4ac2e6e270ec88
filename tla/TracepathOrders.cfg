SPECIFICATION FairSpec
CONSTANTS
    Slots = 4
    TtlMod = 8
    MaxHops = 4
    MaxProbes = 2
    Tries = 2
    StartMtu = 7
    IPv6 = FALSE
    Orders = {TRUE, FALSE}
    Echoes = {"none", "full"}
    ReturnTtl = 62
    MaxAge = 2
    MaxFaults = 1
    Links <- Narrowing
INVARIANTS
    PmtuExact
    Attribution
PROPERTIES
    MtuShrinks
    WindsDown
    Terminates
