SPECIFICATION FairSpec
CONSTANTS
    Day = 16
    Off <- Slow
    Msgs = 2
    Trials = 1
    MaxRtt = 3
    Stays = {0, 1}
    StartTime = 13
    MaxTicks = 5
    MaxFaults = 1
INVARIANTS
    Accurate
    

    
