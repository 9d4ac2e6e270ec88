SPECIFICATION FairSpec
CONSTANTS
  MAX_HOPS = 2
  MAX_SAMPLES = 2
  Rtts = {1, 3}
  MaxOther = 1
  MaxCycles = 3
  Commandlines <- Usual
INVARIANTS TableBounded  StatsExact CyclesAgree RowsTell
PROPERTIES WindsDown Ends
