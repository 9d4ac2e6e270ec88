SPECIFICATION ToolSpec
CONSTANTS
  k1 = k1
  k2 = k2
  none = none
  Keys = {k1, k2}
  NoKey = none
  SigpipeIgnored = FALSE
  LoadMayFail = FALSE
  MaxCalls = 2
  MaxRestarts = 0
  MaxRuns = 2
  MAX_ANCHORS = 2
  Commandlines <- Both
INVARIANT FirstSourceWins
