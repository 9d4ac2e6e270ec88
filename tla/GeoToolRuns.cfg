SPECIFICATION ToolFairSpec
CONSTANTS
  k1 = k1
  k2 = k2
  none = none
  Keys = {k1, k2}
  NoKey = none
  SigpipeIgnored = FALSE
  LoadMayFail = TRUE
  MaxCalls = 2
  MaxRestarts = 1
  MaxRuns = 2
  MAX_ANCHORS = 2
  Commandlines <- Usual
INVARIANTS ToolTypeOK FirstSourceWins TagTells TrustedPosition VerdictHonest
PROPERTIES RunShrinks RunEnds
