SPECIFICATION Spec
CONSTANTS
  k1 = k1
  k2 = k2
  none = none
  Keys = {k1, k2}
  NoKey = none
  SigpipeIgnored = TRUE
  LoadMayFail = FALSE
  MaxCalls = 3
  MaxRestarts = 1
INVARIANTS Pairing SessionSound
PROPERTIES PinFrozen PinContinuity
CHECK_DEADLOCK TRUE
