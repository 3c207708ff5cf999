SPECIFICATION LiveSpec
CONSTANTS
  N <- MCN
  Max <- MCMax
  Counts = {0, 1, 2}
  Slacks = {0, 2}
  ResetSlack = 4
  CtrlMasks <- MCMasks
  Resets = TRUE
INVARIANT WrapExact
PROPERTIES TickCounted PairSpec PairWraps
