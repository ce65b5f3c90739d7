SPECIFICATION Spec
CONSTANTS
  Requests = {r1, r2}
  Sentences = 1
  MaxPresses = 1
CHECK_DEADLOCK FALSE
INVARIANT StopMeansSilence
