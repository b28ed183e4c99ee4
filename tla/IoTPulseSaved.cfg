CONSTANTS
  MAX_ON = 3
  PULSE = 2
  Downloads = TRUE
SPECIFICATION Spec
INVARIANT PulseNotSaved
