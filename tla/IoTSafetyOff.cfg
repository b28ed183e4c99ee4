CONSTANTS
  MAX_ON = 3
  PULSE = 2
  Downloads = FALSE
SPECIFICATION Spec
INVARIANT SafetyOff
