CONSTANTS
  MAX_ON = 2
  PULSE = 1
  Downloads = TRUE
  DEBOUNCE = 1
  MAX_COUNT = 400
  Setups <- MCSetups
SPECIFICATION DeviceSpec
INVARIANTS
  AutoFollowsRule
  SafetyHolds
  SafetyOffButAfterPulse
PROPERTIES
  PulseSavedOnlyByAuto
  NoChatter
  OutputFollowsSensor
