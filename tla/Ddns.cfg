SPECIFICATION Spec
CONSTANTS
  MaxCommands = 0
  Browsers = {}
  MAX_PENDING = 1
  Households <- MCMovingHome
PROPERTIES
  RecordFollows
CHECK_DEADLOCK FALSE
