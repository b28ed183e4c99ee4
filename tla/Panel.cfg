SPECIFICATION Spec
CONSTANTS
  FlashFills = TRUE
  MaxCuts = 1
  phone = phone
  laptop = laptop
  Clients = {phone, laptop}
  Passwords = {1, 2}
  FreeFails = 2
  MaxStep = 2
  MaxKeys = 2
  MaxSecrets = 2
  Devices <- MCDevices
SYMMETRY Alike
INVARIANTS
  ServicesRunTheSaved KeyKept OwnerHeldOutByItself OneRecord SecretsAgree OffStaysOff
PROPERTIES
  StoreIsAtomic CodeWorksOnce ForeignKept
CHECK_DEADLOCK FALSE
