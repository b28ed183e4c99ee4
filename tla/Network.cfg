SPECIFICATION Spec
CONSTANTS
  MaxCommands = 2
  Browsers = {"phone", "laptop", "tablet"}
  MAX_PENDING = 2
  Households <- MCHouseholds
INVARIANTS
  CommandRunsOnce PublishedIsKept OwnAddressOnly
PROPERTIES
  AlwaysReachable BrokerKnows AddressKnown EveryRequestServed
CHECK_DEADLOCK FALSE
