------------------------------ MODULE MCNetwork ------------------------------
EXTENDS Network

Household(what, n, net) == [uses |-> what, times |-> n, ssid |-> net]

MCHouseholds ==
    { Household({"router", "memory", "day", "owner", "update"}, 4, net) : net \in {"none", "wrong", "right"} }
    \cup
    { Household({"broker", "commands", "faults"}, 4, "right"),
      Household({"broker", "commands", "module", "bytes"}, 3, "right"),
      Household({"broker", "commands", "router", "update", "owner"}, 3, "right"),
      Household({"address", "relay", "faults"}, 2, "right"),
      Household({"address", "faults"}, 3, "right"),
      Household({"address", "owner", "router"}, 2, "right"),
      Household({"panel"}, 0, "right") }

\* An address that comes back, with the failures of the record's update alone.
MCMovingHome == { Household({"address", "faults"}, 3, "right") }

=============================================================================
