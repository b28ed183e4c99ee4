------------------------------- MODULE MCPanel -------------------------------
EXTENDS Panel, TLC

\* Nothing tells one browser from the other.
Alike == Permutations(Clients)

Used == [Defaults EXCEPT !.pw = 1, !.wifi = TRUE]
Enrolled == [Used EXCEPT !.key = 1]
OpenToken == [Defaults EXCEPT !.wifi = TRUE, !.tok = TRUE]
WithRelay == [Enrolled EXCEPT !.tok = TRUE, !.relay = TRUE, !.sec = 1, !.ver = 1]

\* A device that starts with file f, to which n things of the kinds in u happen.
Device(f, u, n) == [file |-> f, uses |-> u, inputs |-> n]

MCDevices ==
    { Device(Missing, {"forms", "keys"}, 3),
      Device([v |-> "v1", cfg |-> Used], {"forms"}, 3),
      Device([v |-> "plain", cfg |-> Used], {"keys", "mistakes"}, 3),
      Device([v |-> "newer", cfg |-> Enrolled], {"forms"}, 3),
      Device([v |-> "v3", cfg |-> Enrolled], {"keys", "mistakes", "time"}, 4),
      Device([v |-> "v3", cfg |-> Enrolled], {"forms"}, 3),
      Device([v |-> "v3", cfg |-> OpenToken], {"cloud"}, 5),
      Device([v |-> "v3", cfg |-> WithRelay], {"cloud"}, 5) }

=============================================================================
