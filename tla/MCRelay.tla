------------------------------- MODULE MCRelay -------------------------------
(* Relay on small instances: three requests on one connection (one served, one *)
(* waiting, one busy), two on two; three messages over a reconnection, two and *)
(* a change of the settings on one connection; a request beside either.        *)
EXTENDS Relay

Load(r, m, c, n) == [requests |-> r, messages |-> m, changes |-> c, connections |-> n]

LoadsOfCommands == {Load(0, 3, 0, 2), Load(0, 2, 1, 1), Load(0, 1, 1, 2)}
LoadsSmall ==
  LoadsOfCommands \cup
  {Load(3, 0, 0, 1), Load(2, 0, 0, 2), Load(1, 1, 0, 1), Load(1, 0, 1, 1)}
==============================================================================
