----------------------------- MODULE NetArbiter -----------------------------
(***************************************************************************)
(* src/NetArbiter.h: who has the network. The ESP-01 has memory for one    *)
(* TLS session, so the services that need one ask for it on every pass of  *)
(* the main loop (want) and the arbiter gives the turn to the most         *)
(* important one (grant). A turn starts only once the heap fits it, or     *)
(* once it has waited WAIT_MS for the heap (ready).                        *)
(*                                                                         *)
(* Time is counted in passes of the loop: millis() is read once per pass   *)
(* (App.h, "now"), and one pass is one unit of waiting.                    *)
(***************************************************************************)
EXTENDS Naturals

CONSTANT WAIT_MS   \* passes a turn waits for the heap before it runs anyway

ASSUME WaitAssumption == WAIT_MS \in Nat

Who  == {"OTA", "IP", "DNS", "SETUP", "POST", "RELAY", "STREAM"}
NONE == "NONE"

\* The enum's order: the lower, the more important
Priority == [OTA |-> 0, IP |-> 1, DNS |-> 2, SETUP |-> 3, POST |-> 4, RELAY |-> 5,
             STREAM |-> 6]

VARIABLES owner,    \* _owner: whose turn it is
          starved,  \* _starved: the turn is waiting for the heap
          waited    \* now - _waitFrom, while starved

arbiterVars == <<owner, starved, waited>>

ArbiterInit ==
  /\ owner = NONE
  /\ starved = FALSE
  /\ waited = 0

ArbiterTypeOK ==
  /\ owner \in Who \cup {NONE}
  /\ starved \in BOOLEAN
  /\ waited \in 0 .. WAIT_MS
  /\ owner = NONE => ~starved

(***************************************************************************)
(* grant(): the most important of the services that want the network.      *)
(***************************************************************************)
Grant(wants) ==
  IF wants = {} THEN NONE
  ELSE CHOOSE w \in wants : \A o \in wants : Priority[w] <= Priority[o]

(***************************************************************************)
(* ready(): how long who has waited before this pass. A change of owner    *)
(* (grant) starts another wait.                                            *)
(***************************************************************************)
WaitedBy(who) == IF starved /\ who = owner THEN waited ELSE 0

\* Mutant: the turn waits for the heap as long as it takes
ReadyWithHeapOnly(who, running, fits) == who # NONE /\ (running \/ fits)

\* running: its session is open already; fits: the heap has room for a new one
Ready(who, running, fits) ==
  who # NONE /\ (running \/ fits \/ WaitedBy(who) >= WAIT_MS)

\* The turn of this pass: grant() and then ready(). The wait only matters up to
\* WAIT_MS, so it is not counted further.
Turn(who, running, fits) ==
  /\ owner' = who
  /\ starved' = (who # NONE /\ ~Ready(who, running, fits))
  /\ waited' = IF ~starved' THEN 0
               ELSE IF WaitedBy(who) < WAIT_MS THEN WaitedBy(who) + 1 ELSE WAIT_MS
=============================================================================
