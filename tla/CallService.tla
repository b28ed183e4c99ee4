----------------------------- MODULE CallService -----------------------------
(***************************************************************************)
(* What the relay promises whoever calls the device through it, without    *)
(* the link: a request runs at most once, whatever becomes of the          *)
(* connection; "busy" and "offline" mean that it did not run and never     *)
(* will, so that the caller may safely try again; a reply means the device *)
(* ran a request; and an answer is final.                                  *)
(***************************************************************************)
EXTENDS Naturals

CONSTANT Requests

VARIABLES asked, answer, served

vars == <<asked, answer, served>>

NotRun == {"busy", "offline"}     \* the answers that say it did not run
Unknown == {"timeout", "gone"}    \* it may have run, or may still run

Init ==
  /\ asked = {}
  /\ answer = [r \in Requests |-> "none"]
  /\ served = [r \in Requests |-> 0]

Ask(r) ==
  /\ r \notin asked
  /\ asked' = asked \cup {r}
  /\ \/ UNCHANGED answer
     \/ answer' = [answer EXCEPT ![r] = "busy"]
  /\ UNCHANGED served

Serve(r) ==
  /\ r \in asked /\ served[r] = 0
  /\ answer[r] \notin NotRun
  /\ served' = [served EXCEPT ![r] = 1]
  /\ UNCHANGED <<asked, answer>>

Answer(r) ==
  /\ r \in asked /\ answer[r] = "none"
  /\ \/ served[r] = 0 /\ answer' = [answer EXCEPT ![r] = "offline"]
     \/ \E o \in Unknown : answer' = [answer EXCEPT ![r] = o]
     \/ \E q \in Requests : served[q] = 1 /\ answer' = [answer EXCEPT ![r] = q]
  /\ UNCHANGED <<asked, served>>

Next == \E r \in Requests : Ask(r) \/ Serve(r) \/ Answer(r)

Spec == Init /\ [][Next]_vars
==============================================================================
