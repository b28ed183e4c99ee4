------------------------------ MODULE RelayCalls ------------------------------
(***************************************************************************)
(* Requests from the internet: class Device of src/relay/worker.mjs takes  *)
(* them one at a time (chain), sends each down the link as an R frame and  *)
(* answers its caller with the device's reply, or says why there is none.  *)
(* The device serves an R frame with HttpServer (RelayService._request).   *)
(***************************************************************************)
EXTENDS RelayLink

CONSTANTS
  Requests,   \* the requests that may come
  MAX_QUEUE,  \* the Worker's bound on requests it has taken and not answered
  IDS         \* call numbers: (id % IDS) + 1, IDS is 65535 in the code

ASSUME CallsAssumption ==
  /\ MAX_QUEUE \in Nat \ {0} /\ IDS \in Nat \ {0}
  /\ Requests \cap {"none", "busy", "offline", "timeout", "gone"} = {}

VARIABLES
  queue,    \* requests taken and not answered, in order: the chain; the first is forwarded
  phase,    \* of the first: waiting for its turn, for a socket, or sent
  id,       \* Device.id
  answer,   \* what each caller got
  served,   \* history: how often the device ran each request
  evicted   \* history: the Worker's memory was dropped after a call

callVars == <<queue, phase, id, answer, served, evicted>>

\* 503 busy and 503 offline, 504, 502, and the device's reply to some request
Outcomes == {"none", "busy", "offline", "timeout", "gone"} \cup Requests

CallsTypeOK ==
  /\ queue \in Seq(Requests) /\ Len(queue) <= MAX_QUEUE
  /\ phase \in {"turn", "socket", "sent"}
  /\ id \in 0..IDS
  /\ answer \in [Requests -> Outcomes]
  /\ served \in [Requests -> Nat]
  /\ evicted \in BOOLEAN
  /\ phase # "turn" => queue # <<>>

CallsInit ==
  /\ queue = <<>> /\ phase = "turn" /\ id = 0
  /\ answer = [r \in Requests |-> "none"]
  /\ served = [r \in Requests |-> 0]
  /\ evicted = FALSE

Asked(r) == answer[r] # "none" \/ r \in {queue[i] : i \in DOMAIN queue}

Room == Len(queue) < MAX_QUEUE

\* Device.fetch of a request
Ask(r) ==
  /\ ~Asked(r)
  /\ \/ Room /\ queue' = Append(queue, r) /\ UNCHANGED answer
     \/ ~Room /\ answer' = [answer EXCEPT ![r] = "busy"] /\ UNCHANGED queue
  /\ UNCHANGED <<phase, id, served, evicted>>

\* The first call ends with an outcome, and the next one has its turn (free)
Done(outcome) ==
  /\ answer' = [answer EXCEPT ![Head(queue)] = outcome]
  /\ queue' = Tail(queue)
  /\ phase' = "turn"

NextId == (id % IDS) + 1
Frame == <<[type |-> "R", id |-> NextId, request |-> Head(queue)]>>

(***************************************************************************)
(* Device.forward: with a socket the request goes down at once, and a      *)
(* device that is not there any more does not show; without one it waits   *)
(* for accept, which sends it (CallAccepted). A send that throws answers   *)
(* 502 at once, as a socket that goes right after does (CallsFail).        *)
(***************************************************************************)
Forward ==
  /\ phase = "turn" /\ queue # <<>>
  /\ \/ sock /\ phase' = "sent" /\ id' = NextId /\ Send(Frame)
     \/ ~sock /\ phase' = "socket" /\ UNCHANGED <<id, linkVars>>
  /\ UNCHANGED <<queue, answer, served, evicted>>

\* What accept sends to the one that waits, and what it does to it
Waiting == IF phase = "socket" THEN Frame ELSE <<>>
CallAccepted ==
  /\ phase' = IF phase = "socket" THEN "sent" ELSE phase
  /\ id' = IF phase = "socket" THEN NextId ELSE id
  /\ UNCHANGED <<queue, answer, served, evicted>>

\* Mutant: the timer of the wait finds nothing to do
WaitForgotten ==
  /\ phase = "socket"
  /\ UNCHANGED <<linkVars, queue, phase, answer, id, served, evicted>>

\* WAIT_MS without a device: offline answers
WaitEnds ==
  /\ phase = "socket" /\ Done("offline")
  /\ UNCHANGED <<linkVars, id, served, evicted>>

\* Mutant: the call keeps waiting for the device to come back
TimeoutWaitsAgain ==
  /\ phase = "sent" /\ phase' = "turn"
  /\ UNCHANGED <<linkVars, queue, answer, id, served, evicted>>

\* REPLY_MS without the answer
ReplyEnds ==
  /\ phase = "sent" /\ Done("timeout")
  /\ UNCHANGED <<linkVars, id, served, evicted>>

\* webSocketClose: every call that was sent fails, whichever socket it was sent on
CallsFail ==
  /\ IF phase = "sent" THEN Done("gone") ELSE UNCHANGED <<queue, phase, answer>>
  /\ UNCHANGED <<id, served, evicted>>

\* RelayService._frame of an R: _request, HttpServer.serve, the D and E frames
ServeRequest ==
  /\ dev /\ down # <<>> /\ Head(down).type = "R"
  /\ LET f == Head(down) IN
       /\ Pump(<<[type |-> "E", id |-> f.id, request |-> f.request]>>)
       /\ served' = [served EXCEPT ![f.request] = @ + 1]
  /\ UNCHANGED <<queue, phase, id, answer, evicted>>

\* Mutant: whatever answer comes is for the call that waits
AnyAnswer(n) == phase = "sent"

Matches(n) == phase = "sent" /\ n = id

\* webSocketMessage of a D or E frame: calls.get of its number
ReplyArrives ==
  /\ sock /\ upq # <<>> /\ Head(upq).type = "E"
  /\ Receive
  /\ IF Matches(Head(upq).id) THEN Done(Head(upq).request)
                              ELSE UNCHANGED <<queue, phase, answer>>
  /\ UNCHANGED <<id, served, evicted>>

\* The runtime drops an idle object from memory, its sockets stay (external)
ForgetCalls ==
  /\ queue = <<>> /\ id # 0
  /\ id' = 0 /\ evicted' = TRUE
  /\ UNCHANGED <<queue, phase, answer, served>>

(***************************************************************************)
(* What a caller may rely on.                                              *)
(***************************************************************************)
\* A caller gets the device's reply to its own request and to no other, as
\* long as the Worker keeps its memory: then the numbers start over while a
\* late answer may still come (worker.mjs:115-117, 175)
AnswerIsOwn ==
  \A r \in Requests : answer[r] \in Requests => answer[r] = r \/ evicted

Calls == INSTANCE CallService WITH asked <- {r \in Requests : Asked(r)}

\* The Worker and the device implement CallService: at most one run of each
\* request, none after "busy" or "offline", one final answer (worker.mjs:125-203, 278)
CallsAtMostOnce == Calls!Spec

\* Every request the Worker takes is answered in the end (timers, and nothing
\* that leaves the chain stuck: worker.mjs:134-136, 163-203)
EveryCallEnds == \A r \in Requests : Asked(r) ~> answer[r] # "none"
===============================================================================
