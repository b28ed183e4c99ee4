-------------------------------- MODULE Relay --------------------------------
(***************************************************************************)
(* The remote access relay, both ends: the requests of RelayCalls and the  *)
(* commands of RelayCommands share the link of RelayLink, and the device   *)
(* may restart at any time.                                                *)
(***************************************************************************)
EXTENDS RelayCalls, RelayCommands

CONSTANT Loads   \* bound: how many requests, messages, saves and connections come together

ASSUME LoadsAssumption ==
  Loads \subseteq [requests : Nat, messages : Nat, changes : Nat, connections : Nat]

vars == <<linkVars, callVars, commandVars>>

TypeOK ==
  /\ dev \in BOOLEAN /\ sock \in BOOLEAN /\ closes \in Nat /\ conns \in 0..MaxConns
  /\ \A i \in DOMAIN down : down[i].type \in {"R", "C"}
  /\ \A i \in DOMAIN upq : upq[i].type \in {"H", "E"}
  /\ ~dev => down = <<>>
  /\ ~sock => upq = <<>> /\ ~alarm.live
  /\ CallsTypeOK /\ CommandsTypeOK

Init == LinkInit /\ CallsInit /\ CommandsInit

Asks == Cardinality({r \in Requests : Asked(r)})

Bears(requests, messages, saves, connections) ==
  \E l \in Loads : /\ requests <= l.requests /\ messages <= l.messages
                   /\ saves <= l.changes /\ connections <= l.connections

\* Which of them comes next does not matter: requests are alike
AnotherRequest(r) ==
  /\ Bears(Asks + 1, Len(log), changes, conns)
  /\ r = CHOOSE q \in Requests : ~Asked(q)
AnotherMessage == Bears(Asks, Len(log) + 1, changes, conns)
AnotherChange == Bears(Asks, Len(log), changes + 1, conns)
AnotherConnection == Bears(Asks, Len(log), changes, conns + 1)

(***************************************************************************)
(* The link's own steps, with what they do to calls and commands.          *)
(***************************************************************************)
\* The device connects and says hello; accept wakes the call that waits. When
\* the device gives up, the Worker has a socket that nobody reads.
Connect ==
  /\ AnotherConnection
  /\ Accept(TRUE, Waiting, Hello)
  /\ CallAccepted /\ CommandsAccepted(TRUE)

ConnectFails ==
  /\ AnotherConnection
  /\ Accept(FALSE, <<>>, <<>>)
  /\ CallAccepted /\ CommandsAccepted(FALSE)

Unlink == DeviceCloses /\ CommandsUnlinked /\ UNCHANGED callVars

SocketLost == SocketCloses /\ CallsFail /\ CommandsSocketLost

ReplacedSocketLost == LateClose /\ CallsFail /\ UNCHANGED commandVars

\* Power cut, crash or restart of the device
Boot ==
  /\ CommandsBoot
  /\ dev' = FALSE /\ down' = <<>>
  /\ UNCHANGED <<sock, upq, closes, conns, callVars>>

\* The runtime drops the Worker's object from memory: not with a call or a
\* fetch under way, whose timers and promises keep it
Evict == alarm.at = "idle" /\ ForgetCalls /\ UNCHANGED <<linkVars, commandVars>>

Call ==
  \/ Forward
  \/ WaitEnds
  \/ ReplyEnds
  \/ ServeRequest
  \/ ReplyArrives

Device ==
  \/ \E t \in Wanted : AnotherChange /\ SaveTopic(t)
  \/ AnotherChange /\ SaveToken
  \/ HelloAgain
  \/ CommandArrives
  \/ GraceEnds
  \/ StreamOpens
  \/ StreamCloses
  \/ StreamReads

Worker ==
  \/ HelloArrives
  \/ AlarmFires
  \/ ReleaseEnds
  \/ FetchDone
  \/ FetchFails

Next ==
  \/ (Call \/ \E r \in Requests : AnotherRequest(r) /\ Ask(r) /\ UNCHANGED linkVars) /\ UNCHANGED commandVars
  \/ (Device \/ Worker \/ \E t \in Topics : AnotherMessage /\ Publish(t)) /\ UNCHANGED callVars
  \/ Connect
  \/ ConnectFails
  \/ Unlink
  \/ SocketLost
  \/ ReplacedSocketLost
  \/ Boot
  \/ Evict

(***************************************************************************)
(* Fairness: the Worker's promises and timers settle (an alarm an hour     *)
(* away comes too), the loop pumps what arrives, and ntfy answers now and  *)
(* then. Nothing is assumed of people, nor of the connection, which may be *)
(* gone for good.                                                          *)
(***************************************************************************)
Fairness ==
  /\ WF_vars(Call /\ UNCHANGED commandVars)
  /\ WF_vars((HelloAgain \/ CommandArrives) /\ UNCHANGED callVars)
  /\ WF_vars(HelloArrives /\ UNCHANGED callVars)
  /\ WF_vars(AlarmFires /\ UNCHANGED callVars)
  /\ WF_vars(ReleaseEnds /\ UNCHANGED callVars)
  /\ SF_vars(FetchDone /\ UNCHANGED callVars)

Spec == Init /\ [][Next]_vars /\ Fairness

(***************************************************************************)
(* Safety.                                                                 *)
(***************************************************************************)
Skipped ==
  IF since = NoSince \/ hello = NoTopic \/ Foreign(hello, since) THEN {}
  ELSE {i \in start + 1 .. since.at : log[i] = hello} \ sent

\* docs/REMOTE-ACCESS.md:74: the Worker "sends each command down the relay". So
\* its place never passes a message it did not send, from where the device told
\* it to go on.
EachCommandSent == Skipped = {}

\* What holds of that: a message is passed over only when the hello came while
\* the Worker awaited GitHub or ntfy for that same socket, with a topic or a place
\* other than the alarm's handler goes on to use (worker.mjs:267-276, 288-337)
SkipsOnlyInRace == Skipped # {} => raced

\* A message goes down again - a command toggles or pulses again - only after a
\* hello asked from a place before it, over every reconnection and restart; or
\* after such a race, when the ID of the old topic is stored as the new one's
\* place and the server, which does not know it, answers with the whole topic
\* (worker.mjs:267-276, 288-337)
AgainOnlyIfAsked == ~again

\* The polling neither ends nor slows down: on a connection that is up and wants
\* a topic followed, an alarm is near, or its handler is at work, or the hello is
\* on its way. Except that the release check of a hello without a topic sets the
\* next alarm an hour away, over the one a hello set meanwhile (worker.mjs:275, 295-300)
PollingGoesOn ==
  dev /\ sock /\ hello # NoTopic =>
    \/ armed = "soon" \/ alarm.at # "idle"
    \/ \E i \in DOMAIN upq : upq[i].type = "H"
    \/ armed = "hour" /\ late

(***************************************************************************)
(* Liveness.                                                               *)
(***************************************************************************)
\* On a connection that stays, every message the Worker has to bring arrives:
\* no order of hello, alarm, release check and poll leaves the polling dead, though
\* PollingGoesOn says when it takes an hour (worker.mjs:267-301)
Pending ==
  IF hello = NoTopic \/ since = NoSince THEN {} ELSE From(hello, since)

Undelivered == Pending # {} \/ \E i \in DOMAIN down : down[i].type = "C"

StableLinkDelivers == <>[](dev /\ sock) => <>[]~Undelivered
===============================================================================
