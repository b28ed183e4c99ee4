---------------------------- MODULE RelayCommands ----------------------------
(***************************************************************************)
(* The ntfy commands on their two ways to the device: its own stream       *)
(* (src/NtfyNotifier.h), and the Worker that polls the topic for it        *)
(* (hello, alarm and commands of src/relay/worker.mjs) and sends  *)
(* each message down the link as a C frame. A place in a topic is          *)
(* remembered three times: by the device (_lastId, in RAM), by the Worker  *)
(* (since, in storage) and by the server, for an open stream.              *)
(*                                                                         *)
(* The server keeps every message, in order (external: messages stay 12 h).*)
(* The Worker's awaits on storage let nothing in between (external: the    *)
(* object's input gate); its awaits on fetch do, the one of the release    *)
(* check as well as the one of the poll. Frames that carry no command      *)
(* (address, release, state, posts) are left out.                          *)
(***************************************************************************)
EXTENDS RelayLink, FiniteSetsExt

CONSTANTS
  Topics,      \* command topics; a topic stands for server and topic
  NoTopic,     \* no command topic set
  NoSince,     \* the Worker has no place stored
  MaxMessages, \* bound: messages published
  MaxChanges   \* bound: settings saved

ASSUME CommandsAssumption ==
  /\ Topics # {} /\ NoTopic \notin Topics /\ NoSince \notin [id : BOOLEAN, at : Nat]
  /\ MaxMessages \in Nat /\ MaxChanges \in Nat

VARIABLES
  \* the server
  log,      \* log[i]: the topic of message i
  \* the device
  topic,    \* Config.ntfy_cmd with ntfy_host
  told,     \* RelayService: the hello of this connection told these settings (_helloSum)
  lastId,   \* NtfyNotifier._lastId, 0 if empty
  grace,    \* RelayService.carries with the link closed: less than GRACE_MS ago
  stream,   \* the server's end of the stream: its topic, the last message put in
  changes,  \* settings saved so far (bounded by MaxChanges)
  \* the Worker's storage, its alarm, and what the alarm's handler holds
  hello,    \* the topic of the last hello (NoTopic: none wanted, or no hello yet)
  since,    \* the place in the topic (NoSince until the first hello)
  released, \* "release": the check was made since the last hello
  armed,    \* setAlarm: not set, within the poll's seconds, or up to an hour away
  alarm,
  \* history
  sent,     \* messages the Worker has sent
  got,      \* the same, but those a hello has asked for again
  again,    \* one of these was sent again, and no race explains it
  start,    \* where the last hello told the Worker to follow the topic
  raced,    \* it came while the Worker awaited an answer for this socket
  late      \* it came during the release check of a hello without a topic

ntfyVars == <<topic, told, lastId, grace, stream, changes>>
pollVars == <<hello, since, released, armed, alarm>>
seenVars == <<sent, got, again, start, raced, late>>
commandVars == <<log, ntfyVars, pollVars, seenVars>>

Ids == 1..MaxMessages
Wanted == Topics \cup {NoTopic}
Closed == [open |-> FALSE, topic |-> NoTopic, at |-> 0]
Idle == [at |-> "idle", live |-> FALSE, topic |-> NoTopic, since |-> NoSince, len |-> 0]

\* A place: the ID of a message, or the moment after message "at"
Places == [id : BOOLEAN, at : 0..MaxMessages]
Message(i) == [id |-> TRUE, at |-> i]
Moment == [id |-> FALSE, at |-> Len(log)]

CommandsTypeOK ==
  /\ log \in Seq(Topics) /\ Len(log) <= MaxMessages
  /\ topic \in Wanted /\ told \in BOOLEAN
  /\ lastId \in 0..MaxMessages /\ grace \in BOOLEAN
  /\ stream \in [open : BOOLEAN, topic : Wanted, at : 0..MaxMessages]
  /\ changes \in 0..MaxChanges
  /\ hello \in Wanted /\ since \in Places \cup {NoSince}
  /\ released \in BOOLEAN /\ armed \in {"no", "soon", "hour"}
  /\ alarm \in [at : {"idle", "release", "fetch"}, live : BOOLEAN, topic : Wanted,
                since : Places \cup {NoSince}, len : 0..MaxMessages]
  /\ sent \subseteq Ids /\ got \subseteq Ids
  /\ again \in BOOLEAN /\ start \in 0..MaxMessages
  /\ raced \in BOOLEAN /\ late \in BOOLEAN
  /\ stream.open => ~dev

CommandsInit ==
  /\ log = <<>>
  /\ topic \in {NoTopic, CHOOSE t \in Topics : TRUE}   \* any topic: they are alike
  /\ told = TRUE
  /\ lastId = 0 /\ grace = TRUE /\ stream = Closed /\ changes = 0
  /\ hello = NoTopic /\ since = NoSince /\ released = FALSE /\ armed = "no" /\ alarm = Idle
  /\ sent = {} /\ got = {} /\ again = FALSE /\ start = 0
  /\ raced = FALSE /\ late = FALSE

(***************************************************************************)
(* The server (external). An ID of another topic is not found there, and   *)
(* the whole topic is answered.                                            *)
(***************************************************************************)
Foreign(t, place) == place.id /\ log[place.at] # t

From(t, place) ==
  {i \in DOMAIN log : log[i] = t /\ (i > place.at \/ Foreign(t, place))}

Publish(t) ==
  /\ Len(log) < MaxMessages
  /\ log' = Append(log, t)
  /\ UNCHANGED <<linkVars, ntfyVars, pollVars, seenVars>>

(***************************************************************************)
(* The device.                                                             *)
(***************************************************************************)
\* The settings are saved on the panel: with another server or topic restart()
\* closes the stream and forgets the last ID (a save that fails: Panel)
SaveTopic(t) ==
  /\ changes < MaxChanges /\ changes' = changes + 1
  /\ topic' = t
  /\ told' = (told /\ (~dev \/ topic = t))
  /\ lastId' = IF t = topic THEN lastId ELSE 0
  /\ stream' = IF t = topic THEN stream ELSE Closed
  /\ UNCHANGED <<linkVars, log, grace, pollVars, seenVars>>

\* Another API token, or another interval: the hello carries them too
SaveToken ==
  /\ changes < MaxChanges /\ changes' = changes + 1
  /\ dev /\ told' = FALSE
  /\ UNCHANGED <<linkVars, log, topic, lastId, grace, stream, pollVars, seenVars>>

\* RelayService._hello: the topic, and where the device left off
Hello == <<[type |-> "H", topic |-> topic,
            since |-> IF topic = NoTopic THEN 0 ELSE lastId]>>

\* RelayService._pump: the settings differ from those of the last hello
HelloAgain ==
  /\ dev /\ ~told
  /\ Tell(Hello)
  /\ told' = TRUE
  /\ UNCHANGED <<log, topic, lastId, grace, stream, changes, pollVars, seenVars>>

\* RelayService._frame of a C: NtfyNotifier.deliver, _onEvent. What becomes of
\* the text is IoTActuator's; with no commands wanted it is dropped.
CommandArrives ==
  /\ dev /\ down # <<>> /\ Head(down).type = "C"
  /\ Pump(<<>>)
  /\ lastId' = IF topic # NoTopic THEN Head(down).message ELSE lastId
  /\ UNCHANGED <<log, topic, told, grace, stream, changes, pollVars, seenVars>>

GraceEnds ==
  /\ ~dev /\ grace /\ grace' = FALSE
  /\ UNCHANGED <<linkVars, log, topic, told, lastId, stream, changes, pollVars, seenVars>>

\* _tickStream, _connect: with a last ID the stream starts after it, without
\* one it starts now
StreamFrom == IF lastId = 0 THEN Len(log) ELSE IF log[lastId] = topic THEN lastId ELSE 0

StreamOpens ==
  /\ ~dev /\ ~grace /\ ~stream.open /\ topic # NoTopic
  /\ stream' = [open |-> TRUE, topic |-> topic, at |-> StreamFrom]
  /\ UNCHANGED <<linkVars, log, topic, told, lastId, grace, changes, pollVars, seenVars>>

\* hold, a lost or stalled stream, no topic any more
StreamCloses ==
  /\ stream.open /\ stream' = Closed
  /\ UNCHANGED <<linkVars, log, topic, told, lastId, grace, changes, pollVars, seenVars>>

InStream == From(stream.topic, [id |-> FALSE, at |-> stream.at])

\* _tickStream, _feed, _onEvent: one line
StreamReads ==
  /\ stream.open /\ topic # NoTopic /\ InStream # {}
  /\ lastId' = Min(InStream)
  /\ stream' = [stream EXCEPT !.at = Min(InStream)]
  /\ UNCHANGED <<linkVars, log, topic, told, grace, changes, pollVars, seenVars>>

(***************************************************************************)
(* The Worker.                                                             *)
(***************************************************************************)
PlaceAfter(h) ==
  IF h.since # 0 THEN Message(h.since)
  ELSE IF since = NoSince \/ hello # h.topic THEN Moment ELSE since

\* The alarm's handler will use a topic or a place that this hello replaces:
\* the poll under way has both, the release check before it the topic only
Races(h) ==
  /\ alarm.live
  /\ \/ alarm.at = "release" /\ alarm.topic \notin {NoTopic, h.topic}
     \/ alarm.at = "fetch" /\ (alarm.topic # h.topic \/ alarm.since # PlaceAfter(h))

\* Mutant: an alarm that is set already is left alone
SoonIfUnset == IF armed = "no" THEN "soon" ELSE armed

Soon == "soon"

\* Device.hello
HelloArrives ==
  /\ sock /\ upq # <<>> /\ Head(upq).type = "H"
  /\ Receive
  /\ LET h == Head(upq)
         anew == h.since # 0 \/ since = NoSince \/ hello # h.topic
     IN /\ hello' = h.topic
        /\ since' = PlaceAfter(h)
        /\ start' = IF anew THEN PlaceAfter(h).at ELSE start
        /\ raced' = ((raced /\ ~anew) \/ Races(h))
        /\ got' = IF h.since = 0 THEN got ELSE got \ From(h.topic, Message(h.since))
  /\ late' = (alarm.at = "release" /\ alarm.topic = NoTopic)
  /\ released' = FALSE /\ armed' = Soon
  /\ UNCHANGED <<log, ntfyVars, alarm, sent, again>>

(***************************************************************************)
(* Device.alarm: the socket and the hello of now are used to its end. The  *)
(* release check, when the hour is over or a hello came, awaits GitHub;    *)
(* only then is the place read, and used after the poll's fetch. Without a *)
(* device the polling ends, until the next hello; without a topic the next *)
(* alarm is the next release check. setAlarm moves the one alarm there is. *)
(***************************************************************************)
Looks(t, live) ==
  \/ /\ t # NoTopic
     /\ alarm' = [at |-> "fetch", live |-> live, topic |-> t, since |-> since, len |-> Len(log)]
     /\ armed' = IF alarm.at = "idle" THEN "no" ELSE armed
  \/ t = NoTopic /\ alarm' = Idle /\ armed' = "hour"

AlarmFires ==
  /\ armed # "no" /\ alarm.at = "idle"
  /\ \/ (~sock \/ since = NoSince) /\ armed' = "no" /\ UNCHANGED alarm
     \/ /\ sock /\ since # NoSince /\ armed' = "no"
        /\ alarm' = [Idle EXCEPT !.at = "release", !.live = TRUE, !.topic = hello]
     \/ sock /\ since # NoSince /\ released /\ armed = "soon" /\ Looks(hello, TRUE)
  /\ UNCHANGED <<linkVars, log, ntfyVars, hello, since, released, seenVars>>

\* Device.release has its answer, or none
ReleaseEnds ==
  /\ alarm.at = "release"
  /\ Looks(alarm.topic, alarm.live)
  /\ released' = TRUE
  /\ UNCHANGED <<linkVars, log, ntfyVars, hello, since, seenVars>>

\* Mutants: the place moves on to now, or to the first message only
PlaceIsNow(ids) == Moment
FirstOf(ids) == Message(Min(ids))

LastOf(ids) == Message(Max(ids))

InOrder(ids) ==
  {order \in [1..Cardinality(ids) -> ids] :
     \A m, n \in 1..Cardinality(ids) : m < n => order[m] < order[n]}

(***************************************************************************)
(* Device.commands after its fetch: the messages the server had when it    *)
(* answered go down in order, and the place is stored after them. A socket *)
(* that was replaced or closed throws, and the place stays.                *)
(***************************************************************************)
FetchDone ==
  /\ alarm.at = "fetch"
  /\ \E cut \in alarm.len .. Len(log) :
       LET ids == {i \in From(alarm.topic, alarm.since) : i <= cut}
       IN IF alarm.live /\ ids # {}
          THEN /\ \E order \in InOrder(ids) :
                    Send([n \in 1..Cardinality(ids) |-> [type |-> "C", message |-> order[n]]])
               /\ since' = LastOf(ids)
               /\ sent' = sent \cup ids
               /\ got' = got \cup ids
               /\ again' = (again \/ (~raced /\ ids \cap got # {}))
          ELSE UNCHANGED <<linkVars, since, sent, got, again>>
  /\ alarm' = Idle /\ armed' = "soon"
  /\ UNCHANGED <<log, ntfyVars, hello, released, start, raced, late>>

\* Mutant: a failed fetch is the end of the polling
FailsUnarmed ==
  /\ alarm.at = "fetch"
  /\ alarm' = Idle
  /\ UNCHANGED <<linkVars, log, ntfyVars, hello, since, released, armed, seenVars>>

\* ntfy unreachable, or an error: next round
FetchFails ==
  /\ alarm.at = "fetch"
  /\ alarm' = Idle /\ armed' = "soon"
  /\ UNCHANGED <<linkVars, log, ntfyVars, hello, since, released, seenVars>>

(***************************************************************************)
(* What changes of the commands with the link.                             *)
(***************************************************************************)
SocketGone == alarm' = [alarm EXCEPT !.live = FALSE]

CommandsAccepted(ok) ==
  /\ SocketGone
  /\ stream' = Closed
  /\ told' = TRUE
  /\ grace' = (grace \/ ok)
  /\ UNCHANGED <<log, topic, lastId, changes, hello, since, released, armed, seenVars>>

CommandsUnlinked ==
  /\ grace' = TRUE /\ told' = TRUE
  /\ UNCHANGED <<log, topic, lastId, stream, changes, pollVars, seenVars>>

CommandsSocketLost ==
  /\ SocketGone
  /\ UNCHANGED <<log, ntfyVars, hello, since, released, armed, seenVars>>

\* The device restarts: what is in RAM is gone
CommandsBoot ==
  /\ told' = TRUE /\ lastId' = 0 /\ grace' = TRUE /\ stream' = Closed
  /\ UNCHANGED <<log, topic, changes, pollVars, seenVars>>
==============================================================================
