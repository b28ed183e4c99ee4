------------------------------- MODULE AppLoop -------------------------------
(***************************************************************************)
(* src/App.h: one pass of the main loop, as far as the network goes. The   *)
(* services that need a TLS session are abstracted to what decides the     *)
(* turn: whether they want it, and whether a session of theirs is open.    *)
(*                                                                         *)
(* App.tick is one thread, so its stages are a program counter. millis()   *)
(* is read once per pass, so timers run out only between passes; the       *)
(* association, the heap and the peers' packets change at any time.        *)
(***************************************************************************)
EXTENDS NetArbiter, UpdateTurn

CONSTANT Requests   \* the one-shot requests this device is set up to make

OneShot == {"IP", "DNS", "SETUP", "POST"}

ASSUME RequestsAssumption == Requests \subseteq OneShot

VARIABLES
  pc,         \* the stage of App.tick
  go,         \* App.tick's "go": the owner may use the network (FALSE between passes)
  wifi,       \* WiFi.status() == WL_CONNECTED
  due,        \* the one-shot requests whose timer or job is due
  request,    \* the one-shot request whose blocking session is open
  deployed,   \* RelayService.configured()
  relay,      \* RelayService: due to connect, backing off, or up
  grace,      \* the relay closed less than GRACE_MS ago
  knownIP,    \* RelayService._public: this connection's Worker told the address
  ipNews,     \* RelayService._ipNew
  latest,     \* RelayService._latest, if not taken yet
  commands,   \* NtfyNotifier.wantsCommands()
  stream,     \* NtfyNotifier's command stream: idle, waiting to connect, open
  announced   \* history: this pass took a newer release that made a check due

loopVars == <<pc, go, wifi>>
oneShotVars == <<due, request>>
relayVars == <<deployed, relay, grace, knownIP, ipNews, latest>>
streamVars == <<commands, stream>>
vars == <<arbiterVars, loopVars, updateVars, oneShotVars, relayVars, streamVars,
          announced>>

TypeOK ==
  /\ ArbiterTypeOK
  /\ pc \in {"panel", "grant", "turn", "request", "ota", "relay", "pump"}
  /\ go \in BOOLEAN /\ slim \in BOOLEAN /\ wifi \in BOOLEAN /\ restarting \in BOOLEAN
  /\ ota \in {"idle", "armed", "backoff", "session"}
  /\ otaDue \in BOOLEAN
  /\ due \subseteq Requests
  /\ request \in OneShot \cup {NONE}
  /\ deployed \in BOOLEAN
  /\ relay \in {"due", "backoff", "up"}
  /\ grace \in BOOLEAN /\ knownIP \in BOOLEAN /\ ipNews \in BOOLEAN
  /\ latest \in {"none", "old", "newer"}
  /\ commands \in BOOLEAN
  /\ stream \in {"idle", "wait", "open"}
  /\ announced \in BOOLEAN

(***************************************************************************)
(* Boot, scheduled restart or power cut: only flash survives, and of it    *)
(* the loop sees whether /ota.pending asks for recovery and whether the    *)
(* relay and the command topic are set up. The association comes later.    *)
(***************************************************************************)
Boot ==
  /\ pc = "panel" /\ go = FALSE /\ wifi = FALSE
  /\ UpdateInit
  /\ due = {} /\ request = NONE
  /\ deployed \in BOOLEAN /\ relay = "due" /\ grace = TRUE
  /\ knownIP = FALSE /\ ipNews = FALSE /\ latest = "none"
  /\ commands \in BOOLEAN /\ stream = "idle"
  /\ announced = FALSE

Init == ArbiterInit /\ Boot

Restart ==
  /\ owner' = NONE /\ starved' = FALSE /\ waited' = 0
  /\ pc' = "panel" /\ go' = FALSE /\ wifi' = FALSE
  /\ Rebooted
  /\ due' = {} /\ request' = NONE
  /\ relay' = "due" /\ grace' = TRUE
  /\ knownIP' = FALSE /\ ipNews' = FALSE /\ latest' = "none"
  /\ stream' = "idle"
  /\ announced' = FALSE
  /\ UNCHANGED <<deployed, commands>>   \* config.json

(***************************************************************************)
(* The TLS sessions open now. The property the whole design serves is that *)
(* there is at most one.                                                   *)
(***************************************************************************)
Open == {w \in Who : \/ w = "OTA" /\ ota = "session"
                     \/ w = "RELAY" /\ relay = "up"
                     \/ w = "STREAM" /\ stream = "open"
                     \/ w = request}

\* Mutant: the stream takes over the moment the relay is down
CarriesWhileUp == relay = "up"

Carries == relay = "up" \/ (deployed /\ grace)   \* RelayService::carries

RelayWantsNet == deployed /\ wifi /\ relay \in {"up", "due"}

(***************************************************************************)
(* The stages before the turn: web.tick (a request of someone at home) and *)
(* the timers that ran out since the last pass.                            *)
(***************************************************************************)
\* What a panel or API request changes here; also served through the relay
PanelRequest ==
  \/ /\ Asked \/ AutomaticOff          \* a check, an install; automatic updates off
     /\ UNCHANGED <<due, deployed, commands, stream>>
  \/ /\ "SETUP" \in Requests            \* a Cloudflare job
     /\ due' = due \cup {"SETUP"}
     /\ UNCHANGED <<updateVars, deployed, commands, stream>>
  \/ /\ deployed' = FALSE               \* remote access off
     /\ UNCHANGED <<updateVars, due, commands, stream>>
  \/ /\ commands' = ~commands           \* another command topic: ntfy.restart
     /\ stream' = "idle"
     /\ UNCHANGED <<updateVars, due, deployed>>

Panel ==
  /\ pc = "panel" /\ ~slim
  /\ PanelRequest
  /\ UNCHANGED <<arbiterVars, loopVars, request, relay, grace, knownIP, ipNews, latest,
                 announced>>

Elapse ==
  /\ pc = "panel"
  /\ \/ /\ \E w \in Requests \ due : /\ w = "SETUP" => ~deployed   \* cfsetup.redeploy
                                     /\ due' = due \cup {w}
        /\ UNCHANGED <<updateVars, relay, grace, stream>>
     \/ /\ RetryDue \/ CheckDue \/ RestartScheduled
        /\ UNCHANGED <<due, relay, grace, stream>>
     \/ /\ relay = "backoff" /\ relay' = "due"
        /\ UNCHANGED <<updateVars, due, grace, stream>>
     \/ /\ relay # "up" /\ grace' = FALSE
        /\ UNCHANGED <<updateVars, due, relay, stream>>
     \/ /\ stream = "wait" /\ stream' = "idle"
        /\ UNCHANGED <<updateVars, due, relay, grace>>
  /\ UNCHANGED <<arbiterVars, loopVars, request, deployed, knownIP, ipNews, latest, commands,
                 announced>>

PanelDone ==
  /\ pc = "panel" /\ pc' = "grant"
  /\ UNCHANGED <<arbiterVars, go, wifi, updateVars, oneShotVars, relayVars,
                 streamVars, announced>>

(***************************************************************************)
(* The turn: who wants the network, who gets it, and everyone else lets    *)
(* go of theirs.                                                           *)
(***************************************************************************)
\* ota.offerLatest, with what the relay brought
OfferLatest ==
  /\ IF latest = "none" THEN UNCHANGED updateVars ELSE Offered(latest)
  /\ announced' = (latest = "newer" /\ ~OtaBusy /\ otaDue')

\* resolver.offer: this period's check is done, and a new address has to go
\* to DNS and ntfy
OfferIP(offered) ==
  \/ ~ipNews /\ offered = due
  \/ ipNews /\ \E extra \in SUBSET ({"DNS", "POST"} \cap Requests) :
                 offered = (due \ {"IP"}) \cup extra

\* pending: the one-shot requests due, after the offers and a post sent up the
\* relay; a post needs no association to be due
Wants(pending) ==
  (IF OtaWantsNet THEN {"OTA"} ELSE {})
  \cup (IF slim THEN {}
        ELSE {w \in pending : \/ w = "IP" /\ wifi /\ ~(relay = "up" /\ knownIP)
                              \/ w \in {"DNS", "SETUP"} /\ wifi
                              \/ w = "POST"}
             \cup (IF RelayWantsNet THEN {"RELAY"} ELSE {})
             \cup (IF commands /\ ~Carries THEN {"STREAM"} ELSE {}))

\* With the relay up its Worker sends the post: no session of the device's
PostedUpTheRelay(offered) ==
  IF ~slim /\ relay = "up" THEN offered \ {"POST"} ELSE offered

\* Mutant: the relay is not told to let go
RelayKept(who) == UNCHANGED <<relay, grace>>

RelayHold(who) ==
  IF who # "RELAY" /\ relay = "up"
  THEN relay' = "due" /\ grace' = TRUE
  ELSE UNCHANGED <<relay, grace>>

\* ntfy.hold and ntfy.relayed(relay.carries), after relay.hold
StreamHold(who) ==
  stream' = IF who # "STREAM" \/ relay' = "up" \/ (deployed /\ grace') THEN "idle" ELSE stream

\* App::_running
Running(who) ==
  \/ who = "OTA" /\ ota = "session"
  \/ who = "RELAY" /\ relay = "up"
  \/ who = "STREAM" /\ stream = "open"

\* fits: whether the heap has room for the session, which only the heap knows
GrantTurn ==
  /\ pc = "grant" /\ pc' = "turn"
  /\ ipNews' = FALSE /\ latest' = "none"
  /\ OfferLatest
  /\ \E offered \in SUBSET Requests, fits \in BOOLEAN :
       LET pending == PostedUpTheRelay(offered)
           who     == Grant(Wants(pending))
       IN  /\ OfferIP(offered)
           /\ due' = pending
           /\ RelayHold(who)
           /\ StreamHold(who)
           /\ Turn(who, Running(who), fits)
           /\ go' = Ready(who, Running(who), fits)
  /\ UNCHANGED <<wifi, request, deployed, knownIP, commands>>

(***************************************************************************)
(* The blocking requests: the session lasts as long as the call.           *)
(***************************************************************************)
\* OTA's and the relay's turns come later in the pass, and an attempt without
\* enough memory counts as one
TurnWithoutSession ==
  /\ pc = "turn" /\ pc' = "ota"
  /\ \/ /\ owner \notin OneShot \cup {"STREAM"} \/ ~go
        /\ due' = due
     \/ /\ owner \in OneShot /\ go
        /\ due' = IF wifi \/ owner = "POST" THEN due \ {owner} ELSE due
  /\ UNCHANGED <<arbiterVars, go, wifi, updateVars, request, relayVars,
                 streamVars, announced>>

BeginRequest ==
  /\ pc = "turn" /\ pc' = "request"
  /\ go /\ owner \in due
  /\ owner # "POST" => wifi
  /\ request' = owner
  /\ stream' = IF owner = "POST" THEN "idle" ELSE stream
  /\ UNCHANGED <<arbiterVars, go, wifi, updateVars, due, relayVars, commands,
                 announced>>

\* A new address is due at DNS and ntfy, a new record at DNS, and a deploy
\* sets the relay up to connect at once
EndRequest ==
  /\ pc = "request" /\ pc' = "ota"
  /\ request' = NONE
  /\ \E news \in SUBSET ({"DNS", "POST"} \cap Requests) :
       /\ request \in {"DNS", "POST"} => news = {}
       /\ request = "SETUP" => news \subseteq {"DNS"}
       /\ due' = (due \ {request}) \cup news
  /\ \/ /\ request = "SETUP"
        /\ deployed' = TRUE /\ relay' = "due"
     \/ UNCHANGED <<deployed, relay>>
  /\ UNCHANGED <<arbiterVars, go, wifi, updateVars, grace, knownIP, ipNews,
                 latest, streamVars, announced>>

\* NtfyNotifier::_tickStream: closes without an association, connects (or
\* fails and waits), or reads on until the server drops it
StreamTurn ==
  /\ pc = "turn" /\ pc' = "ota"
  /\ owner = "STREAM" /\ go
  /\ IF Carries \/ ~commands \/ ~wifi THEN stream' = "idle"
     ELSE \/ stream = "idle" /\ stream' \in {"open", "wait"}
          \/ stream = "wait" /\ stream' = "wait"
          \/ stream = "open" /\ stream' \in {"open", "wait"}
  /\ UNCHANGED <<arbiterVars, go, wifi, updateVars, oneShotVars, relayVars,
                 commands, announced>>

(***************************************************************************)
(* ota.tick, on every pass but one where OTA's own turn is not ready.      *)
(***************************************************************************)
OtaTicks == owner # "OTA" \/ go

\* A check or a download starts, if there is one to start
OtaOpens ==
  /\ pc = "ota" /\ pc' = "relay"
  /\ OtaTicks /\ wifi /\ OtaBegins
  /\ UNCHANGED <<arbiterVars, go, wifi, oneShotVars, relayVars, streamVars, announced>>

OtaPump ==
  /\ pc = "ota" /\ pc' = "relay"
  /\ OtaTicks /\ OtaGoesOn
  /\ UNCHANGED <<arbiterVars, go, wifi, oneShotVars, relayVars, streamVars, announced>>

OtaSkips ==
  /\ pc = "ota" /\ ~(OtaTicks /\ ((wifi /\ OtaStarts) \/ ota = "session"))
  /\ pc' = "relay"
  /\ UNCHANGED <<arbiterVars, go, wifi, updateVars, oneShotVars, relayVars,
                 streamVars, announced>>

(***************************************************************************)
(* relay.tick, on every pass but one where its own turn is not ready.      *)
(***************************************************************************)
RelayTicks == owner # "RELAY" \/ go

\* Its turn waits for the heap
RelaySkips ==
  /\ pc = "relay" /\ pc' = "panel"
  /\ ~RelayTicks
  /\ UNCHANGED <<arbiterVars, go, wifi, updateVars, oneShotVars, relayVars,
                 streamVars, announced>>

\* Held, not set up or without an association: closed (hold did it already)
RelayCloses ==
  /\ pc = "relay" /\ pc' = "panel" /\ go' = FALSE
  /\ RelayTicks /\ (owner # "RELAY" \/ ~deployed \/ ~wifi)
  /\ IF relay = "up" THEN relay' = "due" /\ grace' = TRUE ELSE UNCHANGED <<relay, grace>>
  /\ UNCHANGED <<arbiterVars, wifi, updateVars, oneShotVars, deployed,
                 knownIP, ipNews, latest, streamVars, announced>>

\* The connection comes up, or the next try waits
RelayConnects ==
  /\ pc = "relay" /\ pc' = "panel" /\ go' = FALSE
  /\ owner = "RELAY" /\ go /\ deployed /\ wifi /\ relay = "due"
  /\ \/ relay' = "up" /\ knownIP' = FALSE
     \/ relay' = "backoff" /\ UNCHANGED knownIP
  /\ UNCHANGED <<arbiterVars, wifi, updateVars, oneShotVars, deployed, grace,
                 ipNews, latest, streamVars, announced>>

RelayPumps ==
  /\ pc = "relay" /\ pc' = "pump"
  /\ owner = "RELAY" /\ go /\ deployed /\ wifi /\ relay = "up"
  /\ UNCHANGED <<arbiterVars, go, wifi, updateVars, oneShotVars, relayVars,
                 streamVars, announced>>

\* A frame of the Worker: the address, the latest release or a request; several
\* may be read in one pass
RelayFrame ==
  /\ pc = "pump"
  /\ \/ /\ ipNews' = TRUE /\ knownIP' = TRUE
        /\ UNCHANGED <<updateVars, due, deployed, commands, stream, latest>>
     \/ /\ latest' \in {"old", "newer"}
        /\ UNCHANGED <<updateVars, due, deployed, commands, stream, ipNews, knownIP>>
     \/ /\ PanelRequest
        /\ UNCHANGED <<ipNews, knownIP, latest>>
  /\ UNCHANGED <<arbiterVars, loopVars, request, relay, grace, announced>>

\* No more frames for this pass; a lost, stalled or closed connection backs off
RelayDone ==
  /\ pc = "pump" /\ pc' = "panel" /\ go' = FALSE
  /\ \/ UNCHANGED <<relay, grace>>
     \/ relay' = "backoff" /\ grace' = TRUE
  /\ UNCHANGED <<arbiterVars, wifi, updateVars, oneShotVars, deployed,
                 knownIP, ipNews, latest, streamVars, announced>>

WifiChanges ==
  /\ wifi' = ~wifi
  /\ UNCHANGED <<arbiterVars, pc, go, updateVars, oneShotVars, relayVars,
                 streamVars, announced>>

TurnStep  == TurnWithoutSession \/ BeginRequest \/ StreamTurn
OtaStep   == OtaOpens \/ OtaPump \/ OtaSkips
RelayStep == RelaySkips \/ RelayCloses \/ RelayConnects \/ RelayPumps

Next ==
  \/ Panel \/ Elapse \/ PanelDone
  \/ GrantTurn
  \/ TurnWithoutSession \/ BeginRequest \/ EndRequest \/ StreamTurn
  \/ OtaOpens \/ OtaPump \/ OtaSkips
  \/ RelaySkips \/ RelayCloses \/ RelayConnects \/ RelayPumps
  \/ RelayFrame \/ RelayDone
  \/ WifiChanges
  \/ Restart

\* loop() calls App.tick forever and every call in it has a timeout
Fairness ==
  /\ WF_vars(PanelDone)
  /\ WF_vars(GrantTurn)
  /\ WF_vars(TurnStep)
  /\ WF_vars(EndRequest)
  /\ WF_vars(OtaStep)
  /\ WF_vars(RelayStep)
  /\ WF_vars(RelayDone)

Spec == Init /\ [][Next]_vars /\ Fairness

(***************************************************************************)
(* Properties                                                              *)
(***************************************************************************)

\* NetArbiter.h's promise, as it reads: one TLS session at a time. The code
\* does not keep it (see OneSessionButAnnounced).
OneSession == \A a, b \in Open : a = b

\* Two sessions are open at once only when GitHub's was opened in the very
\* pass that took the news of a newer release from the relay: App.tick asks
\* ota.wantsNet before it passes the news on, and ota.tick runs on every turn
\* but OTA's own when that is not ready.
OneSessionButAnnounced ==
  \A a, b \in Open : a # b => announced /\ "OTA" \in {a, b}

\* The ntfy stream and the relay's Worker bring the same commands: the stream is
\* never open while the relay is up or closed less than GRACE_MS ago, or a
\* command would run twice.
StreamOnlyWithoutRelay == stream = "open" => relay # "up" /\ ~(deployed /\ grace)

\* Two sessions do not stay: again and again there is at most one.
OverlapEnds == []<>OneSession

\* Once the association holds and the device stays up, a check or an install
\* someone asked for does not wait forever for its turn, whatever the heap and
\* the other services do.
RequestRuns ==
  <>[](wifi /\ ~restarting) /\ <>[][~Restart]_vars => []<>(ota # "armed")
=============================================================================
