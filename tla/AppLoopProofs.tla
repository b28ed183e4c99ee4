--------------------------- MODULE AppLoopProofs ----------------------------
(***************************************************************************)
(* The safety of the loop's turns (AppLoop), for every WAIT_MS and every   *)
(* set of one-shot requests.                                               *)
(***************************************************************************)
EXTENDS AppLoop, TLAPS

(***************************************************************************)
(* grant() gives the turn to someone who wants it, and to OTA whenever it  *)
(* is among them.                                                          *)
(***************************************************************************)
LEMMA GrantToWanting ==
  ASSUME NEW wants \in SUBSET Who
  PROVE  /\ Grant(wants) \in Who \cup {NONE}
         /\ wants # {} => Grant(wants) \in wants
         /\ "OTA" \in wants => Grant(wants) = "OTA"
<1>1. wants # {} => \E w \in wants : \A o \in wants : Priority[w] <= Priority[o]
  <2>1. CASE "OTA" \in wants    BY <2>1 DEF Priority, Who
  <2>2. CASE "OTA" \notin wants /\ "IP" \in wants   BY <2>2 DEF Priority, Who
  <2>3. CASE wants \subseteq Who \ {"OTA", "IP"} /\ "DNS" \in wants
    BY <2>3 DEF Priority, Who
  <2>4. CASE wants \subseteq {"SETUP", "POST", "RELAY", "STREAM"} /\ "SETUP" \in wants
    BY <2>4 DEF Priority, Who
  <2>5. CASE wants \subseteq {"POST", "RELAY", "STREAM"} /\ "POST" \in wants
    BY <2>5 DEF Priority, Who
  <2>6. CASE wants \subseteq {"RELAY", "STREAM"} /\ "RELAY" \in wants
    BY <2>6 DEF Priority, Who
  <2>7. CASE wants \subseteq {"STREAM"}
    <3>1. wants # {} => "STREAM" \in wants    BY <2>7
    <3> QED BY <3>1, <2>7 DEF Priority
  <2> QED BY <2>1, <2>2, <2>3, <2>4, <2>5, <2>6, <2>7 DEF Who
<1>2. wants # {} => Grant(wants) \in wants /\ \A o \in wants : Priority[Grant(wants)] <= Priority[o]
  BY <1>1 DEF Grant
<1>3. \A w \in Who : Priority[w] <= Priority["OTA"] => w = "OTA"
  BY DEF Priority, Who
<1> QED BY <1>2, <1>3 DEF Grant, NONE

(***************************************************************************)
(* The inductive invariant. A session of the relay, of the stream or of a  *)
(* one-shot request is open only in its own turn. OTA's is open in its own *)
(* turn too, or else this pass took the news of a newer release: between   *)
(* grant and ota.tick nothing but that news can make OTA want the network. *)
(***************************************************************************)
OtherSessions ==
  /\ relay = "up" => owner = "RELAY"
  /\ stream = "open" => owner = "STREAM"
  /\ request # NONE => request \in OneShot /\ request = owner /\ pc = "request"
  /\ pc = "pump" => owner = "RELAY"

OtaSession ==
  /\ pc \in {"turn", "request", "ota"} /\ owner # "OTA" =>
       ota = "idle" /\ (otaDue => announced)
  /\ ota = "session" /\ owner # "OTA" => announced

IInv == TypeOK /\ OtherSessions /\ OtaSession /\ StreamOnlyWithoutRelay

(***************************************************************************)
(* The turn that GrantTurn gives: whoever it is, it is well typed, and it  *)
(* is OTA's whenever OTA wanted the network.                               *)
(***************************************************************************)
LEMMA WantsAreServices ==
  ASSUME NEW pending \in SUBSET Requests
  PROVE  /\ Wants(pending) \in SUBSET Who
         /\ OtaWantsNet <=> "OTA" \in Wants(pending)
<1>1. pending \subseteq OneShot    BY RequestsAssumption
<1>2. "OTA" \notin pending    BY <1>1 DEF OneShot
<1> QED BY <1>1, <1>2 DEF Wants, Who, OneShot

LEMMA TurnTyped ==
  ASSUME ArbiterTypeOK, NEW who \in Who \cup {NONE}, NEW fits \in BOOLEAN,
         NEW running \in BOOLEAN, Turn(who, running, fits)
  PROVE  ArbiterTypeOK' /\ Ready(who, running, fits) \in BOOLEAN
<1>1. WaitedBy(who) \in 0 .. WAIT_MS    BY WaitAssumption DEF WaitedBy, ArbiterTypeOK
<1>2. starved' \in BOOLEAN /\ (who = NONE => ~starved')    BY DEF Turn
<1>3. waited' \in 0 .. WAIT_MS    BY <1>1, WaitAssumption DEF Turn
<1>4. Ready(who, running, fits) \in BOOLEAN    BY DEF Ready
<1> QED BY <1>2, <1>3, <1>4 DEF Turn, ArbiterTypeOK

(***************************************************************************)
(* Type correctness.                                                       *)
(***************************************************************************)
LEMMA InitTyped == Init => TypeOK
<1> SUFFICES ASSUME Init PROVE TypeOK
  OBVIOUS
<1>1. ArbiterTypeOK
  <2>1. waited \in 0 .. WAIT_MS    BY WaitAssumption DEF Init, ArbiterInit
  <2>2. owner \in Who \cup {NONE} /\ starved \in BOOLEAN /\ ~starved
    BY DEF Init, ArbiterInit
  <2> QED BY <2>1, <2>2 DEF ArbiterTypeOK
<1>2. ota \in {"idle", "armed"} /\ due \subseteq Requests    BY DEF Init, Boot, UpdateInit
<1> QED BY <1>1, <1>2 DEF Init, Boot, UpdateInit, TypeOK

LEMMA GrantTyped == TypeOK /\ GrantTurn => TypeOK'
<1> SUFFICES ASSUME TypeOK, GrantTurn PROVE TypeOK'
  OBVIOUS
<1>1. PICK offered \in SUBSET Requests, fits \in BOOLEAN :
        LET pending == PostedUpTheRelay(offered)
            who     == Grant(Wants(pending))
        IN  /\ OfferIP(offered)
            /\ due' = pending
            /\ RelayHold(who)
            /\ StreamHold(who)
            /\ Turn(who, Running(who), fits)
            /\ go' = Ready(who, Running(who), fits)
  BY DEF GrantTurn
<1> DEFINE pending == PostedUpTheRelay(offered)
           who     == Grant(Wants(pending))
<1>2. pending \in SUBSET Requests    BY DEF PostedUpTheRelay
<1>3. who \in Who \cup {NONE}    BY <1>2, WantsAreServices, GrantToWanting
<1>4. Running(who) \in BOOLEAN    BY DEF Running
<1>5. ArbiterTypeOK' /\ Ready(who, Running(who), fits) \in BOOLEAN
  <2> HIDE DEF who
  <2> QED BY <1>1, <1>3, <1>4, TurnTyped DEF TypeOK, who
<1>6. /\ otaDue' \in BOOLEAN /\ announced' \in BOOLEAN
      /\ UNCHANGED <<ota, slim, restarting>>
  BY DEF GrantTurn, OfferLatest, Offered, updateVars, TypeOK
<1>7. relay' \in {"due", "backoff", "up"} /\ grace' \in BOOLEAN
  BY <1>1 DEF RelayHold, TypeOK
<1>8. stream' \in {"idle", "wait", "open"}
  BY <1>1 DEF StreamHold, TypeOK
<1> QED BY <1>1, <1>2, <1>5, <1>6, <1>7, <1>8 DEF GrantTurn, TypeOK

LEMMA RestartTyped == TypeOK /\ Restart => TypeOK'
<1> SUFFICES ASSUME TypeOK, Restart PROVE TypeOK'
  OBVIOUS
<1>1. ArbiterTypeOK'
  <2>1. waited' \in 0 .. WAIT_MS    BY WaitAssumption DEF Restart
  <2>2. owner' \in Who \cup {NONE} /\ starved' \in BOOLEAN /\ ~starved'    BY DEF Restart
  <2> QED BY <2>1, <2>2 DEF ArbiterTypeOK
<1>2. ota' \in {"idle", "armed"} /\ due' \subseteq Requests    BY DEF Restart, Rebooted
<1> QED BY <1>1, <1>2 DEF Restart, Rebooted, TypeOK

LEMMA PanelTyped == TypeOK /\ PanelRequest =>
    /\ ota' \in {"idle", "armed", "backoff", "session"} /\ otaDue' \in BOOLEAN
    /\ due' \subseteq Requests /\ deployed' \in BOOLEAN
    /\ commands' \in BOOLEAN /\ stream' \in {"idle", "wait", "open"}
    /\ UNCHANGED <<slim, restarting>>
BY DEF TypeOK, PanelRequest, Asked, AutomaticOff, updateVars

LEMMA NextTyped == TypeOK /\ [Next]_vars => TypeOK'
<1> SUFFICES ASSUME TypeOK, [Next]_vars PROVE TypeOK'
  OBVIOUS
<1> USE DEF arbiterVars, loopVars, updateVars, oneShotVars, relayVars, streamVars
<1>0. ArbiterTypeOK    BY DEF TypeOK
<1>a. UNCHANGED arbiterVars => ArbiterTypeOK'    BY <1>0 DEF ArbiterTypeOK
<1>1. CASE Panel    BY <1>1, <1>a, PanelTyped DEF Panel, TypeOK
<1>2. CASE Elapse
  <2>1. ota' \in {"idle", "armed", "backoff", "session"} /\ otaDue' \in BOOLEAN
    BY <1>2 DEF Elapse, RetryDue, CheckDue, RestartScheduled, TypeOK
  <2>4. slim' \in BOOLEAN /\ restarting' \in BOOLEAN
    BY <1>2 DEF Elapse, RetryDue, CheckDue, RestartScheduled, TypeOK
  <2>2. due' \subseteq Requests /\ stream' \in {"idle", "wait", "open"}
    BY <1>2 DEF Elapse, TypeOK
  <2>3. relay' \in {"due", "backoff", "up"} /\ grace' \in BOOLEAN
    BY <1>2 DEF Elapse, TypeOK
  <2> QED BY <1>2, <1>a, <2>1, <2>2, <2>3, <2>4 DEF Elapse, TypeOK
<1>3. CASE PanelDone    BY <1>3, <1>a DEF PanelDone, TypeOK
<1>4. CASE GrantTurn    BY <1>4, GrantTyped
<1>5. CASE TurnWithoutSession    BY <1>5, <1>a DEF TurnWithoutSession, TypeOK
<1>6. CASE BeginRequest
  <2>1. request' \in OneShot
    BY <1>6, RequestsAssumption DEF BeginRequest, TypeOK
  <2> QED BY <1>6, <1>a, <2>1 DEF BeginRequest, TypeOK
<1>7. CASE EndRequest
  <2>1. due' \subseteq Requests    BY <1>7 DEF EndRequest, TypeOK
  <2>2. deployed' \in BOOLEAN /\ relay' \in {"due", "backoff", "up"}
    BY <1>7 DEF EndRequest, TypeOK
  <2> QED BY <1>7, <1>a, <2>1, <2>2 DEF EndRequest, TypeOK
<1>8. CASE StreamTurn    BY <1>8, <1>a DEF StreamTurn, TypeOK
<1>9. CASE OtaOpens
  <2>1. ota' \in {"idle", "armed", "backoff", "session"} /\ otaDue' \in BOOLEAN
    BY <1>9 DEF OtaOpens, OtaBegins, OtaEnds, TypeOK
  <2>2. slim' \in BOOLEAN /\ restarting' \in BOOLEAN
    BY <1>9 DEF OtaOpens, OtaBegins, OtaEnds, TypeOK
  <2> QED BY <1>9, <1>a, <2>1, <2>2 DEF OtaOpens, TypeOK
<1>11. CASE OtaPump
  <2>1. ota' \in {"idle", "armed", "backoff", "session"} /\ otaDue' \in BOOLEAN
    BY <1>11 DEF OtaPump, OtaGoesOn, OtaEnds, TypeOK
  <2>2. slim' \in BOOLEAN /\ restarting' \in BOOLEAN
    BY <1>11 DEF OtaPump, OtaGoesOn, OtaEnds, TypeOK
  <2> QED BY <1>11, <1>a, <2>1, <2>2 DEF OtaPump, TypeOK
<1>12. CASE OtaSkips    BY <1>12, <1>a DEF OtaSkips, TypeOK
<1>13. CASE RelaySkips    BY <1>13, <1>a DEF RelaySkips, TypeOK
<1>14. CASE RelayCloses
  <2>1. relay' \in {"due", "backoff", "up"} /\ grace' \in BOOLEAN
    BY <1>14 DEF RelayCloses, TypeOK
  <2>2. pc' = "panel" /\ go' \in BOOLEAN /\ ArbiterTypeOK'
    BY <1>14, <1>a DEF RelayCloses
  <2>3. UNCHANGED <<wifi, updateVars, oneShotVars, deployed, ipNews, latest,
                    streamVars, announced>>
    BY <1>14 DEF RelayCloses
  <2>4. knownIP' \in BOOLEAN    BY <1>14 DEF RelayCloses, TypeOK
  <2> QED BY <2>1, <2>2, <2>3, <2>4 DEF TypeOK
<1>15. CASE RelayConnects
  <2>1. relay' \in {"due", "backoff", "up"} /\ grace' \in BOOLEAN
    BY <1>15 DEF RelayConnects, TypeOK
  <2>2. pc' = "panel" /\ go' \in BOOLEAN /\ ArbiterTypeOK'
    BY <1>15, <1>a DEF RelayConnects
  <2>3. UNCHANGED <<wifi, updateVars, oneShotVars, deployed, ipNews, latest,
                    streamVars, announced>>
    BY <1>15 DEF RelayConnects
  <2>4. knownIP' \in BOOLEAN    BY <1>15 DEF RelayConnects, TypeOK
  <2> QED BY <2>1, <2>2, <2>3, <2>4 DEF TypeOK
<1>16. CASE RelayPumps    BY <1>16, <1>a DEF RelayPumps, TypeOK
<1>17. CASE RelayFrame
  <2>1. ota' \in {"idle", "armed", "backoff", "session"} /\ otaDue' \in BOOLEAN
    BY <1>17, PanelTyped DEF RelayFrame, TypeOK
  <2>2. due' \subseteq Requests /\ deployed' \in BOOLEAN
    BY <1>17, PanelTyped DEF RelayFrame, TypeOK
  <2>3. commands' \in BOOLEAN /\ stream' \in {"idle", "wait", "open"}
    BY <1>17, PanelTyped DEF RelayFrame, TypeOK
  <2>4. knownIP' \in BOOLEAN /\ ipNews' \in BOOLEAN
    BY <1>17, PanelTyped DEF RelayFrame, TypeOK
  <2>5. latest' \in {"none", "old", "newer"}
    BY <1>17, PanelTyped DEF RelayFrame, TypeOK
  <2>6. UNCHANGED <<slim, restarting>>
    BY <1>17, PanelTyped DEF RelayFrame
  <2> QED BY <1>17, <1>a, <2>1, <2>2, <2>3, <2>4, <2>5, <2>6 DEF RelayFrame, TypeOK
<1>18. CASE RelayDone
  <2>1. relay' \in {"due", "backoff", "up"} /\ grace' \in BOOLEAN
    BY <1>18 DEF RelayDone, TypeOK
  <2>2. pc' = "panel" /\ go' \in BOOLEAN /\ ArbiterTypeOK'
    BY <1>18, <1>a DEF RelayDone
  <2>3. UNCHANGED <<wifi, updateVars, oneShotVars, deployed, ipNews, latest,
                    streamVars, announced>>
    BY <1>18 DEF RelayDone
  <2>4. knownIP' \in BOOLEAN    BY <1>18 DEF RelayDone, TypeOK
  <2> QED BY <2>1, <2>2, <2>3, <2>4 DEF TypeOK
<1>19. CASE WifiChanges    BY <1>19, <1>a DEF WifiChanges, TypeOK
<1>20. CASE Restart    BY <1>20, RestartTyped
<1>21. CASE UNCHANGED vars    BY <1>21, <1>a DEF vars, TypeOK
<1> QED BY <1>1, <1>2, <1>3, <1>4, <1>5, <1>6, <1>7, <1>8, <1>9, <1>11, <1>12, <1>13,
           <1>14, <1>15, <1>16, <1>17, <1>18, <1>19, <1>20, <1>21 DEF Next

(* Every variable keeps its type: among others, a turn never waits for the *)
(* heap on behalf of nobody.                                               *)
THEOREM TypeCorrect == Spec => []TypeOK
<1> QED BY InitTyped, NextTyped, PTL DEF Spec

(***************************************************************************)
(* The sessions.                                                           *)
(***************************************************************************)
LEMMA InitHeld == Init => OtherSessions /\ OtaSession /\ StreamOnlyWithoutRelay
BY DEF Init, ArbiterInit, Boot, UpdateInit, OtherSessions, OtaSession, StreamOnlyWithoutRelay, NONE

\* After the grant, every session but the new owner's is closed, and OTA has
\* the turn if it is busy or its check is due
LEMMA GrantHeld ==
  IInv /\ GrantTurn => (OtherSessions /\ OtaSession /\ StreamOnlyWithoutRelay)'
<1> SUFFICES ASSUME IInv, GrantTurn
             PROVE  OtherSessions' /\ OtaSession' /\ StreamOnlyWithoutRelay'
  OBVIOUS
<1>1. PICK offered \in SUBSET Requests, fits \in BOOLEAN :
        LET pending == PostedUpTheRelay(offered)
            who     == Grant(Wants(pending))
        IN  /\ OfferIP(offered)
            /\ due' = pending
            /\ RelayHold(who)
            /\ StreamHold(who)
            /\ Turn(who, Running(who), fits)
            /\ go' = Ready(who, Running(who), fits)
  BY DEF GrantTurn
<1> DEFINE pending == PostedUpTheRelay(offered)
           who     == Grant(Wants(pending))
<1>2. pending \in SUBSET Requests    BY DEF PostedUpTheRelay
<1>3. OtaWantsNet => who = "OTA"    BY <1>2, WantsAreServices, GrantToWanting
<1>4. RelayHold(who) /\ StreamHold(who) /\ owner' = who    BY <1>1 DEF Turn
<1> HIDE DEF who
<1>5. pc = "grant" /\ pc' = "turn" /\ OfferLatest /\ UNCHANGED <<ota, request, deployed>>
  BY DEF GrantTurn, OfferLatest, Offered, updateVars
<1>6. OtherSessions'
  <2>1. request = NONE    BY <1>5 DEF IInv, OtherSessions
  <2>2. relay' = "up" => owner' = "RELAY"    BY <1>4 DEF RelayHold
  <2>3. stream' = "open" => owner' = "STREAM"
    BY <1>4 DEF StreamHold, IInv, TypeOK
  <2> QED BY <1>5, <2>1, <2>2, <2>3 DEF OtherSessions
<1>7. OtaSession'
  <2>1. owner' # "OTA" => ~OtaBusy /\ ~otaDue    BY <1>3, <1>4 DEF OtaWantsNet
  <2>2. owner' # "OTA" => ota' = "idle" /\ (otaDue' => announced')
    BY <2>1, <1>5 DEF OtaBusy, OfferLatest, Offered, updateVars, IInv, TypeOK
  <2> QED BY <2>2 DEF OtaSession
<1>8. StreamOnlyWithoutRelay'
  <2>1. stream' = "open" => ~(relay' = "up" \/ (deployed /\ grace'))
    BY <1>4 DEF StreamHold
  <2> QED BY <2>1, <1>5 DEF StreamOnlyWithoutRelay
<1> QED BY <1>6, <1>7, <1>8

\* A request of the panel arms OTA only in the panel's stage or the relay's, and
\* only closes the stream
LEMMA PanelHeld ==
  ASSUME IInv, PanelRequest, UNCHANGED <<owner, request, relay, grace, announced>>,
         pc \in {"panel", "pump"}, UNCHANGED pc
  PROVE  OtherSessions' /\ OtaSession' /\ StreamOnlyWithoutRelay'
<1>1. stream' = "open" => stream = "open"    BY DEF PanelRequest
<1>2. ota' = "session" => ota = "session"    BY DEF PanelRequest, Asked, AutomaticOff, updateVars
<1>3. deployed' => deployed    BY DEF PanelRequest
<1>4. OtherSessions'    BY <1>1 DEF IInv, OtherSessions
<1>5. OtaSession'    BY <1>2 DEF IInv, OtaSession
<1>6. StreamOnlyWithoutRelay'    BY <1>1, <1>3 DEF IInv, StreamOnlyWithoutRelay
<1> QED BY <1>4, <1>5, <1>6

LEMMA NextHeld ==
  IInv /\ [Next]_vars => (OtherSessions /\ OtaSession /\ StreamOnlyWithoutRelay)'
<1> SUFFICES ASSUME IInv, [Next]_vars
             PROVE  OtherSessions' /\ OtaSession' /\ StreamOnlyWithoutRelay'
  OBVIOUS
<1> USE DEF arbiterVars, loopVars, updateVars, oneShotVars, relayVars, streamVars
<1>0. OtherSessions /\ OtaSession /\ StreamOnlyWithoutRelay    BY DEF IInv
<1> USE DEF OtherSessions, OtaSession, StreamOnlyWithoutRelay
<1>1. CASE Panel    BY <1>1, PanelHeld DEF Panel
<1>2. CASE Elapse    BY <1>2, <1>0 DEF Elapse, RetryDue, CheckDue, RestartScheduled
<1>3. CASE PanelDone    BY <1>3, <1>0 DEF PanelDone
<1>4. CASE GrantTurn    BY <1>4, GrantHeld
<1>5. CASE TurnWithoutSession    BY <1>5, <1>0 DEF TurnWithoutSession
<1>6. CASE BeginRequest    BY <1>6, <1>0, RequestsAssumption DEF BeginRequest, IInv, TypeOK
<1>7. CASE EndRequest    BY <1>7, <1>0 DEF EndRequest, NONE
<1>8. CASE StreamTurn    BY <1>8, <1>0 DEF StreamTurn, Carries, NONE
<1>9. CASE OtaOpens    BY <1>9, <1>0 DEF OtaOpens, OtaBegins, OtaStarts, OtaEnds, NONE
<1>11. CASE OtaPump    BY <1>11, <1>0 DEF OtaPump, OtaGoesOn, OtaEnds
<1>12. CASE OtaSkips    BY <1>12, <1>0 DEF OtaSkips
<1>13. CASE RelaySkips    BY <1>13, <1>0 DEF RelaySkips
<1>14. CASE RelayCloses    BY <1>14, <1>0 DEF RelayCloses
<1>15. CASE RelayConnects    BY <1>15, <1>0 DEF RelayConnects
<1>16. CASE RelayPumps    BY <1>16, <1>0 DEF RelayPumps
<1>17. CASE RelayFrame
  <2>1. CASE PanelRequest    BY <1>17, <2>1, PanelHeld DEF RelayFrame
  <2>2. CASE UNCHANGED <<ota, otaDue, deployed, stream>>
    BY <1>17, <2>2, <1>0 DEF RelayFrame
  <2> QED BY <1>17, <2>1, <2>2 DEF RelayFrame
<1>18. CASE RelayDone    BY <1>18, <1>0 DEF RelayDone
<1>19. CASE WifiChanges    BY <1>19, <1>0 DEF WifiChanges
<1>20. CASE Restart    BY <1>20 DEF Restart, Rebooted, NONE
<1>21. CASE UNCHANGED vars    BY <1>21, <1>0 DEF vars
<1> QED BY <1>1, <1>2, <1>3, <1>4, <1>5, <1>6, <1>7, <1>8, <1>9, <1>11, <1>12, <1>13,
           <1>14, <1>15, <1>16, <1>17, <1>18, <1>19, <1>20, <1>21 DEF Next

LEMMA Inductive == Spec => []IInv
<1>1. Init => IInv    BY InitTyped, InitHeld DEF IInv
<1>2. IInv /\ [Next]_vars => IInv'    BY NextTyped, NextHeld DEF IInv
<1> QED BY <1>1, <1>2, PTL DEF Spec

(* Two TLS sessions are open at once only in a pass that took the news of  *)
(* a newer release from the relay, and one of them is then GitHub's.       *)
THEOREM OneSessionKept == Spec => []OneSessionButAnnounced
<1>1. IInv => OneSessionButAnnounced
  <2> SUFFICES ASSUME IInv, NEW a \in Open, NEW b \in Open, a # b
               PROVE  announced /\ "OTA" \in {a, b}
    BY DEF OneSessionButAnnounced
  <2>1. \A w \in Open : w # "OTA" => w = owner
    BY DEF IInv, OtherSessions, Open, Who, NONE
  <2>2. \A w \in Open : w = "OTA" => ota = "session"
    BY DEF IInv, OtherSessions, Open, OneShot, Who, NONE
  <2>3. "OTA" \in {a, b}    BY <2>1
  <2>4. owner # "OTA"    BY <2>1, <2>3
  <2> QED BY <2>2, <2>3, <2>4 DEF IInv, OtaSession
<1> QED BY <1>1, Inductive, PTL

(* The ntfy stream is never open while the relay brings the commands, or   *)
(* did until moments ago.                                                  *)
THEOREM StreamWithoutRelay == Spec => []StreamOnlyWithoutRelay
<1>1. IInv => StreamOnlyWithoutRelay    BY DEF IInv
<1> QED BY <1>1, Inductive, PTL

(* Of the update the loop sees the steps of UpdateTurn, and makes no others *)
(* (App.h:90-170): those OTAService implements (TurnAsAssumed).             *)
THEOREM LoopSeesTurns == Spec => UpdateSpec
<1>1. ASSUME Init    PROVE UpdateInit
  BY <1>1 DEF Init, Boot
<1>2. ASSUME TypeOK, [Next]_vars    PROVE [UpdateNext]_updateVars
  <2> USE DEF arbiterVars, loopVars, oneShotVars, relayVars, streamVars
  <2>1. CASE Panel \/ RelayFrame
    BY <2>1 DEF Panel, RelayFrame, PanelRequest, UpdateNext
  <2>2. CASE Elapse    BY <2>2 DEF Elapse, UpdateNext
  <2>3. CASE GrantTurn
    BY <1>2, <2>3 DEF GrantTurn, OfferLatest, UpdateNext, TypeOK
  <2>4. CASE OtaOpens \/ OtaPump
    BY <2>4 DEF OtaOpens, OtaPump, UpdateNext
  <2>5. CASE Restart    BY <2>5 DEF Restart, UpdateNext
  <2>6. CASE \/ PanelDone \/ TurnWithoutSession \/ BeginRequest \/ EndRequest \/ StreamTurn
             \/ OtaSkips \/ RelaySkips \/ RelayCloses \/ RelayConnects \/ RelayPumps
             \/ RelayDone \/ WifiChanges \/ UNCHANGED vars
    <3>1. UNCHANGED updateVars
      BY <2>6 DEF PanelDone, TurnWithoutSession, BeginRequest, EndRequest, StreamTurn,
         OtaSkips, RelaySkips, RelayCloses, RelayConnects, RelayPumps, RelayDone,
         WifiChanges, vars
    <3> QED BY <3>1
  <2> QED BY <1>2, <2>1, <2>2, <2>3, <2>4, <2>5, <2>6 DEF Next
<1> QED BY <1>1, <1>2, TypeCorrect, PTL DEF Spec, UpdateSpec
=============================================================================
