---------------------------- MODULE NetworkProofs ----------------------------
(* Proofs about the device on its network, for every household, any number of *)
(* commands and browsers, and whatever the router, the broker and the device  *)
(* do in between: a command of the broker's runs at most once.                *)
(*                                                                             *)
(* A command that is still under way to the device has not run, and is under   *)
(* way once: the broker sends it on when it comes, and a retained one comes    *)
(* with its flag, which the device drops.                                      *)
EXTENDS Network, TLAPS, SequenceTheorems

Packets == {<<"CONNACK", 0>>, <<"CONNACK", 5>>} \cup ({"cmd", "retained"} \X Commands)

\* The way to the device, when n commands were sent and r says how often they ran.
IsCommand(p) == p[1] = "cmd"

WaySound(s, n, r) ==
    /\ s \in Seq(Packets)
    /\ \A i \in DOMAIN s : IsCommand(s[i]) => s[i][2] <= n /\ r[s[i][2]] = 0
    /\ \A i, j \in DOMAIN s : IsCommand(s[i]) /\ s[i] = s[j] => i = j

RunInv ==
    /\ sent \in 0 .. MaxCommands /\ command \in 0 .. sent
    /\ ran \in [Commands -> Nat]
    /\ \A c \in Commands : ran[c] <= 1 /\ (c > sent => ran[c] = 0)
    /\ WaySound(in, sent, ran)

LEMMA EmptySound == \A n, r : WaySound(<<>>, n, r)
BY DEF WaySound

LEMMA TailSound ==
  ASSUME NEW s, NEW n, NEW r, WaySound(s, n, r), s # <<>>
  PROVE  WaySound(Tail(s), n, r)
<1>1. s \in Seq(Packets)
  BY DEF WaySound
<1>2. /\ Tail(s) \in Seq(Packets) /\ Len(Tail(s)) = Len(s) - 1
      /\ \A i \in DOMAIN Tail(s) : i \in Nat /\ i + 1 \in DOMAIN s /\ Tail(s)[i] = s[i + 1]
  BY <1>1
<1> QED
  BY <1>2 DEF WaySound

LEMMA AppendSound ==
  ASSUME NEW s, NEW n, NEW r, WaySound(s, n, r), NEW p \in Packets, ~IsCommand(p)
  PROVE  WaySound(Append(s, p), n, r)
<1>1. s \in Seq(Packets)
  BY DEF WaySound
<1>2. /\ Append(s, p) \in Seq(Packets)
      /\ \A i \in DOMAIN Append(s, p) : \/ i \in DOMAIN s /\ Append(s, p)[i] = s[i]
                                        \/ i = Len(s) + 1 /\ Append(s, p)[i] = p
  BY <1>1
<1> QED
  BY <1>2 DEF WaySound

LEMMA CommandSound ==
  ASSUME NEW n \in Nat, NEW r, WaySound(in, n, r), n + 1 \in Commands, r[n + 1] = 0
  PROVE  /\ WaySound(in, n + 1, r)
         /\ WaySound(Append(in, <<"cmd", n + 1>>), n + 1, r)
<1> DEFINE p == <<"cmd", n + 1>>
           t == Append(in, p)
<1>1. in \in Seq(Packets) /\ p \in Packets
  BY DEF WaySound, Packets
<1>2. /\ t \in Seq(Packets)
      /\ \A i \in DOMAIN t : \/ i \in DOMAIN in /\ t[i] = in[i]
                             \/ i = Len(in) + 1 /\ t[i] = p
  BY <1>1
<1>3. \A i \in DOMAIN in : IsCommand(in[i]) => in[i][2] \in Nat
  BY <1>1 DEF Packets, IsCommand, Commands
<1>4. \A i \in DOMAIN in : IsCommand(in[i]) => in[i] # p /\ in[i][2] <= n + 1
  BY <1>3 DEF WaySound
<1>5. WaySound(in, n + 1, r)
  BY <1>4 DEF WaySound
<1>6. p[2] <= n + 1 /\ r[p[2]] = 0
  OBVIOUS
<1>7. \A i \in DOMAIN t : IsCommand(t[i]) => t[i][2] <= n + 1 /\ r[t[i][2]] = 0
  BY <1>2, <1>5, <1>6 DEF WaySound
<1>8. \A i, j \in DOMAIN t : IsCommand(t[i]) /\ t[i] = t[j] => i = j
  BY <1>2, <1>4 DEF WaySound
<1> QED
  BY <1>2, <1>5, <1>7, <1>8 DEF WaySound

LEMMA RunSound ==
  ASSUME NEW n, NEW r \in [Commands -> Nat], WaySound(in, n, r), in # <<>>, IsCommand(Head(in))
  PROVE  /\ Head(in)[2] \in Commands /\ Head(in)[2] <= n /\ r[Head(in)[2]] = 0
         /\ WaySound(Tail(in), n, [r EXCEPT ![Head(in)[2]] = @ + 1])
<1> DEFINE c == Head(in)[2]
           q == [r EXCEPT ![c] = @ + 1]
<1>1. in \in Seq(Packets) /\ 1 \in DOMAIN in /\ Head(in) = in[1]
  BY DEF WaySound
<1>2. c \in Commands /\ c <= n /\ r[c] = 0
  BY <1>1 DEF WaySound, Packets, IsCommand
<1>3. /\ Tail(in) \in Seq(Packets)
      /\ \A i \in DOMAIN Tail(in) : i \in Nat /\ i >= 1 /\ i + 1 \in DOMAIN in /\ Tail(in)[i] = in[i + 1]
  BY <1>1
<1>4. \A i \in DOMAIN Tail(in) : IsCommand(Tail(in)[i]) => Tail(in)[i] # in[1]
  BY <1>1, <1>3 DEF WaySound
<1>5. \A x, y \in Packets : IsCommand(x) /\ IsCommand(y) /\ x[2] = y[2] => x = y
  BY DEF Packets, IsCommand
<1>6. \A i \in DOMAIN Tail(in) : IsCommand(Tail(in)[i]) => Tail(in)[i][2] # c /\ Tail(in)[i][2] \in Commands
  BY <1>1, <1>3, <1>4, <1>5 DEF Packets, IsCommand
<1>7. \A i \in DOMAIN Tail(in) : IsCommand(Tail(in)[i]) => Tail(in)[i][2] <= n /\ q[Tail(in)[i][2]] = 0
  BY <1>3, <1>6 DEF WaySound
<1> QED
  BY <1>2, <1>3, <1>7, TailSound DEF WaySound

----------------------------------------------------------------------------
\* The steps, as the commands see them.

Elsewhere == UNCHANGED <<in, sent, ran, command>>
Hangs == in' = <<>> /\ UNCHANGED <<sent, ran, command>>
Takes ==
    /\ in # <<>> /\ in' = Tail(in) /\ UNCHANGED <<sent, command>>
    /\ \/ ran' = ran
       \/ IsCommand(Head(in)) /\ ran' = [ran EXCEPT ![Head(in)[2]] = @ + 1]
Brings ==
    /\ UNCHANGED <<sent, ran, command>>
    /\ \/ in' = in
       \/ \E p \in {<<"CONNACK", 0>>, <<"CONNACK", 5>>, <<"retained", command>>} :
             (p = <<"retained", command>> => command # 0) /\ in' = Append(in, p)

LEMMA DeviceShape ==
  ASSUME MqttConnect \/ BackoffEnds \/ MqttReads \/ MqttLost \/ Announces \/ Publishes \/ Tele
         \/ MqttHeld \/ Reconnect \/ LocalCommand \/ ModuleForm
  PROVE  Elsewhere \/ Hangs \/ Takes
<1> USE DEF Elsewhere, Hangs, Takes, Fail, Close, ghostVars, wireVars, brokerVars
<1>1. CASE MqttConnect
  BY <1>1 DEF MqttConnect
<1>2. CASE BackoffEnds \/ Announces \/ Publishes \/ Tele \/ LocalCommand \/ ModuleForm
  BY <1>2 DEF BackoffEnds, Announces, Publishes, Tele, LocalCommand, ModuleForm
<1>3. CASE MqttLost \/ MqttHeld \/ Reconnect
  BY <1>3 DEF MqttLost, MqttHeld, Reconnect
<1>4. CASE MqttReads
  BY <1>4 DEF MqttReads, Online, TakeCommand, Runs, IsCommand
<1> QED
  BY <1>1, <1>2, <1>3, <1>4

LEMMA BrokerShape ==
  ASSUME RunInv, BrokerReads \/ BrokerCloses \/ LinkCut \/ Cut \/ WillGoesOut
  PROVE  Elsewhere \/ Brings
<1> USE DEF Elsewhere, Brings, ghostVars, wireVars
<1>1. CASE BrokerCloses \/ LinkCut \/ Cut \/ WillGoesOut
  BY <1>1 DEF BrokerCloses, LinkCut, Cut, WillGoesOut
<1>2. CASE BrokerReads
  <2>1. UNCHANGED <<sent, ran, command>>
    BY <1>2 DEF BrokerReads
  <2>2. in' = in \/ in' = Append(in, <<"CONNACK", 0>>) \/ in' = Append(in, <<"CONNACK", 5>>) \/ in' = in \o Retained
    BY <1>2 DEF BrokerReads, BrokerConnects
  <2>3. in \o Retained = in \/ (command # 0 /\ in \o Retained = Append(in, <<"retained", command>>))
    BY DEF Retained, RunInv, WaySound
  <2> QED
    BY <2>1, <2>2, <2>3
<1> QED
  BY <1>1, <1>2

LEMMA RunStep ==
  ASSUME RunInv, [Next]_vars
  PROVE  RunInv'
<1>0. MaxCommands \in Nat /\ sent \in 0 .. MaxCommands
  BY CommandsAssumption DEF RunInv
<1>1. CASE Elsewhere
  BY <1>1 DEF Elsewhere, RunInv
<1>2. CASE Hangs
  BY <1>2, EmptySound DEF Hangs, RunInv
<1>3. CASE Takes
  <2>1. CASE ran' = ran
    BY <1>3, <2>1, TailSound DEF Takes, RunInv
  <2>2. CASE IsCommand(Head(in)) /\ ran' = [ran EXCEPT ![Head(in)[2]] = @ + 1]
    <3>1. /\ Head(in)[2] \in Commands /\ Head(in)[2] <= sent /\ ran[Head(in)[2]] = 0
          /\ WaySound(Tail(in), sent, [ran EXCEPT ![Head(in)[2]] = @ + 1])
      BY <1>3, <2>2, RunSound DEF Takes, RunInv
    <3> DEFINE c == Head(in)[2]
    <3>2. c \in Nat /\ ran' \in [Commands -> Nat]
      BY <2>2, <3>1 DEF Commands, RunInv
    <3>3. \A d \in Commands : ran'[d] = IF d = c THEN 1 ELSE ran[d]
      BY <2>2, <3>1 DEF RunInv
    <3>4. \A d \in Commands : ran'[d] <= 1 /\ (d > sent => ran'[d] = 0)
      BY <1>0, <3>1, <3>2, <3>3 DEF RunInv, Commands
    <3> QED
      BY <1>3, <2>2, <3>1, <3>2, <3>4 DEF Takes, RunInv
  <2> QED
    BY <1>3, <2>1, <2>2 DEF Takes
<1>4. CASE Brings
  <2>1. CASE in' = in
    BY <1>4, <2>1 DEF Brings, RunInv
  <2>2. ASSUME NEW p \in {<<"CONNACK", 0>>, <<"CONNACK", 5>>, <<"retained", command>>},
               p = <<"retained", command>> => command # 0, in' = Append(in, p)
        PROVE  RunInv'
    <3>1. command # 0 => command \in Commands
      BY <1>0 DEF RunInv, Commands
    <3>2. p \in Packets /\ ~IsCommand(p)
      BY <2>2, <3>1 DEF Packets, IsCommand
    <3> QED
      BY <1>4, <2>2, <3>2, AppendSound DEF Brings, RunInv
  <2> QED
    BY <1>4, <2>1, <2>2 DEF Brings
<1>5. ASSUME NEW retain \in BOOLEAN, SomeoneCommands(retain)
      PROVE  RunInv'
  <2>1. /\ sent' = sent + 1 /\ sent < MaxCommands /\ ran' = ran
        /\ command' \in {command, sent + 1}
        /\ in' = in \/ in' = Append(in, <<"cmd", sent + 1>>)
    BY <1>5 DEF SomeoneCommands
  <2>2. sent \in Nat /\ sent + 1 \in Commands /\ ran[sent + 1] = 0
    BY <1>0, <2>1 DEF RunInv, Commands
  <2>3. WaySound(in', sent', ran')
    BY <2>1, <2>2, CommandSound DEF RunInv
  <2>4. sent' \in 0 .. MaxCommands /\ command' \in 0 .. sent'
    BY <1>0, <2>1 DEF RunInv
  <2>5. \A c \in Commands : c > sent' => c > sent
    BY <1>0, <2>1 DEF Commands
  <2> QED
    BY <2>1, <2>3, <2>4, <2>5 DEF RunInv
<1>6. CASE UNCHANGED vars
  BY <1>1, <1>6 DEF Elsewhere, vars, mqttVars, wireVars, brokerVars, ghostVars
<1>7. CASE Router
  BY <1>1, <1>4, <1>7, BrokerShape DEF Router, Elsewhere, mqttVars, wireVars, brokerVars, ghostVars
<1>8. CASE Boot
  BY <1>2, <1>8 DEF Boot, MqttBoot, Hangs, ghostVars
<1>9. CASE WiFi \/ Address \/ Record \/ Http
  BY <1>1, <1>9 DEF WiFi, Address, Record, Http, Elsewhere, mqttVars, wireVars, brokerVars, ghostVars
<1>10. CASE Mqtt
  BY <1>1, <1>2, <1>3, <1>4, <1>5, <1>10, DeviceShape, BrokerShape DEF Mqtt
<1> QED
  BY <1>6, <1>7, <1>8, <1>9, <1>10 DEF Next

LEMMA RunHolds ==
  ASSUME Init
  PROVE  RunInv
<1>1. in = <<>> /\ sent = 0 /\ command = 0 /\ ran = [c \in Commands |-> 0]
  BY DEF Init, MqttInit
<1> QED
  BY <1>1, EmptySound, CommandsAssumption DEF RunInv

\* A command published through the broker runs at most once (MqttService.h:25-27),
\* whatever is retained, lost, cut, reconnected or restarted.
THEOREM RunsOnce == Spec => []CommandRunsOnce
<1>1. RunInv => CommandRunsOnce
  BY DEF RunInv, CommandRunsOnce
<1> QED
  BY <1>1, RunHolds, RunStep, PTL DEF Spec

----------------------------------------------------------------------------
(***************************************************************************)
(* What the client takes for published, the broker has. A packet under way *)
(* counts as much as one that arrived: of each retained topic the last one *)
(* under way is what the client said last, or none is and the broker keeps *)
(* that. The broker's reading a packet keeps this, and so does a write that*)
(* went out whole; what a write may lose is a state (then the household is *)
(* one whose writes lose bytes) or counts as missed.                       *)
(***************************************************************************)

Said ==
    {<<"avail", 0>>, <<"SUBSCRIBE", 0>>}
    \cup ({"state"} \X (Commands \cup {0})) \cup ({"disc"} \X {0, 1})
Keeps == [avail : {"none", "online", "offline"}, state : Commands \cup {0}, disc : {0, 1}]

\* What a topic says once s has arrived where k is kept.
LastIs(s, k, kind, v) ==
    \/ k[kind] = v /\ \A i \in DOMAIN s : s[i][1] # kind
    \/ \E i \in DOMAIN s : s[i] = <<kind, v>> /\ \A j \in DOMAIN s : j > i => s[j][1] # kind

Under(s, p) == \E i \in DOMAIN s : s[i] = p

Told(s, k, on) ==
    /\ "bytes" \in uses \/ LastIs(s, k, "state", sum)
    /\ \/ missed
       \/ /\ LastIs(s, k, "disc", shape)
          /\ on \/ Under(s, <<"SUBSCRIBE", 0>>)
          /\ k.avail = "online" \/ Under(s, <<"avail", 0>>)

WireTyped ==
    /\ mq \in {"idle", "connecting", "up"} /\ link \in {"none", "up", "closed", "cut"}
    /\ session \in {"none", "open", "old"}
    /\ dev \in Commands \cup {0} /\ sum \in Commands \cup {0}
    /\ module \in {0, 1} /\ shape \in {0, 1} /\ kept \in Keeps
    /\ missed \in BOOLEAN /\ subscribed \in BOOLEAN /\ backing \in BOOLEAN

WireShape ==
    /\ link # "up" => out = <<>> /\ session # "open"
    /\ (mq = "idle") = (link = "none")
    /\ mq = "connecting" /\ link = "up" =>
          \/ out = <<<<"CONNECT", 0>>>> /\ in = <<>> /\ session # "open"
          \/ out = <<>> /\ session = "open"
    /\ mq = "up" /\ link = "up" => out \in Seq(Said) /\ session = "open"

WireInv == WireTyped /\ WireShape /\ (mq = "up" /\ link = "up" => Told(out, kept, subscribed))

LEMMA LastAppended ==
  ASSUME NEW s \in Seq(Said), NEW k, NEW kind, NEW v, <<kind, v>> \in Said
  PROVE  LastIs(Append(s, <<kind, v>>), k, kind, v)
<1> DEFINE t == Append(s, <<kind, v>>)
<1>1. Len(t) \in DOMAIN t /\ t[Len(t)] = <<kind, v>> /\ \A j \in DOMAIN t : ~(j > Len(t))
  OBVIOUS
<1> QED
  BY <1>1 DEF LastIs

LEMMA LastStays ==
  ASSUME NEW s \in Seq(Said), NEW k, NEW kind, NEW v, LastIs(s, k, kind, v),
         NEW p \in Said, p[1] # kind
  PROVE  LastIs(Append(s, p), k, kind, v)
<1> DEFINE t == Append(s, p)
<1>1. \A i \in DOMAIN t : (i \in DOMAIN s /\ t[i] = s[i]) \/ (i = Len(s) + 1 /\ t[i] = p)
  OBVIOUS
<1>2. \A i \in DOMAIN s : i \in DOMAIN t /\ t[i] = s[i]
  OBVIOUS
<1>3. CASE k[kind] = v /\ \A i \in DOMAIN s : s[i][1] # kind
  BY <1>1, <1>3 DEF LastIs
<1>4. ASSUME NEW i \in DOMAIN s, s[i] = <<kind, v>>, \A j \in DOMAIN s : j > i => s[j][1] # kind
      PROVE  LastIs(t, k, kind, v)
  <2>1. i \in DOMAIN t /\ t[i] = <<kind, v>>
    BY <1>2, <1>4
  <2>2. \A j \in DOMAIN t : j > i => t[j][1] # kind
    BY <1>1, <1>4
  <2> QED
    BY <2>1, <2>2 DEF LastIs
<1> QED
  BY <1>3, <1>4 DEF LastIs

LEMMA UnderStays ==
  ASSUME NEW s \in Seq(Said), NEW p \in Said, NEW q
  PROVE  /\ Under(s, q) => Under(Append(s, p), q)
         /\ Under(Append(s, p), p)
<1> DEFINE t == Append(s, p)
<1>1. \A i \in DOMAIN s : i \in DOMAIN t /\ t[i] = s[i]
  OBVIOUS
<1>2. Len(t) \in DOMAIN t /\ t[Len(t)] = p
  OBVIOUS
<1> QED
  BY <1>1, <1>2 DEF Under

LEMMA LastArrives ==
  ASSUME NEW s \in Seq(Said), s # <<>>, NEW k, NEW kind, NEW v, LastIs(s, k, kind, v),
         NEW l, l[kind] = IF Head(s)[1] = kind THEN Head(s)[2] ELSE k[kind]
  PROVE  LastIs(Tail(s), l, kind, v)
<1> DEFINE t == Tail(s)
<1>1. \A i \in DOMAIN t : i \in Nat /\ i >= 1 /\ i + 1 \in DOMAIN s /\ t[i] = s[i + 1]
  OBVIOUS
<1>2. \A i \in DOMAIN s : i \in Nat /\ (i = 1 \/ i - 1 \in DOMAIN t)
  OBVIOUS
<1>3. 1 \in DOMAIN s /\ Head(s) = s[1]
  OBVIOUS
<1>4. CASE k[kind] = v /\ \A i \in DOMAIN s : s[i][1] # kind
  BY <1>1, <1>3, <1>4 DEF LastIs
<1>5. ASSUME NEW i \in DOMAIN s, s[i] = <<kind, v>>, \A j \in DOMAIN s : j > i => s[j][1] # kind
      PROVE  LastIs(t, l, kind, v)
  <2>1. CASE i = 1
    <3>1. l[kind] = v
      BY <1>3, <1>5, <2>1
    <3>2. \A j \in DOMAIN t : t[j][1] # kind
      BY <1>1, <1>5, <2>1
    <3> QED
      BY <3>1, <3>2 DEF LastIs
  <2>2. CASE i # 1
    <3>1. i - 1 \in DOMAIN t /\ t[i - 1] = <<kind, v>>
      BY <1>1, <1>2, <1>5, <2>2
    <3>2. \A j \in DOMAIN t : j > i - 1 => t[j][1] # kind
      BY <1>1, <1>2, <1>5
    <3> QED
      BY <3>1, <3>2 DEF LastIs
  <2> QED
    BY <2>1, <2>2
<1> QED
  BY <1>4, <1>5 DEF LastIs

LEMMA UnderArrives ==
  ASSUME NEW s \in Seq(Said), s # <<>>, NEW q, Under(s, q)
  PROVE  Head(s) = q \/ Under(Tail(s), q)
<1> DEFINE t == Tail(s)
<1>1. \A i \in DOMAIN s : i \in Nat /\ (i = 1 \/ (i - 1 \in DOMAIN t /\ t[i - 1] = s[i]))
  OBVIOUS
<1>2. Head(s) = s[1]
  OBVIOUS
<1> QED
  BY <1>1, <1>2 DEF Under

\* A write ends with a state and has no other: it goes out whole, loses the state
\* alone, or loses what counts as missed.
LEMMA Written ==
  ASSUME NEW rest \in Seq(Said), NEW packets \in Seq(Said), packets # <<>>, link = "up",
         packets[Len(packets)][1] = "state",
         \A i \in DOMAIN packets : i # Len(packets) => packets[i][1] # "state",
         missed \in BOOLEAN, Write(rest, packets)
  PROVE  /\ out' \in Seq(Said) /\ missed' \in BOOLEAN /\ uses' = uses
         /\ \/ out' = rest \o packets /\ missed' = missed
            \/ "bytes" \in uses /\ missed'
            \/ /\ "bytes" \in uses /\ missed' = missed
               /\ out' = rest \o SubSeq(packets, 1, Len(packets) - 1)
<1> DEFINE n == Len(packets)
<1>1. CASE Quietly /\ out' = rest \o packets /\ UNCHANGED missed
  BY <1>1 DEF Quietly, houseVars
<1>2. ASSUME "bytes" \in uses, uses' = uses, NEW i \in 1 .. n, NEW j \in 1 .. n, i <= j,
             out' = rest \o SubSeq(packets, 1, i - 1) \o SubSeq(packets, j + 1, n),
             missed' = (missed \/ \E k \in i .. j : packets[k][1] # "state")
      PROVE  /\ out' \in Seq(Said) /\ missed' \in BOOLEAN
             /\ missed' \/ (missed' = missed /\ out' = rest \o SubSeq(packets, 1, n - 1))
  <2>0. n \in Nat \ {0}
    OBVIOUS
  <2>1. SubSeq(packets, 1, i - 1) \in Seq(Said) /\ SubSeq(packets, j + 1, n) \in Seq(Said)
    BY <2>0, SubSeqProperties
  <2>2. out' \in Seq(Said)
    BY <1>2, <2>1, ConcatProperties
  <2>3. CASE i # n
    <3>1. i \in i .. j /\ packets[i][1] # "state"
      BY <1>2, <2>0, <2>3
    <3> QED
      BY <1>2, <2>2, <3>1
  <2>4. CASE i = n
    <3>1. j = n /\ \A k \in i .. j : k = n
      BY <1>2, <2>0, <2>4
    <3>2. missed' = missed
      BY <1>2, <3>1
    <3>3. SubSeq(packets, j + 1, n) = <<>>
      BY <3>1, <2>0, <2>1, SubSeqProperties, EmptySeq
    <3>4. rest \o SubSeq(packets, 1, n - 1) \in Seq(Said)
      BY <2>1, <2>4, ConcatProperties
    <3>5. out' = rest \o SubSeq(packets, 1, n - 1)
      BY <1>2, <2>4, <3>3, <3>4, ConcatEmptySeq
    <3> QED
      BY <2>2, <3>2, <3>5
  <2> QED
    BY <2>3, <2>4
<1> QED
  BY <1>1, <1>2 DEF Write, Happens

\* A state is written: at once after a command, on a change, or by the clock.
LEMMA StateWritten ==
  ASSUME WireInv, mq = "up", NEW d \in Commands \cup {0}, sum' = d,
         Write(out, <<<<"state", d>>>>), UNCHANGED <<mq, shape, link, brokerVars>>
  PROVE  missed' \in BOOLEAN /\ WireShape' /\ (link = "up" => Told(out, kept, subscribed)')
<1> USE DEF WireInv, brokerVars
<1> DEFINE p == <<"state", d>>
<1>1. CASE link # "up"
  BY <1>1 DEF Write, WireShape, WireTyped
<1>2. CASE link = "up"
  <2>1. out \in Seq(Said) /\ p \in Said /\ Told(out, kept, subscribed) /\ session = "open"
        /\ missed \in BOOLEAN
    BY <1>2 DEF WireShape, WireTyped, Said
  <2>2. PICK w \in Seq(Said) : w = <<p>>
    <3>1. <<p>> \in Seq(Said)
      BY <2>1
    <3> QED
      BY <3>1, Zenon
  <2>3. /\ w # <<>> /\ Len(w) = 1 /\ DOMAIN w = {1} /\ w[1][1] = "state"
        /\ out \o w = Append(out, p) /\ out \o SubSeq(w, 1, 0) = out /\ Write(out, w)
    BY <2>1, <2>2, SubSeqEmpty, ConcatEmptySeq
  <2>4. /\ out' \in Seq(Said) /\ missed' \in BOOLEAN /\ uses' = uses
        /\ \/ out' = Append(out, p) /\ missed' = missed
           \/ "bytes" \in uses /\ missed'
           \/ "bytes" \in uses /\ missed' = missed /\ out' = out
    <3>1. \A i \in DOMAIN w : i # Len(w) => w[i][1] # "state"
      BY <2>3
    <3>2. Len(w) - 1 = 0 /\ w[Len(w)][1] = "state"
      BY <2>3
    <3>3. /\ out' \in Seq(Said) /\ missed' \in BOOLEAN /\ uses' = uses
          /\ \/ out' = out \o w /\ missed' = missed
             \/ "bytes" \in uses /\ missed'
             \/ "bytes" \in uses /\ missed' = missed /\ out' = out \o SubSeq(w, 1, Len(w) - 1)
      BY <1>2, <2>1, <2>3, <3>1, <3>2, Written
    <3> QED
      BY <2>3, <3>2, <3>3
  <2>5. WireShape'
    BY <1>2, <2>1, <2>4 DEF WireShape
  <2>6. CASE out' = Append(out, p) /\ missed' = missed
    <3>1. LastIs(out', kept, "state", d)
      BY <2>1, <2>6, LastAppended
    <3>2. LastIs(out, kept, "disc", shape) => LastIs(out', kept, "disc", shape)
      BY <2>1, <2>6, LastStays
    <3>3. \A q : Under(out, q) => Under(out', q)
      BY <2>1, <2>6, UnderStays
    <3> QED
      BY <2>1, <2>4, <2>5, <2>6, <3>1, <3>2, <3>3 DEF Told
  <2> QED
    BY <2>1, <2>4, <2>5, <2>6 DEF Told
<1> QED
  BY <1>1, <1>2

\* The module and the state are written, when the module was changed.
LEMMA BothWritten ==
  ASSUME WireInv, mq = "up", sum' = dev, shape' = module,
         Write(out, <<Discovery, State>>), UNCHANGED <<mq, link, brokerVars>>
  PROVE  missed' \in BOOLEAN /\ WireShape' /\ (link = "up" => Told(out, kept, subscribed)')
<1> USE DEF WireInv, brokerVars
<1>1. CASE link # "up"
  BY <1>1 DEF Write, WireShape, WireTyped
<1>2. CASE link = "up"
  <2> DEFINE d == <<"disc", module>>
             p == <<"state", dev>>
  <2>1. out \in Seq(Said) /\ d \in Said /\ p \in Said /\ Told(out, kept, subscribed) /\ session = "open"
        /\ missed \in BOOLEAN
    BY <1>2 DEF WireShape, WireTyped, Said
  <2>2. PICK w \in Seq(Said) : w = <<d, p>>
    <3>1. <<d, p>> \in Seq(Said)
      BY <2>1
    <3> QED
      BY <3>1, Zenon
  <2>3. Len(w) = 2 /\ DOMAIN w = {1, 2} /\ w[1] = d /\ w[2] = p
    BY <2>2
  <2>4. Append(out, d) \in Seq(Said)
    BY <2>1
  <2>5. /\ out \o w = Append(Append(out, d), p)
        /\ out \o SubSeq(w, 1, 1) = Append(out, d)
    <3>1. out \o w = Append(Append(out, d), p)
      BY <2>1, <2>2
    <3>2. SubSeq(w, 1, 1) \in Seq(Said) /\ Len(SubSeq(w, 1, 1)) = 1 /\ SubSeq(w, 1, 1)[1] = d
      BY <2>1, <2>3, SubSeqProperties
    <3> QED
      BY <2>1, <3>1, <3>2
  <2>6. /\ out' \in Seq(Said) /\ missed' \in BOOLEAN /\ uses' = uses
        /\ \/ out' = Append(Append(out, d), p) /\ missed' = missed
           \/ "bytes" \in uses /\ missed'
           \/ "bytes" \in uses /\ missed' = missed /\ out' = Append(out, d)
    <3>1. Write(out, w)
      BY <2>2 DEF Discovery, State
    <3>2. \A i \in DOMAIN w : i # Len(w) => w[i][1] # "state"
      BY <2>3
    <3>3. w # <<>> /\ w[Len(w)][1] = "state" /\ Len(w) - 1 = 1
      BY <2>3
    <3>4. /\ out' \in Seq(Said) /\ missed' \in BOOLEAN /\ uses' = uses
          /\ \/ out' = out \o w /\ missed' = missed
             \/ "bytes" \in uses /\ missed'
             \/ "bytes" \in uses /\ missed' = missed /\ out' = out \o SubSeq(w, 1, Len(w) - 1)
      BY <1>2, <2>1, <3>1, <3>2, <3>3, Written
    <3> QED
      BY <2>5, <3>3, <3>4
  <2>7. WireShape'
    BY <1>2, <2>1, <2>6 DEF WireShape
  <2>8. LastIs(Append(out, d), kept, "disc", module)
    BY <2>1, LastAppended
  <2>9. \A q : Under(out, q) => Under(Append(out, d), q)
    BY <2>1, UnderStays
  <2>10. CASE out' = Append(Append(out, d), p) /\ missed' = missed
    <3>1. LastIs(out', kept, "state", dev)
      BY <2>1, <2>4, <2>10, LastAppended
    <3>2. LastIs(out', kept, "disc", module)
      BY <2>1, <2>4, <2>8, <2>10, LastStays
    <3>3. \A q : Under(out, q) => Under(out', q)
      BY <2>1, <2>4, <2>9, <2>10, UnderStays
    <3> QED
      BY <2>1, <2>6, <2>7, <2>10, <3>1, <3>2, <3>3 DEF Told
  <2>11. CASE "bytes" \in uses /\ missed'
    BY <2>6, <2>7, <2>11 DEF Told
  <2>12. CASE "bytes" \in uses /\ missed' = missed /\ out' = Append(out, d)
    <3>1. LastIs(out', kept', "disc", shape') /\ \A q : Under(out, q) => Under(out', q)
      BY <2>8, <2>9, <2>12
    <3> QED
      BY <2>1, <2>6, <2>7, <2>12, <3>1 DEF Told
  <2> QED
    BY <2>6, <2>10, <2>11, <2>12
<1> QED
  BY <1>1, <1>2

\* A connection begins: everything is written to it, in CONNACK's order.
LEMMA AllWritten ==
  ASSUME WireInv, mq = "connecting", in # <<>>, Online
  PROVE  missed' \in BOOLEAN /\ WireShape' /\ (link = "up" => Told(out, kept, subscribed)')
<1> USE DEF WireInv, brokerVars
<1>0. mq' = "up" /\ sum' = dev /\ shape' = module /\ UNCHANGED <<link, session, kept, subscribed>>
  BY DEF Online
<1>1. CASE link # "up"
  BY <1>0, <1>1 DEF Online, Write, WireShape, WireTyped
<1>2. CASE link = "up"
  <2> DEFINE a == <<"avail", 0>>
             s == <<"SUBSCRIBE", 0>>
             d == <<"disc", module>>
             p == <<"state", dev>>
  <2>1. /\ out = <<>> /\ session = "open" /\ missed \in BOOLEAN
        /\ a \in Said /\ s \in Said /\ d \in Said /\ p \in Said
    BY <1>2 DEF WireShape, WireTyped, Said
  <2>2. PICK all \in Seq(Said) : all = <<a, s, d, p>>
    <3>1. <<a, s, d, p>> \in Seq(Said)
      BY <2>1
    <3> QED
      BY <3>1, Zenon
  <2>3. /\ all # <<>> /\ Len(all) = 4 /\ DOMAIN all = {1, 2, 3, 4} /\ Len(all) - 1 = 3
        /\ all[1] = a /\ all[2] = s /\ all[3] = d /\ all[4] = p
    BY <2>2
  <2>4. PICK three \in Seq(Said) : three = SubSeq(all, 1, 3)
    <3>1. SubSeq(all, 1, 3) \in Seq(Said)
      BY <2>2, <2>3, SubSeqProperties
    <3> QED
      BY <3>1, Zenon
  <2>5. DOMAIN three = {1, 2, 3} /\ three[1] = a /\ three[2] = s /\ three[3] = d
    BY <2>1, <2>3, <2>4, SubSeqProperties
  <2>6. /\ out' \in Seq(Said) /\ missed' \in BOOLEAN /\ uses' = uses
        /\ \/ out' = all /\ missed' = missed
           \/ "bytes" \in uses /\ missed'
           \/ "bytes" \in uses /\ missed' = missed /\ out' = three
    <3>1. Write(out, all)
      BY <2>2 DEF Online, Discovery, State
    <3>2. out \in Seq(Said) /\ out \o all = all /\ out \o three = three
      BY <2>1, ConcatEmptySeq
    <3>3. all[Len(all)][1] = "state"
      BY <2>3
    <3>4. \A i \in DOMAIN all : i # Len(all) => all[i][1] # "state"
      BY <2>3
    <3>5. /\ out' \in Seq(Said) /\ missed' \in BOOLEAN /\ uses' = uses
          /\ \/ out' = out \o all /\ missed' = missed
             \/ "bytes" \in uses /\ missed'
             \/ "bytes" \in uses /\ missed' = missed /\ out' = out \o SubSeq(all, 1, Len(all) - 1)
      BY <1>2, <2>1, <2>3, <3>1, <3>2, <3>3, <3>4, Written
    <3> QED
      BY <2>3, <2>4, <3>2, <3>5
  <2>7. WireShape'
    BY <1>0, <1>2, <2>1, <2>6 DEF WireShape
  <2>8. CASE out' = all
    <3>1. /\ 4 \in DOMAIN all /\ \A j \in DOMAIN all : j > 4 => all[j][1] # "state"
          /\ 3 \in DOMAIN all /\ \A j \in DOMAIN all : j > 3 => all[j][1] # "disc"
      BY <2>3
    <3>0. LastIs(all, kept, "state", dev) /\ LastIs(all, kept, "disc", module)
      BY <2>3, <3>1 DEF LastIs
    <3>2. Under(out', a) /\ Under(out', s)
      BY <2>3, <2>8 DEF Under
    <3> QED
      BY <1>0, <2>6, <2>7, <2>8, <3>0, <3>2 DEF Told
  <2>9. CASE out' = three /\ "bytes" \in uses
    <3>1. 3 \in DOMAIN three /\ \A j \in DOMAIN three : j > 3 => three[j][1] # "disc"
      BY <2>5
    <3>0. LastIs(three, kept, "disc", module)
      BY <2>5, <3>1 DEF LastIs
    <3>2. Under(out', a) /\ Under(out', s)
      BY <2>5, <2>9 DEF Under
    <3> QED
      BY <1>0, <2>6, <2>7, <2>9, <3>0, <3>2 DEF Told
  <2> QED
    BY <2>6, <2>7, <2>8, <2>9 DEF Told
<1> QED
  BY <1>1, <1>2

\* The broker reads one packet of a connection that is up.
LEMMA BrokerTook ==
  ASSUME WireInv, BrokerReads, mq = "up"
  PROVE  link' = "up" /\ kept' \in Keeps /\ WireShape' /\ Told(out, kept, subscribed)'
<1> USE DEF WireInv
<1> DEFINE p == Head(out)
<1>1. /\ link = "up" /\ out # <<>> /\ out \in Seq(Said) /\ session = "open" /\ Told(out, kept, subscribed)
      /\ p \in Said /\ Tail(out) \in Seq(Said)
  BY DEF BrokerReads, WireShape
<1>2. /\ out' = Tail(out) /\ UNCHANGED <<mq, sum, shape, missed, uses>> /\ link' = link /\ session' = session
      /\ \/ p = <<"SUBSCRIBE", 0>> /\ subscribed' = TRUE /\ kept' = kept
         \/ /\ p[1] \in {"avail", "state", "disc"} /\ subscribed' = subscribed
            /\ kept' = [kept EXCEPT ![p[1]] = IF p[1] = "avail" THEN "online" ELSE p[2]]
  <2>1. p[1] # "CONNECT" /\ (p[1] = "SUBSCRIBE" => p = <<"SUBSCRIBE", 0>>)
    BY <1>1 DEF Said
  <2> QED
    BY <1>1, <2>1 DEF BrokerReads, Quietly, houseVars, clientVars, ghostVars
<1>3. kept' \in Keeps
  <2>1. kept \in Keeps
    BY DEF WireTyped
  <2>2. CASE kept' = kept
    BY <2>1, <2>2
  <2>3. CASE p[1] = "avail" /\ kept' = [kept EXCEPT !["avail"] = "online"]
    BY <2>1, <2>3 DEF Keeps
  <2>4. CASE p[1] = "state" /\ kept' = [kept EXCEPT !["state"] = p[2]]
    <3>1. p[2] \in Commands \cup {0}
      BY <1>1, <2>4 DEF Said
    <3> QED
      BY <2>1, <2>4, <3>1 DEF Keeps
  <2>5. CASE p[1] = "disc" /\ kept' = [kept EXCEPT !["disc"] = p[2]]
    <3>1. p[2] \in {0, 1}
      BY <1>1, <2>5 DEF Said
    <3> QED
      BY <2>1, <2>5, <3>1 DEF Keeps
  <2> QED
    BY <1>2, <2>2, <2>3, <2>4, <2>5
<1>4. /\ \A k \in {"state", "disc"} : kept'[k] = IF p[1] = k THEN p[2] ELSE kept[k]
      /\ kept.avail = "online" => kept'.avail = "online"
      /\ p = <<"avail", 0>> => kept'.avail = "online"
  <2>1. kept \in Keeps /\ DOMAIN kept = {"avail", "state", "disc"}
    BY DEF WireTyped, Keeps
  <2>2. CASE kept' = kept /\ p = <<"SUBSCRIBE", 0>>
    BY <2>2
  <2>3. CASE p[1] \in {"avail", "state", "disc"} /\ kept' = [kept EXCEPT ![p[1]] = IF p[1] = "avail" THEN "online" ELSE p[2]]
    BY <2>1, <2>3
  <2> QED
    BY <1>2, <2>2, <2>3
<1>5. WireShape'
  BY <1>1, <1>2 DEF WireShape
<1>6. \A k \in {"state", "disc"} : \A v : LastIs(out, kept, k, v) => LastIs(out', kept', k, v)
  BY <1>1, <1>2, <1>4, LastArrives
<1>7. \A q : Under(out, q) => p = q \/ Under(out', q)
  BY <1>1, <1>2, UnderArrives
<1>8. subscribed => subscribed'
  BY <1>2
<1> QED
  BY <1>1, <1>2, <1>3, <1>4, <1>5, <1>6, <1>7, <1>8 DEF Told

LEMMA WireUntouched ==
  ASSUME WireInv, UNCHANGED <<uses, mqttVars>>
  PROVE  WireInv'
BY DEF WireInv, WireTyped, WireShape, Told, LastIs, Under, mqttVars, clientVars, deviceVars, wireVars,
       brokerVars, ghostVars

LEMMA WireClosed ==
  ASSUME WireInv, Close, backing' \in BOOLEAN
  PROVE  WireInv'
BY DEF WireInv, WireTyped, WireShape, Close, Gone, deviceVars, ghostVars

LEMMA ReadsKeep ==
  ASSUME WireInv, RunInv, MqttReads
  PROVE  WireInv'
<1> USE DEF WireInv
<1>1. CASE in' = Tail(in) /\ mq = "connecting" /\ Online
  <2>1. missed' \in BOOLEAN /\ WireShape' /\ (link = "up" => Told(out, kept, subscribed)')
    BY <1>1, AllWritten DEF MqttReads
  <2>2. WireTyped' /\ link' = link
    BY <1>1, <2>1 DEF Online, WireTyped, deviceVars, brokerVars
  <2> QED
    BY <2>1, <2>2
<1>2. CASE Fail
  BY <1>2, WireClosed DEF Fail
<1>3. CASE in' = Tail(in) /\ mq = "up" /\ TakeCommand(Head(in)) /\ Runs(Head(in))
  <2> DEFINE d == Head(in)[2]
  <2>1. d \in Commands \cup {0}
    BY <1>3, RunSound DEF MqttReads, Runs, IsCommand, RunInv
  <2>2. /\ dev' = d /\ sum' = d /\ Write(out, <<<<"state", d>>>>)
        /\ UNCHANGED <<mq, backing, shape, module, link, brokerVars>>
    BY <1>3 DEF TakeCommand
  <2>3. missed' \in BOOLEAN /\ WireShape' /\ (link = "up" => Told(out, kept, subscribed)')
    BY <1>3, <2>1, <2>2, StateWritten
  <2> QED
    BY <1>3, <2>1, <2>2, <2>3 DEF WireTyped, brokerVars
<1>4. CASE in' = Tail(in) /\ mq = "up" /\ TakeCommand(Head(in)) /\ ~Runs(Head(in))
  BY <1>4 DEF TakeCommand, WireTyped, WireShape, Told, LastIs, Under, Quietly, houseVars, clientVars,
              deviceVars, brokerVars, ghostVars
<1> QED
  BY <1>1, <1>2, <1>3, <1>4 DEF MqttReads

LEMMA BrokerKeeps ==
  ASSUME WireInv, BrokerReads
  PROVE  WireInv'
<1> USE DEF WireInv
<1>0. UNCHANGED <<mq, backing, sum, shape, dev, module, missed>>
  BY DEF BrokerReads, clientVars, deviceVars, ghostVars
<1>1. CASE mq = "up"
  <2>1. link' = "up" /\ kept' \in Keeps /\ WireShape' /\ Told(out, kept, subscribed)'
    BY <1>1, BrokerTook
  <2>2. session' \in {"none", "open", "old"} /\ subscribed' \in BOOLEAN
    BY DEF BrokerReads, BrokerConnects, WireTyped
  <2> QED
    BY <1>0, <2>1, <2>2 DEF WireTyped
<1>2. CASE mq # "up"
  <2>1. mq = "connecting" /\ link = "up" /\ out = <<<<"CONNECT", 0>>>> /\ in = <<>> /\ session # "open"
    BY <1>2 DEF BrokerReads, WireShape, WireTyped
  <2>2. out' = <<>> /\ BrokerConnects
    <3>1. Head(out) = <<"CONNECT", 0>> /\ Tail(out) = <<>>
      BY <2>1
    <3> QED
      BY <3>1 DEF BrokerReads
  <2>3. kept' \in Keeps
    BY <2>2 DEF BrokerConnects, WireTyped, Keeps
  <2> QED
    BY <1>0, <2>1, <2>2, <2>3 DEF BrokerConnects, WireTyped, WireShape
<1> QED
  BY <1>1, <1>2

\* Who ends the connection, or says a will, touches nothing that is still promised.
LEMMA EndsKeep ==
  ASSUME WireInv, WillGoesOut \/ BrokerCloses \/ Cut
  PROVE  WireInv'
<1> USE DEF WireInv
<1>0. [kept EXCEPT !.avail = "offline"] \in Keeps /\ kept \in Keeps
  BY DEF WireTyped, Keeps
<1>1. CASE WillGoesOut
  BY <1>0, <1>1 DEF WillGoesOut, WireTyped, WireShape, clientVars, deviceVars, wireVars, ghostVars
<1>2. CASE BrokerCloses
  BY <1>0, <1>2 DEF BrokerCloses, WireTyped, WireShape, clientVars, deviceVars, ghostVars
<1>3. CASE Cut
  BY <1>3 DEF Cut, Gone, WireTyped, WireShape, clientVars, deviceVars, ghostVars
<1> QED
  BY <1>1, <1>2, <1>3

LEMMA WritesKeep ==
  ASSUME WireInv, Announces \/ Publishes \/ Tele
  PROVE  WireInv'
<1> USE DEF WireInv
<1>1. CASE Announces
  <2>1. missed' \in BOOLEAN /\ WireShape' /\ (link = "up" => Told(out, kept, subscribed)')
    BY <1>1, BothWritten DEF Announces
  <2> QED
    BY <1>1, <2>1 DEF Announces, WireTyped, deviceVars, brokerVars
<1>2. CASE Publishes \/ Tele
  <2>1. missed' \in BOOLEAN /\ WireShape' /\ (link = "up" => Told(out, kept, subscribed)')
    <3>1. dev \in Commands \cup {0} /\ mq = "up" /\ sum' = dev /\ UNCHANGED <<mq, shape, link, brokerVars>>
      BY <1>2 DEF Publishes, Tele, WireTyped
    <3>2. Write(out, <<<<"state", dev>>>>)
      BY <1>2 DEF Publishes, Tele, State
    <3> QED
      BY <3>1, <3>2, StateWritten
  <2> QED
    BY <1>2, <2>1 DEF Publishes, Tele, WireTyped, deviceVars, brokerVars
<1> QED
  BY <1>1, <1>2

LEMMA OthersKeep ==
  ASSUME WireInv,
         MqttConnect \/ BackoffEnds \/ MqttLost \/ MqttHeld \/ Reconnect \/ LocalCommand \/ ModuleForm
         \/ \E retain \in BOOLEAN : SomeoneCommands(retain)
  PROVE  WireInv'
<1> USE DEF WireInv
<1>1. CASE MqttConnect
  <2>1. CASE Fail
    BY <2>1, WireClosed DEF Fail
  <2>2. CASE ~Fail
    BY <1>1, <2>2 DEF MqttConnect, WireTyped, WireShape, deviceVars, brokerVars
  <2> QED
    BY <2>1, <2>2
<1>2. CASE BackoffEnds \/ LocalCommand \/ ModuleForm
  <2>1. /\ UNCHANGED <<uses, mq, sum, shape, link, out, in, session, subscribed, kept, missed>>
        /\ backing' \in {backing, FALSE} /\ dev' \in {dev, 0} /\ module' \in {module, 1 - module}
    BY <1>2 DEF BackoffEnds, LocalCommand, ModuleForm, Happens, houseVars, clientVars, deviceVars, wireVars,
                brokerVars, ghostVars
  <2>2. WireTyped'
    <3>1. module' \in {0, 1} /\ dev' \in Commands \cup {0}
      BY <2>1 DEF WireTyped
    <3>2. backing' \in BOOLEAN
      BY <2>1, Zenon DEF WireTyped
    <3> QED
      BY <2>1, <3>1, <3>2 DEF WireTyped
  <2>3. WireShape'
    BY <2>1 DEF WireShape
  <2>4. LastIs(out, kept, "state", sum) = LastIs(out, kept, "state", sum)'
        /\ LastIs(out, kept, "disc", shape) = LastIs(out, kept, "disc", shape)'
    BY <2>1 DEF LastIs
  <2>5. \A q : Under(out, q) = Under(out', q)
    BY <2>1 DEF Under
  <2> QED
    BY <2>1, <2>2, <2>3, <2>4, <2>5 DEF Told
<1>3. CASE MqttLost \/ MqttHeld \/ Reconnect
  BY <1>3, WireClosed DEF MqttLost, MqttHeld, Reconnect, Fail, WireTyped
<1>4. ASSUME NEW retain \in BOOLEAN, SomeoneCommands(retain)
      PROVE  WireInv'
  <2>1. UNCHANGED <<uses, mq, backing, sum, shape, dev, module, link, out, session, subscribed, kept, missed>>
    BY <1>4 DEF SomeoneCommands, Happens, clientVars, deviceVars
  <2>2. mq = "connecting" /\ link = "up" /\ session # "open" => in' = in
    BY <1>4 DEF SomeoneCommands
  <2>3. WireTyped' /\ WireShape'
    BY <2>1, <2>2 DEF WireTyped, WireShape
  <2> QED
    BY <2>1, <2>3 DEF Told, LastIs, Under
<1> QED
  BY <1>1, <1>2, <1>3, <1>4

\* What a household has stays as it is.
LEMMA UsesKept ==
  ASSUME Boot \/ WiFi \/ Address \/ Record \/ Http
  PROVE  uses' = uses
<1> USE DEF Happens, Quietly, houseVars
<1>1. CASE Boot \/ Http \/ Record
  BY <1>1 DEF Boot, Restarts, Http, Record, DnsSync
<1>2. CASE WiFi
  BY <1>2 DEF WiFi, GotIP, TickConnect, CheckStatus, ProcessReconnect, CheckMemory, DailyRestart, WifiForm,
              UpdateStarts, UpdateEnds
<1>3. CASE Address
  <2>1. CASE AddressChanges \/ Synced \/ ClockRetries \/ RelayConnects \/ RelayTells \/ RelayDrops \/ NameAnswer
    BY <2>1 DEF AddressChanges, Synced, ClockRetries, RelayConnects, RelayTells, RelayDrops, NameAnswer
  <2>2. CASE CheckInterval \/ Check \/ Offer \/ DnsRetry \/ Resync
    BY <2>2 DEF CheckInterval, Check, Offer, DnsRetry, Resync
  <2> QED
    BY <1>3, <2>1, <2>2 DEF Address
<1> QED
  BY <1>1, <1>2, <1>3

LEMMA WireStep ==
  ASSUME WireInv, RunInv, [Next]_vars
  PROVE  WireInv'
<1>1. CASE UNCHANGED vars
  BY <1>1, WireUntouched DEF vars, houseVars
<1>2. CASE Router
  BY <1>2, WireUntouched, EndsKeep DEF Router, RouterChanges, Happens
<1>3. CASE Boot
  BY <1>3 DEF Boot, MqttBoot, Gone, WireInv, WireTyped, WireShape, deviceVars, ghostVars
<1>4. CASE WiFi \/ Address \/ Record \/ Http
  <2>1. UNCHANGED mqttVars
    BY <1>4 DEF WiFi, Address, Record, Http
  <2> QED
    BY <1>4, <2>1, UsesKept, WireUntouched
<1>5. CASE Mqtt
  BY <1>5, ReadsKeep, BrokerKeeps, EndsKeep, WritesKeep, OthersKeep DEF Mqtt, LinkCut
<1> QED
  BY <1>1, <1>2, <1>3, <1>4, <1>5 DEF Next

LEMMA WireHolds ==
  ASSUME Init
  PROVE  WireInv
BY DEF Init, MqttInit, WireInv, WireTyped, WireShape, Keeps

\* What the client takes for published, the broker has whenever nothing is under
\* way (MqttService.h:19-22), for every household, any number of commands and any
\* order of reads, writes, wills, cuts, closings, reconnections and restarts.
THEOREM PublishedKept == Spec => []PublishedIsKept
<1>1. WireInv => PublishedIsKept
  BY DEF WireInv, Told, LastIs, Under, PublishedIsKept
<1> QED
  BY <1>1, RunHolds, RunStep, WireHolds, WireStep, PTL DEF Spec

----------------------------------------------------------------------------
\* The address. A name belongs to it because the answers that may still come to
\* the query that is open were asked about it.

AddrInv ==
    /\ addr \in Addresses /\ relay \in {"off", "fresh", "up", "cut"}
    /\ {ip, told, name, record, synced} \subseteq Addresses \cup {0}
    /\ id \in 0 .. 3 /\ query \in {0, id}
    /\ \A q \in asked : q.id = id => q.ip = ip
    /\ OwnAddressOnly

\* A new address has no name until its own query is answered.
LEMMA ApplyKeeps ==
  ASSUME AddrInv, NEW a \in Addresses, NEW open \in {query, 0}, Apply(a, open)
  PROVE  /\ ip' = a /\ name' \in Addresses \cup {0} /\ id' \in 0 .. 3 /\ query' \in {0, id'}
         /\ \A q \in asked' : q.id = id' => q.ip = ip'
         /\ name' # 0 => name' = ip'
<1> USE DEF AddrInv, OwnAddressOnly, Apply
<1>1. CASE a = ip
  BY <1>1
<1>2. CASE a # ip
  <2>1. /\ ip' = a /\ name' = 0 /\ id' = 1 + (id % 3)
        /\ query' \in {0, id'}
        /\ asked' \subseteq {q \in asked : q.id = id} \cup {[id |-> id', ip |-> a]}
    BY <1>2 DEF Lookup
  <2>2. id' \in 1 .. 3 /\ id' # id
    BY <2>1
  <2>3. \A q \in asked' : q.id = id' => q.ip = a
    BY <2>1, <2>2
  <2> QED
    BY <2>1, <2>2, <2>3
<1> QED
  BY <1>1, <1>2

LEMMA AddrStep ==
  ASSUME AddrInv, [Next]_vars
  PROVE  AddrInv'
<1> USE DEF AddrInv, OwnAddressOnly
<1>1. CASE UNCHANGED addressVars
  BY <1>1 DEF addressVars, clockVars, relayVars, checkVars, nameVars, dnsVars
<1>2. CASE Router
  BY <1>2 DEF Router, clockVars, checkVars, nameVars, dnsVars
<1>3. CASE Boot
  BY <1>3 DEF Boot, AddressBoot
<1>4. CASE AddressChanges \/ Synced \/ ClockRetries \/ RelayConnects \/ RelayTells \/ RelayDrops \/ CheckInterval
  BY <1>4 DEF AddressChanges, Synced, ClockRetries, RelayConnects, RelayTells, RelayDrops, CheckInterval,
              clockVars, relayVars, checkVars, nameVars, dnsVars
<1>5. CASE NameAnswer
  <2>1. PICK answer \in asked : name' = IF IsOurs(answer) THEN answer.ip ELSE name
    BY <1>5 DEF NameAnswer
  <2>2. query = id /\ query' = 0 /\ UNCHANGED <<addr, relay, told, ip, id, asked, record, synced, lost>>
    BY <1>5 DEF NameAnswer, relayVars, checkVars, dnsVars
  <2>3. name' = name \/ name' = ip
    BY <2>1, <2>2 DEF IsOurs
  <2> QED
    BY <2>2, <2>3
<1>6. CASE Check
  <2>1. UNCHANGED <<addr, relay, told, record, synced, lost>>
    BY <1>6 DEF Check, relayVars, dnsVars
  <2>2. CASE \E open \in {query, 0} : Apply(addr, open)
    BY <2>1, <2>2, ApplyKeeps
  <2>3. CASE query' \in {query, 0} /\ UNCHANGED <<ip, id, asked, name>>
    BY <2>1, <2>3
  <2> QED
    BY <1>6, <2>2, <2>3 DEF Check
<1>7. CASE Offer
  <2>1. UNCHANGED <<addr, relay, told, record, synced, lost>>
    BY <1>7 DEF Offer, dnsVars
  <2>2. CASE told # 0 /\ Apply(told, query)
    BY <2>1, <2>2, ApplyKeeps
  <2>3. CASE UNCHANGED <<checkVars, nameVars>>
    BY <2>1, <2>3 DEF checkVars, nameVars
  <2> QED
    BY <1>7, <2>2, <2>3 DEF Offer
<1>8. CASE Record \/ DnsRetry \/ Resync
  BY <1>8 DEF Record, DnsSync, DnsRetry, Resync, clockVars, relayVars, checkVars, nameVars
<1>9. CASE WiFi \/ Mqtt \/ Http
  BY <1>1, <1>9 DEF WiFi, Mqtt, Http
<1>10. CASE UNCHANGED vars
  BY <1>1, <1>10 DEF vars
<1> QED
  BY <1>2, <1>3, <1>4, <1>5, <1>6, <1>7, <1>8, <1>9, <1>10 DEF Next, Address

LEMMA AddrHolds ==
  ASSUME Init
  PROVE  AddrInv
BY DEF Init, AddressInit, AddrInv, OwnAddressOnly, Addresses

\* The name shown is the address's own, however late the answers to earlier
\* queries come (ReverseDNS.h:73), and the address taken for the record's is on
\* it, but for a lost answer (CloudflareDNS.h:77), also over restarts.
THEOREM OwnAddress == Spec => []OwnAddressOnly
<1>1. AddrInv => OwnAddressOnly
  BY DEF AddrInv
<1> QED
  BY <1>1, AddrHolds, AddrStep, PTL DEF Spec

----------------------------------------------------------------------------
\* Types. The memory strikes need the restart they bring: no strike is counted
\* while it is due.

RadioTyped ==
    /\ ssid \in {"none", "wrong", "right"} /\ mode \in {"connecting", "setup", "station"}
    /\ radio \in {"off", "trying", "assoc"}
    /\ router \in BOOLEAN /\ waiting \in BOOLEAN /\ restart \in BOOLEAN /\ updating \in BOOLEAN

Counted ==
    /\ fails \in 0 .. MAX_FAILURES /\ strikes \in 0 .. MEM_STRIKES
    /\ strikes = MEM_STRIKES => restart

WiFiInv == RadioTyped /\ Counted

InLine == queue \in Seq(Browsers) /\ Len(queue) <= MAX_PENDING
Served == client \in Browsers \cup {""}

LEMMA RadioStep ==
  ASSUME RadioTyped, [Next]_vars
  PROVE  RadioTyped'
<1> USE DEF RadioTyped
<1>1. CASE UNCHANGED wifiVars
  BY <1>1 DEF wifiVars, radioVars, watchVars
<1>2. CASE Router
  BY <1>2 DEF Router, RouterChanges, watchVars
<1>3. CASE Boot
  BY <1>3, Zenon DEF Boot, Restarts, ModeAtBoot, RadioAtBoot
<1>4. CASE GotIP \/ TickConnect \/ ProcessReconnect
  BY <1>4, Zenon DEF GotIP, TickConnect, ProcessReconnect, watchVars
<1>5. CASE CheckStatus \/ CheckMemory
  BY <1>5 DEF CheckStatus, CheckMemory, radioVars
<1>6. CASE DailyRestart \/ WifiForm \/ UpdateStarts \/ UpdateEnds
  BY <1>6 DEF DailyRestart, WifiForm, UpdateStarts, UpdateEnds, radioVars, watchVars
<1>7. CASE Record
  BY <1>7 DEF Record, DnsSync, radioVars
<1>8. CASE Mqtt \/ Address \/ Http
  BY <1>1, <1>8 DEF Mqtt, Address, Http
<1>9. CASE UNCHANGED vars
  BY <1>1, <1>9 DEF vars
<1> QED
  BY <1>2, <1>3, <1>4, <1>5, <1>6, <1>7, <1>8, <1>9 DEF Next, WiFi

LEMMA CountStep ==
  ASSUME Counted, [Next]_vars
  PROVE  Counted'
<1> USE DEF Counted, MAX_FAILURES, MEM_STRIKES
<1>1. CASE UNCHANGED watchVars
  BY <1>1 DEF watchVars
<1>2. CASE Router \/ Mqtt \/ Address \/ Http
  BY <1>1, <1>2 DEF Router, RouterChanges, Mqtt, Address, Http, wifiVars
<1>3. CASE Boot
  BY <1>3 DEF Boot, Restarts
<1>4. CASE GotIP \/ TickConnect \/ ProcessReconnect \/ UpdateStarts \/ UpdateEnds
  BY <1>4 DEF GotIP, TickConnect, ProcessReconnect, UpdateStarts, UpdateEnds, watchVars
<1>5. CASE CheckStatus
  <2>1. strikes' = strikes /\ (restart => restart')
    BY <1>5, Zenon DEF CheckStatus
  <2>2. fails' \in 0 .. MAX_FAILURES
    BY <1>5 DEF CheckStatus
  <2> QED
    BY <2>1, <2>2
<1>6. CASE CheckMemory
  <2>1. /\ fails' = fails /\ ~restart /\ (strikes' = strikes + 1 \/ strikes' = 0)
        /\ strikes' = MEM_STRIKES => restart'
    BY <1>6, Zenon DEF CheckMemory, Watched
  <2> QED
    BY <2>1
<1>7. CASE DailyRestart \/ WifiForm
  BY <1>7 DEF DailyRestart, WifiForm
<1>8. CASE Record
  BY <1>8 DEF Record, DnsSync
<1>9. CASE UNCHANGED vars
  BY <1>1, <1>9 DEF vars, wifiVars
<1> QED
  BY <1>2, <1>3, <1>4, <1>5, <1>6, <1>7, <1>8, <1>9 DEF Next, WiFi

LEMMA WiFiStep ==
  ASSUME WiFiInv, [Next]_vars
  PROVE  WiFiInv'
BY RadioStep, CountStep DEF WiFiInv

LEMMA WiFiHolds ==
  ASSUME Init
  PROVE  WiFiInv
<1>1. PICK h \in Households : WiFiInit(h.ssid)
  BY DEF Init
<1>2. h.ssid \in {"none", "wrong", "right"}
  BY HouseholdsAssumption
<1>3. RadioTyped
  BY <1>1, <1>2, Zenon DEF WiFiInit, RadioTyped, ModeAtBoot, RadioAtBoot
<1>4. Counted
  BY <1>1 DEF WiFiInit, Counted, MAX_FAILURES, MEM_STRIKES
<1> QED
  BY <1>3, <1>4 DEF WiFiInv

\* The line of the browsers, as the server's steps change it.
LEMMA LineShape ==
  ASSUME [Next]_vars
  PROVE  \/ UNCHANGED queue
         \/ queue' = <<>>
         \/ queue # <<>> /\ queue' = Tail(queue)
         \/ Len(queue) < MAX_PENDING /\ \E b \in Browsers : queue' = Append(queue, b)
         \/ \E i \in DOMAIN queue : queue' = RemoveAt(queue, i)
<1>1. CASE Boot \/ Router \/ WiFi \/ Mqtt \/ Address \/ Record \/ UNCHANGED vars
  BY <1>1, Zenon DEF Boot, HttpOff, Router, WiFi, Mqtt, Address, Record, vars, httpVars
<1>2. CASE Http
  <2>1. CASE Accepts
    BY <2>1, Zenon DEF Accepts
  <2>2. CASE Idles \/ Yields \/ Serves \/ Answers \/ ReadWaits \/ ReadEnds \/ Late
    BY <2>2, Zenon DEF Idles, Yields, Serves, Answers, ReadWaits, ReadEnds, Late, Drop
  <2>3. ASSUME NEW b \in Browsers, NEW what, Connects(b, what) \/ Sends(b, what) \/ Leaves(b)
        PROVE  \/ UNCHANGED queue
               \/ Len(queue) < MAX_PENDING /\ queue' = Append(queue, b)
               \/ \E i \in DOMAIN queue : queue' = RemoveAt(queue, i)
    BY <2>3, Zenon DEF Connects, Sends, Leaves
  <2> QED
    BY <1>2, <2>1, <2>2, <2>3, Zenon DEF Http
<1> QED
  BY <1>1, <1>2, Zenon DEF Next

LEMMA LineStep ==
  ASSUME InLine, [Next]_vars
  PROVE  InLine'
<1> USE DEF InLine
<1>0. MAX_PENDING \in Nat
  BY BrowsersAssumption
<1>1. CASE UNCHANGED queue
  BY <1>1
<1>2. CASE queue' = <<>>
  BY <1>0, <1>2
<1>5. CASE queue # <<>> /\ queue' = Tail(queue)
  BY <1>0, <1>5
<1>3. ASSUME NEW b \in Browsers, Len(queue) < MAX_PENDING, queue' = Append(queue, b)
      PROVE  InLine'
  BY <1>0, <1>3
<1>4. ASSUME NEW i \in DOMAIN queue, queue' = RemoveAt(queue, i)
      PROVE  InLine'
  <2>1. /\ SubSeq(queue, 1, i - 1) \in Seq(Browsers) /\ Len(SubSeq(queue, 1, i - 1)) = i - 1
        /\ SubSeq(queue, i + 1, Len(queue)) \in Seq(Browsers)
        /\ Len(SubSeq(queue, i + 1, Len(queue))) = Len(queue) - i
    BY SubSeqProperties
  <2>2. PICK s \in Seq(Browsers), t \in Seq(Browsers) :
           queue' = s \o t /\ Len(s) = i - 1 /\ Len(t) = Len(queue) - i
    BY <1>4, <2>1, Zenon DEF RemoveAt
  <2>3. queue' \in Seq(Browsers) /\ Len(queue') = Len(queue) - 1
    BY <2>2, ConcatProperties
  <2> QED
    BY <1>0, <2>3
<1> QED
  BY <1>1, <1>2, <1>3, <1>4, <1>5, LineShape

LEMMA LineHolds ==
  ASSUME Init
  PROVE  InLine
<1>1. queue = <<>>
  BY Zenon DEF Init, HttpInit
<1> QED
  BY <1>1, BrowsersAssumption DEF InLine

LEMMA ServedStep ==
  ASSUME InLine, Served, [Next]_vars
  PROVE  Served'
<1>1. CASE Boot \/ Router \/ WiFi \/ Mqtt \/ Address \/ Record \/ UNCHANGED vars
  BY <1>1, Zenon DEF Served, Boot, HttpOff, Router, WiFi, Mqtt, Address, Record, vars, httpVars
<1>2. CASE Accepts
  <2>1. queue # <<>> /\ client' = Head(queue)
    BY <1>2, Zenon DEF Accepts
  <2>2. client' \in Browsers
    BY <2>1 DEF InLine
  <2> QED
    BY <2>2, Zenon DEF Served
<1>3. CASE Idles \/ Yields \/ Serves \/ Answers \/ ReadWaits \/ ReadEnds \/ Late
  BY <1>3, Zenon DEF Served, Idles, Yields, Serves, Answers, ReadWaits, ReadEnds, Late, Drop
<1>4. ASSUME NEW b, NEW what, Connects(b, what) \/ Sends(b, what) \/ Leaves(b)
      PROVE  Served'
  BY <1>4, Zenon DEF Served, Connects, Sends, Leaves
<1> QED
  BY <1>1, <1>2, <1>3, <1>4, Zenon DEF Next, Http

LEMMA ServedHolds ==
  ASSUME Init
  PROVE  Served
BY Zenon DEF Init, HttpInit, Served

\* Every variable keeps its type, for every household the code's three kinds of
\* network allow: the failures stop at MAX_FAILURES (WiFiService.h), the strikes
\* at MEM_STRIKES, the connections waiting at what lwIP keeps.
THEOREM NetworkTypeCorrect == Spec => []TypeOK
<1>1. WiFiInv /\ InLine /\ Served /\ AddrInv /\ WireInv /\ RunInv => TypeOK
  <2> SUFFICES ASSUME WiFiInv, InLine, Served, AddrInv, WireInv, RunInv
               PROVE  TypeOK
    OBVIOUS
  <2>1. command \in Commands \cup {0}
    BY CommandsAssumption DEF RunInv, Commands
  <2>2. client \in Browsers \cup {""} /\ Len(queue) <= MAX_PENDING
    BY Zenon DEF Served, InLine
  <2>3. {router, waiting, restart, updating} \subseteq BOOLEAN
    BY Zenon DEF WiFiInv, RadioTyped
  <2>4. {dev, sum, command} \subseteq Commands \cup {0} /\ (mq = "idle") = (link = "none")
    BY <2>1, Zenon DEF WireInv, WireTyped, WireShape
  <2> QED
    BY <2>2, <2>3, <2>4, Zenon DEF TypeOK, WiFiInv, RadioTyped, Counted, AddrInv, WireInv, WireTyped
<1> QED
  BY <1>1, RunHolds, RunStep, WireHolds, WireStep, AddrHolds, AddrStep, WiFiHolds, WiFiStep, LineHolds,
     LineStep, ServedHolds, ServedStep, PTL DEF Spec

=============================================================================
