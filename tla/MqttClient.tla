------------------------------ MODULE MqttClient ------------------------------
(* The MQTT client (MqttService.h), the TCP connection to the broker and what  *)
(* the broker does with a QoS 0 client: the retained messages, the will, the   *)
(* session another CONNECT of the same client takes over. A connection loses   *)
(* what is still in it when it breaks; a write that does not fit loses bytes   *)
(* in the middle, for _write does not look at its result.                      *)
EXTENDS WiFiSupervisor, Sequences

CONSTANT MaxCommands    \* bound: commands sent through the broker

ASSUME CommandsAssumption == MaxCommands \in Nat

VARIABLES mq,          \* _state: "idle", "connecting", "up"
          backing,     \* _waiting: the backoff has not run out
          dev,         \* the actuator's state: the last command it took
          sum,         \* _sum: the state published last
          module,      \* _shapeNow: the configured sensor and actuator
          shape,       \* _shape: the module announced last
          link,        \* TCP: "none", "up", "closed" by the peer, "cut" unnoticed
          out, in,     \* what is under way, device to broker and back
          session,     \* the broker's: "none", "open", or of an "old" connection
          subscribed,  \* ... to the command topic
          kept,        \* retained: availability, state, discovery
          command,     \* retained on the command topic (0: none)
          sent,        \* ghost: commands sent so far
          ran,         \* ghost: how often each of them ran
          missed       \* ghost: the broker never got what is only sent once per connection

clientVars == <<mq, backing, sum, shape>>
deviceVars == <<dev, module>>
wireVars == <<link, out, in>>
brokerVars == <<session, subscribed, kept, command>>
ghostVars == <<sent, ran, missed>>
mqttVars == <<clientVars, deviceVars, wireVars, brokerVars, ghostVars>>

Commands == 1 .. MaxCommands

MqttInit ==
    /\ mq = "idle" /\ backing = FALSE /\ dev = 0 /\ sum = 0 /\ module = 0 /\ shape = 0
    /\ link = "none" /\ out = <<>> /\ in = <<>>
    /\ session = "none" /\ subscribed = FALSE /\ command = 0
    /\ kept = [avail |-> "none", state |-> 0, disc |-> 0]
    /\ sent = 0 /\ ran = [c \in Commands |-> 0] /\ missed = FALSE

Gone == IF session = "open" THEN "old" ELSE session

\* tick's first condition: no hold (an update, App.h:130), a broker, Wi-Fi.
Free == "broker" \in uses /\ ~updating /\ Assoc

----------------------------------------------------------------------------
\* The device.

\* What is written goes out whole, is lost with the connection, or loses some
\* packets in a row: the bytes that found no room. A packet cut in its middle is
\* one the broker cannot read: it closes the connection (BrokerCloses).
Write(rest, packets) ==
    \/ Quietly /\ link = "up" /\ out' = rest \o packets /\ UNCHANGED missed
    \/ Quietly /\ link # "up" /\ UNCHANGED <<out, missed>>
    \/ /\ link = "up" /\ Happens("bytes")
       /\ \E i, j \in 1 .. Len(packets) :
             /\ i <= j
             /\ out' = rest \o SubSeq(packets, 1, i - 1) \o SubSeq(packets, j + 1, Len(packets))
             /\ missed' = (missed \/ \E k \in i .. j : packets[k][1] # "state")

State == <<"state", dev>>
Discovery == <<"disc", module>>

\* _close, and _fail with its backoff.
Close ==
    /\ mq' = "idle" /\ link' = "none" /\ out' = <<>> /\ in' = <<>> /\ session' = Gone
    /\ UNCHANGED <<sum, shape, deviceVars, subscribed, kept, command, ghostVars>>
Fail == Close /\ backing' = TRUE

MqttConnect ==
    /\ Free /\ mq = "idle" /\ ~backing
    /\ \/ /\ Quietly /\ mq' = "connecting" /\ link' = "up"
          /\ out' = <<<<"CONNECT", 0>>>> /\ in' = <<>> /\ missed' = FALSE
          /\ UNCHANGED <<backing, sum, shape, deviceVars, brokerVars, sent, ran>>
       \/ Happens("faults") /\ Fail

BackoffEnds == backing /\ backing' = FALSE /\ UNCHANGED <<houseVars, mq, sum, shape, deviceVars, wireVars, brokerVars, ghostVars>>

\* Mutant: the state waits for its next change.
OnlineUnsaid ==
    /\ mq' = "up" /\ backing' = FALSE /\ sum' = dev /\ shape' = module
    /\ Write(out, <<<<"avail", 0>>, <<"SUBSCRIBE", 0>>, Discovery>>)
    /\ UNCHANGED <<deviceVars, link, brokerVars, sent, ran>>

\* CONNACK: available, subscribed, announced and published, in this order.
Online ==
    /\ mq' = "up" /\ backing' = FALSE /\ sum' = dev /\ shape' = module
    /\ Write(out, <<<<"avail", 0>>, <<"SUBSCRIBE", 0>>, Discovery, State>>)
    /\ UNCHANGED <<deviceVars, link, brokerVars, sent, ran>>

\* Mutant: the retain flag is not looked at.
RunsAll(packet) == packet[1] \in {"cmd", "retained"}
Runs(packet) == packet[1] = "cmd"

\* A command is run and the state published at once; a retained one is ignored.
TakeCommand(packet) ==
    \/ /\ Runs(packet)
       /\ dev' = packet[2] /\ sum' = packet[2] /\ ran' = [ran EXCEPT ![packet[2]] = @ + 1]
       /\ Write(out, <<<<"state", packet[2]>>>>)
       /\ UNCHANGED <<mq, backing, shape, module, link, brokerVars, sent>>
    \/ /\ ~Runs(packet) /\ Quietly
       /\ UNCHANGED <<clientVars, deviceVars, link, out, brokerVars, ghostVars>>

MqttReads ==
    /\ Free /\ mq # "idle" /\ in # <<>>
    /\ LET packet == Head(in) IN
       \/ packet = <<"CONNACK", 0>> /\ mq = "connecting" /\ in' = Tail(in) /\ Online
       \/ packet = <<"CONNACK", 5>> /\ mq = "connecting" /\ Quietly /\ Fail
       \/ packet[1] # "CONNACK" /\ mq = "up" /\ in' = Tail(in) /\ TakeCommand(packet)

\* connected() is false, CONNACK_MS or one and a half keepalives pass in silence.
Silent == link = "cut" \/ (mq = "connecting" /\ out = <<>> /\ session # "open")

MqttLost ==
    /\ Free /\ mq # "idle" /\ in = <<>> /\ Fail
    /\ \/ Quietly /\ (link = "closed" \/ Silent)
       \/ Happens("faults")

\* The module was changed on the panel.
Announces ==
    /\ Free /\ mq = "up" /\ shape # module
    /\ shape' = module /\ sum' = dev /\ Write(out, <<Discovery, State>>)
    /\ UNCHANGED <<mq, backing, deviceVars, link, in, brokerVars, sent, ran>>

\* A changed state, within STATE_MS.
Publishes ==
    /\ Free /\ mq = "up" /\ sum # dev
    /\ sum' = dev /\ Write(out, <<State>>)
    /\ UNCHANGED <<mq, backing, shape, deviceVars, link, in, brokerVars, sent, ran>>

\* Mutant: an unchanged state is not published.
TeleIfChanged == Publishes /\ out = <<>>

\* TELE_MS: the state again, unchanged. One at a time is under way.
Tele ==
    /\ Free /\ mq = "up" /\ out = <<>>
    /\ sum' = dev /\ Write(out, <<State>>)
    /\ UNCHANGED <<mq, backing, shape, deviceVars, link, in, brokerVars, sent, ran>>

\* Held, or without Wi-Fi: closed with no backoff.
MqttHeld == ~Free /\ mq # "idle" /\ Quietly /\ Close /\ UNCHANGED backing

\* The panel's broker form.
Reconnect == "broker" \in uses /\ Happens("owner") /\ Close /\ backing' = FALSE

\* What decides over the actuator without the broker, and the module's form.
LocalCommand ==
    /\ dev # 0 /\ Happens("commands") /\ dev' = 0
    /\ UNCHANGED <<clientVars, module, wireVars, brokerVars, ghostVars>>
ModuleForm ==
    /\ Happens("module") /\ module' = 1 - module
    /\ UNCHANGED <<clientVars, dev, wireVars, brokerVars, ghostVars>>

MqttBoot ==
    /\ mq' = "idle" /\ backing' = FALSE /\ sum' = 0 /\ shape' = 0
    /\ link' = "none" /\ out' = <<>> /\ in' = <<>> /\ session' = Gone
    /\ UNCHANGED <<deviceVars, subscribed, kept, command, ghostVars>>

----------------------------------------------------------------------------
\* The broker and the connection.

Retained == IF command = 0 THEN <<>> ELSE <<<<"retained", command>>>>

\* A CONNECT closes an older connection of the same client, whose will comes
\* first; or it is refused.
BrokerConnects ==
    \/ /\ Quietly /\ session' = "open" /\ subscribed' = FALSE /\ in' = Append(in, <<"CONNACK", 0>>)
       /\ kept' = IF session = "none" THEN kept ELSE [kept EXCEPT !.avail = "offline"]
       /\ UNCHANGED link
    \/ Happens("faults") /\ in' = Append(in, <<"CONNACK", 5>>) /\ link' = "closed" /\ UNCHANGED <<session, subscribed, kept>>

BrokerReads ==
    /\ link = "up" /\ out # <<>>
    /\ out' = Tail(out)
    /\ LET packet == Head(out) IN
       \/ packet[1] = "CONNECT" /\ BrokerConnects
       \/ /\ packet[1] = "SUBSCRIBE" /\ Quietly /\ subscribed' = TRUE /\ in' = in \o Retained
          /\ UNCHANGED <<session, kept, link>>
       \/ /\ packet[1] \in {"avail", "state", "disc"} /\ Quietly
          /\ kept' = [kept EXCEPT ![packet[1]] = IF packet[1] = "avail" THEN "online" ELSE packet[2]]
          /\ UNCHANGED <<session, subscribed, in, link>>
    /\ UNCHANGED <<clientVars, deviceVars, command, ghostVars>>

\* The keepalive of a connection the device has left runs out: its will.
WillGoesOut ==
    /\ session = "old" /\ session' = "none" /\ subscribed' = FALSE
    /\ kept' = [kept EXCEPT !.avail = "offline"]
    /\ UNCHANGED <<houseVars, clientVars, deviceVars, wireVars, command, ghostVars>>

\* The broker stops (no will goes out then) or closes the connection.
BrokerCloses ==
    /\ link = "up" /\ Happens("faults") /\ link' = "closed" /\ out' = <<>>
    /\ session' = "none" /\ subscribed' = FALSE
    /\ kept' \in {kept, [kept EXCEPT !.avail = "offline"]}
    /\ UNCHANGED <<clientVars, deviceVars, in, command, ghostVars>>

Cut ==
    /\ link' = IF link = "up" THEN "cut" ELSE link
    /\ out' = <<>> /\ session' = IF link = "up" THEN Gone ELSE session
    /\ UNCHANGED <<clientVars, deviceVars, in, subscribed, kept, command, ghostVars>>
LinkCut == link = "up" /\ Happens("faults") /\ Cut

\* Someone publishes a command. The broker sends it on without the flag to who
\* is subscribed, and with it to who subscribes later.
SomeoneCommands(retain) ==
    /\ sent < MaxCommands /\ Happens("commands") /\ sent' = sent + 1
    /\ in' = IF link = "up" /\ session = "open" /\ subscribed THEN Append(in, <<"cmd", sent'>>) ELSE in
    /\ command' = IF retain THEN sent' ELSE command
    /\ UNCHANGED <<clientVars, deviceVars, link, out, session, subscribed, kept, ran, missed>>

=============================================================================
