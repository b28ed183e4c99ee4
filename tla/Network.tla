-------------------------------- MODULE Network --------------------------------
(* The device on its network: Wi-Fi (WiFiSupervisor), what it carries - the    *)
(* broker (MqttClient), the public address (PublicAddress) and the panel's     *)
(* browsers (HttpServer) - and the restarts that take all of them down.        *)
EXTENDS MqttClient, PublicAddress, HttpServer

CONSTANTS Households    \* those looked at: what they have, what happens how often, their network

ASSUME HouseholdsAssumption == \A h \in Households : h.ssid \in {"none", "wrong", "right"}

vars == <<houseVars, wifiVars, mqttVars, addressVars, httpVars>>

Init ==
    /\ \E h \in Households : uses = h.uses /\ left = h.times /\ WiFiInit(h.ssid)
    /\ MqttInit /\ AddressInit /\ HttpInit

\* The router goes: what it carried is cut.
Router ==
    /\ RouterChanges
    /\ IF router THEN Cut ELSE UNCHANGED mqttVars
    /\ relay' = IF router /\ relay # "off" THEN "cut" ELSE relay
    /\ UNCHANGED <<addr, clockVars, told, news, checkVars, nameVars, dnsVars>>
    /\ UNCHANGED httpVars

Boot == Restarts /\ MqttBoot /\ AddressBoot /\ HttpOff

WiFi ==
    /\ \/ GotIP \/ TickConnect \/ CheckStatus \/ ProcessReconnect
       \/ CheckMemory \/ DailyRestart \/ WifiForm \/ UpdateStarts \/ UpdateEnds
    /\ UNCHANGED <<mqttVars, addressVars, httpVars>>

Mqtt ==
    /\ \/ MqttConnect \/ BackoffEnds \/ MqttReads \/ MqttLost \/ Announces \/ Publishes \/ Tele
       \/ MqttHeld \/ Reconnect \/ LocalCommand \/ ModuleForm
       \/ BrokerReads \/ BrokerCloses \/ LinkCut
       \/ (WillGoesOut /\ Quietly)
       \/ \E retain \in BOOLEAN : SomeoneCommands(retain)
    /\ UNCHANGED <<wifiVars, addressVars, httpVars>>

Address ==
    /\ \/ AddressChanges \/ Synced \/ ClockRetries \/ RelayConnects \/ RelayTells \/ RelayDrops
       \/ NameAnswer \/ CheckInterval \/ Check \/ Offer \/ DnsRetry \/ Resync
    /\ UNCHANGED <<wifiVars, mqttVars, httpVars>>

Record == DnsSync /\ UNCHANGED <<radioVars, strikes, restart, updating, mqttVars, httpVars>>

Http ==
    /\ Quietly /\ "panel" \in uses
    /\ \/ Accepts \/ Idles \/ Yields \/ Serves \/ Answers \/ ReadWaits \/ ReadEnds \/ Late
       \/ \E b \in Browsers :
             \/ Assoc /\ \E what \in {"none", "part", "whole"} : Connects(b, what)
             \/ \E what \in {"part", "whole"} : Sends(b, what)
             \/ Leaves(b)
    /\ UNCHANGED <<wifiVars, mqttVars, addressVars>>

Next == Router \/ Boot \/ WiFi \/ Mqtt \/ Address \/ Record \/ Http

(***************************************************************************)
(* Fairness: the loop goes on, its timers run out, the SDK associates with *)
(* a router in reach, the broker reads what arrives. Nothing is assumed of *)
(* people, of the router, of what fails (each failure is one of the events *)
(* "left"), nor that the name's query is answered or the relay connected.  *)
(***************************************************************************)
OnlyWiFi == UNCHANGED <<mqttVars, addressVars, httpVars>>
OnlyMqtt == UNCHANGED <<wifiVars, addressVars, httpVars>>
OnlyAddress == UNCHANGED <<wifiVars, mqttVars, httpVars>>
OnlyHttp == UNCHANGED <<houseVars, wifiVars, mqttVars, addressVars>>

Fairness ==
    /\ WF_vars(Boot)
    /\ WF_vars(GotIP /\ OnlyWiFi)
    /\ WF_vars((TickConnect \/ CheckStatus \/ ProcessReconnect) /\ OnlyWiFi)
    /\ WF_vars(UpdateEnds /\ OnlyWiFi)
    /\ WF_vars((MqttConnect \/ MqttReads \/ MqttLost \/ Announces \/ Publishes \/ MqttHeld) /\ OnlyMqtt)
    /\ WF_vars(BackoffEnds /\ OnlyMqtt)
    /\ WF_vars(Tele /\ OnlyMqtt)
    /\ WF_vars((BrokerReads \/ (WillGoesOut /\ Quietly)) /\ OnlyMqtt)
    /\ WF_vars((Synced \/ ClockRetries) /\ OnlyAddress)
    /\ WF_vars((RelayTells \/ (relay = "cut" /\ RelayDrops)) /\ OnlyAddress)
    /\ WF_vars(CheckInterval /\ OnlyAddress)
    /\ WF_vars(Check /\ OnlyAddress)
    /\ WF_vars(Offer /\ OnlyAddress)
    /\ WF_vars(Record)
    /\ WF_vars(DnsRetry /\ OnlyAddress)
    /\ WF_vars((Accepts \/ Yields \/ Serves \/ Answers \/ Late) /\ OnlyHttp)
    /\ WF_vars(Idles /\ OnlyHttp)

Spec == Init /\ [][Next]_vars /\ Fairness

----------------------------------------------------------------------------
\* Properties.

TypeOK ==
    /\ ssid \in {"none", "wrong", "right"} /\ mode \in {"connecting", "setup", "station"}
    /\ radio \in {"off", "trying", "assoc"} /\ {router, waiting, restart, updating} \subseteq BOOLEAN
    /\ fails \in 0 .. MAX_FAILURES /\ strikes \in 0 .. MEM_STRIKES
    /\ mq \in {"idle", "connecting", "up"} /\ (mq = "idle") = (link = "none")
    /\ link \in {"none", "up", "closed", "cut"} /\ session \in {"none", "open", "old"}
    /\ {dev, sum, command} \subseteq Commands \cup {0}
    /\ relay \in {"off", "fresh", "up", "cut"} /\ {ip, told, name, record, synced} \subseteq Addresses \cup {0}
    /\ client \in Browsers \cup {""} /\ Len(queue) <= MAX_PENDING

\* "The panel stays reachable" (WiFiService.h:181): whatever the network, the
\* owner, the watchdogs and updates do, the device is on its network or on the
\* access point again and again, and a network that is back and the right one
\* is joined again (WiFiService.h:55-62).
AlwaysReachable ==
    /\ []<>Reachable
    /\ <>[](router /\ ssid = "right") => []<>Assoc

\* A command published through the broker runs at most once, whatever is
\* retained, lost, reconnected or restarted: "A retained message is ignored: it
\* would repeat on every connection" (MqttService.h:25-27).
CommandRunsOnce == \A c \in Commands : ran[c] <= 1

\* What the client takes for published - _sum, _shape - the broker has, whenever
\* nothing is under way on a connection that is up; and it has the device online
\* and subscribed. Only a write that lost its bytes may differ, the state until
\* it is told again and the rest until the next connection (MqttService.h:19-22).
PublishedIsKept ==
    mq = "up" /\ link = "up" /\ out = <<>> =>
        /\ "bytes" \in uses \/ kept.state = sum
        /\ missed \/ (kept.avail = "online" /\ kept.disc = shape /\ subscribed)

\* The name shown is never another address's (an answer to an earlier query that
\* comes late is dropped, ReverseDNS.h:73), and what the update takes for the
\* record's address (_syncedIP, CloudflareDNS.h:77) is on the record, but for the
\* PATCH whose answer got lost.
OwnAddressOnly ==
    /\ name # 0 => name = ip
    /\ synced # 0 /\ ~lost => record = synced

Stays == <>[](router /\ ssid = "right")

\* Once nothing more happens to it, the broker has the device's state, also when
\* the message was lost ("a lost message does not leave HA without a state",
\* MqttService.h:19-22); and, unless a write lost its bytes, it has the device
\* online, announced with its module, and subscribed - no will of an older
\* connection comes last.
BrokerHas ==
    /\ kept.state = dev
    /\ missed \/ (kept.avail = "online" /\ kept.disc = module /\ subscribed)
BrokerKnows == Stays => <>[]("broker" \in uses => BrokerHas)

\* Once nothing more happens, the device knows its address, by itself or by the
\* relay, shows no other address's name with it, and the record is on it
\* (CloudflareDNS.h:12) - but for one lost answer, which is RecordFollows' case.
AddressKnown ==
    Stays => <>[]("address" \in uses => ip = addr /\ name \in {0, addr} /\ (record = addr \/ lost))

\* "Keeps the Cloudflare A record pointing at the public IP" (CloudflareDNS.h:12).
RecordFollows == Stays => <>[]("address" \in uses => record = addr)

\* A request that has arrived whole is answered, however many connections sit
\* idle or trickle before it (HttpServer.h:15-17, 23-25).
EveryRequestServed == \A b \in Browsers : data[b] = "whole" ~> data[b] = "away"

=============================================================================
