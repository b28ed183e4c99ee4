---------------------------- MODULE WiFiSupervisor ----------------------------
(* Wi-Fi supervision (WiFiService.h): the first association, the set-up access *)
(* point, the reconnection, the restart after repeated failures and the memory *)
(* and uptime watchdogs. The SDK associates on its own while the radio is      *)
(* "trying"; after WiFi.disconnect it is "off" until WiFi.begin.               *)
EXTENDS Naturals

VARIABLES uses,       \* what this household has, and what may happen to it
          left,       \* how often something still happens
          router,     \* the router is in reach
          ssid,       \* the configured network: "none", "wrong" or the "right" one
          mode,       \* "connecting", "setup" or "station"
          radio,      \* "off", "trying" or "assoc"
          waiting,    \* _reconnecting
          fails,      \* _failCount
          strikes,    \* _memStrikes
          restart,    \* _restartPending
          updating    \* an update has its session or its download

houseVars == <<uses, left>>
radioVars == <<router, ssid, mode, radio, waiting>>
watchVars == <<fails, strikes, restart>>
wifiVars == <<radioVars, watchVars, updating>>

MAX_FAILURES == 5
MEM_STRIKES == 3

Assoc == radio = "assoc"
Reachable == Assoc \/ mode = "setup"

\* Something happens to this household that its parts do not bring about.
Happens(kind) == kind \in uses /\ left > 0 /\ left' = left - 1 /\ UNCHANGED uses
Quietly == UNCHANGED houseVars

\* begin: with no network the access point alone, with one the station.
ModeAtBoot(net) == IF net = "none" THEN "setup" ELSE "connecting"
RadioAtBoot(net) == IF net = "none" THEN "off" ELSE "trying"

WiFiInit(net) ==
    /\ router = TRUE /\ ssid = net /\ mode = ModeAtBoot(net) /\ radio = RadioAtBoot(net)
    /\ waiting = FALSE /\ fails = 0 /\ strikes = 0 /\ restart = FALSE /\ updating = FALSE

RouterChanges ==
    /\ Happens("router") /\ router' = ~router
    /\ radio' = IF Assoc THEN "trying" ELSE radio
    /\ UNCHANGED <<ssid, mode, waiting, watchVars, updating>>

\* onStationModeGotIP. It leaves the set-up mode.
GotIP ==
    /\ radio = "trying" /\ router /\ ssid = "right"
    /\ radio' = "assoc" /\ fails' = 0
    /\ mode' = IF mode = "setup" THEN "station" ELSE mode
    /\ UNCHANGED <<houseVars, router, ssid, waiting, strikes, restart, updating>>

\* Mutant: without the access point the first association is waited for.
TickConnectWaits ==
    /\ mode = "connecting" /\ Assoc /\ mode' = "station"
    /\ UNCHANGED <<houseVars, router, ssid, radio, waiting, watchVars, updating>>

\* CONNECT_TIMEOUT opens the access point; the station goes on trying.
TickConnect ==
    /\ mode = "connecting" /\ mode' = IF Assoc THEN "station" ELSE "setup"
    /\ UNCHANGED <<houseVars, router, ssid, radio, waiting, watchVars, updating>>

\* tick's status check, with _startReconnect and notifyFailure. Counting ends
\* with the restart that is due.
CheckStatus ==
    /\ mode = "station" /\ ~Assoc /\ ~waiting
    /\ fails' = IF fails < MAX_FAILURES THEN fails + 1 ELSE fails
    /\ restart' = (restart \/ fails' = MAX_FAILURES)
    /\ radio' = "off" /\ waiting' = TRUE
    /\ UNCHANGED <<houseVars, router, ssid, mode, strikes, updating>>

ProcessReconnect ==
    /\ mode = "station" /\ waiting
    /\ radio' = "trying" /\ waiting' = FALSE
    /\ UNCHANGED <<houseVars, router, ssid, mode, watchVars, updating>>

\* The watchdogs hold while a restart is due or a download runs.
Watched == ~restart /\ ~updating

CheckMemory ==
    /\ Watched
    /\ \/ Happens("memory") /\ strikes' = strikes + 1
       \/ Quietly /\ strikes # 0 /\ strikes' = 0
    /\ restart' = (strikes' = MEM_STRIKES)
    /\ UNCHANGED <<radioVars, fails, updating>>

DailyRestart ==
    /\ Watched /\ Happens("day") /\ restart' = TRUE
    /\ UNCHANGED <<radioVars, fails, strikes, updating>>

\* The panel's Wi-Fi form, over the access point or the network: saved, it
\* schedules a restart, 2 s before which the radio may read the new network.
WifiForm ==
    /\ Reachable /\ Happens("owner") /\ ssid' \in {"wrong", "right"}
    /\ restart' = TRUE
    /\ UNCHANGED <<router, mode, radio, waiting, fails, strikes, updating>>

UpdateStarts ==
    /\ ~updating /\ Assoc /\ Happens("update") /\ updating' = TRUE
    /\ UNCHANGED <<radioVars, watchVars>>

UpdateEnds == updating /\ updating' = FALSE /\ UNCHANGED <<houseVars, radioVars, watchVars>>

\* ESP.restart, also during an update.
Restarts ==
    /\ restart
    /\ mode' = ModeAtBoot(ssid) /\ radio' = RadioAtBoot(ssid)
    /\ waiting' = FALSE /\ fails' = 0 /\ strikes' = 0 /\ restart' = FALSE /\ updating' = FALSE
    /\ UNCHANGED <<houseVars, router, ssid>>

=============================================================================
