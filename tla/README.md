# The ESP8266 DNS/IoT firmware in TLA+

The firmware runs on an ESP-01: one thread, about 40 KB of heap, one TLS session
at a time, a flash file system, and power that can go at any moment. It keeps a
Cloudflare record on the house's public address, drives one output from a
sensor, takes commands (panel, API, ntfy, MQTT), can be reached through a
Cloudflare Worker, and updates itself from GitHub Releases.

This directory models the parts whose correctness is a matter of order: who may
use the network now, what survives a restart, which of several masters decides
over the output, what a connection that breaks has lost, what a save that fails
leaves behind. Times are counted in units or passes, texts are left out, and the
parsers are single steps. Line numbers below are those of the sources.

## 1. Inventory

| Part | Source | State | Operations | Talks to | Modules |
|---|---|---|---|---|---|
| Main loop | `App.h` | the stage of `tick` | `begin`, `tick` | every part, by direct calls, once per pass | `AppLoop` |
| Network turns | `NetArbiter.h` | wants, owner, starved, since when it waits | `want`, `grant`, `ready` | asked by the loop | `NetArbiter` |
| Over-the-air update | `OTAService.h` | network state, request, retries, tags; `/ota.pending`, `/ota.rejected` | `wantsNet`, `offerLatest`, requests, `tick`, `begin` | GitHub, flash, bootloader, Wi-Fi (restart), relay (news) | `OTAService` |
| Actuator | `IoTService.h`, `IoTState.h` | output, manual/automatic, rule, window, pulse, limit; `/iot.state` | `begin`, `run`, `tick` | panel, ntfy, MQTT, clock, pins | `IoTActuator`, `IoTDevice` |
| Sensor | `IoTService.h` | level and since when, reading in progress, count, margin | `tick`, `begin`, interrupt | actuator | `IoTSensor`, `IoTDevice` |
| ntfy | `NtfyNotifier.h` | stream session, last message ID, backoff, posts | `tick`, `hold`, `relayed`, `restart`, `deliver` | ntfy.sh, relay, actuator | `RelayCommands`, `AppLoop` |
| Relay, device | `RelayService.h`, `WsClient.h` | WebSocket, next try, backoff, news | `tick`, `hold`, `reconnect`, `post`, `takeIP`, `takeLatest` | the Worker, panel, ntfy, OTA, resolver | `RelayLink`, `RelayCalls`, `RelayCommands` |
| Relay, Worker | `relay/worker.mjs` | sockets, calls, waiters, queue; stored hello, since | `fetch`, `webSocketMessage`, `webSocketClose`, `alarm` | browsers, device, ntfy, GitHub | the same |
| MQTT | `MqttService.h` | connection, backoff, what was published last | `tick`, `hold`, `reconnect` | broker, actuator | `MqttClient` |
| Wi-Fi supervision | `WiFiService.h` | connecting, set-up mode, failures, restart, strikes | `begin`, `tick`, `tickRestart`, `scheduleRestart`, events | SDK callbacks, everyone | `WiFiSupervisor` |
| Address, name, record | `PublicIPResolver.h`, `ReverseDNS.h`, `CloudflareDNS.h`, `Clock.h` | last check, address, one UDP query, last address synced | `tick`, `offer`, `due` | HTTPS services, DNS, Cloudflare | `PublicAddress` |
| Cloudflare jobs | `CloudflareSetup.h`, `CloudflareApi.h` | the job queued; the account | `scan`, `record`, `deploy`, `redeploy`, `tick` | Cloudflare, relay | `CloudflareJobs` |
| Panel and API | `WebService.h`, `Totp.h`, `Password.h` | session, level, pending key, spent codes, counts of mistakes | request handlers | everything | `PanelSessions`, `Panel` |
| HTTP server | `HttpServer.h` | one client, the backlog | `handleClient`, `serve` | browsers | `HttpServer` |
| Configuration | `Config.h`, `ConfigStore.h` | `config.json`, `config.tmp`, `config.v1.json` | `begin`, `load`, `save`, migration | everyone reads the struct | `ConfigStore` |
| Helpers | `Logger.h`, `PowerService.h`, `TlsClient.h`, `TlsTrim.h`, `Json.h`, `JsonStream.h` | little | | | none |

The parts share one thread: `App.tick` calls them in a fixed order, and a TLS
handshake or a one-shot request blocks the whole loop. Concurrency comes from
outside: the association drops, peers answer or fall silent, the heap shrinks, an
owner presses a button, the power goes, and the next pass finds the difference.
What a part read earlier in the pass may be stale later in it. The Worker is the
only part with concurrency of its own: its `await`s let other events in.

Hard behaviours, and what makes each part correct:

* **Turns.** One TLS session fits. A service keeps its session across passes
  until it is told to let go: at most one session; nobody starves an update; a wait
  for the heap ends; commands come by the relay or by the stream, never by both.
* **Update.** The request outlives restarts in a file. Every step may be cut by
  a crash, a power cut, a full file system, a failing server: never downgrade,
  never loop in recovery, never lose the panel for good, never install what was
  rejected, and get there in the end.
* **Output.** A sensor and five masters (command, rule, window, pulse, safety limit)
  decide over one bit, across boots: automatic mode follows the rule, the rule
  follows the measurement without chattering, the limit holds, a pulse ends and is
  not restored.
* **Relay.** Replies match calls though sockets are replaced and timeouts race
  answers; a request runs at most once; each command is sent, and sent once.
* **Storage and panel.** A save is cut anywhere, or fails: flash holds a whole
  configuration, services run what was saved, nobody keeps a level without a key, a
  code works once, other people's mistakes do not hold the owner out, a job of
  several calls to Cloudflare leaves nothing that the next one cannot repair.
* **Network.** Whatever happens to router, broker, provider and browsers, the device
  ends up reachable, with the broker and the record in agreement with it.

`PROJECT.json` lists every hazard with its line and the properties that watch it.

## 2. Modules

    NetArbiter, UpdateTurn  <- AppLoop                        <- MCAppLoop, AppLoopProofs
                    OTAService                                <- MCOTAService, OTAServiceProofs
    IoTActuator, IoTSensor  <- IoTDevice                      <- MCIoTDevice, IoTActuatorProofs
    RelayLink    <- RelayCalls, RelayCommands  <- Relay       <- MCRelay, RelayProofs
    ConfigStore  <- PanelSessions <- CloudflareJobs <- Panel  <- MCPanel, StoreProofs <- PanelProofs <- SessionProofs
    WiFiSupervisor <- MqttClient, PublicAddress; HttpServer <- Network <- MCNetwork, NetworkProofs
    abstract:    UpdateTurn (of OTAService), CallService (of Relay), StoredConfig (of Panel)

`<-` is EXTENDS, except for the abstract specifications, which are instantiated with a
refinement mapping. `MCIoTActuator` checks the actuator alone, with a sensor that may
report anything.

### NetArbiter and AppLoop (`NetArbiter.h`, `App.h`)

`NetArbiter` holds the arbiter's state and its two calls as operators: `Grant` picks
the most important want, `Ready` lets it go on if its session is open, if the heap
fits or after WAIT_MS. `AppLoop` is the pass of the loop around it. `pc` is the stage:

| `pc` | Code | Actions |
|---|---|---|
| panel | `web.tick`, `wifi.tick`; timers | `Panel`, `Elapse`, `PanelDone` |
| grant | `App.h:104-130` | `GrantTurn`: news taken, wants, turn, `hold` and `relayed` for everybody else |
| turn, request | the `switch` of `App.h:133` | `TurnWithoutSession`, `BeginRequest`, `EndRequest`, `StreamTurn` |
| ota | `ota.tick` | `OtaOpens`, `OtaPump`, `OtaSkips` |
| relay, pump | `relay.tick` | `RelaySkips`, `RelayCloses`, `RelayConnects`, `RelayPumps`, `RelayFrame`, `RelayDone` |

`WifiChanges` and `Restart` may happen at any stage. A blocking request is open
between two actions (`request`), so that a property can look at it. `millis()`
is read once per pass, so timers run out only at `panel`; `Elapse` includes a restart
that anything else scheduled. The services are abstracted to *wants it / has a session
/ backs off*.

`UpdateTurn` is that abstraction for the update: `ota` (idle, armed, backing off, in
session), whether the automatic check is due, `slim`, and whether a restart is
scheduled. `AppLoop` puts its steps (`Offered`, `OtaBegins`, `OtaGoesOn` and the rest)
into the stages of a pass. `OTAService` implements it: `Stage` computes `ota` from the
request, its retries and the open session, and `TurnAsAssumed` is `UpdateTurn`'s
specification under that mapping. So a session of GitHub's that the loop has to
reckon with is one that the detailed model can open, and no other.

### OTAService (`OTAService.h`)

Every operation is an action: the requests of panel and relay, the three ways
`tick` starts something, each way a check or a download ends, `_scheduleRetry`
with its attempts, `_persistAndReboot`, the boot with `_loadRejected` and
`_loadPending`. Tag "vN" is the number N; `NoTag` is the empty string and
`CheckTag` the word "check". Flash (`running`, `staged`, `pending`,
`rejectedFile`) survives a boot, the rest starts over. `PowerCut` differs from
`Restarts` in that the bootloader's order, in RTC memory, is lost.
`CutWhileCompleting` is a cut between two steps of `_complete`. The firmware is a released one:
a development build, for which `isNewer` takes any tag (`OTAService.h:192-198`), is left out. Until `settled`,
which is the environment's, the file system may refuse writes, GitHub may answer
any tag and anything may fail or crash.

### IoTActuator, IoTSensor and IoTDevice (`IoTService.h`, `IoTState.h`)

`IoTActuator`: `run`, `tick` and `begin` are compositions of operators on one record, in
the code's order: `Read` (the sensor decides the rule), `Window`, `EndPulse`, `Limit`.
`saved` is `/iot.state`. Level, angle and colour say how the output is on, not whether,
and are left out. `lit`, `pulsed`, `handed` and `tripped` are history.

`IoTSensor`: from the pin to the rule's decision. `sen` is the sensor's members, `world`
what it would measure now and whether it answers, `set` its settings. `TickSensor` has
one operator per kind: a pin is debounced (`TickDigital`), a DHT woken on one tick and
read on a later one unless the loop is late (`TickDht`), DS18B20, SHT3x, AHT20 and BH1750
convert meanwhile (`TickConverts`), a distance is read at once (`TickRange`), pulses are
counted by the interrupt over a window (`TickPulse`). `InUnit`, `Limited` and `MapDuty`
are the arithmetic of `_inUnit`, `_rule` and `_mapDuty` with C's division.

`IoTDevice` is both in one tick, as in the code: what the sensor reads goes to the
actuator's `TickWith`, and whether the rule was on goes to the sensor's margin. A unit
of time has one tick, except while a download pauses it (`App.h:149`): the pin goes on
being held and the interrupt goes on counting. `DeviceBoot` and `DeviceConfigure` clear
both parts.

### RelayLink, RelayCalls, RelayCommands, Relay (`RelayService.h`, `WsClient.h`, `NtfyNotifier.h`, `worker.mjs`)

`RelayLink` is the WebSocket: `dev` and `sock` say what each end believes, so either may
write into a connection the other has lost, and the frame is gone without an error.
`down` and `upq` are the frames under way. A new connection replaces the old one in the
Worker, whose close is reported later (`closes`) or never.

`RelayCalls`: requests from the internet. `queue` is the Worker's chain of promises, its
first is waiting for its turn, for a socket, or sent (`phase`). `Ask`, `Forward`,
`WaitEnds`, `ReplyEnds`, `ReplyArrives`, `CallsFail` are the Worker's, `ServeRequest` the
device's. `ForgetCalls` is the runtime dropping an idle object with its number `id`.

`RelayCommands`: ntfy messages come by the device's own stream or through the Worker,
which polls the topic for it. The place in the topic is remembered by the device
(`lastId`, RAM), by the Worker (`since`, stored) and by the server (`stream`).
The alarm's handler is in stages, with two `await`s of a fetch that let anything in:
`AlarmFires` takes socket and hello (`worker.mjs:289-290`), then awaits GitHub for the release
check when the hour is over or a hello asked for it (`released`); `ReleaseEnds` only then
reads the place (317); `FetchDone` or `FetchFails` uses all three after ntfy's answer.
`alarm` holds what the handler holds, `armed` is the one alarm that both hello (275) and
handler (300) move: not set, seconds away, or up to an hour away. `again`, `got`, `start`,
`raced` and `late` are history: what a hello asked for again, and whether it came into one of
the two `await`s. `Relay` puts calls and commands on one link with the device's boots.

### ConfigStore, PanelSessions, CloudflareJobs, Panel (`ConfigStore.h`, `WebService.h`, `Totp.h`, `CloudflareSetup.h`)

`ConfigStore`: `cfg` is the struct in RAM; `save` the save in progress and who called it,
cut at each point where the power may fail: backup, open, write, rename. A write may
come out short (`FlashFills`), as the code does not look at what it returns.

A handler runs up to its `save()` and goes on from its result in the action of the same
name with `Ends`: `EnrollEnds` takes a failed key back, `SignInEnds` does not look.
`PanelSessions` has the session, the codes with their two floors (the device's clock and the
browser's), the key shown and not confirmed, and the counts of mistakes. `CloudflareJobs`
has one action per answer of Cloudflare, each of which may not come though the call
was carried out. `Panel` adds the forms and what their services run with (`live`).
`codes`, `twice`, `mine`, `trouble`, `torn`, `wanted` and `stale` are history.

### WiFiSupervisor, MqttClient, PublicAddress, HttpServer, Network

`WiFiSupervisor`: the SDK associates on its own while `radio` is trying; the code opens the
set-up access point, checks the status, waits, reconnects, restarts after
`MAX_FAILURES` = 5 and after `MEM_STRIKES` = 3, the code's values. `MqttClient` has the device, the
TCP connection (which may be cut without either end noticing, and loses bytes of a
write that does not fit) and the broker with sessions, wills and retained messages.
A write loses whole packets: one cut in its middle is one
the broker cannot read, and it closes. `PublicAddress` has the check, the relay's offers, the UDP query for the name, the record
and the clock all of them need. `HttpServer` accepts one client at a time while browsers connect
and send nothing, stop within a request, or leave before it is whole. In `Network` the router carries them all
and a restart takes them all down. What happens from outside costs one of the
events `left` of the household; each is of a kind in `uses`.

The server of ntfy, the broker, browsers, router, provider and the Workers' runtime are external:
modelled from how the code uses them, and marked so in `map`.

## 3. What the runs show

| Run | Question | Result |
|---|---|---|
| `app_loop` | who has a session together with whom | holds, 598,304 states |
| `app_loop_one_session` | is there ever more than one | violated: finding 1 |
| `ota` | crashes, power cuts and retries of an update | holds, 316,332 states |
| `ota_rejected` | is a rejected version only installed by hand | violated: finding 2 |
| `iot_device` | does the output do what sensor, settings and owner ask | holds, 80,134 states |
| `iot_safety_off` | does the limit turn it off after its time | violated: finding 3 |
| `iot_pulse_saved` | is a pulse never saved | violated: finding 4 |
| `relay` | requests and commands over a link that breaks | holds, 408,683 states |
| `relay_skips` | is each command sent | violated: finding 5 |
| `panel` | saves, sign-in and jobs, cut anywhere | holds, 616,811 states |
| `network` | what the device settles on after disturbances | holds, 114,890 states |
| `ddns` | does the record follow the address | violated: finding 6 |

* `app_loop`: `OneSessionButAnnounced` (two sessions only in a pass that took a newer
  release from the relay, and one is GitHub's), `StreamOnlyWithoutRelay`,
  `OverlapEnds`, `RequestRuns` (an armed check or install gets its turn if the
  association comes to stay).
* `ota`: `RetryHasRequest` (the comment in `busy()`), `PendingMeansRecovery` (no request is
  left on flash to take the panel from a later boot), `NoDowngrade`,
  `RejectedOnlyResumed`, `RecoveryEnds`, `UpdateArrives`, and `TurnAsAssumed`, the
  refinement of `UpdateTurn`.
* `iot_device`: `AutoFollowsRule`, `SafetyHolds`, `SafetyOffButAfterPulse`,
  `PulseSavedOnlyByAuto`; `NoChatter` (the rule turns off at a reading more than the
  margin away from the one it turned on at); `OutputFollowsSensor` (once nothing but time
  happens and the rule is in charge, the output gets to what the settings' owner
  expects of the measurement, and stays).
* `relay`: `AnswerIsOwn`, `CallsAtMostOnce` (the refinement of `CallService`: a request runs at
  most once, and never after "busy" or "offline"), `EveryCallEnds` (also of a call that waits
  behind another), `SkipsOnlyInRace`, `AgainOnlyIfAsked` (a message goes down again only after a
  hello asked from a place before it), `PollingGoesOn` (on a connection that is up an alarm is
  near or its handler at work) and `StableLinkDelivers` (no order of hello, alarm, release check
  and poll leaves the polling dead).
* `panel`: `StoreIsAtomic` is the refinement of `StoredConfig`: flash only becomes what RAM is,
  all of it at once, a start reads it back, and a version 1 file goes only once its copy is
  whole. `ServicesRunTheSaved`, `CodeWorksOnce`, `KeyKept`, `OwnerHeldOutByItself`,
  `OneRecord`, `ForeignKept`, `SecretsAgree`, `OffStaysOff`.
* `network`: `AlwaysReachable`, `CommandRunsOnce` (a retained command is not run again),
  `BrokerKnows` (state, availability, announcement and subscription, in the end) and
  `PublishedIsKept` (what the client takes for published the broker has, whenever nothing is
  under way and nothing was lost), `AddressKnown` (in the end) and `OwnAddressOnly` (a name
  shown is the current address's, at any time, however late an answer comes),
  `EveryRequestServed` (a whole request is answered, whoever idles or trickles before it).

The exceptions in `OneSessionButAnnounced`, `RejectedOnlyResumed`, `SafetyOffButAfterPulse`,
`PulseSavedOnlyByAuto`, `SkipsOnlyInRace` and in `AddressKnown` (`lost`) are the findings: what holds
of the promise that does not. Those in `AgainOnlyIfAsked`, `PollingGoesOn` and `CodeWorksOnce` are the
three disagreements listed after the findings.

### Findings

1. **Two TLS sessions after the relay's news.** `ota.wantsNet` is asked at
   `App.h:106`, before `relay.takeLatest` reaches `ota.offerLatest` (`App.h:111`).
   A newer release makes the check due in a pass whose turn is the relay's, and
   `ota.tick` opens GitHub's session with the relay's open. The next pass repairs it.
2. **A rejected version comes back.** `_loadPending` installs whatever
   `/ota.pending` names, without a look at `_rejected`. The file can name a
   rejected version when the power is cut between `_saveRejected` and
   `_clearPending`, or when an hourly check is short of heap and `_recoverHeap`
   writes the `_available` of an earlier check.
3. **A pulse restarts the safety limit.** With the rule keeping the output on,
   the end of a pulse sets it off and on within one `tick`, before it is driven:
   `_onSince` starts over, the pin never moves. The run has no downloads.
4. **`auto` saves a pulse.** Without a rule, or before its first reading, `auto` ends
   the pulse, leaves the output on and saves that.
5. **A command is passed over.** `commands` reads `since` before its fetch
   (`worker.mjs:317`) and stores the last message's ID after it (`worker.mjs:337`). A hello handled
   meanwhile, with an older place because a message had been lost on a dead connection, is
   overwritten, and that message is never sent again.
6. **The record stays wrong.** `CloudflareDNS.h:35` compares with the last address whose update
   was answered. An update that was applied and not answered, then an address that goes
   back to the one before: nothing is due, and the record keeps the other one.

Disagreements with a sentence of the repository that a property excepts instead of a run of
its own showing them:

* **A command runs again, or is passed over, by a hello in the release check.** The handler goes
  on with the topic of before and reads the place the hello just stored (`worker.mjs:290`, 295, 317).
  It polls the old topic from the new one's place, and stores the old topic's last ID as the new
  one's place: messages between are passed over, or the server, which does not know that
  ID there, answers with the whole topic and commands go down a second time. The sentence is
  `docs/REMOTE-ACCESS.md:74`, as in finding 5; the exception is `raced`.
* **The polling waits for an hour.** When the hello of before had no topic, the handler's own
  `setAlarm` (300), an hour ahead, replaces the one the new hello set one second ahead (275), and
  its `put` of `release` (297) undoes the new hello's `delete` (274): commands wait for up to an hour,
  and that connection does not start "with the release check, then the ntfy commands"
  (`worker.mjs:273`). The exception is `late`.
* **A code works twice.** `SECURITY.md:111-113`: "Each code works once. [...] refused, also after a
  reboot". The ledger is spent in RAM and saved with the rest of the request: after a save that
  failed, a power cut before it, or a password form that is refused once its code was spent
  (`WebService.h:1767-1768`), a restart forgets the code, and an enrolment whose save fails takes the
  ledger back with the key (`lost`). And a code taken on the browser's clock works once more when
  a later entry of that clock ran ahead of the device's and is therefore ignored (`_floor`,
  `WebService.h:596`).

Weaknesses met on the way that no run states, each by the code's own choice or without a
promise to hold it against:

* `mqtt.hold` is computed before `ota.tick` (`App.h:130`): MQTT stays connected in the
  first pass of an automatic check.
* The ntfy form sent again unchanged after a failed save does not restart the stream (the
  exception in `ServicesRunTheSaved`); the update service is told before its save.
* A deploy queued when remote access is turned off still runs (the exception in `OffStaysOff`).
* On a full file system a short file replaces the good one (`Lose` in `StoredConfig`).
* What MQTT sends once per connection is not sent again when `_write` loses bytes of it
  (`missed` in `BrokerKnows`).
* A post written to a dead relay connection counts as sent.
* The stream is reopened without `since=` when no message was seen since boot.
* The safety limit starts over at every boot.
* `_closeStream` forgets that a reconnection was waiting.
* The first pulse count after a download covers the whole download; a loop that is always
  late restarts a DHT's pulse for ever without an error; a silent sensor leaves the last
  decision in force; a toggle pressed outside the window turns the output on when it opens.

### Bounds

* `AppLoop`: `WAIT_MS` = 2 passes (a wait that ends by the heap, one by the limit and the pass
  in between all occur). `Requests` = IP, which App serves before the address; SETUP, which
  also changes the relay; POST, which may go up the relay. DNS takes its turn like SETUP and
  changes nothing else.
* `OTAService`: `Releases` = 3: running, rejected and newer can all differ. `MAX_TRIES` = 3 of
  the code's 4 and `MAX_REDIRECTS` = 2 of 5 keep the first, the middle and the last attempt;
  `MAX_BOOTS` = 3 is the code's. `ota_rejected` needs less.
* `IoTDevice`: `MAX_ON` = 2, `PULSE` = 1: a pulse may end before and with the limit.
  `DEBOUNCE` = 1 unit: a level that changes before, and one that stays. `MAX_COUNT` = 400
  pulses. Seven setups: a pin that follows, one that toggles, one without a rule, and
  four without limit and window: Fahrenheit from tenths of Celsius on a DHT with a margin, a
  proportional fan, a tank filled below a percentage from centimetres, a flow in L/min from
  pulses. Each has measurements on both sides of its limit, and one inside the margin where it
  has one. The sets `on` and `off` are written by hand from the words of `README.md:149-151`, not
  computed by the model. `iot_safety_off` and `iot_pulse_saved` have 3 and 2 units.
* `Relay`: `Loads` says how many requests, messages, saves and connections come together: three
  requests on one connection (one sent, one waiting behind it, one turned away by `MAX_QUEUE` = 2);
  two of them on two connections, where the second replaces the first; three messages on two
  connections, two with a save, one with a save and a replaced connection; a request with a message
  and a save, and with a save and a connection. `relay_skips` has the loads without requests. Two
  topics. `IDS` is the code's 65535.
* `Panel`: eight devices, each with its first file (missing, version 1, plain password, newer,
  current), the kinds of things done to it and three to five of them; one power cut; two browsers, passwords, keys and steps of
  the clock; `FreeFails` = 2; two secrets. The browsers are model values and TLC takes them as
  alike (`SYMMETRY Alike`): no definition names one and no liveness is checked in this run.
* `Network`: ten households with up to four events of the kinds that meet: Wi-Fi alone with
  watchdogs, owner and updates from each first network; the broker with faults, with lost bytes and
  a changed module, with router and updates; the address with relay, with faults, with router;
  three browsers at a backlog of two. Two commands, two addresses, three numbers of the
  query, as an answer comes at most one query late.

The history counters stop where nothing changes any more (`lit` at twice `MAX_ON`). No
constraint cuts a state space: bounds are guards. `Panel`, `Network` and `ddns` may stop
(`CHECK_DEADLOCK FALSE`): when their events are used up nothing need happen. Nothing else may.

### Fairness

* `AppLoop`: each stage of the pass is weakly fair, for the loop runs on and every
  blocking call has a timeout; which of the stage's outcomes comes is not.
  `Panel`, `Elapse`, `WifiChanges` and `Restart` have none. `RequestRuns` states what it
  needs of the environment (the association comes to stay, no more restarts).
* `OTAService`: a scheduled restart is carried out, the day passes, a stream ends (finite, and
  it may not stall longer than `STALL_TIMEOUT`). Only when the world is `settled` does a tick that is
  enabled eventually run, which is what `app_loop` is about.
* `IoTDevice`: the loop ticks and time passes, both weakly. `OutputFollowsSensor` is only about
  behaviours in which nothing else happens from some time on, the sensor answers and the rule is in charge.
* `Relay`: the Worker's promises and timers settle (`Call`), the loop pumps what arrived and
  says hello again, a hello is handled, the alarm fires, also one that is an hour away, and the release check
  ends, as it catches every failure: weak. `FetchDone` is strongly fair: ntfy answers now and then, among
  failures. Nothing is assumed of people or of the connection; `StableLinkDelivers` is about a
  connection that stays.
* `Panel` has only safety properties.
* `Network`: one weak fairness per part of the loop and timer that runs on by itself, the SDK's
  association with a router in reach, the broker reading and sending wills. None for what
  happens from outside, for the relay's connection, or for the answer to the name's query.

## 4. What is proved

TLAPS checks these for every value of the constants, under the assumptions
named in the modules. The assumptions say that bounds are natural numbers, that waits and limits
are not zero, that sets of requests and topics do not contain the words used beside them
(`CallsAssumption`, `CommandsAssumption`), and that the devices, setups and households looked at
start from a configuration of the right type (`DevicesAssumption`, `SetupsAssumption`,
`HouseholdsAssumption`: no network is configured, a wrong one or the right one); a toggle
is a digital sensor's.

* `AppLoopProofs`: `TypeCorrect`, `OneSessionKept`, `StreamWithoutRelay`, `LoopSeesTurns`. None of the
  invariants is inductive. `IInv` adds `OtherSessions`: a session of the relay, the
  stream or a request belongs to the owner of the turn; and `OtaSession`: between `grant`
  and `ota.tick` of a pass that is not OTA's, OTA is idle and not due, unless the news
  was just taken. The second is where the order of `App.h:106` and `111` shows. `LoopSeesTurns`:
  every step of the pass is a step of `UpdateTurn` or leaves its variables alone.
* `OTAServiceProofs`: `TypeCorrect`, `RetryKept`, `RecoveryMarked`, `NeverOlder`,
  `RejectedResumed`, `UpdateTakesTurns`. That a boot never runs an older version hangs on every tag the device
  remembers. `Ahead` says that none of them is behind `running`; to keep that over a boot which
  starts the new image while `/ota.pending` is still there, `ResumedTag` says that a recovery
  boot only works on the tag its file names, and `Recovery` that whoever writes or
  clears the file has a restart coming and no session open. `TagsKnown` is why
  `_savePending` never writes an empty tag, and `NotRejected` carries what
  `_afterCheck` compared over the retries. `UpdateTakesTurns` is the step simulation of
  `UpdateTurn`, action by action: what it needs of the invariant is that an open session
  has taken its request (`RequestsMeanIdle`), and that flags are Boolean.
* `IoTActuatorProofs`: for the actuator with any readings `TypeCorrect`, `RuleFollowed`,
  `TripHolds`, `LimitKept`, `PulseSaved`. Each operator has a lemma that it keeps a record
  `Sound`; what makes it inductive is that a running pulse and a trip under a rule are
  manual. For the limit, `Steady` says that an operator which leaves the output on leaves its
  clock alone, unless the pulse handed it over; `Timed` relates the clock to the time really on.
  `DeviceIsActuator` is the step simulation of the device by the actuator: every step of the
  device is one of the actuator's or leaves it alone, so those theorems are the device's too.
  `MarginKept`: `DInv` says that while a numeric rule is on, the reading `onAt` it turned on at
  was beyond the limit by itself (`Turned`); turning off is beyond limit and margin on the other side.
  `DutyInside`, `DutyFollows` and `UnitBounds` are about the arithmetic, for every setting and
  reading: a proportional level lies between its two ends and is monotone though
  C's division rounds towards zero, and a converted reading stays in its range.
* `RelayProofs`: `RelayTypeCorrect`, `SkipsInRaceOnly`, `AgainIfAsked`, `PollsGoOn`, `CallsOnce`,
  `AnswersOwn`. `LinkInv` types the frames; the argument about the link is `OldFrames`: whatever
  a step does to a queue, the frames of a kind in it were there before, so that a property of all
  frames under way only needs looking at where that kind is written. `CallsOnce` is the refinement
  of `CallService`: `OnceInv` says that a request has at most one frame on its way down, only once
  its call has begun, and none after the device ran it. For the commands, `FollowInv` is the heart:
  unless a hello raced it, the handler at work holds the topic of the last hello, and its poll the
  place of now. On it rest `SkipInv` (what the place passed was sent), `AgainInv` (what went
  down is not after the place, so the next poll does not bring it) and `GoesOnInv` (an alarm
  that is not near has its handler, or no topic, or `late`). `AnswersOwn` holds with no more
  requests than numbers (`FewRequests`), the reason for it being that a number once used is not
  used again.
* `StoreProofs`: `StoreSound`, `StoreKept`, the refinement of `StoredConfig`. `Shape` reduces every
  step of the panel to what it does to the store (a handler starts a save, goes on from one, or
  leaves it alone); `StoreInv` says what each phase of a save has written.
* `PanelProofs`: `TypeCorrect`; `RecordMadeOnce` and `ForeignSafe` from `AccountInv` (a create or
  upload under way found the name free); `SecretsMatch` and `OffForGood` from `RemoteInv`.
* `SessionProofs`: `OwnerNotHeldOut`, `KeyIsStored`, `ServicesFollow`, `CodesWorkOnce`. The hard case of
  all four is a save under way: the invariants say, by whose save it is, what RAM
  and flash hold (`KeyInv`, `ServicesInv`), and that every accepted code which is not
  `lost` is at or below the floor of the clock it was taken on (`CodesInv`).
* `NetworkProofs`: `NetworkTypeCorrect`, `RunsOnce`, `PublishedKept`, `OwnAddress`. `WaySound`: of
  the commands on the way to the device none ran yet, none is there twice, and none has a
  number that was not sent. `PublishedKept` holds with nothing under way; `WireInv` says it with
  everything under way counted as arrived: the last packet of a kind among those on the
  wire, or what the broker has if there is none, is what the client published last.
  `OwnAddress` rests on `AddrInv`: an answer that may still come with the number of the current
  query was asked about the current address. For the types, memory strikes stop at their
  limit because reaching it means that a restart is due.

Only model-checked: every liveness property (`OverlapEnds`, `RequestRuns`, `RecoveryEnds`,
`UpdateArrives`, `OutputFollowsSensor`, `EveryCallEnds`, `StableLinkDelivers`, `AlwaysReachable`,
`BrokerKnows`, `AddressKnown`, `EveryRequestServed`), for liveness under fairness is out of the
prover's reach. The types of every module are the other way round: theorems, which
the runs do not repeat.

## 5. Not modelled, and what is left

Not modelled for good: buses and bit timing, pages and forms' layout, the log, the battery
gauge, TLS and JSON as formats, generated data, build tools. `PROJECT.json` gives each
component's status and what is left out of it.

What could be added, in this order:

1. The same for the relay: an abstract session (due, backing off, up) that both `AppLoop` and
   `RelayLink` implement, as `UpdateTurn` is of the update.
2. ntfy's posts: the newest address, release and output text, their retries and their way up
   the relay, where a dead connection swallows one.
3. `/iot.state` written in place, with a write that is cut or comes out short.
4. The command grammar and the time window over midnight against reference definitions.

## 6. Running

    tlc -workers 2 -config AppLoop.cfg MCAppLoop.tla
    tlapm AppLoopProofs.tla

`PROJECT.json` lists each run with its configuration, and for each property a mutant: a
plausible slip in one definition, named in a comment above it, under which TLC
finds the property violated.
