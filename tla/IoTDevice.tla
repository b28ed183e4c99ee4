----------------------------- MODULE IoTDevice ------------------------------
(***************************************************************************)
(* src/IoTService.h as a whole: the sensor and the actuator share one tick *)
(* and one begin. What the sensor reads decides the rule, and whether the  *)
(* rule was on decides how far the next reading must fall.                 *)
(***************************************************************************)
EXTENDS IoTActuator, IoTSensor

CONSTANT Setups   \* the saved settings: of the actuator, of the sensor, and what
                  \* their owner expects: the measurements that turn the output on,
                  \* and those that turn it off

\* Only a digital sensor toggles
ASSUME SetupsAssumption ==
  \A s \in Setups :
    /\ s.config \in Configs /\ s.sensor \in Settings /\ s.sensor.raw # {}
    /\ s.config.toggle => s.sensor.kind = "digital"

deviceVars == <<vars, sensorVars>>

DeviceInit ==
  /\ Init
  /\ \E s \in Setups : config = s.config /\ set = s.sensor
  /\ sen = Unread /\ world \in Worlds(set)

\* The rule has decided, and for on
RuledOn == act.haveRule /\ act.ruleOn

DeviceTick ==
  /\ Due
  /\ \E reading \in Reading, open \in BOOLEAN :
        TickSensor(RuledOn, reading) /\ TickWith(reading, open)
  /\ Ticked
  /\ UNCHANGED <<set, world>>

DeviceElapse == Elapse /\ SensorElapse

DeviceCommand ==
  /\ CommandAuto \/ (\E op \in {"on", "off", "toggle", "pulse"} : Command(op))
  /\ UNCHANGED sensorVars

DeviceDownload == Download /\ UNCHANGED sensorVars

DeviceBoot == Boot /\ SensorBegin(set) /\ UNCHANGED world

\* What a new sensor measures first does not matter: it may change at once
DeviceConfigure ==
  \E s \in Setups, file \in {saved, NoFile} :
    /\ Begin(s.config, file) /\ UNCHANGED paused
    /\ SensorBegin(s.sensor)
    /\ world' = IF s.sensor = set THEN world ELSE CHOOSE w \in Worlds(s.sensor) : TRUE

Elsewhere == WorldChanges /\ UNCHANGED vars

DeviceNext ==
  \/ DeviceCommand \/ DeviceTick \/ DeviceElapse \/ DeviceDownload
  \/ DeviceBoot \/ DeviceConfigure \/ Elsewhere

\* The loop goes round and time passes
DeviceSpec ==
  /\ DeviceInit /\ [][DeviceNext]_deviceVars
  /\ WF_deviceVars(DeviceTick) /\ WF_deviceVars(DeviceElapse)

(***************************************************************************)
(* Properties                                                              *)
(***************************************************************************)

\* The digital sensor's "follow (on while active)" and the numeric one's "on above
\* or below a limit" (README.md:149-150), in the unit of the page, from the pin to
\* the output: once nothing but time happens, with the sensor answering, the
\* rule in charge and inside the window, the output gets to what the owner of
\* the settings expects of the measurement, and stays there.
Expects(measured) ==
  \E s \in Setups : s.config = config /\ s.sensor = set /\ world.level \in measured[s]

Undisturbed == <>[][DeviceTick \/ DeviceElapse]_deviceVars

InCharge == world.answer = "right" /\ config.rule /\ ~act.manual /\ act.open /\ ~paused

OutputFollowsSensor ==
  Undisturbed /\ <>[]InCharge =>
    <>[](/\ Expects([s \in Setups |-> s.on]) => act.on
         /\ Expects([s \in Setups |-> s.off]) => ~act.on)

\* "A margin to turn off (hysteresis), so a relay does not chatter" (README.md:150):
\* the reading at which the rule turns off is more than the margin away from the
\* one at which it turned on.
Distance(a, b) == IF a > b THEN a - b ELSE b - a

NoChatter ==
  [][ set.kind # "digital" /\ ~Proportional(set) /\ RuledOn /\ act'.haveRule /\ ~act'.ruleOn
        => Distance(sen'.shown, sen.onAt) > set.margin * Scale(set) ]_deviceVars
=============================================================================
