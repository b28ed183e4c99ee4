---------------------------- MODULE IoTActuator -----------------------------
(***************************************************************************)
(* src/IoTService.h: the actuator. It is driven by commands (panel, API,   *)
(* ntfy, MQTT), by the sensor's rule inside the time window, by the end of *)
(* a pulse and by the safety limit; /iot.state keeps the last command for  *)
(* the next boot.                                                          *)
(*                                                                         *)
(* run, tick and begin are single handlers of one thread: each is a        *)
(* composition of operators on the record of the actuator's state. Level,  *)
(* angle and colour are left out: they say how it is on, not whether.      *)
(* Time is counted in units of the safety limit's clock.                   *)
(***************************************************************************)
EXTENDS Naturals

CONSTANTS
  MAX_ON,   \* maxOn: the safety limit, when the actuator has one
  PULSE,    \* how long a pulse lasts
  Downloads \* whether an update may be downloaded meanwhile

ASSUME ActuatorAssumption ==
  /\ MAX_ON \in Nat \ {0} /\ PULSE \in Nat \ {0}
  /\ Downloads \in BOOLEAN

VARIABLES
  config,   \* _r: a rule, a sensor that toggles, a time window, restore, maxOn # 0
  act,      \* the actuator's members of IoTService
  saved,    \* /iot.state
  ticked,   \* this unit of time has had its iot.tick
  paused,   \* a download is in progress: App.tick skips iot.tick
  lit       \* history: for how long the output has been on without a break

vars == <<config, act, saved, ticked, paused, lit>>

Configs == [rule : BOOLEAN, toggle : BOOLEAN, window : BOOLEAN, restore : BOOLEAN,
            limit : BOOLEAN]

\* pulsed (of the file too), handed and tripped are history: a pulse turned the
\* output on and has not ended; a pulse ended with the rule keeping it on; the
\* safety limit turned it off and no command came since
Actuators == [on : BOOLEAN, manual : BOOLEAN, haveRule : BOOLEAN, ruleOn : BOOLEAN,
              open : BOOLEAN, edgeReady : BOOLEAN, pulsing : BOOLEAN,
              left : 0 .. PULSE,     \* _pulseUntil - now
              since : 0 .. MAX_ON,   \* now - _onSince, as far as the limit
              pulsed : BOOLEAN, handed : BOOLEAN, tripped : BOOLEAN]

Files == [on : BOOLEAN, manual : BOOLEAN, pulsed : BOOLEAN]

TypeOK ==
  /\ config \in Configs
  /\ act \in Actuators
  /\ saved \in Files
  /\ ticked \in BOOLEAN /\ paused \in BOOLEAN
  /\ lit \in 0 .. 2 * MAX_ON
  /\ act.pulsing => act.on

(***************************************************************************)
(* begin(): the previous output is released (off), everything is cleared,  *)
(* and with "restore" the file says what the output was.                   *)
(***************************************************************************)
Cleared == [on |-> FALSE, manual |-> FALSE, haveRule |-> FALSE, ruleOn |-> FALSE, open |-> TRUE,
            edgeReady |-> FALSE, pulsing |-> FALSE, left |-> 0, since |-> 0,
            pulsed |-> FALSE, handed |-> FALSE, tripped |-> FALSE]

Restored(c, file) ==
  IF c.restore
  THEN [Cleared EXCEPT !.on = file.on, !.manual = file.manual, !.pulsed = file.pulsed]
  ELSE Cleared

NoFile == [on |-> FALSE, manual |-> FALSE, pulsed |-> FALSE]

Init ==
  /\ config \in Configs
  /\ saved = NoFile
  /\ act = Cleared
  /\ ticked = FALSE /\ paused = FALSE
  /\ lit = 0

(***************************************************************************)
(* The steps the handlers are made of.                                     *)
(***************************************************************************)
\* Mutant: the clock of the limit starts over on every command
SetOnAfresh(s, on) == [s EXCEPT !.on = on, !.since = 0, !.handed = @ /\ on]

\* _setOn: _onSince is set when it turns on
SetOn(s, on) == [s EXCEPT !.on = on, !.since = IF on /\ ~s.on THEN 0 ELSE @,
                          !.handed = @ /\ on]

\* Mutant: the window is for turning on only
TakeRuleAnyTime(s) == SetOn(s, s.ruleOn)

\* _takeRule: the rule's last decision, off outside the window
TakeRule(s) == SetOn(s, s.ruleOn /\ s.open)

RuleKnown(s) == s.haveRule \/ ~s.open   \* _ruleKnown

FileOf(s) == [on |-> s.on, manual |-> s.manual, pulsed |-> s.pulsed /\ s.on]

\* _persist
Persist(s) == saved' = IF config.restore THEN FileOf(s) ELSE saved

(***************************************************************************)
(* run(): a command. "level 50", an angle or a colour turn on or off.      *)
(***************************************************************************)
RunAuto(s) ==
  LET calm == [s EXCEPT !.pulsing = FALSE, !.left = 0, !.manual = FALSE, !.tripped = FALSE]
  IN  IF config.rule /\ RuleKnown(s) THEN [TakeRule(calm) EXCEPT !.pulsed = FALSE] ELSE calm

RunManual(s, op) ==
  LET on == op \in {"on", "pulse"} \/ (op = "toggle" /\ ~s.on)
  IN  [SetOn(s, on) EXCEPT !.pulsing = (op = "pulse"),
                           !.left = IF op = "pulse" THEN PULSE ELSE 0,
                           !.manual = config.rule,
                           !.pulsed = (op = "pulse"),
                           !.tripped = FALSE]

\* The output has been driven: on without a break, or from now
Drive == lit' = IF act.on /\ act'.on THEN lit ELSE 0

CommandAuto ==
  /\ act' = RunAuto(act)
  /\ Persist(act')
  /\ Drive
  /\ UNCHANGED <<config, ticked, paused>>

\* Mutant: a pulse is saved like any command
SavedCommand(op) == Persist(act')

\* A running pulse is never saved
SaveCommand(op) == IF op = "pulse" THEN UNCHANGED saved ELSE Persist(act')

Command(op) ==
  /\ act' = RunManual(act, op)
  /\ SaveCommand(op)
  /\ Drive
  /\ UNCHANGED <<config, ticked, paused>>

(***************************************************************************)
(* tick(): sensor, window, pulse, limit, in this order.                    *)
(***************************************************************************)
\* A reading decides the rule (a digital sensor may flip the output on each
\* activation); in automatic mode the output follows
Read(s, active) ==
  IF ~config.rule THEN s
  ELSE LET decided ==
             [s EXCEPT !.ruleOn = IF config.toggle
                                  THEN IF s.edgeReady /\ active THEN ~s.on ELSE @
                                  ELSE active,
                       !.edgeReady = config.toggle,
                       !.haveRule = TRUE]
       IN  IF s.manual THEN decided ELSE [TakeRule(decided) EXCEPT !.pulsed = FALSE]

\* The window opened or closed
Window(s, open) ==
  LET moved == [s EXCEPT !.open = open]
  IN  IF open # s.open /\ config.rule /\ ~s.manual
      THEN [TakeRule(moved) EXCEPT !.pulsed = FALSE]
      ELSE moved

\* The pulse is over: off, and back to the rule if there is one
EndPulse(s) ==
  LET off == [SetOn(s, FALSE) EXCEPT !.pulsing = FALSE, !.pulsed = FALSE]
  IN  IF ~(s.pulsing /\ s.left = 0) THEN s
      ELSE IF ~config.rule THEN off
      ELSE LET auto == [off EXCEPT !.manual = FALSE]
               back == IF RuleKnown(auto) THEN TakeRule(auto) ELSE auto
           IN  [back EXCEPT !.handed = back.on]

TooLong(s) == s.on /\ config.limit /\ s.since >= MAX_ON

\* Mutant: the limit leaves the rule in charge
LimitLeavesAuto(s) ==
  IF TooLong(s)
  THEN [SetOn(s, FALSE) EXCEPT !.pulsing = FALSE, !.left = 0, !.tripped = TRUE,
                               !.pulsed = FALSE]
  ELSE s

\* The safety limit; with a rule it stays in manual, or the rule would turn it
\* right back on
Limit(s) ==
  IF TooLong(s)
  THEN [SetOn(s, FALSE) EXCEPT !.pulsing = FALSE, !.left = 0, !.manual = config.rule,
                               !.tripped = TRUE, !.pulsed = FALSE]
  ELSE s

Reading == {"none", "active", "inactive"}

\* One pass with a reading of the sensor, or none, inside the window or not
TickWith(reading, open) ==
  LET read  == IF reading = "none" THEN act ELSE Read(act, reading = "active")
      moved == Window(read, open)
      ended == EndPulse(moved)
  IN  /\ ~config.window => open
      /\ act' = Limit(ended)
      /\ IF ended # moved \/ act' # ended THEN Persist(act') ELSE UNCHANGED saved

Due == ~ticked /\ ~paused

Ticked == ticked' = TRUE /\ Drive /\ UNCHANGED <<config, paused>>

Tick ==
  /\ Due
  /\ \E reading \in Reading, open \in BOOLEAN : TickWith(reading, open)
  /\ Ticked

(***************************************************************************)
(* The clock, downloads, boots and the panel's settings.                   *)
(***************************************************************************)
\* A pass of the loop is short against the unit: each has its tick, except
\* during a download
Elapse ==
  /\ ticked \/ paused
  /\ ticked' = FALSE
  /\ act' = [act EXCEPT !.left = IF @ > 0 THEN @ - 1 ELSE 0,
                        !.since = IF act.on /\ @ < MAX_ON THEN @ + 1 ELSE @]
  /\ lit' = IF act.on /\ lit < 2 * MAX_ON THEN lit + 1 ELSE lit
  /\ UNCHANGED <<config, saved, paused>>

Download ==
  /\ Downloads
  /\ paused' = ~paused
  /\ UNCHANGED <<config, act, saved, ticked, lit>>

\* begin() on boot (a restart, a crash or a power cut) and on every save of the
\* IoT page
Begin(c, file) ==
  /\ config' = c
  /\ saved' = file
  /\ act' = Restored(c, file)
  /\ ticked' = FALSE /\ lit' = 0

Boot == Begin(config, saved) /\ paused' = FALSE

\* The page saved over the settings, or after "remove", which deletes the file
Configure ==
  \E c \in Configs, file \in {saved, NoFile} : Begin(c, file) /\ UNCHANGED paused

Next ==
  \/ CommandAuto
  \/ \E op \in {"on", "off", "toggle", "pulse"} : Command(op)
  \/ Tick \/ Elapse \/ Download
  \/ Boot \/ Configure

Spec == Init /\ [][Next]_vars

(***************************************************************************)
(* Properties                                                              *)
(***************************************************************************)

\* In automatic mode the output is what the rule last decided, and off outside
\* the time window, through pulses, commands, boots and the limit.
AutoFollowsRule ==
  config.rule /\ ~act.manual /\ RuleKnown(act) => act.on = (act.ruleOn /\ act.open)

\* What the safety limit turned off stays off until someone asks: the rule does
\* not turn it right back on.
SafetyHolds == act.tripped => ~act.on

\* README.md's safety off, as it reads: the output turns off by itself after
\* maxOn. The code does not keep it.
SafetyOff == ticked /\ config.limit /\ act.on => lit < MAX_ON

\* What the code keeps: only a pulse that ends with the rule keeping the output
\* on starts the limit over.
SafetyOffButAfterPulse ==
  ticked /\ config.limit /\ act.on => lit < MAX_ON \/ act.handed

\* IoTState.h's promise, as it reads: a pulse is never saved as the state to
\* restore. The code does not keep it.
PulseNotSaved == ~(saved.on /\ saved.pulsed)

\* What the code keeps: only the command auto, with no decision of a rule to go
\* back to, saves the output a pulse turned on.
PulseSavedOnlyByAuto ==
  [][~saved.pulsed /\ saved'.pulsed => CommandAuto /\ ~(config.rule /\ RuleKnown(act))]_vars
=============================================================================
