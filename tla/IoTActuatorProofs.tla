-------------------------- MODULE IoTActuatorProofs --------------------------
(***************************************************************************)
(* Proofs about IoTActuator, for every safety limit and length of a pulse, *)
(* and about IoTDevice, for every setting of its sensor.                   *)
(*                                                                         *)
(* The handlers are compositions of operators on the actuator's record, so *)
(* each operator has a lemma: it takes a sound record to a sound record.   *)
(* Sound is what makes the invariants inductive: a running pulse with a    *)
(* rule is manual, so the rule does not touch the output meanwhile.        *)
(***************************************************************************)
EXTENDS IoTDevice, TLAPS

Obeys(s) == config.rule /\ ~s.manual /\ RuleKnown(s) => s.on = (s.ruleOn /\ s.open)
Pulses(s) == s.pulsing => s.on /\ (config.rule => s.manual)
Trips(s) == s.tripped => ~s.on /\ (config.rule => s.manual)

Sound(s) == s \in Actuators /\ Obeys(s) /\ Pulses(s) /\ Trips(s)

(***************************************************************************)
(* The operators.                                                          *)
(***************************************************************************)
LEMMA SetOnTyped ==
  ASSUME ActuatorAssumption, NEW s \in Actuators, NEW on \in BOOLEAN
  PROVE  /\ SetOn(s, on) \in Actuators
         /\ SetOn(s, on).on = on
         /\ SetOn(s, on).manual = s.manual
         /\ SetOn(s, on).haveRule = s.haveRule
         /\ SetOn(s, on).ruleOn = s.ruleOn
         /\ SetOn(s, on).open = s.open
         /\ SetOn(s, on).pulsing = s.pulsing
         /\ SetOn(s, on).tripped = s.tripped
<1>1. ASSUME NEW since \in 0 .. MAX_ON, NEW handed \in BOOLEAN
      PROVE  [s EXCEPT !.on = on, !.since = since, !.handed = handed] \in Actuators
  BY DEF Actuators
<1>2. (IF on /\ ~s.on THEN 0 ELSE s.since) \in 0 .. MAX_ON
  BY DEF Actuators, ActuatorAssumption
<1>3. (s.handed /\ on) \in BOOLEAN
  OBVIOUS
<1>4. SetOn(s, on) \in Actuators
  BY <1>1, <1>2, <1>3 DEF SetOn
<1>5. /\ SetOn(s, on).on = on
      /\ SetOn(s, on).manual = s.manual
      /\ SetOn(s, on).haveRule = s.haveRule
      /\ SetOn(s, on).ruleOn = s.ruleOn
  BY DEF SetOn, Actuators
<1>6. /\ SetOn(s, on).open = s.open
      /\ SetOn(s, on).pulsing = s.pulsing
      /\ SetOn(s, on).tripped = s.tripped
  BY DEF SetOn, Actuators
<1> QED
  BY <1>4, <1>5, <1>6

LEMMA TakeRuleTyped ==
  ASSUME ActuatorAssumption, NEW s \in Actuators
  PROVE  /\ TakeRule(s) \in Actuators
         /\ TakeRule(s).on = (s.ruleOn /\ s.open)
         /\ TakeRule(s).manual = s.manual
         /\ TakeRule(s).haveRule = s.haveRule
         /\ TakeRule(s).ruleOn = s.ruleOn
         /\ TakeRule(s).open = s.open
         /\ TakeRule(s).pulsing = s.pulsing
         /\ TakeRule(s).tripped = s.tripped
<1>1. (s.ruleOn /\ s.open) \in BOOLEAN
  OBVIOUS
<1> QED
  BY <1>1, SetOnTyped DEF TakeRule

\* Left to the rule, with no pulse and no trip, the record is sound
LEMMA FollowSound ==
  ASSUME ActuatorAssumption, NEW s \in Actuators, ~s.pulsing, ~s.tripped
  PROVE  Sound([TakeRule(s) EXCEPT !.pulsed = FALSE])
<1> DEFINE t == TakeRule(s)
           u == [t EXCEPT !.pulsed = FALSE]
<1>1. /\ t \in Actuators /\ ~t.pulsing /\ ~t.tripped
      /\ t.on = (t.ruleOn /\ t.open)
  BY TakeRuleTyped
<1> HIDE DEF t
<1>2. u \in Actuators
  BY <1>1 DEF Actuators
<1>3. u.on = t.on /\ u.ruleOn = t.ruleOn /\ u.open = t.open
  BY <1>1 DEF Actuators
<1>4. u.pulsing = t.pulsing /\ u.tripped = t.tripped
  BY <1>1 DEF Actuators
<1> HIDE DEF u
<1>5. Sound(u)
  BY <1>1, <1>2, <1>3, <1>4 DEF Sound, Obeys, Pulses, Trips
<1> QED
  BY <1>5 DEF t, u

LEMMA AutoSound ==
  ASSUME ActuatorAssumption, config \in Configs, NEW s, Sound(s)
  PROVE  Sound(RunAuto(s))
<1> DEFINE calm == [s EXCEPT !.pulsing = FALSE, !.left = 0, !.manual = FALSE, !.tripped = FALSE]
<1>0. s \in Actuators
  BY DEF Sound
<1>1. calm \in Actuators
  <2>1. 0 \in 0 .. PULSE
    BY DEF ActuatorAssumption
  <2> QED
    BY <1>0, <2>1 DEF Actuators
<1>2. ~calm.pulsing /\ ~calm.manual /\ ~calm.tripped
  BY <1>0 DEF Actuators
<1>3. RuleKnown(calm) = RuleKnown(s)
  BY <1>0 DEF Actuators, RuleKnown
<1> HIDE DEF calm
<1>4. CASE config.rule /\ RuleKnown(s)
  BY <1>1, <1>2, <1>4, FollowSound DEF RunAuto, calm
<1>5. CASE ~(config.rule /\ RuleKnown(s))
  <2>1. RunAuto(s) = calm
    BY <1>5 DEF RunAuto, calm
  <2> QED
    BY <1>1, <1>2, <1>3, <1>5, <2>1 DEF Sound, Obeys, Pulses, Trips
<1> QED
  BY <1>4, <1>5

LEMMA ManualSound ==
  ASSUME ActuatorAssumption, config \in Configs, NEW s, Sound(s),
         NEW op \in {"on", "off", "toggle", "pulse"}
  PROVE  Sound(RunManual(s, op))
<1> DEFINE on    == op \in {"on", "pulse"} \/ (op = "toggle" /\ ~s.on)
           t     == SetOn(s, on)
           pulse == op = "pulse"
           left  == IF op = "pulse" THEN PULSE ELSE 0
           u     == [t EXCEPT !.pulsing = pulse, !.left = left, !.manual = config.rule,
                              !.pulsed = pulse, !.tripped = FALSE]
<1>1. on \in BOOLEAN /\ pulse \in BOOLEAN /\ (pulse => on) /\ s \in Actuators
  BY DEF Sound
<1>2. left \in 0 .. PULSE
  BY DEF ActuatorAssumption
<1>3. config.rule \in BOOLEAN
  BY DEF Configs
<1>4. RunManual(s, op) = u
  BY DEF RunManual
<1> HIDE DEF on, pulse, left
<1>5. t \in Actuators /\ t.on = on
  BY <1>1, SetOnTyped
<1> HIDE DEF t
<1>6. u \in Actuators
  BY <1>1, <1>2, <1>3, <1>5 DEF Actuators
<1>7. u.on = on /\ u.manual = config.rule /\ u.pulsing = pulse /\ u.tripped = FALSE
  BY <1>5 DEF Actuators
<1> HIDE DEF u
<1>8. Sound(u)
  BY <1>1, <1>6, <1>7 DEF Sound, Obeys, Pulses, Trips
<1> QED
  BY <1>4, <1>8

LEMMA ReadSound ==
  ASSUME ActuatorAssumption, config \in Configs, NEW s, Sound(s), NEW active \in BOOLEAN
  PROVE  Sound(Read(s, active))
<1> DEFINE ruleOn  == IF config.toggle THEN IF s.edgeReady /\ active THEN ~s.on ELSE s.ruleOn
                      ELSE active
           decided == [s EXCEPT !.ruleOn = ruleOn, !.edgeReady = config.toggle,
                                !.haveRule = TRUE]
<1>0. s \in Actuators
  BY DEF Sound
<1>1. ruleOn \in BOOLEAN /\ config.toggle \in BOOLEAN
  BY <1>0 DEF Actuators, Configs
<1>2. Read(s, active) = IF ~config.rule THEN s
                        ELSE IF s.manual THEN decided
                        ELSE [TakeRule(decided) EXCEPT !.pulsed = FALSE]
  BY DEF Read
<1> HIDE DEF ruleOn
<1>3. decided \in Actuators
  BY <1>0, <1>1 DEF Actuators
<1>4. /\ decided.on = s.on /\ decided.manual = s.manual
      /\ decided.pulsing = s.pulsing /\ decided.tripped = s.tripped
  BY <1>0 DEF Actuators
<1> HIDE DEF decided
<1>5. CASE ~config.rule
  BY <1>2, <1>5
<1>6. CASE config.rule /\ s.manual
  BY <1>2, <1>3, <1>4, <1>6 DEF Sound, Obeys, Pulses, Trips
<1>7. CASE config.rule /\ ~s.manual
  <2>1. ~decided.pulsing /\ ~decided.tripped
    BY <1>4, <1>7 DEF Sound, Pulses, Trips
  <2> QED
    BY <1>2, <1>3, <1>7, <2>1, FollowSound
<1> QED
  BY <1>5, <1>6, <1>7

LEMMA WindowSound ==
  ASSUME ActuatorAssumption, config \in Configs, NEW s, Sound(s), NEW open \in BOOLEAN
  PROVE  Sound(Window(s, open))
<1> DEFINE moved == [s EXCEPT !.open = open]
<1>0. s \in Actuators
  BY DEF Sound
<1>1. moved \in Actuators
  BY <1>0 DEF Actuators
<1>2. /\ moved.open = open /\ moved.on = s.on /\ moved.manual = s.manual
      /\ moved.pulsing = s.pulsing /\ moved.tripped = s.tripped
      /\ moved.haveRule = s.haveRule /\ moved.ruleOn = s.ruleOn
  BY <1>0 DEF Actuators
<1>3. Window(s, open) = IF open # s.open /\ config.rule /\ ~s.manual
                        THEN [TakeRule(moved) EXCEPT !.pulsed = FALSE] ELSE moved
  BY DEF Window
<1> HIDE DEF moved
<1>4. CASE open # s.open /\ config.rule /\ ~s.manual
  <2>1. ~moved.pulsing /\ ~moved.tripped
    BY <1>2, <1>4 DEF Sound, Pulses, Trips
  <2> QED
    BY <1>1, <1>3, <1>4, <2>1, FollowSound
<1>5. CASE ~(open # s.open /\ config.rule /\ ~s.manual)
  <2>1. Pulses(moved) /\ Trips(moved)
    BY <1>2 DEF Sound, Pulses, Trips
  <2>2. Obeys(moved)
    BY <1>2, <1>5 DEF Sound, Obeys, RuleKnown
  <2> QED
    BY <1>1, <1>3, <1>5, <2>1, <2>2 DEF Sound
<1> QED
  BY <1>4, <1>5

LEMMA EndPulseSound ==
  ASSUME ActuatorAssumption, config \in Configs, NEW s, Sound(s)
  PROVE  Sound(EndPulse(s))
<1> DEFINE off  == [SetOn(s, FALSE) EXCEPT !.pulsing = FALSE, !.pulsed = FALSE]
           auto == [off EXCEPT !.manual = FALSE]
           back == IF RuleKnown(auto) THEN TakeRule(auto) ELSE auto
           over == [back EXCEPT !.handed = back.on]
<1>0. s \in Actuators
  BY DEF Sound
<1>1. EndPulse(s) = IF ~(s.pulsing /\ s.left = 0) THEN s
                    ELSE IF ~config.rule THEN off ELSE over
  BY DEF EndPulse
<1>2. CASE ~(s.pulsing /\ s.left = 0)
  BY <1>1, <1>2
<1>3. CASE s.pulsing /\ s.left = 0
  <2>1. /\ SetOn(s, FALSE) \in Actuators /\ ~SetOn(s, FALSE).on
        /\ SetOn(s, FALSE).tripped = s.tripped
    BY <1>0, SetOnTyped
  <2>2. off \in Actuators
    BY <2>1 DEF Actuators
  <2>3. ~off.on /\ ~off.pulsing /\ off.tripped = s.tripped
    BY <2>1 DEF Actuators
  <2>4. ~s.tripped
    BY <1>3 DEF Sound, Pulses, Trips
  <2> HIDE DEF off
  <2>5. CASE ~config.rule
    BY <1>1, <1>3, <2>2, <2>3, <2>4, <2>5 DEF Sound, Obeys, Pulses, Trips
  <2>6. CASE config.rule
    <3>1. auto \in Actuators
      BY <2>2 DEF Actuators
    <3>2. ~auto.on /\ ~auto.pulsing /\ ~auto.tripped
      BY <2>2, <2>3, <2>4 DEF Actuators
    <3> HIDE DEF auto
    <3>3. /\ back \in Actuators /\ ~back.pulsing /\ ~back.tripped
          /\ RuleKnown(back) => back.on = (back.ruleOn /\ back.open)
      BY <3>1, <3>2, TakeRuleTyped DEF RuleKnown
    <3> HIDE DEF back
    <3>4. over \in Actuators
      BY <3>3 DEF Actuators
    <3>5. /\ over.on = back.on /\ over.pulsing = back.pulsing /\ over.tripped = back.tripped
          /\ over.ruleOn = back.ruleOn /\ over.open = back.open
          /\ over.haveRule = back.haveRule
      BY <3>3 DEF Actuators
    <3> HIDE DEF over
    <3>6. Sound(over)
      BY <3>3, <3>4, <3>5 DEF Sound, Obeys, Pulses, Trips, RuleKnown
    <3> QED
      BY <1>1, <1>3, <2>6, <3>6
  <2> QED
    BY <2>5, <2>6
<1> QED
  BY <1>2, <1>3

LEMMA LimitSound ==
  ASSUME ActuatorAssumption, config \in Configs, NEW s, Sound(s)
  PROVE  Sound(Limit(s)) /\ ~TooLong(Limit(s))
<1> DEFINE off == SetOn(s, FALSE)
           t   == [off EXCEPT !.pulsing = FALSE, !.left = 0, !.manual = config.rule,
                              !.tripped = TRUE, !.pulsed = FALSE]
<1>1. Limit(s) = IF TooLong(s) THEN t ELSE s
  BY DEF Limit
<1>2. off \in Actuators /\ ~off.on
  BY SetOnTyped DEF Sound
<1> HIDE DEF off
<1>3. 0 \in 0 .. PULSE /\ config.rule \in BOOLEAN
  BY DEF ActuatorAssumption, Configs
<1>4. t \in Actuators
  BY <1>2, <1>3 DEF Actuators
<1>5. ~t.on /\ ~t.pulsing /\ t.manual = config.rule
  BY <1>2 DEF Actuators
<1> HIDE DEF t
<1>6. Sound(t) /\ ~TooLong(t)
  BY <1>4, <1>5 DEF Sound, Obeys, Pulses, Trips, TooLong
<1> QED
  BY <1>1, <1>6

(***************************************************************************)
(* The clock of the limit. An operator that leaves the output on leaves    *)
(* its clock alone, or the pulse handed the output over.                   *)
(***************************************************************************)
Steady(s, t) == s.on /\ t.on => t.handed \/ (~s.handed /\ t.since = s.since)

\* What turns the output on starts its clock
Starts(s, t) == ~s.on /\ t.on => t.since = 0

LEMMA SetOnSteady ==
  ASSUME NEW s \in Actuators, NEW on \in BOOLEAN
  PROVE  Steady(s, SetOn(s, on)) /\ Starts(s, SetOn(s, on))
<1>1. /\ SetOn(s, on).since = IF on /\ ~s.on THEN 0 ELSE s.since
      /\ SetOn(s, on).on = on
  BY DEF SetOn, Actuators
<1>2. SetOn(s, on).handed = (s.handed /\ on)
  BY DEF SetOn, Actuators
<1> QED
  BY <1>1, <1>2 DEF Steady, Starts

LEMMA TakeRuleSteady ==
  ASSUME NEW s \in Actuators
  PROVE  Steady(s, TakeRule(s)) /\ Starts(s, TakeRule(s))
<1>1. (s.ruleOn /\ s.open) \in BOOLEAN
  OBVIOUS
<1> QED
  BY <1>1, SetOnSteady DEF TakeRule

\* The commands
LEMMA CommandSteady ==
  ASSUME ActuatorAssumption, NEW s \in Actuators, NEW op \in {"on", "off", "toggle", "pulse"}
  PROVE  Steady(s, RunManual(s, op)) /\ Starts(s, RunManual(s, op))
<1> DEFINE on    == op \in {"on", "pulse"} \/ (op = "toggle" /\ ~s.on)
           t     == SetOn(s, on)
           pulse == op = "pulse"
           left  == IF op = "pulse" THEN PULSE ELSE 0
           u     == [t EXCEPT !.pulsing = pulse, !.left = left, !.manual = config.rule,
                              !.pulsed = pulse, !.tripped = FALSE]
<1>1. RunManual(s, op) = u
  BY DEF RunManual
<1>2. on \in BOOLEAN
  OBVIOUS
<1> HIDE DEF on, pulse, left
<1>3. t \in Actuators /\ Steady(s, t) /\ Starts(s, t)
  BY <1>2, SetOnTyped, SetOnSteady
<1> HIDE DEF t
<1>4. u.on = t.on /\ u.since = t.since /\ u.handed = t.handed
  BY <1>3 DEF Actuators
<1> HIDE DEF u
<1> QED
  BY <1>1, <1>3, <1>4 DEF Steady, Starts

\* Whoever leaves it to the rule
LEMMA FollowSteady ==
  ASSUME ActuatorAssumption, NEW s, NEW t \in Actuators,
         t.on = s.on, t.since = s.since, t.handed = s.handed
  PROVE  /\ Steady(s, [TakeRule(t) EXCEPT !.pulsed = FALSE])
         /\ Starts(s, [TakeRule(t) EXCEPT !.pulsed = FALSE])
         /\ [TakeRule(t) EXCEPT !.pulsed = FALSE].on = (t.ruleOn /\ t.open)
         /\ [TakeRule(t) EXCEPT !.pulsed = FALSE].ruleOn = t.ruleOn
<1> DEFINE r == TakeRule(t)
           u == [r EXCEPT !.pulsed = FALSE]
<1>1. /\ r \in Actuators /\ Steady(t, r) /\ Starts(t, r)
      /\ r.on = (t.ruleOn /\ t.open) /\ r.ruleOn = t.ruleOn
  BY TakeRuleTyped, TakeRuleSteady
<1> HIDE DEF r
<1>2. u.on = r.on /\ u.since = r.since /\ u.handed = r.handed /\ u.ruleOn = r.ruleOn
  BY <1>1 DEF Actuators
<1> HIDE DEF u
<1>3. /\ Steady(s, u) /\ Starts(s, u)
      /\ u.on = (t.ruleOn /\ t.open) /\ u.ruleOn = t.ruleOn
  BY <1>1, <1>2 DEF Steady, Starts
<1> QED
  BY <1>3 DEF u, r

LEMMA AutoSteady ==
  ASSUME ActuatorAssumption, NEW s \in Actuators
  PROVE  Steady(s, RunAuto(s)) /\ Starts(s, RunAuto(s))
<1> DEFINE calm == [s EXCEPT !.pulsing = FALSE, !.left = 0, !.manual = FALSE, !.tripped = FALSE]
<1>1. calm \in Actuators
  <2>1. 0 \in 0 .. PULSE
    BY DEF ActuatorAssumption
  <2> QED
    BY <2>1 DEF Actuators
<1>2. calm.on = s.on /\ calm.since = s.since /\ calm.handed = s.handed
  BY DEF Actuators
<1>3. RunAuto(s) = IF config.rule /\ RuleKnown(s)
                   THEN [TakeRule(calm) EXCEPT !.pulsed = FALSE] ELSE calm
  BY DEF RunAuto
<1> HIDE DEF calm
<1>4. /\ Steady(s, [TakeRule(calm) EXCEPT !.pulsed = FALSE])
      /\ Starts(s, [TakeRule(calm) EXCEPT !.pulsed = FALSE])
  BY <1>1, <1>2, FollowSteady
<1>5. Steady(s, calm) /\ Starts(s, calm)
  BY <1>2 DEF Steady, Starts
<1> QED
  BY <1>3, <1>4, <1>5

\* The rule turns the output off for want of a reason that the window cannot give
LEMMA ReadSteady ==
  ASSUME ActuatorAssumption, config \in Configs, NEW s, Sound(s), NEW active \in BOOLEAN
  PROVE  /\ Steady(s, Read(s, active))
         /\ s.on /\ ~Read(s, active).on => ~Read(s, active).ruleOn
<1> DEFINE ruleOn  == IF config.toggle THEN IF s.edgeReady /\ active THEN ~s.on ELSE s.ruleOn
                      ELSE active
           decided == [s EXCEPT !.ruleOn = ruleOn, !.edgeReady = config.toggle,
                                !.haveRule = TRUE]
           follow  == [TakeRule(decided) EXCEPT !.pulsed = FALSE]
<1>0. s \in Actuators
  BY DEF Sound
<1>1. ruleOn \in BOOLEAN /\ config.toggle \in BOOLEAN
  BY <1>0 DEF Actuators, Configs
<1>2. Read(s, active) = IF ~config.rule THEN s ELSE IF s.manual THEN decided ELSE follow
  BY DEF Read
<1> HIDE DEF ruleOn
<1>3. decided \in Actuators
  BY <1>0, <1>1 DEF Actuators
<1>4. /\ decided.on = s.on /\ decided.since = s.since /\ decided.handed = s.handed
      /\ decided.open = s.open
  BY <1>0 DEF Actuators
<1> HIDE DEF decided
<1>5. Steady(s, follow) /\ follow.on = (decided.ruleOn /\ decided.open)
      /\ follow.ruleOn = decided.ruleOn
  BY <1>3, <1>4, FollowSteady
<1> HIDE DEF follow
<1>6. config.rule /\ ~s.manual /\ s.on => s.open
  BY DEF Sound, Obeys, RuleKnown
<1>7. Steady(s, s) /\ Steady(s, decided)
  BY <1>4 DEF Steady
<1> QED
  BY <1>2, <1>4, <1>5, <1>6, <1>7

LEMMA WindowSteady ==
  ASSUME ActuatorAssumption, NEW s \in Actuators, NEW open \in BOOLEAN
  PROVE  /\ Steady(s, Window(s, open))
         /\ ~s.on /\ ~s.ruleOn => ~Window(s, open).on
<1> DEFINE moved  == [s EXCEPT !.open = open]
           follow == [TakeRule(moved) EXCEPT !.pulsed = FALSE]
<1>1. moved \in Actuators
  BY DEF Actuators
<1>2. /\ moved.on = s.on /\ moved.since = s.since /\ moved.handed = s.handed
      /\ moved.ruleOn = s.ruleOn
  BY DEF Actuators
<1>3. Window(s, open) = IF open # s.open /\ config.rule /\ ~s.manual THEN follow ELSE moved
  BY DEF Window
<1> HIDE DEF moved
<1>4. Steady(s, follow) /\ follow.on = (moved.ruleOn /\ moved.open)
  BY <1>1, <1>2, FollowSteady
<1> HIDE DEF follow
<1>5. Steady(s, moved)
  BY <1>2 DEF Steady
<1> QED
  BY <1>2, <1>3, <1>4, <1>5

LEMMA EndPulseSteady ==
  ASSUME ActuatorAssumption, NEW s \in Actuators, Pulses(s)
  PROVE  Steady(s, EndPulse(s)) /\ (~s.on => ~EndPulse(s).on)
<1> DEFINE off  == [SetOn(s, FALSE) EXCEPT !.pulsing = FALSE, !.pulsed = FALSE]
           auto == [off EXCEPT !.manual = FALSE]
           back == IF RuleKnown(auto) THEN TakeRule(auto) ELSE auto
           over == [back EXCEPT !.handed = back.on]
<1>1. EndPulse(s) = IF ~(s.pulsing /\ s.left = 0) THEN s
                    ELSE IF ~config.rule THEN off ELSE over
  BY DEF EndPulse
<1>2. SetOn(s, FALSE) \in Actuators /\ ~SetOn(s, FALSE).on
  BY SetOnTyped
<1>3. off \in Actuators
  BY <1>2 DEF Actuators
<1>4. ~off.on
  BY <1>2 DEF Actuators
<1> HIDE DEF off
<1>5. auto \in Actuators
  BY <1>3 DEF Actuators
<1> HIDE DEF auto
<1>6. back \in Actuators
  BY <1>5, TakeRuleTyped
<1> HIDE DEF back
<1>7. over.handed = back.on /\ over.on = back.on
  BY <1>6 DEF Actuators
<1> HIDE DEF over
<1>8. Steady(s, s) /\ Steady(s, off) /\ Steady(s, over)
  BY <1>4, <1>7 DEF Steady
<1> QED
  BY <1>1, <1>8 DEF Pulses

LEMMA LimitSteady ==
  ASSUME NEW s \in Actuators
  PROVE  Steady(s, Limit(s)) /\ (~s.on => ~Limit(s).on)
<1> DEFINE off == SetOn(s, FALSE)
           t   == [off EXCEPT !.pulsing = FALSE, !.left = 0, !.manual = config.rule,
                              !.tripped = TRUE, !.pulsed = FALSE]
<1>1. Limit(s) = IF TooLong(s) THEN t ELSE s
  BY DEF Limit
<1>2. t.on = FALSE
  BY DEF SetOn, Actuators
<1> QED
  BY <1>1, <1>2 DEF Steady, TooLong

(***************************************************************************)
(* What a tick makes of the record, whatever it reads.                     *)
(***************************************************************************)
LEMMA TickSound ==
  ASSUME ActuatorAssumption, config \in Configs, NEW s, Sound(s),
         NEW reading \in Reading, NEW open \in BOOLEAN
  PROVE  LET read  == IF reading = "none" THEN s ELSE Read(s, reading = "active")
             ended == EndPulse(Window(read, open))
         IN  Sound(Limit(ended)) /\ ~TooLong(Limit(ended)) /\ Steady(s, Limit(ended))
<1> DEFINE active == reading = "active"
           read   == IF reading = "none" THEN s ELSE Read(s, active)
           moved  == Window(read, open)
           ended  == EndPulse(moved)
           last   == Limit(ended)
<1>1. active \in BOOLEAN
  OBVIOUS
<1> HIDE DEF active
<1>2. Sound(read) /\ Steady(s, read) /\ (s.on /\ ~read.on => ~read.ruleOn)
  BY <1>1, ReadSound, ReadSteady DEF Steady
<1> HIDE DEF read
<1>3. Sound(moved) /\ Steady(read, moved) /\ (~read.on /\ ~read.ruleOn => ~moved.on)
  BY <1>2, WindowSound, WindowSteady DEF Sound
<1> HIDE DEF moved
<1>4. Sound(ended) /\ Steady(moved, ended) /\ (~moved.on => ~ended.on)
  BY <1>3, EndPulseSound, EndPulseSteady DEF Sound
<1> HIDE DEF ended
<1>5. Sound(last) /\ ~TooLong(last) /\ Steady(ended, last) /\ (~ended.on => ~last.on)
  BY <1>4, LimitSound, LimitSteady DEF Sound
<1> HIDE DEF last
<1>6. Steady(s, last)
  BY <1>2, <1>3, <1>4, <1>5 DEF Steady
<1> QED
  BY <1>5, <1>6 DEF active, read, moved, ended, last

(***************************************************************************)
(* The inductive invariant: the record is sound; the clock of the limit is *)
(* not behind the time the output has been on, except for a pulse that     *)
(* handed it over; and after the pass's tick the limit is not exceeded.    *)
(***************************************************************************)
Timed == config.limit /\ act.on => act.handed \/ act.since = MAX_ON \/ lit <= act.since

Fresh == ticked /\ TooLong(act) => act.handed

IInv == TypeOK /\ Sound(act) /\ Timed /\ Fresh

LEMMA InitInv == Init => IInv
<1> SUFFICES ASSUME Init PROVE IInv
  OBVIOUS
<1> USE ActuatorAssumption
<1>1. act \in Actuators
  <2>1. 0 \in 0 .. PULSE /\ 0 \in 0 .. MAX_ON
    BY DEF ActuatorAssumption
  <2> QED
    BY <2>1 DEF Init, Cleared, Actuators
<1>2. ~act.on /\ ~act.pulsing /\ ~act.tripped /\ ~act.haveRule /\ act.open
  BY DEF Init, Cleared
<1>3. TypeOK
  <2>1. lit \in 0 .. 2 * MAX_ON
    BY DEF Init, ActuatorAssumption
  <2>2. saved \in Files
    BY DEF Init, NoFile, Files
  <2> QED
    BY <1>1, <1>2, <2>1, <2>2 DEF Init, TypeOK
<1>4. Sound(act)
  BY <1>1, <1>2 DEF Sound, Obeys, Pulses, Trips, RuleKnown
<1>5. Timed /\ Fresh
  BY <1>2 DEF Timed, Fresh, TooLong
<1> QED
  BY <1>3, <1>4, <1>5 DEF IInv

\* The facts every step that drives the output shares
LEMMA DriveInv ==
  ASSUME ActuatorAssumption, IInv, Drive, UNCHANGED config,
         Sound(act'), Steady(act, act'),
         saved' \in Files, ticked' \in BOOLEAN, paused' \in BOOLEAN
  PROVE  TypeOK' /\ Sound(act)' /\ Timed'
<1>1. lit \in 0 .. 2 * MAX_ON /\ 0 \in 0 .. 2 * MAX_ON
  BY DEF IInv, TypeOK, ActuatorAssumption
<1>2. lit' = IF act.on /\ act'.on THEN lit ELSE 0
  BY DEF Drive
<1>3. act' \in Actuators /\ act \in Actuators
  BY DEF Sound, IInv
<1>4. TypeOK'
  <2>1. config' \in Configs
    BY DEF IInv, TypeOK
  <2>2. lit' \in 0 .. 2 * MAX_ON
    BY <1>1, <1>2
  <2>3. act'.pulsing => act'.on
    BY DEF Sound, Pulses
  <2> QED
    BY <1>3, <2>1, <2>2, <2>3 DEF TypeOK
<1>5. Sound(act)'
  BY DEF Sound, Obeys, Pulses, Trips, RuleKnown
<1>6. Timed'
  <2>1. act'.since \in 0 .. MAX_ON /\ act.since \in 0 .. MAX_ON
    BY <1>3 DEF Actuators
  <2>2. CASE act.on /\ act'.on
    <3>1. act'.handed \/ (~act.handed /\ act'.since = act.since)
      BY <2>2 DEF Steady
    <3>2. config.limit => act.handed \/ act.since = MAX_ON \/ lit <= act.since
      BY <2>2 DEF IInv, Timed
    <3> QED
      BY <1>2, <2>2, <3>1, <3>2 DEF Timed
  <2>3. CASE ~(act.on /\ act'.on)
    <3>1. lit' = 0 /\ 0 <= act'.since
      BY <1>2, <2>1, <2>3 DEF ActuatorAssumption
    <3> QED
      BY <3>1 DEF Timed
  <2> QED
    BY <2>2, <2>3
<1> QED
  BY <1>4, <1>5, <1>6

LEMMA FileTyped ==
  ASSUME NEW s \in Actuators
  PROVE  FileOf(s) \in Files
<1>1. s.on \in BOOLEAN /\ s.manual \in BOOLEAN /\ (s.pulsed /\ s.on) \in BOOLEAN
  BY DEF Actuators
<1> QED
  BY <1>1 DEF FileOf, Files

\* A command, whatever it makes of the record
LEMMA CommandInv ==
  ASSUME ActuatorAssumption, IInv, Sound(act'), Steady(act, act'), Starts(act, act'),
         Drive, UNCHANGED <<config, ticked, paused>>, saved' \in Files
  PROVE  IInv'
<1>1. TypeOK' /\ Sound(act)' /\ Timed'
  BY DriveInv DEF IInv, TypeOK
<1>2. Fresh'
  <2>1. act'.on /\ act.on => act'.handed \/ (~act.handed /\ act'.since = act.since)
    BY DEF Steady
  <2>2. act'.on /\ ~act.on => act'.since = 0
    BY DEF Starts
  <2>3. MAX_ON \in Nat \ {0}
    BY DEF ActuatorAssumption
  <2>4. ticked /\ act.on /\ config.limit /\ act.since >= MAX_ON => act.handed
    BY DEF IInv, Fresh, TooLong
  <2>5. CASE act.on
    BY <2>1, <2>4, <2>5 DEF Fresh, TooLong
  <2>6. CASE ~act.on
    BY <2>2, <2>3, <2>6 DEF Fresh, TooLong
  <2> QED
    BY <2>5, <2>6
<1> QED
  BY <1>1, <1>2 DEF IInv

(***************************************************************************)
(* The steps.                                                              *)
(***************************************************************************)
LEMMA TickInv == IInv /\ Tick => IInv'
<1> SUFFICES ASSUME IInv, Tick PROVE IInv'
  OBVIOUS
<1> USE ActuatorAssumption
<1>1. PICK reading \in Reading, open \in BOOLEAN :
        LET read  == IF reading = "none" THEN act ELSE Read(act, reading = "active")
            ended == EndPulse(Window(read, open))
        IN  /\ act' = Limit(ended)
            /\ (saved' = saved \/ saved' = FileOf(act'))
  BY DEF Tick, TickWith, Persist
<1>2. config \in Configs /\ Sound(act) /\ saved \in Files /\ paused \in BOOLEAN
  BY DEF IInv, TypeOK
<1>3. Sound(act') /\ ~TooLong(act') /\ Steady(act, act')
  BY <1>1, <1>2, TickSound
<1>4. saved' \in Files
  BY <1>1, <1>2, <1>3, FileTyped DEF Sound
<1>5. UNCHANGED <<config, paused>> /\ Drive /\ ticked' = TRUE
  BY DEF Tick, Ticked
<1>6. TypeOK' /\ Sound(act)' /\ Timed'
  BY <1>2, <1>3, <1>4, <1>5, DriveInv
<1>7. Fresh'
  BY <1>3, <1>5 DEF Fresh, TooLong
<1> QED
  BY <1>6, <1>7 DEF IInv

LEMMA CommandsInv ==
  ASSUME IInv, NEW op \in {"on", "off", "toggle", "pulse"}, CommandAuto \/ Command(op)
  PROVE  IInv'
<1> USE ActuatorAssumption
<1>1. config \in Configs /\ Sound(act) /\ act \in Actuators /\ saved \in Files
  BY DEF IInv, TypeOK
<1>2. Drive /\ UNCHANGED <<config, ticked, paused>>
  BY DEF CommandAuto, Command
<1>3. Sound(act') /\ Steady(act, act') /\ Starts(act, act')
  <2>1. CASE CommandAuto
    BY <1>1, <2>1, AutoSound, AutoSteady DEF CommandAuto
  <2>2. CASE Command(op)
    BY <1>1, <2>2, ManualSound, CommandSteady DEF Command
  <2> QED
    BY <2>1, <2>2
<1>4. saved' = saved \/ saved' = FileOf(act')
  BY DEF CommandAuto, Command, SaveCommand, Persist
<1>5. saved' \in Files
  BY <1>1, <1>3, <1>4, FileTyped DEF Sound
<1> QED
  BY <1>2, <1>3, <1>5, CommandInv

LEMMA ElapseInv == IInv /\ Elapse => IInv'
<1> SUFFICES ASSUME IInv, Elapse PROVE IInv'
  OBVIOUS
<1> DEFINE left  == IF act.left > 0 THEN act.left - 1 ELSE 0
           since == IF act.on /\ act.since < MAX_ON THEN act.since + 1 ELSE act.since
           later == [act EXCEPT !.left = left, !.since = since]
<1>1. act' = later /\ lit' = (IF act.on /\ lit < 2 * MAX_ON THEN lit + 1 ELSE lit)
      /\ UNCHANGED <<config, saved, paused>> /\ ticked' = FALSE
  BY DEF Elapse
<1>2. /\ act \in Actuators /\ lit \in 0 .. 2 * MAX_ON
      /\ config \in Configs /\ saved \in Files /\ paused \in BOOLEAN
  BY DEF IInv, TypeOK
<1>3. left \in 0 .. PULSE /\ since \in 0 .. MAX_ON
  BY <1>2, ActuatorAssumption DEF Actuators, ActuatorAssumption
<1>4. act.on => since = MAX_ON \/ since = act.since + 1
  BY <1>2, ActuatorAssumption DEF Actuators, ActuatorAssumption
<1> HIDE DEF left, since
<1>5. later \in Actuators
  BY <1>2, <1>3 DEF Actuators
<1>6. /\ later.on = act.on /\ later.manual = act.manual /\ later.pulsing = act.pulsing
      /\ later.tripped = act.tripped /\ later.handed = act.handed
      /\ later.since = since
  BY <1>2 DEF Actuators
<1>7. /\ later.haveRule = act.haveRule /\ later.ruleOn = act.ruleOn
      /\ later.open = act.open
  BY <1>2 DEF Actuators
<1> HIDE DEF later
<1>8. TypeOK'
  <2>1. lit' \in 0 .. 2 * MAX_ON
    BY <1>1, <1>2, ActuatorAssumption DEF ActuatorAssumption
  <2>2. later.pulsing => later.on
    BY <1>6 DEF IInv, TypeOK
  <2> QED
    BY <1>1, <1>2, <1>5, <2>1, <2>2 DEF TypeOK
<1>9. Sound(act)'
  BY <1>1, <1>5, <1>6, <1>7 DEF IInv, Sound, Obeys, Pulses, Trips, RuleKnown
<1>10. Timed'
  <2>1. config.limit /\ act.on => act.handed \/ act.since = MAX_ON \/ lit <= act.since
    BY DEF IInv, Timed
  <2>2. act.on /\ act.since = MAX_ON => since = MAX_ON
    BY <1>2, ActuatorAssumption DEF since, Actuators, ActuatorAssumption
  <2>3. act.since \in 0 .. MAX_ON
    BY <1>2 DEF Actuators
  <2>4. act.on /\ lit <= act.since => since = MAX_ON \/ lit' <= since
    BY <1>1, <1>2, <1>4, <2>3, ActuatorAssumption DEF ActuatorAssumption
  <2>5. config' = config /\ act'.on = act.on /\ act'.handed = act.handed /\ act'.since = since
    BY <1>1, <1>6
  <2> QED
    BY <2>1, <2>2, <2>4, <2>5 DEF Timed
<1>11. Fresh'
  BY <1>1 DEF Fresh
<1> QED
  BY <1>8, <1>9, <1>10, <1>11 DEF IInv

LEMMA BeginInv ==
  ASSUME IInv, NEW c \in Configs, NEW file \in Files, Begin(c, file), paused' \in BOOLEAN
  PROVE  IInv'
<1>1. config' = c /\ saved' = file /\ act' = Restored(c, file) /\ ticked' = FALSE /\ lit' = 0
  BY DEF Begin
<1>2. Cleared \in Actuators
  <2>1. 0 \in 0 .. PULSE /\ 0 \in 0 .. MAX_ON
    BY ActuatorAssumption DEF ActuatorAssumption
  <2> QED
    BY <2>1 DEF Cleared, Actuators
<1>3. ~Cleared.pulsing /\ ~Cleared.tripped /\ ~Cleared.haveRule /\ Cleared.open
      /\ Cleared.since = 0
  BY DEF Cleared
<1> DEFINE kept == [Cleared EXCEPT !.on = file.on, !.manual = file.manual,
                                   !.pulsed = file.pulsed]
<1>4. file.on \in BOOLEAN /\ file.manual \in BOOLEAN /\ file.pulsed \in BOOLEAN
  BY DEF Files
<1>5. kept \in Actuators
  BY <1>2, <1>4 DEF Actuators
<1>6. ~kept.pulsing /\ ~kept.tripped /\ ~kept.haveRule /\ kept.open /\ kept.since = 0
  BY <1>2, <1>3 DEF Actuators
<1>7. Restored(c, file) = IF c.restore THEN kept ELSE Cleared
  BY DEF Restored
<1> HIDE DEF kept
<1>8. /\ act' \in Actuators /\ ~act'.pulsing /\ ~act'.tripped /\ ~act'.haveRule /\ act'.open
      /\ act'.since = 0
  BY <1>1, <1>2, <1>3, <1>5, <1>6, <1>7
<1>9. TypeOK'
  <2>1. lit' \in 0 .. 2 * MAX_ON
    BY <1>1, ActuatorAssumption DEF ActuatorAssumption
  <2> QED
    BY <1>1, <1>8, <2>1 DEF TypeOK
<1>10. Sound(act)'
  BY <1>8 DEF Sound, Obeys, Pulses, Trips, RuleKnown
<1>11. Timed' /\ Fresh'
  BY <1>1, <1>8 DEF Timed, Fresh
<1> QED
  BY <1>9, <1>10, <1>11 DEF IInv

LEMMA StepInv == IInv /\ [Next]_vars => IInv'
<1> SUFFICES ASSUME IInv, [Next]_vars PROVE IInv'
  OBVIOUS
<1>1. config \in Configs /\ saved \in Files /\ paused \in BOOLEAN /\ NoFile \in Files
  BY DEF IInv, TypeOK, NoFile, Files
<1>2. CASE CommandAuto
  BY <1>2, CommandsInv
<1>3. CASE \E op \in {"on", "off", "toggle", "pulse"} : Command(op)
  BY <1>3, CommandsInv
<1>4. CASE Tick
  BY <1>4, TickInv
<1>5. CASE Elapse
  BY <1>5, ElapseInv
<1>6. CASE Download
  <2>1. UNCHANGED <<config, act, saved, ticked, lit>> /\ paused' \in BOOLEAN
    BY <1>1, <1>6 DEF Download
  <2>2. TypeOK'
    BY <2>1 DEF IInv, TypeOK
  <2>3. Sound(act)'
    BY <2>1 DEF IInv, Sound, Obeys, Pulses, Trips, RuleKnown
  <2>4. Timed' /\ Fresh'
    BY <2>1 DEF IInv, Timed, Fresh, TooLong
  <2> QED
    BY <2>2, <2>3, <2>4 DEF IInv
<1>7. CASE Boot
  BY <1>1, <1>7, BeginInv DEF Boot
<1>8. CASE Configure
  BY <1>1, <1>8, BeginInv DEF Configure
<1>9. CASE UNCHANGED vars
  <2>1. UNCHANGED <<config, act, saved, ticked, paused, lit>>
    BY <1>9 DEF vars
  <2>2. TypeOK'
    BY <2>1 DEF IInv, TypeOK
  <2>3. Sound(act)'
    BY <2>1 DEF IInv, Sound, Obeys, Pulses, Trips, RuleKnown
  <2>4. Timed' /\ Fresh'
    BY <2>1 DEF IInv, Timed, Fresh, TooLong
  <2> QED
    BY <2>2, <2>3, <2>4 DEF IInv
<1> QED
  BY <1>2, <1>3, <1>4, <1>5, <1>6, <1>7, <1>8, <1>9 DEF Next

(***************************************************************************)
(* What a pulse leaves in the file. Only the command auto, with no rule to *)
(* decide, ends a pulse and keeps its output.                              *)
(***************************************************************************)
LEMMA EndPulseUnpulsed ==
  ASSUME ActuatorAssumption, NEW s \in Actuators
  PROVE  EndPulse(s) \in Actuators /\ (EndPulse(s) # s => ~EndPulse(s).pulsed)
<1> DEFINE off  == [SetOn(s, FALSE) EXCEPT !.pulsing = FALSE, !.pulsed = FALSE]
           auto == [off EXCEPT !.manual = FALSE]
           back == IF RuleKnown(auto) THEN TakeRule(auto) ELSE auto
           over == [back EXCEPT !.handed = back.on]
<1>1. EndPulse(s) = IF ~(s.pulsing /\ s.left = 0) THEN s
                    ELSE IF ~config.rule THEN off ELSE over
  BY DEF EndPulse
<1>2. SetOn(s, FALSE) \in Actuators
  BY SetOnTyped
<1>3. off \in Actuators /\ off.pulsed = FALSE
  BY <1>2 DEF Actuators
<1> HIDE DEF off
<1>4. auto \in Actuators /\ auto.pulsed = FALSE
  BY <1>3 DEF Actuators
<1> HIDE DEF auto
<1>5. TakeRule(auto) \in Actuators /\ TakeRule(auto).pulsed = auto.pulsed
  <2>1. TakeRule(auto).pulsed = auto.pulsed
    BY <1>4 DEF TakeRule, SetOn, Actuators
  <2> QED
    BY <1>4, <2>1, TakeRuleTyped
<1>6. back \in Actuators /\ back.pulsed = FALSE
  BY <1>4, <1>5
<1> HIDE DEF back
<1>7. over \in Actuators /\ over.pulsed = FALSE
  BY <1>6 DEF Actuators
<1> QED
  BY <1>1, <1>3, <1>7

LEMMA LimitUnpulsed ==
  ASSUME NEW s \in Actuators, Limit(s) # s
  PROVE  ~Limit(s).pulsed
<1>1. Limit(s).pulsed = FALSE
  BY DEF Limit, SetOn, Actuators
<1> QED
  BY <1>1

LEMMA PulseStep ==
  ASSUME IInv, [Next]_vars, ~saved.pulsed, saved'.pulsed
  PROVE  CommandAuto /\ ~(config.rule /\ RuleKnown(act))
<1> USE ActuatorAssumption
<1>1. config \in Configs /\ Sound(act) /\ act \in Actuators
  BY DEF IInv, TypeOK
<1>2. saved' # saved
  OBVIOUS
<1>3. ASSUME CommandAuto, config.rule, RuleKnown(act)
      PROVE  FALSE
  <2> DEFINE calm == [act EXCEPT !.pulsing = FALSE, !.left = 0, !.manual = FALSE,
                                 !.tripped = FALSE]
             rule == TakeRule(calm)
  <2>1. act' = [rule EXCEPT !.pulsed = FALSE]
    BY <1>3 DEF CommandAuto, RunAuto
  <2>2. calm \in Actuators
    <3>1. 0 \in 0 .. PULSE
      BY DEF ActuatorAssumption
    <3> QED
      BY <1>1, <3>1 DEF Actuators
  <2> HIDE DEF calm
  <2>3. rule \in Actuators
    BY <2>2, TakeRuleTyped
  <2> HIDE DEF rule
  <2>4. act'.pulsed = FALSE
    BY <2>1, <2>3 DEF Actuators
  <2>5. saved' = FileOf(act')
    BY <1>2, <1>3 DEF CommandAuto, Persist
  <2> QED
    BY <2>4, <2>5 DEF FileOf
<1>4. ASSUME NEW op \in {"on", "off", "toggle", "pulse"}, Command(op)
      PROVE  FALSE
  <2> DEFINE on == op \in {"on", "pulse"} \/ (op = "toggle" /\ ~act.on)
             t  == SetOn(act, on)
  <2>1. op # "pulse" /\ saved' = FileOf(act')
    BY <1>2, <1>4 DEF Command, SaveCommand, Persist
  <2>2. act' = [t EXCEPT !.pulsing = (op = "pulse"),
                         !.left = IF op = "pulse" THEN PULSE ELSE 0,
                         !.manual = config.rule,
                         !.pulsed = (op = "pulse"),
                         !.tripped = FALSE]
    BY <1>4 DEF Command, RunManual
  <2>3. on \in BOOLEAN
    OBVIOUS
  <2> HIDE DEF on
  <2>4. t \in Actuators
    BY <1>1, <2>3, SetOnTyped
  <2> HIDE DEF t
  <2>5. act'.pulsed = (op = "pulse")
    BY <2>2, <2>4 DEF Actuators
  <2> QED
    BY <2>1, <2>5 DEF FileOf
<1>5. ASSUME Tick
      PROVE  FALSE
  <2>1. PICK reading \in Reading, open \in BOOLEAN :
          LET read  == IF reading = "none" THEN act ELSE Read(act, reading = "active")
              moved == Window(read, open)
              ended == EndPulse(moved)
          IN  /\ act' = Limit(ended)
              /\ ended # moved \/ act' # ended
              /\ saved' = FileOf(act')
    BY <1>2, <1>5 DEF Tick, TickWith, Persist
  <2> DEFINE active == reading = "active"
             read   == IF reading = "none" THEN act ELSE Read(act, active)
             moved  == Window(read, open)
             ended  == EndPulse(moved)
  <2>2. active \in BOOLEAN
    OBVIOUS
  <2>3. act' = Limit(ended) /\ (ended # moved \/ act' # ended) /\ saved' = FileOf(act')
    BY <2>1
  <2> HIDE DEF active
  <2>4. Sound(read)
    BY <1>1, <2>2, ReadSound
  <2> HIDE DEF read
  <2>5. moved \in Actuators
    BY <1>1, <2>4, WindowSound DEF Sound
  <2> HIDE DEF moved
  <2>6. ended \in Actuators /\ (ended # moved => ~ended.pulsed)
    BY <2>5, EndPulseUnpulsed
  <2> HIDE DEF ended
  <2>7. ~act'.pulsed
    BY <2>3, <2>6, LimitUnpulsed
  <2> QED
    BY <2>3, <2>7 DEF FileOf
<1>6. ASSUME Boot \/ Configure
      PROVE  FALSE
  BY <1>2, <1>6 DEF Boot, Configure, Begin, NoFile
<1>7. ASSUME Elapse \/ Download \/ UNCHANGED vars
      PROVE  FALSE
  BY <1>2, <1>7 DEF Elapse, Download, vars
<1> QED
  BY <1>3, <1>4, <1>5, <1>6, <1>7 DEF Next

(***************************************************************************)
(* The theorems.                                                           *)
(***************************************************************************)
LEMMA InvariantHolds == Spec => []IInv
  BY InitInv, StepInv, PTL DEF Spec

\* Every variable keeps its type, and a pulse runs only while the output is on.
THEOREM TypeCorrect == Spec => []TypeOK
<1>1. IInv => TypeOK
  BY DEF IInv
<1> QED
  BY <1>1, InvariantHolds, PTL

\* In automatic mode the output is what the rule last decided, and off outside
\* the window (_takeRule), whatever commands, pulses, limits and boots did.
THEOREM RuleFollowed == Spec => []AutoFollowsRule
<1>1. IInv => AutoFollowsRule
  BY DEF IInv, Sound, Obeys, AutoFollowsRule
<1> QED
  BY <1>1, InvariantHolds, PTL

\* What the safety limit (tick) turned off stays off until a command comes.
THEOREM TripHolds == Spec => []SafetyHolds
<1>1. IInv => SafetyHolds
  BY DEF IInv, Sound, Trips, SafetyHolds
<1> QED
  BY <1>1, InvariantHolds, PTL

\* After each pass's tick an output with a limit has been on for less than it,
\* or a pulse ended with the rule keeping it on.
THEOREM LimitKept == Spec => []SafetyOffButAfterPulse
<1>1. IInv => SafetyOffButAfterPulse
  <2> SUFFICES ASSUME IInv, ticked, config.limit, act.on, ~act.handed
               PROVE  lit < MAX_ON
    BY DEF SafetyOffButAfterPulse
  <2>1. act.since \in 0 .. MAX_ON /\ lit \in 0 .. 2 * MAX_ON
    BY DEF IInv, TypeOK, Actuators
  <2>2. ~(act.since >= MAX_ON)
    BY DEF IInv, Fresh, TooLong
  <2>3. act.since = MAX_ON \/ lit <= act.since
    BY DEF IInv, Timed
  <2> QED
    BY <2>1, <2>2, <2>3, ActuatorAssumption DEF ActuatorAssumption
<1> QED
  BY <1>1, InvariantHolds, PTL

\* Only the command auto with no decision of a rule to take (run) writes to
\* /iot.state the output that a pulse turned on.
THEOREM PulseSaved == Spec => PulseSavedOnlyByAuto
<1>1. IInv /\ [Next]_vars =>
        [~saved.pulsed /\ saved'.pulsed => CommandAuto /\ ~(config.rule /\ RuleKnown(act))]_vars
  BY PulseStep
<1> QED
  BY <1>1, InvariantHolds, PTL DEF Spec, PulseSavedOnlyByAuto

(***************************************************************************)
(* The device: its actuator goes through the steps of IoTActuator.         *)
(***************************************************************************)
LEMMA DeviceTickIsTick == DeviceTick => Tick
<1> SUFFICES ASSUME DeviceTick PROVE Tick
  OBVIOUS
<1>1. Due /\ Ticked /\ \E reading \in Reading, open \in BOOLEAN : TickWith(reading, open)
  BY DEF DeviceTick
<1> QED
  BY <1>1 DEF Tick

LEMMA DeviceConfigureIsConfigure ==
  ASSUME SetupsAssumption, DeviceConfigure
  PROVE  Configure
<1>1. PICK s \in Setups, file \in {saved, NoFile} : Begin(s.config, file) /\ UNCHANGED paused
  BY DEF DeviceConfigure
<1>2. s.config \in Configs
  BY DEF SetupsAssumption
<1> QED
  BY <1>1, <1>2 DEF Configure

LEMMA DeviceStep == [DeviceNext]_deviceVars => [Next]_vars
<1> SUFFICES ASSUME [DeviceNext]_deviceVars PROVE [Next]_vars
  OBVIOUS
<1>1. CASE DeviceCommand
  BY <1>1 DEF DeviceCommand, Next
<1>2. CASE DeviceTick
  BY <1>2, DeviceTickIsTick DEF Next
<1>3. CASE DeviceElapse
  BY <1>3 DEF DeviceElapse, Next
<1>4. CASE DeviceDownload
  BY <1>4 DEF DeviceDownload, Next
<1>5. CASE DeviceBoot
  BY <1>5 DEF DeviceBoot, Next
<1>6. CASE DeviceConfigure
  BY <1>6, DeviceConfigureIsConfigure, SetupsAssumption DEF Next
<1>7. CASE Elsewhere \/ UNCHANGED deviceVars
  BY <1>7 DEF Elsewhere, deviceVars
<1> QED
  BY <1>1, <1>2, <1>3, <1>4, <1>5, <1>6, <1>7 DEF DeviceNext

\* Whatever the sensor, the device is an actuator whose rule is decided by some
\* reading: what holds of every behaviour of IoTActuator holds of the device.
THEOREM DeviceIsActuator == DeviceSpec => Spec
<1>1. DeviceInit => Init
  BY DEF DeviceInit
<1> QED
  BY <1>1, DeviceStep, PTL DEF DeviceSpec, Spec

(***************************************************************************)
(* The margin. What a step makes of the rule's decision is what it makes   *)
(* of haveRule and ruleOn; only a reading does.                            *)
(***************************************************************************)
LEMMA WindowDecides ==
  ASSUME NEW s \in Actuators, NEW open \in BOOLEAN
  PROVE  /\ Window(s, open).haveRule = s.haveRule
         /\ Window(s, open).ruleOn = s.ruleOn
<1> DEFINE moved  == [s EXCEPT !.open = open]
           follow == [TakeRule(moved) EXCEPT !.pulsed = FALSE]
<1>1. moved \in Actuators /\ moved.haveRule = s.haveRule /\ moved.ruleOn = s.ruleOn
  BY DEF Actuators
<1> HIDE DEF moved
<1>2. follow.haveRule = moved.haveRule /\ follow.ruleOn = moved.ruleOn
  BY <1>1 DEF TakeRule, SetOn, Actuators
<1>3. Window(s, open) = IF open # s.open /\ config.rule /\ ~s.manual THEN follow ELSE moved
  BY DEF Window, moved
<1> QED
  BY <1>1, <1>2, <1>3

LEMMA EndPulseDecides ==
  ASSUME NEW s \in Actuators
  PROVE  EndPulse(s).haveRule = s.haveRule /\ EndPulse(s).ruleOn = s.ruleOn
  BY DEF EndPulse, TakeRule, SetOn, Actuators

LEMMA LimitDecides ==
  ASSUME NEW s \in Actuators
  PROVE  Limit(s).haveRule = s.haveRule /\ Limit(s).ruleOn = s.ruleOn
  BY DEF Limit, SetOn, Actuators

LEMMA ReadDecides ==
  ASSUME NEW s \in Actuators, NEW active \in BOOLEAN, ~config.toggle
  PROVE  /\ config.rule => Read(s, active).haveRule /\ Read(s, active).ruleOn = active
         /\ ~config.rule => Read(s, active) = s
  BY DEF Read, TakeRule, SetOn, Actuators

\* A tick of a sensor that does not toggle
LEMMA TickDecides ==
  ASSUME ActuatorAssumption, IInv, NEW reading \in Reading, NEW open \in BOOLEAN,
         TickWith(reading, open), ~config.toggle
  PROVE  \/ /\ config.rule /\ reading # "none"
            /\ act'.haveRule /\ act'.ruleOn = (reading = "active")
         \/ /\ ~config.rule \/ reading = "none"
            /\ act'.haveRule = act.haveRule /\ act'.ruleOn = act.ruleOn
<1> DEFINE active == reading = "active"
           read   == IF reading = "none" THEN act ELSE Read(act, active)
           moved  == Window(read, open)
           ended  == EndPulse(moved)
<1>1. act' = Limit(ended)
  BY DEF TickWith
<1>2. active \in BOOLEAN /\ act \in Actuators /\ Sound(act) /\ config \in Configs
  BY DEF IInv, TypeOK
<1>3. /\ config.rule /\ reading # "none" => read.haveRule /\ read.ruleOn = active
      /\ ~config.rule \/ reading = "none" => read = act
  <2> HIDE DEF active
  <2> QED
    BY <1>2, ReadDecides
<1>4. Sound(read) /\ read \in Actuators
  <2>1. Sound(read)
    <3> HIDE DEF active
    <3> QED
      BY <1>2, ReadSound
  <2> HIDE DEF read
  <2> QED
    BY <2>1 DEF Sound
<1> HIDE DEF read
<1>5. moved \in Actuators /\ moved.haveRule = read.haveRule /\ moved.ruleOn = read.ruleOn
  <2>1. Sound(moved)
    BY <1>2, <1>4, WindowSound
  <2>2. moved.haveRule = read.haveRule /\ moved.ruleOn = read.ruleOn
    BY <1>4, WindowDecides
  <2> QED
    BY <2>1, <2>2 DEF Sound
<1> HIDE DEF moved
<1>6. ended \in Actuators /\ ended.haveRule = moved.haveRule /\ ended.ruleOn = moved.ruleOn
  BY <1>5, EndPulseUnpulsed, EndPulseDecides
<1> HIDE DEF ended
<1>7. act'.haveRule = read.haveRule /\ act'.ruleOn = read.ruleOn
  BY <1>1, <1>5, <1>6, LimitDecides
<1> QED
  BY <1>3, <1>7 DEF active

\* A command leaves the decision, a begin forgets it
LEMMA CommandDecides ==
  ASSUME NEW op \in {"on", "off", "toggle", "pulse"}, act \in Actuators,
         CommandAuto \/ Command(op)
  PROVE  act'.haveRule = act.haveRule /\ act'.ruleOn = act.ruleOn
  BY DEF CommandAuto, RunAuto, Command, RunManual, TakeRule, SetOn, Actuators

LEMMA BeginForgets ==
  ASSUME NEW c, NEW file, Begin(c, file)
  PROVE  ~act'.haveRule
<1>1. act' = Restored(c, file)
  BY DEF Begin
<1>2. Restored(c, file).haveRule = FALSE
  BY DEF Restored, Cleared
<1> QED
  BY <1>1, <1>2
\* What the sensor's arithmetic returns
LEMMA QuotTyped ==
  ASSUME NEW a \in Int, NEW b \in Nat \ {0}
  PROVE  Quot(a, b) \in Int
<1>1. a \div b \in Int /\ (-a) \div b \in Int
  OBVIOUS
<1> QED
  BY <1>1 DEF Quot

LEMMA InUnitTyped ==
  ASSUME NEW c \in Settings, NEW v \in Int
  PROVE  InUnit(c, v) \in Int
<1>1. Deg(c, v) \in Int
  <2>1. v * 9 \in Int
    OBVIOUS
  <2> QED
    BY <2>1, QuotTyped DEF Deg
<1>2. Tank(c, v) \in Int
  <2> DEFINE span == c.tankEmpty - c.tankFull
             full == IF c.unit = 1 THEN 100 ELSE c.tankL
             x == Quot((c.tankEmpty - v) * full, span)
  <2>1. span \in Int /\ full \in Int /\ (c.tankEmpty - v) \in Int
    BY DEF Settings
  <2>2. CASE span <= 0
    BY <2>2 DEF Tank
  <2>3. CASE ~(span <= 0)
    <3>1. span \in Nat \ {0}
      BY <2>1, <2>3
    <3> HIDE DEF span, full
    <3>2. (c.tankEmpty - v) * full \in Int
      BY <2>1
    <3>3. x \in Int
      BY <3>1, <3>2, QuotTyped
    <3> HIDE DEF x
    <3>4. Tank(c, v) = IF span <= 0 THEN 0 ELSE IF x < 0 THEN 0 ELSE IF x > full THEN full ELSE x
      BY DEF Tank, span, full, x
    <3> QED
      BY <2>1, <3>3, <3>4
  <2> QED
    BY <2>2, <2>3
<1>3. Flow(c, v) \in Int
  <2> DEFINE f == Quot(v * (IF c.unit = 1 THEN 60 ELSE 6000), c.ppl)
  <2>1. CASE c.ppl = 0
    BY <2>1 DEF Flow
  <2>2. CASE c.ppl # 0
    <3>1. c.ppl \in Nat \ {0} /\ v * (IF c.unit = 1 THEN 60 ELSE 6000) \in Int
      BY <2>2 DEF Settings
    <3>2. f \in Int
      BY <3>1, QuotTyped
    <3>3. Flow(c, v) = IF c.ppl = 0 THEN 0 ELSE IF f > 32767 THEN 32767 ELSE f
      BY DEF Flow
    <3> QED
      BY <3>2, <3>3
  <2> QED
    BY <2>1, <2>2
<1> QED
  BY <1>1, <1>2, <1>3 DEF InUnit

\* The sensor's members, the settings in force, and the reading at which the rule
\* turned on: it had reached the limit.
Members == [seen : BOOLEAN, candidate : Int, held : Int, stable : Int, have : BOOLEAN,
            failing : BOOLEAN, waits : BOOLEAN, count : Int, shown : Int, onAt : Int]

SetUp == \E s \in Setups : config = s.config /\ set = s.sensor

Numeric == set.kind # "digital" /\ ~Proportional(set)

Turned == Numeric /\ RuledOn => Limited(set, sen.onAt, FALSE)

\* Without a rule nothing is decided
Ruleless == ~config.rule => ~act.haveRule

DInv == SetUp /\ sen \in Members /\ world.level \in Int /\ Turned /\ Ruleless

LEMMA SetUpTyped ==
  ASSUME SetupsAssumption, SetUp
  PROVE  /\ set \in Settings /\ set.raw \subseteq Int
         /\ set.kind # "digital" => ~config.toggle
  BY DEF SetupsAssumption, SetUp, Settings

\* A tick that reads nothing leaves onAt; one that reads decides by it
LEMMA SensorDecides ==
  ASSUME SetupsAssumption, DInv, NEW decided \in BOOLEAN, NEW reading \in Reading,
         TickSensor(decided, reading)
  PROVE  /\ sen' \in Members
         /\ set.kind # "digital" =>
              \/ reading = "none" /\ sen'.onAt = sen.onAt
              \/ LET on == Decides(set, sen'.shown, decided)
                 IN  /\ reading = ReadingOf(on)
                     /\ sen'.onAt = IF on /\ ~decided THEN sen'.shown ELSE sen.onAt
<1>1. set \in Settings /\ sen \in Members /\ world.level \in Int /\ sen.count \in Int
  BY SetUpTyped DEF DInv, Members
<1>2. ASSUME NEW s \in Members, s.onAt = sen.onAt, NEW v \in Int,
             Accepts(s, v, decided, reading)
      PROVE  /\ sen' \in Members
             /\ LET on == Decides(set, sen'.shown, decided)
                IN  /\ reading = ReadingOf(on)
                    /\ sen'.onAt = IF on /\ ~decided THEN sen'.shown ELSE sen.onAt
  <2> DEFINE shown == InUnit(set, v)
             on == Decides(set, shown, decided)
             at == IF on /\ ~decided THEN shown ELSE s.onAt
  <2>1. shown \in Int
    BY <1>1, InUnitTyped
  <2>2. /\ reading = ReadingOf(on)
        /\ sen' = [s EXCEPT !.have = TRUE, !.failing = FALSE, !.shown = shown, !.onAt = at]
    BY <1>2 DEF Accepts
  <2> HIDE DEF shown
  <2>3. at \in Int
    BY <2>1, <1>2 DEF Members
  <2> HIDE DEF at
  <2>4. sen' \in Members /\ sen'.shown = shown /\ sen'.onAt = at
    BY <2>1, <2>2, <2>3 DEF Members
  <2> QED
    BY <1>2, <2>2, <2>4 DEF at
<1>3. ASSUME Fails(reading)
      PROVE  sen' \in Members /\ reading = "none" /\ sen'.onAt = sen.onAt
  BY <1>1, <1>3 DEF Fails, Members
<1>4. [sen EXCEPT !.waits = FALSE] \in Members /\ [sen EXCEPT !.waits = FALSE].onAt = sen.onAt
  BY <1>1 DEF Members
<1>5. [sen EXCEPT !.count = 0] \in Members /\ [sen EXCEPT !.count = 0].onAt = sen.onAt
  BY <1>1 DEF Members
<1>6. ASSUME sen' \in {sen, [sen EXCEPT !.waits = TRUE], [sen EXCEPT !.waits = TRUE, !.count = 0]}
      PROVE  sen' \in Members /\ sen'.onAt = sen.onAt
  <2>1. CASE sen' = sen
    BY <1>1, <2>1
  <2>2. CASE sen' = [sen EXCEPT !.waits = TRUE]
    BY <1>1, <2>2 DEF Members
  <2>3. CASE sen' = [sen EXCEPT !.waits = TRUE, !.count = 0]
    <3> DEFINE s == [sen EXCEPT !.waits = TRUE]
    <3>1. s \in Members /\ s.onAt = sen.onAt
      BY <1>1 DEF Members
    <3>2. sen' = [s EXCEPT !.count = 0]
      BY <2>3
    <3> HIDE DEF s
    <3> QED
      BY <3>1, <3>2 DEF Members
  <2> QED
    BY <1>6, <2>1, <2>2, <2>3
<1>7. CASE set.kind = "digital"
  <2>1. TickDigital(reading)
    BY <1>7 DEF TickSensor
  <2>2. \/ sen' = [sen EXCEPT !.seen = TRUE, !.candidate = world.level, !.held = 0]
        \/ sen' = sen
        \/ sen' = [sen EXCEPT !.stable = world.level, !.have = TRUE]
    BY <2>1 DEF TickDigital
  <2> DEFINE pin == world.level
  <2>3. pin \in Int
    BY <1>1
  <2> HIDE DEF pin
  <2>4. CASE sen' = [sen EXCEPT !.seen = TRUE, !.candidate = pin, !.held = 0]
    <3> DEFINE s == [sen EXCEPT !.seen = TRUE, !.candidate = pin]
    <3>1. s \in Members
      BY <1>1, <2>3 DEF Members
    <3>2. sen' = [s EXCEPT !.held = 0]
      BY <2>4
    <3> HIDE DEF s
    <3> QED
      BY <1>7, <3>1, <3>2 DEF Members
  <2>5. CASE sen' = [sen EXCEPT !.stable = pin, !.have = TRUE]
    BY <1>1, <1>7, <2>3, <2>5 DEF Members
  <2> QED
    BY <1>1, <1>7, <2>2, <2>4, <2>5 DEF pin
<1>8. CASE set.kind = "dht"
  <2>1. TickDht(decided, reading)
    BY <1>8 DEF TickSensor
  <2>2. \/ reading = "none" /\ sen' \in {sen, [sen EXCEPT !.waits = TRUE]}
        \/ Fails(reading)
        \/ Accepts([sen EXCEPT !.waits = FALSE], world.level, decided, reading)
    BY <2>1 DEF TickDht
  <2> QED
    BY <1>1, <1>2, <1>3, <1>4, <1>6, <2>2
<1>9. CASE set.kind \in {"converts", "lux"}
  <2>1. TickConverts(decided, reading)
    BY <1>9 DEF TickSensor
  <2>2. \/ reading = "none" /\ sen' = [sen EXCEPT !.waits = TRUE]
        \/ Fails(reading)
        \/ Accepts([sen EXCEPT !.waits = FALSE], world.level, decided, reading)
    BY <2>1 DEF TickConverts
  <2> QED
    BY <1>1, <1>2, <1>3, <1>4, <1>6, <2>2
<1>10. CASE set.kind = "range"
  <2>1. TickRange(decided, reading)
    BY <1>10 DEF TickSensor
  <2>2. Fails(reading) \/ Accepts(sen, world.level, decided, reading)
    BY <2>1 DEF TickRange
  <2> QED
    BY <1>1, <1>2, <1>3, <2>2
<1>11. CASE set.kind = "pulse"
  <2>1. TickPulse(decided, reading)
    BY <1>11 DEF TickSensor
  <2>2. \/ reading = "none" /\ sen' = [sen EXCEPT !.waits = TRUE, !.count = 0]
        \/ Accepts([sen EXCEPT !.count = 0], sen.count, decided, reading)
    BY <2>1 DEF TickPulse
  <2> QED
    BY <1>1, <1>2, <1>5, <1>6, <2>2
<1>12. set.kind \in Kinds
  BY <1>1 DEF Settings
<1> QED
  BY <1>7, <1>8, <1>9, <1>10, <1>11, <1>12 DEF Kinds

LEMMA DeviceInitInv == DeviceInit => DInv
<1> SUFFICES ASSUME DeviceInit PROVE DInv
  OBVIOUS
<1>1. SetUp
  BY DEF DeviceInit, SetUp
<1>2. sen \in Members
  BY DEF DeviceInit, Unread, Members
<1>3. world.level \in Int
  <2>1. world \in Worlds(set) /\ set.raw \subseteq Int
    BY <1>1, SetUpTyped, SetupsAssumption DEF DeviceInit
  <2> QED
    BY <2>1 DEF Worlds
<1>4. ~RuledOn
  BY DEF DeviceInit, Init, Cleared, RuledOn
<1>5. ~act.haveRule
  BY DEF DeviceInit, Init, Cleared
<1> QED
  BY <1>1, <1>2, <1>3, <1>4, <1>5 DEF DInv, Turned, Ruleless
\* A tick with a numeric rule: the rule decides by the reading shown, or there is
\* no reading and nothing of it changes.
LEMMA TickMargin ==
  ASSUME ActuatorAssumption, SetupsAssumption, IInv, DInv, DeviceTick
  PROVE  /\ UNCHANGED <<config, set, world>> /\ sen' \in Members
         /\ Numeric =>
              \/ sen'.onAt = sen.onAt /\ act'.haveRule = act.haveRule /\ act'.ruleOn = act.ruleOn
              \/ ~act.haveRule /\ ~act'.haveRule
              \/ LET on == Limited(set, sen'.shown, RuledOn)
                 IN  /\ act'.haveRule /\ act'.ruleOn = on
                     /\ sen'.onAt = IF on /\ ~RuledOn THEN sen'.shown ELSE sen.onAt
<1>1. PICK reading \in Reading, open \in BOOLEAN :
        TickSensor(RuledOn, reading) /\ TickWith(reading, open)
  BY DEF DeviceTick
<1>2. UNCHANGED <<config, set, world>>
  BY DEF DeviceTick, Ticked
<1>3. RuledOn \in BOOLEAN /\ config \in Configs /\ act \in Actuators
  BY DEF RuledOn, IInv, TypeOK, Actuators
<1>4. sen' \in Members
  BY <1>1, <1>3, SensorDecides
<1>5. ASSUME Numeric
      PROVE  \/ sen'.onAt = sen.onAt /\ act'.haveRule = act.haveRule /\ act'.ruleOn = act.ruleOn
             \/ ~act.haveRule /\ ~act'.haveRule
             \/ LET on == Limited(set, sen'.shown, RuledOn)
                IN  /\ act'.haveRule /\ act'.ruleOn = on
                    /\ sen'.onAt = IF on /\ ~RuledOn THEN sen'.shown ELSE sen.onAt
  <2> DEFINE on == Limited(set, sen'.shown, RuledOn)
  <2>1. set.kind # "digital" /\ Decides(set, sen'.shown, RuledOn) = on
    BY <1>5 DEF Numeric, Decides
  <2>2. ~config.toggle
    BY <2>1, SetUpTyped DEF DInv
  <2>3. \/ reading = "none" /\ sen'.onAt = sen.onAt
        \/ /\ reading = ReadingOf(on)
           /\ sen'.onAt = IF on /\ ~RuledOn THEN sen'.shown ELSE sen.onAt
    BY <1>1, <1>3, <2>1, SensorDecides
  <2>4. \/ /\ config.rule /\ reading # "none"
           /\ act'.haveRule /\ act'.ruleOn = (reading = "active")
        \/ /\ ~config.rule \/ reading = "none"
           /\ act'.haveRule = act.haveRule /\ act'.ruleOn = act.ruleOn
    BY <1>1, <2>2, TickDecides
  <2>5. on \in BOOLEAN
    <3> DEFINE slack == IF RuledOn THEN Margin(set) ELSE 0
               limit == set.threshold * Scale(set)
               a == sen'.shown >= limit - slack
               b == sen'.shown <= limit + slack
    <3>1. on = IF set.above THEN a ELSE b
      BY DEF Limited
    <3>2. a \in BOOLEAN /\ b \in BOOLEAN
      OBVIOUS
    <3> HIDE DEF a, b
    <3> QED
      BY <3>1, <3>2
  <2> HIDE DEF on
  <2>6. on = (ReadingOf(on) = "active") /\ ReadingOf(on) # "none"
    BY <2>5 DEF ReadingOf
  <2>7. ~config.rule => ~act.haveRule
    BY DEF IInv, DInv, Ruleless
  <2> QED
    BY <2>3, <2>4, <2>6, <2>7 DEF on
<1> QED
  BY <1>2, <1>4, <1>5

LEMMA RulelessTick ==
  ASSUME ActuatorAssumption, IInv, DInv, DeviceTick, ~config.rule
  PROVE  ~act'.haveRule
<1>1. PICK reading \in Reading, open \in BOOLEAN : TickWith(reading, open)
  BY DEF DeviceTick
<1> DEFINE read  == IF reading = "none" THEN act ELSE Read(act, reading = "active")
           ended == EndPulse(Window(read, open))
<1>2. act \in Actuators /\ ~act.haveRule /\ Sound(act) /\ config \in Configs
  BY DEF IInv, TypeOK, DInv, Ruleless
<1>3. read = act
  BY DEF Read
<1>4. act' = Limit(EndPulse(Window(act, open)))
  BY <1>1, <1>3 DEF TickWith
<1>5. Window(act, open) \in Actuators /\ ~Window(act, open).haveRule
  BY <1>2, WindowSound, WindowDecides DEF Sound
<1>6. EndPulse(Window(act, open)) \in Actuators /\ ~EndPulse(Window(act, open)).haveRule
  BY <1>5, EndPulseUnpulsed, EndPulseDecides
<1> QED
  BY <1>4, <1>6, LimitDecides

LEMMA DeviceStepInv == IInv /\ DInv /\ [DeviceNext]_deviceVars => DInv'
<1> SUFFICES ASSUME IInv, DInv, [DeviceNext]_deviceVars PROVE DInv'
  OBVIOUS
<1> USE ActuatorAssumption, SetupsAssumption
<1>1. act \in Actuators /\ sen \in Members /\ set \in Settings /\ world.level \in Int
  BY SetUpTyped DEF IInv, TypeOK, DInv
\* A step that leaves the settings, the members and the decision alone
<1>2. ASSUME UNCHANGED <<config, set>>, sen' \in Members, world'.level \in Int,
             sen'.onAt = sen.onAt, act'.haveRule = act.haveRule, act'.ruleOn = act.ruleOn
      PROVE  DInv'
  BY <1>2 DEF DInv, SetUp, Turned, Numeric, RuledOn, Ruleless
\* A step that forgets the decision
<1>3. ASSUME SetUp', sen' = Unread, world'.level \in Int, ~act'.haveRule
      PROVE  DInv'
  <2>1. sen' \in Members
    BY <1>3 DEF Unread, Members
  <2> QED
    BY <1>3, <2>1 DEF DInv, Turned, RuledOn, Ruleless
<1>4. CASE DeviceCommand
  <2>1. UNCHANGED <<set, sen, world>>
    BY <1>4 DEF DeviceCommand, sensorVars
  <2>2. UNCHANGED config
    BY <1>4 DEF DeviceCommand, CommandAuto, Command
  <2>3. act'.haveRule = act.haveRule /\ act'.ruleOn = act.ruleOn
    BY <1>1, <1>4, CommandDecides DEF DeviceCommand
  <2> QED
    BY <1>1, <1>2, <2>1, <2>2, <2>3
<1>5. CASE DeviceTick
  <2>1. /\ UNCHANGED <<config, set, world>> /\ sen' \in Members
        /\ Numeric =>
             \/ sen'.onAt = sen.onAt /\ act'.haveRule = act.haveRule /\ act'.ruleOn = act.ruleOn
             \/ ~act.haveRule /\ ~act'.haveRule
             \/ LET on == Limited(set, sen'.shown, RuledOn)
                IN  /\ act'.haveRule /\ act'.ruleOn = on
                    /\ sen'.onAt = IF on /\ ~RuledOn THEN sen'.shown ELSE sen.onAt
    BY <1>5, TickMargin
  <2>2. ASSUME Numeric', act'.haveRule, act'.ruleOn
        PROVE  Limited(set, sen'.onAt, FALSE)
    <3>1. Numeric
      BY <2>1, <2>2 DEF Numeric
    <3>2. CASE sen'.onAt = sen.onAt /\ act'.haveRule = act.haveRule /\ act'.ruleOn = act.ruleOn
      BY <2>2, <3>1, <3>2 DEF DInv, Turned, RuledOn
    <3>3. CASE ~RuledOn /\ Limited(set, sen'.shown, RuledOn) /\ sen'.onAt = sen'.shown
      <4>1. RuledOn = FALSE
        BY <3>3 DEF RuledOn, IInv
      <4> QED
        BY <3>3 DEF Limited
    <3>4. CASE RuledOn /\ sen'.onAt = sen.onAt
      BY <3>1, <3>4 DEF DInv, Turned
    <3> QED
      BY <2>1, <2>2, <3>1, <3>2, <3>3, <3>4
  <2>3. SetUp'
    BY <2>1 DEF DInv, SetUp
  <2>4. Turned'
    BY <2>1, <2>2 DEF Turned, RuledOn
  <2>5. Ruleless'
    BY <1>5, <2>1, RulelessTick DEF Ruleless
  <2> QED
    BY <1>1, <2>1, <2>3, <2>4, <2>5 DEF DInv
<1>6. CASE DeviceElapse
  <2>1. UNCHANGED <<config, set, world>>
    BY <1>6 DEF DeviceElapse, Elapse, SensorElapse
  <2>2. act'.haveRule = act.haveRule /\ act'.ruleOn = act.ruleOn
    BY <1>1, <1>6 DEF DeviceElapse, Elapse, Actuators
  <2>3. sen' \in Members /\ sen'.onAt = sen.onAt
    <3> DEFINE held == IF sen.held < DEBOUNCE THEN sen.held + 1 ELSE sen.held
               count == IF set.kind = "pulse" /\ sen.waits
                        THEN Counted(sen.count + world.level) ELSE sen.count
    <3>1. sen' = [sen EXCEPT !.held = held, !.count = count]
      BY <1>6 DEF DeviceElapse, SensorElapse
    <3>2. sen.held \in Int /\ sen.count \in Int
      BY <1>1 DEF Members
    <3>3. held \in Int /\ count \in Int
      BY <1>1, <3>2, SensorAssumption DEF Counted, SensorAssumption
    <3> HIDE DEF held, count
    <3> QED
      BY <1>1, <3>1, <3>3 DEF Members
  <2> QED
    BY <1>1, <1>2, <2>1, <2>2, <2>3
<1>7. CASE DeviceDownload
  <2>1. UNCHANGED <<config, act, set, sen, world>>
    BY <1>7 DEF DeviceDownload, Download, sensorVars
  <2> QED
    BY <1>1, <1>2, <2>1
<1>8. CASE DeviceBoot
  <2>1. sen' = Unread /\ UNCHANGED <<config, set, world>> /\ ~act'.haveRule
    BY <1>8, BeginForgets DEF DeviceBoot, SensorBegin, Boot, Begin
  <2>2. SetUp'
    BY <2>1 DEF DInv, SetUp
  <2> QED
    BY <1>1, <1>3, <2>1, <2>2
<1>9. CASE DeviceConfigure
  <2>1. PICK s \in Setups, file \in {saved, NoFile} :
          /\ Begin(s.config, file) /\ SensorBegin(s.sensor)
          /\ world' = IF s.sensor = set THEN world ELSE CHOOSE w \in Worlds(s.sensor) : TRUE
    BY <1>9 DEF DeviceConfigure
  <2>2. SetUp' /\ sen' = Unread
    BY <2>1 DEF Begin, SensorBegin, SetUp
  <2>3. ~act'.haveRule
    BY <2>1, BeginForgets
  <2>4. world'.level \in Int
    <3> DEFINE w == CHOOSE w \in Worlds(s.sensor) : TRUE
    <3>1. s.sensor.raw \subseteq Int /\ s.sensor.raw # {}
      BY DEF SetupsAssumption, Settings
    <3>2. PICK v \in s.sensor.raw : TRUE
      BY <3>1
    <3>3. [answer |-> "right", level |-> v] \in Worlds(s.sensor)
      BY <3>2 DEF Worlds
    <3>4. w \in Worlds(s.sensor)
      BY <3>3
    <3>5. \A x \in Worlds(s.sensor) : x.level \in Int
      BY <3>1 DEF Worlds
    <3> QED
      BY <1>1, <2>1, <3>4, <3>5
  <2> QED
    BY <1>3, <2>2, <2>3, <2>4
<1>10. CASE Elsewhere
  <2>1. world' \in Worlds(set) /\ UNCHANGED <<set, sen, config, act>>
    BY <1>10 DEF Elsewhere, WorldChanges, vars
  <2>2. \A x \in Worlds(set) : x.level \in Int
    BY SetUpTyped DEF DInv, Worlds
  <2> QED
    BY <1>1, <1>2, <2>1, <2>2
<1>11. CASE UNCHANGED deviceVars
  <2>1. UNCHANGED <<set, sen, world, config, act>>
    BY <1>11 DEF deviceVars, vars, sensorVars
  <2> QED
    BY <1>1, <1>2, <2>1
<1> QED
  BY <1>4, <1>5, <1>6, <1>7, <1>8, <1>9, <1>10, <1>11 DEF DeviceNext

\* "A margin to turn off (hysteresis), so a relay does not chatter": whatever the
\* settings, the unit and the readings, the rule of a numeric sensor turns off only
\* at a reading more than the margin away from the one at which it turned on.
THEOREM MarginKept == DeviceSpec => NoChatter
<1>1. IInv /\ DInv /\ [DeviceNext]_deviceVars =>
        [ set.kind # "digital" /\ ~Proportional(set) /\ RuledOn /\ act'.haveRule /\ ~act'.ruleOn
            => Distance(sen'.shown, sen.onAt) > set.margin * Scale(set) ]_deviceVars
  <2> SUFFICES ASSUME IInv, DInv, DeviceNext, Numeric, RuledOn, act'.haveRule, ~act'.ruleOn
               PROVE  Distance(sen'.shown, sen.onAt) > set.margin * Scale(set)
    BY DEF Numeric
  <2> USE ActuatorAssumption, SetupsAssumption
  <2>1. act \in Actuators
    BY DEF IInv, TypeOK
  <2>2. act'.ruleOn # act.ruleOn
    BY DEF RuledOn
  <2>3. ~DeviceCommand /\ ~DeviceElapse /\ ~DeviceDownload /\ ~Elsewhere
    <3>1. ~DeviceCommand
      BY <2>1, <2>2, CommandDecides DEF DeviceCommand
    <3>2. ~DeviceElapse
      BY <2>1, <2>2 DEF DeviceElapse, Elapse, Actuators
    <3> QED
      BY <2>2, <3>1, <3>2 DEF DeviceDownload, Download, Elsewhere, vars
  <2>4. ~DeviceBoot /\ ~DeviceConfigure
    BY BeginForgets DEF DeviceBoot, DeviceConfigure, Boot
  <2>5. DeviceTick
    BY <2>3, <2>4 DEF DeviceNext
  <2>6. sen' \in Members /\ ~Limited(set, sen'.shown, RuledOn)
    BY <2>2, <2>5, TickMargin DEF RuledOn
  <2>7. Limited(set, sen.onAt, FALSE)
    BY DEF DInv, Turned
  <2> DEFINE a == sen'.shown
             b == sen.onAt
             limit == set.threshold * Scale(set)
             margin == set.margin * Scale(set)
  <2>8. a \in Int /\ b \in Int /\ limit \in Int /\ margin \in Nat
    <3>1. set.threshold \in Int /\ set.margin \in Nat /\ Scale(set) \in {1, 10}
      BY SetUpTyped DEF DInv, Settings, Scale
    <3>2. \A n \in {1, 10} : set.threshold * n \in Int /\ set.margin * n \in Nat
      BY <3>1
    <3> QED
      BY <2>6, <3>1, <3>2 DEF DInv, Members
  <2>9. /\ set.above => ~(a >= limit - margin) /\ b >= limit - 0
        /\ ~set.above => ~(a <= limit + margin) /\ b <= limit + 0
    BY <2>6, <2>7 DEF Limited, Margin
  <2> HIDE DEF a, b, limit, margin
  <2>10. (IF a > b THEN a - b ELSE b - a) > margin
    BY <2>8, <2>9
  <2> QED
    BY <2>10 DEF Distance, a, b, margin
<1> QED
  BY <1>1, DeviceInitInv, DeviceStepInv, DeviceIsActuator, InvariantHolds, PTL
  DEF DeviceSpec, NoChatter

----------------------------------------------------------------------------
(***************************************************************************)
(* The sensor's arithmetic, for every setting and every reading.           *)
(***************************************************************************)

\* A part x of d, of n: C's division stays between nothing and n
LEMMA DivPart ==
  ASSUME NEW n \in Nat, NEW d \in Nat \ {0}, NEW x \in 0..d
  PROVE  (n * x) \div d \in 0..n
<1> DEFINE q == (n * x) \div d
<1>1. n * x \in Nat /\ n * d \in Nat /\ n * x <= n * d
  BY SMT
<1>2. q \in Int /\ q * d <= n * x /\ n * x < q * d + d
  BY <1>1, SMT
<1> HIDE DEF q
<1>3. q >= 0
  <2>1. SUFFICES ASSUME q <= -1 PROVE FALSE
    BY <1>2
  <2>2. q * d <= -d
    BY <1>2, <2>1, SMT
  <2> QED
    BY <1>1, <1>2, <2>2
<1>4. q <= n
  <2>1. SUFFICES ASSUME q >= n + 1 PROVE FALSE
    BY <1>2
  <2>2. q * d >= (n + 1) * d
    BY <1>2, <2>1, SMT
  <2>3. (n + 1) * d = n * d + d
    BY SMT
  <2> QED
    BY <1>1, <1>2, <2>2, <2>3
<1> QED
  BY <1>2, <1>3, <1>4 DEF q

LEMMA QuotPart ==
  ASSUME NEW n \in Int, NEW d \in Nat \ {0}, NEW x \in 0..d
  PROVE  /\ n >= 0 => Quot(n * x, d) \in 0..n
         /\ n <= 0 => Quot(n * x, d) \in n..0
<1>1. ASSUME n >= 0 PROVE Quot(n * x, d) \in 0..n
  <2>1. n * x >= 0
    BY <1>1, SMT
  <2> QED
    BY <1>1, <2>1, DivPart DEF Quot
<1>2. ASSUME n <= 0 PROVE Quot(n * x, d) \in n..0
  <2> DEFINE m == -n
  <2>1. m \in Nat /\ -m = n
    BY <1>2
  <2>2. -(n * x) = m * x /\ n * x <= 0 /\ n * x \in Int
    BY <1>2, SMT
  <2>3. (m * x) \div d \in 0..m
    BY <2>1, DivPart
  <2>4. CASE n * x >= 0
    <3>1. n * x = 0 /\ 0 \div d = 0
      BY <2>2, <2>4, SMT
    <3> QED
      BY <1>2, <2>4, <3>1 DEF Quot
  <2>5. CASE ~(n * x >= 0)
    <3>1. Quot(n * x, d) = -((m * x) \div d)
      BY <2>2, <2>5 DEF Quot
    <3> HIDE DEF m
    <3> QED
      BY <2>1, <2>3, <3>1
  <2> QED
    BY <2>4, <2>5
<1> QED
  BY <1>1, <1>2

\* A larger dividend has no smaller quotient
LEMMA DivGrows ==
  ASSUME NEW a \in Int, NEW b \in Int, NEW d \in Nat \ {0}, a <= b
  PROVE  a \div d <= b \div d
<1> DEFINE p == a \div d
           q == b \div d
<1>1. p \in Int /\ p * d <= a /\ q \in Int /\ b < q * d + d
  BY SMT
<1> HIDE DEF p, q
<1>2. SUFFICES ASSUME p >= q + 1 PROVE FALSE
  BY <1>1 DEF p, q
<1>3. p * d >= (q + 1) * d /\ (q + 1) * d = q * d + d
  BY <1>1, <1>2, SMT
<1> QED
  BY <1>1, <1>3

LEMMA QuotGrows ==
  ASSUME NEW a \in Int, NEW b \in Int, NEW d \in Nat \ {0}, a <= b
  PROVE  Quot(a, d) <= Quot(b, d)
<1>1. a \div d \in Int /\ b \div d \in Int /\ (-a) \div d \in Int /\ (-b) \div d \in Int
  BY SMT
<1>2. a \div d <= b \div d /\ (-b) \div d <= (-a) \div d
  BY DivGrows
<1>3. \A i \in Int : i >= 0 => i \div d >= 0
  BY SMT
<1> QED
  BY <1>1, <1>2, <1>3 DEF Quot

\* The reading's place in the range of a proportional rule
LEMMA DutyParts ==
  ASSUME NEW c \in Settings, NEW v \in Int
  PROVE  /\ c.threshold * Scale(c) \in Int /\ c.thresholdHi * Scale(c) \in Int
         /\ c.dutyOn \in 0..100 /\ c.dutyOff \in 0..100
<1>1. c.threshold \in Int /\ c.thresholdHi \in Int /\ c.dutyOn \in 0..100 /\ c.dutyOff \in 0..100
  BY DEF Settings
<1>2. Scale(c) \in {1, 10}
  BY DEF Scale
<1>3. \A n \in {1, 10} : c.threshold * n \in Int /\ c.thresholdHi * n \in Int
  BY <1>1
<1> QED
  BY <1>1, <1>2, <1>3

\* The level of a proportional rule is between the two levels set, whichever is
\* the higher, so _mapDuty's conversion to uint8_t loses nothing.
THEOREM DutyInside ==
  ASSUME NEW c \in Settings, NEW v \in Int
  PROVE  /\ c.dutyOff <= c.dutyOn => MapDuty(c, v) \in c.dutyOff..c.dutyOn
         /\ c.dutyOn <= c.dutyOff => MapDuty(c, v) \in c.dutyOn..c.dutyOff
<1> DEFINE lo == c.threshold * Scale(c)
           hi == c.thresholdHi * Scale(c)
           on == c.dutyOn
           off == c.dutyOff
           delta == on - off
           part == Quot(delta * (v - lo), hi - lo)
           duty == MapDuty(c, v)
<1>1. lo \in Int /\ hi \in Int /\ on \in Int /\ off \in Int
  BY DutyParts
<1>2. duty = IF hi <= lo THEN (IF v >= lo THEN on ELSE off)
             ELSE IF v <= lo THEN off
             ELSE IF v >= hi THEN on
             ELSE off + part
  BY DEF MapDuty
<1>3. hi > lo /\ v > lo /\ v < hi => /\ delta >= 0 => part \in 0..delta
                                     /\ delta <= 0 => part \in delta..0
  <2> HIDE DEF lo, hi, on, off
  <2> SUFFICES ASSUME hi > lo, v > lo, v < hi
               PROVE  /\ delta >= 0 => part \in 0..delta
                      /\ delta <= 0 => part \in delta..0
    OBVIOUS
  <2>1. delta \in Int /\ hi - lo \in Nat \ {0} /\ v - lo \in 0..(hi - lo)
    BY <1>1
  <2> HIDE DEF delta
  <2> QED
    BY <2>1, QuotPart
<1> HIDE DEF lo, hi, on, off, part, duty
<1>4. /\ off <= on => duty \in off..on
      /\ on <= off => duty \in on..off
  BY <1>1, <1>2, <1>3
<1> QED
  BY <1>4 DEF on, off, duty

\* A higher reading never brings the level back towards dutyOff: as the reading
\* rises the level goes from dutyOff to dutyOn.
THEOREM DutyFollows ==
  ASSUME NEW c \in Settings, NEW v \in Int, NEW w \in Int, v <= w
  PROVE  /\ c.dutyOff <= c.dutyOn => MapDuty(c, v) <= MapDuty(c, w)
         /\ c.dutyOn <= c.dutyOff => MapDuty(c, w) <= MapDuty(c, v)
<1> DEFINE lo == c.threshold * Scale(c)
           hi == c.thresholdHi * Scale(c)
           on == c.dutyOn
           off == c.dutyOff
           delta == on - off
           Part(x) == Quot(delta * (x - lo), hi - lo)
           first == MapDuty(c, v)
           then == MapDuty(c, w)
<1>1. lo \in Int /\ hi \in Int /\ on \in Int /\ off \in Int
  BY DutyParts
<1>2. /\ first = IF hi <= lo THEN (IF v >= lo THEN on ELSE off)
                 ELSE IF v <= lo THEN off
                 ELSE IF v >= hi THEN on
                 ELSE off + Part(v)
      /\ then = IF hi <= lo THEN (IF w >= lo THEN on ELSE off)
                ELSE IF w <= lo THEN off
                ELSE IF w >= hi THEN on
                ELSE off + Part(w)
  BY DEF MapDuty
<1>3. /\ off <= on => first \in off..on /\ then \in off..on
      /\ on <= off => first \in on..off /\ then \in on..off
  BY DutyInside
<1>4. hi > lo /\ v > lo /\ w < hi =>
        /\ Part(v) \in Int /\ Part(w) \in Int
        /\ delta >= 0 => Part(v) <= Part(w)
        /\ delta <= 0 => Part(w) <= Part(v)
  <2> HIDE DEF lo, hi, on, off
  <2> SUFFICES ASSUME hi > lo, v > lo, w < hi
               PROVE  /\ Part(v) \in Int /\ Part(w) \in Int
                      /\ delta >= 0 => Part(v) <= Part(w)
                      /\ delta <= 0 => Part(w) <= Part(v)
    OBVIOUS
  <2> DEFINE x == v - lo
             y == w - lo
             d == hi - lo
  <2>1. delta \in Int /\ d \in Nat \ {0} /\ x \in Int /\ y \in Int /\ x <= y
    BY <1>1
  <2> HIDE DEF delta, x, y, d
  <2>2. delta * x \in Int /\ delta * y \in Int
    BY <2>1, SMT
  <2>3. /\ delta >= 0 => delta * x <= delta * y
        /\ delta <= 0 => delta * y <= delta * x
    BY <2>1, SMT
  <2>4. Quot(delta * x, d) \in Int /\ Quot(delta * y, d) \in Int
    BY <2>1, <2>2, QuotTyped
  <2>5. /\ delta >= 0 => Quot(delta * x, d) <= Quot(delta * y, d)
        /\ delta <= 0 => Quot(delta * y, d) <= Quot(delta * x, d)
    BY <2>1, <2>2, <2>3, QuotGrows
  <2> QED
    BY <2>4, <2>5 DEF x, y, d
<1> HIDE DEF lo, hi, on, off, Part, first, then
<1>5. /\ off <= on => first <= then
      /\ on <= off => then <= first
  BY <1>1, <1>2, <1>3, <1>4
<1> QED
  BY <1>5 DEF on, off, first, then

\* What a full tank reads, in percent or in litres
FullTank(c) == IF c.unit = 1 THEN 100 ELSE c.tankL

LEMMA TankBounds ==
  ASSUME NEW c \in Settings, NEW v \in Int
  PROVE  /\ Tank(c, v) \in 0..FullTank(c)
         /\ c.tankEmpty <= c.tankFull => Tank(c, v) = 0
<1> DEFINE span == c.tankEmpty - c.tankFull
           full == FullTank(c)
           x == Quot((c.tankEmpty - v) * full, span)
<1>1. /\ span \in Int /\ full \in Nat /\ (c.tankEmpty - v) \in Int
      /\ c.tankEmpty <= c.tankFull => span <= 0
  BY DEF Settings, FullTank
<1>2. Tank(c, v) = IF span <= 0 THEN 0 ELSE IF x < 0 THEN 0 ELSE IF x > full THEN full ELSE x
  BY DEF Tank, FullTank
<1> HIDE DEF span, full
<1>3. span > 0 => x \in Int
  <2> SUFFICES ASSUME span > 0 PROVE x \in Int
    OBVIOUS
  <2>1. span \in Nat \ {0} /\ (c.tankEmpty - v) * full \in Int
    BY <1>1
  <2> QED
    BY <2>1, QuotTyped
<1> HIDE DEF x
<1>4. Tank(c, v) \in 0..full
  BY <1>1, <1>2, <1>3
<1> QED
  BY <1>1, <1>2, <1>4 DEF full

LEMMA FlowBounds ==
  ASSUME NEW c \in Settings, NEW v \in Nat
  PROVE  Flow(c, v) \in Nat /\ Flow(c, v) <= 32767
<1> DEFINE k == IF c.unit = 1 THEN 60 ELSE 6000
           f == Quot(v * k, c.ppl)
<1>1. Flow(c, v) = IF c.ppl = 0 THEN 0 ELSE IF f > 32767 THEN 32767 ELSE f
  BY DEF Flow
<1>2. k \in Nat /\ c.ppl \in Nat
  BY DEF Settings
<1> HIDE DEF k
<1>3. c.ppl # 0 => f \in Nat
  <2> SUFFICES ASSUME c.ppl # 0 PROVE f \in Nat
    OBVIOUS
  <2>1. v * k \in Nat /\ c.ppl \in Nat \ {0}
    BY <1>2, SMT
  <2>2. (v * k) \div c.ppl \in Nat
    BY <2>1, SMT
  <2> QED
    BY <2>1, <2>2 DEF Quot
<1> HIDE DEF f
<1> QED
  BY <1>1, <1>2, <1>3

\* A tank reads from empty to full, in percent or litres, whatever distance is
\* measured; a flow fits the text's int16_t; and a hand-edited file with a tank of no
\* height, or a meter of no pulses per litre, reads 0.
THEOREM UnitBounds ==
  ASSUME NEW c \in Settings, NEW v \in Nat, c.unit # 0
  PROVE  /\ c.kind = "range" => InUnit(c, v) \in 0..FullTank(c)
         /\ c.kind = "range" /\ c.tankEmpty <= c.tankFull => InUnit(c, v) = 0
         /\ c.kind = "pulse" => InUnit(c, v) \in Nat /\ InUnit(c, v) <= 32767
         /\ c.kind = "pulse" /\ c.ppl = 0 => InUnit(c, v) = 0
<1>1. c.kind = "range" => InUnit(c, v) = Tank(c, v)
  BY DEF InUnit
<1>2. c.kind = "pulse" => InUnit(c, v) = Flow(c, v)
  BY DEF InUnit
<1>3. c.ppl = 0 => Flow(c, v) = 0
  BY DEF Flow
<1>4. /\ Tank(c, v) \in 0..FullTank(c)
      /\ c.tankEmpty <= c.tankFull => Tank(c, v) = 0
  <2>1. v \in Int
    OBVIOUS
  <2> QED
    BY <2>1, TankBounds
<1>5. Flow(c, v) \in Nat /\ Flow(c, v) <= 32767
  BY FlowBounds
<1>6. CASE c.kind = "range"
  <2>1. InUnit(c, v) = Tank(c, v) /\ c.kind # "pulse"
    BY <1>1, <1>6
  <2> QED
    BY <1>4, <2>1
<1>7. CASE c.kind = "pulse"
  <2>1. InUnit(c, v) = Flow(c, v) /\ c.kind # "range"
    BY <1>2, <1>7
  <2> QED
    BY <1>3, <1>5, <2>1
<1> QED
  BY <1>6, <1>7
=============================================================================
