----------------------------- MODULE IoTSensor ------------------------------
(***************************************************************************)
(* src/IoTService.h: the sensor, from the pin to the rule's decision. A    *)
(* digital one is debounced; a DHT is woken on one tick and read on a      *)
(* later one, if the loop is not late; a DS18B20 and the I2C sensors       *)
(* convert meanwhile; a distance is read at once; pulses are counted by an *)
(* interrupt over a window.                                                *)
(***************************************************************************)
EXTENDS Integers

CONSTANTS
  DEBOUNCE,   \* DEBOUNCE_MS, in units of the actuator's clock
  MAX_COUNT   \* bound: pulses counted in one window

ASSUME SensorAssumption == DEBOUNCE \in Nat \ {0} /\ MAX_COUNT \in Nat

Kinds == {"digital", "dht", "converts", "lux", "range", "pulse"}

\* The sensor's fields of IoTConfig (linear only for an actuator with levels), and
\* raw: what it may be held against (the pin's level, tenths of a degree or of
\* humidity, cm, lx, pulses in a unit of time)
Settings == [kind : Kinds, high : {0, 1}, unit : 0..2, temperature : BOOLEAN,
             above : BOOLEAN, threshold : Int, margin : Nat,
             linear : BOOLEAN, thresholdHi : Int, dutyOn : 0..100, dutyOff : 0..100,
             tankEmpty : Nat, tankFull : Nat, tankL : Nat, ppl : Nat,
             raw : SUBSET Int]

VARIABLES
  set,     \* the sensor's part of _r
  sen,     \* the sensor's members of IoTService
  world    \* what the sensor would measure now, and whether it answers

sensorVars == <<set, sen, world>>

\* held: how long the pin has had the candidate's level; waits: _dhtWaking, OW_WAIT
\* or _windowOpen; count: _pulses; shown: the reading in its text; onAt is history:
\* the reading at which the rule last turned on
Unread == [seen |-> FALSE, candidate |-> 1, held |-> 0, stable |-> 1, have |-> FALSE,
           failing |-> FALSE, waits |-> FALSE, count |-> 0, shown |-> 0, onAt |-> 0]

\* A DHT's loop may come late to its pulse; any but a pin may not answer
Troubles(c) == CASE c.kind = "dht" -> {"mute", "late"}
                 [] c.kind \in {"converts", "lux", "range"} -> {"mute"}
                 [] OTHER -> {}

Worlds(c) == [answer : {"right"}, level : c.raw] \cup [answer : Troubles(c), level : {0}]

----------------------------------------------------------------------------
\* The reading in the unit of the IoT page.

Quot(a, b) == IF a >= 0 THEN a \div b ELSE -((-a) \div b)   \* C's division

Deg(c, v) == IF c.unit = 1 THEN Quot(v * 9, 5) + 320 ELSE v

Tank(c, v) ==
  LET span == c.tankEmpty - c.tankFull
      full == IF c.unit = 1 THEN 100 ELSE c.tankL
      x == Quot((c.tankEmpty - v) * full, span)
  IN  IF span <= 0 THEN 0 ELSE IF x < 0 THEN 0 ELSE IF x > full THEN full ELSE x

Flow(c, v) ==
  LET f == Quot(v * (IF c.unit = 1 THEN 60 ELSE 6000), c.ppl)
  IN  IF c.ppl = 0 THEN 0 ELSE IF f > 32767 THEN 32767 ELSE f

InUnit(c, v) ==
  CASE c.kind = "range" /\ c.unit # 0 -> Tank(c, v)
    [] c.kind = "pulse" /\ c.unit # 0 -> Flow(c, v)
    [] c.kind \in {"dht", "converts"} /\ c.temperature -> Deg(c, v)
    [] OTHER -> v

\* Temperatures, humidities and L/min come in tenths
Tenths(c) == \/ c.kind \in {"dht", "converts"}
             \/ c.kind = "pulse" /\ c.unit = 1 /\ c.ppl # 0
Scale(c) == IF Tenths(c) THEN 10 ELSE 1

----------------------------------------------------------------------------
\* The rule's decision.

Proportional(c) == c.linear /\ c.kind # "digital"

MapDuty(c, v) ==
  LET lo == c.threshold * Scale(c)
      hi == c.thresholdHi * Scale(c)
  IN  IF hi <= lo THEN (IF v >= lo THEN c.dutyOn ELSE c.dutyOff)
      ELSE IF v <= lo THEN c.dutyOff
      ELSE IF v >= hi THEN c.dutyOn
      ELSE c.dutyOff + Quot((c.dutyOn - c.dutyOff) * (v - lo), hi - lo)

\* Mutant: the margin is not brought to the scale of the reading
BareMargin(c) == c.margin
Margin(c) == c.margin * Scale(c)

Limited(c, v, on) ==
  LET limit == c.threshold * Scale(c)
      slack == IF on THEN Margin(c) ELSE 0
  IN  IF c.above THEN v >= limit - slack ELSE v <= limit + slack

\* on: the rule has decided before, and for on
Decides(c, v, on) == IF Proportional(c) THEN MapDuty(c, v) # c.dutyOff ELSE Limited(c, v, on)

----------------------------------------------------------------------------
\* One tick of the sensor. "none" is a tick without a reading.

ReadingOf(active) == IF active THEN "active" ELSE "inactive"

Fails(reading) == reading = "none" /\ sen' = [sen EXCEPT !.failing = TRUE, !.waits = FALSE]

\* _accept, with s the members after the measurement; decided: the rule has decided before
Accepts(s, v, decided, reading) ==
  LET shown == InUnit(set, v)
      on == Decides(set, shown, decided)
  IN  /\ reading = ReadingOf(on)
      /\ sen' = [s EXCEPT !.have = TRUE, !.failing = FALSE, !.shown = shown,
                          !.onAt = IF on /\ ~decided THEN shown ELSE @]

\* Mutant: the first level read is the last one
ReadOnce(pin) == sen.have
Known(pin) == sen.have /\ pin = sen.stable

TickDigital(reading) ==
  LET pin == world.level
      new == ~sen.seen \/ pin # sen.candidate
      known == Known(pin) \/ sen.held < DEBOUNCE
  IN  \/ /\ new /\ reading = "none"
         /\ sen' = [sen EXCEPT !.seen = TRUE, !.candidate = pin, !.held = 0]
      \/ ~new /\ known /\ reading = "none" /\ UNCHANGED sen
      \/ /\ ~new /\ ~known /\ reading = ReadingOf(pin = set.high)
         /\ sen' = [sen EXCEPT !.stable = pin, !.have = TRUE]

\* The pin is held low and released on a tick in the window; a tick too late holds
\* it low again. Reading fails when the sensor or the checksum does.
TickDht(decided, reading) ==
  IF ~sen.waits THEN reading = "none" /\ sen' = [sen EXCEPT !.waits = TRUE]
  ELSE IF world.answer = "late" THEN reading = "none" /\ UNCHANGED sen
  ELSE IF world.answer = "mute" THEN Fails(reading)
  ELSE Accepts([sen EXCEPT !.waits = FALSE], world.level, decided, reading)

\* A conversion is asked for on one tick and read on a later one; both may fail.
TickConverts(decided, reading) ==
  IF world.answer = "mute" THEN Fails(reading)
  ELSE IF ~sen.waits THEN reading = "none" /\ sen' = [sen EXCEPT !.waits = TRUE]
  ELSE Accepts([sen EXCEPT !.waits = FALSE], world.level, decided, reading)

TickRange(decided, reading) ==
  IF world.answer = "mute" THEN Fails(reading) ELSE Accepts(sen, world.level, decided, reading)

\* The count of the window that ends here, and the next window
TickPulse(decided, reading) ==
  IF ~sen.waits THEN reading = "none" /\ sen' = [sen EXCEPT !.waits = TRUE, !.count = 0]
  ELSE Accepts([sen EXCEPT !.count = 0], sen.count, decided, reading)

TickSensor(decided, reading) ==
  CASE set.kind = "digital" -> TickDigital(reading)
    [] set.kind = "dht" -> TickDht(decided, reading)
    [] set.kind \in {"converts", "lux"} -> TickConverts(decided, reading)
    [] set.kind = "range" -> TickRange(decided, reading)
    [] set.kind = "pulse" -> TickPulse(decided, reading)

----------------------------------------------------------------------------
\* begin(): the sensor's members are cleared.
SensorBegin(c) == set' = c /\ sen' = Unread

\* Time: the pin is held, and the interrupt counts, also while nothing ticks.
Counted(n) == IF n > MAX_COUNT THEN MAX_COUNT ELSE n

SensorElapse ==
  /\ sen' = [sen EXCEPT !.held = IF @ < DEBOUNCE THEN @ + 1 ELSE @,
                         !.count = IF set.kind = "pulse" /\ sen.waits
                                   THEN Counted(@ + world.level) ELSE @]
  /\ UNCHANGED <<set, world>>

WorldChanges == world' \in Worlds(set) /\ UNCHANGED <<set, sen>>
=============================================================================
