---------------------------- MODULE MCIoTDevice -----------------------------
(* IoTDevice for TLC.                                                        *)
EXTENDS IoTDevice

All == [rule |-> TRUE, toggle |-> FALSE, window |-> TRUE, restore |-> TRUE, limit |-> TRUE]
Plain == [All EXCEPT !.window = FALSE, !.limit = FALSE]

Pin == [kind |-> "digital", high |-> 0, unit |-> 0, temperature |-> FALSE, above |-> TRUE,
        threshold |-> 0, margin |-> 0, linear |-> FALSE, thresholdHi |-> 0, dutyOn |-> 100,
        dutyOff |-> 0, tankEmpty |-> 0, tankFull |-> 0, tankL |-> 0, ppl |-> 0, raw |-> {0, 1}]

\* 75 F with a margin of 2 F, from tenths of a degree Celsius
Fahrenheit == [Pin EXCEPT !.kind = "dht", !.temperature = TRUE, !.unit = 1, !.threshold = 75,
                          !.margin = 2, !.raw = {220, 237, 239}]
\* From 20 to 30 C in proportion
Fan == [Pin EXCEPT !.kind = "converts", !.temperature = TRUE, !.linear = TRUE,
                   !.threshold = 20, !.thresholdHi = 30, !.raw = {195, 205}]
\* Fill below 30 % of a tank, with a margin of 5 %, from cm to the water
Filling == [Pin EXCEPT !.kind = "range", !.unit = 1, !.above = FALSE, !.threshold = 30,
                       !.margin = 5, !.tankEmpty = 100, !.tankFull = 20, !.raw = {30, 74, 90}]
\* 5 L/min with a margin of 1, from pulses in 10 s of a meter of 450 to the litre
Flowing == [Pin EXCEPT !.kind = "pulse", !.unit = 1, !.threshold = 5, !.margin = 1, !.ppl = 450,
                       !.raw = {0, 400}]

Setup(c, s, on, off) == [config |-> c, sensor |-> s, on |-> on, off |-> off]

MCSetups ==
  { Setup(All, Pin, {0}, {1}),
    Setup([All EXCEPT !.toggle = TRUE], Pin, {}, {}),
    Setup([All EXCEPT !.rule = FALSE], [Pin EXCEPT !.raw = {1}], {}, {}),
    Setup(Plain, Fahrenheit, {239}, {220}),
    Setup(Plain, Fan, {205}, {195}),
    Setup(Plain, Filling, {90}, {30}),
    Setup(Plain, Flowing, {400}, {0}) }
=============================================================================
