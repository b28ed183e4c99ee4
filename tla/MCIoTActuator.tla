--------------------------- MODULE MCIoTActuator ----------------------------
(* IoTActuator for TLC.                                                      *)
EXTENDS IoTActuator
=============================================================================
