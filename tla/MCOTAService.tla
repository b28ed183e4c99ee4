---------------------------- MODULE MCOTAService ----------------------------
(* OTAService for TLC.                                                       *)
EXTENDS OTAService
=============================================================================
