--------------------------- MODULE MCSensorAccess ---------------------------
(***************************************************************************)
(* Instances of SensorAccess for TLC.                                      *)
(***************************************************************************)
EXTENDS SensorAccess

MCBudgets == 0 .. 2
=============================================================================
