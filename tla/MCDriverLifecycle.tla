------------------------- MODULE MCDriverLifecycle --------------------------
(***************************************************************************)
(* Instances of DriverLifecycle for TLC.  The bounds on runs and jobs are  *)
(* given in the .cfg files.                                                *)
(***************************************************************************)
EXTENDS DriverLifecycle
=============================================================================
