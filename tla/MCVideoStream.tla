--------------------------- MODULE MCVideoStream ----------------------------
(***************************************************************************)
(* Instances of VideoStream for TLC.                                       *)
(***************************************************************************)
EXTENDS VideoStream

\* A camera that another client has set to another resolution.
MCMisfit == { p \in FailurePackets : ~p.fits /\ p.line = Rows }

MCNoFailures == {}
=============================================================================
