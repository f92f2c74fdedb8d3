--------------------------- MODULE MCReceiveLoop ----------------------------
(***************************************************************************)
(* Instances of ReceiveLoop for TLC.                                       *)
(***************************************************************************)
EXTENDS ReceiveLoop

\* Every way a packet can end the stream.
MCFailures ==
    { [frame |-> 0, line |-> n, data |-> Black, fits |-> b] :
        n \in {LINENO_ERR, LINENO_OVF, LINENO_ABORT, Rows}, b \in BOOLEAN }
=============================================================================
