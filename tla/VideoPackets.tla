---------------------------- MODULE VideoPackets ----------------------------
(***************************************************************************)
(* The video packets exchanged by the camera firmware (or the simulator)   *)
(* and the host library: one packet per image row, an optional XOR row and *)
(* an end-of-frame packet (ipcam_packet.h).                                *)
(*                                                                         *)
(* The pixels of a row are a vector over GF(2), represented as the set of  *)
(* its non-zero coordinates.  A row of the imager contributes one          *)
(* coordinate of its own, <<frame, row>>, so two different rows are        *)
(* independent vectors and every combination of rows is distinguishable.   *)
(***************************************************************************)
EXTENDS Integers, FiniteSets

CONSTANTS Rows,       \* rows in a frame (vert_resolution, the height)
          FrameMod    \* the host compares frame numbers modulo 2^16

ASSUME RowsAssumption == Rows \in 1..1008
ASSUME FrameModAssumption == FrameMod \in Nat \ {0, 1}

Lines == 0 .. Rows - 1

(***************************************************************************)
(* Reserved values of the 16 bit line number field.  IMAGER_LINENO_SHORT   *)
(* is written by the library into its own copy and never sent.             *)
(***************************************************************************)
LINENO_EOF   == 65535
LINENO_ERR   == 65534
LINENO_OVF   == 65533
LINENO_ABORT == 65532
LINENO_XOR   == 65530

\* LINE_NUMBER_MASK keeps the low ten bits; the six above hold frame bits.
MaskLine(field) == field % 1024
LineField(frame, line, withFrameBits) ==
    IF withFrameBits THEN line + 1024 * (frame % 64) ELSE line

Black == {}
Xor(a, b) == (a \ b) \cup (b \ a)

\* The XOR of the rows S of buf: the coordinates an odd number of them hold.
XorOfRows(buf, S) ==
    { px \in UNION { buf[l] : l \in S } :
        Cardinality({ l \in S : px \in buf[l] }) % 2 = 1 }

(***************************************************************************)
(* A packet: its frame number, its line number field, its payload, and     *)
(* whether the resolution in its header is the one the receiver expects.   *)
(***************************************************************************)
Packet(frame, line, data) ==
    [frame |-> frame % FrameMod, line |-> line, data |-> data, fits |-> TRUE]
=============================================================================
