---------------------------- MODULE VideoSource -----------------------------
(***************************************************************************)
(* The sending side of the video stream: mt9v-live, capture and nextframe  *)
(* of the firmware (mt9v.fs), with the packets of the simulator as a       *)
(* second configuration (wge100_sim.cc: FrameBits and no XOR row).         *)
(*                                                                         *)
(* The pixel FIFO is reset by the hardware at every frame start and the    *)
(* main loop polls it faster than a row arrives, so a frame start and its  *)
(* detection are one step and a row read from the FIFO belongs to the      *)
(* frame the imager is sending.                                            *)
(***************************************************************************)
EXTENDS VideoPackets, Sequences

CONSTANTS FrameBits,    \* does the line number field carry frame bits?
          SendXor,      \* DO-XORLINE of the firmware build
          MaxFrame,     \* bound: frame_number stays at most MaxFrame
          MaxAborts,    \* bound: frames cut short inside the camera
          NetCapacity   \* bound: packets in flight

\* The firmware sends no frame bits, the simulator no XOR row.
ASSUME BuildAssumption == {FrameBits, SendXor} \subseteq BOOLEAN /\ ~(FrameBits /\ SendXor)
ASSUME SourceAssumption == {MaxFrame, MaxAborts, NetCapacity} \subseteq Nat

VARIABLES frame_number, \* number of the current (or next) frame, not wrapped
          exposure,     \* images the imager has begun so far, less one
          line_number,  \* next row to send, or -1 when not in a frame
          xorram,       \* contents of the hardware XOR row
          aborted,      \* frames that were cut short (history)
          net           \* packets in flight, oldest first

srcVars == <<frame_number, exposure, line_number, xorram, aborted, net>>

inframe == line_number # -1

(***************************************************************************)
(* mt9v-vidstart: frame number 0, not in a frame.                          *)
(***************************************************************************)
SrcInit ==
    /\ frame_number = 0
    /\ exposure = -1
    /\ line_number = -1
    /\ xorram = Black
    /\ aborted = {}
    /\ net = <<>>

(***************************************************************************)
(* What the imager delivers as row l of image f.  The images count the     *)
(* rises of frame_valid, whatever number the firmware gives a frame.       *)
(***************************************************************************)
Row(f, l) == {<<f, l>>}

\* Every packet in flight remembers its frame, which only the history uses.
Sent(f, line, data) == [pkt |-> Packet(f, line, data), origin |-> f]

\* xorline-erase, and the fault of leaving it out.
NotErased == xorram
Erased == Black

\* nextframe, and the fault of keeping the number.
SameNumber == frame_number
NextNumber == frame_number + 1

\* A frame that is abandoned takes its number with it.
NumberAbandoned == NextNumber

(***************************************************************************)
(* A rising frame_valid.  A frame still open is abandoned without an       *)
(* end-of-frame packet ("frame in frame"); the XOR row is erased.          *)
(***************************************************************************)
FrameStart ==
    /\ frame_number < MaxFrame
    /\ IF inframe
       THEN /\ Cardinality(aborted) < MaxAborts
            /\ frame_number' = NumberAbandoned
            /\ aborted' = aborted \cup {frame_number}
       ELSE UNCHANGED <<frame_number, aborted>>
    /\ exposure' = exposure + 1
    /\ line_number' = 0
    /\ xorram' = Erased
    /\ UNCHANGED net

(***************************************************************************)
(* The FIFO was found full: nextframe, and again no end-of-frame packet.   *)
(***************************************************************************)
Overflow ==
    /\ inframe
    /\ Cardinality(aborted) < MaxAborts
    /\ line_number' = -1
    /\ frame_number' = NumberAbandoned
    /\ aborted' = aborted \cup {frame_number}
    /\ UNCHANGED <<exposure, xorram, net>>

\* The row of the imager under the number of the frame.
RowPacket(f, l, data) == Sent(f, LineField(f, l, FrameBits), data)

\* What follows the last row: the XOR row when the build has it, then EOF.
Trailer(f, xor) ==
    (IF SendXor THEN <<Sent(f, LINENO_XOR, xor)>> ELSE <<>>)
        \o <<Sent(f, LINENO_EOF, Black)>>

(***************************************************************************)
(* One round of the loop in capture: a row was in the FIFO and is sent     *)
(* while the hardware adds it to the XOR row; after the last row the XOR   *)
(* row and the end-of-frame packet follow and the frame is closed.         *)
(***************************************************************************)
SendLine ==
    /\ inframe
    /\ Len(net) + 3 <= NetCapacity
    /\ LET data == Row(exposure, line_number)
           xor  == Xor(xorram, data)
           row  == <<RowPacket(frame_number, line_number, data)>>
           last == line_number + 1 = Rows
       IN  /\ xorram' = xor
           /\ net' = net \o row \o (IF last THEN Trailer(frame_number, xor) ELSE <<>>)
           /\ line_number' = IF last THEN -1 ELSE line_number + 1
           /\ frame_number' = IF last THEN NextNumber ELSE frame_number
    /\ UNCHANGED <<exposure, aborted>>

SrcNext == FrameStart \/ Overflow \/ SendLine
=============================================================================
