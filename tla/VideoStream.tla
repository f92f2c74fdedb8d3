---------------------------- MODULE VideoStream -----------------------------
(***************************************************************************)
(* The video path: the camera (VideoSource), a network that keeps the      *)
(* order of the packets and loses some of them, and the reassembly loop of *)
(* the host library (VidReceive).                                          *)
(***************************************************************************)
EXTENDS VideoSource, VidReceive

CONSTANTS MaxLost,   \* bound: packets lost
          Failures   \* packets that end the stream: subset of FailurePackets

FailurePackets ==
    { [frame |-> 0, line |-> n, data |-> Black, fits |-> b] :
        n \in {LINENO_ERR, LINENO_OVF, LINENO_ABORT, Rows}, b \in BOOLEAN }

ASSUME FailuresAssumption == Failures \subseteq FailurePackets
(***************************************************************************)
(* Fewer frames are missing in a row than half of the frame numbers: the   *)
(* aborted ones, the one whose EOF is lost, and the others, which lose     *)
(* every packet.  (The driver's signed difference, and the host that       *)
(* compares numbers for equality, cannot tell more.)                       *)
(***************************************************************************)
ASSUME AliasAssumption ==
    MaxLost \in Nat /\ MaxAborts + 1 + MaxLost \div (Rows + 1) <= (FrameMod - 1) \div 2

VARIABLES lost,      \* <<frame, line field>> of the packets lost (history)
          delivered, \* frames handed over complete and intact (history)
          handed     \* the last frame handed over, or -1 (history)

history == <<lost, delivered, handed>>
vars == <<srcVars, hostVars, history>>

Init ==
    /\ SrcInit
    /\ HostInit
    /\ lost = {}
    /\ delivered = {}
    /\ handed = -1

Camera == SrcNext /\ UNCHANGED <<hostVars, history>>

\* The network drops the oldest packet in flight.
Lose ==
    /\ net # <<>>
    /\ Cardinality(lost) < MaxLost
    /\ lost' = lost \cup {<<Head(net).origin, Head(net).pkt.line>>}
    /\ net' = Tail(net)
    /\ UNCHANGED <<frame_number, exposure, line_number, xorram, aborted, hostVars, delivered, handed>>

(***************************************************************************)
(* A serious failure: the camera announces one (ERR, OVF, ABORT), or it is *)
(* reconfigured by another client and its packets no longer fit, or its    *)
(* row numbers are out of range.                                           *)
(***************************************************************************)
Fail ==
    /\ Len(net) < NetCapacity
    /\ \A i \in DOMAIN net : net[i].pkt \notin Failures
    /\ \E p \in Failures :
          net' = Append(net, [pkt |-> [p EXCEPT !.frame = frame_number % FrameMod],
                              origin |-> frame_number])
    /\ UNCHANGED <<frame_number, exposure, line_number, xorram, aborted, hostVars, history>>

Image(f) == [l \in Lines |-> Row(f, l)]
Complete(r) == r.eof /\ ~r.shortFrame

(***************************************************************************)
(* The driver keeps the difference of two frame numbers as a signed 16 bit *)
(* number (frame_delta): the frame that a number means after frame f.      *)
(***************************************************************************)
FrameAfter(f, number) ==
    LET delta == (number - f) % FrameMod
    IN  f + (IF delta <= (FrameMod - 1) \div 2 THEN delta ELSE delta - FrameMod)

Deliver ==
    /\ net # <<>>
    /\ LET p == Head(net).pkt
           f == Head(net).origin
           ends == p.line = LINENO_EOF /\ p.fits /\ ~OfAnotherFrame(p)
       IN  /\ Receive(p)
           /\ handed' = IF EndsFrame(p) THEN FrameAfter(handed, report'.frame_number) ELSE handed
           /\ delivered' = IF ends /\ Complete(report') /\ report'.frame_buf = Image(f)
                           THEN delivered \cup {f} ELSE delivered
    /\ net' = Tail(net)
    /\ UNCHANGED <<frame_number, exposure, line_number, xorram, aborted, lost>>

\* One second without a packet; any call may have left its errno.
Silence ==
    /\ net = <<>>
    /\ \E errno \in {"EINTR", "other"} : Timeout(errno)
    /\ UNCHANGED <<srcVars, history>>

HostBreaks == SocketError /\ UNCHANGED <<srcVars, history>>

\* The handler may end the reception whenever it is called, so that a request
\* to stop it adds no behaviour here: ReceiveLoop is about that.
Next == Camera \/ Lose \/ Fail \/ Deliver \/ Silence \/ HostBreaks

Spec == Init /\ [][Next]_vars

-----------------------------------------------------------------------------
Frames == 0 .. MaxFrame
LostOf(f) == { x \in lost : x[1] = f }
LostRows(f) == { l \in Lines : <<f, LineField(f, l, FrameBits)>> \in lost }
\* The frames the last report can be about.
Reported == { f \in Frames : f % FrameMod = report.frame_number }

TypeOK ==
    /\ frame_number \in 0 .. MaxFrame + 1
    /\ exposure \in -1 .. MaxFrame
    /\ line_number \in -1 .. Rows - 1
    /\ aborted \subseteq Frames
    /\ frame.lineCount \in 0 .. Rows + 1
    /\ frame.lastMissingLine \in -1 .. Rows - 2
    /\ frame.missingLines \in 0 .. Rows - 1
    /\ frame.frame_number \in 0 .. FrameMod - 1
    /\ status \in {"receiving", "done"}
    /\ return_value \in {-1, 0, 1, LINENO_ERR, LINENO_OVF}
    /\ Len(net) <= NetCapacity
    /\ delivered \subseteq Frames

(***************************************************************************)
(* No frame shows rows of another frame: whatever was lost, every row of   *)
(* the buffer given to the handler, the repaired one excepted, is black or *)
(* the row of that number of one and the same frame (the frame number      *)
(* check, the carry-over after a lost EOF and the clearing of the buffer   *)
(* together).                                                              *)
(***************************************************************************)
NoFrameMixing ==
    report # NoReport =>
      \E f \in Reported : \A l \in Lines :
          \/ report.frame_buf[l] \in {Black, Row(f, l)}
          \/ report.repaired /\ l = report.lastMissingLine

(***************************************************************************)
(* A frame handed over as complete is the image the camera took, as long   *)
(* as a repaired row was neither the first nor the last of the frame: the  *)
(* XOR row of the camera and the repair of the host agree.                 *)
(***************************************************************************)
CompleteIsIntact ==
    Complete(report) =>
      \E f \in Reported :
          \/ report.frame_buf = Image(f)
          \/ report.repaired /\ LostRows(f) \cap {0, Rows - 1} # {}

(***************************************************************************)
(* The driver adds missingLines of a short frame to its count of dropped   *)
(* packets: it is the number of rows of that frame the network lost.       *)
(***************************************************************************)
ShortFramesCounted ==
    (report.eof /\ report.shortFrame) =>
      \E f \in Reported : report.missingLines = Cardinality(LostRows(f))

(***************************************************************************)
(* What can be delivered is delivered: a finished frame that lost nothing, *)
(* only its XOR row, or (when the camera sends the XOR row) one row that   *)
(* is neither first nor last, reaches the handler intact whatever happened *)
(* to the frames around it.                                                *)
(***************************************************************************)
Recoverable(f) ==
    \/ LostOf(f) \subseteq {<<f, LINENO_XOR>>}
    \/ /\ SendXor
       /\ \E l \in 1 .. Rows - 2 : LostOf(f) = {<<f, LineField(f, l, FrameBits)>>}

RecoverableDelivered ==
    \A f \in Frames :
      (/\ status = "receiving"
       /\ f < frame_number
       /\ f \notin aborted
       /\ \A i \in DOMAIN net : net[i].origin # f
       /\ Recoverable(f)) => f \in delivered

(***************************************************************************)
(* Successive reports move forward: the 16 bit difference of their frame   *)
(* numbers, which the driver reads as a signed number, is positive, so no  *)
(* frame is reported twice and none goes back, across the wrap-around too. *)
(***************************************************************************)
NumbersAdvance ==
    [][ (report # NoReport /\ report' # report) =>
          (report'.frame_number - report.frame_number) % FrameMod
              \in 1 .. (FrameMod - 1) \div 2 ]_report

(***************************************************************************)
(* The repair writes inside the frame buffer (the comment in the code:     *)
(* "reconstruct the missing line by XORing the frame's XOR line with every *)
(* other line in the frame").                                              *)
(***************************************************************************)
RepairStaysInBuffer == report.repaired => report.lastMissingLine \in Lines

(***************************************************************************)
(* Camera, network and reassembly together are a channel of frames.  What  *)
(* the receiver is shown, and which frame it takes it for, is read off the *)
(* calls of the handler: the buffer, the flags and the 16 bit numbers,     *)
(* counted on as the driver does.  So these numbers must tell the images   *)
(* apart across the wrap-around, frames lost as a whole, lost ends and     *)
(* frames that the camera cut short.                                       *)
(***************************************************************************)
Channel == INSTANCE FrameChannel WITH
               produced <- frame_number, picture <- report.frame_buf,
               whole <- Complete(report) /\ ~report.repaired
ImplementsChannel == Channel!Spec
=============================================================================
