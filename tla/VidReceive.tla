----------------------------- MODULE VidReceive -----------------------------
(***************************************************************************)
(* wge100VidReceiveSocket (wge100lib.c): the loop that reassembles frames  *)
(* from video packets and hands them to the frame handler.  One action     *)
(* handles one packet completely, including the call of the handler and    *)
(* the start of the next frame when the packet ends the current one.       *)
(***************************************************************************)
EXTENDS VideoPackets

VARIABLES frame,         \* the frame under assembly: frameInfo and its locals
          eof,           \* did the previous frame end with an EOF packet?
          firstPacket,   \* no packet was received yet
          status,        \* "receiving", or "done" once the function returned
          return_value,
          report,        \* what the last call of the handler was given
          stopRequested  \* the handler answers 1 from now on (state_ # RUNNING)

hostVars == <<frame, eof, firstPacket, status, return_value, report, stopRequested>>

NoReport == [frame_number |-> -1, eof |-> FALSE, shortFrame |-> FALSE,
             missingLines |-> 0, lastMissingLine |-> -1, lineCount |-> 0,
             repaired |-> FALSE, frame_buf |-> [l \in Lines |-> Black]]

(***************************************************************************)
(* The frame number is kept modulo FrameMod: all the driver does with it   *)
(* is to take differences modulo 2^16.  It starts as the number after the  *)
(* last packet's; when the last packet itself belongs to the new frame     *)
(* (the EOF before it was lost), its row, if it is one, is carried over.   *)
(* The carried row number is compared before its frame bits are masked.    *)
(***************************************************************************)
FreshFrame(number, xor) ==
    [frame_number |-> number, lineCount |-> 0, lastMissingLine |-> -1,
     missingLines |-> 0, has_xor |-> FALSE, xorline |-> xor,
     frame_buf |-> [l \in Lines |-> Black]]

\* The number expected next, and the fault of expecting the last one again.
SameNumberAgain(p, withEof) == p.frame
NumberAfter(p, withEof) == IF withEof THEN (p.frame + 1) % FrameMod ELSE p.frame

\* Is the last packet's row carried over?  The fault is to drop it.
CarriesNothing(p, withEof) == FALSE
Carries(p, withEof) == ~withEof /\ p.line < Rows

NewFrame(p, withEof, xor) ==
    LET f == FreshFrame(NumberAfter(p, withEof), xor) IN
    IF Carries(p, withEof)
    THEN [f EXCEPT !.frame_buf[p.line] = p.data, !.lineCount = 1]
    ELSE f

HostInit ==
    /\ frame = FreshFrame(0, Black)
    /\ eof = FALSE
    /\ firstPacket = TRUE
    /\ status = "receiving"
    /\ return_value = 0
    /\ report = NoReport
    /\ stopRequested = FALSE

\* The number of the first frame is that of the first packet.
Current(p) == IF firstPacket THEN [frame EXCEPT !.frame_number = p.frame] ELSE frame

Return(value) ==
    /\ status' = "done"
    /\ return_value' = value
    /\ UNCHANGED <<report, stopRequested>>

\* A fault: the answer of the handler is not looked at.
HandOverGoesOn(r, p, withEof, xor) ==
    /\ report' = r
    /\ eof' = withEof
    /\ firstPacket' = FALSE
    /\ frame' = NewFrame(p, withEof, xor)
    /\ UNCHANGED <<status, return_value, stopRequested>>

(***************************************************************************)
(* The frame is complete: the handler is called with r, a ping is sent.    *)
(* A handler told to stop answers 1; otherwise it may go on or, for        *)
(* reasons of its own or because the ping failed, end the loop.            *)
(***************************************************************************)
HandOver(r, p, withEof, xor) ==
    /\ report' = r
    /\ eof' = withEof
    /\ firstPacket' = FALSE
    /\ \/ /\ ~stopRequested
          /\ frame' = NewFrame(p, withEof, xor)
          /\ UNCHANGED <<status, return_value>>
       \/ /\ status' = "done"
          /\ UNCHANGED <<frame, return_value>>
    /\ UNCHANGED stopRequested

\* The fault is to count only the gaps before rows that did arrive.
GapsOnly(f, short) == f.missingLines
MissingLines(f, short) == IF short THEN Rows - f.lineCount ELSE f.missingLines

Report(f, withEof, short, repaired, buf) ==
    [frame_number |-> f.frame_number, eof |-> withEof, shortFrame |-> short,
     missingLines |-> MissingLines(f, short),
     lastMissingLine |-> f.lastMissingLine, lineCount |-> f.lineCount,
     repaired |-> repaired, frame_buf |-> buf]

(***************************************************************************)
(* The XOR repair of row lastMissingLine from all the other rows.  While   *)
(* lastMissingLine is still -1 the write lands in front of the buffer and  *)
(* no row of it changes.                                                   *)
(***************************************************************************)
Repair(f) ==
    LET target == f.lastMissingLine IN
    IF target \in Lines
    THEN [f.frame_buf EXCEPT ![target] =
            Xor(f.xorline, XorOfRows(f.frame_buf, Lines \ {target}))]
    ELSE f.frame_buf

\* A fault: the frame numbers are compared without wrapping.
OfAHigherNumber(p) == p.frame > Current(p).frame_number

\* frame numbers differ modulo 2^16
OfAnotherFrame(p) == Current(p).frame_number # p.frame
Special(p) == p.line \in {LINENO_ERR, LINENO_OVF, LINENO_ABORT}

\* Is the frame under assembly handed over when p comes?
EndsFrame(p) == p.fits /\ ~Special(p) /\ (OfAnotherFrame(p) \/ p.line = LINENO_EOF)

\* A packet of another resolution ends the function with 1.
ReceiveMisfit(p) ==
    /\ ~p.fits
    /\ Return(1)
    /\ UNCHANGED <<frame, eof, firstPacket>>

\* ERR and OVF end it with their line number, ABORT with 0.
ReceiveFailure(p) ==
    /\ p.fits
    /\ Special(p)
    /\ Return(IF p.line = LINENO_ABORT THEN 0 ELSE p.line)
    /\ firstPacket' = FALSE
    /\ UNCHANGED <<frame, eof>>

\* A packet of another frame: the EOF of the current one was missed.
ReceiveNextFrame(p) ==
    /\ p.fits
    /\ ~Special(p)
    /\ OfAnotherFrame(p)
    /\ LET f == Current(p) IN
       HandOver(Report(f, FALSE, FALSE, FALSE, f.frame_buf), p, FALSE, f.xorline)

ReceiveXor(p) ==
    /\ p.fits
    /\ ~OfAnotherFrame(p)
    /\ p.line = LINENO_XOR
    /\ frame' = [Current(p) EXCEPT !.xorline = p.data, !.has_xor = TRUE]
    /\ firstPacket' = FALSE
    /\ UNCHANGED <<eof, status, return_value, report, stopRequested>>

\* Rows that did not arrive.
RowsMissing(f) == Rows - f.lineCount

\* End of frame: complete, one row short and repairable, or short.
ReceiveEof(p) ==
    /\ p.fits
    /\ ~OfAnotherFrame(p)
    /\ p.line = LINENO_EOF
    /\ LET f == Current(p)
           repairable == RowsMissing(f) = 1 /\ f.has_xor
           short == RowsMissing(f) # 0 /\ ~repairable
           buf == IF repairable THEN Repair(f) ELSE f.frame_buf
       IN  HandOver(Report(f, TRUE, short, repairable, buf), p, TRUE, f.xorline)

\* A fault: off by one.
NoteGapAtLine(f, l) ==
    IF f.lineCount + f.missingLines < l
    THEN [f EXCEPT !.lastMissingLine = l, !.missingLines = l - f.lineCount]
    ELSE f

\* Rows between the ones received so far and line l are counted as missing.
NoteGap(f, l) ==
    IF f.lineCount + f.missingLines < l
    THEN [f EXCEPT !.lastMissingLine = l - 1, !.missingLines = l - f.lineCount]
    ELSE f

IsRow(p) == ~Special(p) /\ p.line \notin {LINENO_XOR, LINENO_EOF}

ReceiveRow(p) ==
    /\ p.fits
    /\ IsRow(p)
    /\ ~OfAnotherFrame(p)
    /\ LET f == Current(p)
           l == MaskLine(p.line)
       IN  /\ firstPacket' = FALSE
           /\ IF f.lineCount > Rows \/ l >= Rows
              THEN /\ Return(0)
                   /\ UNCHANGED <<frame, eof>>
              ELSE /\ frame' = [NoteGap(f, l) EXCEPT !.frame_buf[l] = p.data, !.lineCount = @ + 1]
                   /\ UNCHANGED <<eof, status, return_value, report, stopRequested>>

Receive(p) ==
    /\ status = "receiving"
    /\ \/ ReceiveMisfit(p) \/ ReceiveFailure(p) \/ ReceiveNextFrame(p)
       \/ ReceiveXor(p) \/ ReceiveEof(p) \/ ReceiveRow(p)

\* A fault: the answer of the handler is not looked at.
TimeoutGoesOn(errno) ==
    /\ status = "receiving"
    /\ UNCHANGED <<frame, eof, firstPacket, status, return_value, report, stopRequested>>

(***************************************************************************)
(* select timed out.  It leaves errno as it was: if that is EINTR, from    *)
(* whatever call set it, the wait begins again.  Otherwise the handler is  *)
(* called with NULL: asked to stop it ends the loop; if not, it may        *)
(* (stream lost) or may not (waiting for a trigger).                       *)
(***************************************************************************)
Timeout(errno) ==
    /\ status = "receiving"
    /\ \/ /\ errno # "EINTR"
          /\ Return(0)
       \/ /\ errno = "EINTR" \/ ~stopRequested
          /\ UNCHANGED <<status, return_value, report, stopRequested>>
    /\ UNCHANGED <<frame, eof, firstPacket>>

\* select or recvfrom failed.
SocketError ==
    /\ status = "receiving"
    /\ \E value \in {0, -1} : Return(value)
    /\ UNCHANGED <<frame, eof, firstPacket>>

\* Another thread leaves the RUNNING state.
RequestStop ==
    /\ ~stopRequested
    /\ stopRequested' = TRUE
    /\ UNCHANGED <<frame, eof, firstPacket, status, return_value, report>>
=============================================================================
