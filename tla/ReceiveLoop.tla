---------------------------- MODULE ReceiveLoop -----------------------------
(***************************************************************************)
(* wge100VidReceiveSocket on a stream that never ends by itself: frames    *)
(* follow each other for ever, some packets are lost, the camera may fall  *)
(* silent (an external trigger, a lost camera) and come back.  Here the    *)
(* question is when the function returns, so the rows are all black.       *)
(*                                                                         *)
(* errno is that of the thread.  select leaves it alone when it times out, *)
(* so it holds what earlier calls of the thread left there: those of the   *)
(* frame handler, which logs and publishes with code that is not part of   *)
(* the repository and may repeat a call that a signal interrupted.         *)
(***************************************************************************)
EXTENDS VidReceive, Sequences

CONSTANTS FrameBits,   \* the simulator's line number field
          SendXor,     \* the firmware's XOR row
          MaxSkip,     \* bound: packets lost in a row
          Failures     \* packets that end the stream

VARIABLES last,    \* the place of the last packet in the stream
          quiet,   \* no packet comes until further notice
          errno

vars == <<hostVars, last, quiet, errno>>

Errnos == {"EINTR", "other"}

\* The packets of a frame, in the order of their sending, and of all frames.
LineFields(f) ==
    [l \in 1 .. Rows |-> LineField(f, l - 1, FrameBits)]
        \o (IF SendXor THEN <<LINENO_XOR>> ELSE <<>>) \o <<LINENO_EOF>>
PerFrame == Len(LineFields(0))
Places == 0 .. FrameMod * PerFrame - 1
PacketAt(place) ==
    LET f == place \div PerFrame
    IN  Packet(f, LineFields(f)[(place % PerFrame) + 1], Black)

ASSUME SkipAssumption == MaxSkip \in 0 .. (FrameMod - 1) * PerFrame - 1

Init ==
    /\ HostInit
    /\ last \in Places
    /\ quiet \in BOOLEAN
    /\ errno \in Errnos

\* The handler may leave any errno; asked to stop, it returns 1 at once.
AfterHandler == IF stopRequested THEN {errno} ELSE Errnos

\* The other calls of the loop succeed, or end it.
Read(p) ==
    /\ Receive(p)
    /\ errno' \in IF EndsFrame(p) THEN AfterHandler ELSE {errno}
    /\ quiet' \in BOOLEAN

PacketComes ==
    /\ ~quiet
    /\ \E skipped \in 0 .. MaxSkip :
          LET place == (last + 1 + skipped) % (FrameMod * PerFrame)
          IN  Read(PacketAt(place)) /\ last' = place

FailureComes ==
    /\ ~quiet
    /\ \E p \in Failures : Read([p EXCEPT !.frame = PacketAt(last).frame])
    /\ UNCHANGED last

Silence ==
    /\ quiet
    /\ Timeout(errno)
    /\ errno' \in IF errno = "EINTR" THEN {errno} ELSE AfterHandler
    /\ UNCHANGED <<last, quiet>>

ComesBack ==
    /\ quiet
    /\ quiet' = FALSE
    /\ UNCHANGED <<hostVars, last, errno>>

HostBreaks == SocketError /\ UNCHANGED <<last, quiet, errno>>

StopAsked == RequestStop /\ UNCHANGED <<last, quiet, errno>>

Next == PacketComes \/ FailureComes \/ Silence \/ ComesBack \/ HostBreaks \/ StopAsked

(***************************************************************************)
(* The receiving thread keeps running: a packet that comes is read, and    *)
(* select returns after one second of silence.                             *)
(***************************************************************************)
Spec ==
    /\ Init /\ [][Next]_vars
    /\ WF_vars(PacketComes \/ FailureComes)
    /\ WF_vars(Silence)

-----------------------------------------------------------------------------
(***************************************************************************)
(* The handler asked to end the reception ends it, by the end of a frame   *)
(* while frames arrive and by the next timeout when none do.  Only a line  *)
(* that stays dead with an old EINTR in errno keeps it waiting.            *)
(***************************************************************************)
StopsWhenAsked ==
    stopRequested ~> (status = "done" \/ [](quiet /\ errno = "EINTR"))
=============================================================================
