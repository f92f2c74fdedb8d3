---------------------------- MODULE FrameHandler ----------------------------
(***************************************************************************)
(* The frame handler of the driver (wge100_camera_node.cpp): the filter of *)
(* the arrival times, the statistics, the flag of the alternate imager     *)
(* context and the filter of the warning about missing triggers.           *)
(*                                                                         *)
(* The camera takes frame number f of a run at the time f * Period of that *)
(* run.  What the video path makes of it is chosen freely: the frame is    *)
(* not seen at all, or it reaches the handler complete, short or without   *)
(* its end of frame, some time after it was taken, never before the frame  *)
(* ahead of it.  With external triggers frames may also stay away for      *)
(* whole seconds.  Times are natural numbers; INF, above every arrival,    *)
(* is the infinity of the doubles.                                         *)
(***************************************************************************)
EXTENDS Integers

CONSTANTS FrameMod,     \* frame numbers wrap at FrameMod (2^16)
          Period,       \* time between two frames
          FramePeriod,  \* frame_period_, the period with max_skew
          LateLocked,   \* late_locked_threshold_
          MaxRecovery,  \* max_recovery_frames_
          MaxSkipped,   \* max_skipped_frames_
          Delays,       \* time from taking a frame to its first packet
          BeforeWarn,   \* before_warn_
          BeforeClear,  \* before_clear_
          MaxFrame,     \* bound: frames taken
          MaxGap,       \* bound: frames in a row that are not seen, plus one
          MaxMissing,   \* bound: packets lost of one frame that is seen
          MaxDropped,   \* bound: frames the handler drops
          MaxRuns,      \* bound: runs of the image thread
          MaxSilence,   \* bound: seconds without a frame in a row
          INF           \* infinity of the doubles

ASSUME PeriodAssumption == Period \in Nat \ {0} /\ FramePeriod \in Nat /\ FramePeriod >= Period
ASSUME ThresholdAssumption ==
    {LateLocked, MaxRecovery, MaxSkipped, BeforeWarn, BeforeClear} \subseteq Nat /\ LateLocked <= FramePeriod
ASSUME DelaysAssumption == Delays \subseteq Nat
ASSUME GapAssumption == FrameMod \in Nat /\ FrameMod % 2 = 0 /\ MaxGap \in Nat \ {0} /\ 2 * MaxGap < FrameMod
ASSUME BoundsAssumption ==
    {MaxFrame, MaxMissing, MaxDropped, MaxRuns, MaxSilence} \subseteq Nat /\ MaxRuns > 0
ASSUME InfAssumption == INF \in Nat /\ \A d \in Delays : MaxFrame * Period + d < INF
\* The driver's filter has ten for both.
ASSUME WarnAssumption == BeforeWarn = BeforeClear

VARIABLES
    filter,                     \* frame_time_filter_
    last_partial_frame_number_,
    missed_eof_count_, missed_line_count_, dropped_packets_,
    massive_frame_losses_, trigger_matcher_drop_count_,
    next_is_alternate_,
    warn,                       \* no_timestamp_warning_filter_
    external,   \* config_.ext_trig
    taken,      \* the frame seen last, counted over the run, or -1
    context,    \* the imager context of the frame after it
    runs,       \* runs of the image thread
    seen,       \* what was made of the frame seen last (history)
    run,        \* late frames, silent seconds, frames in a row (history)
    real        \* gaps and packets lost (history)

stats == <<missed_eof_count_, missed_line_count_, dropped_packets_,
           massive_frame_losses_, trigger_matcher_drop_count_>>
env == <<external, taken, context, runs>>
history == <<seen, run, real>>
vars == <<filter, last_partial_frame_number_, stats, next_is_alternate_, warn, env, history>>

\* unlocked_count_ is an integer, and the threshold it is set to below 1.
ResetFilter(f) == [f EXCEPT !.anticipated_time = INF, !.relock_time = INF, !.unlocked_count = 0]
NoFrame == [arrival |-> 0, stamp |-> 0, published |-> FALSE, right |-> TRUE]

(***************************************************************************)
(* Constructor, doOpen and the first doStart, with both imager contexts    *)
(* enabled.                                                                *)
(***************************************************************************)
Init ==
    /\ filter = [anticipated_time |-> INF, relock_time |-> INF, unlocked_count |-> 0,
                 last_frame_number |-> 0]
    /\ last_partial_frame_number_ = FrameMod - 1
    /\ missed_eof_count_ = 0 /\ missed_line_count_ = 0 /\ dropped_packets_ = 0
    /\ massive_frame_losses_ = 0 /\ trigger_matcher_drop_count_ = 0
    /\ next_is_alternate_ = FALSE
    /\ warn = [has_warned |-> FALSE, countdown |-> BeforeWarn]
    /\ external \in BOOLEAN
    /\ taken = -1 /\ context = FALSE /\ runs = 1
    /\ seen = NoFrame
    /\ run = [late |-> 0, bad |-> 0, good |-> BeforeClear + 1]
    /\ real = [gaps |-> 0, lost |-> 0]

-----------------------------------------------------------------------------
Later(t, dt) == IF t = INF THEN INF ELSE t + dt
Least(a, b) == IF a < b THEN a ELSE b

\* Frames since the last one, and the fault of not masking the difference.
DeltaUnmasked(f, number) == number - f.last_frame_number
Delta(f, number) == (number - f.last_frame_number) % FrameMod

\* The earliest arrival since the filter was on time, moved on by the time
\* passed, and the fault of not moving it on.
RelockStays(f, passed, in) == Least(f.relock_time, in)
Relock(f, passed, in) == Least(Later(f.relock_time, passed), in)

\* A fault: the filter never gives up the time it expects.
NeverLost(count) == FALSE
LostLock(count) == count > MaxRecovery

(***************************************************************************)
(* FrameTimeFilter::run: the filter afterwards and the time it returns.    *)
(* The sign it gives an early time is removed by the caller.               *)
(***************************************************************************)
Run(f0, in, number) ==
    LET f      == IF Delta(f0, number) > MaxSkipped THEN ResetFilter(f0) ELSE f0
        passed == FramePeriod * Delta(f0, number)
        ant    == Later(f.anticipated_time, passed)
        relock == Relock(f, passed, in)
        count  == f.unlocked_count + 1
        Result(a, r, u, out) ==
            [filter |-> [anticipated_time |-> a, relock_time |-> r, unlocked_count |-> u,
                         last_frame_number |-> number],
             out |-> out]
    IN  IF in < ant                   THEN Result(in, INF, 0, in)
        ELSE IF in <= ant + LateLocked THEN Result(ant, relock, f.unlocked_count, in)
        ELSE IF LostLock(count)        THEN Result(relock, INF, count, relock)
        ELSE                                Result(ant, relock, count, ant)

(***************************************************************************)
(* SlowTriggerFilter.  badFrame answers TRUE, to warn, when it sets        *)
(* has_warned_.                                                            *)
(***************************************************************************)
BadFrame(w) ==
    IF w.has_warned THEN [w EXCEPT !.countdown = BeforeClear]
    ELSE IF w.countdown = 0 THEN [has_warned |-> TRUE, countdown |-> BeforeWarn]
    ELSE [w EXCEPT !.countdown = @ - 1]

\* A fault: a frame does not start the countdown to a warning again.
GoodFrameKeeps(w) ==
    IF ~w.has_warned THEN w
    ELSE IF w.countdown = 0 THEN [has_warned |-> FALSE, countdown |-> BeforeClear]
    ELSE [w EXCEPT !.countdown = @ - 1]

GoodFrame(w) ==
    IF ~w.has_warned THEN [w EXCEPT !.countdown = BeforeWarn]
    ELSE IF w.countdown = 0 THEN [has_warned |-> FALSE, countdown |-> BeforeClear]
    ELSE [w EXCEPT !.countdown = @ - 1]

\* The difference as a signed integer, and the fault of not wrapping it.
Unwrapped(number) == number - last_partial_frame_number_
FrameDelta(number) ==
    LET d == (number - last_partial_frame_number_) % FrameMod
    IN  IF d >= FrameMod \div 2 THEN d - FrameMod ELSE d

\* The flag a frame is published with: what the frame published before it
\* announced, and the fault of taking what it announces itself.
AlternateNow(announced) == announced
Alternate(announced) == next_is_alternate_

Count(b) == IF b THEN 1 ELSE 0

(***************************************************************************)
(* frameHandler with a frame: the d-th after the last one seen, n packets  *)
(* of it lost, the end of frame among them if noEof, and announcing the    *)
(* context next.  Whether the trigger matcher knows a time for the frame   *)
(* is open, and of no consequence when packets are lost.                   *)
(***************************************************************************)
Handle(d, delay, n, noEof, matched, next) ==
    LET f      == taken + d
        number == f % FrameMod
        in     == f * Period + delay
        r      == Run(filter, in, number)
        pub    == n = 0 /\ matched
    IN  /\ f <= MaxFrame
        /\ noEof => n > 0
        /\ n > 0 => matched
        /\ pub \/ missed_eof_count_ + missed_line_count_ + trigger_matcher_drop_count_ < MaxDropped
        /\ in >= seen.arrival
        /\ warn' = GoodFrame(warn)
        /\ filter' = r.filter
        /\ last_partial_frame_number_' = number
        /\ massive_frame_losses_' = massive_frame_losses_ + Count(FrameDelta(number) > 1)
        /\ missed_eof_count_' = missed_eof_count_ + Count(noEof)
        /\ missed_line_count_' = missed_line_count_ + Count(n > 0 /\ ~noEof)
        /\ dropped_packets_' = dropped_packets_ + (IF noEof THEN 1 ELSE n)
        /\ trigger_matcher_drop_count_' = trigger_matcher_drop_count_ + Count(n = 0 /\ ~matched)
        /\ next_is_alternate_' = IF pub THEN next ELSE next_is_alternate_
        /\ taken' = f /\ context' = next
        /\ seen' = [arrival |-> in, stamp |-> r.out, published |-> pub,
                    right |-> d = 1 => Alternate(next) = context]
        /\ run' = [late |-> IF in > r.out + LateLocked THEN run.late + 1 ELSE 0,
                   bad |-> 0, good |-> Least(run.good + 1, BeforeClear + 1)]
        /\ real' = [gaps |-> real.gaps + Count(d > 1), lost |-> real.lost + n]
        /\ UNCHANGED <<external, runs>>

(***************************************************************************)
(* frameHandler without a frame: a second has passed and no trigger time   *)
(* is known.  (Every other silence ends the run: see DriverLifecycle.)     *)
(***************************************************************************)
Silence ==
    /\ external
    /\ run.bad < MaxSilence
    /\ warn' = BadFrame(warn)
    /\ run' = [run EXCEPT !.bad = @ + 1,
                          !.good = IF ~warn.has_warned /\ warn'.has_warned THEN 0
                                   ELSE IF @ > BeforeClear THEN @ ELSE 0]
    /\ UNCHANGED <<filter, last_partial_frame_number_, stats, next_is_alternate_, env, seen, real>>

\* doStart, and the image thread up to its first frame.
NewRun ==
    /\ runs < MaxRuns
    /\ runs' = runs + 1
    /\ last_partial_frame_number_' = FrameMod - 1
    /\ filter' = ResetFilter(filter)
    /\ taken' = -1
    /\ seen' = NoFrame
    /\ run' = [run EXCEPT !.late = 0]
    /\ UNCHANGED <<stats, next_is_alternate_, warn, external, context, real>>

SomeFrame ==
    \E d \in 1 .. MaxGap, delay \in Delays, n \in 0 .. MaxMissing,
       noEof, matched, next \in BOOLEAN : Handle(d, delay, n, noEof, matched, next)

Next == SomeFrame \/ Silence \/ NewRun

Spec == Init /\ [][Next]_vars

-----------------------------------------------------------------------------
TypeOK ==
    /\ filter \in [anticipated_time : Nat, relock_time : Nat, unlocked_count : Nat,
                   last_frame_number : 0 .. FrameMod - 1]
    /\ last_partial_frame_number_ \in 0 .. FrameMod - 1
    /\ stats \in Nat \X Nat \X Nat \X Nat \X Nat
    /\ next_is_alternate_ \in BOOLEAN /\ external \in BOOLEAN /\ context \in BOOLEAN
    /\ warn \in [has_warned : BOOLEAN, countdown : 0 .. BeforeWarn + BeforeClear]
    /\ taken \in -1 .. MaxFrame /\ runs \in 1 .. MaxRuns
    /\ seen \in [arrival : Nat, stamp : Nat, published : BOOLEAN, right : BOOLEAN]
    /\ run \in [late : Nat, bad : 0 .. MaxSilence, good : 0 .. BeforeClear + 1]
    /\ real \in [gaps : Nat, lost : 0 .. MaxDropped * MaxMissing]

(***************************************************************************)
(* The time the filter gives a frame of a camera that runs freely lies     *)
(* between the time the frame was taken and the time it arrived, whatever  *)
(* the delays were and however many frames were not seen: the minimum      *)
(* filter never goes below the latency floor, as it would if it lost count *)
(* of the frames (wge100_camera_node.cpp 128-226).                         *)
(***************************************************************************)
StampsInWindow ==
    ~external => seen.stamp \in (IF taken < 0 THEN 0 ELSE taken * Period) .. seen.arrival

(***************************************************************************)
(* Within a run the filtered times never go back, not even when the filter *)
(* takes the earliest late arrival for its new base.                       *)
(***************************************************************************)
StampsAdvance == [][taken' > taken /\ taken >= 0 => seen'.stamp >= seen.stamp]_vars

(***************************************************************************)
(* A step in the delay is followed: at most max_recovery_frames_ frames in *)
(* a row, and the one the filter recovers at, are stamped more than the    *)
(* threshold before their arrival.                                         *)
(***************************************************************************)
LateRunBounded == run.late <= MaxRecovery + 1

(***************************************************************************)
(* Every gap in the frames of a run is noticed, over the wrap of the       *)
(* frame number and a restart too, and nothing else is taken for one; the  *)
(* packets reported lost never exceed those that were.                     *)
(***************************************************************************)
StatisticsTruthful ==
    /\ massive_frame_losses_ = real.gaps
    /\ dropped_packets_ <= real.lost

(***************************************************************************)
(* A frame published right after a published frame carries the context it  *)
(* was taken in.  (After a frame that was dropped it need not: the flag    *)
(* then stems from the frame published before.)                            *)
(***************************************************************************)
AlternateFollowsEof ==
    [][seen.published /\ seen'.published /\ taken' = taken + 1
         => seen'.right]_vars

(***************************************************************************)
(* "10 seconds before warning. 10 frames to clear." (433-435): a warning   *)
(* comes after more than before_warn_ silent seconds in a row, and after a *)
(* warning only once more than before_clear_ frames have come in a row.    *)
(***************************************************************************)
WarningsApart ==
    [][~warn.has_warned /\ warn'.has_warned
         => run'.bad > BeforeWarn /\ run.good > BeforeClear]_vars
=============================================================================
