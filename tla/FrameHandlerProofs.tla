------------------------- MODULE FrameHandlerProofs --------------------------
(***************************************************************************)
(* Theorems about FrameHandler: its type invariant, the window of the      *)
(* filtered times and that they do not go back, the bound on late frames,  *)
(* the statistics, the imager context of published frames, and the         *)
(* distance of warnings, for every period, delay and threshold.            *)
(***************************************************************************)
EXTENDS FrameHandler, TLAPS

-----------------------------------------------------------------------------
(* Products and remainders, for the frame numbers that wrap *)

(***************************************************************************)
(* A product with a constant distributes, and grows with its factors.      *)
(***************************************************************************)
LEMMA Products ==
    ASSUME NEW a \in Int, NEW b \in Int, NEW c \in Int
    PROVE  /\ a * c \in Int /\ c * a \in Int
           /\ (a + b) * c = a * c + b * c
           /\ c * (a + b) = c * a + c * b
           /\ (a <= b /\ c >= 0) => a * c <= b * c /\ c * a <= c * b
  OBVIOUS

(***************************************************************************)
(* Dividing with remainder, and that the remainder is unique.              *)
(***************************************************************************)
LEMMA Remainder ==
    ASSUME NEW a \in Int, NEW M \in Nat \ {0}
    PROVE  /\ a \div M \in Int
           /\ a % M \in 0 .. M - 1
           /\ a = M * (a \div M) + (a % M)
  OBVIOUS

\* A number has one remainder only.
LEMMA RemainderUnique ==
    ASSUME NEW M \in Nat \ {0}, NEW q \in Int, NEW r \in 0 .. M - 1,
           NEW p \in Int, NEW s \in 0 .. M - 1, M * q + r = M * p + s
    PROVE  r = s
<1>1. ASSUME NEW x \in Int, NEW y \in Int, x > y PROVE M * x >= M * y + M
  <2>1. y + 1 <= x /\ M * (y + 1) = M * y + M * 1
    BY <1>1, Products
  <2> QED BY <2>1, Products
<1>2. M * q \in Int /\ M * p \in Int
  BY Products
<1>3. CASE q > p
  BY <1>1, <1>2, <1>3
<1>4. CASE p > q
  BY <1>1, <1>2, <1>4
<1> QED BY <1>2, <1>3, <1>4

(***************************************************************************)
(* The masked difference of two frame numbers is the difference of the     *)
(* frames, as long as that is below the modulus.                           *)
(***************************************************************************)
LEMMA MaskedDifference ==
    ASSUME NEW M \in Nat \ {0}, NEW a \in Int, NEW d \in 0 .. M - 1
    PROVE  (((a + d) % M) - (a % M)) % M = d
<1> DEFINE x == ((a + d) % M) - (a % M)
           q == (a + d) \div M
           p == a \div M
<1>1. /\ a + d = M * q + ((a + d) % M)
      /\ a = M * p + (a % M)
      /\ q \in Int /\ p \in Int /\ x \in Int
      /\ (a + d) % M \in Int /\ a % M \in Int
  <2>1. a + d \in Int /\ M \in Int
    OBVIOUS
  <2>2. a + d = M * q + ((a + d) % M) /\ q \in Int /\ (a + d) % M \in 0 .. M - 1
    BY <2>1, Remainder
  <2>3. a = M * p + (a % M) /\ p \in Int /\ a % M \in 0 .. M - 1
    BY Remainder
  <2> QED BY <2>2, <2>3
<1>2. x = M * (x \div M) + (x % M) /\ x \div M \in Int /\ x % M \in 0 .. M - 1
  BY <1>1, Remainder
<1>3. x = M * p - M * q + d
  <2>1. M * p \in Int /\ M * q \in Int
    BY <1>1, Products
  <2> QED BY <1>1, <2>1
<1>4. M * (p - q) + M * q = M * p
  <2>1. p - q \in Int /\ (p - q) + q = p
    BY <1>1
  <2> QED BY <1>1, <2>1, Products
<1> HIDE DEF x, q, p
<1>5. M * (p - q) + d = M * (x \div M) + (x % M) /\ p - q \in Int
  BY <1>1, <1>2, <1>3, <1>4, Products
<1> QED BY <1>2, <1>5, RemainderUnique DEF x


(***************************************************************************)
(* What the handler remembers of the last frame agrees with the camera.    *)
(***************************************************************************)
NumbersInv ==
    /\ last_partial_frame_number_ = taken % FrameMod
    /\ taken >= 0 => filter.last_frame_number = taken % FrameMod

(***************************************************************************)
(* The time filter.  Both times it keeps lie at or after the one the last  *)
(* frame was taken at; the time it gave out last is at most the threshold  *)
(* above the one it expects, so that it cannot go back.                    *)
(***************************************************************************)
FilterInv ==
    IF taken < 0
    THEN filter.anticipated_time = INF /\ filter.relock_time = INF /\ seen.arrival = 0 /\ seen.stamp = 0
    ELSE /\ filter.anticipated_time >= taken * Period
         /\ filter.relock_time >= filter.anticipated_time
         /\ filter.anticipated_time < INF
         /\ seen.stamp >= taken * Period
         /\ seen.stamp <= seen.arrival
         /\ seen.stamp <= filter.anticipated_time + LateLocked

(***************************************************************************)
(* Late frames are counted by the filter too, and once it has moved to the *)
(* earliest late arrival a second move makes the frame punctual.           *)
(***************************************************************************)
LateInv ==
    run.late > 0 =>
      \/ run.late <= filter.unlocked_count /\ filter.unlocked_count <= MaxRecovery
      \/ /\ run.late <= MaxRecovery + 1
         /\ filter.unlocked_count > MaxRecovery
         /\ filter.relock_time = INF

StatisticsInv ==
    /\ StatisticsTruthful
    /\ missed_eof_count_ + missed_line_count_ + trigger_matcher_drop_count_ <= MaxDropped
    /\ real.lost <= MaxMissing * (missed_eof_count_ + missed_line_count_ + trigger_matcher_drop_count_)

ContextInv == seen.published => next_is_alternate_ = context

\* The countdown of the warning filter and what it counts.
WarnInv ==
    IF warn.has_warned
    THEN run.good + warn.countdown = BeforeClear
    ELSE run.bad + warn.countdown = BeforeWarn /\ run.good > BeforeClear

IInv == TypeOK /\ NumbersInv /\ FilterInv /\ LateInv /\ StatisticsInv /\ ContextInv /\ WarnInv

FilterSet == [anticipated_time : Nat, relock_time : Nat, unlocked_count : Nat,
              last_frame_number : 0 .. FrameMod - 1]

USE PeriodAssumption, ThresholdAssumption, DelaysAssumption, GapAssumption, BoundsAssumption,
    InfAssumption, WarnAssumption

-----------------------------------------------------------------------------
(* The time filter *)

\* A time the filter keeps, moved on to the frame called number.
Moved(f, number, t) ==
    Later(IF Delta(f, number) > MaxSkipped THEN INF ELSE t, FramePeriod * Delta(f, number))
Unlocked(f, number) == IF Delta(f, number) > MaxSkipped THEN 0 ELSE f.unlocked_count

(***************************************************************************)
(* The four outcomes of FrameTimeFilter::run, in terms of the times moved  *)
(* on: an early frame, a punctual one, the move to the earliest late       *)
(* arrival, and a late frame.                                              *)
(***************************************************************************)
RunOutcome(r, in, number, ant, relock, count) ==
    /\ r.filter.last_frame_number = number
    /\ r.filter \in FilterSet /\ r.out \in Nat
    /\ ant \in Nat /\ relock \in Nat /\ relock <= in /\ count \in Nat
    /\ \/ /\ in < ant
          /\ r.out = in
          /\ r.filter.anticipated_time = in
          /\ r.filter.relock_time = INF
          /\ r.filter.unlocked_count = 0
       \/ /\ in >= ant /\ in <= ant + LateLocked
          /\ r.out = in
          /\ r.filter.anticipated_time = ant
          /\ r.filter.relock_time = relock
          /\ r.filter.unlocked_count = count
       \/ /\ in > ant + LateLocked /\ count + 1 > MaxRecovery
          /\ r.out = relock
          /\ r.filter.anticipated_time = relock
          /\ r.filter.relock_time = INF
          /\ r.filter.unlocked_count = count + 1
       \/ /\ in > ant + LateLocked /\ count + 1 <= MaxRecovery
          /\ r.out = ant
          /\ r.filter.anticipated_time = ant
          /\ r.filter.relock_time = relock
          /\ r.filter.unlocked_count = count + 1

\* The outcomes of FrameTimeFilter::run: the frame is early, in time, late
\* with a recovery of the filter, or late.
LEMMA RunCases ==
    ASSUME NEW f \in FilterSet, NEW in \in Nat, NEW number \in 0 .. FrameMod - 1
    PROVE  RunOutcome(Run(f, in, number), in, number, Moved(f, number, f.anticipated_time),
                      Least(Moved(f, number, f.relock_time), in), Unlocked(f, number))
<1> DEFINE ant == Moved(f, number, f.anticipated_time)
           relock == Least(Moved(f, number, f.relock_time), in)
           count == Unlocked(f, number)
<1> DEFINE delta == Delta(f, number)
           passed == FramePeriod * delta
           g == IF delta > MaxSkipped THEN ResetFilter(f) ELSE f
           r == Run(f, in, number)
<1>1. delta \in Nat
  <2>1. number - f.last_frame_number \in Int /\ FrameMod \in Nat \ {0}
    BY DEF FilterSet
  <2>2. (number - f.last_frame_number) % FrameMod \in 0 .. FrameMod - 1
    BY <2>1, Remainder
  <2> QED BY <2>1, <2>2 DEF Delta
<1>2. passed \in Nat
  <2> HIDE DEF delta
  <2>1. FramePeriod * 0 <= FramePeriod * delta /\ FramePeriod * delta \in Int /\ FramePeriod * 0 = 0
    BY <1>1, Products
  <2> QED BY <2>1
<1>3. g \in FilterSet
  BY DEF FilterSet, ResetFilter
<1>4. /\ g.anticipated_time = IF delta > MaxSkipped THEN INF ELSE f.anticipated_time
      /\ g.relock_time = IF delta > MaxSkipped THEN INF ELSE f.relock_time
      /\ g.unlocked_count = IF delta > MaxSkipped THEN 0 ELSE f.unlocked_count
  BY DEF FilterSet, ResetFilter
<1>5. /\ ant = Later(g.anticipated_time, passed)
      /\ relock = Relock(g, passed, in)
      /\ count = g.unlocked_count
  BY <1>4 DEF Moved, Unlocked, Relock
<1>6. ant \in Nat /\ relock \in Nat /\ relock <= in /\ count \in Nat
  <2> HIDE DEF g, passed
  <2> QED BY <1>2, <1>3, <1>5 DEF Later, Relock, Least, FilterSet
<1>7. r = LET Result(a, l, u, out) ==
                [filter |-> [anticipated_time |-> a, relock_time |-> l, unlocked_count |-> u,
                             last_frame_number |-> number],
                 out |-> out]
          IN  IF in < ant                    THEN Result(in, INF, 0, in)
              ELSE IF in <= ant + LateLocked THEN Result(ant, relock, count, in)
              ELSE IF LostLock(count + 1)    THEN Result(relock, INF, count + 1, relock)
              ELSE                                Result(ant, relock, count + 1, ant)
  BY <1>5 DEF Run
<1> HIDE DEF g, passed, delta, ant, relock, count, r
<1> SUFFICES RunOutcome(r, in, number, ant, relock, count)
  BY DEF r, ant, relock, count
<1>8. CASE in < ant
  BY <1>6, <1>7, <1>8 DEF RunOutcome, FilterSet
<1>9. CASE in >= ant /\ in <= ant + LateLocked
  BY <1>6, <1>7, <1>9 DEF RunOutcome, FilterSet
<1>10. CASE in > ant + LateLocked /\ count + 1 > MaxRecovery
  BY <1>6, <1>7, <1>10 DEF RunOutcome, FilterSet, LostLock
<1>11. CASE in > ant + LateLocked /\ count + 1 <= MaxRecovery
  BY <1>6, <1>7, <1>11 DEF RunOutcome, FilterSet, LostLock
<1> QED BY <1>6, <1>8, <1>9, <1>10, <1>11

(***************************************************************************)
(* The times of a frame that is handled.  Those the filter keeps are moved *)
(* on by at least the time since the frame before, and by at least the     *)
(* threshold.                                                              *)
(***************************************************************************)
LEMMA TimesMoved ==
    ASSUME TypeOK, NumbersInv, FilterInv, NEW d \in 1 .. MaxGap, NEW t \in Nat,
           taken >= 0, NEW m, m = Moved(filter, (taken + d) % FrameMod, t)
    PROVE  /\ m = INF \/ m = t + FramePeriod * d
           /\ FramePeriod * d \in Nat
           /\ FramePeriod * d >= d * Period
           /\ FramePeriod * d >= LateLocked
<1>1. taken \in Int /\ d \in 0 .. FrameMod - 1 /\ FrameMod \in Nat \ {0} /\ d \in Int
  BY DEF TypeOK
<1>2. Delta(filter, (taken + d) % FrameMod) = d
  BY <1>1, MaskedDifference DEF Delta, NumbersInv
<1>3. /\ FramePeriod * d \in Nat
      /\ Period * d <= FramePeriod * d /\ Period * d = d * Period
      /\ FramePeriod * 1 <= FramePeriod * d
  BY <1>1, Products
<1> QED BY <1>2, <1>3 DEF Moved, Later

\* A frame arrives after it was taken, at a time that is a number below INF.
LEMMA ArrivalTime ==
    ASSUME TypeOK, NEW d \in 1 .. MaxGap, NEW delay \in Delays, taken + d <= MaxFrame,
           NEW in, in = (taken + d) * Period + delay
    PROVE  /\ in \in Nat /\ in < INF
           /\ (taken + d) * Period \in Nat /\ in >= (taken + d) * Period
           /\ taken >= 0 => /\ taken * Period \in Nat
                            /\ d * Period \in Nat
                            /\ (taken + d) * Period = taken * Period + d * Period
<1>1. taken \in Int /\ taken >= -1 /\ d \in Nat /\ d >= 1 /\ taken + d \in Nat
  BY DEF TypeOK
<1>2. /\ (taken + d) * Period \in Int /\ taken * Period \in Int /\ d * Period \in Int
      /\ (taken + d) * Period = taken * Period + d * Period
  BY <1>1, Products
<1>3. 0 * Period <= (taken + d) * Period /\ (taken + d) * Period <= MaxFrame * Period
      /\ MaxFrame * Period \in Int
  BY <1>1, Products
<1>4. /\ taken >= 0 => 0 * Period <= taken * Period
      /\ 0 * Period <= d * Period
      /\ 0 * Period = 0
  BY <1>1, Products
<1> QED BY <1>2, <1>3, <1>4

(***************************************************************************)
(* The filter run with the next frame seen: what it keeps and returns lies *)
(* in the window of that frame, and what it returns does not go back.      *)
(***************************************************************************)
LEMMA RunInWindow ==
    ASSUME TypeOK, NumbersInv, FilterInv, LateInv,
           NEW d \in 1 .. MaxGap, NEW delay \in Delays, taken + d <= MaxFrame,
           NEW in, in = (taken + d) * Period + delay, in >= seen.arrival,
           NEW r, r = Run(filter, in, (taken + d) % FrameMod)
    PROVE  /\ r.filter \in FilterSet
           /\ r.filter.last_frame_number = (taken + d) % FrameMod
           /\ r.filter.anticipated_time >= (taken + d) * Period
           /\ r.filter.relock_time >= r.filter.anticipated_time
           /\ r.filter.anticipated_time < INF
           /\ r.out \in Nat
           /\ r.out >= (taken + d) * Period
           /\ r.out <= in
           /\ r.out <= r.filter.anticipated_time + LateLocked
           /\ taken >= 0 => r.out >= seen.stamp
           /\ in > r.out + LateLocked =>
                \/ /\ run.late + 1 <= r.filter.unlocked_count
                   /\ r.filter.unlocked_count <= MaxRecovery
                \/ /\ run.late + 1 <= MaxRecovery + 1
                   /\ r.filter.unlocked_count > MaxRecovery
                   /\ r.filter.relock_time = INF
<1> DEFINE number == (taken + d) % FrameMod
           ant == Moved(filter, number, filter.anticipated_time)
           moved == Moved(filter, number, filter.relock_time)
           relock == Least(moved, in)
           count == Unlocked(filter, number)
<1>0. /\ filter \in FilterSet /\ number \in 0 .. FrameMod - 1
      /\ filter.anticipated_time \in Nat /\ filter.relock_time \in Nat
      /\ filter.unlocked_count \in Nat
      /\ seen.arrival \in Nat /\ seen.stamp \in Nat /\ run.late \in Nat /\ taken \in Int
  <2>1. taken + d \in Int /\ FrameMod \in Nat \ {0}
    BY DEF TypeOK
  <2>2. number \in 0 .. FrameMod - 1
    BY <2>1, Remainder
  <2> QED BY <2>2 DEF TypeOK, FilterSet
<1>1. /\ in \in Nat /\ in < INF
      /\ (taken + d) * Period \in Nat /\ in >= (taken + d) * Period
      /\ taken >= 0 => /\ taken * Period \in Nat /\ d * Period \in Nat
                       /\ (taken + d) * Period = taken * Period + d * Period
  BY ArrivalTime
<1>2. RunOutcome(r, in, number, ant, relock, count)
  BY <1>0, <1>1, RunCases
<1> HIDE DEF ant, moved, count
<1>3. ASSUME in >= ant
      PROVE  /\ taken >= 0
             /\ ant >= (taken + d) * Period
             /\ relock >= ant
             /\ ant >= seen.stamp
             /\ count = filter.unlocked_count
             /\ filter.relock_time = INF => relock = in
  <2>1. taken >= 0
    <3> SUFFICES ASSUME taken < 0 PROVE ant = INF
      BY <1>0, <1>1, <1>3
    <3> QED BY DEF ant, Moved, Later, FilterInv
  <2>2. /\ ant = INF \/ ant = filter.anticipated_time + FramePeriod * d
        /\ moved = INF \/ moved = filter.relock_time + FramePeriod * d
        /\ FramePeriod * d \in Nat
        /\ FramePeriod * d >= d * Period /\ FramePeriod * d >= LateLocked
    BY <1>0, <2>1, TimesMoved DEF ant, moved
  <2>3. /\ filter.anticipated_time >= taken * Period
        /\ filter.relock_time >= filter.anticipated_time
        /\ seen.stamp <= filter.anticipated_time + LateLocked
    BY <1>0, <2>1 DEF FilterInv
  <2>4. ant = filter.anticipated_time + FramePeriod * d
    BY <1>1, <1>3, <2>2
  <2>5. count = filter.unlocked_count /\ (filter.relock_time = INF => moved = INF)
    BY <1>1, <1>3 DEF ant, moved, count, Moved, Unlocked, Later
  <2>6. relock = in \/ relock = moved
    BY DEF Least
  <2>7. relock >= ant
    BY <1>0, <1>1, <1>3, <2>2, <2>3, <2>4, <2>6
  <2> QED BY <1>0, <1>1, <2>1, <2>2, <2>3, <2>4, <2>5, <2>7 DEF Least
<1> HIDE DEF number, relock
<1>4. seen.stamp <= in
  BY <1>0, <1>1 DEF FilterInv
<1>5. /\ r.filter.anticipated_time >= (taken + d) * Period
      /\ r.filter.relock_time >= r.filter.anticipated_time
      /\ r.filter.anticipated_time < INF
      /\ r.out >= (taken + d) * Period
      /\ r.out <= in
      /\ r.out <= r.filter.anticipated_time + LateLocked
      /\ r.out >= seen.stamp
  BY <1>0, <1>1, <1>2, <1>3, <1>4 DEF RunOutcome
<1>6. ASSUME in > r.out + LateLocked
      PROVE  \/ /\ run.late + 1 <= r.filter.unlocked_count
                /\ r.filter.unlocked_count <= MaxRecovery
             \/ /\ run.late + 1 <= MaxRecovery + 1
                /\ r.filter.unlocked_count > MaxRecovery
                /\ r.filter.relock_time = INF
  <2>1. in > ant + LateLocked /\ in >= ant /\ r.filter.unlocked_count = count + 1
    BY <1>0, <1>1, <1>2, <1>6 DEF RunOutcome
  <2>2. count = filter.unlocked_count /\ (filter.relock_time = INF => relock = in)
    BY <1>3, <2>1
  <2>3. CASE count + 1 <= MaxRecovery
    BY <1>0, <1>2, <2>1, <2>2, <2>3 DEF LateInv, RunOutcome
  <2>4. CASE count + 1 > MaxRecovery
    <3>1. r.out = relock /\ r.filter.relock_time = INF
      BY <1>2, <2>1, <2>4 DEF RunOutcome
    <3>2. relock # in
      BY <1>1, <1>2, <1>6, <3>1 DEF RunOutcome
    <3> QED BY <1>0, <1>2, <2>1, <2>2, <2>4, <3>1, <3>2 DEF LateInv, RunOutcome
  <2> QED BY <1>2, <2>3, <2>4 DEF RunOutcome
<1> QED BY <1>2, <1>5, <1>6 DEF number, RunOutcome

-----------------------------------------------------------------------------
(* The inductive invariant *)

(***************************************************************************)
(* The number before the first frame of a run is that of frame -1.         *)
(***************************************************************************)
LEMMA BeforeFirst == (-1) % FrameMod = FrameMod - 1
<1>1. FrameMod \in Nat \ {0} /\ -1 \in Int
  OBVIOUS
<1>2. /\ (-1) \div FrameMod \in Int
      /\ (-1) % FrameMod \in 0 .. FrameMod - 1
      /\ -1 = FrameMod * ((-1) \div FrameMod) + ((-1) % FrameMod)
  BY <1>1, Remainder
<1>3. FrameMod * (-1) + (FrameMod - 1) = -1 /\ FrameMod - 1 \in 0 .. FrameMod - 1
  BY <1>1
<1> QED BY <1>1, <1>2, <1>3, RemainderUnique

(***************************************************************************)
(* The signed difference of the frame numbers is the number of frames.     *)
(***************************************************************************)
LEMMA FrameDeltaExact ==
    ASSUME TypeOK, NumbersInv, NEW d \in 1 .. MaxGap
    PROVE  FrameDelta((taken + d) % FrameMod) = d
<1>1. taken \in Int /\ d \in 0 .. FrameMod - 1 /\ FrameMod \in Nat \ {0}
  BY DEF TypeOK
<1>2. (((taken + d) % FrameMod) - last_partial_frame_number_) % FrameMod = d
  BY <1>1, MaskedDifference DEF NumbersInv
<1>3. ~(d >= FrameMod \div 2)
  BY <1>1
<1> QED BY <1>2, <1>3 DEF FrameDelta

\* The invariant holds before the first frame.
LEMMA InitInv == Init => IInv
<1> SUFFICES ASSUME Init PROVE IInv
  OBVIOUS
<1>1. TypeOK
  <2>1. 0 * MaxMissing <= MaxDropped * MaxMissing /\ 0 * MaxMissing = 0 /\ MaxDropped * MaxMissing \in Int
    BY Products
  <2>2. /\ INF \in Nat /\ FrameMod \in Nat /\ FrameMod > 0 /\ MaxFrame \in Nat /\ MaxRuns \in Nat /\ MaxRuns > 0
        /\ BeforeWarn \in Nat /\ BeforeClear \in Nat /\ MaxSilence \in Nat
    OBVIOUS
  <2>3. filter \in FilterSet /\ last_partial_frame_number_ \in 0 .. FrameMod - 1
    BY <2>2 DEF Init, FilterSet
  <2>4. /\ stats \in Nat \X Nat \X Nat \X Nat \X Nat
        /\ next_is_alternate_ \in BOOLEAN /\ external \in BOOLEAN /\ context \in BOOLEAN
    BY DEF Init, stats
  <2>5. /\ warn \in [has_warned : BOOLEAN, countdown : 0 .. BeforeWarn + BeforeClear]
        /\ taken \in -1 .. MaxFrame /\ runs \in 1 .. MaxRuns
    BY <2>2 DEF Init
  <2>6. seen \in [arrival : Nat, stamp : Nat, published : BOOLEAN, right : BOOLEAN]
    BY DEF Init, NoFrame
  <2>7. run \in [late : Nat, bad : 0 .. MaxSilence, good : 0 .. BeforeClear + 1]
    BY <2>2 DEF Init
  <2>8. real \in [gaps : Nat, lost : 0 .. MaxDropped * MaxMissing]
    BY <2>1 DEF Init
  <2> QED BY <2>3, <2>4, <2>5, <2>6, <2>7, <2>8 DEF TypeOK, FilterSet
<1>2. NumbersInv
  BY BeforeFirst DEF Init, NumbersInv
<1>3. FilterInv /\ LateInv
  BY DEF Init, FilterInv, LateInv, NoFrame
<1>4. StatisticsInv
  BY DEF Init, StatisticsInv, StatisticsTruthful
<1>5. ContextInv /\ WarnInv
  BY DEF Init, ContextInv, WarnInv, NoFrame
<1> QED BY <1>1, <1>2, <1>3, <1>4, <1>5 DEF IInv

(***************************************************************************)
(* A frame: the part of the invariant about numbers and times.             *)
(***************************************************************************)
LEMMA HandleTimes ==
    ASSUME IInv, NEW d \in 1 .. MaxGap, NEW delay \in Delays, NEW n \in 0 .. MaxMissing,
           NEW noEof \in BOOLEAN, NEW matched \in BOOLEAN, NEW next \in BOOLEAN,
           Handle(d, delay, n, noEof, matched, next)
    PROVE  /\ NumbersInv' /\ FilterInv' /\ LateInv'
           /\ filter' \in FilterSet
           /\ taken' \in -1 .. MaxFrame
           /\ seen'.stamp \in Nat /\ seen'.arrival \in Nat
           /\ run'.late \in Nat
           /\ taken >= 0 => seen'.stamp >= seen.stamp
<1> DEFINE in == (taken + d) * Period + delay
           r == Run(filter, in, (taken + d) % FrameMod)
<1>1. /\ taken + d <= MaxFrame /\ in >= seen.arrival
      /\ taken' = taken + d
      /\ last_partial_frame_number_' = (taken + d) % FrameMod
      /\ filter' = r.filter
      /\ seen'.arrival = in /\ seen'.stamp = r.out
      /\ run'.late = IF in > r.out + LateLocked THEN run.late + 1 ELSE 0
  BY DEF Handle
<1>2. /\ in \in Nat
      /\ taken \in Int /\ taken + d \in 0 .. MaxFrame /\ run.late \in Nat
  BY <1>1, ArrivalTime DEF IInv, TypeOK
<1>3. /\ r.filter \in FilterSet
      /\ r.filter.last_frame_number = (taken + d) % FrameMod
      /\ r.filter.anticipated_time >= (taken + d) * Period
      /\ r.filter.relock_time >= r.filter.anticipated_time
      /\ r.filter.anticipated_time < INF
      /\ r.out \in Nat
      /\ r.out >= (taken + d) * Period
      /\ r.out <= in
      /\ r.out <= r.filter.anticipated_time + LateLocked
      /\ taken >= 0 => r.out >= seen.stamp
      /\ in > r.out + LateLocked =>
           \/ /\ run.late + 1 <= r.filter.unlocked_count
              /\ r.filter.unlocked_count <= MaxRecovery
           \/ /\ run.late + 1 <= MaxRecovery + 1
              /\ r.filter.unlocked_count > MaxRecovery
              /\ r.filter.relock_time = INF
  BY <1>1, RunInWindow DEF IInv
<1> HIDE DEF in, r
<1>4. NumbersInv'
  BY <1>1, <1>3 DEF NumbersInv
<1>5. FilterInv'
  BY <1>1, <1>2, <1>3 DEF FilterInv
<1>6. LateInv'
  BY <1>1, <1>2, <1>3 DEF LateInv
<1> QED BY <1>1, <1>2, <1>3, <1>4, <1>5, <1>6

(***************************************************************************)
(* A frame: the part about the statistics.  A frame with packets lost is   *)
(* dropped and counted once, and at most MaxMissing of its packets are.    *)
(***************************************************************************)
LEMMA HandleStatistics ==
    ASSUME IInv, NEW d \in 1 .. MaxGap, NEW delay \in Delays, NEW n \in 0 .. MaxMissing,
           NEW noEof \in BOOLEAN, NEW matched \in BOOLEAN, NEW next \in BOOLEAN,
           Handle(d, delay, n, noEof, matched, next)
    PROVE  /\ StatisticsInv'
           /\ stats' \in Nat \X Nat \X Nat \X Nat \X Nat
           /\ real' \in [gaps : Nat, lost : 0 .. MaxDropped * MaxMissing]
<1> DEFINE drops == missed_eof_count_ + missed_line_count_ + trigger_matcher_drop_count_
           number == (taken + d) % FrameMod
<1>1. /\ missed_eof_count_ \in Nat /\ missed_line_count_ \in Nat /\ dropped_packets_ \in Nat
      /\ massive_frame_losses_ \in Nat /\ trigger_matcher_drop_count_ \in Nat
      /\ real.gaps \in Nat /\ real.lost \in Nat /\ MaxMissing \in Nat /\ MaxDropped \in Nat
      /\ massive_frame_losses_ = real.gaps /\ dropped_packets_ <= real.lost
      /\ drops <= MaxDropped /\ real.lost <= MaxMissing * drops
      /\ n \in Nat /\ n <= MaxMissing
  BY DEF IInv, TypeOK, StatisticsInv, StatisticsTruthful, stats
<1>2. FrameDelta(number) = d
  BY FrameDeltaExact DEF IInv
<1>3. /\ noEof => n > 0
      /\ n > 0 => matched
      /\ (n = 0 /\ matched) \/ drops < MaxDropped
      /\ massive_frame_losses_' = massive_frame_losses_ + Count(d > 1)
      /\ missed_eof_count_' = missed_eof_count_ + Count(noEof)
      /\ missed_line_count_' = missed_line_count_ + Count(n > 0 /\ ~noEof)
      /\ dropped_packets_' = dropped_packets_ + (IF noEof THEN 1 ELSE n)
      /\ trigger_matcher_drop_count_' = trigger_matcher_drop_count_ + Count(n = 0 /\ ~matched)
      /\ real' = [gaps |-> real.gaps + Count(d > 1), lost |-> real.lost + n]
  BY <1>2 DEF Handle
<1>4. /\ massive_frame_losses_' \in Nat /\ missed_eof_count_' \in Nat /\ missed_line_count_' \in Nat
      /\ dropped_packets_' \in Nat /\ trigger_matcher_drop_count_' \in Nat
      /\ real'.gaps \in Nat /\ real'.lost \in Nat
      /\ massive_frame_losses_' = real'.gaps
      /\ dropped_packets_' <= real'.lost
  BY <1>1, <1>3 DEF Count
<1>5. drops' \in Nat /\ drops' <= MaxDropped /\ real'.lost <= MaxMissing * drops'
  <2>1. CASE n = 0 /\ matched
    <3>1. drops' = drops /\ real'.lost = real.lost /\ drops \in Nat
      BY <1>1, <1>3, <2>1 DEF Count
    <3> HIDE DEF drops
    <3> QED BY <1>1, <3>1
  <2>2. CASE ~(n = 0 /\ matched)
    <3>1. drops' = drops + 1 /\ drops < MaxDropped /\ real'.lost = real.lost + n /\ drops \in Nat
      BY <1>1, <1>3, <2>2 DEF Count
    <3> HIDE DEF drops
    <3>2. MaxMissing * (drops + 1) = MaxMissing * drops + MaxMissing * 1 /\ MaxMissing * drops \in Int
      <4>1. \A x \in Int : /\ MaxMissing * (x + 1) = MaxMissing * x + MaxMissing * 1
                           /\ MaxMissing * x \in Int
        BY Products
      <4> QED BY <3>1, <4>1
    <3>3. real'.lost <= MaxMissing * (drops + 1)
      BY <1>1, <3>1, <3>2
    <3>4. drops' \in Nat /\ drops' <= MaxDropped
      BY <1>1, <3>1
    <3> QED BY <3>1, <3>3, <3>4
  <2> QED BY <2>1, <2>2
<1>6. real'.lost <= MaxDropped * MaxMissing
  <2> HIDE DEF drops
  <2>1. \A x \in Nat : x <= MaxDropped =>
          /\ MaxMissing * x <= MaxMissing * MaxDropped
          /\ MaxMissing * x \in Int /\ MaxMissing * MaxDropped \in Int
          /\ MaxMissing * MaxDropped = MaxDropped * MaxMissing
    BY <1>1, Products
  <2> QED BY <1>4, <1>5, <2>1
<1> QED
  <2>1. StatisticsInv'
    BY <1>4, <1>5 DEF StatisticsInv, StatisticsTruthful
  <2>2. stats' \in Nat \X Nat \X Nat \X Nat \X Nat
    BY <1>4 DEF stats
  <2>3. real' \in [gaps : Nat, lost : 0 .. MaxDropped * MaxMissing]
    <3>1. MaxDropped * MaxMissing \in Int
      BY <1>1, Products
    <3> QED BY <1>3, <1>4, <1>6, <3>1
  <2> QED BY <2>1, <2>2, <2>3

(***************************************************************************)
(* The filter of the warnings, with a frame and without.                   *)
(***************************************************************************)
LEMMA HandleWarning ==
    ASSUME IInv, NEW d \in 1 .. MaxGap, NEW delay \in Delays, NEW n \in 0 .. MaxMissing,
           NEW noEof \in BOOLEAN, NEW matched \in BOOLEAN, NEW next \in BOOLEAN,
           Handle(d, delay, n, noEof, matched, next)
    PROVE  /\ WarnInv'
           /\ warn' \in [has_warned : BOOLEAN, countdown : 0 .. BeforeWarn + BeforeClear]
           /\ run'.bad = 0 /\ run'.good \in 0 .. BeforeClear + 1
           /\ warn'.has_warned => warn.has_warned
<1>1. /\ warn \in [has_warned : BOOLEAN, countdown : 0 .. BeforeWarn + BeforeClear]
      /\ run.good \in 0 .. BeforeClear + 1 /\ run.bad \in Nat
      /\ BeforeWarn \in Nat /\ BeforeClear \in Nat
  BY DEF IInv, TypeOK
<1>2. /\ warn' = GoodFrame(warn)
      /\ run'.bad = 0 /\ run'.good = Least(run.good + 1, BeforeClear + 1)
  BY DEF Handle
<1>3. CASE ~warn.has_warned
  <2>1. warn'.has_warned = FALSE /\ warn'.countdown = BeforeWarn /\ run.good > BeforeClear
    BY <1>1, <1>2, <1>3 DEF GoodFrame, IInv, WarnInv
  <2> QED BY <1>1, <1>2, <1>3, <2>1 DEF GoodFrame, WarnInv, Least
<1>4. CASE warn.has_warned /\ warn.countdown = 0
  <2>1. warn' = [has_warned |-> FALSE, countdown |-> BeforeClear] /\ run.good = BeforeClear
    BY <1>1, <1>2, <1>4 DEF GoodFrame, IInv, WarnInv
  <2> QED BY <1>1, <1>2, <1>4, <2>1 DEF WarnInv, Least
<1>5. CASE warn.has_warned /\ warn.countdown # 0
  <2>1. /\ warn' = [warn EXCEPT !.countdown = @ - 1]
        /\ warn'.has_warned = TRUE /\ warn'.countdown = warn.countdown - 1
        /\ run.good + warn.countdown = BeforeClear
    BY <1>1, <1>2, <1>5 DEF GoodFrame, IInv, WarnInv
  <2>2. run'.good = run.good + 1 /\ run'.good + warn'.countdown = BeforeClear
        /\ warn'.countdown \in 0 .. BeforeWarn + BeforeClear
    BY <1>1, <1>2, <1>5, <2>1 DEF Least
  <2>3. warn' \in [has_warned : BOOLEAN, countdown : 0 .. BeforeWarn + BeforeClear]
    BY <1>1, <2>1, <2>2
  <2> QED BY <1>1, <1>2, <1>5, <2>1, <2>2, <2>3 DEF WarnInv
<1> QED BY <1>1, <1>3, <1>4, <1>5

\* A silence moves the warning filter only, which keeps counting right.
LEMMA SilenceWarning ==
    ASSUME IInv, Silence
    PROVE  /\ WarnInv'
           /\ warn' \in [has_warned : BOOLEAN, countdown : 0 .. BeforeWarn + BeforeClear]
           /\ run'.late = run.late /\ run'.bad \in 0 .. MaxSilence /\ run'.good \in 0 .. BeforeClear + 1
           /\ run' \in [late : Nat, bad : 0 .. MaxSilence, good : 0 .. BeforeClear + 1]
           /\ (~warn.has_warned /\ warn'.has_warned) => run'.bad > BeforeWarn /\ run.good > BeforeClear
<1>1. /\ warn \in [has_warned : BOOLEAN, countdown : 0 .. BeforeWarn + BeforeClear]
      /\ run \in [late : Nat, bad : 0 .. MaxSilence, good : 0 .. BeforeClear + 1]
      /\ BeforeWarn \in Nat /\ BeforeClear \in Nat /\ MaxSilence \in Nat
  BY DEF IInv, TypeOK
<1>2. /\ warn' = BadFrame(warn)
      /\ run' = [run EXCEPT !.bad = @ + 1,
                            !.good = IF ~warn.has_warned /\ warn'.has_warned THEN 0
                                     ELSE IF @ > BeforeClear THEN @ ELSE 0]
      /\ run.bad < MaxSilence
  BY DEF Silence
<1>3. /\ run'.late = run.late /\ run'.bad = run.bad + 1 /\ run'.bad \in 0 .. MaxSilence
      /\ run'.good = IF ~warn.has_warned /\ warn'.has_warned THEN 0
                     ELSE IF run.good > BeforeClear THEN run.good ELSE 0
      /\ run'.good \in 0 .. BeforeClear + 1
      /\ run' \in [late : Nat, bad : 0 .. MaxSilence, good : 0 .. BeforeClear + 1]
  <2> DEFINE g == IF ~warn.has_warned /\ warn'.has_warned THEN 0
                  ELSE IF run.good > BeforeClear THEN run.good ELSE 0
  <2>1. run' = [run EXCEPT !.bad = run.bad + 1, !.good = g]
    BY <1>2
  <2>2. g \in 0 .. BeforeClear + 1 /\ run.bad + 1 \in 0 .. MaxSilence
    BY <1>1, <1>2
  <2> HIDE DEF g
  <2>3. run'.late = run.late /\ run'.bad = run.bad + 1 /\ run'.good = g
    BY <1>1, <2>1
  <2>4. run' \in [late : Nat, bad : 0 .. MaxSilence, good : 0 .. BeforeClear + 1]
    BY <1>1, <2>1, <2>2
  <2> QED BY <2>2, <2>3, <2>4 DEF g
<1>4. CASE warn.has_warned
  <2>1. /\ warn' = [warn EXCEPT !.countdown = BeforeClear]
        /\ warn'.has_warned = TRUE /\ warn'.countdown = BeforeClear
        /\ run.good + warn.countdown = BeforeClear
    BY <1>1, <1>2, <1>4 DEF BadFrame, IInv, WarnInv
  <2> QED BY <1>1, <1>3, <1>4, <2>1 DEF WarnInv
<1>5. CASE ~warn.has_warned /\ warn.countdown = 0
  <2>1. /\ warn' = [has_warned |-> TRUE, countdown |-> BeforeWarn]
        /\ run.bad = BeforeWarn /\ run.good > BeforeClear
    BY <1>1, <1>2, <1>5 DEF BadFrame, IInv, WarnInv
  <2> QED BY <1>1, <1>3, <1>5, <2>1 DEF WarnInv
<1>6. CASE ~warn.has_warned /\ warn.countdown # 0
  <2>1. /\ warn' = [warn EXCEPT !.countdown = @ - 1]
        /\ warn'.has_warned = FALSE /\ warn'.countdown = warn.countdown - 1
        /\ run.bad + warn.countdown = BeforeWarn /\ run.good > BeforeClear
    BY <1>1, <1>2, <1>6 DEF BadFrame, IInv, WarnInv
  <2> QED BY <1>1, <1>3, <1>6, <2>1 DEF WarnInv
<1> QED BY <1>3, <1>4, <1>5, <1>6

\* A frame handled keeps the invariant.
LEMMA HandleInv ==
    ASSUME IInv, NEW d \in 1 .. MaxGap, NEW delay \in Delays, NEW n \in 0 .. MaxMissing,
           NEW noEof \in BOOLEAN, NEW matched \in BOOLEAN, NEW next \in BOOLEAN,
           Handle(d, delay, n, noEof, matched, next)
    PROVE  IInv'
<1>1. /\ NumbersInv' /\ FilterInv' /\ LateInv'
      /\ filter' \in FilterSet
      /\ taken' \in -1 .. MaxFrame
      /\ seen'.stamp \in Nat /\ seen'.arrival \in Nat
      /\ run'.late \in Nat
  BY HandleTimes
<1>2. /\ StatisticsInv'
      /\ stats' \in Nat \X Nat \X Nat \X Nat \X Nat
      /\ real' \in [gaps : Nat, lost : 0 .. MaxDropped * MaxMissing]
  BY HandleStatistics
<1>3. /\ WarnInv'
      /\ warn' \in [has_warned : BOOLEAN, countdown : 0 .. BeforeWarn + BeforeClear]
      /\ run'.bad = 0 /\ run'.good \in 0 .. BeforeClear + 1
  BY HandleWarning
<1>4. ContextInv'
  BY DEF Handle, ContextInv
<1>5. TypeOK'
  <2>1. last_partial_frame_number_' \in 0 .. FrameMod - 1
    <3>1. taken + d \in Int /\ FrameMod \in Nat \ {0}
      BY DEF IInv, TypeOK
    <3>2. (taken + d) % FrameMod \in 0 .. FrameMod - 1
      BY <3>1, Remainder
    <3> QED BY <3>2 DEF Handle
  <2>2. next_is_alternate_' \in BOOLEAN /\ external' \in BOOLEAN /\ context' \in BOOLEAN
    BY DEF Handle, IInv, TypeOK
  <2>3. runs' \in 1 .. MaxRuns
    BY DEF Handle, IInv, TypeOK
  <2>4. seen' \in [arrival : Nat, stamp : Nat, published : BOOLEAN, right : BOOLEAN]
    BY <1>1 DEF Handle
  <2>5. run' \in [late : Nat, bad : 0 .. MaxSilence, good : 0 .. BeforeClear + 1]
    <3>1. run' = [late |-> run'.late, bad |-> run'.bad, good |-> run'.good]
      BY DEF Handle
    <3> QED BY <1>1, <1>3, <3>1
  <2> QED BY <1>1, <1>2, <1>3, <2>1, <2>2, <2>3, <2>4, <2>5 DEF TypeOK, FilterSet
<1> QED BY <1>1, <1>2, <1>3, <1>4, <1>5 DEF IInv

\* So does a silence.
LEMMA SilenceInv == ASSUME IInv, Silence PROVE IInv'
<1>1. UNCHANGED <<filter, last_partial_frame_number_, stats, next_is_alternate_, env, seen, real>>
  BY DEF Silence
<1>2. /\ WarnInv'
      /\ warn' \in [has_warned : BOOLEAN, countdown : 0 .. BeforeWarn + BeforeClear]
      /\ run'.late = run.late
      /\ run' \in [late : Nat, bad : 0 .. MaxSilence, good : 0 .. BeforeClear + 1]
  BY SilenceWarning
<1>3. TypeOK'
  BY <1>1, <1>2 DEF IInv, TypeOK, stats, env
<1>4. NumbersInv' /\ FilterInv' /\ LateInv'
  BY <1>1, <1>2 DEF IInv, NumbersInv, FilterInv, LateInv, env
<1>5. StatisticsInv' /\ ContextInv'
  BY <1>1 DEF IInv, StatisticsInv, StatisticsTruthful, ContextInv, stats, env
<1> QED BY <1>2, <1>3, <1>4, <1>5 DEF IInv

\* So does a start of the driver.
LEMMA NewRunInv == ASSUME IInv, NewRun PROVE IInv'
<1>1. /\ runs < MaxRuns /\ runs' = runs + 1
      /\ last_partial_frame_number_' = FrameMod - 1
      /\ filter' = ResetFilter(filter)
      /\ taken' = -1 /\ seen' = NoFrame
      /\ run' = [run EXCEPT !.late = 0]
      /\ UNCHANGED <<stats, next_is_alternate_, warn, external, context, real>>
  BY DEF NewRun
<1>2. /\ filter \in FilterSet
      /\ run \in [late : Nat, bad : 0 .. MaxSilence, good : 0 .. BeforeClear + 1]
  BY DEF IInv, TypeOK, FilterSet
<1>3. /\ filter' \in FilterSet
      /\ filter'.anticipated_time = INF /\ filter'.relock_time = INF
  BY <1>1, <1>2 DEF ResetFilter, FilterSet
<1>4. /\ run' \in [late : Nat, bad : 0 .. MaxSilence, good : 0 .. BeforeClear + 1]
      /\ run'.late = 0 /\ run'.bad = run.bad /\ run'.good = run.good
  BY <1>1, <1>2
<1>5. TypeOK'
  <2>1. runs' \in 1 .. MaxRuns /\ taken' \in -1 .. MaxFrame /\ FrameMod - 1 \in 0 .. FrameMod - 1
    BY <1>1 DEF IInv, TypeOK
  <2>2. seen' \in [arrival : Nat, stamp : Nat, published : BOOLEAN, right : BOOLEAN]
    BY <1>1 DEF NoFrame
  <2> QED BY <1>1, <1>3, <1>4, <2>1, <2>2 DEF IInv, TypeOK, FilterSet, stats
<1>6. NumbersInv'
  BY <1>1, BeforeFirst DEF NumbersInv
<1>7. FilterInv' /\ LateInv'
  BY <1>1, <1>3, <1>4 DEF FilterInv, LateInv, NoFrame
<1>8. StatisticsInv' /\ ContextInv'
  BY <1>1 DEF IInv, StatisticsInv, StatisticsTruthful, ContextInv, stats, NoFrame
<1>9. WarnInv'
  BY <1>1, <1>4 DEF IInv, WarnInv
<1> QED BY <1>5, <1>6, <1>7, <1>8, <1>9 DEF IInv

\* So does every step.
LEMMA NextInv == IInv /\ [Next]_vars => IInv'
<1> SUFFICES ASSUME IInv, [Next]_vars PROVE IInv'
  OBVIOUS
<1>1. CASE SomeFrame
  BY <1>1, HandleInv DEF SomeFrame
<1>2. CASE Silence
  BY <1>2, SilenceInv
<1>3. CASE NewRun
  BY <1>3, NewRunInv
<1>4. CASE UNCHANGED vars
  <2>1. UNCHANGED <<filter, last_partial_frame_number_, next_is_alternate_, warn, external, taken,
                    context, runs, seen, run, real>>
        /\ UNCHANGED stats
    BY <1>4 DEF vars, env, history
  <2>2. TypeOK'
    BY <2>1 DEF IInv, TypeOK
  <2>3. NumbersInv' /\ FilterInv' /\ LateInv' /\ ContextInv' /\ WarnInv'
    BY <2>1 DEF IInv, NumbersInv, FilterInv, LateInv, ContextInv, WarnInv
  <2>4. StatisticsInv'
    BY <2>1 DEF IInv, StatisticsInv, StatisticsTruthful, stats
  <2> QED BY <2>2, <2>3, <2>4 DEF IInv
<1> QED BY <1>1, <1>2, <1>3, <1>4 DEF Next

\* The invariant holds in every state.
LEMMA Invariance == Spec => []IInv
  BY InitInv, NextInv, PTL DEF Spec

-----------------------------------------------------------------------------
(***************************************************************************)
(* Type correctness; in particular the frames dropped and the packets lost *)
(* stay within the bounds of the model.                                    *)
(***************************************************************************)
THEOREM TypeCorrect == Spec => []TypeOK
<1>1. IInv => TypeOK
  BY DEF IInv
<1> QED BY <1>1, Invariance, PTL

(***************************************************************************)
(* The filtered time lies between taking the frame and its arrival, for    *)
(* every distribution of the delays (and with external triggers too).      *)
(***************************************************************************)
THEOREM WithinWindow == Spec => []StampsInWindow
<1>1. IInv => StampsInWindow
  <2> SUFFICES ASSUME IInv PROVE StampsInWindow
    OBVIOUS
  <2>1. /\ taken \in Int /\ seen.stamp \in Nat /\ seen.arrival \in Nat
        /\ taken * Period \in Int
    BY Products DEF IInv, TypeOK
  <2> QED BY <2>1 DEF IInv, FilterInv, StampsInWindow
<1> QED BY <1>1, Invariance, PTL

(***************************************************************************)
(* The filtered times of a run never go back.                              *)
(***************************************************************************)
THEOREM TimesAdvance == Spec => StampsAdvance
<1>1. ASSUME IInv, [Next]_vars
      PROVE  [taken' > taken /\ taken >= 0 => seen'.stamp >= seen.stamp]_vars
  <2>1. CASE SomeFrame
    BY <1>1, <2>1, HandleTimes DEF SomeFrame
  <2>2. CASE Silence
    <3>1. taken' = taken /\ taken \in Int
      BY <1>1, <2>2 DEF Silence, env, IInv, TypeOK
    <3> QED BY <3>1
  <2>3. CASE NewRun
    <3>1. taken' = -1 /\ taken \in Int
      BY <1>1, <2>3 DEF NewRun, IInv, TypeOK
    <3> QED BY <3>1
  <2> QED BY <1>1, <2>1, <2>2, <2>3 DEF Next
<1> QED BY <1>1, Invariance, PTL DEF Spec, StampsAdvance

(***************************************************************************)
(* No more than max_recovery_frames_ frames in a row, and the one the      *)
(* filter recovers at, are late by more than the threshold.                *)
(***************************************************************************)
THEOREM LateBounded == Spec => []LateRunBounded
<1>1. IInv => LateRunBounded
  <2> SUFFICES ASSUME IInv PROVE LateRunBounded
    OBVIOUS
  <2>1. run.late \in Nat /\ filter.unlocked_count \in Nat /\ MaxRecovery \in Nat
    BY DEF IInv, TypeOK
  <2> QED BY <2>1 DEF IInv, LateInv, LateRunBounded
<1> QED BY <1>1, Invariance, PTL

(***************************************************************************)
(* Every gap is counted once, over the wrap of the frame number too, and   *)
(* no more packets are reported lost than were.                            *)
(***************************************************************************)
THEOREM Truthful == Spec => []StatisticsTruthful
<1>1. IInv => StatisticsTruthful
  BY DEF IInv, StatisticsInv
<1> QED BY <1>1, Invariance, PTL

(***************************************************************************)
(* A frame published right after a published frame carries the context it  *)
(* was taken in.                                                           *)
(***************************************************************************)
THEOREM AlternateRight == Spec => AlternateFollowsEof
<1>1. ASSUME IInv, [Next]_vars
      PROVE  [seen.published /\ seen'.published /\ taken' = taken + 1 => seen'.right]_vars
  <2>1. CASE SomeFrame
    <3> SUFFICES ASSUME seen.published, taken' = taken + 1 PROVE seen'.right
      OBVIOUS
    <3>1. PICK d \in 1 .. MaxGap, delay \in Delays, n \in 0 .. MaxMissing,
               noEof, matched, next \in BOOLEAN : Handle(d, delay, n, noEof, matched, next)
      BY <2>1 DEF SomeFrame
    <3>2. seen'.right = (d = 1 => next_is_alternate_ = context)
      BY <3>1 DEF Handle, Alternate
    <3> QED BY <1>1, <3>2 DEF IInv, ContextInv
  <2>2. CASE Silence
    <3>1. taken' = taken /\ taken \in Int
      BY <1>1, <2>2 DEF Silence, env, IInv, TypeOK
    <3> QED BY <3>1
  <2>3. CASE NewRun
    <3>1. seen'.published = FALSE
      BY <2>3 DEF NewRun, NoFrame
    <3> QED BY <3>1
  <2> QED BY <1>1, <2>1, <2>2, <2>3 DEF Next
<1> QED BY <1>1, Invariance, PTL DEF Spec, AlternateFollowsEof

(***************************************************************************)
(* A warning needs more than before_warn_ silent seconds in a row, and     *)
(* more than before_clear_ frames in a row since the warning before it.    *)
(***************************************************************************)
THEOREM WarnApart == Spec => WarningsApart
<1>1. ASSUME IInv, [Next]_vars
      PROVE  [~warn.has_warned /\ warn'.has_warned
                => run'.bad > BeforeWarn /\ run.good > BeforeClear]_vars
  <2>1. CASE SomeFrame
    BY <1>1, <2>1, HandleWarning DEF SomeFrame
  <2>2. CASE Silence
    BY <1>1, <2>2, SilenceWarning
  <2>3. CASE NewRun
    BY <2>3 DEF NewRun
  <2>4. CASE UNCHANGED vars
    <3>1. warn' = warn
      BY <2>4 DEF vars
    <3> QED BY <3>1
  <2> QED BY <1>1, <2>1, <2>2, <2>3, <2>4 DEF Next
<1> QED BY <1>1, Invariance, PTL DEF Spec, WarningsApart
=============================================================================
