------------------------ MODULE DriverLifecycleProofs ------------------------
(***************************************************************************)
(* Theorems about DriverLifecycle: its type invariant, that one image      *)
(* thread is alive at a time, that a run has its thread, that the flash is *)
(* written while the camera is quiet, and that an image thread touches     *)
(* neither the state nor the stream of a later run.  They hold for any     *)
(* number of runs and jobs.                                                *)
(***************************************************************************)
EXTENDS DriverLifecycle, FiniteSetTheorems, TLAPS

(***************************************************************************)
(* The inductive invariant.  The threads created so far are 1 .. current,  *)
(* and the camera streams to one of them.                                  *)
(***************************************************************************)
ThreadsNumbered ==
    /\ \A t \in Runs : thread[t] = "none" <=> t > current
    /\ stream <= current

\* A caller that waits or writes has brought the driver to OPENED.
CallerInv ==
    /\ pc \in {"join", "writing"} => state = OPENED
    /\ pc = "join" => current \in Runs
    /\ pc # "go" => locked /\ goal # <<>>

(***************************************************************************)
(* Between a Stop and its join the last thread may still run; before and   *)
(* after it a driver that does not run has no thread.                      *)
(***************************************************************************)
QuietInv ==
    lost = {} =>
      /\ \A t \in Alive : t = current
      /\ (state # RUNNING /\ pc # "join") => Alive = {}

IInv == TypeOK /\ ThreadsNumbered /\ CallerInv /\ RunHasItsThread /\ QuietInv

USE MaxRunsAssumption, MaxJobsAssumption
USE DEF CLOSED, OPENED, RUNNING, States, Runs, WriteFlash

-----------------------------------------------------------------------------
(***************************************************************************)
(* A driver just constructed is closed, and no thread was created.         *)
(***************************************************************************)
LEMMA InitInv == Init => IInv
<1> SUFFICES ASSUME Init PROVE IInv
  OBVIOUS
<1> USE DEF Init
<1>1. TypeOK
  <2>1. thread \in [Runs -> {"none", "start", "receive", "lockWait", "stopVid",
                         "check", "set", "dead"}]
    OBVIOUS
  <2>2. goal \in Seq(States \cup {WriteFlash})
    OBVIOUS
  <2>3. 0 \in 0 .. MaxRuns /\ 0 \in 0 .. MaxJobs
    OBVIOUS
  <2> QED BY <2>1, <2>2, <2>3 DEF TypeOK
<1>2. Alive = {}
  BY DEF Alive
<1> QED
  BY <1>1, <1>2 DEF IInv, ThreadsNumbered, CallerInv, RunHasItsThread, QuietInv

(***************************************************************************)
(* Every step of the callers and of the image threads keeps the types.     *)
(***************************************************************************)
LEMMA NextTyped == IInv /\ [Next]_vars => TypeOK'
<1> SUFFICES ASSUME IInv, [Next]_vars PROVE TypeOK'
  OBVIOUS
<1> USE DEF IInv, TypeOK
<1>1. goal # <<>> => Tail(goal) \in Seq(States \cup {WriteFlash})
  OBVIOUS
<1>2. Jobs \subseteq Seq(States \cup {WriteFlash})
  <2>1. \A s \in States : <<s>> \in Seq(States \cup {WriteFlash})
    OBVIOUS
  <2>2. SaveIntrinsics \in Seq(States \cup {WriteFlash})
    BY DEF SaveIntrinsics
  <2> QED BY <2>1, <2>2 DEF Jobs
<1>3. CASE Begin
  BY <1>2, <1>3 DEF Begin
<1>4. CASE End
  BY <1>4 DEF End
<1>5. CASE Arrived \/ Open \/ Close \/ StartFails
  BY <1>1, <1>5 DEF Arrived, Open, Close, StartFails, Toward, callerVars
<1>6. ASSUME NEW t \in Runs, Start(t) PROVE TypeOK'
  BY <1>6 DEF Start, Toward
<1>7. CASE Stop \/ Joined
  BY <1>7 DEF Stop, Joined, Toward
<1>8. CASE JoinTimesOut
  BY <1>8 DEF JoinTimesOut, CallerInv
<1>9. CASE WriteBegins \/ WriteEnds \/ WriteRefused
  <2>1. CASE WriteBegins
    BY <2>1 DEF WriteBegins
  <2>2. CASE WriteEnds
    BY <1>1, <2>2 DEF WriteEnds, CallerInv
  <2>3. CASE WriteRefused
    BY <1>1, <2>3 DEF WriteRefused, Toward
  <2> QED BY <1>9, <2>1, <2>2, <2>3
<1>10. ASSUME NEW t \in Runs, ImageThread(t) PROVE TypeOK'
  <2>1. /\ thread' \in [Runs -> {"none", "start", "receive", "lockWait", "stopVid",
                               "check", "set", "dead"}]
        /\ UNCHANGED callerVars
        /\ state' \in {state, OPENED}
        /\ stream' \in {stream, t, 0}
    <3>1. CASE StartVid(t) \/ StopVid(t)
      BY <3>1 DEF StartVid, StopVid, Goes
    <3>2. CASE SeesStop(t) \/ ReceiveFails(t) \/ Silence(t) \/ Locks(t) \/ Check(t)
      BY <3>2 DEF SeesStop, ReceiveFails, Silence, Locks, Check, Goes
    <3>3. CASE SetOpened(t)
      BY <3>3 DEF SetOpened, Goes
    <3> QED BY <1>10, <3>1, <3>2, <3>3 DEF ImageThread
  <2> QED BY <2>1 DEF callerVars
<1>11. CASE UNCHANGED vars
  BY <1>11 DEF vars, callerVars
<1> QED
  BY <1>3, <1>4, <1>5, <1>6, <1>7, <1>8, <1>9, <1>10, <1>11 DEF Next, Caller

(***************************************************************************)
(* A step of an image thread: it was created, nothing changes but where it *)
(* is, and it ends or it goes on.                                          *)
(***************************************************************************)
LEMMA ThreadStep ==
    ASSUME IInv, NEW t \in Runs, ImageThread(t)
    PROVE  /\ t \in Alive /\ t <= current
           /\ UNCHANGED callerVars
           /\ thread'[t] # "none"
           /\ \A u \in Runs : u # t => thread'[u] = thread[u]
           /\ stream' \in {stream, t, 0}
           /\ \/ UNCHANGED state /\ thread'[t] # "dead"
              \/ UNCHANGED state /\ state # RUNNING
              \/ state' = OPENED /\ thread'[t] = "dead"
<1> USE DEF IInv, TypeOK, ThreadsNumbered, Goes, Alive
<1>1. CASE StartVid(t) \/ StopVid(t)
  BY <1>1 DEF StartVid, StopVid
<1>2. CASE SeesStop(t) \/ ReceiveFails(t) \/ Silence(t) \/ Locks(t)
  BY <1>2 DEF SeesStop, ReceiveFails, Silence, Locks
<1>3. CASE Check(t)
  BY <1>3 DEF Check
<1>4. CASE SetOpened(t)
  BY <1>4 DEF SetOpened
<1> QED BY <1>1, <1>2, <1>3, <1>4 DEF ImageThread

(***************************************************************************)
(* Every step keeps the inductive invariant.  It rests on the join: the    *)
(* driver is started again only from OPENED, where the last thread has     *)
(* been joined or was counted as lost.                                     *)
(***************************************************************************)
LEMMA NextInv == IInv /\ [Next]_vars => IInv'
<1> SUFFICES ASSUME IInv, [Next]_vars PROVE IInv'
  OBVIOUS
<1>1. TypeOK'
  BY NextTyped
<1> SUFFICES (ThreadsNumbered /\ CallerInv /\ RunHasItsThread /\ QuietInv)'
  BY <1>1 DEF IInv
<1> USE DEF ThreadsNumbered, CallerInv, RunHasItsThread, QuietInv
<1>2. TypeOK /\ ThreadsNumbered /\ CallerInv /\ RunHasItsThread /\ QuietInv
  BY DEF IInv
<1>3. UNCHANGED thread => Alive' = Alive
  BY DEF Alive
<1>4. CASE Begin \/ End \/ Arrived \/ WriteBegins \/ WriteRefused
  <2>1. CASE Begin \/ End
    BY <1>2, <1>3, <2>1 DEF Begin, End
  <2>2. CASE Arrived \/ WriteBegins \/ WriteRefused
    BY <1>2, <1>3, <2>2 DEF Arrived, WriteBegins, WriteRefused, Toward
  <2> QED BY <1>4, <2>1, <2>2
<1>5. CASE Open \/ Close \/ StartFails
  BY <1>2, <1>3, <1>5 DEF Open, Close, StartFails, Toward, callerVars
<1>6. ASSUME NEW t \in Runs, Start(t)
      PROVE  (ThreadsNumbered /\ CallerInv /\ RunHasItsThread /\ QuietInv)'
  <2>1. /\ state = OPENED /\ pc = "go" /\ t = current + 1
        /\ state' = RUNNING /\ current' = t /\ UNCHANGED <<pc, goal, stream, lost>>
        /\ thread'[t] = "start"
        /\ \A u \in Runs : u # t => thread'[u] = thread[u]
    BY <1>2, <1>6 DEF Start, Toward, TypeOK
  <2>2. ThreadsNumbered'
    BY <1>2, <2>1 DEF TypeOK
  <2>3. /\ t \in Alive'
        /\ lost = {} => \A u \in Alive' : u = t
    BY <1>2, <2>1 DEF Alive
  <2> QED BY <2>1, <2>2, <2>3
<1>7. CASE Stop
  BY <1>2, <1>3, <1>7 DEF Stop, Toward, Alive
<1>8. CASE Joined
  BY <1>2, <1>3, <1>8 DEF Joined
<1>9. CASE JoinTimesOut
  BY <1>2, <1>3, <1>9 DEF JoinTimesOut
<1>10. CASE WriteEnds
  BY <1>2, <1>3, <1>10 DEF WriteEnds
<1>11. ASSUME NEW t \in Runs, ImageThread(t)
       PROVE  (ThreadsNumbered /\ CallerInv /\ RunHasItsThread /\ QuietInv)'
  <2>1. /\ t \in Alive /\ t <= current
        /\ UNCHANGED callerVars
        /\ thread'[t] # "none"
        /\ \A u \in Runs : u # t => thread'[u] = thread[u]
        /\ stream' \in {stream, t, 0}
    BY <1>11, ThreadStep
  <2>2. \/ UNCHANGED state /\ thread'[t] # "dead"
        \/ UNCHANGED state /\ state # RUNNING
        \/ state' = OPENED /\ thread'[t] = "dead"
    BY <1>11, ThreadStep
  <2>3. ThreadsNumbered'
    BY <1>2, <2>1 DEF Alive, callerVars, TypeOK
  <2>4. /\ Alive' \subseteq Alive
        /\ Alive \ {t} \subseteq Alive'
        /\ thread'[t] # "dead" => Alive' = Alive
        /\ thread'[t] = "dead" => t \notin Alive'
    BY <2>1 DEF Alive
  <2>5. QuietInv'
    <3>1. SUFFICES ASSUME lost = {} PROVE QuietInv'
      BY <2>1 DEF callerVars
    <3>2. t = current /\ \A u \in Alive : u = t
      BY <1>2, <2>1, <3>1
    <3> QED BY <1>2, <2>1, <2>2, <2>4, <3>2 DEF callerVars
  <2> QED BY <1>2, <2>1, <2>2, <2>3, <2>4, <2>5 DEF callerVars
<1>12. CASE UNCHANGED vars
  BY <1>2, <1>3, <1>12 DEF vars, callerVars
<1> QED
  BY <1>4, <1>5, <1>6, <1>7, <1>8, <1>9, <1>10, <1>11, <1>12 DEF Next, Caller

\* The invariant holds in every state of the driver.
LEMMA SpecInv == Spec => []IInv
<1> QED BY InitInv, NextInv, PTL DEF Spec

-----------------------------------------------------------------------------
(***************************************************************************)
(* Type correctness of the driver's state machine.                         *)
(***************************************************************************)
THEOREM TypeCorrect == Spec => []TypeOK
<1>1. IInv => TypeOK
  BY DEF IInv
<1> QED BY <1>1, SpecInv, PTL

(***************************************************************************)
(* One image thread at a time, until doStop gives one up.                  *)
(***************************************************************************)
THEOREM OneThread == Spec => []OneImageThread
<1>1. IInv => OneImageThread
  <2> SUFFICES ASSUME IInv, lost = {} PROVE Cardinality(Alive) <= 1
    BY DEF OneImageThread
  <2>1. Alive \subseteq {current}
    BY DEF IInv, QuietInv
  <2>2. IsFiniteSet({current}) /\ Cardinality({current}) = 1
    BY FS_Singleton
  <2>3. Cardinality(Alive) <= Cardinality({current})
    BY <2>1, <2>2, FS_Subset
  <2> QED BY <2>2, <2>3
<1> QED BY <1>1, SpecInv, PTL

(***************************************************************************)
(* A driver in state RUNNING has the thread of its run, also after threads *)
(* were given up.                                                          *)
(***************************************************************************)
THEOREM RunningHasThread == Spec => []RunHasItsThread
<1>1. IInv => RunHasItsThread
  BY DEF IInv
<1> QED BY <1>1, SpecInv, PTL

(***************************************************************************)
(* saveIntrinsics writes in state OPENED, with no image thread running.    *)
(***************************************************************************)
THEOREM QuietWrites == Spec => []WriteIsQuiet
<1>1. IInv => WriteIsQuiet
  BY DEF IInv, CallerInv, QuietInv, WriteIsQuiet
<1> QED BY <1>1, SpecInv, PTL

(***************************************************************************)
(* The end of imageThread sets the state of its own run only: it finds     *)
(* RUNNING, and state_ may become OPENED behind its back, but neither      *)
(* CLOSED nor RUNNING of a later run.                                      *)
(***************************************************************************)
THEOREM OwnRunEnds == Spec => EndsOwnRunOnly
<1>1. IInv /\ [Next]_vars =>
        [\A t \in Runs : (lost = {} /\ SetOpened(t)) => t = current /\ state # CLOSED]_vars
  <2> SUFFICES ASSUME IInv, NEW t \in Runs, lost = {}, SetOpened(t)
               PROVE  t = current /\ state # CLOSED
    OBVIOUS
  <2>1. t \in Alive
    BY DEF SetOpened, Goes, Alive
  <2> QED BY <2>1 DEF IInv, QuietInv, CallerInv
<1> QED BY <1>1, SpecInv, PTL DEF EndsOwnRunOnly, Spec

(***************************************************************************)
(* The stop command an image thread sends at its end never meets the video *)
(* stream of a later run.                                                  *)
(***************************************************************************)
THEOREM LaterStreamsGoOn == Spec => StopsNoLaterStream
<1>1. IInv /\ [Next]_vars =>
        [\A t \in Runs : (lost = {} /\ StopVid(t)) => stream <= t]_vars
  <2> SUFFICES ASSUME IInv, NEW t \in Runs, lost = {}, StopVid(t)
               PROVE  stream <= t
    OBVIOUS
  <2>1. t \in Alive
    BY DEF StopVid, Goes, Alive
  <2> QED BY <2>1 DEF IInv, QuietInv, ThreadsNumbered
<1> QED BY <1>1, SpecInv, PTL DEF StopsNoLaterStream, Spec
=============================================================================
