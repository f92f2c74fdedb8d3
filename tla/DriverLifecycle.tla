-------------------------- MODULE DriverLifecycle ---------------------------
(***************************************************************************)
(* The states of the camera driver (wge100_camera_node.cpp), the callers   *)
(* that move it between them, and the image threads.                       *)
(*                                                                         *)
(* The callers (the main loop of driver_base, the services, the self test) *)
(* hold the driver's mutex for the whole of a job, so one of them acts at  *)
(* a time.  An image thread takes the mutex only when its frame handler is *)
(* called with NULL, and reads and writes state_ without it.               *)
(***************************************************************************)
EXTENDS Integers, Sequences, FiniteSets

CONSTANTS MaxRuns,   \* bound: image threads created
          MaxJobs    \* bound: jobs of the callers

ASSUME MaxRunsAssumption == MaxRuns \in Nat
ASSUME MaxJobsAssumption == MaxJobs \in Nat

CLOSED == 0
OPENED == 1
RUNNING == 2
States == {CLOSED, OPENED, RUNNING}

VARIABLES state,    \* state_
          locked,   \* a caller holds mutex_
          goal,     \* what is left of the caller's job
          pc,       \* "go", "join" in doStop, "writing" in saveIntrinsics
          current,  \* the thread image_thread_ points to, 0 for none
          thread,   \* where every image thread is
          stream,   \* the run the camera sends video to, 0 for none
          lost,     \* threads given up by doStop (lost_image_thread_count_)
          jobs      \* jobs begun (history)

callerVars == <<locked, goal, pc, current, lost, jobs>>
vars == <<state, callerVars, thread, stream>>

Runs == 1 .. MaxRuns
Alive == { t \in Runs : thread[t] \notin {"none", "dead"} }

Init ==
    /\ state = CLOSED
    /\ locked = FALSE
    /\ goal = <<>>
    /\ pc = "go"
    /\ current = 0
    /\ thread = [t \in Runs |-> "none"]
    /\ stream = 0
    /\ lost = {}
    /\ jobs = 0

-----------------------------------------------------------------------------
(***************************************************************************)
(* A job is a sequence of target states; set_camera_info goes to OPENED,   *)
(* writes the flash, closes and runs again, under one lock.                *)
(***************************************************************************)
WriteFlash == 3
SaveIntrinsics == <<OPENED, WriteFlash, CLOSED, RUNNING>>
Jobs == { <<s>> : s \in States } \cup {SaveIntrinsics}

Begin ==
    /\ ~locked
    /\ jobs < MaxJobs
    /\ jobs' = jobs + 1
    /\ locked' = TRUE
    /\ goal' \in Jobs
    /\ UNCHANGED <<state, pc, current, thread, stream, lost>>

End ==
    /\ locked
    /\ goal = <<>>
    /\ locked' = FALSE
    /\ UNCHANGED <<state, goal, pc, current, thread, stream, lost, jobs>>

\* The caller's next transition is towards a state of the set targets.
Toward(targets) == locked /\ pc = "go" /\ goal # <<>> /\ Head(goal) \in targets

Arrived ==
    /\ Toward({state})
    /\ goal' = Tail(goal)
    /\ UNCHANGED <<state, locked, pc, current, thread, stream, lost, jobs>>

\* doOpen succeeds, or returns early and leaves the driver closed.
Open ==
    /\ Toward({OPENED, RUNNING})
    /\ state = CLOSED
    /\ \/ state' = OPENED /\ UNCHANGED goal
       \/ goal' = Tail(goal) /\ UNCHANGED state
    /\ UNCHANGED <<locked, pc, current, thread, stream, lost, jobs>>

\* A fault: lowers the state without looking at it.
CloseUnchecked ==
    /\ Toward({CLOSED})
    /\ state' = state - 1
    /\ UNCHANGED <<callerVars, thread, stream>>

Close ==
    /\ Toward({CLOSED})
    /\ state = OPENED
    /\ state' = CLOSED
    /\ UNCHANGED <<callerVars, thread, stream>>

(***************************************************************************)
(* doStart: the trigger mode cannot be set and the driver is closed, or it *)
(* runs and a new image thread replaces the handle of the last one.        *)
(***************************************************************************)
StartFails ==
    /\ Toward({RUNNING})
    /\ state = OPENED
    /\ state' = CLOSED
    /\ goal' = Tail(goal)
    /\ UNCHANGED <<locked, pc, current, thread, stream, lost, jobs>>

Start(t) ==
    /\ Toward({RUNNING})
    /\ state = OPENED
    /\ thread[t] = "none"
    /\ t = current + 1
    /\ state' = RUNNING
    /\ current' = t
    /\ thread' = [thread EXCEPT ![t] = "start"]
    /\ UNCHANGED <<locked, goal, pc, stream, lost, jobs>>

\* doStop up to the join; a run that ended by itself needs none.
Stop ==
    /\ Toward({CLOSED, OPENED})
    /\ state = RUNNING
    /\ state' = OPENED
    /\ pc' = "join"
    /\ UNCHANGED <<locked, goal, current, thread, stream, lost, jobs>>

\* A fault: does not wait for the thread.
JoinedTooEarly ==
    /\ pc = "join"
    /\ pc' = "go"
    /\ UNCHANGED <<state, locked, goal, current, thread, stream, lost, jobs>>

Joined ==
    /\ pc = "join"
    /\ current \notin Alive
    /\ pc' = "go"
    /\ UNCHANGED <<state, locked, goal, current, thread, stream, lost, jobs>>

\* A fault: join without a timeout.
JoinWaits == FALSE /\ UNCHANGED vars

(***************************************************************************)
(* The join times out after two seconds.  A thread needs at most 1.2       *)
(* seconds (select, one reply timeout) to see the new state and end,       *)
(* unless it waits for the mutex this caller holds.                        *)
(***************************************************************************)
JoinTimesOut ==
    /\ pc = "join"
    /\ thread[current] = "lockWait"
    /\ pc' = "go"
    /\ lost' = lost \cup {current}
    /\ UNCHANGED <<state, locked, goal, current, thread, stream, jobs>>

\* A fault: writes in whatever state goOpened() left the driver.
WriteUnchecked ==
    /\ Toward({WriteFlash})
    /\ pc' = "writing"
    /\ UNCHANGED <<state, locked, goal, current, thread, stream, lost, jobs>>

\* saveIntrinsics writes its two pages only in state OPENED.
WriteBegins ==
    /\ Toward({WriteFlash})
    /\ state = OPENED
    /\ pc' = "writing"
    /\ UNCHANGED <<state, locked, goal, current, thread, stream, lost, jobs>>

WriteEnds ==
    /\ pc = "writing"
    /\ pc' = "go"
    /\ goal' = Tail(goal)
    /\ UNCHANGED <<state, locked, current, thread, stream, lost, jobs>>

WriteRefused ==
    /\ Toward({WriteFlash})
    /\ state # OPENED
    /\ goal' = Tail(goal)
    /\ UNCHANGED <<state, locked, pc, current, thread, stream, lost, jobs>>

Caller == Begin \/ End \/ Arrived \/ Open \/ Close \/ StartFails \/ (\E t \in Runs : Start(t))
            \/ Stop \/ Joined \/ JoinTimesOut \/ WriteBegins \/ WriteEnds \/ WriteRefused

-----------------------------------------------------------------------------
Goes(t, from, to) == thread[t] = from /\ thread' = [thread EXCEPT ![t] = to]

(***************************************************************************)
(* wge100VidReceiveAuto: the camera is told to stream to this thread's     *)
(* port.  When its answer is lost the thread gives up, and does not stop   *)
(* a camera that did start.                                                *)
(***************************************************************************)
StartVid(t) ==
    /\ \/ Goes(t, "start", "receive") /\ stream' = t
       \/ Goes(t, "start", "check")   /\ stream' \in {t, stream}
    /\ UNCHANGED <<state, callerVars>>

\* A fault: the frame handler does not look at the state.
StopUnseen(t) == FALSE /\ Goes(t, "receive", "stopVid") /\ UNCHANGED <<state, callerVars, stream>>

(***************************************************************************)
(* The frame handler is called, with a frame or with NULL after a second   *)
(* without packets, and finds the driver not running; or the reception     *)
(* fails.  A frame while running changes nothing here.                     *)
(***************************************************************************)
SeesStop(t) ==
    /\ state # RUNNING
    /\ Goes(t, "receive", "stopVid")
    /\ UNCHANGED <<state, callerVars, stream>>

ReceiveFails(t) ==
    /\ Goes(t, "receive", "stopVid")
    /\ UNCHANGED <<state, callerVars, stream>>

\* NULL while running: the handler goes on to take the mutex.
Silence(t) ==
    /\ state = RUNNING
    /\ Goes(t, "receive", "lockWait")
    /\ UNCHANGED <<state, callerVars, stream>>

\* With the mutex: wait on for a trigger, or call the stream dead.
Locks(t) ==
    /\ ~locked
    /\ Goes(t, "lockWait", "receive") \/ Goes(t, "lockWait", "stopVid")
    /\ UNCHANGED <<state, callerVars, stream>>

\* The stop command, which may be lost, ends the stream whoever receives it.
StopVid(t) ==
    /\ Goes(t, "stopVid", "check")
    /\ stream' \in {0, stream}
    /\ UNCHANGED <<state, callerVars>>

\* A fault: the thread ends without a look at the state.
LeavesState(t) == Goes(t, "check", "dead") /\ UNCHANGED <<state, callerVars, stream>>

\* The end of imageThread: "if (state_ == RUNNING) state_ = OPENED".
Check(t) ==
    /\ Goes(t, "check", IF state = RUNNING THEN "set" ELSE "dead")
    /\ UNCHANGED <<state, callerVars, stream>>

SetOpened(t) ==
    /\ Goes(t, "set", "dead")
    /\ state' = OPENED
    /\ UNCHANGED <<callerVars, stream>>

ImageThread(t) == StartVid(t) \/ SeesStop(t) \/ ReceiveFails(t) \/ Silence(t)
                    \/ Locks(t) \/ StopVid(t) \/ Check(t) \/ SetOpened(t)

Next == Caller \/ \E t \in Runs : ImageThread(t)

Spec == Init /\ [][Next]_vars

(***************************************************************************)
(* The caller that holds the mutex goes on, a join that cannot succeed     *)
(* times out, and every image thread runs; whether a reception fails is    *)
(* left open.                                                              *)
(***************************************************************************)
CallerGoesOn == Caller /\ locked
ThreadGoesOn(t) == StartVid(t) \/ SeesStop(t) \/ Locks(t) \/ StopVid(t) \/ Check(t) \/ SetOpened(t)

FairSpec == Spec /\ WF_vars(CallerGoesOn) /\ \A t \in Runs : WF_vars(ThreadGoesOn(t))

-----------------------------------------------------------------------------
TypeOK ==
    /\ state \in States
    /\ locked \in BOOLEAN
    /\ goal \in Seq(States \cup {WriteFlash})
    /\ pc \in {"go", "join", "writing"}
    /\ current \in 0 .. MaxRuns
    /\ thread \in [Runs -> {"none", "start", "receive", "lockWait", "stopVid",
                            "check", "set", "dead"}]
    /\ stream \in 0 .. MaxRuns
    /\ lost \subseteq Runs
    /\ jobs \in 0 .. MaxJobs

(***************************************************************************)
(* As long as no join timed out, two image threads are never alive at the  *)
(* same time: they share the filter, the counters and the camera.          *)
(***************************************************************************)
OneImageThread == lost = {} => Cardinality(Alive) <= 1

(***************************************************************************)
(* The driver never stays RUNNING without its thread: however the          *)
(* reception ended and whoever stopped, closed or restarted meanwhile, the *)
(* thread of the run is alive until the state has left RUNNING.            *)
(***************************************************************************)
RunHasItsThread == state = RUNNING => current \in Alive

(***************************************************************************)
(* The calibration pages are written in state OPENED, and with no image    *)
(* thread using the camera ("Don't want anybody restarting us behind our   *)
(* back").                                                                 *)
(***************************************************************************)
WriteIsQuiet == pc = "writing" => state = OPENED /\ (lost = {} => Alive = {})

(***************************************************************************)
(* An image thread that was not given up writes state_ only to end its own *)
(* run: never over the CLOSED of a caller, never into a later run.         *)
(***************************************************************************)
EndsOwnRunOnly ==
    [][ \A t \in Runs : (lost = {} /\ SetOpened(t)) => t = current /\ state # CLOSED ]_vars

(***************************************************************************)
(* Nor does it stop the video stream of a later run.                       *)
(***************************************************************************)
StopsNoLaterStream ==
    [][ \A t \in Runs : (lost = {} /\ StopVid(t)) => stream <= t ]_vars

\* doStop returns, even when the thread it joins waits for its mutex.
StopReturns == (pc = "join") ~> (pc # "join")

(***************************************************************************)
(* When the driver is not running any more, every image thread ends, the   *)
(* ones given up included.                                                 *)
(***************************************************************************)
ThreadsEnd == <>[](state # RUNNING) => <>[](Alive = {})

(***************************************************************************)
(* The comment at the end of imageThread ("image_thread_ did not die after *)
(* two seconds (which should not happen)") and the self test ("Lost the    *)
(* image_thread. This should never happen.").                              *)
(***************************************************************************)
NoThreadIsLost == lost = {}
=============================================================================
