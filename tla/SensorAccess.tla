---------------------------- MODULE SensorAccess ----------------------------
(***************************************************************************)
(* wge100ReliableSensorRead and wge100ReliableSensorWrite (wge100lib.c),   *)
(* the single accesses they repeat, and the sensor handlers of the         *)
(* firmware, which talk I2C to one register of the imager (wge.fs,         *)
(* mt9v.fs).                                                               *)
(*                                                                         *)
(* The firmware ignores the acknowledge bits of the I2C transfers and      *)
(* reports success always: a write may not have changed the register, and  *)
(* a read that failed yields BusValue, what the idle bus reads as.         *)
(* The places of the host are named as in FlashAccess.                     *)
(***************************************************************************)
EXTENDS CommandChannel

CONSTANTS BusValue,   \* the value read when nothing drives the bus
          Budgets,    \* the values of *retries callers start with
          MaxCalls,   \* bound: calls made
          BusFaults   \* can I2C transfers fail?

ASSUME BusValueAssumption == BusValue \in Data
ASSUME BudgetsAssumption == Budgets \subseteq Nat
ASSUME MaxCallsAssumption == MaxCalls \in Nat
ASSUME BusFaultsAssumption == BusFaults \in BOOLEAN

VARIABLES register,  \* the register of the imager
          pc, op, data, readback, retries, retval,
          result,    \* what the last call returned
          calls,     \* calls made (history)
          verified   \* this call ended with a successful compare (history)

argVars == <<op, data, calls>>
vars == <<chanVars, register, pc, argVars, readback, retries, retval, result, verified>>

Init ==
    /\ ChanInit
    /\ register \in Data
    /\ pc = "idle"
    /\ op = "read"
    /\ data \in Data
    /\ readback \in Data
    /\ retries = 0
    /\ retval = 0
    /\ result = 0
    /\ calls = 0
    /\ verified = FALSE

Call(o, d, b) ==
    /\ pc = "idle"
    /\ calls < MaxCalls
    /\ calls' = calls + 1
    /\ op' = o
    /\ data' = d
    /\ retries' = b
    /\ retval' = -2
    /\ pc' = o
    /\ verified' = FALSE
    /\ UNCHANGED <<chanVars, register, readback, result>>

Return(value) ==
    /\ pc' = "idle"
    /\ result' = value
    /\ retval' = value

\* One attempt at place p failed with value v: one retry less, loop test.
Failed(p, v) ==
    /\ retries' = retries - 1
    /\ retval' = v
    /\ pc' = p
    /\ UNCHANGED <<register, argVars, readback, result, verified>>

SendRead ==
    /\ pc = "read"
    /\ retries > 0
    /\ Request("sensorread", 0, NoData)
    /\ pc' = "readWait"
    /\ UNCHANGED <<register, argVars, readback, retries, retval, result, verified>>

SendWrite ==
    /\ pc = "write"
    /\ retries > 0
    /\ Request("sensorwrite", 0, data)
    /\ pc' = "writeWait"
    /\ UNCHANGED <<register, argVars, readback, retries, retval, result, verified>>

\* A system call fails before anything is sent.
NotSent ==
    /\ pc \in {"read", "write"}
    /\ retries > 0
    /\ Failed(pc, -1)
    /\ UNCHANGED chanVars

\* No reply in time (1), or receiving it failed (-1).
NoReply ==
    /\ \E v \in {1, -1} : \/ pc = "readWait"  /\ Failed("read", v)
                          \/ pc = "writeWait" /\ Failed("write", v)
    /\ UNCHANGED chanVars

ReadGivesUp ==
    /\ pc = "read"
    /\ retries <= 0
    /\ IF op = "read"
       THEN Return(retval) /\ UNCHANGED retries
       ELSE /\ retries' = retries - 1
            /\ pc' = "write"
            /\ UNCHANGED <<retval, result>>
    /\ UNCHANGED <<chanVars, register, argVars, readback, verified>>

WriteGivesUp ==
    /\ pc = "write"
    /\ retries <= 0
    /\ Return(retval)
    /\ UNCHANGED <<chanVars, register, argVars, readback, retries, verified>>

\* The compare, and the fault of looking at the value of an earlier read.
MatchesEarlier == readback = data
Matches == readback' = data

(***************************************************************************)
(* The value arrived.  On a mismatch retval becomes -2 only when retries   *)
(* is 0 before the loop decrements it.                                     *)
(***************************************************************************)
ValueArrives ==
    /\ pc = "readWait"
    /\ Arrives("sensordata")
    /\ readback' = Head(replies).data
    /\ IF op = "read"
       THEN Return(0) /\ UNCHANGED <<retries, verified>>
       ELSE IF Matches
       THEN Return(0) /\ verified' = TRUE /\ UNCHANGED retries
       ELSE /\ retval' = IF retries = 0 THEN -2 ELSE 0
            /\ retries' = retries - 1
            /\ pc' = "write"
            /\ UNCHANGED <<result, verified>>
    /\ UNCHANGED <<register, argVars>>

StatusArrives ==
    /\ pc = "writeWait"
    /\ Arrives("status")
    /\ pc' = "read"
    /\ retval' = -2
    /\ UNCHANGED <<register, argVars, readback, retries, result, verified>>

\* mt9v@ and mt9v! of the oldest command, with the faults of the bus.
CameraHandles ==
    /\ cmds # <<>>
    /\ cmds' = Tail(cmds)
    /\ LET c == Head(cmds) IN
       \/ /\ c.kind = "sensorread"
          /\ \E v \in {register} \cup (IF BusFaults THEN {BusValue} ELSE {}) :
               replies' = Append(replies, Reply(c.sock, "sensordata", v))
          /\ UNCHANGED register
       \/ /\ c.kind = "sensorwrite"
          /\ replies' = Append(replies, Reply(c.sock, "status", NoData))
          /\ register' \in {c.data} \cup (IF BusFaults THEN {register} ELSE {})
    /\ UNCHANGED <<sock, pc, argVars, readback, retries, retval, result, verified>>

NetworkLoses ==
    /\ LoseCommand \/ LoseReply
    /\ UNCHANGED <<register, pc, argVars, readback, retries, retval, result, verified>>

HostStep == SendRead \/ SendWrite \/ NotSent \/ NoReply \/ ReadGivesUp
              \/ WriteGivesUp \/ ValueArrives \/ StatusArrives

Next ==
    \/ \E o \in {"read", "write"}, d \in Data, b \in Budgets : Call(o, d, b)
    \/ HostStep
    \/ CameraHandles
    \/ NetworkLoses

Spec == Init /\ [][Next]_vars

-----------------------------------------------------------------------------
(***************************************************************************)
(* After a write that ended with a successful compare the register holds   *)
(* the data until the next call.  The value the idle bus reads as is the   *)
(* exception: a failed read cannot be told from it.                        *)
(***************************************************************************)
VerifiedWriteStored ==
    (pc = "idle" /\ verified /\ data # BusValue) => register = data
=============================================================================
