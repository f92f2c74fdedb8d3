---------------------------- MODULE FlashAccess -----------------------------
(***************************************************************************)
(* wge100ReliableFlashRead and wge100ReliableFlashWrite (wge100lib.c) with *)
(* the single accesses they repeat, the flash handlers of the firmware     *)
(* (wge.fs, flash.fs) and the network between them.                        *)
(*                                                                         *)
(* The host is at one of four places:                                      *)
(*   "read"       the loop test of wge100ReliableFlashRead                 *)
(*   "readWait"   wge100FlashRead waits for its reply                      *)
(*   "write"      the loop test of wge100ReliableFlashWrite                *)
(*   "writeWait"  wge100FlashWrite waits for its reply                     *)
(* or "idle" between two calls.  The retry counter is shared by the two    *)
(* loops, as the pointer is in the code.                                   *)
(***************************************************************************)
EXTENDS CommandChannel

CONSTANTS MaxPage,     \* FLASH_MAX_PAGENO
          Budgets,     \* the values of *retries callers start with
          MaxCalls,    \* bound: calls made
          FlashFaults  \* can a page program leave the old content?

ASSUME MaxPageAssumption == MaxPage \in Nat
ASSUME BudgetsAssumption == Budgets \subseteq Nat
ASSUME MaxCallsAssumption == MaxCalls \in Nat
ASSUME FlashFaultsAssumption == FlashFaults \in BOOLEAN

VARIABLES flash,     \* the pages of the camera
          pc, op,    \* where the host is, and in which of the two functions
          address, pageData, buffer,
          retries, retval,
          result,    \* what the last call returned
          budget,    \* *retries at the start of the call (history)
          calls,     \* calls made (history)
          sent,      \* commands sent by this call (history)
          mismatch,  \* a read of this call returned other data (history)
          verified   \* this call ended with a successful compare (history)

argVars == <<op, address, pageData, budget, calls>>
vars == <<chanVars, flash, pc, argVars, buffer, retries, retval, result,
          sent, mismatch, verified>>

Pages == 0 .. MaxPage

Init ==
    /\ ChanInit
    /\ flash \in [Pages -> Data]
    /\ pc = "idle"
    /\ op = "read"
    /\ address = 0
    /\ pageData \in Data
    /\ buffer = NoData
    /\ retries = 0
    /\ retval = 0
    /\ result = 0
    /\ budget = 0
    /\ calls = 0
    /\ sent = 0
    /\ mismatch = FALSE
    /\ verified = FALSE

\* Both functions begin with a read; the fault is to begin with the write.
BeginsAtLoop(o) == o
BeginsAt(o) == "read"

\* The check of the page number, and the fault of leaving it out.
AnyAddress == TRUE
ValidAddress == address <= MaxPage

(***************************************************************************)
(* A caller starts one of the two functions.  The write function does not  *)
(* count its first read as a retry and begins with it ("goto read_first"). *)
(* Address MaxPage + 1 stands for every address out of range.              *)
(***************************************************************************)
Call(o, a, d, b) ==
    /\ pc = "idle"
    /\ calls < MaxCalls
    /\ calls' = calls + 1
    /\ op' = o
    /\ address' = a
    /\ pageData' = d
    /\ budget' = b
    /\ retries' = IF o = "write" THEN b + 1 ELSE b
    /\ retval' = -2
    /\ pc' = BeginsAt(o)
    /\ sent' = 0
    /\ mismatch' = FALSE
    /\ verified' = FALSE
    /\ UNCHANGED <<chanVars, flash, buffer, result>>

Return(value) ==
    /\ pc' = "idle"
    /\ result' = value
    /\ retval' = value

\* A fault: a failed read costs no retry.
ReadFailedFree(v) ==
    /\ retval' = v
    /\ pc' = "read"
    /\ UNCHANGED <<flash, argVars, buffer, retries, result, mismatch, verified>>

\* wge100FlashRead failed with value v: one retry less, and the loop test.
ReadFailed(v) ==
    /\ retries' = retries - 1
    /\ retval' = v
    /\ pc' = "read"
    /\ UNCHANGED <<flash, argVars, buffer, result, mismatch, verified>>

\* The same of wge100FlashWrite, in the other loop.
WriteFailed(v) ==
    /\ retries' = retries - 1
    /\ retval' = v
    /\ pc' = "write"
    /\ UNCHANGED <<flash, argVars, buffer, result, mismatch, verified>>

SendRead ==
    /\ pc = "read"
    /\ retries > 0
    /\ ValidAddress
    /\ Request("flashread", address, NoData)
    /\ sent' = sent + 1
    /\ pc' = "readWait"
    /\ UNCHANGED <<flash, argVars, buffer, retries, retval, result, mismatch, verified>>

SendWrite ==
    /\ pc = "write"
    /\ retries > 0
    /\ ValidAddress
    /\ Request("flashwrite", address, pageData)
    /\ sent' = sent + 1
    /\ pc' = "writeWait"
    /\ UNCHANGED <<flash, argVars, buffer, retries, retval, result, mismatch, verified>>

\* Nothing is sent: the address is refused (1), or a system call fails (-1).
NotSent ==
    /\ retries > 0
    /\ \E v \in {1, -1} :
         /\ v = 1 => ~ValidAddress
         /\ \/ pc = "read"  /\ ReadFailed(v)
            \/ pc = "write" /\ WriteFailed(v)
    /\ UNCHANGED <<chanVars, sent>>

\* A fault: waits for the reply without a timeout.
NoTimeout == FALSE /\ UNCHANGED vars

\* The reply did not come in time (1), or receiving it failed (-1).
NoReply ==
    /\ \E v \in {1, -1} : \/ pc = "readWait"  /\ ReadFailed(v)
                          \/ pc = "writeWait" /\ WriteFailed(v)
    /\ UNCHANGED <<chanVars, sent>>

(***************************************************************************)
(* The retries are used up.  The read function returns what its last       *)
(* attempt returned; for the write function that is a failed compare read, *)
(* which costs it one more retry before its own loop test.                 *)
(***************************************************************************)
ReadGivesUp ==
    /\ pc = "read"
    /\ retries <= 0
    /\ IF op = "read"
       THEN Return(retval) /\ UNCHANGED retries
       ELSE /\ retries' = retries - 1
            /\ pc' = "write"
            /\ UNCHANGED <<retval, result>>
    /\ UNCHANGED <<chanVars, flash, argVars, buffer, sent, mismatch, verified>>

WriteGivesUp ==
    /\ pc = "write"
    /\ retries <= 0
    /\ Return(retval)
    /\ UNCHANGED <<chanVars, flash, argVars, buffer, retries, sent, mismatch, verified>>

(***************************************************************************)
(* The page arrived: the read function is done; the write function         *)
(* compares and returns, or counts a retry and goes to its loop test with  *)
(* retval still 0 from the successful read.                                *)
(***************************************************************************)
PageArrives ==
    /\ pc = "readWait"
    /\ Arrives("flashdata")
    /\ buffer' = Head(replies).data
    /\ IF op = "read"
       THEN Return(0) /\ UNCHANGED <<retries, mismatch, verified>>
       ELSE IF buffer' = pageData
       THEN Return(0) /\ verified' = TRUE /\ UNCHANGED <<retries, mismatch>>
       ELSE /\ mismatch' = TRUE
            /\ retries' = retries - 1
            /\ retval' = 0
            /\ pc' = "write"
            /\ UNCHANGED <<result, verified>>
    /\ UNCHANGED <<flash, argVars, sent>>

\* The write was acknowledged: read the page back, retval of its own.
StatusArrives ==
    /\ pc = "writeWait"
    /\ Arrives("status")
    /\ pc' = "read"
    /\ retval' = -2
    /\ UNCHANGED <<flash, argVars, buffer, retries, result, sent, mismatch, verified>>

(***************************************************************************)
(* The camera handles the oldest command: handle-flashread answers with    *)
(* the page, handle-flashwrite programs it and always reports success.     *)
(***************************************************************************)
CameraHandles ==
    /\ cmds # <<>>
    /\ cmds' = Tail(cmds)
    /\ LET c == Head(cmds) IN
       \/ /\ c.kind = "flashread"
          /\ replies' = Append(replies, Reply(c.sock, "flashdata", flash[c.address]))
          /\ UNCHANGED flash
       \/ /\ c.kind = "flashwrite"
          /\ replies' = Append(replies, Reply(c.sock, "status", NoData))
          /\ \/ flash' = [flash EXCEPT ![c.address] = c.data]
             \/ FlashFaults /\ UNCHANGED flash
    /\ UNCHANGED <<sock, pc, argVars, buffer, retries, retval, result, sent, mismatch, verified>>

NetworkLoses ==
    /\ LoseCommand \/ LoseReply
    /\ UNCHANGED <<flash, pc, argVars, buffer, retries, retval, result, sent, mismatch, verified>>

HostStep == SendRead \/ SendWrite \/ NotSent \/ NoReply \/ ReadGivesUp
              \/ WriteGivesUp \/ PageArrives \/ StatusArrives

Next ==
    \/ \E o \in {"read", "write"}, a \in 0 .. MaxPage + 1, d \in Data, b \in Budgets :
         Call(o, a, d, b)
    \/ HostStep
    \/ CameraHandles
    \/ NetworkLoses

Spec == Init /\ [][Next]_vars

\* The calling thread runs, and every wait ends after STD_REPLY_TIMEOUT.
FairSpec == Spec /\ WF_vars(HostStep)

-----------------------------------------------------------------------------
CommandSet ==
    [sock : Nat, kind : {"flashread"}, address : Pages, data : {NoData}]
      \cup [sock : Nat, kind : {"flashwrite"}, address : Pages, data : Data]
ReplySet ==
    [sock : Nat, kind : {"flashdata"}, data : Data]
      \cup [sock : Nat, kind : {"status"}, data : {NoData}]

TypeOK ==
    /\ cmds \in Seq(CommandSet)
    /\ replies \in Seq(ReplySet)
    /\ sock \in Nat
    /\ flash \in [Pages -> Data]
    /\ pc \in {"idle", "read", "readWait", "write", "writeWait"}
    /\ op \in {"read", "write"}
    /\ address \in 0 .. MaxPage + 1
    /\ pageData \in Data
    /\ buffer \in Data \cup {NoData}
    /\ retries \in Int
    /\ retval \in {0, 1, -1, -2}
    /\ result \in {0, 1, -1, -2}
    /\ budget \in Nat
    /\ calls \in Nat
    /\ sent \in Nat
    /\ mismatch \in BOOLEAN
    /\ verified \in BOOLEAN

(***************************************************************************)
(* After a write that ended with a successful compare the page holds the   *)
(* data, and keeps it until the next call: no reply to an older request    *)
(* was taken for the answer, and no write of this or of an earlier call    *)
(* that was given up is still on its way to the camera.                    *)
(***************************************************************************)
VerifiedWriteStored ==
    (pc = "idle" /\ verified) => flash[address] = pageData

(***************************************************************************)
(* A read that succeeds returns what the page holds at that moment, not    *)
(* what it held when an earlier, given up request was answered.            *)
(***************************************************************************)
ReadsAreCurrent ==
    [][ (pc = "readWait" /\ pc' = "idle" /\ result' = 0) => buffer' = flash[address] ]_vars

(***************************************************************************)
(* The two functions, the camera and the network implement PageStore: a    *)
(* page is written only when a read of the same call found other data      *)
(* ("Don't bother writing if nothing has changed"), and a call ends well   *)
(* only with a look at the page as it is, with no write on its way that    *)
(* could change it afterwards.                                             *)
(***************************************************************************)
Writes(s) ==
    {[page |-> s[i].address, data |-> s[i].data] : i \in {j \in DOMAIN s : s[j].kind = "flashwrite"}}
EndedWell ==
    pc = "idle" /\ (verified \/ (op = "read" /\ calls > 0 /\ result = 0))
Store == INSTANCE PageStore WITH
             store <- flash, pending <- Writes(cmds), busy <- pc # "idle",
             page <- address, data <- pageData, differs <- mismatch,
             found <- buffer, good <- EndedWell
ImplementsPageStore == Store!Spec

(***************************************************************************)
(* Whatever is lost, a call sends at most one command more than twice the  *)
(* retries it was given, and a read not more than these.                   *)
(***************************************************************************)
CommandBudget == sent <= IF op = "read" THEN budget ELSE 2 * budget + 1

\* Every call returns, even when the camera never answers.
CallsReturn == (pc # "idle") ~> (pc = "idle")

(***************************************************************************)
(* The comment above wge100ReliableFlashWrite: the write is repeated       *)
(* "until the written value matches" and 0 is returned "for success".      *)
(***************************************************************************)
SuccessMeansStored ==
    (pc = "idle" /\ op = "write" /\ calls > 0 /\ result = 0) => flash[address] = pageData
=============================================================================
