-------------------------- MODULE FlashAccessProofs --------------------------
(***************************************************************************)
(* Theorems about FlashAccess: its type invariant, and that a verified     *)
(* write is stored, that the number of commands is bounded, that reads are *)
(* current, and that it implements PageStore, for every set of pages, data *)
(* and retry budgets.                                                      *)
(***************************************************************************)
EXTENDS FlashAccess, TLAPS

(***************************************************************************)
(* The inductive invariant.  Sockets order the commands, so an answer to   *)
(* the newest request can only exist when no command is left in flight;    *)
(* what it says of the page then stays true.                               *)
(***************************************************************************)
ChannelInv ==
    /\ \A i \in 1 .. Len(cmds) : cmds[i].sock <= sock
    /\ \A i, j \in 1 .. Len(cmds) : i < j => cmds[i].sock < cmds[j].sock
    /\ \A i \in 1 .. Len(replies) : replies[i].sock <= sock
    /\ \A i \in 1 .. Len(replies) : replies[i].sock = sock => cmds = <<>>

AnswerInv ==
    pc = "readWait" =>
      /\ address \in Pages
      /\ \A i \in 1 .. Len(cmds) : cmds[i].sock = sock =>
            cmds[i].kind = "flashread" /\ cmds[i].address = address
      /\ \A i \in 1 .. Len(replies) :
            (replies[i].sock = sock /\ replies[i].kind = "flashdata")
              => replies[i].data = flash[address]

VerifiedInv ==
    verified => pc = "idle" /\ cmds = <<>> /\ flash[address] = pageData

MismatchInv ==
    (pc = "writeWait" \/ (pc = "write" /\ retries > 0)) => mismatch

\* How many commands can still follow depends on where the host is.
BudgetInv ==
    /\ pc \in {"readWait", "writeWait"} => retries > 0
    /\ pc = "read" => retries >= 0
    /\ op = "read" =>
         /\ pc \notin {"write", "writeWait"}
         /\ sent <= budget
         /\ pc = "read" => sent + retries <= budget
         /\ pc = "readWait" => sent + retries <= budget + 1
    /\ op = "write" =>
         /\ sent <= 2 * budget + 1
         /\ pc = "read" => sent + 2 * retries <= 2 * budget + 2
         /\ pc = "readWait" => sent + 2 * retries <= 2 * budget + 3
         /\ pc = "write" => sent + 2 * retries <= 2 * budget + 1
         /\ pc = "writeWait" => sent + 2 * retries <= 2 * budget + 2

IInv == TypeOK /\ ChannelInv /\ AnswerInv /\ VerifiedInv /\ MismatchInv /\ BudgetInv

USE MaxPageAssumption, BudgetsAssumption, MaxCallsAssumption, FlashFaultsAssumption

-----------------------------------------------------------------------------
(***************************************************************************)
(* Appending to a sequence, element by element.                            *)
(***************************************************************************)
LEMMA AppendElements ==
    ASSUME NEW S, NEW s \in Seq(S), NEW e \in S
    PROVE  /\ Append(s, e) \in Seq(S)
           /\ Len(Append(s, e)) = Len(s) + 1
           /\ \A i \in 1 .. Len(s) : Append(s, e)[i] = s[i]
           /\ Append(s, e)[Len(s) + 1] = e
  OBVIOUS

(***************************************************************************)
(* Taking the head of a sequence moves the rest down by one.               *)
(***************************************************************************)
LEMMA TailElements ==
    ASSUME NEW S, NEW s \in Seq(S), s # <<>>
    PROVE  /\ Tail(s) \in Seq(S)
           /\ Head(s) = s[1]
           /\ Head(s) \in S
           /\ Len(s) \in Nat
           /\ Len(s) >= 1
           /\ Len(Tail(s)) = Len(s) - 1
           /\ \A i \in 1 .. Len(Tail(s)) : Tail(s)[i] = s[i + 1]
  OBVIOUS

(***************************************************************************)
(* The variables have their types when the driver starts.                  *)
(***************************************************************************)
LEMMA InitTyped == Init => TypeOK
  BY DEF Init, ChanInit, TypeOK, Pages

(***************************************************************************)
(* Every step of the host, the camera and the network keeps the types.     *)
(***************************************************************************)
LEMMA NextTyped == TypeOK /\ [Next]_vars => TypeOK'
<1> SUFFICES ASSUME TypeOK, [Next]_vars PROVE TypeOK'
  OBVIOUS
<1> USE DEF TypeOK, Pages
<1>1. ASSUME NEW o \in {"read", "write"}, NEW a \in 0 .. MaxPage + 1,
             NEW d \in Data, NEW b \in Budgets, Call(o, a, d, b)
      PROVE  TypeOK'
  BY <1>1 DEF Call, BeginsAt, chanVars
<1>2. CASE SendRead
  <2>1. Command(sock + 1, "flashread", address, NoData) \in CommandSet
    BY <1>2 DEF SendRead, ValidAddress, Command, CommandSet
  <2> QED BY <1>2, <2>1, AppendElements DEF SendRead, Request, argVars
<1>3. CASE SendWrite
  <2>1. Command(sock + 1, "flashwrite", address, pageData) \in CommandSet
    BY <1>3 DEF SendWrite, ValidAddress, Command, CommandSet
  <2> QED BY <1>3, <2>1, AppendElements DEF SendWrite, Request, argVars
<1>4. CASE NotSent
  BY <1>4 DEF NotSent, ReadFailed, WriteFailed, chanVars, argVars
<1>5. CASE NoReply
  BY <1>5 DEF NoReply, ReadFailed, WriteFailed, chanVars, argVars
<1>6. CASE ReadGivesUp
  BY <1>6 DEF ReadGivesUp, Return, chanVars, argVars
<1>7. CASE WriteGivesUp
  BY <1>7 DEF WriteGivesUp, Return, chanVars, argVars
<1>8. CASE PageArrives
  <2>1. /\ Tail(replies) \in Seq(ReplySet)
        /\ Head(replies) \in ReplySet
    BY <1>8, TailElements DEF PageArrives, Arrives
  <2>2. buffer' \in Data \cup {NoData}
    BY <1>8, <2>1 DEF PageArrives, ReplySet
  <2>3. /\ UNCHANGED <<cmds, sock, flash, op, address, pageData, budget, calls, sent>>
        /\ replies' = Tail(replies)
    BY <1>8 DEF PageArrives, Arrives, argVars
  <2>4. CASE op = "read" \/ buffer' = pageData
    BY <1>8, <2>1, <2>2, <2>3, <2>4 DEF PageArrives, Return
  <2>5. CASE op # "read" /\ buffer' # pageData
    BY <1>8, <2>1, <2>2, <2>3, <2>5 DEF PageArrives
  <2> QED BY <2>4, <2>5
<1>9. CASE StatusArrives
  <2>1. Tail(replies) \in Seq(ReplySet)
    BY <1>9, TailElements DEF StatusArrives, Arrives
  <2> QED BY <1>9, <2>1 DEF StatusArrives, Arrives, argVars
<1>10. CASE CameraHandles
  <2>1. /\ Tail(cmds) \in Seq(CommandSet)
        /\ Head(cmds) \in CommandSet
    BY <1>10, TailElements DEF CameraHandles
  <2>2. /\ Head(cmds).sock \in Nat
        /\ Head(cmds).address \in Pages
        /\ Head(cmds).kind = "flashwrite" => Head(cmds).data \in Data
    BY <2>1 DEF CommandSet
  <2>3. CASE Head(cmds).kind = "flashread" /\
             replies' = Append(replies, Reply(Head(cmds).sock, "flashdata", flash[Head(cmds).address])) /\
             UNCHANGED flash
    <3>1. Reply(Head(cmds).sock, "flashdata", flash[Head(cmds).address]) \in ReplySet
      BY <2>2 DEF Reply, ReplySet
    <3>2. replies' \in Seq(ReplySet)
      BY <2>3, <3>1, AppendElements
    <3> QED BY <1>10, <2>1, <2>3, <3>2 DEF CameraHandles, argVars
  <2>4. CASE /\ Head(cmds).kind = "flashwrite"
             /\ replies' = Append(replies, Reply(Head(cmds).sock, "status", NoData))
             /\ \/ flash' = [flash EXCEPT ![Head(cmds).address] = Head(cmds).data]
                \/ FlashFaults /\ UNCHANGED flash
    <3>1. Reply(Head(cmds).sock, "status", NoData) \in ReplySet
      BY <2>2 DEF Reply, ReplySet
    <3>2. replies' \in Seq(ReplySet)
      BY <2>4, <3>1, AppendElements
    <3> QED BY <1>10, <2>1, <2>2, <2>4, <3>2 DEF CameraHandles, argVars
  <2> QED BY <1>10, <2>3, <2>4 DEF CameraHandles
<1>11. CASE NetworkLoses
  BY <1>11, TailElements DEF NetworkLoses, LoseCommand, LoseReply, argVars
<1>12. CASE UNCHANGED vars
  BY <1>12 DEF vars, chanVars, argVars
<1> QED
  BY <1>1, <1>2, <1>3, <1>4, <1>5, <1>6, <1>7, <1>8, <1>9, <1>10, <1>11, <1>12
  DEF Next, HostStep

(***************************************************************************)
(* Type correctness: the retry loops of wge100lib.c, the flash of the camera *)
(* and the packets in flight keep their types in every reachable state.    *)
(***************************************************************************)
THEOREM TypeCorrect == Spec => []TypeOK
<1> QED BY InitTyped, NextTyped, PTL DEF Spec

-----------------------------------------------------------------------------
(***************************************************************************)
(* The inductive invariant holds before the first call, when nothing was   *)
(* sent.                                                                   *)
(***************************************************************************)
LEMMA InitInv == Init => IInv
<1> SUFFICES ASSUME Init PROVE IInv
  OBVIOUS
<1>1. TypeOK
  BY InitTyped
<1> QED
  BY <1>1 DEF Init, ChanInit, TypeOK, IInv, ChannelInv, AnswerInv, VerifiedInv,
              MismatchInv, BudgetInv

(***************************************************************************)
(* The channel: sending opens a socket newer than every packet in flight,  *)
(* and the camera answers the newest request last.                         *)
(***************************************************************************)
LEMMA RequestKeepsChannel ==
    ASSUME TypeOK, ChannelInv, NEW kind, NEW a, NEW d, Request(kind, a, d),
           Command(sock + 1, kind, a, d) \in CommandSet
    PROVE  /\ ChannelInv'
           /\ \A i \in 1 .. Len(replies') : replies'[i].sock # sock'
           /\ \A i \in 1 .. Len(cmds') :
                cmds'[i].sock = sock' => cmds'[i] = Command(sock', kind, a, d)
<1> DEFINE c == Command(sock + 1, kind, a, d)
<1>1. /\ cmds \in Seq(CommandSet)
      /\ replies \in Seq(ReplySet)
      /\ sock \in Nat
      /\ sock' = sock + 1
      /\ cmds' = Append(cmds, c)
      /\ replies' = replies
  BY DEF Request, TypeOK
<1>2. /\ Len(cmds) \in Nat
      /\ Len(cmds') = Len(cmds) + 1
      /\ \A i \in 1 .. Len(cmds) : cmds'[i] = cmds[i]
      /\ cmds'[Len(cmds) + 1] = c
  BY <1>1, AppendElements
<1>3. /\ \A i \in 1 .. Len(cmds) : cmds[i] \in CommandSet /\ cmds[i].sock \in Nat
      /\ \A i \in 1 .. Len(replies) : replies[i] \in ReplySet /\ replies[i].sock \in Nat
  BY <1>1 DEF CommandSet, ReplySet
<1>4. c.sock = sock + 1
  BY DEF Command
<1> HIDE DEF c
<1>5. \A i \in 1 .. Len(replies) : replies[i].sock <= sock
  BY DEF ChannelInv
<1>6. /\ \A i \in 1 .. Len(cmds) : cmds[i].sock <= sock
      /\ \A i, j \in 1 .. Len(cmds) : i < j => cmds[i].sock < cmds[j].sock
  BY DEF ChannelInv
<1>7. \A i \in 1 .. Len(replies') : replies'[i].sock # sock' /\ replies'[i].sock <= sock'
  BY <1>1, <1>3, <1>5
<1>8. \A i \in 1 .. Len(cmds') : cmds'[i].sock <= sock'
  BY <1>1, <1>2, <1>3, <1>4, <1>6
<1>9. ASSUME NEW i \in 1 .. Len(cmds'), NEW j \in 1 .. Len(cmds'), i < j
      PROVE  cmds'[i].sock < cmds'[j].sock
  <2>1. i \in 1 .. Len(cmds) /\ cmds'[i] = cmds[i]
    BY <1>2, <1>9
  <2>2. CASE j = Len(cmds) + 1
    BY <1>1, <1>2, <1>3, <1>4, <1>6, <2>1, <2>2
  <2>3. CASE j # Len(cmds) + 1
    <3>1. j \in 1 .. Len(cmds) /\ cmds'[j] = cmds[j]
      BY <1>2, <2>3
    <3> QED BY <1>6, <1>9, <2>1, <3>1
  <2> QED BY <2>2, <2>3
<1>10. \A i \in 1 .. Len(cmds') : cmds'[i].sock = sock' => cmds'[i] = c
  BY <1>1, <1>2, <1>3, <1>6
<1> QED
  BY <1>1, <1>7, <1>8, <1>9, <1>10 DEF ChannelInv, c

(***************************************************************************)
(* A reply that arrives or is lost leaves the others as they were.         *)
(***************************************************************************)
LEMMA TailKeepsReplies ==
    ASSUME TypeOK, ChannelInv, replies # <<>>, replies' = Tail(replies),
           UNCHANGED <<cmds, sock>>
    PROVE  /\ ChannelInv'
           /\ Head(replies) = replies[1]
           /\ 1 \in 1 .. Len(replies)
           /\ \A i \in 1 .. Len(replies') :
                i + 1 \in 1 .. Len(replies) /\ replies'[i] = replies[i + 1]
<1>1. /\ Head(replies) = replies[1]
      /\ Len(replies) \in Nat /\ Len(replies) >= 1
      /\ Len(replies') = Len(replies) - 1
      /\ \A i \in 1 .. Len(replies') : replies'[i] = replies[i + 1]
  BY TailElements DEF TypeOK
<1>2. \A i \in 1 .. Len(replies') : i + 1 \in 1 .. Len(replies)
  BY <1>1
<1> QED
  BY <1>1, <1>2 DEF ChannelInv

(***************************************************************************)
(* The same of a command that is lost or handled.                          *)
(***************************************************************************)
LEMMA TailKeepsCommands ==
    ASSUME TypeOK, ChannelInv, cmds # <<>>, cmds' = Tail(cmds), UNCHANGED sock
    PROVE  /\ \A i \in 1 .. Len(cmds') : cmds'[i].sock <= sock'
           /\ \A i, j \in 1 .. Len(cmds') : i < j => cmds'[i].sock < cmds'[j].sock
           /\ Head(cmds) = cmds[1]
           /\ 1 \in 1 .. Len(cmds)
           /\ Head(cmds).sock <= sock
           /\ Head(cmds).sock = sock => cmds' = <<>>
           /\ \A i \in 1 .. Len(cmds') :
                i + 1 \in 1 .. Len(cmds) /\ cmds'[i] = cmds[i + 1]
<1>1. /\ Head(cmds) = cmds[1]
      /\ Len(cmds) \in Nat /\ Len(cmds) >= 1
      /\ Tail(cmds) \in Seq(CommandSet)
      /\ Len(cmds') = Len(cmds) - 1
      /\ \A i \in 1 .. Len(cmds') : cmds'[i] = cmds[i + 1]
  BY TailElements DEF TypeOK
<1>2. \A i \in 1 .. Len(cmds') : i + 1 \in 1 .. Len(cmds)
  BY <1>1
<1>3. \A i \in 1 .. Len(cmds) : cmds[i].sock \in Nat
  BY DEF TypeOK, CommandSet
<1>4. /\ \A i \in 1 .. Len(cmds) : cmds[i].sock <= sock
      /\ \A i, j \in 1 .. Len(cmds) : i < j => cmds[i].sock < cmds[j].sock
      /\ sock \in Nat
  BY DEF ChannelInv, TypeOK
<1>5. ASSUME Head(cmds).sock = sock PROVE cmds' = <<>>
  <2>1. Len(cmds) = 1
    <3>1. SUFFICES ASSUME Len(cmds) # 1 PROVE FALSE
      OBVIOUS
    <3>2. 1 \in 1 .. Len(cmds) /\ 2 \in 1 .. Len(cmds)
      BY <3>1, <1>1
    <3>3. cmds[1].sock < cmds[2].sock /\ cmds[2].sock <= sock
      BY <3>2, <1>4
    <3> QED BY <3>2, <3>3, <1>1, <1>3, <1>4, <1>5
  <2> QED BY <2>1, <1>1
<1> QED
  BY <1>1, <1>2, <1>3, <1>4, <1>5

(***************************************************************************)
(* The camera's answer to the oldest command: it is newer than no command  *)
(* left, and if it answers the newest request, no command is left.         *)
(***************************************************************************)
LEMMA AnswerKeepsChannel ==
    ASSUME TypeOK, ChannelInv, cmds # <<>>, cmds' = Tail(cmds), UNCHANGED sock,
           NEW r \in ReplySet, r.sock = Head(cmds).sock, replies' = Append(replies, r)
    PROVE  /\ ChannelInv'
           /\ \A i \in 1 .. Len(cmds') :
                i + 1 \in 1 .. Len(cmds) /\ cmds'[i] = cmds[i + 1]
           /\ \A i \in 1 .. Len(replies') :
                replies'[i].sock = sock => replies'[i] = r
<1>1. /\ \A i \in 1 .. Len(cmds') : cmds'[i].sock <= sock'
      /\ \A i, j \in 1 .. Len(cmds') : i < j => cmds'[i].sock < cmds'[j].sock
      /\ Head(cmds).sock <= sock
      /\ Head(cmds).sock = sock => cmds' = <<>>
      /\ \A i \in 1 .. Len(cmds') :
           i + 1 \in 1 .. Len(cmds) /\ cmds'[i] = cmds[i + 1]
  BY TailKeepsCommands
<1>2. /\ Len(replies) \in Nat
      /\ Len(replies') = Len(replies) + 1
      /\ \A i \in 1 .. Len(replies) : replies'[i] = replies[i]
      /\ replies'[Len(replies) + 1] = r
  BY AppendElements DEF TypeOK
<1>3. /\ \A i \in 1 .. Len(replies) : replies[i].sock <= sock
      /\ \A i \in 1 .. Len(replies) : replies[i].sock # sock
  BY DEF ChannelInv
<1>4. ASSUME NEW i \in 1 .. Len(replies')
      PROVE  /\ replies'[i].sock <= sock
             /\ replies'[i].sock = sock => replies'[i] = r /\ cmds' = <<>>
  <2>1. CASE i = Len(replies) + 1
    BY <1>1, <1>2, <2>1
  <2>2. CASE i # Len(replies) + 1
    <3>1. i \in 1 .. Len(replies) /\ replies'[i] = replies[i]
      BY <1>2, <2>2
    <3> QED BY <1>3, <3>1
  <2> QED BY <2>1, <2>2
<1> QED
  BY <1>1, <1>4 DEF ChannelInv

-----------------------------------------------------------------------------
(***************************************************************************)
(* Every step keeps the inductive invariant.                               *)
(***************************************************************************)
LEMMA NextInv == IInv /\ [Next]_vars => IInv'
<1> SUFFICES ASSUME IInv, [Next]_vars PROVE IInv'
  OBVIOUS
<1>0. TypeOK'
  BY NextTyped DEF IInv
<1>t. TypeOK /\ ChannelInv /\ AnswerInv /\ VerifiedInv /\ MismatchInv /\ BudgetInv
  BY DEF IInv
<1>n. retries \in Int /\ sent \in Nat /\ budget \in Nat /\ op \in {"read", "write"}
  BY <1>t DEF TypeOK
<1>1. ASSUME NEW o \in {"read", "write"}, NEW a \in 0 .. MaxPage + 1,
             NEW d \in Data, NEW b \in Budgets, Call(o, a, d, b)
      PROVE  IInv'
  <2>1. ChannelInv'
    BY <1>t, <1>1 DEF Call, chanVars, ChannelInv
  <2>2. AnswerInv' /\ VerifiedInv' /\ MismatchInv'
    BY <1>1 DEF Call, BeginsAt, AnswerInv, VerifiedInv, MismatchInv
  <2>3. BudgetInv'
    BY <1>1 DEF Call, BeginsAt, BudgetInv
  <2> QED BY <1>0, <2>1, <2>2, <2>3 DEF IInv
<1>2. CASE SendRead
  <2>1. Command(sock + 1, "flashread", address, NoData) \in CommandSet
    BY <1>2, <1>t DEF SendRead, ValidAddress, Command, CommandSet, TypeOK, Pages
  <2>2. Request("flashread", address, NoData)
    BY <1>2 DEF SendRead
  <2>3. /\ ChannelInv'
        /\ \A i \in 1 .. Len(replies') : replies'[i].sock # sock'
        /\ \A i \in 1 .. Len(cmds') : cmds'[i].sock = sock' =>
             cmds'[i] = Command(sock', "flashread", address, NoData)
    BY <1>t, <2>1, <2>2, RequestKeepsChannel
  <2>4. address' = address /\ address \in Pages
    BY <1>2, <1>t DEF SendRead, ValidAddress, argVars, TypeOK, Pages
  <2>5. AnswerInv'
    BY <2>3, <2>4 DEF AnswerInv, Command
  <2>6. VerifiedInv' /\ MismatchInv'
    BY <1>2, <1>t DEF SendRead, VerifiedInv, MismatchInv
  <2>7. BudgetInv'
    BY <1>2, <1>t, <1>n DEF SendRead, argVars, BudgetInv
  <2> QED BY <1>0, <2>3, <2>5, <2>6, <2>7 DEF IInv
<1>3. CASE SendWrite
  <2>1. Command(sock + 1, "flashwrite", address, pageData) \in CommandSet
    BY <1>3, <1>t DEF SendWrite, ValidAddress, Command, CommandSet, TypeOK, Pages
  <2>2. Request("flashwrite", address, pageData)
    BY <1>3 DEF SendWrite
  <2>3. ChannelInv'
    BY <1>t, <2>1, <2>2, RequestKeepsChannel
  <2>4. AnswerInv' /\ VerifiedInv' /\ MismatchInv'
    BY <1>3, <1>t DEF SendWrite, AnswerInv, VerifiedInv, MismatchInv
  <2>5. BudgetInv'
    BY <1>3, <1>t, <1>n DEF SendWrite, argVars, BudgetInv
  <2> QED BY <1>0, <2>3, <2>4, <2>5 DEF IInv
<1>4. CASE NotSent
  <2>1. ChannelInv'
    BY <1>t, <1>4 DEF NotSent, chanVars, ChannelInv
  <2>2. AnswerInv' /\ VerifiedInv' /\ MismatchInv'
    BY <1>4, <1>t DEF NotSent, ReadFailed, WriteFailed, AnswerInv, VerifiedInv, MismatchInv
  <2>3. BudgetInv'
    BY <1>4, <1>t, <1>n DEF NotSent, ReadFailed, WriteFailed, argVars, BudgetInv
  <2> QED BY <1>0, <2>1, <2>2, <2>3 DEF IInv
<1>5. CASE NoReply
  <2>1. ChannelInv'
    BY <1>t, <1>5 DEF NoReply, chanVars, ChannelInv
  <2>2. AnswerInv' /\ VerifiedInv' /\ MismatchInv'
    BY <1>5, <1>t DEF NoReply, ReadFailed, WriteFailed, AnswerInv, VerifiedInv, MismatchInv
  <2>3. BudgetInv'
    BY <1>5, <1>t, <1>n DEF NoReply, ReadFailed, WriteFailed, argVars, BudgetInv
  <2> QED BY <1>0, <2>1, <2>2, <2>3 DEF IInv
<1>6. CASE ReadGivesUp
  <2>1. ChannelInv'
    BY <1>t, <1>6 DEF ReadGivesUp, chanVars, ChannelInv
  <2>2. AnswerInv' /\ VerifiedInv' /\ MismatchInv'
    BY <1>6, <1>t, <1>n DEF ReadGivesUp, Return, AnswerInv, VerifiedInv, MismatchInv
  <2>3. BudgetInv'
    BY <1>6, <1>t, <1>n DEF ReadGivesUp, Return, argVars, BudgetInv
  <2> QED BY <1>0, <2>1, <2>2, <2>3 DEF IInv
<1>7. CASE WriteGivesUp
  <2>1. ChannelInv'
    BY <1>t, <1>7 DEF WriteGivesUp, chanVars, ChannelInv
  <2>2. AnswerInv' /\ VerifiedInv' /\ MismatchInv'
    BY <1>7, <1>t DEF WriteGivesUp, Return, AnswerInv, VerifiedInv, MismatchInv
  <2>3. BudgetInv'
    BY <1>7, <1>t, <1>n DEF WriteGivesUp, Return, argVars, BudgetInv
  <2> QED BY <1>0, <2>1, <2>2, <2>3 DEF IInv
<1>8. CASE PageArrives
  <2>1. /\ replies # <<>> /\ Head(replies).sock = sock
        /\ Head(replies).kind = "flashdata"
        /\ replies' = Tail(replies) /\ UNCHANGED <<cmds, sock>>
        /\ pc = "readWait" /\ buffer' = Head(replies).data
    BY <1>8 DEF PageArrives, Arrives
  <2>2. /\ ChannelInv'
        /\ Head(replies) = replies[1]
        /\ 1 \in 1 .. Len(replies)
    BY <1>t, <2>1, TailKeepsReplies
  <2>3. /\ cmds = <<>>
        /\ buffer' = flash[address]
    BY <1>t, <2>1, <2>2 DEF ChannelInv, AnswerInv
  <2>4. pc' # "readWait" /\ UNCHANGED <<flash, address, pageData, op, budget, sent>>
    BY <1>8, <2>1 DEF PageArrives, Return, argVars
  <2>5. AnswerInv'
    BY <2>4 DEF AnswerInv
  <2>6. VerifiedInv' /\ MismatchInv'
    BY <1>8, <1>t, <2>1, <2>3, <2>4 DEF PageArrives, Return, VerifiedInv, MismatchInv
  <2>7. BudgetInv'
    BY <1>8, <1>t, <1>n, <2>4 DEF PageArrives, Return, BudgetInv
  <2> QED BY <1>0, <2>2, <2>5, <2>6, <2>7 DEF IInv
<1>9. CASE StatusArrives
  <2>1. /\ replies # <<>> /\ replies' = Tail(replies)
        /\ UNCHANGED <<cmds, sock>>
    BY <1>9 DEF StatusArrives, Arrives
  <2>2. ChannelInv'
    BY <1>t, <2>1, TailKeepsReplies
  <2>3. AnswerInv' /\ VerifiedInv' /\ MismatchInv'
    BY <1>9, <1>t DEF StatusArrives, AnswerInv, VerifiedInv, MismatchInv
  <2>4. BudgetInv'
    BY <1>9, <1>t, <1>n DEF StatusArrives, argVars, BudgetInv
  <2> QED BY <1>0, <2>2, <2>3, <2>4 DEF IInv
<1>10. CASE CameraHandles
  <2> DEFINE c == Head(cmds)
             r == IF c.kind = "flashread" THEN Reply(c.sock, "flashdata", flash[c.address])
                                          ELSE Reply(c.sock, "status", NoData)
  <2>1. /\ cmds # <<>> /\ cmds' = Tail(cmds) /\ UNCHANGED sock
        /\ replies' = Append(replies, r)
        /\ c.kind = "flashread" => UNCHANGED flash
    BY <1>10 DEF CameraHandles
  <2>2. UNCHANGED <<pc, op, address, pageData, budget, retries, sent, mismatch, verified>>
    BY <1>10 DEF CameraHandles, argVars
  <2>3. c \in CommandSet /\ c = cmds[1] /\ 1 \in 1 .. Len(cmds)
    BY <1>t, <2>1, TailElements DEF TypeOK
  <2>4. c.sock \in Nat /\ c.address \in Pages
    BY <2>3 DEF CommandSet
  <2>5. r \in ReplySet /\ r.sock = c.sock
    BY <1>t, <2>4 DEF Reply, ReplySet, TypeOK
  <2>6. /\ ChannelInv'
        /\ \A i \in 1 .. Len(cmds') :
             i + 1 \in 1 .. Len(cmds) /\ cmds'[i] = cmds[i + 1]
        /\ \A i \in 1 .. Len(replies') : replies'[i].sock = sock => replies'[i] = r
    BY <1>t, <2>1, <2>5, AnswerKeepsChannel
  <2>7. AnswerInv'
    <3> SUFFICES ASSUME pc = "readWait" PROVE AnswerInv'
      BY <2>2 DEF AnswerInv
    <3>1. \A i \in 1 .. Len(cmds) : cmds[i].sock = sock =>
            cmds[i].kind = "flashread" /\ cmds[i].address = address
      BY <1>t DEF AnswerInv
    <3>2. c.sock = sock => r.data = flash'[address]
      BY <2>1, <2>3, <3>1 DEF Reply
    <3>3. \A i \in 1 .. Len(replies') : replies'[i].sock = sock => replies'[i].data = flash'[address]
      BY <2>5, <2>6, <3>2
    <3>4. \A i \in 1 .. Len(cmds') : cmds'[i].sock = sock =>
            cmds'[i].kind = "flashread" /\ cmds'[i].address = address
      BY <2>6, <3>1
    <3> QED BY <1>t, <2>1, <2>2, <3>3, <3>4 DEF AnswerInv
  <2>8. VerifiedInv' /\ MismatchInv'
    BY <1>t, <2>1, <2>2 DEF VerifiedInv, MismatchInv
  <2>9. BudgetInv'
    BY <1>t, <2>2 DEF BudgetInv
  <2> QED BY <1>0, <2>6, <2>7, <2>8, <2>9 DEF IInv
<1>11. CASE NetworkLoses
  <2>1. UNCHANGED <<sock, flash, pc, op, address, pageData, budget, retries, sent, mismatch, verified>>
    BY <1>11 DEF NetworkLoses, LoseCommand, LoseReply, argVars
  <2>2. CASE LoseCommand
    <3>1. /\ \A i \in 1 .. Len(cmds') : cmds'[i].sock <= sock'
          /\ \A i, j \in 1 .. Len(cmds') : i < j => cmds'[i].sock < cmds'[j].sock
          /\ \A i \in 1 .. Len(cmds') :
               i + 1 \in 1 .. Len(cmds) /\ cmds'[i] = cmds[i + 1]
          /\ cmds # <<>> /\ UNCHANGED replies
      BY <1>t, <2>2, TailKeepsCommands DEF LoseCommand
    <3>2. ChannelInv'
      BY <1>t, <2>1, <3>1 DEF ChannelInv
    <3>3. AnswerInv'
      BY <1>t, <2>1, <3>1 DEF AnswerInv
    <3>4. VerifiedInv' /\ MismatchInv'
      BY <1>t, <2>1, <3>1 DEF VerifiedInv, MismatchInv
    <3> QED BY <1>0, <1>t, <2>1, <3>2, <3>3, <3>4 DEF IInv, BudgetInv
  <2>3. CASE LoseReply
    <3>1. /\ ChannelInv'
          /\ \A i \in 1 .. Len(replies') :
               i + 1 \in 1 .. Len(replies) /\ replies'[i] = replies[i + 1]
          /\ UNCHANGED cmds
      BY <1>t, <2>3, TailKeepsReplies DEF LoseReply
    <3>2. AnswerInv'
      BY <1>t, <2>1, <3>1 DEF AnswerInv
    <3>3. VerifiedInv' /\ MismatchInv'
      BY <1>t, <2>1, <3>1 DEF VerifiedInv, MismatchInv
    <3> QED BY <1>0, <1>t, <2>1, <3>1, <3>2, <3>3 DEF IInv, BudgetInv
  <2> QED BY <1>11, <2>2, <2>3 DEF NetworkLoses
<1>12. CASE UNCHANGED vars
  <2>1. UNCHANGED <<cmds, replies, sock, flash, pc, op, address, pageData, budget,
                    retries, sent, mismatch, verified>>
    BY <1>12 DEF vars, chanVars, argVars
  <2> QED BY <1>0, <1>t, <2>1 DEF IInv, ChannelInv, AnswerInv, VerifiedInv, MismatchInv, BudgetInv
<1> QED
  BY <1>1, <1>2, <1>3, <1>4, <1>5, <1>6, <1>7, <1>8, <1>9, <1>10, <1>11, <1>12
  DEF Next, HostStep

(***************************************************************************)
(* The inductive invariant: an answer to the newest request agrees with    *)
(* the page it was asked for, a verified write is stored with nothing left *)
(* in flight, and the retries bound the commands still to be sent.         *)
(***************************************************************************)
THEOREM Inductive == Spec => []IInv
<1> QED BY InitInv, NextInv, PTL DEF Spec

(***************************************************************************)
(* A write that ended with a successful compare is stored.                 *)
(***************************************************************************)
THEOREM VerifiedWritesAreStored == Spec => []VerifiedWriteStored
<1>1. IInv => VerifiedWriteStored
  BY DEF IInv, VerifiedInv, VerifiedWriteStored
<1> QED BY <1>1, Inductive, PTL

(***************************************************************************)
(* A call sends at most twice its retries and one command more.            *)
(***************************************************************************)
THEOREM CommandsAreBounded == Spec => []CommandBudget
<1>1. IInv => CommandBudget
  BY DEF IInv, TypeOK, BudgetInv, CommandBudget
<1> QED BY <1>1, Inductive, PTL

(***************************************************************************)
(* A read that succeeds returns what the page holds when it returns.       *)
(***************************************************************************)
THEOREM ReadsReturnThePage == Spec => ReadsAreCurrent
<1> DEFINE Current == (pc = "readWait" /\ pc' = "idle" /\ result' = 0) => buffer' = flash[address]
<1>1. IInv /\ [Next]_vars => [Current]_vars
  <2> SUFFICES ASSUME IInv, Next, pc = "readWait", pc' = "idle" PROVE buffer' = flash[address]
    BY DEF vars
  <2>1. PageArrives
    BY DEF Next, Call, BeginsAt, HostStep, SendRead, SendWrite, NotSent, NoReply, ReadFailed,
           WriteFailed, ReadGivesUp, WriteGivesUp, StatusArrives, CameraHandles, NetworkLoses
  <2>2. /\ replies # <<>> /\ Head(replies).sock = sock
        /\ Head(replies).kind = "flashdata"
        /\ buffer' = Head(replies).data
    BY <2>1 DEF PageArrives, Arrives
  <2>3. Head(replies) = replies[1] /\ 1 \in 1 .. Len(replies)
    BY <2>2, TailElements DEF IInv, TypeOK
  <2> QED BY <2>2, <2>3 DEF IInv, AnswerInv
<1> QED BY <1>1, Inductive, PTL DEF Spec, ReadsAreCurrent

-----------------------------------------------------------------------------
(* FlashAccess implements PageStore *)

\* A read that gives up does not report success, and a call that returns was
\* made.
ReturnInv ==
    /\ op = "read" /\ pc \in {"read", "readWait"} => retval # 0
    /\ pc # "idle" => calls > 0

\* The reads of wge100ReliableFlashRead fail with values other than 0.
LEMMA ReturnKept ==
    ASSUME IInv, ReturnInv, [Next]_vars
    PROVE  ReturnInv'
<1>1. calls \in Nat /\ op \in {"read", "write"}
  BY DEF IInv, TypeOK
<1>2. ASSUME NEW o \in {"read", "write"}, NEW a \in 0 .. MaxPage + 1,
             NEW d \in Data, NEW b \in Budgets, Call(o, a, d, b)
      PROVE  ReturnInv'
  BY <1>1, <1>2 DEF Call, BeginsAt, ReturnInv
<1>3. CASE SendRead \/ SendWrite
  BY <1>3 DEF SendRead, SendWrite, argVars, ReturnInv
<1>4. CASE NotSent \/ NoReply
  BY <1>4 DEF NotSent, NoReply, ReadFailed, WriteFailed, argVars, ReturnInv
<1>5. CASE ReadGivesUp \/ WriteGivesUp
  BY <1>5 DEF ReadGivesUp, WriteGivesUp, Return, argVars, ReturnInv
<1>6. CASE PageArrives
  BY <1>6 DEF PageArrives, Return, argVars, ReturnInv
<1>7. CASE StatusArrives
  <2>1. op = "write"
    BY <1>1, <1>7 DEF StatusArrives, IInv, BudgetInv
  <2> QED BY <1>7, <2>1 DEF StatusArrives, argVars, ReturnInv
<1>8. CASE CameraHandles \/ NetworkLoses \/ UNCHANGED vars
  BY <1>8 DEF CameraHandles, NetworkLoses, vars, argVars, ReturnInv
<1> QED BY <1>2, <1>3, <1>4, <1>5, <1>6, <1>7, <1>8 DEF Next, HostStep

\* The write a command orders.
WriteOf(c) == [page |-> c.address, data |-> c.data]

\* A command sent adds its write to those on their way, if it is one.
LEMMA WritesAppend ==
    ASSUME NEW S, NEW s \in Seq(S), NEW e \in S
    PROVE  Writes(Append(s, e)) = IF e.kind = "flashwrite" THEN Writes(s) \cup {WriteOf(e)}
                                  ELSE Writes(s)
<1> DEFINE t == Append(s, e)
<1>1. /\ t \in Seq(S) /\ Len(s) \in Nat /\ Len(t) = Len(s) + 1
      /\ \A i \in 1 .. Len(s) : t[i] = s[i]
      /\ t[Len(s) + 1] = e
      /\ DOMAIN s = 1 .. Len(s) /\ DOMAIN t = 1 .. Len(t)
  BY AppendElements
<1> HIDE DEF t
<1>2. \A i : i \in DOMAIN t <=> i \in DOMAIN s \/ i = Len(s) + 1
  BY <1>1
<1>3. \A w : w \in Writes(t) <=> w \in Writes(s) \/ (e.kind = "flashwrite" /\ w = WriteOf(e))
  BY <1>1, <1>2 DEF Writes, WriteOf
<1> QED BY <1>3 DEF t

\* A command handled or lost may take its write from those on their way.
LEMMA WritesTail ==
    ASSUME NEW S, NEW s \in Seq(S), s # <<>>
    PROVE  /\ Head(s).kind # "flashwrite" => Writes(Tail(s)) = Writes(s)
           /\ Head(s).kind = "flashwrite" =>
                /\ WriteOf(Head(s)) \in Writes(s)
                /\ Writes(Tail(s)) \in {Writes(s), Writes(s) \ {WriteOf(Head(s))}}
<1> DEFINE t == Tail(s)
           h == Head(s)
<1>1. /\ Len(s) \in Nat /\ Len(s) >= 1 /\ Len(t) = Len(s) - 1 /\ h = s[1]
      /\ \A i \in 1 .. Len(t) : t[i] = s[i + 1]
      /\ DOMAIN s = 1 .. Len(s) /\ DOMAIN t = 1 .. Len(t)
  BY TailElements
<1> HIDE DEF t, h
<1>2. ASSUME NEW w
      PROVE  w \in Writes(s) <=> w \in Writes(t) \/ (h.kind = "flashwrite" /\ w = WriteOf(h))
  <2>1. ASSUME NEW i \in DOMAIN t, t[i].kind = "flashwrite", w = WriteOf(t[i])
        PROVE  w \in Writes(s)
    <3>1. i + 1 \in DOMAIN s /\ s[i + 1] = t[i]
      BY <1>1
    <3> QED BY <2>1, <3>1 DEF Writes, WriteOf
  <2>2. h.kind = "flashwrite" /\ w = WriteOf(h) => w \in Writes(s)
    <3>1. 1 \in DOMAIN s
      BY <1>1
    <3> QED BY <1>1, <3>1 DEF Writes, WriteOf
  <2>3. ASSUME NEW i \in DOMAIN s, s[i].kind = "flashwrite", w = WriteOf(s[i])
        PROVE  w \in Writes(t) \/ (h.kind = "flashwrite" /\ w = WriteOf(h))
    <3>1. CASE i = 1
      BY <1>1, <2>3, <3>1
    <3>2. CASE i # 1
      <4>1. i - 1 \in DOMAIN t /\ t[i - 1] = s[i]
        BY <1>1, <3>2
      <4> QED BY <2>3, <4>1 DEF Writes, WriteOf
    <3> QED BY <3>1, <3>2
  <2> QED BY <2>1, <2>2, <2>3 DEF Writes, WriteOf
<1>3. h.kind # "flashwrite" => Writes(t) = Writes(s)
  BY <1>2
<1>4. ASSUME h.kind = "flashwrite"
      PROVE  WriteOf(h) \in Writes(s) /\ Writes(t) \in {Writes(s), Writes(s) \ {WriteOf(h)}}
  <2>1. CASE WriteOf(h) \in Writes(t)
    <3>1. Writes(t) = Writes(s)
      BY <1>2, <1>4, <2>1
    <3> QED BY <1>2, <1>4, <3>1
  <2>2. CASE WriteOf(h) \notin Writes(t)
    <3>1. Writes(t) = Writes(s) \ {WriteOf(h)}
      BY <1>2, <1>4, <2>2
    <3> QED BY <1>2, <1>4, <3>1
  <2> QED BY <2>1, <2>2
<1> QED BY <1>3, <1>4 DEF t, h

\* The parts of PageStore that most steps leave alone.
LEMMA StoreIdle ==
    ASSUME UNCHANGED <<flash, op, address, pageData, mismatch, buffer>>,
           Writes(cmds)' = Writes(cmds), (pc' # "idle") <=> (pc # "idle"),
           EndedWell' <=> EndedWell
    PROVE  UNCHANGED Store!vars
  BY DEF Store!vars, Store!callVars

(***************************************************************************)
(* Whatever is lost, late or repeated, the flash functions implement the   *)
(* page store: no write of a page not looked at, and a good end only on    *)
(* the page as it is and with nothing left that could change it.           *)
(***************************************************************************)
THEOREM IsPageStore == Spec => ImplementsPageStore
<1>1. Init => Store!Init
  <2> SUFFICES ASSUME Init PROVE Store!Init
    OBVIOUS
  <2>1. /\ flash \in [Pages -> Data] /\ cmds = <<>> /\ pc = "idle" /\ mismatch = FALSE
        /\ buffer = NoData /\ verified = FALSE /\ calls = 0
    BY DEF Init, ChanInit
  <2>2. Writes(cmds) = {} /\ EndedWell = FALSE
    BY <2>1 DEF Writes, EndedWell
  <2> QED BY <2>1, <2>2, NoDataAssumption DEF Store!Init
<1>2. Init => ReturnInv
  BY DEF Init, ReturnInv
<1>3. IInv /\ ReturnInv /\ [Next]_vars => [Store!Next]_(Store!vars)
  <2> SUFFICES ASSUME IInv, ReturnInv, [Next]_vars PROVE [Store!Next]_(Store!vars)
    OBVIOUS
  <2>0. /\ TypeOK /\ VerifiedInv /\ MismatchInv /\ BudgetInv /\ AnswerInv /\ ChannelInv
        /\ cmds \in Seq(CommandSet) /\ replies \in Seq(ReplySet)
        /\ op \in {"read", "write"} /\ calls \in Nat /\ verified \in BOOLEAN
        /\ flash \in [Pages -> Data] /\ mismatch \in BOOLEAN
    BY DEF IInv, TypeOK
  <2>1. ASSUME NEW o \in {"read", "write"}, NEW a \in 0 .. MaxPage + 1,
               NEW d \in Data, NEW b \in Budgets, Call(o, a, d, b)
        PROVE  Store!Next
    <3>1. /\ pc = "idle" /\ pc' # "idle" /\ op' \in {"read", "write"} /\ mismatch' = FALSE
          /\ cmds' = cmds /\ flash' = flash /\ buffer' = buffer
      BY <2>1 DEF Call, BeginsAt, chanVars
    <3>2. EndedWell' = FALSE
      BY <3>1 DEF EndedWell
    <3>3. Writes(cmds)' = Writes(cmds)
      BY <3>1 DEF Writes
    <3>4. Store!Begin
      BY <3>1, <3>2, <3>3 DEF Store!Begin
    <3> QED BY <3>4 DEF Store!Next
  <2>2. CASE SendRead
    <3>1. /\ UNCHANGED <<flash, op, address, pageData, mismatch, buffer>>
          /\ pc = "read" /\ pc' = "readWait" /\ ~EndedWell /\ ~EndedWell'
      BY <2>2 DEF SendRead, argVars, EndedWell
    <3>2. /\ cmds' = Append(cmds, Command(sock + 1, "flashread", address, NoData))
          /\ Command(sock + 1, "flashread", address, NoData) \in CommandSet
      BY <2>0, <2>2 DEF SendRead, Request, ValidAddress, Command, CommandSet, TypeOK, Pages
    <3>3. Command(sock + 1, "flashread", address, NoData).kind # "flashwrite"
      BY DEF Command
    <3>4. Writes(cmds') = Writes(cmds)
      BY <2>0, <3>2, <3>3, WritesAppend
    <3>5. Writes(cmds)' = Writes(cmds)
      BY <3>4 DEF Writes
    <3> QED BY <3>1, <3>5, StoreIdle
  <2>3. CASE SendWrite
    <3> DEFINE c == Command(sock + 1, "flashwrite", address, pageData)
    <3>1. /\ UNCHANGED <<flash, op, address, pageData, mismatch, buffer>>
          /\ pc = "write" /\ pc' = "writeWait" /\ ~EndedWell /\ ~EndedWell' /\ retries > 0
      BY <2>3 DEF SendWrite, argVars, EndedWell
    <3>2. cmds' = Append(cmds, c) /\ c \in CommandSet /\ address \in Pages
      BY <2>0, <2>3 DEF SendWrite, Request, ValidAddress, Command, CommandSet, TypeOK, Pages
    <3>3. c.kind = "flashwrite" /\ WriteOf(c) = [page |-> address, data |-> pageData]
      BY DEF Command, WriteOf
    <3> HIDE DEF c
    <3>4. Writes(cmds') = Writes(cmds) \cup {[page |-> address, data |-> pageData]}
      BY <2>0, <3>2, <3>3, WritesAppend
    <3>5. Writes(cmds)' = Writes(cmds) \cup {[page |-> address, data |-> pageData]}
      BY <3>4 DEF Writes
    <3>6. op = "write" /\ mismatch
      BY <2>0, <3>1 DEF BudgetInv, MismatchInv
    <3>7. EndedWell' = EndedWell /\ (pc' # "idle") = (pc # "idle")
      BY <3>1 DEF EndedWell
    <3>8. UNCHANGED <<flash, pc # "idle", <<op, address, pageData>>, mismatch, buffer, EndedWell>>
      BY <3>1, <3>7
    <3>9. pc # "idle"
      BY <3>1
    <3>10. Store!Order
      BY <3>2, <3>5, <3>6, <3>8, <3>9 DEF Store!Order, Store!callVars
    <3> QED BY <3>10 DEF Store!Next
  <2>4. CASE NotSent \/ NoReply \/ StatusArrives
    <3>1. /\ UNCHANGED <<cmds, flash, op, address, pageData, mismatch, buffer>>
          /\ pc # "idle" /\ pc' # "idle"
      BY <2>4 DEF NotSent, NoReply, StatusArrives, Arrives, ReadFailed, WriteFailed, chanVars, argVars
    <3>2. EndedWell' <=> EndedWell
      BY <3>1 DEF EndedWell
    <3>3. Writes(cmds)' = Writes(cmds)
      BY <3>1 DEF Writes
    <3> QED BY <3>1, <3>2, <3>3, StoreIdle
  <2>5. CASE ReadGivesUp \/ WriteGivesUp
    <3>1. /\ UNCHANGED <<cmds, flash, op, address, pageData, mismatch, buffer, verified, calls>>
          /\ pc # "idle" /\ pc \in {"read", "write"}
      BY <2>5 DEF ReadGivesUp, WriteGivesUp, chanVars, argVars
    <3>2. ~EndedWell /\ ~verified
      BY <2>0, <3>1 DEF EndedWell, VerifiedInv
    <3>3. Writes(cmds)' = Writes(cmds)
      BY <3>1 DEF Writes
    <3>4. CASE pc' = "idle"
      <4>1. op = "read" => result' # 0
        BY <2>0, <2>5, <3>4 DEF ReadGivesUp, WriteGivesUp, Return, ReturnInv, BudgetInv
      <4>2. ~EndedWell'
        BY <3>1, <3>2, <4>1 DEF EndedWell
      <4>3. EndedWell' <=> EndedWell
        BY <3>2, <4>2
      <4>4. Store!GiveUp
        BY <3>1, <3>3, <3>4, <4>3 DEF Store!GiveUp, Store!callVars
      <4> QED BY <4>4 DEF Store!Next
    <3>5. CASE pc' # "idle"
      <4>1. EndedWell' <=> EndedWell
        BY <3>2, <3>5 DEF EndedWell
      <4> QED BY <3>1, <3>3, <3>5, <4>1, StoreIdle
    <3> QED BY <3>4, <3>5
  <2>6. CASE PageArrives
    <3>1. /\ replies # <<>> /\ Head(replies).sock = sock
          /\ Head(replies).kind = "flashdata" /\ buffer' = Head(replies).data
          /\ pc = "readWait"
          /\ UNCHANGED <<cmds, flash, op, address, pageData, calls>>
      BY <2>6 DEF PageArrives, Arrives, argVars
    <3>2. Head(replies) = replies[1] /\ 1 \in 1 .. Len(replies)
      BY <2>0, <3>1, TailElements
    <3>3. cmds = <<>> /\ buffer' = flash[address] /\ address \in Pages
      BY <2>0, <3>1, <3>2 DEF ChannelInv, AnswerInv
    <3>4. Writes(cmds) = {} /\ Writes(cmds)' = {}
      BY <3>1, <3>3 DEF Writes
    <3>5. ~EndedWell /\ calls > 0 /\ ~verified
      BY <2>0, <3>1 DEF EndedWell, ReturnInv, VerifiedInv
    <3>6. CASE op = "read" \/ flash[address] = pageData
      <4>1. pc' = "idle" /\ result' = 0 /\ mismatch' = mismatch /\ (op # "read" => verified')
        BY <2>6, <3>3, <3>6 DEF PageArrives, Return
      <4>2. EndedWell' = TRUE
        BY <2>0, <3>1, <3>5, <4>1 DEF EndedWell
      <4>3. Store!Look
        BY <3>1, <3>3, <3>4, <3>6, <4>1, <4>2 DEF Store!Look, Store!callVars
      <4> QED BY <4>3 DEF Store!Next
    <3>7. CASE ~(op = "read" \/ flash[address] = pageData)
      <4>1. pc' = "write" /\ mismatch' = TRUE
        BY <2>6, <3>3, <3>7 DEF PageArrives
      <4>2. EndedWell' = EndedWell
        BY <3>5, <4>1 DEF EndedWell
      <4>3. Store!Look
        BY <3>1, <3>3, <3>4, <3>7, <4>1, <4>2 DEF Store!Look, Store!callVars
      <4> QED BY <4>3 DEF Store!Next
    <3> QED BY <3>6, <3>7
  <2>7. CASE CameraHandles \/ (LoseCommand /\ NetworkLoses)
    <3> DEFINE c == Head(cmds)
    <3>1. /\ cmds # <<>> /\ cmds' = Tail(cmds)
          /\ UNCHANGED <<pc, op, address, pageData, mismatch, buffer, verified, calls, result>>
          /\ \/ UNCHANGED flash
             \/ c.kind = "flashwrite" /\ flash' = [flash EXCEPT ![c.address] = c.data]
      BY <2>7 DEF CameraHandles, LoseCommand, NetworkLoses, argVars
    <3>2. EndedWell' <=> EndedWell
      BY <3>1 DEF EndedWell
    <3>3. /\ c.kind # "flashwrite" => Writes(cmds') = Writes(cmds)
          /\ c.kind = "flashwrite" => /\ WriteOf(c) \in Writes(cmds)
                                      /\ Writes(cmds') \in {Writes(cmds), Writes(cmds) \ {WriteOf(c)}}
      BY <2>0, <3>1, WritesTail
    <3>4. Writes(cmds)' = Writes(cmds')
      BY DEF Writes
    <3>5. WriteOf(c).page = c.address /\ WriteOf(c).data = c.data
      BY DEF WriteOf
    <3> HIDE DEF c
    <3>6. CASE UNCHANGED flash /\ Writes(cmds') = Writes(cmds)
      BY <3>1, <3>2, <3>4, <3>6, StoreIdle
    <3>7. CASE UNCHANGED flash /\ Writes(cmds') # Writes(cmds)
      <4>1. Store!Lose(WriteOf(c))
        BY <3>1, <3>2, <3>3, <3>4, <3>7 DEF Store!Lose, Store!callVars, EndedWell
      <4> QED BY <3>3, <3>7, <4>1 DEF Store!Next
    <3>8. CASE c.kind = "flashwrite" /\ flash' = [flash EXCEPT ![c.address] = c.data]
      <4>1. Store!Effect(WriteOf(c))
        BY <3>1, <3>2, <3>3, <3>4, <3>5, <3>8 DEF Store!Effect, Store!callVars, EndedWell
      <4> QED BY <3>3, <3>8, <4>1 DEF Store!Next
    <3> QED BY <3>1, <3>6, <3>7, <3>8
  <2>8. CASE LoseReply /\ NetworkLoses
    <3>1. UNCHANGED <<cmds, flash, pc, op, address, pageData, mismatch, buffer, verified, calls, result>>
      BY <2>8 DEF LoseReply, NetworkLoses, argVars
    <3>2. (EndedWell' <=> EndedWell) /\ Writes(cmds)' = Writes(cmds)
      BY <3>1 DEF EndedWell, Writes
    <3> QED BY <3>1, <3>2, StoreIdle
  <2>9. CASE UNCHANGED vars
    <3>1. UNCHANGED <<cmds, flash, pc, op, address, pageData, mismatch, buffer, verified, calls, result>>
      BY <2>9 DEF vars, chanVars, argVars
    <3>2. (EndedWell' <=> EndedWell) /\ Writes(cmds)' = Writes(cmds)
      BY <3>1 DEF EndedWell, Writes
    <3> QED BY <3>1, <3>2, StoreIdle
  <2>10. NetworkLoses => (LoseCommand /\ NetworkLoses) \/ (LoseReply /\ NetworkLoses)
    BY DEF NetworkLoses
  <2> QED BY <2>1, <2>2, <2>3, <2>4, <2>5, <2>6, <2>7, <2>8, <2>9, <2>10 DEF Next, HostStep
<1>4. IInv /\ ReturnInv /\ [Next]_vars => ReturnInv'
  BY ReturnKept
<1> QED BY Inductive, <1>1, <1>2, <1>3, <1>4, PTL DEF Spec, ImplementsPageStore, Store!Spec
=============================================================================
