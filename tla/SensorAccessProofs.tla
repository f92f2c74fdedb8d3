------------------------- MODULE SensorAccessProofs --------------------------
(***************************************************************************)
(* Theorem about SensorAccess: a register write that ended with a          *)
(* successful compare is stored, for every set of register values, retry   *)
(* budget and number of calls, with I2C faults and without.                *)
(***************************************************************************)
EXTENDS SensorAccess, SequenceTheorems, TLAPS

Commands ==
    [sock : Nat, kind : {"sensorread"}, address : {0}, data : {NoData}]
      \cup [sock : Nat, kind : {"sensorwrite"}, address : {0}, data : Data]
Replies ==
    [sock : Nat, kind : {"sensordata"}, data : Data]
      \cup [sock : Nat, kind : {"status"}, data : {NoData}]

Typed ==
    /\ cmds \in Seq(Commands)
    /\ replies \in Seq(Replies)
    /\ sock \in Nat
    /\ register \in Data
    /\ data \in Data

(***************************************************************************)
(* The newest request is the last one in flight, and once it is answered   *)
(* nothing is left that could change the register.                         *)
(***************************************************************************)
NewestIsLast ==
    /\ \A i \in 1 .. Len(cmds) : cmds[i].sock <= sock /\ (cmds[i].sock = sock => i = Len(cmds))
    /\ \A i \in 1 .. Len(replies) : replies[i].sock <= sock /\ (replies[i].sock = sock => cmds = <<>>)

\* An answer to the newest request is what the register holds or the idle bus.
AnswerTrue ==
    \A i \in 1 .. Len(replies) :
        (replies[i].sock = sock /\ replies[i].kind = "sensordata")
          => replies[i].data \in {register, BusValue}

VerifiedInv ==
    verified => /\ pc = "idle" /\ cmds = <<>>
                /\ data = BusValue \/ register = data

IInv == Typed /\ NewestIsLast /\ AnswerTrue /\ VerifiedInv

USE BusValueAssumption, BudgetsAssumption, MaxCallsAssumption, BusFaultsAssumption, NoDataAssumption

-----------------------------------------------------------------------------
(***************************************************************************)
(* Appending to a sequence and taking its head, element by element.        *)
(***************************************************************************)
LEMMA AppendElements ==
    ASSUME NEW S, NEW s \in Seq(S), NEW e \in S
    PROVE  /\ Append(s, e) \in Seq(S)
           /\ Len(s) \in Nat
           /\ Len(Append(s, e)) = Len(s) + 1
           /\ \A i \in 1 .. Len(s) : Append(s, e)[i] = s[i]
           /\ Append(s, e)[Len(s) + 1] = e
  OBVIOUS

\* Head and tail of a sequence that is not empty.
LEMMA TailElements ==
    ASSUME NEW S, NEW s \in Seq(S), s # <<>>
    PROVE  /\ Tail(s) \in Seq(S)
           /\ Head(s) = s[1] /\ Head(s) \in S
           /\ Len(s) \in Nat /\ Len(s) >= 1
           /\ Len(Tail(s)) = Len(s) - 1
           /\ \A i \in 1 .. Len(Tail(s)) : i + 1 \in 1 .. Len(s) /\ Tail(s)[i] = s[i + 1]
           /\ Len(s) = 1 => Tail(s) = <<>>
<1>1. /\ Tail(s) \in Seq(S)
      /\ Head(s) = s[1] /\ Head(s) \in S
      /\ Len(s) \in Nat /\ Len(s) >= 1
      /\ Len(Tail(s)) = Len(s) - 1
  OBVIOUS
<1>2. \A i \in 1 .. Len(Tail(s)) : Tail(s)[i] = s[i + 1]
  OBVIOUS
<1>3. ASSUME NEW t \in Seq(S), Len(t) = 0 PROVE t = <<>>
  BY <1>3, EmptySeq
<1>5. Len(s) = 1 => Len(Tail(s)) = 0
  BY <1>1
<1>6. Len(s) = 1 => Tail(s) = <<>>
  BY <1>1, <1>3, <1>5, Zenon
<1>4. \A i \in 1 .. Len(Tail(s)) : i + 1 \in 1 .. Len(s)
  BY <1>1
<1> QED BY <1>1, <1>2, <1>4, <1>6

(***************************************************************************)
(* Before the first call nothing was sent.                                 *)
(***************************************************************************)
LEMMA InitInv == Init => IInv
  BY DEF Init, ChanInit, IInv, Typed, NewestIsLast, AnswerTrue, VerifiedInv

(***************************************************************************)
(* A request opens a socket that no packet in flight names yet.            *)
(***************************************************************************)
LEMMA RequestSent ==
    ASSUME IInv, NEW kind, NEW d, Request(kind, 0, d),
           Command(sock + 1, kind, 0, d) \in Commands, ~verified', UNCHANGED <<register, data>>
    PROVE  IInv'
<1> DEFINE c == Command(sock + 1, kind, 0, d)
<1>1. /\ cmds' = Append(cmds, c) /\ sock' = sock + 1 /\ UNCHANGED replies
      /\ c.sock = sock + 1 /\ sock \in Nat
  BY DEF Request, Command, IInv, Typed
<1>2. /\ cmds' \in Seq(Commands)
      /\ Len(cmds) \in Nat
      /\ Len(cmds') = Len(cmds) + 1
      /\ \A i \in 1 .. Len(cmds) : cmds'[i] = cmds[i]
      /\ cmds'[Len(cmds) + 1] = c
  BY <1>1, AppendElements DEF IInv, Typed
<1> HIDE DEF c
<1>3. /\ \A i \in 1 .. Len(cmds) : cmds[i].sock <= sock /\ cmds[i].sock \in Nat
      /\ \A i \in 1 .. Len(replies) : replies[i].sock <= sock /\ replies[i].sock \in Nat
  BY DEF IInv, NewestIsLast, Typed, Commands, Replies
<1>4. \A i \in 1 .. Len(replies') : replies'[i].sock <= sock' /\ replies'[i].sock # sock'
  BY <1>1, <1>3
<1>5. ASSUME NEW i \in 1 .. Len(cmds')
      PROVE  cmds'[i].sock <= sock' /\ (cmds'[i].sock = sock' => i = Len(cmds'))
  BY <1>1, <1>2, <1>3
<1>6. Typed'
  BY <1>1, <1>2 DEF IInv, Typed
<1> QED
  BY <1>4, <1>5, <1>6 DEF IInv, NewestIsLast, AnswerTrue, VerifiedInv

(***************************************************************************)
(* Losing or receiving the oldest packet leaves the others as they were.   *)
(***************************************************************************)
LEMMA ReplyTaken ==
    ASSUME IInv, replies # <<>>, replies' = Tail(replies),
           UNCHANGED <<cmds, sock, register, data>>
    PROVE  Typed' /\ NewestIsLast' /\ AnswerTrue'
<1>1. /\ replies' \in Seq(Replies)
      /\ \A i \in 1 .. Len(replies') : i + 1 \in 1 .. Len(replies) /\ replies'[i] = replies[i + 1]
  BY TailElements DEF IInv, Typed
<1> QED
  BY <1>1 DEF IInv, Typed, NewestIsLast, AnswerTrue

\* The camera takes the oldest command; none is left when it is of the newest
\* socket.
LEMMA CommandTaken ==
    ASSUME IInv, cmds # <<>>, cmds' = Tail(cmds), UNCHANGED sock
    PROVE  /\ cmds' \in Seq(Commands)
           /\ Head(cmds) \in Commands /\ Head(cmds).sock <= sock
           /\ Head(cmds).sock = sock => cmds' = <<>>
           /\ \A i \in 1 .. Len(cmds') : cmds'[i].sock <= sock /\ (cmds'[i].sock = sock => i = Len(cmds'))
           /\ \A i \in 1 .. Len(replies) : replies[i].sock # sock
<1>1. /\ cmds' \in Seq(Commands)
      /\ Head(cmds) = cmds[1] /\ Head(cmds) \in Commands
      /\ Len(cmds) \in Nat /\ Len(cmds) >= 1
      /\ Len(cmds') = Len(cmds) - 1
      /\ \A i \in 1 .. Len(cmds') : i + 1 \in 1 .. Len(cmds) /\ cmds'[i] = cmds[i + 1]
      /\ Len(cmds) = 1 => cmds' = <<>>
  BY TailElements DEF IInv, Typed
<1>2. NewestIsLast /\ 1 \in 1 .. Len(cmds)
  BY <1>1 DEF IInv
<1>3. ASSUME NEW i \in 1 .. Len(cmds')
      PROVE  cmds'[i].sock <= sock /\ (cmds'[i].sock = sock => i = Len(cmds'))
  <2>1. i + 1 \in 1 .. Len(cmds) /\ cmds'[i] = cmds[i + 1]
    BY <1>1
  <2>2. cmds[i + 1].sock <= sock /\ (cmds[i + 1].sock = sock => i + 1 = Len(cmds))
    BY <1>2, <2>1 DEF NewestIsLast
  <2>3. Len(cmds) \in Nat /\ Len(cmds') = Len(cmds) - 1
    BY <1>1
  <2>4. ASSUME NEW n \in Nat, NEW m, m = n - 1, NEW k \in 1 .. m, k + 1 = n PROVE k = m
    BY <2>4
  <2>5. i + 1 = Len(cmds) => i = Len(cmds')
    BY <2>3, <2>4, Zenon
  <2> QED BY <2>1, <2>2, <2>5, Zenon
<1>4. Head(cmds).sock <= sock /\ (Head(cmds).sock = sock => 1 = Len(cmds))
  BY <1>1, <1>2 DEF NewestIsLast
<1>5. \A i \in 1 .. Len(replies) : replies[i].sock # sock
  BY <1>2 DEF NewestIsLast
<1> QED
  BY <1>1, <1>3, <1>4, <1>5

(***************************************************************************)
(* The camera answers the oldest command.  If that is the newest request,  *)
(* the answer tells what the register holds from then on.                  *)
(***************************************************************************)
LEMMA CameraAnswers == IInv /\ CameraHandles => IInv'
<1> SUFFICES ASSUME IInv, CameraHandles PROVE IInv'
  OBVIOUS
<1> DEFINE c == Head(cmds)
<1>0. Typed
  BY DEF IInv
<1>1. /\ cmds # <<>> /\ cmds' = Tail(cmds) /\ UNCHANGED <<sock, data, pc, verified>>
  BY DEF CameraHandles, argVars
<1>2. /\ cmds' \in Seq(Commands)
      /\ c \in Commands /\ c.sock <= sock
      /\ c.sock = sock => cmds' = <<>>
      /\ \A i \in 1 .. Len(cmds') : cmds'[i].sock <= sock /\ (cmds'[i].sock = sock => i = Len(cmds'))
      /\ \A i \in 1 .. Len(replies) : replies[i].sock # sock
  BY <1>1, CommandTaken
<1>3. PICK r \in Replies :
        /\ r.sock = c.sock
        /\ replies' = Append(replies, r)
        /\ r.kind = "sensordata" => r.data \in {register, BusValue} /\ UNCHANGED register
        /\ register' \in Data
  <2>1. c.sock \in Nat /\ (c.kind = "sensorwrite" => c.data \in Data)
    BY <1>2 DEF Commands
  <2>2. register \in Data
    BY DEF IInv, Typed
  <2>3. CASE c.kind = "sensorread"
    <3>1. PICK v \in {register, BusValue} : /\ replies' = Append(replies, Reply(c.sock, "sensordata", v))
                                            /\ UNCHANGED register
      BY <2>3 DEF CameraHandles
    <3>2. Reply(c.sock, "sensordata", v) \in Replies
      BY <2>1, <2>2 DEF Reply, Replies
    <3> QED BY <2>2, <3>1, <3>2 DEF Reply
  <2>4. CASE c.kind = "sensorwrite"
    <3>1. /\ replies' = Append(replies, Reply(c.sock, "status", NoData))
          /\ register' \in {c.data, register}
      BY <2>4 DEF CameraHandles
    <3>2. Reply(c.sock, "status", NoData) \in Replies
      BY <2>1 DEF Reply, Replies
    <3> QED BY <2>1, <2>2, <2>4, <3>1, <3>2 DEF Reply
  <2> QED BY <2>3, <2>4 DEF CameraHandles
<1>4. /\ replies' \in Seq(Replies)
      /\ Len(replies) \in Nat
      /\ Len(replies') = Len(replies) + 1
      /\ \A i \in 1 .. Len(replies) : replies'[i] = replies[i]
      /\ replies'[Len(replies) + 1] = r
  BY <1>3, AppendElements DEF IInv, Typed
<1>5. ASSUME NEW i \in 1 .. Len(replies')
      PROVE  /\ replies'[i].sock <= sock
             /\ replies'[i].sock = sock => cmds' = <<>> /\ replies'[i] = r
  <2>1. CASE i = Len(replies) + 1
    BY <1>2, <1>3, <1>4, <2>1
  <2>2. CASE i # Len(replies) + 1
    <3>1. i \in 1 .. Len(replies) /\ replies'[i] = replies[i]
      BY <1>4, <2>2
    <3> QED BY <1>2, <3>1 DEF IInv, NewestIsLast
  <2> QED BY <2>1, <2>2
<1>6. Typed'
  BY <1>1, <1>2, <1>3, <1>4 DEF IInv, Typed
<1>7. NewestIsLast'
  BY <1>1, <1>2, <1>5 DEF NewestIsLast
<1>8. AnswerTrue'
  BY <1>1, <1>3, <1>5 DEF AnswerTrue
<1>9. VerifiedInv'
  BY <1>1 DEF IInv, VerifiedInv
<1> QED BY <1>6, <1>7, <1>8, <1>9 DEF IInv

(***************************************************************************)
(* Every step keeps the inductive invariant.                               *)
(***************************************************************************)
LEMMA NextInv == IInv /\ [Next]_vars => IInv'
<1> SUFFICES ASSUME IInv, [Next]_vars PROVE IInv'
  OBVIOUS
<1>0. Typed /\ NewestIsLast /\ AnswerTrue /\ VerifiedInv
  BY DEF IInv
<1>1. ASSUME NEW o \in {"read", "write"}, NEW d \in Data, NEW b \in Budgets, Call(o, d, b)
      PROVE  IInv'
  BY <1>0, <1>1 DEF Call, chanVars, IInv, Typed, NewestIsLast, AnswerTrue, VerifiedInv
<1>2. CASE SendRead
  <2>1. Command(sock + 1, "sensorread", 0, NoData) \in Commands
    BY <1>0 DEF Typed, Command, Commands
  <2> QED BY <1>0, <1>2, <2>1, RequestSent DEF SendRead, argVars, VerifiedInv
<1>3. CASE SendWrite
  <2>1. Command(sock + 1, "sensorwrite", 0, data) \in Commands
    BY <1>0 DEF Typed, Command, Commands
  <2> QED BY <1>0, <1>3, <2>1, RequestSent DEF SendWrite, argVars, VerifiedInv
<1>4. CASE NotSent \/ NoReply \/ ReadGivesUp \/ WriteGivesUp
  <2>1. UNCHANGED <<chanVars, register, data, verified>> /\ pc # "idle"
    BY <1>4 DEF NotSent, NoReply, ReadGivesUp, WriteGivesUp, Failed, Return, argVars
  <2> QED BY <1>0, <2>1 DEF chanVars, IInv, Typed, NewestIsLast, AnswerTrue, VerifiedInv
<1>5. CASE ValueArrives
  <2>1. /\ replies # <<>> /\ replies' = Tail(replies) /\ UNCHANGED <<cmds, sock, register, data>>
        /\ Head(replies).sock = sock /\ Head(replies).kind = "sensordata"
        /\ readback' = Head(replies).data /\ pc = "readWait"
        /\ verified' => pc' = "idle" /\ (verified \/ readback' = data)
    BY <1>0, <1>5 DEF ValueArrives, Arrives, Return, Matches, argVars, VerifiedInv
  <2>2. Head(replies) = replies[1] /\ 1 \in 1 .. Len(replies)
    BY <1>0, <2>1, TailElements DEF Typed
  <2>3. cmds = <<>> /\ readback' \in {register, BusValue}
    BY <1>0, <2>1, <2>2 DEF NewestIsLast, AnswerTrue
  <2>4. VerifiedInv'
    BY <1>0, <2>1, <2>3 DEF VerifiedInv
  <2> QED BY <2>1, <2>4, ReplyTaken DEF IInv
<1>6. CASE StatusArrives
  <2>1. /\ replies # <<>> /\ replies' = Tail(replies) /\ pc = "writeWait"
        /\ UNCHANGED <<cmds, sock, register, data, verified>>
    BY <1>6 DEF StatusArrives, Arrives, argVars
  <2> QED BY <1>0, <2>1, ReplyTaken DEF IInv, VerifiedInv
<1>7. CASE CameraHandles
  BY <1>7, CameraAnswers
<1>8. CASE NetworkLoses
  <2>1. UNCHANGED <<register, pc, data, verified>>
    BY <1>8 DEF NetworkLoses, argVars
  <2>2. CASE LoseCommand
    <3>1. cmds # <<>> /\ cmds' = Tail(cmds) /\ UNCHANGED <<replies, sock>>
      BY <2>2 DEF LoseCommand
    <3> QED BY <1>0, <2>1, <3>1, CommandTaken
            DEF IInv, Typed, NewestIsLast, AnswerTrue, VerifiedInv
  <2>3. CASE LoseReply
    BY <1>0, <2>1, <2>3, ReplyTaken DEF LoseReply, IInv, VerifiedInv
  <2> QED BY <1>8, <2>2, <2>3 DEF NetworkLoses
<1>9. CASE UNCHANGED vars
  BY <1>0, <1>9 DEF vars, chanVars, argVars, IInv, Typed, NewestIsLast, AnswerTrue, VerifiedInv
<1> QED
  BY <1>1, <1>2, <1>3, <1>4, <1>5, <1>6, <1>7, <1>8, <1>9 DEF Next, HostStep

(***************************************************************************)
(* wge100ReliableSensorWrite: after a successful compare the register      *)
(* holds the data, whatever was lost or answered late on the way.          *)
(***************************************************************************)
THEOREM VerifiedRegisterIsStored == Spec => []VerifiedWriteStored
<1>1. IInv => VerifiedWriteStored
  BY DEF IInv, VerifiedInv, VerifiedWriteStored
<1> QED BY <1>1, InitInv, NextInv, PTL DEF Spec
=============================================================================
