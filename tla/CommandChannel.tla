--------------------------- MODULE CommandChannel ---------------------------
(***************************************************************************)
(* The request/reply path every camera command takes: the host opens a     *)
(* fresh UDP socket for each request (wge100CmdSocketCreate), sends one    *)
(* command packet that names the socket, and waits on it; the camera       *)
(* answers to that socket.  Packets keep their order in each direction,    *)
(* may be lost, and may arrive after the host gave up and closed the       *)
(* socket.  A packet that is lost anywhere on its way is removed when it   *)
(* would arrive, which is the same thing for a queue.                      *)
(***************************************************************************)
EXTENDS Integers, Sequences

CONSTANTS Data,     \* the values a page (or register) can hold
          NoData    \* the payload of a packet without one

ASSUME NoDataAssumption == NoData \notin Data

VARIABLES cmds,     \* command packets in flight, oldest first
          replies,  \* replies in flight, oldest first
          sock      \* the newest socket; older ones are closed

chanVars == <<cmds, replies, sock>>

Command(s, kind, address, data) ==
    [sock |-> s, kind |-> kind, address |-> address, data |-> data]
Reply(s, kind, data) == [sock |-> s, kind |-> kind, data |-> data]

ChanInit == cmds = <<>> /\ replies = <<>> /\ sock = 0

\* Open a socket and send one command that wants its reply there.
Request(kind, address, data) ==
    /\ sock' = sock + 1
    /\ cmds' = Append(cmds, Command(sock + 1, kind, address, data))
    /\ UNCHANGED replies

\* A fault: one socket for all requests.
ArrivesAnySocket(kind) ==
    /\ replies # <<>>
    /\ Head(replies).kind = kind
    /\ replies' = Tail(replies)
    /\ UNCHANGED <<cmds, sock>>

\* The oldest reply reaches the newest socket.
Arrives(kind) ==
    /\ replies # <<>>
    /\ Head(replies).sock = sock
    /\ Head(replies).kind = kind
    /\ replies' = Tail(replies)
    /\ UNCHANGED <<cmds, sock>>

LoseCommand == cmds # <<>> /\ cmds' = Tail(cmds) /\ UNCHANGED <<replies, sock>>

\* A reply is lost, or its socket is closed.
LoseReply == replies # <<>> /\ replies' = Tail(replies) /\ UNCHANGED <<cmds, sock>>
=============================================================================
