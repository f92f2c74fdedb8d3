----------------------------- MODULE PacketWait -----------------------------
(***************************************************************************)
(* wge100WaitForPacket (host_netutil.c) in the loop its callers put around *)
(* it:                                                                     *)
(*     do { s = wge100WaitForPacket(..., &wait_us); ... } while (wait_us)  *)
(*                                                                         *)
(* Time is a counter of ticks.  "clock" is what gettimeofday returns,      *)
(* counted from the moment the caller began, and "timeout" the moment at   *)
(* which the current call is to give up.  select is given the whole        *)
(* wait_us each time the function calls it (timeout - timestarted, where   *)
(* the rest of the time would be timeout - timenow), so it may sleep until *)
(* "wake".  The caller sees what select returned at most one tick later.   *)
(***************************************************************************)
EXTENDS Integers

CONSTANTS Wait,      \* the time callers ask for
          MaxErrors  \* bound: failures of select and recvfrom

ASSUME WaitAssumption == Wait \in Nat \ {0}
ASSUME MaxErrorsAssumption == MaxErrors \in Nat

VARIABLES clock,
          wait_us,   \* 0: no wait is going on, or the wait has timed out
          started,   \* timestarted
          wake,      \* when select gives up
          errors     \* calls that failed since the caller began (history)

waitVars == <<clock, wait_us, started, wake, errors>>

timeout == started + wait_us
Waiting == wait_us > 0

WaitInit ==
    /\ clock = 0
    /\ wait_us = 0
    /\ started = 0
    /\ wake = 0
    /\ errors = 0

\* A caller enters its loop.
BeginWait ==
    /\ clock' = 0
    /\ wait_us' = Wait
    /\ started' = 0
    /\ wake' = Wait
    /\ errors' = 0

\* The caller leaves its loop.
EndWait ==
    /\ clock' = 0
    /\ wait_us' = 0
    /\ started' = 0
    /\ wake' = 0
    /\ errors' = 0

\* The function is called (again) with the time w.
CallFor(w) ==
    /\ started' = clock
    /\ wait_us' = w
    /\ wake' = clock + w

Tick ==
    /\ Waiting
    /\ clock <= wake
    /\ clock' = clock + 1
    /\ UNCHANGED <<wait_us, started, wake, errors>>

(***************************************************************************)
(* The test of the while loop.  It lets the moment of the timeout itself   *)
(* pass.                                                                   *)
(***************************************************************************)
OnTime == timeout >= clock
SelectAgain ==
    /\ OnTime
    /\ wake' = clock + wait_us
    /\ UNCHANGED <<clock, wait_us, started, errors>>

\* A packet of another kind is taken out of the socket and dropped.
ForeignPacket == Waiting /\ SelectAgain

SelectTimesOut == Waiting /\ clock >= wake /\ SelectAgain

\* Two faults: the wait is never over; wait_us is not set to 0.
NeverTimesOut == FALSE /\ UNCHANGED waitVars
TimesOutUntold == Waiting /\ ~OnTime /\ UNCHANGED waitVars

\* The function returns with wait_us = 0.
TimesOut ==
    /\ Waiting
    /\ ~OnTime
    /\ EndWait

\* select or recvfrom fails: wait_us is left alone and the loop calls again.
WaitFails ==
    /\ Waiting
    /\ errors < MaxErrors
    /\ errors' = errors + 1
    /\ CallFor(wait_us)
    /\ UNCHANGED clock

\* The time left when a packet is found, and a fault: it is not updated.
TimeLeftUnchanged == wait_us
TimeLeft == IF timeout > clock THEN timeout - clock ELSE 0

\* A packet the caller waits for is there, with time left; it waits on.
PacketInTime ==
    /\ Waiting
    /\ TimeLeft > 0
    /\ CallFor(TimeLeft)
    /\ UNCHANGED <<clock, errors>>

\* The same without time left: the caller takes it for a timeout.
PacketTooLate ==
    /\ Waiting
    /\ TimeLeft = 0
    /\ EndWait

WaitNext ==
    \/ BeginWait
    \/ EndWait
    \/ Tick
    \/ ForeignPacket
    \/ SelectTimesOut
    \/ TimesOut
    \/ WaitFails
    \/ PacketInTime
    \/ PacketTooLate

WaitSpec == WaitInit /\ [][WaitNext]_waitVars

-----------------------------------------------------------------------------
WaitTypeOK ==
    /\ clock \in Nat
    /\ wait_us \in 0 .. Wait
    /\ started \in Nat
    /\ wake \in Nat
    /\ errors \in 0 .. MaxErrors

(***************************************************************************)
(* Whatever arrives, a caller is held for at most twice the time it asked  *)
(* for (and one tick), and as long again for every call that failed: the   *)
(* time left is carried from one call to the next, and only the last sleep *)
(* of select goes past the end.                                            *)
(***************************************************************************)
WaitBounded == clock <= (errors + 1) * (2 * Wait + 1)
=============================================================================
