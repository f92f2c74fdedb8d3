----------------------------- MODULE PageStore ------------------------------
(***************************************************************************)
(* What the reliable flash functions promise, with packets, sockets and    *)
(* retries left out.  A write that was ordered may take effect at any      *)
(* time, also after its call gave up, or never.  A call that ends well has *)
(* looked at the page as it is, when no write was pending any more.        *)
(***************************************************************************)
CONSTANTS Pages, Data

VARIABLES store,     \* the pages
          pending,   \* writes that may still take effect
          busy,      \* is a call under way?
          op, page, data,
          differs,   \* has this call found other data in the page?
          found,     \* what the last look found
          good       \* did the last call end well?

callVars == <<op, page, data>>
vars == <<store, pending, busy, callVars, differs, found, good>>

Init ==
    /\ store \in [Pages -> Data]
    /\ pending = {}
    /\ busy = FALSE
    /\ differs = FALSE
    /\ found \notin Data
    /\ good = FALSE

Begin ==
    /\ ~busy
    /\ busy' = TRUE
    /\ op' \in {"read", "write"}
    /\ differs' = FALSE
    /\ good' = FALSE
    /\ UNCHANGED <<store, pending, found>>

\* A write is ordered for a page that differs only.
Order ==
    /\ busy
    /\ op = "write"
    /\ page \in Pages
    /\ differs
    /\ pending' = pending \cup {[page |-> page, data |-> data]}
    /\ UNCHANGED <<store, busy, callVars, differs, found, good>>

\* The same write may have been ordered before and be pending still.
Effect(w) ==
    /\ w \in pending
    /\ pending' \in {pending, pending \ {w}}
    /\ store' = [store EXCEPT ![w.page] = w.data]
    /\ UNCHANGED <<busy, callVars, differs, found, good>>

Lose(w) ==
    /\ w \in pending
    /\ pending' = pending \ {w}
    /\ UNCHANGED <<store, busy, callVars, differs, found, good>>

\* A look at the page ends a read, and a write of what the page holds.
Look ==
    /\ busy
    /\ page \in Pages
    /\ pending = {}
    /\ found' = store[page]
    /\ IF op = "read" \/ store[page] = data
       THEN busy' = FALSE /\ good' = TRUE /\ UNCHANGED differs
       ELSE differs' = TRUE /\ UNCHANGED <<busy, good>>
    /\ UNCHANGED <<store, pending, callVars>>

GiveUp ==
    /\ busy
    /\ busy' = FALSE
    /\ UNCHANGED <<store, pending, callVars, differs, found, good>>

Next ==
    \/ Begin
    \/ Order
    \/ \E w \in pending : Effect(w) \/ Lose(w)
    \/ Look
    \/ GiveUp

Spec == Init /\ [][Next]_vars
=============================================================================
