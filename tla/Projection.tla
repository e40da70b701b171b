----------------------------- MODULE Projection -----------------------------
(***************************************************************************)
(* What the gateway's reconciliation promises, without saying how: a set of *)
(* committed routes, the set the runtime serves, and whether an intent to   *)
(* bring the two together is open.                                          *)
(***************************************************************************)
VARIABLES
    committed,  \* the routes the database holds
    served,     \* the routes the runtime serves
    open        \* a gateway mutation is not resolved

vars == <<committed, served, open>>

Init ==
    /\ committed = {}
    /\ served = {}
    /\ open = FALSE

\* New routes are committed together with the intent to serve them; an intent
\* may also be opened again without a change.
Intend ==
    /\ ~open
    /\ served = committed
    /\ open'
    /\ served' = served

\* Attempts: the runtime may serve anything meanwhile.
Work ==
    /\ open
    /\ open'
    /\ committed' = committed

\* The intent is closed: what is committed is served.
Settle ==
    /\ open
    /\ ~open'
    /\ committed' = committed
    /\ served' = committed

Next == Intend \/ Work \/ Settle

Spec == Init /\ [][Next]_vars

\* Nothing diverges silently.
Served == ~open => served = committed
=============================================================================
