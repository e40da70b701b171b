------------------------- MODULE MCGatewayReconcile -------------------------
(***************************************************************************)
(* Small instances of GatewayReconcile.  Two orders compete for endpoints   *)
(* and for the named lock; in the re-confirmation instances a second call   *)
(* names the first order again, concurrently with or after the first.      *)
(***************************************************************************)
EXTENDS GatewayReconcile

CONSTANTS o1, o2, r1, r2, r3

\* r1 and r2 confirm two orders; r3, where present, re-confirms the first.
MCOrderOf == [r \in Requests |-> IF r = r2 THEN o2 ELSE o1]

\* In a behaviour of the larger instance at most one job, whichever it is, uses
\* up its attempts.
OneExhausted == Cardinality({k \in JobKeys : attempts[k] = MaxAttempts}) <= 1
=============================================================================
