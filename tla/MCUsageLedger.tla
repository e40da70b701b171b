--------------------------- MODULE MCUsageLedger ---------------------------
(***************************************************************************)
(* Small instances of UsageLedger: one or two renewals behind the purchase *)
(* and quotas small enough that traffic uses them up.                      *)
(***************************************************************************)
EXTENDS UsageLedger

\* The renewal is a larger plan, or the same plan again.
MCGrowing == [p \in Periods |-> p]
MCSame    == [p \in Periods |-> 2]
=============================================================================
