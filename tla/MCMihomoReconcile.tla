------------------------- MODULE MCMihomoReconcile --------------------------
(* Small instances of the Mihomo reconciliation.                           *)
EXTENDS MihomoReconcile, TLC

CONSTANT json   \* bytes that are the canonical JSON of every document

\* Every document is already in its canonical form.
IdentityCanonical == [f \in Feeds |-> f]
\* Every other feed is YAML (or plain JSON) of the same document.
JsonCanonical == [f \in Feeds |-> json]

\* Nothing tells the members of these sets apart, and no property checked with
\* it is a liveness property.
Symmetry == Permutations(Workers) \cup Permutations(Rows) \cup Permutations(Ops)

\* The concurrency runs sync once: after the first receipt the transport input
\* rests.
SyncedOnce == receipt # NULL => \A s \in Syncers : stage[s] = "idle" /\ bound[s] # NULL
=============================================================================
