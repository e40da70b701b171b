-------------------------- MODULE MCProvisionSaga --------------------------
(* Two purchases that share the accounting provider; the first one's user   *)
(* name may already belong to somebody else.                                *)
EXTENDS ProvisionSaga
CONSTANTS s1, s2, n1, n2
MCNameOf == [s \in Sagas |-> IF s = s1 THEN n1 ELSE n2]
=============================================================================
