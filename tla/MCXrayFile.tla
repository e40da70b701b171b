----------------------------- MODULE MCXrayFile -----------------------------
(* Small instances of the Xray file and its writers.                       *)
EXTENDS XrayFile

CONSTANTS edited, torn

\* Two deployments that work and one with a blank Reality identity.
MCShells == {[level |-> "warning", dest |-> "dest", identity |-> "key"],
             [level |-> "info", dest |-> "dest", identity |-> "key"],
             [level |-> "warning", dest |-> "dest", identity |-> ""]}
=============================================================================
