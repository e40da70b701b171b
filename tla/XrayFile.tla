------------------------------ MODULE XrayFile ------------------------------
(***************************************************************************)
(* The shared Xray configuration file and its writers: the backend's safe  *)
(* reload (providers/gateway/xray_file.py with the baseline store of       *)
(* xray_baseline.py), called for a pending gateway job under the named     *)
(* lock, and a deployment, which renders the file, restarts Marzban and    *)
(* promotes the baseline (ops/gateway, deploy/lib/40_stack_up.sh) without  *)
(* that lock and beside a backend that keeps working.  Anyone else who     *)
(* writes the file or the runtime is drift.                                *)
(*                                                                         *)
(* Faults: every call to the disk or to Marzban may fail with or without   *)
(* effect, restoring may tear the file (it is a copy, not a rename), and   *)
(* the process may die between any two steps.                              *)
(***************************************************************************)
EXTENDS XrayComposition

CONSTANTS
    Foreign,     \* contents only others write: never what the composer makes
    TORN         \* a half-copied file

VARIABLES
    shell, routes,   \* the backend's settings, the committed active routes
    pending,         \* a gateway job is unresolved
    config,          \* the file, NULL when it is missing
    runtime,         \* what Xray serves (external)
    baseline,        \* the sidecar: state and digest, NULL when it is missing
    pc, cand, backup,    \* the apply under way
    dpc, rendered,   \* the deployment under way
    drift,           \* somebody else wrote while no writer was past its check
    outdated         \* since the last apply passed its guard, a deployment wrote
                     \* or promoted other routes than the committed ones
                     \* (drift and outdated are history: no action reads them)

appVars    == <<pc, cand, backup>>
deployVars == <<dpc, rendered>>
history    == <<drift, outdated>>
vars == <<shell, routes, pending, config, runtime, baseline, appVars, deployVars, history>>

Composed == {compose_xray_config(sd[1], sd[2]) :
                sd \in {x \in Shells \X Desired : Composable(x[1], x[2])}}
Contents == Composed \cup Foreign \cup {TORN}
Baselines == [state : {"applied"}, sha256 : Composed]
                \cup {[state |-> "degraded", sha256 |-> NULL]}

ASSUME ContentAssumption ==
    /\ NULL \notin Contents \cup Baselines
    /\ (Foreign \cup {TORN}) \cap Composed = {}

XrayTypeOK ==
    /\ shell \in Shells
    /\ routes \in Desired
    /\ pending \in BOOLEAN
    /\ config \in Contents \cup {NULL}
    /\ runtime \in Contents \cup {NULL}
    /\ baseline \in Baselines \cup {NULL}
    /\ pc \in {"idle", "backed", "guarded", "installed", "reloaded", "checked",
               "saved", "rollback", "restored", "rereloaded", "degrading"}
    /\ cand \in Composed \cup {NULL}
    /\ backup \in Contents \cup {NULL}
    /\ dpc \in {"idle", "rendered", "guarded", "written", "up", "restarted", "checked"}
    /\ rendered \in Composed \cup {NULL}
    /\ drift \in BOOLEAN
    /\ outdated \in BOOLEAN

\* A machine nothing has been installed on.
Init ==
    /\ shell \in Shells
    /\ routes = [p \in Principals |-> NULL]
    /\ pending = FALSE
    /\ config = NULL
    /\ runtime = NULL
    /\ baseline = NULL
    /\ pc = "idle" /\ cand = NULL /\ backup = NULL
    /\ dpc = "idle" /\ rendered = NULL
    /\ drift = FALSE
    /\ outdated = FALSE

-----------------------------------------------------------------------------
\* The apply returns or raises; the job is resolved only after a success.
Return(confirmed) ==
    /\ pc' = "idle" /\ cand' = NULL /\ backup' = NULL
    /\ pending' = (pending /\ ~confirmed)

\* Mutant: a degraded baseline without a digest has nothing to compare.
PassesDegraded ==
    \/ baseline = NULL /\ config = NULL
    \/ baseline # NULL /\ baseline.sha256 \in {NULL, config}

\* ensure_current_matches_baseline: the digest is over the whole file, and only
\* a valid repo-owned file has one.
PassesGuard ==
    \/ baseline = NULL /\ config = NULL
    \/ /\ baseline # NULL
       /\ baseline.state = "applied"
       /\ config = baseline.sha256

Candidate == compose_xray_config(shell, routes)

\* A purchase, a release or a move commits with its job, under the lock, and
\* only when no job is unresolved.
ChangeRoutes ==
    /\ ~pending /\ pc = "idle"
    /\ \E p \in Principals, t \in Tags \cup {NULL} :
          /\ routes[p] # t
          /\ t # NULL => \A q \in Principals : routes[q] # t
          /\ routes' = [routes EXCEPT ![p] = t]
    /\ pending' = TRUE
    /\ UNCHANGED <<shell, config, runtime, baseline, appVars, deployVars, history>>

\* Snapshot, render, and apply's first step, the copy of the current file.  A
\* snapshot, a secret or a copy that fails changes nothing.
Begin ==
    /\ pc = "idle" /\ pending
    /\ Composable(shell, routes)
    /\ cand' = Candidate
    /\ backup' = config
    /\ pc' = "backed"
    /\ UNCHANGED <<shell, routes, pending, config, runtime, baseline, deployVars, history>>

\* The writer guard, the validator and `xray run -test`, which may refuse what
\* the validator accepts.
Guard ==
    /\ pc = "backed"
    /\ \/ /\ PassesGuard /\ ValidConfig(cand)
          /\ pc' = "guarded" /\ outdated' = FALSE
          /\ UNCHANGED <<pending, cand, backup>>
       \/ Return(FALSE) /\ UNCHANGED outdated
    /\ UNCHANGED <<shell, routes, config, runtime, baseline, deployVars, drift>>

\* Written aside and renamed; an error comes before or after the rename.
Install ==
    /\ pc = "guarded"
    /\ \/ config' = cand /\ pc' = "installed"
       \/ config' \in {config, cand} /\ pc' = "rollback"
    /\ UNCHANGED <<shell, routes, pending, runtime, baseline, cand, backup, deployVars,
                   history>>

\* PUT /api/core/config with the file's content: confirmed when Marzban echoes
\* it; after a transport error it may have been taken all the same.
Reload ==
    /\ pc = "installed"
    /\ \/ config \notin {NULL, TORN} /\ runtime' = config /\ pc' = "reloaded"
       \/ runtime' \in {runtime, config} /\ pc' = "rollback"
    /\ UNCHANGED <<shell, routes, pending, config, baseline, cand, backup, deployVars,
                   history>>

\* health, and the comparison of the file (not of the runtime) with the
\* candidate.
CheckHealth ==
    /\ pc = "reloaded"
    /\ \/ config = cand /\ pc' = "checked"
       \/ pc' = "rollback"
    /\ UNCHANGED <<shell, routes, pending, config, runtime, baseline, cand, backup,
                   deployVars, history>>

Applied(c) == [state |-> "applied", sha256 |-> c]

\* Mutant: the baseline is taken from what the file holds now.
SaveBaselineOfFile ==
    /\ pc = "checked"
    /\ baseline' = Applied(config) /\ pc' = "saved"
    /\ UNCHANGED <<shell, routes, pending, config, runtime, cand, backup, deployVars,
                   history>>

\* The sidecar is renamed into place; an error comes before or after that.
SaveBaseline ==
    /\ pc = "checked"
    /\ \/ baseline' = Applied(cand) /\ pc' \in {"saved", "rollback"}
       \/ UNCHANGED baseline /\ pc' = "rollback"
    /\ UNCHANGED <<shell, routes, pending, config, runtime, cand, backup, deployVars,
                   history>>

\* The finalization resolves the job in a transaction of its own, which may fail.
Resolve ==
    /\ pc = "saved"
    /\ \E committed \in BOOLEAN : Return(committed)
    /\ UNCHANGED <<shell, routes, config, runtime, baseline, deployVars, history>>

\* _rollback: restore copies over the file, or removes it when there was none.
Restore ==
    /\ pc = "rollback"
    /\ \/ config' = backup /\ pc' = "restored"
       \/ config' \in {config, backup, TORN} /\ pc' = "degrading"
    /\ UNCHANGED <<shell, routes, pending, runtime, baseline, cand, backup, deployVars,
                   history>>

\* Without a file there is nothing to activate, and reload raises.
ReloadRestored ==
    /\ pc = "restored"
    /\ \/ config \notin {NULL, TORN} /\ runtime' = config /\ pc' = "rereloaded"
       \/ runtime' \in {runtime, config} /\ pc' = "degrading"
    /\ UNCHANGED <<shell, routes, pending, config, baseline, cand, backup, deployVars,
                   history>>

\* Mutant: a verified rollback counts as an apply that went well.
HealthRestoredResolves ==
    /\ pc = "rereloaded"
    /\ Return(TRUE)
    /\ UNCHANGED <<shell, routes, config, runtime, baseline, deployVars, history>>

HealthRestored ==
    /\ pc = "rereloaded"
    /\ \/ Return(FALSE)
       \/ pc' = "degrading" /\ UNCHANGED <<pending, cand, backup>>
    /\ UNCHANGED <<shell, routes, config, runtime, baseline, deployVars, history>>

Degraded == [state |-> "degraded", sha256 |-> NULL]

\* _fail_after_rollback_failure: the marker itself may not be written.
MarkDegraded ==
    /\ pc = "degrading"
    /\ baseline' \in {baseline, Degraded}
    /\ Return(FALSE)
    /\ UNCHANGED <<shell, routes, config, runtime, deployVars, history>>

\* The apply ends with its process; a copy under way is left torn.
ProcessDies ==
    /\ IF pc = "rollback" THEN config' \in {config, TORN} ELSE UNCHANGED config
    /\ Return(FALSE)

Crash ==
    /\ pc # "idle"
    /\ ProcessDies
    /\ UNCHANGED <<shell, routes, runtime, baseline, deployVars, history>>

-----------------------------------------------------------------------------
(* A deployment, beside the backend.                                        *)

Outdated(c) == \A sh \in Shells : c # compose_xray_config(sh, routes)

\* render_xray_routes with the new settings: the snapshot is read and composed
\* in a session that is closed before the file is touched.
RenderRoutes ==
    /\ dpc = "idle"
    /\ \E sh \in Shells : /\ Composable(sh, routes)
                          /\ rendered' = compose_xray_config(sh, routes)
    /\ dpc' = "rendered"
    /\ UNCHANGED <<shell, routes, pending, config, runtime, baseline, appVars, history>>

\* write_rendered_config: the writer guard ...
CheckRendered ==
    /\ dpc = "rendered"
    /\ PassesGuard
    /\ dpc' = "guarded"
    /\ UNCHANGED <<shell, routes, pending, config, runtime, baseline, appVars, rendered,
                   history>>

\* ... and the rename, after the copy of a backup that nothing uses.
WriteRendered ==
    /\ dpc = "guarded"
    /\ config' = rendered
    /\ outdated' = (outdated \/ Outdated(rendered))
    /\ dpc' = "written"
    /\ UNCHANGED <<shell, routes, pending, runtime, baseline, appVars, rendered, drift>>

\* compose up: a backend whose image or settings changed is recreated, in the
\* middle of an apply perhaps.
ComposeUp ==
    /\ dpc = "written"
    /\ \/ shell' = rendered.shell /\ ProcessDies
       \/ rendered.shell = shell /\ UNCHANGED <<shell, pending, config, appVars>>
    /\ dpc' = "up"
    /\ UNCHANGED <<routes, runtime, baseline, rendered, history>>

\* compose restart marzban: Xray starts with the file, if it can.
RestartStack ==
    /\ dpc = "up"
    /\ runtime' = config
    /\ dpc' = "restarted"
    /\ UNCHANGED <<shell, routes, pending, config, baseline, appVars, rendered, history>>

\* verify_and_promote_xray, promote_applied_baseline: the checks ...
CheckPromotion ==
    /\ dpc = "restarted"
    /\ baseline # Degraded
    /\ config = rendered
    /\ dpc' = "checked"
    /\ UNCHANGED <<shell, routes, pending, config, runtime, baseline, appVars, rendered,
                   history>>

\* ... and the sidecar.
Promote ==
    /\ dpc = "checked"
    /\ baseline' = Applied(rendered)
    /\ outdated' = (outdated \/ Outdated(rendered))
    /\ dpc' = "idle" /\ rendered' = NULL
    /\ UNCHANGED <<shell, routes, pending, config, runtime, appVars, drift>>

\* The guard refuses, a check times out, a command fails: the script dies.
DeployDies ==
    /\ dpc # "idle"
    /\ dpc' = "idle" /\ rendered' = NULL
    /\ UNCHANGED <<shell, routes, pending, config, runtime, baseline, appVars, history>>

-----------------------------------------------------------------------------
(* Others.                                                                  *)

\* A writer has passed a check and has not yet written what the check allows.
PastCheck == pc \notin {"idle", "backed", "saved"} \/ dpc \in {"guarded", "checked"}

\* An edit of the file, or a PUT by somebody else, which changes both.
ForeignWrite ==
    /\ config' \in Foreign
    /\ runtime' \in {runtime, config'}
    /\ drift' = (drift \/ ~PastCheck)
    /\ UNCHANGED <<shell, routes, pending, baseline, appVars, deployVars, outdated>>

\* Marzban restarts by itself.
MarzbanRestarts ==
    /\ runtime' = config
    /\ UNCHANGED <<shell, routes, pending, config, baseline, appVars, deployVars, history>>

Next ==
    \/ ChangeRoutes \/ Begin \/ Guard \/ Install \/ Reload \/ CheckHealth
    \/ SaveBaseline \/ Resolve \/ Restore \/ ReloadRestored \/ HealthRestored
    \/ MarkDegraded \/ Crash
    \/ RenderRoutes \/ CheckRendered \/ WriteRendered \/ ComposeUp \/ RestartStack
    \/ CheckPromotion \/ Promote \/ DeployDies
    \/ ForeignWrite \/ MarzbanRestarts

Spec == Init /\ [][Next]_vars

-----------------------------------------------------------------------------
\* Xray lets every principal out through its own egress and through nothing
\* else: those without a route, and all connections to private addresses, are
\* blocked.  Or it runs what others gave it.
ServesRoutes ==
    \/ runtime \in Foreign
    \/ \A p \in Principals :
          /\ Delivered(runtime, p, FALSE) = IF routes[p] = NULL THEN BLOCK ELSE routes[p]
          /\ Delivered(runtime, p, TRUE) = BLOCK

\* The projection has one writer at a time (ADR-022): with no job open and a file
\* that the guard accepts, Xray serves the committed routes.
RoutesServed == ~pending /\ baseline # NULL /\ PassesGuard => ServesRoutes

\* A deployment that writes or promotes a snapshot older than the committed
\* routes is the only way to lose them.  The guard compares two files and never
\* asks Xray: a lost reload, a rollback whose degraded marker was not written or
\* a crash leaves it passing over a runtime that serves something else, but only
\* with the job still open, whatever a deployment does meanwhile.
ServedUnlessOutdated == ~outdated /\ ~pending /\ baseline # NULL => ServesRoutes

\* Whatever the composer makes, the validator accepts: otherwise a committed
\* route could never be applied.
ComposedValidates == cand # NULL => ValidConfig(cand)

\* What others wrote while no writer was past its check is never overwritten,
\* adopted or rolled back, and after a rollback that could not be verified no
\* apply and no deployment that is not past its check by then gets past it, so
\* the file is not trusted again: both are for a person (ADR-015).
HandsOff ==
    [][drift \/ (baseline = Degraded /\ ~PastCheck) =>
          /\ ~PastCheck'
          /\ baseline' = baseline
          /\ config' # config => config' \in Foreign]_vars
=============================================================================
