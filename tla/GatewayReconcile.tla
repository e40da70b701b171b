-------------------------- MODULE GatewayReconcile --------------------------
(***************************************************************************)
(* The paid-purchase and expiry-release writers of the gateway projection  *)
(* and the recovery worker that converges it ("Direction B", the contract  *)
(* of the file-based Xray gateway, GATEWAY_PROVIDER = xray_file).          *)
(*                                                                         *)
(* A writer commits the desired routes TOGETHER WITH a durable             *)
(* GATEWAY_RECONCILE job; whoever then holds the database-wide named lock  *)
(* claims the job, applies the projection built from fresh rows, and       *)
(* commits the finalization.  Commits may land without being acknowledged, *)
(* provider calls may fail with or without effect, and every handler may   *)
(* be cut short between any two steps.                                     *)
(*                                                                         *)
(* Processes: Requests are calls of admin_confirm_payment (several calls   *)
(* may name the same order: the endpoint has no status guard), Workers are *)
(* the recovery loops of the API processes, Scheduler is the accounting    *)
(* worker that expires subscriptions and releases their egress.            *)
(*                                                                         *)
(* Time is abstracted: a job's back-off (available_at) and the 15-minute   *)
(* lease of a RUNNING job may have elapsed whenever a worker looks.        *)
(***************************************************************************)
EXTENDS Integers, FiniteSets

CONSTANTS
    Orders,        \* purchase orders; each has at most one subscription
    Requests,      \* confirm-payment calls
    OrderOf,       \* the order each call confirms
    Workers,       \* recovery loops
    Scheduler,     \* the accounting worker
    NumEndpoints,  \* dedicated egress endpoints, numbered by row id
    MaxAttempts,   \* Job.max_attempts (5 in the code)
    NULL

Endpoints == 1..NumEndpoints
Procs     == Requests \cup Workers \cup {Scheduler}

ASSUME RequestAssumption  == OrderOf \in [Requests -> Orders]
ASSUME NumberAssumption   == NumEndpoints \in Nat /\ MaxAttempts \in Nat \ {0}
ASSUME ProcessAssumption  ==
    /\ Requests \cap Workers = {}
    /\ Scheduler \notin Requests \cup Workers
ASSUME NullAssumption     == NULL \notin Procs \cup Endpoints

VARIABLES
    order,     \* orders.status
    sub,       \* subscriptions.status of the order's subscription
    run,       \* status of the order's PROVISION job (dedupe provision:<order>)
    binding,   \* egress id of the subscription's unreleased EgressBinding
    route,     \* egress id of its enabled, unreleased GatewayRouteBinding
    ep,        \* egress_endpoints.status
    job,       \* status of each GATEWAY_RECONCILE job
    attempts,  \* jobs.attempts of the same rows
    user,      \* the order's user in the accounting service (external)
    runtime,   \* routes the Xray runtime serves (external)
    lock,      \* holder of the MySQL named lock
    pc,        \* where each process stands in its handler
    alloc,     \* endpoint a request holds row-locked and uncommitted
    cur        \* job a process works on; for the scheduler, the order whose
               \* subscription it is releasing

business == <<order, sub>>
rows     == <<binding, route, ep>>
jobs     == <<job, attempts>>
vars     == <<order, sub, run, binding, route, ep, job, attempts, user,
              runtime, lock, pc, alloc, cur>>

\* Dedupe keys: one PURCHASE job per order, one RELEASE job per binding; an
\* endpoint is bound to an order at most once, so <<order, endpoint>> names it.
PurchaseJob(o)   == <<"PURCHASE", o, 0>>
ReleaseJob(o, e) == <<"RELEASE", o, e>>
PurchaseJobs == {PurchaseJob(o) : o \in Orders}
ReleaseJobs  == {ReleaseJob(o, e) : o \in Orders, e \in Endpoints}
JobKeys      == PurchaseJobs \cup ReleaseJobs

OrderStatus == {"PENDING", "PAID", "ACTIVATED"}
SubStatus   == {"NONE", "PROVISIONING", "PROVISION_FAILED", "ACTIVE", "GRACE",
                "EXPIRED"}
RunStatus   == {"NONE", "RUNNING", "PENDING", "FAILED", "SUCCEEDED"}
EpStatus    == {"AVAILABLE", "ASSIGNED", "QUARANTINED"}
\* REVIEW is a RUNNING row that carries the finalization-unknown diagnostic in
\* last_error_code; every query of the code treats it as RUNNING.
JobStatus   == {"NONE", "PENDING", "RUNNING", "REVIEW", "FAILED", "SUCCEEDED"}
UserStatus  == {"none", "enabled", "disabled"}

RequestPC  == {"idle", "paid", "started", "prepared", "locked", "checked",
               "committed", "firstProbe", "preGateway", "failing", "manual",
               "manualRun", "done"}
\* The part of the handler shared by the request and the worker.
ReconcilePC == {"claimed", "applied", "finalProbe", "record", "unknown"}
PCs == RequestPC \cup ReconcilePC \cup {"workerLocked", "releaseWanted",
                                        "releaseLocked", "releaseChecked"}

ActiveRoutes == {<<o, route[o]>> : o \in {x \in Orders : route[x] # NULL}}
Unresolved   == {k \in JobKeys : job[k] \notin {"NONE", "SUCCEEDED"}}

TypeOK ==
    /\ order \in [Orders -> OrderStatus]
    /\ sub \in [Orders -> SubStatus]
    /\ run \in [Orders -> RunStatus]
    /\ binding \in [Orders -> Endpoints \cup {NULL}]
    /\ route \in [Orders -> Endpoints \cup {NULL}]
    /\ ep \in [Endpoints -> EpStatus]
    /\ job \in [JobKeys -> JobStatus]
    /\ attempts \in [JobKeys -> 0..MaxAttempts]
    /\ user \in [Orders -> UserStatus]
    /\ runtime \subseteq Orders \X Endpoints
    /\ lock \in Procs \cup {NULL}
    /\ pc \in [Procs -> PCs]
    /\ alloc \in [Requests -> Endpoints \cup {NULL}]
    /\ cur \in [Procs -> JobKeys \cup Orders \cup {NULL}]

Init ==
    /\ order = [o \in Orders |-> "PENDING"]
    /\ sub = [o \in Orders |-> "NONE"]
    /\ run = [o \in Orders |-> "NONE"]
    /\ binding = [o \in Orders |-> NULL]
    /\ route = [o \in Orders |-> NULL]
    /\ ep = [e \in Endpoints |-> "AVAILABLE"]
    /\ job = [k \in JobKeys |-> "NONE"]
    /\ attempts = [k \in JobKeys |-> 0]
    /\ user = [o \in Orders |-> "none"]
    /\ runtime = {}
    /\ lock = NULL
    /\ pc = [p \in Procs |-> "idle"]
    /\ alloc = [r \in Requests |-> NULL]
    /\ cur = [p \in Procs |-> NULL]

-----------------------------------------------------------------------------
(* Control: a handler advances to its next step, or ends.  Ending releases  *)
(* the named lock if the process holds it, and its database session rolls   *)
(* back whatever is uncommitted.                                            *)

At(p, here) == pc[p] = here
Goto(p, there) == pc' = [pc EXCEPT ![p] = there]
Leave(p) ==
    /\ pc' = [pc EXCEPT ![p] = IF p \in Requests THEN "done" ELSE "idle"]
    /\ lock' = IF lock = p THEN NULL ELSE lock
    /\ cur' = [cur EXCEPT ![p] = NULL]

\* Mutant: the available endpoints are read without FOR UPDATE.
NoAllocationUnlocked == TRUE

NoAllocation == \A r \in Requests : alloc[r] = NULL
\* allocate_endpoint reads the available endpoints FOR UPDATE in id order and
\* takes the first; the rows stay locked until its transaction ends.
FirstAvailable(e) ==
    /\ ep[e] = "AVAILABLE"
    /\ \A f \in Endpoints : ep[f] = "AVAILABLE" => e <= f
RollbackAlloc(r) == alloc' = [alloc EXCEPT ![r] = NULL]

-----------------------------------------------------------------------------
(* confirm_payment_and_provision: payment, then phase A (unlocked).         *)

\* Capacity exhausted or payment refused: the order keeps its state.
RejectConfirm(r) ==
    /\ At(r, "idle")
    /\ Goto(r, "done")
    /\ UNCHANGED <<business, run, rows, jobs, user, runtime, lock, alloc, cur>>

\* record_payment and prepare_purchase in one transaction.  An existing
\* subscription is kept with whatever status it has.
ConfirmPayment(r) ==
    LET o == OrderOf[r] IN
    /\ At(r, "idle")
    /\ order' = [order EXCEPT ![o] = "PAID"]
    /\ sub' = [sub EXCEPT ![o] = IF @ = "NONE" THEN "PROVISIONING" ELSE @]
    /\ Goto(r, "paid")
    /\ UNCHANGED <<run, rows, jobs, user, runtime, lock, alloc, cur>>

\* runs.start: the run row is written on its own session, before any lock.
StartRun(r) ==
    /\ At(r, "paid")
    /\ run' = [run EXCEPT ![OrderOf[r]] = "RUNNING"]
    /\ Goto(r, "started")
    /\ UNCHANGED <<business, rows, jobs, user, runtime, lock, alloc, cur>>

StartRunFails(r) ==
    /\ At(r, "paid")
    /\ Goto(r, "failing")
    /\ UNCHANGED <<business, run, rows, jobs, user, runtime, lock, alloc, cur>>

\* Every step of phase A succeeds.  A second unreleased EgressBinding of the
\* subscription violates a unique index, and the accounting service answers
\* 409 when sub-<order> exists, so this needs neither to be there.
PrepareSucceeds(r) ==
    LET o == OrderOf[r] IN
    /\ At(r, "started")
    /\ NoAllocation
    /\ binding[o] = NULL
    /\ user[o] = "none"
    /\ \E e \in Endpoints : /\ FirstAvailable(e)
                            /\ alloc' = [alloc EXCEPT ![r] = e]
    /\ user' = [user EXCEPT ![o] = "enabled"]
    /\ Goto(r, "prepared")
    /\ UNCHANGED <<business, run, rows, jobs, runtime, lock, cur>>

\* A step of phase A fails and is fully compensated.  The user is untouched,
\* or was created by this call and disabled again.  The FAILED status of the
\* run is written on its own session and that write may be lost.
PrepareFails(r) ==
    LET o == OrderOf[r] IN
    /\ At(r, "started")
    /\ \/ user' = user
       \/ /\ NoAllocation /\ binding[o] = NULL /\ user[o] = "none"
          /\ \E e \in Endpoints : FirstAvailable(e)
          /\ user' = [user EXCEPT ![o] = "disabled"]
    /\ run' \in {run, [run EXCEPT ![o] = "FAILED"]}
    /\ Goto(r, "failing")
    /\ UNCHANGED <<business, rows, jobs, runtime, lock, alloc, cur>>

\* The tenant, forwarder or accounting outcome is unknown: nothing is rolled
\* back, and the flushed endpoint and binding are committed with the manual
\* mark.  Only an unbound subscription gets as far as create_user.
PrepareUncertain(r) ==
    LET o == OrderOf[r] IN
    /\ At(r, "started")
    /\ NoAllocation
    /\ \E e \in Endpoints : /\ FirstAvailable(e)
                            /\ alloc' = [alloc EXCEPT ![r] = e]
    /\ \/ user' = user
       \/ /\ binding[o] = NULL /\ user[o] = "none"
          /\ \E u \in {"enabled", "disabled"} : user' = [user EXCEPT ![o] = u]
    /\ Goto(r, "manual")
    /\ UNCHANGED <<business, run, rows, jobs, runtime, lock, cur>>

\* fail_paid_purchase: the last transaction of every compensated failure.
FailPaidPurchase(r) ==
    LET o == OrderOf[r] IN
    /\ At(r, "failing")
    /\ order' = [order EXCEPT ![o] = "PAID"]
    /\ sub' = [sub EXCEPT ![o] = "PROVISION_FAILED"]
    /\ Leave(r)
    /\ UNCHANGED <<run, rows, jobs, user, runtime, alloc>>

\* mark_provision_pending: commits the business mark, with the endpoint and
\* the binding if the session still holds them.
MarkProvisionPending(r) ==
    LET o == OrderOf[r]
        e == alloc[r] IN
    /\ At(r, "manual")
    /\ order' = [order EXCEPT ![o] = "PAID"]
    /\ IF e = NULL
       THEN UNCHANGED rows
       ELSE /\ ep' = [ep EXCEPT ![e] = "ASSIGNED"]
            /\ binding' = [binding EXCEPT ![o] = IF @ = NULL THEN e ELSE @]
            /\ UNCHANGED route
    /\ RollbackAlloc(r)
    /\ Goto(r, "manualRun")
    /\ UNCHANGED <<sub, run, jobs, user, runtime, lock, cur>>

\* mark_run_pending_manual, after the business commit (best effort: losing
\* this write is the handler ending one step early).
MarkRunPendingManual(r) ==
    /\ At(r, "manualRun")
    /\ run' = [run EXCEPT ![OrderOf[r]] = "PENDING"]
    /\ Leave(r)
    /\ UNCHANGED <<business, rows, jobs, user, runtime, alloc>>

-----------------------------------------------------------------------------
(* _confirm_paid_purchase_durable: phase B, under the named lock.           *)

\* Mutant: GET_LOCK's answer is not looked at.
AcquireLockUnchecked(r) ==
    /\ At(r, "prepared")
    /\ lock' = r
    /\ Goto(r, "locked")
    /\ UNCHANGED <<business, run, rows, jobs, user, runtime, alloc, cur>>

AcquireLock(r) ==
    /\ At(r, "prepared")
    /\ lock = NULL
    /\ lock' = r
    /\ Goto(r, "locked")
    /\ UNCHANGED <<business, run, rows, jobs, user, runtime, alloc, cur>>

\* GET_LOCK times out or fails: compensate without the lock.
AcquireLockFails(r) ==
    /\ At(r, "prepared")
    /\ RollbackAlloc(r)
    /\ Goto(r, "preGateway")
    /\ UNCHANGED <<business, run, rows, jobs, user, runtime, lock, cur>>

\* Mutant: the writer does not look for an unresolved job.
CheckUnresolvedSkipped(r) ==
    /\ At(r, "locked")
    /\ Goto(r, "checked")
    /\ UNCHANGED <<business, run, rows, jobs, user, runtime, lock, alloc, cur>>

\* assert_no_unresolved_gateway_mutation
CheckUnresolved(r) ==
    /\ At(r, "locked")
    /\ IF Unresolved = {}
       THEN Goto(r, "checked") /\ UNCHANGED alloc
       ELSE Goto(r, "preGateway") /\ RollbackAlloc(r)
    /\ UNCHANGED <<business, run, rows, jobs, user, runtime, lock, cur>>

\* Any other error before the commit (token, route skeleton, snapshot).
PreCommitFails(r) ==
    /\ pc[r] \in {"locked", "checked"}
    /\ RollbackAlloc(r)
    /\ Goto(r, "preGateway")
    /\ UNCHANGED <<business, run, rows, jobs, user, runtime, lock, cur>>

\* enqueue_gateway_reconciliation: an existing row with the key is reused.
Enqueue(k) == job' = [job EXCEPT ![k] = IF @ = "NONE" THEN "PENDING" ELSE @]

\* The first durable commit lands and is acknowledged, lands and is not, or
\* does not land.
FirstCommit(r) ==
    LET o == OrderOf[r]
        e == alloc[r] IN
    /\ At(r, "checked")
    /\ \/ /\ ep' = [ep EXCEPT ![e] = "ASSIGNED"]
          /\ binding' = [binding EXCEPT ![o] = e]
          /\ route' = [route EXCEPT ![o] = e]
          /\ Enqueue(PurchaseJob(o))
          /\ \/ Goto(r, "committed")
             \/ Goto(r, "firstProbe")
       \/ Goto(r, "firstProbe") /\ UNCHANGED <<rows, job>>
    /\ RollbackAlloc(r)
    /\ UNCHANGED <<business, run, attempts, user, runtime, lock, cur>>

\* classify_first_commit_outcome: job and route both there (LANDED), neither
\* (ABSENT), or one of them (UNKNOWN).
FirstCommitOutcome(o) ==
    CASE job[PurchaseJob(o)] # "NONE" /\ route[o] # NULL -> "LANDED"
      [] job[PurchaseJob(o)] = "NONE" /\ route[o] = NULL -> "ABSENT"
      [] OTHER -> "UNKNOWN"

\* Mutant: a failed commit call is taken for a commit that did not land.
ProbeFirstCommitAssumed(r) ==
    /\ At(r, "firstProbe")
    /\ Goto(r, "preGateway")
    /\ UNCHANGED <<business, run, rows, jobs, user, runtime, lock, alloc, cur>>

ProbeFirstCommit(r) ==
    LET outcome == FirstCommitOutcome(OrderOf[r]) IN
    /\ At(r, "firstProbe")
    /\ \/ outcome = "LANDED" /\ Leave(r)
       \/ /\ outcome # "LANDED"
          /\ Goto(r, IF outcome = "ABSENT" THEN "preGateway" ELSE "manual")
          /\ UNCHANGED <<lock, cur>>
    /\ UNCHANGED <<business, run, rows, jobs, user, runtime, alloc>>

\* The observer session itself fails: UNKNOWN.
ProbeFirstCommitFails(r) ==
    /\ At(r, "firstProbe")
    /\ Goto(r, "manual")
    /\ UNCHANGED <<business, run, rows, jobs, user, runtime, lock, alloc, cur>>

\* _handle_pre_gateway_failure: disable the user phase A created.  If that is
\* confirmed the run is FAILED; if not, the user may still be enabled and the
\* order goes to manual review.
CompensateUser(r) ==
    LET o == OrderOf[r] IN
    /\ At(r, "preGateway")
    /\ user' = [user EXCEPT ![o] = "disabled"]
    /\ run' \in {run, [run EXCEPT ![o] = "FAILED"]}
    /\ Goto(r, "failing")
    /\ UNCHANGED <<business, rows, jobs, runtime, lock, alloc, cur>>

\* Mutant: an unconfirmed disable is reported as an ordinary failure.
CompensateUserFailsQuietly(r) ==
    LET o == OrderOf[r] IN
    /\ At(r, "preGateway")
    /\ user' \in {user, [user EXCEPT ![o] = "disabled"]}
    /\ Goto(r, "failing")
    /\ UNCHANGED <<business, run, rows, jobs, runtime, lock, alloc, cur>>

CompensateUserFails(r) ==
    LET o == OrderOf[r] IN
    /\ At(r, "preGateway")
    /\ user' \in {user, [user EXCEPT ![o] = "disabled"]}
    /\ Goto(r, "manual")
    /\ UNCHANGED <<business, run, rows, jobs, runtime, lock, alloc, cur>>

-----------------------------------------------------------------------------
(* Claiming a job, and reconciling a claimed one.                           *)

Claim(p, k) ==
    /\ job' = [job EXCEPT ![k] = IF @ = "REVIEW" THEN "REVIEW" ELSE "RUNNING"]
    /\ attempts' = [attempts EXCEPT ![k] = @ + 1]
    /\ cur' = [cur EXCEPT ![p] = k]
    /\ Goto(p, "claimed")
    /\ UNCHANGED <<business, run, rows, user, runtime, lock, alloc>>

\* reconcile_gateway_job_in_session: the caller still holds the lock.
ClaimInSession(r) ==
    /\ At(r, "committed")
    /\ Claim(r, PurchaseJob(OrderOf[r]))

\* reconcile_gateway_job: one poll of the recovery loop.
WorkerAcquireLock(w) ==
    /\ At(w, "idle")
    /\ lock = NULL
    /\ lock' = w
    /\ Goto(w, "workerLocked")
    /\ UNCHANGED <<business, run, rows, jobs, user, runtime, alloc, cur>>

\* Mutants: no attempt limit; no recovery of a RUNNING job whose lease ran out.
ClaimableUnlimited(k) == job[k] \in {"PENDING", "FAILED", "RUNNING", "REVIEW"}
ClaimableNeverStale(k) ==
    job[k] \in {"PENDING", "FAILED"} /\ attempts[k] < MaxAttempts

Claimable(k) ==
    /\ job[k] \in {"PENDING", "FAILED", "RUNNING", "REVIEW"}
    /\ attempts[k] < MaxAttempts

\* _claim_job takes the first claimable row by id.
WorkerClaim(w) ==
    /\ At(w, "workerLocked")
    /\ \E k \in JobKeys : Claimable(k) /\ Claim(w, k)

WorkerFindsNothing(w) ==
    /\ At(w, "workerLocked")
    /\ \A k \in JobKeys : ~Claimable(k)
    /\ Leave(w)
    /\ UNCHANGED <<business, run, rows, jobs, user, runtime, alloc>>

\* Mutants: recovery re-applies the last projection instead of fresh rows; the
\* run is marked SUCCEEDED as soon as the apply returns.
ApplyBaseline(p) ==
    /\ At(p, "claimed")
    /\ Goto(p, "applied")
    /\ UNCHANGED <<business, run, rows, jobs, user, runtime, lock, alloc, cur>>
ApplyMarksRun(p) ==
    /\ At(p, "claimed")
    /\ runtime' = ActiveRoutes
    /\ run' = IF cur[p] \in PurchaseJobs
              THEN [run EXCEPT ![cur[p][2]] = "SUCCEEDED"]
              ELSE run
    /\ Goto(p, "applied")
    /\ UNCHANGED <<business, rows, jobs, user, lock, alloc, cur>>

\* Snapshot of the active routes, render, validate, apply, verified.
Apply(p) ==
    /\ At(p, "claimed")
    /\ runtime' = ActiveRoutes
    /\ Goto(p, "applied")
    /\ UNCHANGED <<business, run, rows, jobs, user, lock, alloc, cur>>

\* Mutant: ApplyResult.applied is not looked at.
ApplyUnconfirmed(p) ==
    /\ At(p, "claimed")
    /\ runtime' \in {runtime, ActiveRoutes}
    /\ Goto(p, "applied")
    /\ UNCHANGED <<business, run, rows, jobs, user, lock, alloc, cur>>

\* The same fails: before the runtime was touched, after a rollback, or with
\* the new projection left in place.
ApplyFails(p) ==
    /\ At(p, "claimed")
    /\ runtime' \in {runtime, ActiveRoutes}
    /\ Goto(p, "record")
    /\ UNCHANGED <<business, run, rows, jobs, user, lock, alloc, cur>>

FinalizedRows(k) ==
    /\ job' = [job EXCEPT ![k] = "SUCCEEDED"]
    /\ IF k \in PurchaseJobs
       THEN /\ sub' = [sub EXCEPT ![k[2]] = "ACTIVE"]
            /\ order' = [order EXCEPT ![k[2]] = "ACTIVATED"]
            /\ run' = [run EXCEPT ![k[2]] = "SUCCEEDED"]
       ELSE UNCHANGED <<business, run>>

\* _finalize and the second durable commit, with the same three outcomes.
Finalize(p) ==
    /\ At(p, "applied")
    /\ \/ FinalizedRows(cur[p]) /\ Leave(p)
       \/ FinalizedRows(cur[p]) /\ Goto(p, "finalProbe") /\ UNCHANGED <<lock, cur>>
       \/ Goto(p, "finalProbe") /\ UNCHANGED <<business, run, job, lock, cur>>
    /\ UNCHANGED <<rows, attempts, user, runtime, alloc>>

\* classify_finalization_outcome: the observer reads the job and, for a
\* purchase, the subscription, the order and the run.
FinalizationOutcome(k) ==
    LET evidence == IF k \in PurchaseJobs
                    THEN {job[k] = "SUCCEEDED", sub[k[2]] = "ACTIVE",
                          order[k[2]] = "ACTIVATED", run[k[2]] = "SUCCEEDED"}
                    ELSE {job[k] = "SUCCEEDED"} IN
    CASE evidence = {TRUE}  -> "LANDED"
      [] evidence = {FALSE} -> "ABSENT"
      [] OTHER              -> "UNKNOWN"

ProbeFinalization(p) ==
    LET outcome == FinalizationOutcome(cur[p]) IN
    /\ At(p, "finalProbe")
    /\ \/ outcome = "LANDED" /\ Leave(p)
       \/ outcome = "ABSENT" /\ Goto(p, "record") /\ UNCHANGED <<lock, cur>>
       \/ outcome = "UNKNOWN" /\ Goto(p, "unknown") /\ UNCHANGED <<lock, cur>>
    /\ UNCHANGED <<business, run, rows, jobs, user, runtime, alloc>>

\* _mark_finalization_unknown: unresolved and writer-blocking.
MarkFinalizationUnknown(p) ==
    /\ At(p, "unknown")
    /\ job' = [job EXCEPT ![cur[p]] = "REVIEW"]
    /\ Leave(p)
    /\ UNCHANGED <<business, run, rows, attempts, user, runtime, alloc>>

\* Mutant: the failure path returns without releasing the named lock.
RecordFailureKeepsLock(p) ==
    /\ At(p, "record")
    /\ job' = [job EXCEPT ![cur[p]] = "FAILED"]
    /\ pc' = [pc EXCEPT ![p] = IF p \in Requests THEN "done" ELSE "idle"]
    /\ cur' = [cur EXCEPT ![p] = NULL]
    /\ UNCHANGED <<business, run, rows, attempts, user, runtime, lock, alloc>>

\* _record_failure: retry later, or fail the run once attempts are exhausted.
RecordFailure(p) ==
    LET k == cur[p] IN
    /\ At(p, "record")
    /\ job' = [job EXCEPT ![k] = "FAILED"]
    /\ run' = IF attempts[k] >= MaxAttempts /\ k \in PurchaseJobs
              THEN [run EXCEPT ![k[2]] = "FAILED"]
              ELSE run
    /\ Leave(p)
    /\ UNCHANGED <<business, rows, attempts, user, runtime, alloc>>

-----------------------------------------------------------------------------
(* The accounting worker: expiry, then release_egress under the lock.       *)

\* A usage sync commits its transaction, apply_expiry_policy's verdict included,
\* before any release starts.
EnterGrace(o) ==
    /\ At(Scheduler, "idle")
    /\ sub[o] = "ACTIVE"
    /\ sub' = [sub EXCEPT ![o] = "GRACE"]
    /\ UNCHANGED <<order, run, rows, jobs, user, runtime, lock, pc, alloc, cur>>

\* A sync that leaves the subscription EXPIRED, now or since an earlier sync,
\* goes on to release_egress, without the lock so far.
Expire(o) ==
    /\ At(Scheduler, "idle")
    /\ sub[o] \in {"GRACE", "EXPIRED"}
    /\ sub' = [sub EXCEPT ![o] = "EXPIRED"]
    /\ cur' = [cur EXCEPT ![Scheduler] = o]
    /\ Goto(Scheduler, "releaseWanted")
    /\ UNCHANGED <<order, run, rows, jobs, user, runtime, lock, alloc>>

ReleaseAcquireLock ==
    /\ At(Scheduler, "releaseWanted")
    /\ lock = NULL
    /\ lock' = Scheduler
    /\ Goto(Scheduler, "releaseLocked")
    /\ UNCHANGED <<business, run, rows, jobs, user, runtime, alloc, cur>>

\* Mutant: a finished job still counts as unresolved.
ReleaseCheckAnyJob ==
    /\ At(Scheduler, "releaseLocked")
    /\ IF /\ binding[cur[Scheduler]] # NULL
          /\ \A k \in JobKeys : job[k] = "NONE"
       THEN Goto(Scheduler, "releaseChecked") /\ UNCHANGED <<lock, cur>>
       ELSE Leave(Scheduler)
    /\ UNCHANGED <<business, run, rows, jobs, user, runtime, alloc>>

\* Without a binding there is nothing to release; an unresolved job blocks.
\* The status that asked for the release is not read again under the lock.
ReleaseCheck ==
    /\ At(Scheduler, "releaseLocked")
    /\ IF binding[cur[Scheduler]] # NULL /\ Unresolved = {}
       THEN Goto(Scheduler, "releaseChecked") /\ UNCHANGED <<lock, cur>>
       ELSE Leave(Scheduler)
    /\ UNCHANGED <<business, run, rows, jobs, user, runtime, alloc>>

\* Mutant: the endpoint's own row is not updated.
ReleaseCommitKeepsEndpoint ==
    LET o == cur[Scheduler] IN
    /\ At(Scheduler, "releaseChecked")
    /\ binding' = [binding EXCEPT ![o] = NULL]
    /\ route' = [route EXCEPT ![o] = NULL]
    /\ Enqueue(ReleaseJob(o, binding[o]))
    /\ Leave(Scheduler)
    /\ UNCHANGED <<business, run, ep, attempts, user, runtime, alloc>>

\* The scheduler process has no gateway: the recovery loop applies the job.
ReleaseCommit ==
    LET o == cur[Scheduler] IN
    /\ At(Scheduler, "releaseChecked")
    /\ binding' = [binding EXCEPT ![o] = NULL]
    /\ route' = [route EXCEPT ![o] = NULL]
    /\ ep' = [ep EXCEPT ![binding[o]] = "QUARANTINED"]
    /\ Enqueue(ReleaseJob(o, binding[o]))
    /\ Leave(Scheduler)
    /\ UNCHANGED <<business, run, attempts, user, runtime, alloc>>

-----------------------------------------------------------------------------
\* The process dies, or an error that no step above handles ends the handler:
\* the named lock goes with its connection, uncommitted rows roll back.
Abort(p) ==
    /\ pc[p] \notin {"idle", "done"}
    /\ Leave(p)
    /\ alloc' = [r \in Requests |-> IF r = p THEN NULL ELSE alloc[r]]
    /\ UNCHANGED <<business, run, rows, jobs, user, runtime>>

Reconcile(p) ==
    \/ Apply(p) \/ ApplyFails(p) \/ Finalize(p) \/ ProbeFinalization(p)
    \/ MarkFinalizationUnknown(p) \/ RecordFailure(p)

RequestPhaseA(r) ==
    \/ RejectConfirm(r) \/ ConfirmPayment(r) \/ StartRun(r) \/ StartRunFails(r)
    \/ PrepareSucceeds(r) \/ PrepareFails(r) \/ PrepareUncertain(r)
    \/ FailPaidPurchase(r) \/ MarkProvisionPending(r) \/ MarkRunPendingManual(r)

RequestPhaseB(r) ==
    \/ AcquireLock(r) \/ AcquireLockFails(r) \/ CheckUnresolved(r)
    \/ PreCommitFails(r) \/ FirstCommit(r) \/ ProbeFirstCommit(r)
    \/ ProbeFirstCommitFails(r) \/ CompensateUser(r) \/ CompensateUserFails(r)
    \/ ClaimInSession(r)

WorkerPoll(w) == WorkerAcquireLock(w) \/ WorkerClaim(w) \/ WorkerFindsNothing(w)

SchedulerStep ==
    \/ \E o \in Orders : EnterGrace(o) \/ Expire(o)
    \/ ReleaseAcquireLock \/ ReleaseCheck \/ ReleaseCommit

Next ==
    \/ \E r \in Requests : RequestPhaseA(r) \/ RequestPhaseB(r)
    \/ \E w \in Workers : WorkerPoll(w)
    \/ \E p \in Requests \cup Workers : Reconcile(p)
    \/ SchedulerStep
    \/ \E p \in Procs : Abort(p)

Spec == Init /\ [][Next]_vars

\* The recovery loop polls every five seconds for as long as an API process
\* lives, GET_LOCK waits, and every step of a handler is an ordinary call that
\* returns or raises; a poll that keeps meeting a held lock or dying still gets
\* through again and again (strong fairness of taking the lock and claiming).
\* Nothing makes usage syncs recur, so expiry and its release are not fair: only
\* a release that was asked for goes on.
HandlerStep(p) ==
    \/ p \in Requests /\ (RequestPhaseA(p) \/ RequestPhaseB(p))
    \/ p \in Workers /\ At(p, "workerLocked") /\ WorkerPoll(p)
    \/ p \in Requests \cup Workers /\ Reconcile(p)
    \/ p = Scheduler /\ (ReleaseCheck \/ ReleaseCommit)

Fairness ==
    /\ \A p \in Procs : WF_vars(HandlerStep(p))
    /\ \A w \in Workers : SF_vars(WorkerAcquireLock(w)) /\ SF_vars(WorkerClaim(w))
    /\ SF_vars(ReleaseAcquireLock)

FairSpec == Spec /\ Fairness

-----------------------------------------------------------------------------
(* Safety, for any number of confirmations of the same order.               *)

\* At most one projection mutation is unresolved at a time: the check for an
\* unresolved job and the commit that adds one are separate steps, and only the
\* named lock held across both keeps two writers from passing the check.
OneUnresolved ==
    \A k1, k2 \in JobKeys : k1 \in Unresolved /\ k2 \in Unresolved => k1 = k2

\* When no job is unresolved the runtime serves exactly the committed routes:
\* "a successfully completed operation must not leave DB desired state A,
\* runtime projection B" (ADR-022), whatever was lost or cut short before.
Converged == Unresolved = {} => runtime = ActiveRoutes

\* A subscription the customer is told is usable (ACTIVE or GRACE) has its
\* route in the database and in the runtime, and an enabled user, unless its
\* egress was released: a release asked for while it was EXPIRED still happens
\* when a reopened purchase job makes it ACTIVE before the lock is taken.
ActiveIsServed ==
    \A o \in Orders :
        sub[o] \in {"ACTIVE", "GRACE"} =>
            \/ /\ route[o] # NULL
               /\ <<o, route[o]>> \in runtime
               /\ user[o] = "enabled"
            \/ /\ route[o] = NULL
               /\ \E e \in Endpoints : job[ReleaseJob(o, e)] # "NONE"

\* Once a route is committed its user is never disabled by a compensation: a
\* lost acknowledgement must not be mistaken for a commit that did not land.
RouteKeepsUser == \A o \in Orders : route[o] # NULL => user[o] = "enabled"

\* An endpoint is dedicated: bound to one subscription, marked ASSIGNED while
\* bound, and a route always goes through its own subscription's binding (or
\* every later snapshot fails with ROUTE_BINDING_EGRESS_MISMATCH).
EndpointsDedicated ==
    \A o \in Orders :
        /\ binding[o] # NULL =>
              /\ ep[binding[o]] = "ASSIGNED"
              /\ \A q \in Orders \ {o} : binding[q] # binding[o]
        /\ route[o] # NULL => binding[o] = route[o]

(* Safety of the orders that are confirmed once, whatever the others do.    *)

ConfirmedOnce ==
    {o \in Orders : \A p, r \in Requests : OrderOf[p] = o /\ OrderOf[r] = o => p = r}

\* PROVISION_FAILED means fully compensated: no enabled user, no endpoint and
\* no route is left behind (ADR-026).
FailedMeansCompensated ==
    \A o \in ConfirmedOnce :
        sub[o] = "PROVISION_FAILED" =>
            user[o] # "enabled" /\ binding[o] = NULL /\ route[o] = NULL

\* No endpoint leaks: every ASSIGNED endpoint is the binding of a subscription
\* through which release_egress can find it again.  Each repeated confirmation
\* may strand one (its manual mark commits an endpoint next to the binding the
\* subscription has).
Repeated == Cardinality(Requests) - Cardinality({OrderOf[r] : r \in Requests})

AssignedIsBound ==
    Cardinality({e \in Endpoints : ep[e] = "ASSIGNED" /\ \A o \in Orders : binding[o] # e})
        <= Repeated

\* The run's SUCCEEDED never runs ahead of the business state it reports.
SucceededIsActivated ==
    \A o \in ConfirmedOnce :
        run[o] = "SUCCEEDED" =>
            order[o] = "ACTIVATED" /\ sub[o] \in {"ACTIVE", "GRACE", "EXPIRED"}

(* What the writers, the recovery loop and the runtime promise together.    *)

Contract == INSTANCE Projection WITH
                committed <- ActiveRoutes,
                served    <- runtime,
                open      <- (Unresolved # {})

\* The gateway projection (ADR-022): routes are committed only in a state where
\* the runtime serves what is committed and no intent is open, and they open
\* one in the same commit; while an intent is open the committed routes do not
\* change; it is closed only when the runtime serves them.
ProjectionContract == Contract!Spec

-----------------------------------------------------------------------------
(* Liveness.                                                                *)

\* A committed intent is eventually finalized, or uses up its attempts.
IntentSettles ==
    \A k \in JobKeys :
        job[k] = "PENDING" ~> (job[k] = "SUCCEEDED" \/ attempts[k] = MaxAttempts)

\* Whoever takes the named lock gives it back.
LockReleased == lock # NULL ~> lock = NULL

\* The egress of an expired subscription is released if usage syncs keep asking
\* for it and from some point on none of them dies on the way (a step of Abort
\* that is not the refusal of ReleaseCheck), unless an unresolved job
\* without attempts blocks every writer, or a reopened purchase job finalizes
\* the subscription ACTIVE again: a release that was refused or cut short at any
\* step leaves nothing behind that keeps the next one from going through.
ReleasedIfAsked ==
    \A o \in Orders :
        []<><<Expire(o)>>_vars /\ <>[][Abort(Scheduler) => ReleaseCheck]_vars =>
            (sub[o] = "EXPIRED" /\ binding[o] # NULL ~>
                \/ binding[o] = NULL
                \/ sub[o] # "EXPIRED"
                \/ \E k \in Unresolved : attempts[k] = MaxAttempts)
=============================================================================
