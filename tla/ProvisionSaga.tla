--------------------------- MODULE ProvisionSaga ---------------------------
(***************************************************************************)
(* ProvisioningService, step by step: the nine steps of a paid purchase,    *)
(* the compensation each failure runs, and the order in which the caller    *)
(* (confirm_payment_and_provision) commits the business state and reports   *)
(* the run.  Sagas are purchases in progress; they share the accounting     *)
(* provider and its token.                                                  *)
(*                                                                         *)
(* With the file-based gateway the saga ends at the checkpoint and phase B  *)
(* is GatewayReconcile; the other gateway provider keeps the steps 7-9      *)
(* below.  The named lock, which phase B takes, is GatewayReconcile's.      *)
(***************************************************************************)
EXTENDS MarzbanClient

CONSTANT Sagas
ASSUME SagaAssumption == Sagas = Callers
\* A purchase's user name is made from its order's id (sub-<id>).
ASSUME OwnNameAssumption == \A s, t \in Sagas : NameOf[s] = NameOf[t] => s = t

VARIABLES
    gateway,   \* settings.gateway_provider: which phase B the process runs
    pc,        \* the step each saga is at
    rows,      \* the endpoint, binding and credential rows of the saga
    forwarder, \* the forwarder's configuration as this saga left it
    applied,   \* the gateway serves the saga's route
    cause,     \* the handler that asked for the compensation
    effect,    \* the class of the create_user error, if one was raised
    failedAt,  \* the step recorded FAILED in the run's payload
    run,       \* status of the PROVISION job, on a session of its own
    sub        \* the subscription; REVIEW is PROVISIONING with provision_error

saga == <<gateway, rows, forwarder, applied, cause, effect, failedAt, run, sub>>
vars == <<wire, pc, saga>>

Steps == {"CAPACITY", "ALLOCATE_ENDPOINT", "CREATE_TENANT", "STORE_CREDENTIALS",
          "APPLY_FORWARDER", "CREATE_ACCOUNTING_USER", "APPLY_GATEWAY",
          "ISSUE_SUBSCRIPTION", "NOTIFY"}
PCs   == Steps \cup {"idle", "restore", "compensate", "prepared",
                     "activate", "markSucceeded", "pending", "markPending",
                     "failing", "failingLate", "markFailed", "done"}

SagaTypeOK ==
    /\ ClientTypeOK
    /\ gateway \in {"xray_file", "mock"}
    /\ pc \in [Sagas -> PCs]
    /\ rows \in [Sagas -> {"none", "flushed", "committed"}]
    /\ forwarder \in [Sagas -> {"previous", "desired", "unknown"}]
    /\ applied \in [Sagas -> BOOLEAN]
    /\ cause \in [Sagas -> {"none", "create", "precommit", "lock", "gateway"}]
    /\ effect \in [Sagas -> {"none", "NO_SIDE_EFFECT", "AMBIGUOUS", "CREATED",
                             "UNCLASSIFIED"}]
    /\ failedAt \in [Sagas -> {"none"} \cup Steps]
    /\ run \in [Sagas -> {"NONE", "RUNNING", "FAILED", "PENDING", "SUCCEEDED"}]
    /\ sub \in [Sagas -> {"PROVISIONING", "PROVISION_FAILED", "REVIEW", "ACTIVE"}]
    \* A call is under way only where the saga makes one, and a session that
    \* ended holds no flushed rows.
    /\ \A s \in Sagas :
          /\ call[s] # "idle" => pc[s] \in {"CREATE_ACCOUNTING_USER", "compensate"}
          /\ pc[s] = "done" => rows[s] # "flushed"

Init ==
    /\ ClientInit
    /\ gateway \in {"xray_file", "mock"}
    /\ pc = [s \in Sagas |-> "idle"]
    /\ rows = [s \in Sagas |-> "none"]
    /\ forwarder = [s \in Sagas |-> "previous"]
    /\ applied = [s \in Sagas |-> FALSE]
    /\ cause = [s \in Sagas |-> "none"]
    /\ effect = [s \in Sagas |-> "none"]
    /\ failedAt = [s \in Sagas |-> "none"]
    /\ run = [s \in Sagas |-> "NONE"]
    /\ sub = [s \in Sagas |-> "PROVISIONING"]

At(s, here)    == pc[s] = here
Goto(s, there) == pc' = [pc EXCEPT ![s] = there]
Rows(s, r)     == rows' = [rows EXCEPT ![s] = r]
Commit(s)      == Rows(s, IF rows[s] = "flushed" THEN "committed" ELSE rows[s])

\* Mutant: the failure is recorded without a rollback.
FailedNoRollback(s, step) ==
    /\ UNCHANGED rows
    /\ failedAt' = [failedAt EXCEPT ![s] = step]
    /\ run' \in {run, [run EXCEPT ![s] = "FAILED"]}

\* _failed, after rollback_database: the status is written on the run's own
\* session and that write may be lost.
Failed(s, step) ==
    /\ Rows(s, IF rows[s] = "flushed" THEN "none" ELSE rows[s])
    /\ failedAt' = [failedAt EXCEPT ![s] = step]
    /\ run' \in {run, [run EXCEPT ![s] = "FAILED"]}

-----------------------------------------------------------------------------
(* provision_prepare: steps 1-6.                                            *)

StartRun(s) ==
    /\ At(s, "idle")
    /\ \/ run' = [run EXCEPT ![s] = "RUNNING"] /\ Goto(s, "CAPACITY")
       \/ UNCHANGED run /\ Goto(s, "failing")
    /\ UNCHANGED <<wire, gateway, rows, forwarder, applied, cause, effect,
                   failedAt, sub>>

After == [CAPACITY          |-> "ALLOCATE_ENDPOINT",
          ALLOCATE_ENDPOINT |-> "CREATE_TENANT",
          CREATE_TENANT     |-> "STORE_CREDENTIALS",
          STORE_CREDENTIALS |-> "APPLY_FORWARDER"]

\* allocate_endpoint flushes the endpoint and the binding, save_credentials
\* the secret; the tenant lives at the egress provider.
StepSucceeds(s) ==
    /\ pc[s] \in DOMAIN After
    /\ Goto(s, After[pc[s]])
    /\ IF At(s, "ALLOCATE_ENDPOINT") THEN Rows(s, "flushed") ELSE UNCHANGED rows
    /\ UNCHANGED <<wire, gateway, forwarder, applied, cause, effect, failedAt,
                   run, sub>>

StepFails(s) ==
    /\ pc[s] \in {"CAPACITY", "ALLOCATE_ENDPOINT", "STORE_CREDENTIALS"}
    /\ Failed(s, pc[s])
    /\ Goto(s, "failing")
    /\ UNCHANGED <<wire, gateway, forwarder, applied, cause, effect, sub>>

\* Whatever create_tenant raises, a tenant may exist.
TenantUncertain(s) ==
    /\ At(s, "CREATE_TENANT")
    /\ Goto(s, "pending")
    /\ UNCHANGED <<wire, saga>>

ApplyForwarder(s) ==
    /\ At(s, "APPLY_FORWARDER")
    /\ \/ forwarder' = [forwarder EXCEPT ![s] = "desired"]
          /\ Goto(s, "CREATE_ACCOUNTING_USER")
       \/ /\ \E f \in {"previous", "desired", "unknown"} :
                forwarder' = [forwarder EXCEPT ![s] = f]
          /\ Goto(s, "restore")
    /\ UNCHANGED <<wire, gateway, rows, applied, cause, effect, failedAt, run, sub>>

RestoreForwarder(s) ==
    /\ At(s, "restore")
    /\ \/ /\ forwarder' = [forwarder EXCEPT ![s] = "previous"]
          /\ Failed(s, "APPLY_FORWARDER")
          /\ Goto(s, "failing")
       \/ /\ \E f \in {"previous", "desired", "unknown"} :
                forwarder' = [forwarder EXCEPT ![s] = f]
          /\ Goto(s, "pending")
          /\ UNCHANGED <<rows, failedAt, run>>
    /\ UNCHANGED <<wire, gateway, applied, cause, effect, sub>>

\* An expiry that cannot be mapped is refused before any request.
CreateUser(s) ==
    /\ At(s, "CREATE_ACCOUNTING_USER")
    /\ \/ StartCall(s)
       \/ Ready(s) /\ Ends(s, "local") /\ UNCHANGED <<account, token, late>>
       \/ CallStep(s, "create")
    /\ UNCHANGED <<pc, saga>>

\* The answer is consumed: the next step, a plain failure, manual review, or
\* the compensation.
UserCreated(s) ==
    /\ At(s, "CREATE_ACCOUNTING_USER")
    /\ answer[s] # "none"
    /\ answer' = [answer EXCEPT ![s] = "none"]
    /\ IF answer[s] = "ok"
       THEN /\ Goto(s, "prepared")
            /\ UNCHANGED <<rows, cause, effect, failedAt, run>>
       ELSE /\ effect' = [effect EXCEPT ![s] = Effect(answer[s])]
            /\ CASE effect'[s] = "NO_SIDE_EFFECT" ->
                        /\ Failed(s, "CREATE_ACCOUNTING_USER")
                        /\ Goto(s, "failing")
                        /\ UNCHANGED cause
                 [] effect'[s] = "AMBIGUOUS" ->
                        /\ Goto(s, "pending")
                        /\ UNCHANGED <<rows, cause, failedAt, run>>
                 [] OTHER ->
                        /\ Goto(s, "compensate")
                        /\ cause' = [cause EXCEPT ![s] = "create"]
                        /\ UNCHANGED <<rows, failedAt, run>>
    /\ UNCHANGED <<account, token, call, late, gateway, forwarder, applied, sub>>

-----------------------------------------------------------------------------
(* Compensation: _compensate_created_accounting_user and its equals in       *)
(* phase B.                                                                  *)

DisableUser(s) ==
    /\ At(s, "compensate")
    /\ \/ StartCall(s)
       \/ CallStep(s, "disable")
    /\ UNCHANGED <<pc, saga>>

UserDisabled(s) ==
    /\ At(s, "compensate")
    /\ answer[s] # "none"
    /\ answer' = [answer EXCEPT ![s] = "none"]
    /\ IF answer[s] = "ok"
       THEN /\ Failed(s, IF cause[s] \in {"create", "precommit"}
                         THEN "CREATE_ACCOUNTING_USER" ELSE "APPLY_GATEWAY")
            /\ Goto(s, IF cause[s] = "gateway" THEN "failingLate" ELSE "failing")
       ELSE Goto(s, "pending") /\ UNCHANGED <<rows, failedAt, run>>
    /\ UNCHANGED <<account, token, call, late, gateway, forwarder, applied, cause,
                   effect, sub>>

-----------------------------------------------------------------------------
(* Phase B.                                                                 *)

\* The durable path commits the rows with its job (GatewayReconcile), or
\* fails before that commit.
HandOver(s) ==
    /\ At(s, "prepared")
    /\ gateway = "xray_file"
    /\ Rows(s, "committed")
    /\ Goto(s, "done")
    /\ UNCHANGED <<wire, gateway, forwarder, applied, cause, effect, failedAt, run,
                   sub>>

\* _handle_pre_gateway_failure; or the lock of the other path is not acquired.
PhaseBFailsEarly(s) ==
    /\ At(s, "prepared")
    /\ Rows(s, "none")
    /\ cause' = [cause EXCEPT ![s] = IF gateway = "xray_file" THEN "precommit"
                                     ELSE "lock"]
    /\ Goto(s, "compensate")
    /\ UNCHANGED <<wire, gateway, forwarder, applied, effect, failedAt, run, sub>>

EnterPhaseB(s) ==
    /\ At(s, "prepared")
    /\ gateway = "mock"
    /\ Goto(s, "APPLY_GATEWAY")
    /\ UNCHANGED <<wire, saga>>

ApplyGateway(s) ==
    /\ At(s, "APPLY_GATEWAY")
    /\ \/ /\ applied' = [applied EXCEPT ![s] = TRUE]
          /\ Goto(s, "ISSUE_SUBSCRIPTION")
          /\ UNCHANGED cause
       \/ /\ applied' \in {applied, [applied EXCEPT ![s] = TRUE]}
          /\ cause' = [cause EXCEPT ![s] = "gateway"]
          /\ Goto(s, "compensate")
    /\ UNCHANGED <<wire, gateway, rows, forwarder, effect, failedAt, run, sub>>

\* A failure here rolls back and is reported; the user and the gateway stay.
IssueSubscription(s) ==
    /\ At(s, "ISSUE_SUBSCRIPTION")
    /\ \/ Goto(s, "NOTIFY") /\ UNCHANGED <<rows, failedAt, run>>
       \/ Failed(s, "ISSUE_SUBSCRIPTION") /\ Goto(s, "failingLate")
    /\ UNCHANGED <<wire, gateway, forwarder, applied, cause, effect, sub>>

\* Mutant: SUCCEEDED is written when the saga's last step returns.
NotifyMarksRun(s) ==
    /\ At(s, "NOTIFY")
    /\ Goto(s, "activate")
    /\ run' = [run EXCEPT ![s] = "SUCCEEDED"]
    /\ UNCHANGED <<wire, gateway, rows, forwarder, applied, cause, effect,
                   failedAt, sub>>

Notify(s) ==
    /\ At(s, "NOTIFY")
    /\ Goto(s, "activate")
    /\ UNCHANGED <<wire, saga>>

-----------------------------------------------------------------------------
(* The caller's business commits, and the run's status after them.          *)

\* activate_paid_purchase: committed, committed without acknowledgement, or
\* rolled back.
Activate(s) ==
    /\ At(s, "activate")
    /\ \/ /\ Commit(s)
          /\ sub' = [sub EXCEPT ![s] = "ACTIVE"]
          /\ \E there \in {"markSucceeded", "failingLate"} : Goto(s, there)
       \/ Rows(s, "none") /\ Goto(s, "failingLate") /\ UNCHANGED sub
    /\ UNCHANGED <<wire, gateway, forwarder, applied, cause, effect, failedAt, run>>

\* Best effort: the write may be lost.
MarkSucceeded(s) ==
    /\ At(s, "markSucceeded")
    /\ run' \in {run, [run EXCEPT ![s] = "SUCCEEDED"]}
    /\ Goto(s, "done")
    /\ UNCHANGED <<wire, gateway, rows, forwarder, applied, cause, effect,
                   failedAt, sub>>

\* Mutant: a pending outcome of phase B goes on to the activation.
MarkProvisionPendingActivates(s) ==
    /\ At(s, "pending")
    /\ Commit(s)
    /\ IF cause[s] = "gateway"
       THEN sub' = [sub EXCEPT ![s] = "ACTIVE"] /\ Goto(s, "markSucceeded")
       ELSE sub' = [sub EXCEPT ![s] = "REVIEW"] /\ Goto(s, "markPending")
    /\ UNCHANGED <<wire, gateway, forwarder, applied, cause, effect, failedAt, run>>

\* mark_provision_pending keeps what the session flushed.
MarkProvisionPending(s) ==
    /\ At(s, "pending")
    /\ Commit(s)
    /\ sub' = [sub EXCEPT ![s] = "REVIEW"]
    /\ Goto(s, "markPending")
    /\ UNCHANGED <<wire, gateway, forwarder, applied, cause, effect, failedAt, run>>

MarkRunPendingManual(s) ==
    /\ At(s, "markPending")
    /\ run' \in {run, [run EXCEPT ![s] = "PENDING"]}
    /\ Goto(s, "done")
    /\ UNCHANGED <<wire, gateway, rows, forwarder, applied, cause, effect,
                   failedAt, sub>>

FailPaidPurchase(s) ==
    /\ pc[s] \in {"failing", "failingLate"}
    /\ sub' = [sub EXCEPT ![s] = "PROVISION_FAILED"]
    /\ Goto(s, IF At(s, "failing") THEN "done" ELSE "markFailed")
    /\ UNCHANGED <<wire, gateway, rows, forwarder, applied, cause, effect,
                   failedAt, run>>

MarkRunFailed(s) ==
    /\ At(s, "markFailed")
    /\ run' \in {run, [run EXCEPT ![s] = "FAILED"]}
    /\ Goto(s, "done")
    /\ UNCHANGED <<wire, gateway, rows, forwarder, applied, cause, effect,
                   failedAt, sub>>

\* The process dies, or a business commit raises out of the handler.
Crash(s) ==
    /\ pc[s] \notin {"idle", "done"}
    /\ Rows(s, IF rows[s] = "flushed" THEN "none" ELSE rows[s])
    /\ Ends(s, "none")
    /\ Goto(s, "done")
    /\ UNCHANGED <<account, token, late, gateway, forwarder, applied, cause,
                   effect, failedAt, run, sub>>

-----------------------------------------------------------------------------
SagaStep(s) ==
    \/ StartRun(s) \/ StepSucceeds(s) \/ StepFails(s) \/ TenantUncertain(s)
    \/ ApplyForwarder(s) \/ RestoreForwarder(s) \/ CreateUser(s) \/ UserCreated(s)
    \/ DisableUser(s) \/ UserDisabled(s) \/ HandOver(s) \/ PhaseBFailsEarly(s)
    \/ EnterPhaseB(s) \/ ApplyGateway(s) \/ IssueSubscription(s) \/ Notify(s)
    \/ Activate(s) \/ MarkSucceeded(s) \/ MarkProvisionPending(s)
    \/ MarkRunPendingManual(s) \/ FailPaidPurchase(s) \/ MarkRunFailed(s)

Next ==
    \/ \E s \in Sagas : SagaStep(s) \/ Crash(s)
    \/ (LandsLate \/ TokenExpires \/ HealthCheck) /\ UNCHANGED <<pc, saga>>

\* A handler is a thread that runs on: each of its steps is taken.
Spec == Init /\ [][Next]_vars /\ \A s \in Sagas : WF_vars(SagaStep(s))

-----------------------------------------------------------------------------
OursEnabled(s) ==
    /\ account[NameOf[s]] # NULL
    /\ account[NameOf[s]].by = s
    /\ account[NameOf[s]].enabled

\* FAILED means fully compensated (ADR-026): a run that failed in one of the
\* steps 1-7 left no enabled account, no create request that may still arrive,
\* no rows, and no half-changed forwarder if that was the step.  (A run that
\* failed in step 8, or in the caller's own commit, is not compensated by the
\* code.)
FailedIsUndone ==
    \A s \in Sagas :
        run[s] = "FAILED" /\ failedAt[s] \notin {"none", "ISSUE_SUBSCRIPTION"} =>
            /\ ~OursEnabled(s)
            /\ <<s, "create">> \notin late
            /\ rows[s] = "none"
            /\ failedAt[s] = "APPLY_FORWARDER" => forwarder[s] = "previous"

\* Compensation disables only accounts of its own (ADR-018): an account that
\* somebody else has under the same name is disabled at most after an error
\* that create_user left unclassified.
StrangersKept ==
    \A n \in Names :
        account[n] # NULL /\ account[n].by = STRANGER /\ ~account[n].enabled =>
            \E s \in Sagas : NameOf[s] = n /\ effect[s] = "UNCLASSIFIED"

\* The run never reports ahead of the business state (ADR-017): SUCCEEDED
\* follows the committed activation, PENDING the committed review mark.
RunFollowsBusiness ==
    \A s \in Sagas :
        /\ run[s] = "SUCCEEDED" => sub[s] = "ACTIVE" /\ rows[s] = "committed"
        /\ run[s] = "PENDING" => sub[s] = "REVIEW"

\* A subscription is sold only with everything it needs: its rows committed,
\* its route applied, its own account enabled and no request under way that
\* would disable it.
SoldIsProvisioned ==
    \A s \in Sagas :
        sub[s] = "ACTIVE" =>
            rows[s] = "committed" /\ applied[s] /\ OursEnabled(s)
                /\ <<s, "disable">> \notin late

\* No answer of the accounting service, and no other thread's use of the
\* token, keeps a purchase from reaching an end.
SagaEnds == \A s \in Sagas : <>(pc[s] = "done")
=============================================================================
