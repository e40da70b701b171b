# A TLA+ development for the lingsway platform

The platform sells dedicated-egress proxy subscriptions. An administrator confirms
a manual payment; the backend then provisions an endpoint, a tenant, an accounting
user (Marzban) and a gateway route (Xray), meters traffic, rolls over to paid
renewals, and releases the egress when a subscription expires. The database is the
truth; everything else is an external service that the code converges to it.

This directory models the parts of `backend/app` (and of the deployment scripts) that
carry that promise, checks them with TLC on small instances, and proves with TLAPS, for
every size of system, all their safety properties and that the gateway implements its
abstract contract.

## 1. Inventory

| Component | State it keeps | Operations | What is hard | What makes it correct |
|---|---|---|---|---|
| Paid-purchase orchestration (`services.py`, `domain/ordering.py`, `api/admin.py`) | orders, subscriptions | confirm payment, prepare, durable phase B, manual review, failure | several transactions and provider calls per request; a second confirmation of the same order; lost commit acknowledgements | failed means compensated; usable means served |
| Gateway reconciliation (`infra/gateway_reconciliation.py`, loop in `main.py`) | `GATEWAY_RECONCILE` jobs | enqueue, claim, apply, finalize, classify both commits, record failure | crash between any two steps, retry limits, writers that must not stack | at most one unresolved intent; runtime = committed routes when none is |
| Gateway route lock (`infra/gateway_route_lock.py`) | MySQL named lock | acquire, time out, release, lost with its connection | held across check and commit, not only around the write | every holder gives it back |
| Provisioning saga (`domain/provisioning.py`, `infra/provisioning_state.py`) | endpoint, binding, credential, run rows | nine steps with compensation | compensation that fails; row locks taken before the named lock; run status on its own session | dedicated endpoints; run never ahead of the business state |
| Usage ledger, expiry, renewal queue (`workers/accounting_sync.py`, `workers/scheduler.py`) | samples, deltas, periods, `USAGE_SYNC` jobs, reconcile state | sync, expiry policy, reconcile, cache repair, enqueue renewal, manual sync | value read before the row lock, retry after a commit, two external writes per rollover | never charge twice; paid periods in order; SYNCED means written |
| Egress release (`release_egress`) | binding, route, endpoint, job | release under the lock | the verdict is older than the lock | expired egress is released |
| Safe reload of Xray (`providers/gateway/xray_file.py`, `xray_baseline.py`) | config file, baseline sidecar, runtime | backup, guard, validate, install, reload, verify, save baseline, roll back | a call that fails after taking effect; rollback failing half way; crash between file and baseline | a job is resolved only on a runtime that serves the committed routes; what others wrote, or a rollback could not restore, is left to a person |
| Xray deployment (`ops/gateway`, `deploy/lib/40_stack_up.sh`) | the same file, runtime and baseline | render, write, restart, promote | runs without the gateway lock, beside a backend that keeps working | only a stale snapshot can lose committed routes |
| Safe reload of mihomo (`providers/forwarder/mihomo.py`, `mihomo_projection.py`) | config file, runtime | compose, finalize, install, reload, health, roll back | a reload that returns without effect | unknown is reported as unknown |
| Mihomo reconciliation (`infra/mihomo_*.py`) | generations, jobs, two blockers, projection lock | prepare, claim, load, apply, verify, finalize, classify, release | a lock or session lost unnoticed; a commit landing while it is being classified; unknown outcomes | one applier; jobs succeed in order; what is settled is served |
| Transport sync (`workers/transport_sync.py`, `providers/transport`) | cache file, receipt, bound provider | resolve, fetch, write cache, commit receipt, rotate secret | file and receipt are two stores | only proved bytes are loaded |
| Accounting provider (`providers/accounting/marzban.py`) | shared admin token; external users | authenticate, dispatch, create, disable, quota, expire, usage | outcome of a call unknown; request landing late; token dropped by another thread | effect class never optimistic, never against a stranger |
| Routing snapshot and rendering (`full_desired_routing_snapshot`, `xray_composition.py`) | none | snapshot, compose, validate | order of rules | first matching rule is the customer's own; the validator accepts what the composer makes |
| Auth, public and customer read APIs, secrets, configuration, frontend, deploy and CI scripts | none that a protocol depends on | | | not modelled |

Interaction: the API process runs confirm-payment requests and one recovery loop;
the scheduler container (`infrastructure/compose/compose.base.yml`, one instance)
runs transport sync, accounting reconcile, cache repair and usage jobs. They share
only the database, the named locks, the configuration files and the external services.
`reconcile_mihomo_job` and `prepare_mihomo_reconciliation` have no caller in
`backend/app` yet, and neither has `enqueue_usage_sync`; the models let any number of
callers use them and assume nothing about how often they do.

## 2. Modules

| Module | Role |
|---|---|
| `Projection` | abstract: committed routes, served routes, one open intent |
| `GatewayReconcile` | purchase, recovery and release writers of the gateway projection (the `xray_file` contract, ADR-022); implements `Projection` |
| `GatewayReconcileProofs` | its inductive invariant, six invariants and the refinement |
| `GatewayOutcomeProofs` | how a purchase ends, on top of `GatewayReconcileProofs` |
| `MarzbanClient` | the accounting client and the service behind it |
| `ProvisionSaga` | the nine provisioning steps and their compensation, on top of `MarzbanClient` |
| `ProvisionSagaProofs` | its theorems, for any number of purchases |
| `UsageLedger` | metering, expiry and renewals of one subscription |
| `UsageLedgerProofs` | its theorems, and what the fold that sums the ledger computes |
| `XrayComposition` | the composer and the validator of Xray files, as operators |
| `XrayCompositionProofs` | composer and validator agree, and first-match routing delivers |
| `XrayFile` | safe reload, baseline and deployment on the shared Xray file |
| `XrayFileProofs` | its theorems, for deployments that overlap the backend in any way |
| `TransportSync` | subscription secret, cache file and receipt |
| `MihomoReconcile` | Mihomo generations, jobs, blockers and lock, composed with `TransportSync` |
| `MihomoReconcileProofs` | its theorems, for any number of reconcilers, jobs and syncs |
| `MC...` | the TLC instances |

How they fit together. `ProvisionSaga` opens up phase A, which `GatewayReconcile` takes in
one step per outcome: `prepared` and `HandOver` are its `PrepareSucceeds`, a `FAILED` with
nothing left behind is `PrepareFails`, `pending` is `PrepareUncertain`; `FailedIsUndone`
and `StrangersKept` are what makes that abstraction sound. `XrayFile` opens up `Apply` and
`ApplyFails`: `ServedUnlessOutdated` is the step's promise that a job is resolved only over
a runtime that serves the routes, and names the one thing outside `GatewayReconcile` that
breaks it. `XrayFile!ChangeRoutes` and `pending` are the job of `GatewayReconcile`.

Operators whose comment starts with *Mutant* are faulty variants of the definition
that follows them. No specification uses them; each is there to show that the
property named in `PROJECT.json` notices that fault.

### GatewayReconcile

State: `order`, `sub`, `run`, `binding`, `route`, `ep`, `job` and `attempts` are the
columns of the same name; `user` is the Marzban user of the order, `runtime` the set
of routes Xray serves, `lock` the named lock's holder. `pc`, `alloc` and `cur` are
local to the processes. Only `lock`, `pc`, `alloc` and `cur` are lost in a crash.

One action per step between which another process can run: every commit, every
provider call, every lock operation.

* *Request* (`admin_confirm_payment`): `ConfirmPayment`, `StartRun`, one of
  `PrepareSucceeds` / `PrepareFails` / `PrepareUncertain` for phase A, then
  `AcquireLock`, `CheckUnresolved`, `FirstCommit`, `ClaimInSession` and the reconcile
  steps. Failures go to `CompensateUser(Fails)`, `FailPaidPurchase`, or
  `MarkProvisionPending` and `MarkRunPendingManual`.
* *Worker* (recovery loop of `main.py`): `WorkerAcquireLock`, `WorkerClaim` or
  `WorkerFindsNothing`, then the reconcile steps.
* *Reconcile steps* (both): `Apply(Fails)`, `Finalize`, `ProbeFinalization`,
  `RecordFailure`, `MarkFinalizationUnknown`.
* *Scheduler*: `EnterGrace`, `Expire`, `ReleaseAcquireLock`, `ReleaseCheck`,
  `ReleaseCommit`. With `xray_file` it has no gateway, so the recovery loop applies
  its RELEASE jobs.
* `Abort(p)`: the process dies, or an error no step handles ends the handler.

A commit has three outcomes: acknowledged, landed without acknowledgement, not
landed. An apply that fails may have left the old or the new projection.

Abstractions. Back-off and the 15-minute lease may have run out whenever a worker
looks. `REVIEW` is a RUNNING row that carries the finalization-unknown diagnostic.
Phase A is one step per outcome class (`ProvisionSaga` has the steps): `allocate_endpoint` locks the available
endpoint rows until its transaction ends, so at most one request is past it
(`NoAllocation`); a second unreleased binding violates a unique index and an existing
user is answered 409, hence the guards of `PrepareSucceeds`. The order in which jobs
are claimed does not matter because at most one is unresolved. Notifications, audit
rows and `provision_error` are left out. A lock connection that dies under a handler
that keeps working is not modelled. Row locks never make the holder of the named lock
wait. `enqueue_usage_sync` has no caller in `backend/app`: that a release is asked for
again is the hypothesis of `ReleasedIfAsked`, not part of the fairness.

### UsageLedger

One subscription that has just become ACTIVE, its reconcile state SYNCED
(`activate_subscription`) or still PENDING (the `xray_file` path); all rows concerned belong
to it. `row`
is the subscription, `view[w]` the copy in a worker's session. `SessionLocal` has
`expire_on_commit=False`, and a `SELECT ... FOR UPDATE` without `populate_existing`
does not refresh an object the session already holds: the sync therefore decides on
`view[w]`, loaded before `get_usage`, and `Flush` writes only the columns the session
changed. `elapsed` is the set of deadlines that have passed. The sample order
(`sampled_at`, taken at the claim) is `stamp` and `last.at`. `used` is the cached
`used_bytes`, `ledger` the sum of the deltas. `accQuota` and `accExpire` are what the
accounting service was last told, and `counter` is its `used_traffic`.

Actions: `ClaimJob`, `ReadUsage`, `CommitSync` (sample, delta, cache and expiry verdict
in one transaction), `SyncFails`, `Release`, `FinishJob`, `FailJob`; `LoadPending`,
`StartReconcile`, `WriteQuota`, `WriteExpire`, `WriteFails`, `RecordReconcileFailed`,
`ConfirmReconcile`; `RepairSnapshot`, `RepairCache`; `AdminRead`, `AdminWrite`;
`ConfirmRenewal`, `EnqueueUsageSync`; `Crash`; and the world: `Traffic`,
`CounterReset`, `DeadlinePasses`. A first sample (BOOTSTRAP) charges like a previous
counter of 0. The ACTIVE branch of the expiry policy that only looks at
`service_expire_at` coincides with the period's end, which is the same instant. The code
decides with the `now` of the claim, the model with the deadlines elapsed at the commit:
nothing else of a sync looks at a deadline, so one that the model sees pass in between could
as well have passed before the claim, and one the code does not see yet after the commit. Usage
alerts, the poll interval and the drift report are left out.

### MarzbanClient and ProvisionSaga

`account` is the service's table, `token` the provider's cached admin token (`stale` when
the service no longer takes it), `call[c]` how far a thread is in `_call`, `answer[c]` the
outcome class it ended in, `late` the requests whose client has given up and that the
service may still carry out. `HealthCheck` is the operator's health check, which replaces or
drops the shared token at any moment. `Effect` is the classification `create_user` makes (ADR-018).
The saga: `pc` is the step, `rows` the flushed or committed rows of its session, `run` the
PROVISION job (its own session, so its writes may be lost or survive a rollback), `sub` the
subscription, `gateway` the configured provider, which decides between the durable hand-over
and the remaining steps. `Crash` may happen anywhere. Every failure of a step is an action
with the compensation the code runs for it.

### XrayComposition, XrayFile

A configuration is a shell, a list of outbounds and a list of rules, as the composer builds
them and the validator reads them; `Delivered` is Xray's first-match routing. The file, the
runtime and the baseline change one call at a time. Digests are the contents themselves: the
fingerprint is over the whole canonical file.

The backend: `Begin` (snapshot, render, backup), `Guard` (baseline, validator, `xray -test`),
`Install`, `Reload`, `CheckHealth`, `SaveBaseline`, `Resolve` (the finalization commit), and
after a failure `Restore`, `ReloadRestored`, `HealthRestored`, `MarkDegraded`. A deployment
goes through `RenderRoutes`, `CheckRendered`, `WriteRendered`, `ComposeUp`, `RestartStack`,
`CheckPromotion` and `Promote` without the lock and interleaves with all of these, as
`40_stack_up.sh` does, which never stops the backend; only `ComposeUp` may replace the
backend's process, and the backend's settings (`shell`) change only there. `ProcessDies` may
leave a torn file, because `restore` is a copy in place.

Two history variables, which no action reads, state the properties. `drift`: somebody else
wrote while no writer was past its check. `outdated`: since the last apply passed its guard, a
deployment wrote or promoted routes other than the committed ones. Nothing records whether the
last call ended verified, because nothing in the code does: the next writer knows the file and
the sidecar and no more.

What the guard does not catch, all of it in the model:

* A rollback that restores the file, fails to reload it and cannot write the degraded marker,
  or a crash there, leaves a guard that passes over a runtime that serves something else. The
  job is still open, so it is applied again; `ServedUnlessOutdated` says that this is the only
  cover there is.
* A degraded marker does not stop a deployment or an apply that has passed its check already,
  and an edit made between guard and install is overwritten. `HandsOff` is stated for writers
  that are not past their check.
* Two deployments between an apply's health check and its save can leave a file and a runtime
  of two shells with the same routes under an applied baseline. Hence the properties speak of
  the routes that are delivered and not of `runtime = config`.

### TransportSync, MihomoReconcile

`gens` and `jobs` are the tables (blockers are kept with the job they belong to); `flight`
holds finalization commits that the server has not ended when the client already gave up;
`session[w]` is the transaction that holds the row locks of the load. `LoseLock` and
`LoseSession` take away a connection without the handler's noticing. A document is the pair
of its inputs (rows, subscription bytes). The lease and the back-off of a job are taken to
outlast the handler that wrote them (15 minutes, at least two minutes) and may have elapsed
at any time afterwards. Payload errors (and `persist_blocker`, which reports them) and an
apply that returns `applied=False` cannot happen with the callers there are and are left out.

## 3. Runs

Passing runs:

| Run | Instance | Shows |
|---|---|---|
| `reconfirm` | 2 orders, 3 calls (one order confirmed twice), 1 worker, 2 endpoints, 2 attempts; 1.2 M states | `TypeOK`, `OneUnresolved`, `Converged`, `ActiveIsServed`, `RouteKeepsUser`, `EndpointsDedicated`, `FailedMeansCompensated`, `SucceededIsActivated`, `AssignedIsBound`, and the refinement `ProjectionContract` |
| `live` | 1 order confirmed twice, with fairness; 22 k states | `IntentSettles`, `LockReleased`, `ReleasedIfAsked` |
| `ledger` | 2 periods, 1 job of 3 attempts, 1 reset, 1 manual sync; 1.5 M states | `TypeOK`, `NeverOvercharged`, `NothingLost`, `SyncedMeansWritten` |
| `polling` | 3 periods, 2 jobs of one attempt, 1 unit of traffic, no manual sync, with fairness; 53 k states | `PeriodsInOrder`, `PendingSettles` |
| `saga` | 2 purchases, 2 names that may be taken, both gateways, health checks at any time, with fairness; 0.76 M states | `SagaTypeOK`, `FailedIsUndone`, `StrangersKept`, `RunFollowsBusiness`, `SoldIsProvisioned`, `SagaEnds` |
| `xray` | 2 principals, 1 tag, 2 good shells and a malformed one, foreign writes, deployments beside the backend; 0.64 M states | `XrayTypeOK`, `ServedUnlessOutdated`, `ComposedValidates`, `HandsOff` |
| `mihomo` | 2 reconcilers, 2 jobs, 2 attempts, 2 row states, one sync; 0.42 M states | `MihomoTypeOK`, `OneApplier`, `SucceedInOrder`, `SettledIsServed`, `UnknownStaysManual`, `FinalizesCurrent` |
| `mihomo_live` | 1 reconciler, 1 job, 2 feeds, 2 secret revisions, syncs without end, with fairness; 0.54 M states | `LoadedIsProved`, `SettlesIfCalled` |

Bounds. Two orders are needed to compete for endpoints and for the lock, and a third
call for a confirmation that overlaps or follows the first. Two endpoints let both
orders be served and an endpoint leak. Two attempts give a first try, a retry and
exhaustion; in `reconfirm` at most one job, whichever it is, gets that far
(`OneExhausted`). One worker is enough besides the requests, which take part in the same
reconcile steps; the theorems cover any number. In `UsageLedger`, the first
period's quota is one unit (one unit of traffic uses it up in `polling`, two are
spread over two periods in `ledger`), so a period can be used up, run out of time or
neither; three periods let the queue hold two. The usage runs that pass have one
scheduler, as the deployment does. Two sagas share the token, which is all they share; two
reconcilers and two jobs are what overtaking and a lost lock need, and the transport input
rests after the first receipt there (`SyncedOnce`) because `mihomo_live` exercises it.
Two principals and one tag let a route move from one customer to another, so that a stale file
sends somebody through the wrong egress and leaves somebody blocked; two routes at once, whose
order matters, are `XrayCompositionProofs`'. `saga` allows deadlock because finished purchases stop.

Runs that expect a violation (each is a finding in `PROJECT.json`):

| Run | What happens |
|---|---|
| `grace_renewal` | A renewal paid in GRACE stays queued and the subscription expires. |
| `rollover` | After a used-up period rolls over to the same plan the service's counter already equals the new `data_limit`. |
| `mihomo_hash` | The receipt hashes raw bytes, the composer canonical JSON: a verified YAML subscription can never be composed. |
| `xray_deploy` | A deployment renders without the gateway lock; a change applied before it writes is overwritten and the old routes are promoted. |

Disagreements met while modelling that no run shows; the properties are stated so that they
hold with them:

* `api/admin.py:697`: confirming an activated order again marks a served subscription
  `PROVISION_FAILED`; there is no status guard.
* `gateway_reconciliation.py:241`: a finalization that landed unacknowledged while the
  subscription enters GRACE is classified UNKNOWN and reopened (ADR-022 says LANDED).
* `gateway_reconciliation.py:319`: a crash in the last attempt leaves a RUNNING job nobody
  may claim, and all gateway writers refused. The Mihomo claim has the same limit.
* `release_egress` does not read the subscription's status again under the lock; if a
  reopened purchase job made it ACTIVE meanwhile, its egress is released all the same.
* `api/admin.py:826`: the manual sync assigns the cumulative counter to `used_bytes`, the next
  poll adds the same traffic, and a period can end early. Only the cache is wrong: the ledger,
  which `NeverOvercharged` and `NothingLost` sum and the cache repair restores it from, is not.
* `accounting_sync.py:93`: with two schedulers the later of two overlapping syncs decides on
  the row it loaded earlier and may commit GRACE over an open paid period.
* `mihomo_reconciliation.py:487`: the generation's fingerprint is looked up and never compared
  with the loaded state; a job installs whatever is current (ADR-025, section 6).
* `xray_file.py:193`: a crash between install and baseline leaves every later apply and
  deployment refused as drift until a person acts.
* `xray_file.py:346`: a failed rollback whose degraded marker cannot be written leaves a guard
  that passes (section 2, `XrayFile`).
* `marzban.py:496`: a token answer that is not JSON raises an error `create_user` does not
  classify; the saga then takes the user for created and may disable a stranger's account
  (`StrangersKept` names that exception).
* `provisioning.py:614`, `services.py:496`: a failure of ISSUE_SUBSCRIPTION or of the activation
  commit is marked FAILED with the user enabled and the gateway applied (not with
  `xray_file`); `FailedIsUndone` leaves that step out.

### Fairness

`GatewayReconcile!Fairness`: weak fairness for the steps of a running handler (ordinary
calls that return or raise), strong fairness for a worker's taking the lock and claiming
(the loop polls every five seconds and `GET_LOCK` waits up to 30 s, so a poll that keeps
meeting a held lock gets through again and again), and for a release that waits for the
lock. Success of an apply is *not* assumed: `IntentSettles` ends in success or in used-up
attempts. Nothing in `backend/app` enqueues usage syncs, so `ReleasedIfAsked` has that as its
hypothesis: *if* `Expire` recurs and the scheduler does not go on dying, the release goes
through. `UsageLedger!Fairness`: the scheduler loops for ever over the
same batch, and the accounting service and the database do not fail every call.
`MihomoReconcile!Fairness`: a call that was made runs on, and the server ends the commits it
was left with. Nobody calls the reconciler yet, so `SettlesIfCalled` has `Called` as its
hypothesis: it says what repeated calls achieve, not that there are any. `ProvisionSaga`: a handler's thread runs on; nothing is assumed of answers.
Crashes are never fair and never excluded.

## 4. Proofs

Every invariant and every action property that a passing run checks is also a theorem,
and so is the refinement. A theorem holds for all values of the constants that satisfy
the `ASSUME`s of the modules; what it needs beyond them it names:

| Module | Theorems (property) | Beyond the modules' `ASSUME`s |
|---|---|---|
| `GatewayReconcileProofs` | `TypeCorrect` (`TypeOK`), `SingleIntent` (`OneUnresolved`), `NoSilentDivergence` (`Converged`), `UsableIsServed` (`ActiveIsServed`), `CommittedKeepsUser` (`RouteKeepsUser`), `DedicatedEgress` (`EndpointsDedicated`), `ImplementsProjection` (`ProjectionContract`) | |
| `GatewayOutcomeProofs` | `FailedIsCompensated` (`FailedMeansCompensated`), `RunReportsBusiness` (`SucceededIsActivated`), `EndpointsFound` (`AssignedIsBound`) | finitely many requests, for `EndpointsFound`, which counts them |
| `ProvisionSagaProofs` | `TypeCorrect` (`SagaTypeOK`), `FailedUndone` (`FailedIsUndone`), `StrangersSafe` (`StrangersKept`), `RunBehindBusiness` (`RunFollowsBusiness`), `SoldProvisioned` (`SoldIsProvisioned`) | |
| `XrayCompositionProofs` | `ComposedIsValid`, `ComposedDelivers` | |
| `XrayFileProofs` | `TypeCorrect` (`XrayTypeOK`), `CandidateValid` (`ComposedValidates`), `ServedRoutes` (`ServedUnlessOutdated`), `HandsKeptOff` (`HandsOff`) | |
| `MihomoReconcileProofs` | `TypeCorrect` (`MihomoTypeOK`), `ApplierAlone` (`OneApplier`), `OrderKept` (`SucceedInOrder`), `SettledServed` (`SettledIsServed`), `LoadedProved` (`LoadedIsProved`), `ManualKept` (`UnknownStaysManual`), `CurrentFinalized` (`FinalizesCurrent`) | |
| `UsageLedgerProofs` | `TypeCorrect` (`TypeOK`) | |
| | `ChargesEarned` (`NeverOvercharged`), `TrafficKept` (`NothingLost`), `SyncedWritten` (`SyncedMeansWritten`), `OrderKept` (`PeriodsInOrder`) | one scheduler, as deployed |

The `ASSUME`s say that limits are positive, that model values differ, and, as
`OwnNameAssumption`, that no two purchases ask for the same accounting user (the name is
made from the order's id, `api/admin.py:759`). Only `SoldProvisioned` uses the last one.

Each inductive invariant was checked by TLC on the instances of the runs before it was proved.

### The gateway

`GatewayReconcileProofs` covers all sets of orders, requests and workers, any
number of endpoints and any attempt limit:

* `TypeCorrect`, `SingleIntent`, `NoSilentDivergence`, `UsableIsServed`,
  `CommittedKeepsUser`, `DedicatedEgress`: six invariants of run `reconfirm`;
* `ImplementsProjection`: `Spec => Projection!Spec` under the mapping committed = `ActiveRoutes`,
  served = `runtime`, open = some unresolved job.

None of them is inductive alone. `IInv` adds what the code relies on silently:

* `LockInv`: a process inside the locked part of its handler is the lock's holder;
* `RoleInv`: which process may stand where;
* `AllocInv`, `OwnerInv`: an uncommitted endpoint belongs to one request, is still
  AVAILABLE, and only one call per order can be between phase A and its first commit
  (the user and binding guards act as its ticket);
* `RowInv`, `UserInv`: routes follow bindings, bound endpoints are ASSIGNED, an endpoint
  with a RELEASE job is QUARANTINED (so it is never bound again), the user of a committed
  route is enabled, and an order with a purchase job has a user;
* `JobInv`, `UsedInv`: a job that was never enqueued has no attempts, an unresolved
  purchase has its route, and a subscription in use has been through its purchase job;
* `HolderInv`: what the holder has established at each step: nothing unresolved after
  the check, its own job the only unresolved one after the claim, runtime equal to the
  routes after the apply.

The step lemmas first bound who writes each variable (`RowWriters`, `JobWriters`,
`UserWriters`, `RuntimeWriters`, ...), then preserve the conjuncts one by one. The heart
is `UnresolvedStep` with `ConvergedStep`: a job becomes unresolved only in `FirstCommit`,
`ReleaseCommit` or a reopening, each by the lock's holder with nothing else unresolved,
and it is resolved only in `Finalize`, where `HolderInv` says that runtime equals routes.

`ImplementsProjection` needs no further invariant. `RoutesChange` and `RuntimeChange` say that
a step that changes the routes opens an intent, and that a step that changes the runtime is
taken while one is open; with `OneUnresolved` and `Converged` each
step is `Intend`, `Work`, `Settle` or a stutter.

`GatewayOutcomeProofs` goes on from there. `OnceInv` says what the only request of an
order has left behind at each of its steps; in particular a request that goes to
`failing` has no binding and no enabled user, and one that goes to `manual` after its
job was committed still holds the lock, so that recovery cannot finalize under it. For
`AssignedIsBound`, `StrandInv` keeps a witness: a one-to-one map from the endpoints
taken from the pool to the requests that took them, in which each stranded endpoint
stands next to one of the same order that is not. `StrandCount` turns the map into the
bound on cardinalities.

### The saga

`SagaInv` has one part per thing the code relies on: a call has no answer while it is
under way (`CallInv`); which answers of `create_user` prove that the account is ours or
that nothing was sent (`CreateInv`); compensation starts with no create on its way and
only against an account of ours or after the unclassified error (`CompensateInv`); where
a failed saga stands (`FailedInv`); and how the rows and the run follow the step
(`RowsInv`, `RunInv`). A late request is the hard case: `LandsLate` may happen at any
later time, and is harmless because `CreateInv` and `CompensateInv` bound what can be late.

### The Xray file

`ComposedIsValid` and `ComposedDelivers` are about lists the composer builds from sorted
sets of any size. They need the enumeration in order to exist, which is an induction on
the size of a set; it is done by the smallest counterexample (`WFMin` over the order of
`Nat`), since the library's induction theorems cannot be used.

`XrayFileProofs` adds the two writers, in any interleaving. `ServedUnlessOutdated` speaks of the
runtime between jobs; `ServedInv` adds the file, which the next restart of Marzban loads, and
the deployment that has written but not yet restarted. `ApplyInv` is the same inside an apply,
where the job is open and the routes cannot change (`WorkInv`): from the install on the file,
and from the reload on the runtime, holds the committed routes, unless a deployment outdated
it. `Guard` resets `outdated` without any premise about the runtime, which is sound because
the apply that follows resolves its job only after its own install and reload. `DriftInv`: a
foreign file is no baseline's digest, so no writer passes its check after drift.

### Mihomo

The named lock is *not* part of the argument: it can be lost unnoticed. What excludes a
second applier (`ExclusiveInv`) is that a job has one handler while its lease lasts, and
that a handler past the check works on the first job that is not done (`WorkInv`,
`JobInv`). `FlightInv` covers the commit that lands after its client gave up: it is the
only one, its evidence is current and served, and its job's handler can only wait for it.
`FileInv` ties file and runtime to the candidate at each step, and to the newest job's
evidence while no later job exists.

### The usage ledger

`ChargeInv` strengthens `NeverOvercharged` to what each reading still allows: the sum of
the deltas plus what the next sample would charge never exceeds the traffic (and is equal to
it before the first reset, which gives `NothingLost`), and the same through the reading a job
holds between `get_usage` and its commit. `SyncInv` is the
reason one scheduler is needed: the session's copy of the row is the row until the commit.
`NeverOvercharged` sums with `FoldFunction`, so the module first shows that the fold's
recursive function exists and how it changes when one entry does (`SumUpdate`, `SumZero`),
again by smallest counterexample over the size of the set.

### Only model-checked

Liveness under fairness, which is out of the prover's reach: `IntentSettles`, `LockReleased`,
`ReleasedIfAsked`, `PendingSettles`, `SettlesIfCalled` and `SagaEnds`. The properties of the
runs that expect a violation are false. `MarzbanClient` and `TransportSync` have no
theorems of their own; their steps are part of the specifications that extend them.

## 5. Plan

1. Done: `GatewayReconcile` with proofs and refinement; `UsageLedger`; `ProvisionSaga` with
   `MarzbanClient`; `XrayFile` with `XrayComposition`; `MihomoReconcile` with `TransportSync`.
   Proofs of every safety property of the passing runs.
2. Proofs next: that `ProvisionSaga` and `XrayFile` give `GatewayReconcile` the outcome
   classes of phase A and of `Apply` it takes in one step, so far argued in section 2;
   weaker hypotheses for the usage ledger (which of its theorems survive a second
   scheduler).
3. Loss of the gateway lock's connection under a running handler in `GatewayReconcile`.

## 6. Not modelled

Frontend, read-only and authentication APIs, secret encryption, configuration parsing,
backup, rollback and CI scripts: no protocol state of their own. Field-level formatting of
the Xray and mihomo documents, capacity alerts, the endpoint inventory and several transport
providers side by side. Loss of the lock's connection under a running gateway handler, and
session identity-map effects in the purchase path.
