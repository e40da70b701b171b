---------------------------- MODULE UsageLedger ----------------------------
(***************************************************************************)
(* Metering, expiry and the renewal queue of one active subscription: the  *)
(* USAGE_SYNC jobs and the reconcile loop of the accounting worker, the    *)
(* admin's manual sync, and paid renewals queued behind the current period *)
(* (accounting_sync.py, scheduler.py, admin.py).                           *)
(*                                                                         *)
(* A worker's session keeps the attribute values it loaded: a row it holds *)
(* is not refreshed by a later SELECT ... FOR UPDATE, and a flush writes   *)
(* only the columns the session changed (Flush below).                     *)
(*                                                                         *)
(* Time is a set of deadlines that have passed.  A deadline is <<p,"paid">>*)
(* for the end of period p (also service_expire_at while ACTIVE) or        *)
(* <<p,"grace">> for the end of the grace that follows it.                 *)
(***************************************************************************)
EXTENDS Integers, FiniteSets, Functions

CONSTANTS
    NumPeriods,   \* period 1 is the purchase, the others paid renewals
    Quota,        \* quota_bytes of each period
    Jobs,         \* USAGE_SYNC jobs, one per dedupe key
    MaxAttempts,  \* Job.max_attempts
    Workers,      \* scheduler processes
    Admins,       \* calls of admin_sync_usage
    MaxTraffic,   \* bound on the traffic of a behaviour
    MaxResets,    \* bound on the resets of the service's counter
    NULL

Periods == 1..NumPeriods

ASSUME PeriodAssumption == NumPeriods \in Nat \ {0} /\ Quota \in [Periods -> Nat \ {0}]
ASSUME LimitAssumption  == /\ MaxAttempts \in Nat \ {0}
                           /\ MaxTraffic \in Nat /\ MaxResets \in Nat
ASSUME NullAssumption   == NULL \notin Jobs

VARIABLES
    traffic,    \* bytes the customer really moved
    counter,    \* used_traffic of the accounting service (external)
    resets,     \* resets of that counter so far
    accQuota,   \* period whose quota the service holds (data_limit)
    accExpire,  \* deadline the service holds (expire)
    elapsed,    \* deadlines that have passed
    clock,      \* orders samples: advances when a job is claimed
    row,        \* the subscriptions row
    period,     \* usage_periods.status
    used,       \* usage_periods.used_bytes, a cache of the deltas
    ledger,     \* sum of the period's usage_deltas
    last,       \* the latest usage sample by sampled_at
    job,        \* status of each USAGE_SYNC job
    attempts,   \* jobs.attempts of the same rows
    pc,         \* where each worker stands
    mine,       \* the job a worker runs, NULL in the reconcile loop
    view,       \* the subscription as the worker's session sees it
    reading,    \* what get_usage answered the worker
    stamp,      \* the worker's "now", taken when it claimed
    rolled,     \* did this sync activate a queued period
    snap,       \* sums seen by the worker's cache repair
    admin       \* state of each manual sync

external == <<traffic, counter, resets, elapsed>>
acc      == <<accQuota, accExpire>>
periods  == <<period, used, ledger, last>>
jobrows  == <<job, attempts, clock>>
local    == <<pc, mine, view, reading, stamp, rolled, snap>>
vars     == <<external, acc, row, periods, jobrows, local, admin>>

Deadlines == Periods \X {"paid", "grace"}
SubRow    == [status : {"ACTIVE", "GRACE", "EXPIRED"}, current : Periods,
              expires : Deadlines, recon : {"SYNCED", "PENDING", "MANUAL"}]
FirstRow  == [status |-> "ACTIVE", current |-> 1, expires |-> <<1, "paid">>,
              recon |-> "SYNCED"]
PCs == {"idle", "claimed", "read", "release", "reconcile", "writeQuota",
        "writeExpire", "confirm", "reconcileFailed", "finish", "failing", "repair"}

TypeOK ==
    /\ traffic \in 0..MaxTraffic
    /\ counter \in 0..MaxTraffic
    /\ resets \in 0..MaxResets
    /\ accQuota \in Periods
    /\ accExpire \in Deadlines
    /\ elapsed \subseteq Deadlines
    /\ clock \in Nat
    /\ row \in SubRow
    /\ period \in [Periods -> {"NONE", "QUEUED", "ACTIVE", "CLOSED"}]
    /\ used \in [Periods -> Nat]
    /\ ledger \in [Periods -> Nat]
    /\ last \in [at : Nat, bytes : 0..MaxTraffic]
    /\ job \in [Jobs -> {"NONE", "PENDING", "RUNNING", "FAILED", "SUCCEEDED"}]
    /\ attempts \in [Jobs -> 0..MaxAttempts]
    /\ pc \in [Workers -> PCs]
    /\ mine \in [Workers -> Jobs \cup {NULL}]
    /\ view \in [Workers -> SubRow]
    /\ reading \in [Workers -> 0..MaxTraffic]
    /\ stamp \in [Workers -> Nat]
    /\ rolled \in [Workers -> BOOLEAN]
    /\ snap \in [Workers -> [Periods -> Nat]]
    /\ admin \in [Admins -> [pc : {"idle", "read", "done"}, current : Periods,
                             value : 0..MaxTraffic, seen : Nat]]

\* The purchase has just been finalized: ACTIVE, and create_user wrote the quota
\* and the expiry of its period.  The row still says PENDING when the gateway
\* projection finalized it.
Init ==
    /\ traffic = 0 /\ counter = 0 /\ resets = 0 /\ elapsed = {}
    /\ accQuota = 1 /\ accExpire = <<1, "paid">>
    /\ row \in {FirstRow, [FirstRow EXCEPT !.recon = "PENDING"]}
    /\ period = [p \in Periods |-> IF p = 1 THEN "ACTIVE" ELSE "NONE"]
    /\ used = [p \in Periods |-> 0]
    /\ ledger = [p \in Periods |-> 0]
    /\ last = [at |-> 0, bytes |-> 0]
    /\ job = [j \in Jobs |-> "NONE"]
    /\ attempts = [j \in Jobs |-> 0]
    /\ clock = 0
    /\ pc = [w \in Workers |-> "idle"]
    /\ mine = [w \in Workers |-> NULL]
    /\ view = [w \in Workers |-> FirstRow]
    /\ reading = [w \in Workers |-> 0]
    /\ stamp = [w \in Workers |-> 0]
    /\ rolled = [w \in Workers |-> FALSE]
    /\ snap = [w \in Workers |-> [p \in Periods |-> 0]]
    /\ admin = [a \in Admins |-> [pc |-> "idle", current |-> 1, value |-> 0, seen |-> 0]]

-----------------------------------------------------------------------------
(* The world around the workers.                                            *)

Traffic ==
    /\ traffic < MaxTraffic
    /\ traffic' = traffic + 1
    /\ counter' = counter + 1
    /\ UNCHANGED <<resets, elapsed, acc, row, periods, jobrows, local, admin>>

CounterReset ==
    /\ resets < MaxResets /\ counter > 0
    /\ counter' = 0
    /\ resets' = resets + 1
    /\ UNCHANGED <<traffic, elapsed, acc, row, periods, jobrows, local, admin>>

DeadlinePasses ==
    /\ row.expires \notin elapsed
    /\ elapsed' = elapsed \cup {row.expires}
    /\ UNCHANGED <<traffic, counter, resets, acc, row, periods, jobrows, local, admin>>

\* A renewal is confirmed: one transaction records the payment and queues the
\* period.  The status of the subscription is not looked at.
ConfirmRenewal(p) ==
    /\ period[p] = "NONE"
    /\ \A q \in Periods : q < p => period[q] # "NONE"
    /\ period' = [period EXCEPT ![p] = "QUEUED"]
    /\ UNCHANGED <<external, acc, row, used, ledger, last, jobrows, local, admin>>

EnqueueUsageSync(j) ==
    /\ job[j] = "NONE"
    /\ job' = [job EXCEPT ![j] = "PENDING"]
    /\ UNCHANGED <<external, acc, row, periods, attempts, clock, local, admin>>

\* admin_sync_usage reads the current period and the service's counter, then
\* assigns one to the other.
AdminRead(a) ==
    /\ admin[a].pc = "idle"
    /\ admin' = [admin EXCEPT ![a] = [pc |-> "read", current |-> row.current,
                                      value |-> counter, seen |-> used[row.current]]]
    /\ UNCHANGED <<external, acc, row, periods, jobrows, local>>

AdminWrite(a) ==
    /\ admin[a].pc = "read"
    /\ used' = IF admin[a].value = admin[a].seen THEN used
               ELSE [used EXCEPT ![admin[a].current] = admin[a].value]
    /\ admin' = [admin EXCEPT ![a].pc = "done"]
    /\ UNCHANGED <<external, acc, row, period, ledger, last, jobrows, local>>

-----------------------------------------------------------------------------
(* run_next_usage_job and sync_subscription_usage.                          *)

At(w, here) == pc[w] = here
Goto(w, there) == pc' = [pc EXCEPT ![w] = there]
Idle(w) ==
    /\ Goto(w, "idle")
    /\ mine' = [mine EXCEPT ![w] = NULL]
    /\ view' = [view EXCEPT ![w] = FirstRow]
    /\ reading' = [reading EXCEPT ![w] = 0]
    /\ stamp' = [stamp EXCEPT ![w] = 0]
    /\ rolled' = [rolled EXCEPT ![w] = FALSE]
    /\ snap' = [snap EXCEPT ![w] = [p \in Periods |-> 0]]

\* A flush writes the columns whose value the session changed.
Flush(seen, new) == [f \in DOMAIN row |-> IF new[f] = seen[f] THEN row[f] ELSE new[f]]

\* Mutant: no attempt limit.
ClaimableUnlimited(j) == job[j] \in {"PENDING", "FAILED", "RUNNING"}

Claimable(j) ==
    /\ job[j] \in {"PENDING", "FAILED", "RUNNING"}
    /\ attempts[j] < MaxAttempts

\* Claim a job (back-off and lease may have run out) and load its subscription.
ClaimJob(w, j) ==
    /\ At(w, "idle")
    /\ Claimable(j)
    /\ job' = [job EXCEPT ![j] = "RUNNING"]
    /\ attempts' = [attempts EXCEPT ![j] = @ + 1]
    /\ clock' = clock + 1
    /\ mine' = [mine EXCEPT ![w] = j]
    /\ view' = [view EXCEPT ![w] = row]
    /\ stamp' = [stamp EXCEPT ![w] = clock']
    /\ Goto(w, "claimed")
    /\ UNCHANGED <<external, acc, row, periods, reading, rolled, snap, admin>>

\* Mutant: the sample is stored when it is read, its charge when the job commits.
ReadUsageStored(w) ==
    /\ At(w, "claimed")
    /\ \/ /\ reading' = [reading EXCEPT ![w] = counter]
          /\ last' = [at |-> stamp[w], bytes |-> counter]
          /\ Goto(w, "read")
       \/ UNCHANGED <<reading, last>> /\ Goto(w, "failing")
    /\ UNCHANGED <<external, acc, row, period, used, ledger, jobrows, mine, view, stamp,
                   rolled, snap, admin>>

\* get_usage, before any row is locked.
ReadUsage(w) ==
    /\ At(w, "claimed")
    /\ \/ reading' = [reading EXCEPT ![w] = counter] /\ Goto(w, "read")
       \/ UNCHANGED reading /\ Goto(w, "failing")
    /\ UNCHANGED <<external, acc, row, periods, jobrows, mine, view, stamp,
                   rolled, snap, admin>>

\* Mutant: the whole counter is charged at every sample.
DeltaCumulative(r) == r

\* BOOTSTRAP and NORMAL charge the difference; a counter that went back was
\* reset and is charged whole (COUNTER_RESET).
Delta(r) == IF r >= last.bytes THEN r - last.bytes ELSE r

\* apply_expiry_policy: the current period is used up or over.
Due(seen, u) ==
    /\ seen.status = "ACTIVE"
    /\ u[seen.current] >= Quota[seen.current] \/ <<seen.current, "paid">> \in elapsed

Queue == {q \in Periods : period[q] = "QUEUED"}

\* Mutant: the latest renewal is activated first.
QueueHeadLast == CHOOSE q \in Queue : \A x \in Queue : x <= q

QueueHead == CHOOSE q \in Queue : \A x \in Queue : q <= x

\* Mutant: a rollover does not ask for the service to be rewritten.
ExpiryVerdictUnmarked(seen, u) ==
    IF Due(seen, u)
    THEN IF Queue # {}
         THEN [seen EXCEPT !.current = QueueHead, !.expires = <<QueueHead, "paid">>]
         ELSE [seen EXCEPT !.status = "GRACE", !.expires = <<seen.current, "grace">>,
                           !.recon = "PENDING"]
    ELSE IF seen.status = "GRACE" /\ seen.expires \in elapsed
         THEN [seen EXCEPT !.status = "EXPIRED"]
         ELSE seen

\* The subscription row apply_expiry_policy leaves in the session.  The queue
\* is only consulted while the subscription is ACTIVE.
ExpiryVerdict(seen, u) ==
    IF Due(seen, u)
    THEN IF Queue # {}
         THEN [seen EXCEPT !.current = QueueHead, !.expires = <<QueueHead, "paid">>,
                           !.recon = "PENDING"]
         ELSE [seen EXCEPT !.status = "GRACE", !.expires = <<seen.current, "grace">>,
                           !.recon = "PENDING"]
    ELSE IF seen.status = "GRACE" /\ seen.expires \in elapsed
         THEN [seen EXCEPT !.status = "EXPIRED"]
         ELSE seen

\* The periods it leaves: the current one closed, the head of the queue open.
ExpiryPeriods(seen, u) ==
    [p \in Periods |->
        IF ~Due(seen, u) THEN period[p]
        ELSE IF p = seen.current THEN "CLOSED"
        ELSE IF Queue # {} /\ p = QueueHead THEN "ACTIVE"
        ELSE period[p]]

\* The unique index on the ACTIVE period of a subscription.
TwoActive(ps) == \E p, q \in Periods : p # q /\ ps[p] = "ACTIVE" /\ ps[q] = "ACTIVE"

\* The transaction under the subscription's row lock: sample, delta, cache and
\* expiry verdict commit together (and the commit may go unacknowledged).  The
\* code compares with the "now" of the claim; elapsed is read nowhere else, so a
\* deadline in between is one before the claim (here) or after the commit.
CommitSync(w) ==
    LET seen  == view[w]
        p     == seen.current
        delta == Delta(reading[w])
        u     == [used EXCEPT ![p] = @ + delta]
        new   == ExpiryVerdict(seen, u) IN
    /\ At(w, "read")
    /\ ~TwoActive(ExpiryPeriods(seen, u))
    /\ ledger' = [ledger EXCEPT ![p] = @ + delta]
    /\ used' = u
    /\ last' = IF stamp[w] >= last.at
               THEN [at |-> stamp[w], bytes |-> reading[w]] ELSE last
    /\ row' = Flush(seen, new)
    /\ period' = ExpiryPeriods(seen, u)
    /\ view' = [view EXCEPT ![w] = new]
    /\ rolled' = [rolled EXCEPT ![w] = new.current # p]
    /\ \/ Goto(w, IF new.status = "EXPIRED" THEN "release"
                  ELSE IF Due(seen, u) THEN "reconcile" ELSE "finish")
       \/ Goto(w, "failing")
    /\ UNCHANGED <<external, acc, jobrows, mine, reading, stamp, snap, admin>>

\* A row is missing, the unique index refuses the rollover, or the commit fails.
SyncFails(w) ==
    /\ At(w, "read")
    /\ Goto(w, "failing")
    /\ UNCHANGED <<external, acc, row, periods, jobrows, mine, view, reading,
                   stamp, rolled, snap, admin>>

\* release_egress (GatewayReconcile) returns or raises.
Release(w) ==
    /\ At(w, "release")
    /\ \/ Goto(w, "finish") \/ Goto(w, "failing")
    /\ UNCHANGED <<external, acc, row, periods, jobrows, mine, view, reading,
                   stamp, rolled, snap, admin>>

FinishJob(w) ==
    /\ At(w, "finish")
    /\ job' = [job EXCEPT ![mine[w]] = "SUCCEEDED"]
    /\ Idle(w)
    /\ UNCHANGED <<external, acc, row, periods, attempts, clock, admin>>

FailJob(w) ==
    /\ At(w, "failing")
    /\ job' = [job EXCEPT ![mine[w]] = "FAILED"]
    /\ Idle(w)
    /\ UNCHANGED <<external, acc, row, periods, attempts, clock, admin>>

-----------------------------------------------------------------------------
(* reconcile_subscription: the service is overwritten from the session's    *)
(* subscription and period.                                                 *)

\* Mutant: the retry loop looks for a state nobody writes.
LoadPendingNever(w) ==
    /\ At(w, "idle")
    /\ row.recon = "FAILED"
    /\ view' = [view EXCEPT ![w] = row]
    /\ Goto(w, "reconcile")
    /\ UNCHANGED <<external, acc, row, periods, jobrows, mine, reading, stamp,
                   rolled, snap, admin>>

\* run_pending_reconcile loads its batch of PENDING subscriptions.
LoadPending(w) ==
    /\ At(w, "idle")
    /\ row.recon = "PENDING"
    /\ view' = [view EXCEPT ![w] = row]
    /\ Goto(w, "reconcile")
    /\ UNCHANGED <<external, acc, row, periods, jobrows, mine, reading, stamp,
                   rolled, snap, admin>>

StartReconcile(w) ==
    LET new == [view[w] EXCEPT !.recon = "PENDING"] IN
    /\ At(w, "reconcile")
    /\ row' = Flush(view[w], new)
    /\ view' = [view EXCEPT ![w] = new]
    /\ Goto(w, "writeQuota")
    /\ UNCHANGED <<external, acc, periods, jobrows, mine, reading, stamp, rolled,
                   snap, admin>>

WriteQuota(w) ==
    /\ At(w, "writeQuota")
    /\ accQuota' = view[w].current
    /\ Goto(w, "writeExpire")
    /\ UNCHANGED <<external, accExpire, row, periods, jobrows, mine, view,
                   reading, stamp, rolled, snap, admin>>

WriteExpire(w) ==
    /\ At(w, "writeExpire")
    /\ accExpire' = view[w].expires
    /\ Goto(w, "confirm")
    /\ UNCHANGED <<external, accQuota, row, periods, jobrows, mine, view,
                   reading, stamp, rolled, snap, admin>>

\* The identity check or a write raises; a write may have had its effect.
WriteFails(w) ==
    /\ \/ /\ At(w, "writeQuota")
          /\ accQuota' \in {accQuota, view[w].current}
          /\ UNCHANGED accExpire
       \/ /\ At(w, "writeExpire")
          /\ accExpire' \in {accExpire, view[w].expires}
          /\ UNCHANGED accQuota
    /\ Goto(w, "reconcileFailed")
    /\ UNCHANGED <<external, row, periods, jobrows, mine, view, reading, stamp,
                   rolled, snap, admin>>

\* Back to run_next_usage_job, which finishes its job, or to the loop.
ReconcileReturns(w) ==
    IF mine[w] = NULL THEN Idle(w)
    ELSE Goto(w, "finish") /\ UNCHANGED <<mine, view, reading, stamp, rolled, snap>>

\* After a rollback the row is read again; a failed rollover needs a human.
RecordReconcileFailed(w) ==
    /\ At(w, "reconcileFailed")
    /\ row' = [row EXCEPT !.recon = IF rolled[w] THEN "MANUAL" ELSE "PENDING"]
    /\ ReconcileReturns(w)
    /\ UNCHANGED <<external, acc, periods, jobrows, admin>>

\* The last commit; its failure leaves the state PENDING for the loop.
ConfirmReconcile(w) ==
    /\ At(w, "confirm")
    /\ \/ row' = Flush(view[w], [view[w] EXCEPT !.recon = "SYNCED"])
       \/ UNCHANGED row
    /\ ReconcileReturns(w)
    /\ UNCHANGED <<external, acc, periods, jobrows, admin>>

-----------------------------------------------------------------------------
(* reconcile_usage_period_cache: the sums come from the snapshot the        *)
(* session's transaction already has, the periods are updated later.        *)

RepairSnapshot(w) ==
    /\ At(w, "idle")
    /\ snap' = [snap EXCEPT ![w] = ledger]
    /\ Goto(w, "repair")
    /\ UNCHANGED <<external, acc, row, periods, jobrows, mine, view, reading,
                   stamp, rolled, admin>>

RepairCache(w) ==
    /\ At(w, "repair")
    /\ used' = snap[w]
    /\ Idle(w)
    /\ UNCHANGED <<external, acc, row, period, ledger, last, jobrows, admin>>

\* The scheduler dies; its job stays RUNNING until the lease runs out.
Crash(w) ==
    /\ ~At(w, "idle")
    /\ Idle(w)
    /\ UNCHANGED <<external, acc, row, periods, jobrows, admin>>

UsageJobStep(w) ==
    \/ ReadUsage(w) \/ CommitSync(w) \/ SyncFails(w) \/ Release(w)
    \/ FinishJob(w) \/ FailJob(w)

ReconcileStep(w) ==
    \/ StartReconcile(w) \/ WriteQuota(w) \/ WriteExpire(w) \/ WriteFails(w)
    \/ RecordReconcileFailed(w) \/ ConfirmReconcile(w)

Environment ==
    \/ Traffic \/ CounterReset \/ DeadlinePasses
    \/ \E p \in Periods : ConfirmRenewal(p)
    \/ \E j \in Jobs : EnqueueUsageSync(j)
    \/ \E a \in Admins : AdminRead(a) \/ AdminWrite(a)

Next ==
    \/ Environment
    \/ \E w \in Workers :
          \/ \E j \in Jobs : ClaimJob(w, j)
          \/ UsageJobStep(w) \/ LoadPending(w) \/ ReconcileStep(w)
          \/ RepairSnapshot(w) \/ RepairCache(w) \/ Crash(w)

Spec == Init /\ [][Next]_vars

\* The scheduler loops for ever over the same batch, so each kind of work comes
\* up again and again (strong fairness), a started step goes on, and the
\* accounting service does not fail every call.
Fairness ==
    \A w \in Workers :
        /\ WF_vars(UsageJobStep(w) \/ ReconcileStep(w) \/ RepairCache(w))
        /\ SF_vars(LoadPending(w))
        /\ SF_vars(StartReconcile(w)) /\ SF_vars(WriteQuota(w)) /\ SF_vars(WriteExpire(w))
        /\ SF_vars(ConfirmReconcile(w) /\ row'.recon = "SYNCED")

FairSpec == Spec /\ Fairness

-----------------------------------------------------------------------------
\* Charged traffic never exceeds real traffic: retried jobs, crashes after the
\* commit, lost acknowledgements and counter resets do not charge twice.
NeverOvercharged == FoldFunction(LAMBDA a, b : a + b, 0, ledger) <= traffic

\* While the counter is not reset no traffic is lost either: what has been
\* charged and what the next sample will charge make up all of it, so a job that
\* fails or dies between reading the counter and its commit leaves its reading
\* to the next one.
NothingLost ==
    resets = 0 =>
        FoldFunction(LAMBDA a, b : a + b, 0, ledger) + counter - last.bytes = traffic

\* Paid periods are consumed in the order they were paid, none is skipped or
\* reopened, and the status agrees with them: the current period is open
\* exactly while the subscription is ACTIVE.
PeriodsInOrder ==
    /\ \A p \in Periods :
          /\ p < row.current => period[p] = "CLOSED"
          /\ p > row.current => period[p] \in {"NONE", "QUEUED"}
    /\ period[row.current] = IF row.status = "ACTIVE" THEN "ACTIVE" ELSE "CLOSED"

\* SYNCED means that the accounting service holds the quota and the expiry of
\* the period the customer is in, whatever write failed or crashed before.
SyncedMeansWritten ==
    row.recon = "SYNCED" => accQuota = row.current /\ accExpire = row.expires

\* A subscription expires only with an empty queue ("queue empty: GRACE, then
\* EXPIRED", ADR-027).
ExpiresOnlyUnqueued ==
    [][row.status # "EXPIRED" /\ row'.status = "EXPIRED" => Queue = {}]_vars

\* A period the queue activated can be used: once the service is SYNCED and
\* everything is metered, unused quota means that the service does not block
\* the user (it blocks when its counter reaches data_limit).
PaidPeriodUsable ==
    /\ row.recon = "SYNCED" /\ row.status = "ACTIVE" /\ last.bytes = counter
    /\ used[row.current] < Quota[row.current]
    => counter < Quota[accQuota]

\* A PENDING reconcile is written to the service or handed to a human, even
\* when the sync that asked for it died.
PendingSettles == row.recon = "PENDING" ~> row.recon # "PENDING"
=============================================================================
