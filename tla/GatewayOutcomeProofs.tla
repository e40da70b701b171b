----------------------- MODULE GatewayOutcomeProofs -------------------------
(***************************************************************************)
(* How a purchase ends, for any number of orders, confirm calls, workers   *)
(* and endpoints: what PROVISION_FAILED and a SUCCEEDED run mean for an    *)
(* order that is confirmed once, and how many endpoints repeated           *)
(* confirmations can strand.  On top of the inductive invariant of         *)
(* GatewayReconcileProofs.                                                 *)
(***************************************************************************)
EXTENDS GatewayReconcileProofs, FiniteSetTheorems

\* Steps of a request before its gateway commit, and before its order can have
\* been finalized.
UncommittedPC == {"idle", "paid", "started", "prepared", "locked", "checked",
                  "preGateway", "failing"}
UnfinishedPC  == UncommittedPC \cup {"committed", "firstProbe", "manual"}

\* What the only request of an order knows about the order.
OnceInv(r) ==
    LET o == OrderOf[r] IN
    /\ pc[r] \in UncommittedPC => job[PurchaseJob(o)] = "NONE" /\ route[o] = NULL
    /\ pc[r] \in UnfinishedPC => run[o] # "SUCCEEDED"
    /\ pc[r] = "manual" /\ job[PurchaseJob(o)] # "NONE" => lock = r
    /\ pc[r] \in {"idle", "paid", "started"} => user[o] = "none"
    /\ pc[r] \in {"idle", "paid", "started", "preGateway", "failing"} => binding[o] = NULL
    /\ pc[r] = "failing" => user[o] # "enabled"
    /\ pc[r] = "firstProbe" /\ job[PurchaseJob(o)] = "NONE" => binding[o] = NULL

\* A failed order is compensated and its request is over.
FailedInv ==
    \A o \in ConfirmedOnce :
        sub[o] = "PROVISION_FAILED" =>
            /\ user[o] # "enabled" /\ binding[o] = NULL /\ route[o] = NULL
            /\ \A r \in Requests : OrderOf[r] = o => pc[r] = "done"

OutcomeInv ==
    /\ \A r \in Requests : OrderOf[r] \in ConfirmedOnce => OnceInv(r)
    /\ FailedInv
    /\ SucceededIsActivated

\* Endpoints a request committed, and those of them nobody finds again.
Taken    == {e \in Endpoints : ep[e] # "AVAILABLE"}
Stranded == {e \in Endpoints : ep[e] = "ASSIGNED" /\ \A o \in Orders : binding[o] # e}

\* f names the request that took each endpoint: a different one for each, which
\* will not take another; next to a stranded endpoint the same order took one
\* that is bound or was released.
TakenBy(f) ==
    /\ f \in [Taken -> Requests]
    /\ \A d, e \in Taken : f[d] = f[e] => d = e
    /\ \A e \in Taken : alloc[f[e]] = NULL /\ pc[f[e]] \notin {"idle", "paid", "started"}
    /\ \A o \in Orders : binding[o] # NULL => OrderOf[f[binding[o]]] = o
    /\ \A e \in Stranded : \E d \in Taken \ Stranded : OrderOf[f[d]] = OrderOf[f[e]]

StrandInv == \E f \in [Taken -> Requests] : TakenBy(f)

-----------------------------------------------------------------------------
(* Who writes what.                                                         *)

\* The run's status is written by its request, by finalization and by the
\* record of a failure.
LEMMA RunWriters ==
    ASSUME Next
    PROVE  \/ UNCHANGED run
           \/ \E r \in Requests : \/ StartRun(r) \/ PrepareFails(r)
                                  \/ MarkRunPendingManual(r) \/ CompensateUser(r)
           \/ \E p \in Requests \cup Workers : Finalize(p) \/ RecordFailure(p)
  BY SMTT(30) DEF Next, RequestPhaseA, RequestPhaseB, WorkerPoll, Reconcile, SchedulerStep,
       RejectConfirm, ConfirmPayment, StartRun, StartRunFails, PrepareSucceeds,
       PrepareFails, PrepareUncertain, FailPaidPurchase, MarkProvisionPending,
       MarkRunPendingManual, AcquireLock, AcquireLockFails, CheckUnresolved,
       PreCommitFails, FirstCommit, ProbeFirstCommit, ProbeFirstCommitFails,
       CompensateUser, CompensateUserFails, ClaimInSession, Claim,
       WorkerAcquireLock, WorkerClaim, WorkerFindsNothing, Apply, ApplyFails,
       Finalize, ProbeFinalization, MarkFinalizationUnknown, RecordFailure,
       EnterGrace, Expire, ReleaseAcquireLock, ReleaseCheck, ReleaseCommit, Abort,
       business, rows, jobs

\* The order's status is written by payment, failure, the manual mark and
\* finalization.
LEMMA OrderWriters ==
    ASSUME Next
    PROVE  \/ UNCHANGED order
           \/ \E r \in Requests : \/ ConfirmPayment(r) \/ FailPaidPurchase(r)
                                  \/ MarkProvisionPending(r)
           \/ \E p \in Requests \cup Workers : Finalize(p)
  BY SMTT(30) DEF Next, RequestPhaseA, RequestPhaseB, WorkerPoll, Reconcile, SchedulerStep,
       RejectConfirm, ConfirmPayment, StartRun, StartRunFails, PrepareSucceeds,
       PrepareFails, PrepareUncertain, FailPaidPurchase, MarkProvisionPending,
       MarkRunPendingManual, AcquireLock, AcquireLockFails, CheckUnresolved,
       PreCommitFails, FirstCommit, ProbeFirstCommit, ProbeFirstCommitFails,
       CompensateUser, CompensateUserFails, ClaimInSession, Claim,
       WorkerAcquireLock, WorkerClaim, WorkerFindsNothing, Apply, ApplyFails,
       Finalize, ProbeFinalization, MarkFinalizationUnknown, RecordFailure,
       EnterGrace, Expire, ReleaseAcquireLock, ReleaseCheck, ReleaseCommit, Abort,
       business, rows, jobs

\* A request is moved, and its lock and its allocation taken away, only by
\* steps of its own.
LEMMA OwnSteps ==
    ASSUME IInv, Next, NEW r \in Requests
    PROVE  \/ RequestPhaseA(r) \/ RequestPhaseB(r) \/ Reconcile(r) \/ Abort(r)
           \/ pc'[r] = pc[r] /\ alloc'[r] = alloc[r] /\ (lock = r => lock' = r)
<1> USE ProcFacts DEF IInv, TypeOK, Leave, Goto, At, RollbackAlloc
<1>1. ASSUME NEW q \in Requests, RequestPhaseA(q), q # r
      PROVE  pc'[r] = pc[r] /\ alloc'[r] = alloc[r] /\ (lock = r => lock' = r)
  BY <1>1 DEF RequestPhaseA, RejectConfirm, ConfirmPayment, StartRun, StartRunFails,
       PrepareSucceeds, PrepareFails, PrepareUncertain, FailPaidPurchase,
       MarkProvisionPending, MarkRunPendingManual
<1>2. ASSUME NEW q \in Requests, RequestPhaseB(q), q # r
      PROVE  pc'[r] = pc[r] /\ alloc'[r] = alloc[r] /\ (lock = r => lock' = r)
  BY <1>2 DEF RequestPhaseB, AcquireLock, AcquireLockFails, CheckUnresolved,
       PreCommitFails, FirstCommit, ProbeFirstCommit, ProbeFirstCommitFails,
       CompensateUser, CompensateUserFails, ClaimInSession, Claim
<1>3. ASSUME NEW w \in Workers, WorkerPoll(w)
      PROVE  pc'[r] = pc[r] /\ alloc'[r] = alloc[r] /\ (lock = r => lock' = r)
  BY <1>3 DEF WorkerPoll, WorkerAcquireLock, WorkerClaim, WorkerFindsNothing, Claim
<1>4. ASSUME NEW p \in Requests \cup Workers, Reconcile(p), p # r
      PROVE  pc'[r] = pc[r] /\ alloc'[r] = alloc[r] /\ (lock = r => lock' = r)
  BY <1>4 DEF Reconcile, Apply, ApplyFails, Finalize, ProbeFinalization,
       MarkFinalizationUnknown, RecordFailure
<1>5. ASSUME SchedulerStep
      PROVE  pc'[r] = pc[r] /\ alloc'[r] = alloc[r] /\ (lock = r => lock' = r)
  BY <1>5 DEF SchedulerStep, EnterGrace, Expire, ReleaseAcquireLock, ReleaseCheck, ReleaseCommit
<1>6. ASSUME NEW p \in Procs, Abort(p), p # r
      PROVE  pc'[r] = pc[r] /\ alloc'[r] = alloc[r] /\ (lock = r => lock' = r)
  BY <1>6 DEF Abort
<1>7. QED BY <1>1, <1>2, <1>3, <1>4, <1>5, <1>6 DEF Next

\* Steps that are not a request's own leave this of its order.
Untouched(o) ==
    /\ user'[o] = user[o]
    /\ binding'[o] \in {binding[o], NULL}
    /\ route'[o] \in {route[o], NULL}
    /\ job'[PurchaseJob(o)] = "NONE" <=> job[PurchaseJob(o)] = "NONE"
    /\ sub'[o] = "PROVISION_FAILED" => sub[o] = "PROVISION_FAILED"

LEMMA OrderFrame ==
    ASSUME IInv, Next, NEW o \in Orders,
           \A q \in Requests : OrderOf[q] = o => ~RequestPhaseA(q) /\ ~RequestPhaseB(q)
    PROVE  Untouched(o)
<1> USE DEF IInv, At
<1>1. user'[o] = user[o]
  BY UserWriters, ProcFacts DEF TypeOK, RequestPhaseA, RequestPhaseB, PrepareSucceeds,
     PrepareFails, PrepareUncertain, CompensateUser, CompensateUserFails
<1>2. binding'[o] \in {binding[o], NULL} /\ route'[o] \in {route[o], NULL}
  <2>1. ASSUME NEW q \in Requests, MarkProvisionPending(q) \/ FirstCommit(q)
        PROVE  binding'[o] = binding[o] /\ route'[o] = route[o]
    BY <2>1, ProcFacts DEF TypeOK, RequestPhaseA, RequestPhaseB, MarkProvisionPending,
       FirstCommit, rows
  <2>2. ASSUME ReleaseCommit
        PROVE  binding'[o] \in {binding[o], NULL} /\ route'[o] \in {route[o], NULL}
    BY <2>2 DEF TypeOK, ReleaseCommit
  <2>3. QED BY <2>1, <2>2, RowWriters DEF rows
<1>3. job'[PurchaseJob(o)] = "NONE" <=> job[PurchaseJob(o)] = "NONE"
  <2>1. PurchaseJob(o) \in JobKeys
    BY KeyFacts
  <2>2. ASSUME NEW q \in Requests, FirstCommit(q)
        PROVE  job'[PurchaseJob(o)] = job[PurchaseJob(o)]
    <3>1. OrderOf[q] \in Orders /\ OrderOf[q] # o
      BY <2>2, ProcFacts DEF RequestPhaseB
    <3>2. PurchaseJob(OrderOf[q]) # PurchaseJob(o)
      BY <3>1 DEF PurchaseJob
    <3>3. QED BY <2>1, <2>2, <3>2 DEF TypeOK, FirstCommit, Enqueue
  <2>3. ASSUME ReleaseCommit
        PROVE  job'[PurchaseJob(o)] = job[PurchaseJob(o)]
    <3>1. PICK q \in Orders : binding[q] \in Endpoints /\ cur[Scheduler] = q
      BY <2>3, ReleaseFacts
    <3>2. ReleaseJob(q, binding[q]) # PurchaseJob(o)
      BY DEF PurchaseJob, ReleaseJob
    <3>3. QED BY <2>1, <2>3, <3>1, <3>2 DEF TypeOK, ReleaseCommit, Enqueue
  <2>4. QED BY <2>1, <2>2, <2>3, JobMoves DEF jobs
<1>4. sub'[o] = "PROVISION_FAILED" => sub[o] = "PROVISION_FAILED"
  <2>1. ASSUME NEW q \in Requests, ConfirmPayment(q) \/ FailPaidPurchase(q)
        PROVE  sub'[o] = sub[o]
    BY <2>1, ProcFacts DEF TypeOK, RequestPhaseA, ConfirmPayment, FailPaidPurchase
  <2>2. ASSUME NEW q \in Orders, EnterGrace(q) \/ Expire(q)
        PROVE  sub'[o] = sub[o] \/ sub'[o] # "PROVISION_FAILED"
    BY <2>2 DEF TypeOK, EnterGrace, Expire
  <2>3. ASSUME NEW p \in Requests \cup Workers, Finalize(p)
        PROVE  sub'[o] = sub[o] \/ sub'[o] # "PROVISION_FAILED"
    BY <2>3 DEF TypeOK, Finalize, FinalizedRows, business
  <2>4. QED BY <2>1, <2>2, <2>3, SubWriters
<1>5. QED BY <1>1, <1>2, <1>3, <1>4 DEF Untouched

-----------------------------------------------------------------------------
(* Orders that are confirmed once.                                          *)

\* A step of someone else keeps what the request knows: nobody but the request
\* enqueues the job, and while it is unfinished it holds the lock that a
\* finalization of its job needs.
LEMMA OnceFrame ==
    ASSUME IInv, Next, NEW r \in Requests, OrderOf[r] \in ConfirmedOnce, OnceInv(r),
           ~RequestPhaseA(r), ~RequestPhaseB(r), ~Reconcile(r), ~Abort(r)
    PROVE  OnceInv(r)'
<1> DEFINE o == OrderOf[r]
<1>1. o \in Orders /\ \A q \in Requests : OrderOf[q] = o => q = r
  BY ProcFacts DEF ConfirmedOnce
<1>2. Untouched(o)
  BY <1>1, OrderFrame
<1>3. pc'[r] = pc[r] /\ (lock = r => lock' = r)
  BY OwnSteps
<1>4. ASSUME run'[o] = "SUCCEEDED", run[o] # "SUCCEEDED" PROVE pc[r] \notin UnfinishedPC
  <2>1. PICK p \in Requests \cup Workers : Finalize(p) /\ cur[p] \in PurchaseJobs /\ cur[p][2] = o
    <3>1. ASSUME NEW q \in Requests, \/ StartRun(q) \/ PrepareFails(q)
                                     \/ MarkRunPendingManual(q) \/ CompensateUser(q)
          PROVE  FALSE
      BY <1>1, <1>4, <3>1, ProcFacts DEF IInv, TypeOK, StartRun, PrepareFails,
         MarkRunPendingManual, CompensateUser
    <3>2. ASSUME NEW p \in Requests \cup Workers, RecordFailure(p) PROVE FALSE
      BY <1>1, <1>4, <3>2 DEF IInv, TypeOK, RecordFailure
    <3>3. PICK p \in Requests \cup Workers : Finalize(p)
      BY <1>4, <3>1, <3>2, RunWriters
    <3>4. cur[p] \in PurchaseJobs /\ cur[p][2] = o
      BY <1>1, <1>4, <3>3 DEF IInv, TypeOK, Finalize, FinalizedRows
    <3>5. QED BY <3>3, <3>4
  <2>2. cur[p] = PurchaseJob(o) /\ p \in Procs /\ p # r /\ pc[p] = "applied"
    BY <2>1, KeyFacts, ProcFacts DEF Finalize, Reconcile, At
  <2>3. lock = p /\ job[PurchaseJob(o)] # "NONE"
    BY <2>2 DEF IInv, LockInv, HeldPC, HolderInv, ReconcilePC
  <2>4. lock # r
    BY <2>2, <2>3
  <2>5. pc[r] \notin UncommittedPC /\ pc[r] # "manual"
    BY <2>3, <2>4 DEF OnceInv
  <2>6. pc[r] \notin {"committed", "firstProbe"}
    BY <2>4, ProcFacts DEF IInv, LockInv, HeldPC
  <2>7. QED BY <2>5, <2>6 DEF UnfinishedPC
<1> HIDE DEF o
<1>5. QED BY <1>2, <1>3, <1>4 DEF OnceInv, Untouched, o, UncommittedPC, UnfinishedPC

\* The request's own steps.
LEMMA OncePhaseA ==
    ASSUME IInv, Next, NEW r \in Requests, OnceInv(r), RequestPhaseA(r)
    PROVE  OnceInv(r)'
<1> USE ProcFacts DEF IInv, TypeOK, OnceInv, UncommittedPC, UnfinishedPC, At, Goto, Leave,
        rows, jobs, business
<1>1. CASE RejectConfirm(r) \/ ConfirmPayment(r) \/ StartRun(r) \/ StartRunFails(r)
  BY <1>1 DEF RejectConfirm, ConfirmPayment, StartRun, StartRunFails
<1>2. CASE PrepareSucceeds(r)
  BY <1>2 DEF PrepareSucceeds
<1>3. CASE PrepareFails(r)
  BY <1>3 DEF PrepareFails
<1>4. CASE PrepareUncertain(r)
  BY <1>4 DEF PrepareUncertain
<1>5. CASE FailPaidPurchase(r) \/ MarkRunPendingManual(r)
  BY <1>5 DEF FailPaidPurchase, MarkRunPendingManual
<1>6. CASE MarkProvisionPending(r)
  BY <1>6 DEF MarkProvisionPending
<1>7. QED BY <1>1, <1>2, <1>3, <1>4, <1>5, <1>6 DEF RequestPhaseA

LEMMA OncePhaseB ==
    ASSUME IInv, Next, NEW r \in Requests, OnceInv(r), RequestPhaseB(r)
    PROVE  OnceInv(r)'
<1> USE ProcFacts DEF IInv, TypeOK, OnceInv, UncommittedPC, UnfinishedPC, At, Goto, Leave,
        rows, jobs, business
<1>0. PurchaseJob(OrderOf[r]) \in JobKeys
  BY KeyFacts
<1>1. CASE AcquireLock(r) \/ AcquireLockFails(r)
  BY <1>1 DEF AcquireLock, AcquireLockFails, OwnerInv
<1>2. CASE CheckUnresolved(r) \/ PreCommitFails(r)
  BY <1>2 DEF CheckUnresolved, PreCommitFails, OwnerInv
<1>3. CASE FirstCommit(r)
  BY <1>0, <1>3 DEF FirstCommit, OwnerInv, Enqueue
<1>4. CASE ProbeFirstCommit(r)
  <2>1. lock = r
    BY <1>4 DEF ProbeFirstCommit, LockInv, HeldPC
  <2>2. FirstCommitOutcome(OrderOf[r]) = "ABSENT" =>
            job[PurchaseJob(OrderOf[r])] = "NONE" /\ route[OrderOf[r]] = NULL
    BY DEF FirstCommitOutcome
  <2>3. QED BY <1>4, <2>1, <2>2 DEF ProbeFirstCommit
<1>5. CASE ProbeFirstCommitFails(r)
  <2>1. lock = r
    BY <1>5 DEF ProbeFirstCommitFails, LockInv, HeldPC
  <2>2. QED BY <1>5, <2>1 DEF ProbeFirstCommitFails
<1>6. CASE CompensateUser(r) \/ CompensateUserFails(r)
  BY <1>6 DEF CompensateUser, CompensateUserFails
<1>7. CASE ClaimInSession(r)
  BY <1>7 DEF ClaimInSession, Claim
<1>8. QED BY <1>1, <1>2, <1>3, <1>4, <1>5, <1>6, <1>7 DEF RequestPhaseB

LEMMA OnceOther ==
    ASSUME IInv, Next, NEW r \in Requests, OnceInv(r), Reconcile(r) \/ Abort(r)
    PROVE  OnceInv(r)'
<1>1. pc'[r] \in {"done"} \cup ReconcilePC
  BY ProcFacts DEF IInv, TypeOK, ReconcilePC, Reconcile, Apply, ApplyFails, Finalize,
     ProbeFinalization, MarkFinalizationUnknown, RecordFailure, Abort, Leave, Goto
<1>2. QED BY <1>1 DEF OnceInv, UncommittedPC, UnfinishedPC, ReconcilePC

LEMMA OnceStep ==
    ASSUME IInv, Next, OutcomeInv, NEW r \in Requests, OrderOf[r] \in ConfirmedOnce
    PROVE  OnceInv(r)'
<1>1. OnceInv(r)
  BY DEF OutcomeInv
<1>2. QED BY <1>1, OnceFrame, OncePhaseA, OncePhaseB, OnceOther

\* PROVISION_FAILED is written from a compensated state, and a request that is
\* over writes nothing any more.
LEMMA FailedStep == ASSUME IInv, Next, OutcomeInv PROVE FailedInv'
<1> SUFFICES ASSUME NEW o \in ConfirmedOnce, sub'[o] = "PROVISION_FAILED"
             PROVE  /\ user'[o] # "enabled" /\ binding'[o] = NULL /\ route'[o] = NULL
                    /\ \A r \in Requests : OrderOf[r] = o => pc'[r] = "done"
  BY DEF FailedInv, ConfirmedOnce
<1>1. o \in Orders /\ \A p, r \in Requests : OrderOf[p] = o /\ OrderOf[r] = o => p = r
  BY DEF ConfirmedOnce
<1>2. CASE \E r \in Requests : OrderOf[r] = o /\ FailPaidPurchase(r)
  <2>1. PICK r \in Requests : OrderOf[r] = o /\ FailPaidPurchase(r)
    BY <1>2
  <2>2. OnceInv(r) /\ pc[r] = "failing"
    BY <2>1 DEF OutcomeInv, FailPaidPurchase, At
  <2>3. user[o] # "enabled" /\ binding[o] = NULL /\ route[o] = NULL
    BY <2>1, <2>2 DEF OnceInv, UncommittedPC
  <2>4. pc'[r] = "done" /\ UNCHANGED <<user, binding, route>>
    BY <2>1, ProcFacts DEF IInv, TypeOK, FailPaidPurchase, Leave, rows
  <2>5. QED BY <1>1, <2>1, <2>3, <2>4
<1>3. CASE ~ \E r \in Requests : OrderOf[r] = o /\ FailPaidPurchase(r)
  <2>1. sub[o] = "PROVISION_FAILED"
    <3>1. ASSUME NEW q \in Requests, ConfirmPayment(q)
          PROVE  sub[o] = "PROVISION_FAILED"
      BY <1>1, <3>1, ProcFacts DEF IInv, TypeOK, ConfirmPayment
    <3>2. ASSUME NEW q \in Requests, FailPaidPurchase(q)
          PROVE  sub[o] = "PROVISION_FAILED"
      BY <1>1, <1>3, <3>2, ProcFacts DEF IInv, TypeOK, FailPaidPurchase
    <3>3. ASSUME NEW q \in Orders, EnterGrace(q) \/ Expire(q)
          PROVE  sub[o] = "PROVISION_FAILED"
      BY <1>1, <3>3 DEF IInv, TypeOK, EnterGrace, Expire
    <3>4. ASSUME NEW p \in Requests \cup Workers, Finalize(p)
          PROVE  sub[o] = "PROVISION_FAILED"
      BY <1>1, <3>4 DEF IInv, TypeOK, Finalize, FinalizedRows, business
    <3>5. QED BY <3>1, <3>2, <3>3, <3>4, SubWriters
  <2>2. /\ user[o] # "enabled" /\ binding[o] = NULL /\ route[o] = NULL
        /\ \A r \in Requests : OrderOf[r] = o => pc[r] = "done"
    BY <2>1 DEF OutcomeInv, FailedInv
  <2>3. ASSUME NEW r \in Requests, pc[r] = "done"
        PROVE  ~RequestPhaseA(r) /\ ~RequestPhaseB(r) /\ ~Reconcile(r) /\ ~Abort(r)
    BY <2>3 DEF At, RequestPhaseA, RejectConfirm, ConfirmPayment, StartRun, StartRunFails,
       PrepareSucceeds, PrepareFails, PrepareUncertain, FailPaidPurchase,
       MarkProvisionPending, MarkRunPendingManual, RequestPhaseB, AcquireLock,
       AcquireLockFails, CheckUnresolved, PreCommitFails, FirstCommit, ProbeFirstCommit,
       ProbeFirstCommitFails, CompensateUser, CompensateUserFails, ClaimInSession,
       Reconcile, Apply, ApplyFails, Finalize, ProbeFinalization,
       MarkFinalizationUnknown, RecordFailure, Abort
  <2>4. Untouched(o)
    BY <1>1, <2>2, <2>3, OrderFrame
  <2>5. \A r \in Requests : OrderOf[r] = o => pc'[r] = "done"
    BY <2>2, <2>3, OwnSteps
  <2>6. QED BY <2>2, <2>4, <2>5 DEF Untouched
<1>4. QED BY <1>2, <1>3

\* Finalization writes the run with the business state; later writers of the
\* order are steps of a request that is not over.
LEMMA SucceededStep == ASSUME IInv, Next, OutcomeInv PROVE SucceededIsActivated'
<1> SUFFICES ASSUME NEW o \in ConfirmedOnce, run'[o] = "SUCCEEDED"
             PROVE  order'[o] = "ACTIVATED" /\ sub'[o] \in {"ACTIVE", "GRACE", "EXPIRED"}
  BY DEF SucceededIsActivated, ConfirmedOnce
<1>1. o \in Orders
  BY DEF ConfirmedOnce
<1> USE <1>1 DEF IInv, TypeOK
<1>2. CASE \E p \in Requests \cup Workers :
              Finalize(p) /\ cur[p] \in PurchaseJobs /\ cur[p][2] = o /\ ~UNCHANGED run
  BY <1>2 DEF Finalize, FinalizedRows
<1>3. CASE ~ \E p \in Requests \cup Workers :
              Finalize(p) /\ cur[p] \in PurchaseJobs /\ cur[p][2] = o /\ ~UNCHANGED run
  <2>1. run[o] = "SUCCEEDED"
    <3>1. ASSUME NEW q \in Requests, \/ StartRun(q) \/ PrepareFails(q)
                                     \/ MarkRunPendingManual(q) \/ CompensateUser(q)
          PROVE  run[o] = "SUCCEEDED"
      BY <3>1, ProcFacts DEF StartRun, PrepareFails, MarkRunPendingManual, CompensateUser
    <3>2. ASSUME NEW p \in Requests \cup Workers, RecordFailure(p)
          PROVE  run[o] = "SUCCEEDED"
      BY <3>2 DEF RecordFailure
    <3>3. ASSUME NEW p \in Requests \cup Workers, Finalize(p)
          PROVE  run[o] = "SUCCEEDED"
      BY <1>3, <3>3 DEF Finalize, FinalizedRows
    <3>4. QED BY <3>1, <3>2, <3>3, RunWriters
  <2>2. order[o] = "ACTIVATED" /\ sub[o] \in {"ACTIVE", "GRACE", "EXPIRED"}
    BY <2>1 DEF OutcomeInv, SucceededIsActivated
  <2>3. ASSUME NEW q \in Requests, OrderOf[q] = o,
               ConfirmPayment(q) \/ FailPaidPurchase(q) \/ MarkProvisionPending(q)
        PROVE  FALSE
    <3>1. OnceInv(q) /\ pc[q] \in UnfinishedPC
      BY <2>3 DEF OutcomeInv, ConfirmPayment, FailPaidPurchase, MarkProvisionPending, At,
         UncommittedPC, UnfinishedPC
    <3>2. QED BY <2>1, <2>3, <3>1 DEF OnceInv
  <2>4. ASSUME NEW p \in Requests \cup Workers, Finalize(p)
        PROVE  order'[o] = "ACTIVATED" /\ sub'[o] \in {"ACTIVE", "GRACE", "EXPIRED"}
    BY <2>2, <2>4 DEF Finalize, FinalizedRows, business
  <2>5. order'[o] = "ACTIVATED"
    <3>1. ASSUME NEW q \in Requests, OrderOf[q] # o,
                 ConfirmPayment(q) \/ FailPaidPurchase(q) \/ MarkProvisionPending(q)
          PROVE  order'[o] = order[o]
      BY <3>1, ProcFacts DEF ConfirmPayment, FailPaidPurchase, MarkProvisionPending
    <3>2. QED BY <2>2, <2>3, <2>4, <3>1, OrderWriters
  <2>6. sub'[o] \in {"ACTIVE", "GRACE", "EXPIRED"}
    <3>1. ASSUME NEW q \in Requests, OrderOf[q] # o, ConfirmPayment(q) \/ FailPaidPurchase(q)
          PROVE  sub'[o] = sub[o]
      BY <3>1, ProcFacts DEF ConfirmPayment, FailPaidPurchase
    <3>2. ASSUME NEW q \in Orders, EnterGrace(q) \/ Expire(q)
          PROVE  sub'[o] \in {"ACTIVE", "GRACE", "EXPIRED"}
      BY <2>2, <3>2 DEF EnterGrace, Expire
    <3>3. QED BY <2>2, <2>3, <2>4, <3>1, <3>2, SubWriters
  <2>7. QED BY <2>5, <2>6
<1>4. QED BY <1>2, <1>3

-----------------------------------------------------------------------------
(* Stranded endpoints.                                                      *)

EarlyPC == {"idle", "paid", "started"}

\* A request that has given up or committed its endpoint takes no other.
LEMMA SpentStays ==
    ASSUME IInv, Next, NEW r \in Requests, alloc[r] = NULL, pc[r] \notin EarlyPC
    PROVE  alloc'[r] = NULL /\ pc'[r] \notin EarlyPC
<1> USE ProcFacts DEF IInv, TypeOK, At, Goto, Leave, RollbackAlloc, EarlyPC
<1>1. CASE RequestPhaseA(r)
  BY <1>1 DEF RequestPhaseA, RejectConfirm, ConfirmPayment, StartRun, StartRunFails,
       PrepareSucceeds, PrepareFails, PrepareUncertain, FailPaidPurchase,
       MarkProvisionPending, MarkRunPendingManual
<1>2. CASE RequestPhaseB(r)
  BY <1>2 DEF RequestPhaseB, AcquireLock, AcquireLockFails, CheckUnresolved,
       PreCommitFails, FirstCommit, ProbeFirstCommit, ProbeFirstCommitFails,
       CompensateUser, CompensateUserFails, ClaimInSession, Claim
<1>3. CASE Reconcile(r) \/ Abort(r)
  BY <1>3 DEF Reconcile, Apply, ApplyFails, Finalize, ProbeFinalization,
       MarkFinalizationUnknown, RecordFailure, Abort
<1>4. QED BY <1>1, <1>2, <1>3, OwnSteps

\* A bound endpoint is taken and not stranded.
LEMMA BoundTaken ==
    ASSUME IInv, NEW o \in Orders, binding[o] # NULL
    PROVE  binding[o] \in Taken \ Stranded
BY DEF IInv, TypeOK, RowInv, EndpointsDedicated, Taken, Stranded

\* Steps that leave the rows alone.
LEMMA StrandFrame ==
    ASSUME IInv, Next, UNCHANGED rows, StrandInv
    PROVE  StrandInv'
<1>1. PICK f \in [Taken -> Requests] : TakenBy(f)
  BY DEF StrandInv
<1>2. Taken' = Taken /\ Stranded' = Stranded /\ binding' = binding
  BY DEF Taken, Stranded, rows
<1>3. ASSUME NEW e \in Taken
      PROVE  alloc'[f[e]] = NULL /\ pc'[f[e]] \notin {"idle", "paid", "started"}
  <2>1. f[e] \in Requests /\ alloc[f[e]] = NULL /\ pc[f[e]] \notin EarlyPC
    BY <1>1 DEF TakenBy, EarlyPC
  <2>2. QED BY <2>1, SpentStays DEF EarlyPC
<1>4. TakenBy(f)'
  BY <1>1, <1>2, <1>3 DEF TakenBy
<1>5. QED BY <1>2, <1>4 DEF StrandInv

\* A request commits the endpoint it holds: to its subscription, or stranded
\* next to the binding the subscription has.
LEMMA StrandTake ==
    ASSUME IInv, Next, StrandInv, NEW r \in Requests, alloc[r] # NULL,
           ep' = [ep EXCEPT ![alloc[r]] = "ASSIGNED"],
           binding' = [binding EXCEPT ![OrderOf[r]] = IF @ = NULL THEN alloc[r] ELSE @],
           alloc'[r] = NULL, pc'[r] \notin EarlyPC
    PROVE  StrandInv'
<1> DEFINE e == alloc[r]
           o == OrderOf[r]
<1>1. PICK f \in [Taken -> Requests] : TakenBy(f)
  BY DEF StrandInv
<1>2. e \in Endpoints /\ o \in Orders /\ ep[e] = "AVAILABLE" /\ e # NULL
  BY ProcFacts DEF IInv, TypeOK, AllocInv
<1>3. e \notin Taken /\ Taken' = Taken \cup {e}
  BY <1>2 DEF IInv, TypeOK, Taken
<1>4. \A q \in Orders : binding[q] # e
  BY <1>2, <1>3, BoundTaken
<1>5. /\ \A q \in Orders : q # o => binding'[q] = binding[q]
      /\ binding[o] = NULL => binding'[o] = e
      /\ binding[o] # NULL => binding'[o] = binding[o]
  BY <1>2 DEF IInv, TypeOK
<1>6. Stranded' = Stranded \cup (IF binding[o] = NULL THEN {} ELSE {e})
  <2>1. ASSUME NEW d \in Endpoints, d # e PROVE d \in Stranded' <=> d \in Stranded
    <3>1. ep'[d] = ep[d]
      BY <1>2, <2>1 DEF IInv, TypeOK
    <3>2. ASSUME NEW q \in Orders PROVE binding'[q] = d <=> binding[q] = d
      BY <1>2, <1>5, <2>1, ProcFacts
    <3>3. QED BY <3>1, <3>2 DEF Stranded
  <2>2. e \in Stranded' <=> binding[o] # NULL
    <3>1. ep'[e] = "ASSIGNED"
      BY <1>2 DEF IInv, TypeOK
    <3>2. (\E q \in Orders : binding'[q] = e) <=> binding[o] = NULL
      BY <1>2, <1>4, <1>5
    <3>3. QED BY <1>2, <3>1, <3>2 DEF Stranded
  <2>3. e \notin Stranded
    BY <1>2 DEF Stranded
  <2>4. Stranded \subseteq Endpoints /\ Stranded' \subseteq Endpoints
    BY DEF Stranded
  <2>5. QED BY <1>2, <2>1, <2>2, <2>3, <2>4
<1>7. PICK g \in [Taken' -> Requests] : g[e] = r /\ \A d \in Taken : g[d] = f[d]
  <2> DEFINE h == [d \in Taken' |-> IF d = e THEN r ELSE f[d]]
  <2>1. h \in [Taken' -> Requests] /\ h[e] = r /\ \A d \in Taken : h[d] = f[d]
    BY <1>1, <1>3
  <2>2. QED BY <2>1
<1>8. ASSUME NEW d \in Taken PROVE f[d] # r
  BY <1>1 DEF TakenBy
<1> HIDE DEF e, o
<1>9. \A c, d \in Taken' : g[c] = g[d] => c = d
  <2>1. \A c, d \in Taken : f[c] = f[d] => c = d
    BY <1>1 DEF TakenBy
  <2>2. QED BY <1>3, <1>7, <1>8, <2>1
<1>10. \A d \in Taken' : alloc'[g[d]] = NULL /\ pc'[g[d]] \notin {"idle", "paid", "started"}
  <2>1. ASSUME NEW d \in Taken
        PROVE  alloc'[f[d]] = NULL /\ pc'[f[d]] \notin EarlyPC
    <3>1. f[d] \in Requests /\ alloc[f[d]] = NULL /\ pc[f[d]] \notin EarlyPC
      BY <1>1, <2>1 DEF TakenBy, EarlyPC
    <3>2. QED BY <3>1, SpentStays
  <2>2. QED BY <1>3, <1>7, <2>1 DEF EarlyPC
<1>11. \A q \in Orders : binding'[q] # NULL => OrderOf[g[binding'[q]]] = q
  <2>1. ASSUME NEW q \in Orders, binding[q] # NULL PROVE OrderOf[g[binding[q]]] = q
    BY <1>1, <1>7, <2>1, BoundTaken DEF TakenBy
  <2>2. OrderOf[g[e]] = o
    BY <1>7 DEF o
  <2>3. QED BY <1>5, <2>1, <2>2
<1>12. \A s \in Stranded' : \E d \in Taken' \ Stranded' : OrderOf[g[d]] = OrderOf[g[s]]
  <2>1. ASSUME NEW s \in Stranded
        PROVE  \E d \in Taken' \ Stranded' : OrderOf[g[d]] = OrderOf[g[s]]
    <3>1. s \in Taken
      BY DEF Stranded, Taken
    <3>2. PICK d \in Taken \ Stranded : OrderOf[f[d]] = OrderOf[f[s]]
      BY <1>1 DEF TakenBy
    <3>3. QED BY <1>3, <1>6, <1>7, <3>1, <3>2
  <2>2. ASSUME binding[o] # NULL
        PROVE  \E d \in Taken' \ Stranded' : OrderOf[g[d]] = OrderOf[g[e]]
    <3>1. binding[o] \in Taken \ Stranded /\ binding[o] # e
      BY <1>2, <1>4, <2>2, BoundTaken
    <3>2. OrderOf[f[binding[o]]] = o
      BY <1>1, <1>2, <2>2 DEF TakenBy
    <3>3. OrderOf[g[e]] = o
      BY <1>7 DEF o
    <3>4. QED BY <1>3, <1>6, <1>7, <3>1, <3>2, <3>3
  <2>3. QED BY <1>6, <2>1, <2>2
<1>13. TakenBy(g)'
  BY <1>7, <1>9, <1>10, <1>11, <1>12 DEF TakenBy
<1>14. QED BY <1>7, <1>13 DEF StrandInv

\* A release quarantines a bound endpoint: it is still taken, not stranded.
LEMMA StrandRelease ==
    ASSUME IInv, Next, StrandInv, ReleaseCommit
    PROVE  StrandInv'
<1>1. PICK f \in [Taken -> Requests] : TakenBy(f)
  BY DEF StrandInv
<1>2. PICK o \in Orders : /\ binding[o] \in Endpoints
                          /\ cur[Scheduler] = o
                          /\ ep[binding[o]] = "ASSIGNED"
  BY ReleaseFacts
<1>3. /\ binding' = [binding EXCEPT ![o] = NULL]
      /\ ep' = [ep EXCEPT ![binding[o]] = "QUARANTINED"]
  BY <1>2 DEF ReleaseCommit
<1>4. Taken' = Taken
  BY <1>2, <1>3 DEF IInv, TypeOK, Taken
<1>5. Stranded' = Stranded
  <2>1. ASSUME NEW d \in Endpoints, d # binding[o] PROVE d \in Stranded' <=> d \in Stranded
    <3>1. ep'[d] = ep[d]
      BY <1>2, <1>3, <2>1 DEF IInv, TypeOK
    <3>2. ASSUME NEW q \in Orders PROVE binding'[q] = d <=> binding[q] = d
      BY <1>2, <1>3, <2>1, ProcFacts DEF IInv, TypeOK
    <3>3. QED BY <3>1, <3>2 DEF Stranded
  <2>2. binding[o] \notin Stranded
    BY DEF Stranded
  <2>3. binding[o] \notin Stranded'
    <3>1. ep'[binding[o]] = "QUARANTINED"
      BY <1>2, <1>3 DEF IInv, TypeOK
    <3>2. QED BY <1>2, <3>1 DEF Stranded
  <2>4. Stranded \subseteq Endpoints /\ Stranded' \subseteq Endpoints
    BY DEF Stranded
  <2>5. QED BY <2>1, <2>2, <2>3, <2>4
<1>6. ASSUME NEW e \in Taken
      PROVE  alloc'[f[e]] = NULL /\ pc'[f[e]] \notin {"idle", "paid", "started"}
  <2>1. f[e] \in Requests /\ alloc[f[e]] = NULL /\ pc[f[e]] \notin EarlyPC
    BY <1>1 DEF TakenBy, EarlyPC
  <2>2. QED BY <2>1, SpentStays DEF EarlyPC
<1>7. \A q \in Orders : binding'[q] # NULL => OrderOf[f[binding'[q]]] = q
  <2>1. ASSUME NEW q \in Orders, binding'[q] # NULL PROVE binding'[q] = binding[q]
    BY <1>3, <2>1 DEF IInv, TypeOK
  <2>2. QED BY <1>1, <2>1 DEF TakenBy
<1>8. TakenBy(f)'
  BY <1>1, <1>4, <1>5, <1>6, <1>7 DEF TakenBy
<1>9. QED BY <1>4, <1>8 DEF StrandInv

LEMMA StrandStep == ASSUME IInv, Next, StrandInv PROVE StrandInv'
<1>1. ASSUME NEW r \in Requests, MarkProvisionPending(r) PROVE StrandInv'
  <2>1. CASE alloc[r] = NULL
    BY <1>1, <2>1, StrandFrame DEF MarkProvisionPending
  <2>2. CASE alloc[r] # NULL
    <3>1. alloc'[r] = NULL /\ pc'[r] = "manualRun"
      BY <1>1, ProcFacts DEF IInv, TypeOK, MarkProvisionPending, RollbackAlloc, Goto
    <3>2. /\ ep' = [ep EXCEPT ![alloc[r]] = "ASSIGNED"]
          /\ binding' = [binding EXCEPT ![OrderOf[r]] = IF @ = NULL THEN alloc[r] ELSE @]
      BY <1>1, <2>2 DEF MarkProvisionPending
    <3>3. QED BY <2>2, <3>1, <3>2, StrandTake DEF EarlyPC
  <2>3. QED BY <2>1, <2>2
<1>2. ASSUME NEW r \in Requests, FirstCommit(r) PROVE StrandInv'
  <2>1. CASE UNCHANGED rows
    BY <2>1, StrandFrame
  <2>2. CASE ~UNCHANGED rows
    <3>1. alloc[r] # NULL /\ binding[OrderOf[r]] = NULL /\ OrderOf[r] \in Orders
      BY <1>2, ProcFacts DEF IInv, OwnerInv, FirstCommit, At
    <3>2. alloc'[r] = NULL /\ pc'[r] \in {"committed", "firstProbe"}
      BY <1>2, ProcFacts DEF IInv, TypeOK, FirstCommit, RollbackAlloc, Goto
    <3>3. /\ ep' = [ep EXCEPT ![alloc[r]] = "ASSIGNED"]
          /\ binding' = [binding EXCEPT ![OrderOf[r]] = alloc[r]]
      BY <1>2, <2>2 DEF FirstCommit
    <3>4. binding' = [binding EXCEPT ![OrderOf[r]] = IF @ = NULL THEN alloc[r] ELSE @]
      BY <3>1, <3>3 DEF IInv, TypeOK
    <3>5. QED BY <3>1, <3>2, <3>3, <3>4, StrandTake DEF EarlyPC
  <2>3. QED BY <2>1, <2>2
<1>3. QED BY <1>1, <1>2, StrandFrame, StrandRelease, RowWriters

\* Counting: when the members of S are matched with different requests, and
\* every order they name has a request outside the match, S is no larger than
\* the number of repeated confirmations.
LEMMA StrandCount ==
    ASSUME IsFiniteSet(Requests), NEW S, NEW f \in [S -> Requests],
           \A d, e \in S : f[d] = f[e] => d = e,
           \A e \in S : \E r \in Requests : (\A d \in S : f[d] # r) /\ OrderOf[r] = OrderOf[f[e]]
    PROVE  Cardinality(S) <= Repeated
<1> DEFINE F == {f[d] : d \in S}
           R == Requests \ F
           O == {OrderOf[r] : r \in Requests}
<1>1. F \subseteq Requests /\ IsFiniteSet(F) /\ IsFiniteSet(R)
  BY FS_Subset
<1>2. IsFiniteSet(S) /\ Cardinality(S) = Cardinality(F)
  <2>1. f \in Injection(S, F) /\ f \in Surjection(S, F)
    BY DEF Injection, Surjection, IsInjective
  <2>2. IsFiniteSet(S) /\ Cardinality(S) <= Cardinality(F)
        /\ (Cardinality(S) = Cardinality(F) <=> f \in Surjection(S, F))
    BY <1>1, <2>1, FS_Injection
  <2>3. QED BY <2>1, <2>2
<1>3. Cardinality(Requests) = Cardinality(F) + Cardinality(R)
  <2>1. Requests = F \cup R /\ F \cap R = {}
    BY <1>1
  <2>2. Cardinality(F) \in Nat /\ Cardinality(R) \in Nat /\ Cardinality({}) = 0
    BY <1>1, FS_CardinalityType, FS_EmptySet
  <2>3. Cardinality(F \cup R) = Cardinality(F) + Cardinality(R) - Cardinality(F \cap R)
    BY <1>1, FS_Union
  <2> HIDE DEF F, R
  <2>4. Cardinality(F \cap R) = 0
    BY <2>1, <2>2, Zenon
  <2>5. Cardinality(Requests) = Cardinality(F \cup R)
    BY <2>1, Zenon
  <2>6. QED BY <2>2, <2>3, <2>4, <2>5
<1>4. IsFiniteSet(O) /\ Cardinality(O) <= Cardinality(R)
  <2> DEFINE h == [r \in R |-> OrderOf[r]]
  <2>1. ASSUME NEW o \in O PROVE \E r \in R : h[r] = o
    <3>1. PICK r \in Requests : OrderOf[r] = o
      OBVIOUS
    <3>2. CASE r \in R
      BY <3>1, <3>2
    <3>3. CASE r \in F
      <4>1. PICK e \in S : r = f[e]
        BY <3>3
      <4>2. PICK q \in Requests : (\A d \in S : f[d] # q) /\ OrderOf[q] = OrderOf[f[e]]
        OBVIOUS
      <4>3. q \in R /\ h[q] = o
        BY <3>1, <4>1, <4>2
      <4>4. QED BY <4>3
    <3>4. QED BY <3>2, <3>3
  <2>2. h \in [R -> O]
    OBVIOUS
  <2> HIDE DEF h, R, O
  <2>3. h \in Surjection(R, O)
    BY <2>1, <2>2 DEF Surjection
  <2>4. QED BY <1>1, <2>3, FS_Surjection
<1>5. Cardinality(F) \in Nat /\ Cardinality(R) \in Nat /\ Cardinality(O) \in Nat
  BY <1>1, <1>4, FS_CardinalityType
<1>6. Repeated = Cardinality(Requests) - Cardinality(O)
  BY DEF Repeated
<1> HIDE DEF F, R, O
<1>7. QED BY <1>2, <1>3, <1>4, <1>5, <1>6

LEMMA StrandBound ==
    ASSUME IsFiniteSet(Requests), StrandInv
    PROVE  AssignedIsBound
<1>1. PICK f \in [Taken -> Requests] : TakenBy(f)
  BY DEF StrandInv
<1> DEFINE h == [e \in Stranded |-> f[e]]
<1>2. Stranded \subseteq Taken
  BY DEF Stranded, Taken
<1>3. h \in [Stranded -> Requests] /\ \A d, e \in Stranded : h[d] = h[e] => d = e
  BY <1>1, <1>2 DEF TakenBy
<1>4. ASSUME NEW e \in Stranded
      PROVE  \E r \in Requests : (\A d \in Stranded : h[d] # r) /\ OrderOf[r] = OrderOf[h[e]]
  <2>1. PICK d \in Taken \ Stranded : OrderOf[f[d]] = OrderOf[f[e]]
    BY <1>1 DEF TakenBy
  <2>2. \A c \in Stranded : f[c] # f[d]
    BY <1>1, <1>2, <2>1 DEF TakenBy
  <2>3. QED BY <1>2, <2>1, <2>2
<1> HIDE DEF h
<1>5. Cardinality(Stranded) <= Repeated
  BY <1>3, <1>4, StrandCount
<1>6. QED BY <1>5 DEF AssignedIsBound, Stranded

-----------------------------------------------------------------------------
(* The results.                                                             *)

LEMMA OutcomeInit == Init => OutcomeInv /\ StrandInv
<1> SUFFICES ASSUME Init PROVE OutcomeInv /\ StrandInv
  OBVIOUS
<1>1. OutcomeInv
  BY ProcFacts, KeyFacts DEF Init, OutcomeInv, OnceInv, FailedInv, SucceededIsActivated,
     ConfirmedOnce, UncommittedPC, UnfinishedPC
<1>2. Taken = {} /\ Stranded = {}
  BY DEF Init, Taken, Stranded
<1>3. PICK f : f = [e \in Taken |-> 0]
  OBVIOUS
<1>4. f \in [Taken -> Requests] /\ TakenBy(f)
  BY <1>2, <1>3 DEF Init, TakenBy
<1>5. QED BY <1>1, <1>4 DEF StrandInv

LEMMA OutcomeStep ==
    ASSUME IInv, [Next]_vars, OutcomeInv, StrandInv
    PROVE  OutcomeInv' /\ StrandInv'
<1>1. CASE Next
  BY <1>1, OnceStep, FailedStep, SucceededStep, StrandStep DEF OutcomeInv
<1>2. CASE UNCHANGED vars
  <2>1. OutcomeInv'
    BY <1>2 DEF vars, OutcomeInv, OnceInv, FailedInv, SucceededIsActivated
  <2>2. PICK f \in [Taken -> Requests] : TakenBy(f)
    BY DEF StrandInv
  <2>3. Taken' = Taken /\ Stranded' = Stranded
    BY <1>2 DEF vars, Taken, Stranded
  <2>4. TakenBy(f)'
    BY <1>2, <2>2, <2>3 DEF vars, TakenBy
  <2>5. QED BY <2>1, <2>3, <2>4 DEF StrandInv
<1>3. QED BY <1>1, <1>2

\* What a request knows of an order only it confirms, and who took which
\* endpoint, in every reachable state.
THEOREM OutcomeInvariant == Spec => [](OutcomeInv /\ StrandInv)
<1>1. IInv /\ OutcomeInv /\ StrandInv /\ [Next]_vars => OutcomeInv' /\ StrandInv'
  BY OutcomeStep
<1>2. QED BY <1>1, OutcomeInit, InductiveInvariant, PTL DEF Spec

\* PROVISION_FAILED (fail_paid_purchase) leaves no enabled user, endpoint or
\* route behind for an order that was confirmed once.
THEOREM FailedIsCompensated == Spec => []FailedMeansCompensated
<1>1. OutcomeInv => FailedMeansCompensated
  BY DEF OutcomeInv, FailedInv, FailedMeansCompensated
<1>2. QED BY <1>1, OutcomeInvariant, PTL

\* The run of an order confirmed once reports SUCCEEDED only for an activated
\* order, whoever finalized the job and whatever the request did before.
THEOREM RunReportsBusiness == Spec => []SucceededIsActivated
<1>1. OutcomeInv => SucceededIsActivated
  BY DEF OutcomeInv
<1>2. QED BY <1>1, OutcomeInvariant, PTL

\* With finitely many confirm calls at most one endpoint is stranded for each
\* call that repeats the confirmation of an order; none when no order is
\* confirmed twice.
THEOREM EndpointsFound == ASSUME IsFiniteSet(Requests) PROVE Spec => []AssignedIsBound
<1>1. StrandInv => AssignedIsBound
  BY StrandBound
<1>2. QED BY <1>1, OutcomeInvariant, PTL
=============================================================================
