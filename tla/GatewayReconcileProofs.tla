----------------------- MODULE GatewayReconcileProofs -----------------------
(***************************************************************************)
(* Proofs about GatewayReconcile for any number of orders, requests,       *)
(* workers, endpoints and attempts: the type invariant, and the safety     *)
(* properties of the projection contract through one inductive invariant.  *)
(***************************************************************************)
EXTENDS GatewayReconcile, TLAPS

\* Steps at which a handler is inside the named lock.
HeldPC == {"locked", "checked", "committed", "firstProbe", "claimed", "applied",
           "finalProbe", "record", "unknown", "workerLocked", "releaseLocked",
           "releaseChecked"}
\* Steps at which a request has created its order's user and not yet
\* committed, probed or compensated.
OwnerPC == {"prepared", "locked", "checked", "firstProbe", "preGateway"}

LockInv == \A p \in Procs : pc[p] \in HeldPC => lock = p

\* Handlers reach only their own steps.
RoleInv ==
    \A p \in Procs :
        /\ p \in Requests => pc[p] \in RequestPC \cup ReconcilePC
        /\ p \in Workers => pc[p] \in {"idle", "workerLocked"} \cup ReconcilePC
        /\ p = Scheduler => pc[p] \in {"idle", "releaseWanted", "releaseLocked",
                                     "releaseChecked"}

AllocInv ==
    /\ \A r \in Requests : alloc[r] # NULL => ep[alloc[r]] = "AVAILABLE"
    /\ \A r, q \in Requests : alloc[r] # NULL /\ alloc[q] # NULL => r = q

OwnerInv ==
    /\ \A r \in Requests :
          LET o == OrderOf[r] IN
          /\ pc[r] \in OwnerPC => user[o] = "enabled"
          /\ pc[r] \in {"prepared", "locked", "checked"} =>
                alloc[r] # NULL /\ binding[o] = NULL
          /\ pc[r] \in {"prepared", "locked", "checked", "preGateway"} =>
                route[o] = NULL /\ job[PurchaseJob(o)] = "NONE"
    /\ \A r, q \in Requests :
          pc[r] \in OwnerPC /\ pc[q] \in OwnerPC /\ OrderOf[r] = OrderOf[q] => r = q

RowInv ==
    /\ EndpointsDedicated
    /\ \A o \in Orders : \A e \in Endpoints :
          job[ReleaseJob(o, e)] # "NONE" => ep[e] = "QUARANTINED"

UserInv ==
    /\ RouteKeepsUser
    /\ \A o \in Orders : job[PurchaseJob(o)] # "NONE" => user[o] # "none"

JobInv ==
    /\ OneUnresolved
    /\ \A k \in JobKeys : job[k] = "NONE" => attempts[k] = 0
    /\ \A o \in Orders : PurchaseJob(o) \in Unresolved => route[o] # NULL

\* A subscription in use was finalized by its purchase job.
UsedInv ==
    \A o \in Orders : sub[o] \in {"ACTIVE", "GRACE"} => job[PurchaseJob(o)] # "NONE"

\* What the holder of the lock knows at each of its steps.
HolderInv ==
    /\ \A p \in Procs :
          /\ pc[p] \in {"checked", "releaseChecked"} => Unresolved = {}
          /\ pc[p] \in ReconcilePC =>
                /\ cur[p] \in JobKeys /\ job[cur[p]] # "NONE"
                /\ Unresolved \subseteq {cur[p]}
                /\ \A o \in Orders : cur[p] = PurchaseJob(o) => route[o] # NULL
          /\ pc[p] = "applied" => runtime = ActiveRoutes
    /\ \A r \in Requests :
          pc[r] = "committed" =>
             /\ job[PurchaseJob(OrderOf[r])] = "PENDING"
             /\ attempts[PurchaseJob(OrderOf[r])] = 0
             /\ Unresolved \subseteq {PurchaseJob(OrderOf[r])}
    /\ pc[Scheduler] # "idle" => cur[Scheduler] \in Orders
    /\ pc[Scheduler] = "releaseChecked" => binding[cur[Scheduler]] # NULL

IInv ==
    /\ TypeOK
    /\ LockInv
    /\ RoleInv
    /\ AllocInv
    /\ OwnerInv
    /\ RowInv
    /\ UserInv
    /\ JobInv
    /\ UsedInv
    /\ HolderInv
    /\ Converged
    /\ ActiveIsServed

-----------------------------------------------------------------------------

\* Job keys of different kinds, orders or endpoints differ, and a key gives
\* back the order and the endpoint it was built from.
LEMMA KeyFacts ==
    /\ \A o \in Orders : /\ PurchaseJob(o) \in PurchaseJobs
                         /\ PurchaseJob(o) \in JobKeys
                         /\ PurchaseJob(o)[2] = o
    /\ \A o \in Orders : \A e \in Endpoints :
          /\ ReleaseJob(o, e) \in JobKeys
          /\ ReleaseJob(o, e) \notin PurchaseJobs
          /\ ReleaseJob(o, e)[2] = o
          /\ ReleaseJob(o, e)[3] = e
    /\ \A k \in PurchaseJobs : k \in JobKeys /\ k[2] \in Orders /\ k = PurchaseJob(k[2])
    /\ \A k \in JobKeys : k \notin PurchaseJobs =>
          \E o \in Orders, e \in Endpoints : k = ReleaseJob(o, e)
  BY DEF PurchaseJob, ReleaseJob, PurchaseJobs, ReleaseJobs, JobKeys

\* The same, for two given keys.
LEMMA KeysDiffer ==
    ASSUME NEW o \in Orders, NEW q \in Orders, NEW e \in Endpoints, NEW f \in Endpoints
    PROVE  /\ ReleaseJob(o, e) # PurchaseJob(q)
           /\ ReleaseJob(o, e) \in JobKeys
           /\ ReleaseJob(o, e) = ReleaseJob(q, f) => o = q /\ e = f
           /\ PurchaseJob(o) = PurchaseJob(q) => o = q
  BY DEF PurchaseJob, ReleaseJob, PurchaseJobs, ReleaseJobs, JobKeys

\* The three kinds of process are disjoint and none is NULL.
LEMMA ProcFacts ==
    /\ Requests \subseteq Procs /\ Workers \subseteq Procs /\ Scheduler \in Procs
    /\ \A p \in Procs : p \in Requests \/ p \in Workers \/ p = Scheduler
    /\ \A r \in Requests : r \notin Workers /\ r # Scheduler /\ OrderOf[r] \in Orders
    /\ Scheduler \notin Workers
    /\ NULL \notin Procs /\ NULL \notin Endpoints
  BY ProcessAssumption, NullAssumption, RequestAssumption DEF Procs

-----------------------------------------------------------------------------
(* Who writes what: every step outside the listed actions leaves the rows    *)
(* alone.                                                                    *)

\* Bindings, routes and endpoints change in three transactions.
LEMMA RowWriters ==
    ASSUME Next
    PROVE  \/ UNCHANGED rows
           \/ \E r \in Requests : MarkProvisionPending(r) \/ FirstCommit(r)
           \/ ReleaseCommit
  BY DEF Next, RequestPhaseA, RequestPhaseB, WorkerPoll, Reconcile, SchedulerStep,
       RejectConfirm, ConfirmPayment, StartRun, StartRunFails, PrepareSucceeds,
       PrepareFails, PrepareUncertain, FailPaidPurchase, MarkProvisionPending,
       MarkRunPendingManual, AcquireLock, AcquireLockFails, CheckUnresolved,
       PreCommitFails, FirstCommit, ProbeFirstCommit, ProbeFirstCommitFails,
       CompensateUser, CompensateUserFails, ClaimInSession, Claim,
       WorkerAcquireLock, WorkerClaim, WorkerFindsNothing, Apply, ApplyFails,
       Finalize, ProbeFinalization, MarkFinalizationUnknown, RecordFailure,
       EnterGrace, Expire, ReleaseAcquireLock, ReleaseCheck, ReleaseCommit, Abort,
       business, rows, jobs

\* Jobs are enqueued by the two writers, claimed, and settled.
LEMMA JobWriters ==
    ASSUME Next
    PROVE  \/ UNCHANGED jobs
           \/ \E r \in Requests : FirstCommit(r) \/ ClaimInSession(r)
           \/ \E w \in Workers : WorkerClaim(w)
           \/ \E p \in Requests \cup Workers :
                 Finalize(p) \/ MarkFinalizationUnknown(p) \/ RecordFailure(p)
           \/ ReleaseCommit
  BY DEF Next, RequestPhaseA, RequestPhaseB, WorkerPoll, Reconcile, SchedulerStep,
       RejectConfirm, ConfirmPayment, StartRun, StartRunFails, PrepareSucceeds,
       PrepareFails, PrepareUncertain, FailPaidPurchase, MarkProvisionPending,
       MarkRunPendingManual, AcquireLock, AcquireLockFails, CheckUnresolved,
       PreCommitFails, FirstCommit, ProbeFirstCommit, ProbeFirstCommitFails,
       CompensateUser, CompensateUserFails, ClaimInSession, Claim,
       WorkerAcquireLock, WorkerClaim, WorkerFindsNothing, Apply, ApplyFails,
       Finalize, ProbeFinalization, MarkFinalizationUnknown, RecordFailure,
       EnterGrace, Expire, ReleaseAcquireLock, ReleaseCheck, ReleaseCommit, Abort,
       business, rows, jobs

\* The accounting user is created in phase A and disabled before the commit.
LEMMA UserWriters ==
    ASSUME Next
    PROVE  \/ UNCHANGED user
           \/ \E r \in Requests :
                 \/ PrepareSucceeds(r) \/ PrepareFails(r) \/ PrepareUncertain(r)
                 \/ CompensateUser(r) \/ CompensateUserFails(r)
  BY DEF Next, RequestPhaseA, RequestPhaseB, WorkerPoll, Reconcile, SchedulerStep,
       RejectConfirm, ConfirmPayment, StartRun, StartRunFails, PrepareSucceeds,
       PrepareFails, PrepareUncertain, FailPaidPurchase, MarkProvisionPending,
       MarkRunPendingManual, AcquireLock, AcquireLockFails, CheckUnresolved,
       PreCommitFails, FirstCommit, ProbeFirstCommit, ProbeFirstCommitFails,
       CompensateUser, CompensateUserFails, ClaimInSession, Claim,
       WorkerAcquireLock, WorkerClaim, WorkerFindsNothing, Apply, ApplyFails,
       Finalize, ProbeFinalization, MarkFinalizationUnknown, RecordFailure,
       EnterGrace, Expire, ReleaseAcquireLock, ReleaseCheck, ReleaseCommit, Abort,
       business, rows, jobs

\* Only the two outcomes of an apply touch the runtime.
LEMMA RuntimeWriters ==
    ASSUME Next
    PROVE  \/ UNCHANGED runtime
           \/ \E p \in Requests \cup Workers : Apply(p) \/ ApplyFails(p)
  BY DEF Next, RequestPhaseA, RequestPhaseB, WorkerPoll, Reconcile, SchedulerStep,
       RejectConfirm, ConfirmPayment, StartRun, StartRunFails, PrepareSucceeds,
       PrepareFails, PrepareUncertain, FailPaidPurchase, MarkProvisionPending,
       MarkRunPendingManual, AcquireLock, AcquireLockFails, CheckUnresolved,
       PreCommitFails, FirstCommit, ProbeFirstCommit, ProbeFirstCommitFails,
       CompensateUser, CompensateUserFails, ClaimInSession, Claim,
       WorkerAcquireLock, WorkerClaim, WorkerFindsNothing, Apply, ApplyFails,
       Finalize, ProbeFinalization, MarkFinalizationUnknown, RecordFailure,
       EnterGrace, Expire, ReleaseAcquireLock, ReleaseCheck, ReleaseCommit, Abort,
       business, rows, jobs

\* The subscription's status changes at payment, failure, finalization, expiry.
LEMMA SubWriters ==
    ASSUME Next
    PROVE  \/ UNCHANGED sub
           \/ \E r \in Requests : ConfirmPayment(r) \/ FailPaidPurchase(r)
           \/ \E p \in Requests \cup Workers : Finalize(p)
           \/ \E o \in Orders : EnterGrace(o) \/ Expire(o)
  BY DEF Next, RequestPhaseA, RequestPhaseB, WorkerPoll, Reconcile, SchedulerStep,
       RejectConfirm, ConfirmPayment, StartRun, StartRunFails, PrepareSucceeds,
       PrepareFails, PrepareUncertain, FailPaidPurchase, MarkProvisionPending,
       MarkRunPendingManual, AcquireLock, AcquireLockFails, CheckUnresolved,
       PreCommitFails, FirstCommit, ProbeFirstCommit, ProbeFirstCommitFails,
       CompensateUser, CompensateUserFails, ClaimInSession, Claim,
       WorkerAcquireLock, WorkerClaim, WorkerFindsNothing, Apply, ApplyFails,
       Finalize, ProbeFinalization, MarkFinalizationUnknown, RecordFailure,
       EnterGrace, Expire, ReleaseAcquireLock, ReleaseCheck, ReleaseCommit, Abort,
       business, rows, jobs

\* An endpoint is taken by a successful or uncertain phase A; every other
\* writer of alloc drops the request's own.
LEMMA AllocWriters ==
    ASSUME Next
    PROVE  \/ UNCHANGED alloc
           \/ \E r \in Requests : PrepareSucceeds(r) \/ PrepareUncertain(r)
           \/ \E r \in Requests : RollbackAlloc(r)
           \/ \E p \in Procs : Abort(p)
  BY DEF Next, RequestPhaseA, RequestPhaseB, WorkerPoll, Reconcile, SchedulerStep,
       RejectConfirm, ConfirmPayment, StartRun, StartRunFails, PrepareSucceeds,
       PrepareFails, PrepareUncertain, FailPaidPurchase, MarkProvisionPending,
       MarkRunPendingManual, AcquireLock, AcquireLockFails, CheckUnresolved,
       PreCommitFails, FirstCommit, ProbeFirstCommit, ProbeFirstCommitFails,
       CompensateUser, CompensateUserFails, ClaimInSession, Claim,
       WorkerAcquireLock, WorkerClaim, WorkerFindsNothing, Apply, ApplyFails,
       Finalize, ProbeFinalization, MarkFinalizationUnknown, RecordFailure,
       EnterGrace, Expire, ReleaseAcquireLock, ReleaseCheck, ReleaseCommit, Abort,
       business, rows, jobs, RollbackAlloc

\* A step into the named lock takes it when it is free; every other step of a
\* handler inside it keeps it or gives it back by leaving.
LEMMA LockStep == ASSUME IInv, Next PROVE LockInv'
<1> USE ProcFacts DEF IInv, TypeOK, LockInv, HeldPC, Leave, Goto, At
<1>1. ASSUME NEW r \in Requests, RequestPhaseA(r) PROVE LockInv'
  BY <1>1 DEF RequestPhaseA, RejectConfirm, ConfirmPayment, StartRun, StartRunFails,
       PrepareSucceeds, PrepareFails, PrepareUncertain, FailPaidPurchase,
       MarkProvisionPending, MarkRunPendingManual
<1>2. ASSUME NEW r \in Requests, RequestPhaseB(r) PROVE LockInv'
  BY <1>2 DEF RequestPhaseB, AcquireLock, AcquireLockFails, CheckUnresolved,
       PreCommitFails, FirstCommit, ProbeFirstCommit, ProbeFirstCommitFails,
       CompensateUser, CompensateUserFails, ClaimInSession, Claim
<1>3. ASSUME NEW w \in Workers, WorkerPoll(w) PROVE LockInv'
  BY <1>3 DEF WorkerPoll, WorkerAcquireLock, WorkerClaim, WorkerFindsNothing, Claim
<1>4. ASSUME NEW p \in Requests \cup Workers, Reconcile(p) PROVE LockInv'
  BY <1>4 DEF Reconcile, Apply, ApplyFails, Finalize, ProbeFinalization,
       MarkFinalizationUnknown, RecordFailure
<1>5. ASSUME SchedulerStep PROVE LockInv'
  BY <1>5 DEF SchedulerStep, EnterGrace, Expire, ReleaseAcquireLock, ReleaseCheck, ReleaseCommit
<1>6. ASSUME NEW p \in Procs, Abort(p) PROVE LockInv'
  BY <1>6 DEF Abort
<1>7. QED BY <1>1, <1>2, <1>3, <1>4, <1>5, <1>6 DEF Next

\* Every handler stays within its own steps.
LEMMA RoleStep == ASSUME IInv, Next PROVE RoleInv'
<1> USE ProcFacts DEF IInv, TypeOK, RoleInv, RequestPC, ReconcilePC, Leave, Goto, At
<1>1. ASSUME NEW r \in Requests, RequestPhaseA(r) PROVE RoleInv'
  BY <1>1 DEF RequestPhaseA, RejectConfirm, ConfirmPayment, StartRun, StartRunFails,
       PrepareSucceeds, PrepareFails, PrepareUncertain, FailPaidPurchase,
       MarkProvisionPending, MarkRunPendingManual
<1>2. ASSUME NEW r \in Requests, RequestPhaseB(r) PROVE RoleInv'
  BY <1>2 DEF RequestPhaseB, AcquireLock, AcquireLockFails, CheckUnresolved,
       PreCommitFails, FirstCommit, ProbeFirstCommit, ProbeFirstCommitFails,
       CompensateUser, CompensateUserFails, ClaimInSession, Claim
<1>3. ASSUME NEW w \in Workers, WorkerPoll(w) PROVE RoleInv'
  BY <1>3 DEF WorkerPoll, WorkerAcquireLock, WorkerClaim, WorkerFindsNothing, Claim
<1>4. ASSUME NEW p \in Requests \cup Workers, Reconcile(p) PROVE RoleInv'
  BY <1>4 DEF Reconcile, Apply, ApplyFails, Finalize, ProbeFinalization,
       MarkFinalizationUnknown, RecordFailure
<1>5. ASSUME SchedulerStep PROVE RoleInv'
  BY <1>5 DEF SchedulerStep, EnterGrace, Expire, ReleaseAcquireLock, ReleaseCheck, ReleaseCommit
<1>6. ASSUME NEW p \in Procs, Abort(p) PROVE RoleInv'
  BY <1>6 DEF Abort
<1>7. QED BY <1>1, <1>2, <1>3, <1>4, <1>5, <1>6 DEF Next

\* What the scheduler knows when it commits a release: the order it works on
\* has a binding, whose endpoint is ASSIGNED.
LEMMA ReleaseFacts ==
    ASSUME IInv, ReleaseCommit
    PROVE  \E o \in Orders : /\ binding[o] \in Endpoints
                             /\ cur[Scheduler] = o
                             /\ ep[binding[o]] = "ASSIGNED"
<1>1. cur[Scheduler] \in Orders /\ binding[cur[Scheduler]] # NULL
  BY DEF IInv, HolderInv, ReleaseCommit, At
<1>2. QED BY <1>1 DEF IInv, TypeOK, RowInv, EndpointsDedicated

\* Outside the two enqueuing commits, a step moves at most one job, and one
\* that exists; it leaves it unresolved, or finalized by the step itself.
LEMMA JobMoves ==
    ASSUME IInv, Next
    PROVE  \/ UNCHANGED jobs
           \/ \E r \in Requests : FirstCommit(r)
           \/ ReleaseCommit
           \/ /\ UNCHANGED rows
              /\ \E k \in JobKeys :
                    /\ job[k] # "NONE" /\ job'[k] # "NONE"
                    /\ \A l \in JobKeys : l # k => job'[l] = job[l]
                    /\ \A l \in JobKeys : l # k => attempts'[l] = attempts[l]
<1> USE DEF IInv, At
<1>1. ASSUME NEW r \in Requests, ClaimInSession(r)
      PROVE  /\ UNCHANGED rows
             /\ \E k \in JobKeys :
                    /\ job[k] # "NONE" /\ job'[k] # "NONE"
                    /\ \A l \in JobKeys : l # k => job'[l] = job[l]
                    /\ \A l \in JobKeys : l # k => attempts'[l] = attempts[l]
  <2> DEFINE k == PurchaseJob(OrderOf[r])
  <2>1. k \in JobKeys /\ job[k] = "PENDING"
    BY <1>1, ProcFacts, KeyFacts DEF HolderInv, ClaimInSession
  <2>2. QED BY <1>1, <2>1 DEF TypeOK, ClaimInSession, Claim
<1>2. ASSUME NEW w \in Workers, WorkerClaim(w)
      PROVE  /\ UNCHANGED rows
             /\ \E k \in JobKeys :
                    /\ job[k] # "NONE" /\ job'[k] # "NONE"
                    /\ \A l \in JobKeys : l # k => job'[l] = job[l]
                    /\ \A l \in JobKeys : l # k => attempts'[l] = attempts[l]
  BY <1>2 DEF TypeOK, WorkerClaim, Claimable, Claim
<1>3. ASSUME NEW p \in Requests \cup Workers,
             Finalize(p) \/ MarkFinalizationUnknown(p) \/ RecordFailure(p)
      PROVE  \/ UNCHANGED jobs
             \/ /\ UNCHANGED rows
                /\ \E k \in JobKeys :
                    /\ job[k] # "NONE" /\ job'[k] # "NONE"
                    /\ \A l \in JobKeys : l # k => job'[l] = job[l]
                    /\ \A l \in JobKeys : l # k => attempts'[l] = attempts[l]
  <2>1. cur[p] \in JobKeys /\ job[cur[p]] # "NONE"
    BY <1>3, ProcFacts DEF HolderInv, ReconcilePC, Finalize, MarkFinalizationUnknown,
         RecordFailure
  <2>2. UNCHANGED rows /\ UNCHANGED attempts
    BY <1>3 DEF Finalize, MarkFinalizationUnknown, RecordFailure
  <2>3. \/ UNCHANGED job
        \/ \E t \in {"SUCCEEDED", "REVIEW", "FAILED"} : job' = [job EXCEPT ![cur[p]] = t]
    BY <1>3 DEF Finalize, FinalizedRows, MarkFinalizationUnknown, RecordFailure
  <2>4. QED BY <2>1, <2>2, <2>3 DEF TypeOK, jobs
<1>4. QED BY <1>1, <1>2, <1>3, JobWriters

\* At most one request holds an endpoint, and the one it holds is AVAILABLE.
LEMMA AllocStep == ASSUME IInv, Next PROVE AllocInv'
<1> USE DEF IInv, AllocInv
<1>1. ASSUME NEW r \in Requests, PrepareSucceeds(r) \/ PrepareUncertain(r)
      PROVE  AllocInv'
  BY <1>1 DEF TypeOK, PrepareSucceeds, PrepareUncertain, NoAllocation, FirstAvailable, rows
<1>2. ASSUME NEW r \in Requests, MarkProvisionPending(r) \/ FirstCommit(r)
      PROVE  AllocInv'
  BY <1>2 DEF TypeOK, MarkProvisionPending, FirstCommit, RollbackAlloc, rows
<1>3. ASSUME ReleaseCommit PROVE AllocInv'
  <2>1. PICK o \in Orders : cur[Scheduler] = o /\ ep[binding[o]] = "ASSIGNED"
    BY <1>3, ReleaseFacts
  <2>2. QED BY <1>3, <2>1 DEF TypeOK, ReleaseCommit
<1>4. ASSUME UNCHANGED rows, NEW r \in Requests, RollbackAlloc(r) PROVE AllocInv'
  BY <1>4 DEF TypeOK, RollbackAlloc, rows
<1>5. ASSUME NEW p \in Procs, Abort(p) PROVE AllocInv'
  BY <1>5 DEF TypeOK, Abort, rows
<1>6. ASSUME UNCHANGED rows, UNCHANGED alloc PROVE AllocInv'
  BY <1>6 DEF rows
<1>7. QED BY <1>1, <1>2, <1>3, <1>4, <1>5, <1>6, RowWriters, AllocWriters

\* Endpoints stay dedicated, and a RELEASE job's endpoint stays quarantined.
LEMMA RowStep == ASSUME IInv, Next PROVE RowInv'
<1> USE DEF IInv
<1>1. ASSUME NEW r \in Requests, MarkProvisionPending(r) PROVE RowInv'
  BY <1>1, ProcFacts DEF TypeOK, AllocInv, RowInv, EndpointsDedicated,
       MarkProvisionPending, rows, jobs
<1>2. ASSUME NEW r \in Requests, FirstCommit(r) PROVE RowInv'
  <2>1. CASE UNCHANGED <<rows, job>>
    BY <2>1 DEF RowInv, EndpointsDedicated, rows
  <2> DEFINE o == OrderOf[r]
  <2>2. CASE /\ ep' = [ep EXCEPT ![alloc[r]] = "ASSIGNED"]
             /\ binding' = [binding EXCEPT ![o] = alloc[r]]
             /\ route' = [route EXCEPT ![o] = alloc[r]]
             /\ Enqueue(PurchaseJob(o))
    <3>1. o \in Orders /\ alloc[r] \in Endpoints /\ ep[alloc[r]] = "AVAILABLE"
      BY <1>2, ProcFacts DEF TypeOK, OwnerInv, AllocInv, FirstCommit, At
    <3>2. EndpointsDedicated'
      BY <2>2, <3>1, ProcFacts DEF TypeOK, RowInv, EndpointsDedicated
    <3>3. ASSUME NEW q \in Orders, NEW e \in Endpoints
          PROVE  job'[ReleaseJob(q, e)] = job[ReleaseJob(q, e)]
      <4>1. /\ ReleaseJob(q, e) \in JobKeys
            /\ ReleaseJob(q, e) # PurchaseJob(o)
        BY <3>1, KeysDiffer
      <4>2. QED BY <2>2, <4>1 DEF TypeOK, Enqueue
    <3>4. QED BY <2>2, <3>1, <3>2, <3>3 DEF TypeOK, RowInv
  <2>3. QED BY <1>2, <2>1, <2>2 DEF FirstCommit
<1>3. ASSUME ReleaseCommit PROVE RowInv'
  <2>1. PICK o \in Orders :
           /\ binding[o] \in Endpoints
           /\ cur[Scheduler] = o
           /\ ep[binding[o]] = "ASSIGNED"
    BY <1>3, ReleaseFacts
  <2>2. EndpointsDedicated'
    BY <1>3, <2>1, ProcFacts DEF TypeOK, RowInv, EndpointsDedicated, ReleaseCommit
  <2>3. ASSUME NEW q \in Orders, NEW e \in Endpoints, job'[ReleaseJob(q, e)] # "NONE"
        PROVE  ep'[e] = "QUARANTINED"
    <3>1. ep' = [ep EXCEPT ![binding[o]] = "QUARANTINED"]
      BY <1>3, <2>1 DEF ReleaseCommit
    <3>2. CASE e = binding[o]
      BY <2>1, <3>1, <3>2 DEF TypeOK
    <3>3. CASE e # binding[o]
      <4>1. /\ ReleaseJob(q, e) \in JobKeys
            /\ ReleaseJob(q, e) # ReleaseJob(o, binding[o])
        BY <2>1, <3>3, KeysDiffer
      <4>2. job'[ReleaseJob(q, e)] = job[ReleaseJob(q, e)]
        BY <1>3, <2>1, <4>1 DEF TypeOK, ReleaseCommit, Enqueue
      <4>3. QED BY <2>3, <3>1, <3>3, <4>2 DEF TypeOK, RowInv
    <3>4. QED BY <3>2, <3>3
  <2>4. QED BY <2>2, <2>3 DEF RowInv
<1>4. ASSUME UNCHANGED rows, NEW k \in JobKeys, job[k] # "NONE",
             \A l \in JobKeys : l # k => job'[l] = job[l]
      PROVE  RowInv'
  BY <1>4, KeyFacts DEF RowInv, EndpointsDedicated, rows
<1>5. ASSUME UNCHANGED rows, UNCHANGED jobs PROVE RowInv'
  BY <1>5 DEF RowInv, EndpointsDedicated, rows, jobs
<1>6. QED BY <1>1, <1>2, <1>3, <1>4, <1>5, RowWriters, JobMoves

\* A routed order keeps its enabled user, and a purchase job implies a user.
LEMMA UserStep == ASSUME IInv, Next PROVE UserInv'
<1> USE DEF IInv, At
<1>1. ASSUME NEW r \in Requests,
             PrepareSucceeds(r) \/ PrepareFails(r) \/ PrepareUncertain(r)
      PROVE  UserInv'
  BY <1>1, ProcFacts DEF TypeOK, UserInv, RouteKeepsUser, PrepareSucceeds, PrepareFails,
       PrepareUncertain, rows, jobs
<1>2. ASSUME NEW r \in Requests, CompensateUser(r) \/ CompensateUserFails(r)
      PROVE  UserInv'
  BY <1>2, ProcFacts DEF TypeOK, UserInv, RouteKeepsUser, OwnerInv, CompensateUser,
       CompensateUserFails, rows, jobs
<1>3. ASSUME NEW r \in Requests, FirstCommit(r) PROVE UserInv'
  <2>1. OrderOf[r] \in Orders /\ user[OrderOf[r]] = "enabled" /\ UNCHANGED user
    BY <1>3, ProcFacts DEF OwnerInv, OwnerPC, FirstCommit
  <2>2. ASSUME NEW o \in Orders, o # OrderOf[r]
        PROVE  route'[o] = route[o] /\ job'[PurchaseJob(o)] = job[PurchaseJob(o)]
    <3>1. PurchaseJob(o) # PurchaseJob(OrderOf[r])
      BY <2>1, <2>2 DEF PurchaseJob
    <3>2. PurchaseJob(o) \in JobKeys
      BY KeyFacts
    <3>3. QED BY <1>3, <2>1, <2>2, <3>1, <3>2 DEF TypeOK, FirstCommit, Enqueue, rows
  <2>3. QED BY <2>1, <2>2 DEF UserInv, RouteKeepsUser
<1>4. ASSUME ReleaseCommit PROVE UserInv'
  <2>1. PICK o \in Orders : /\ binding[o] \in Endpoints
                            /\ cur[Scheduler] = o
    BY <1>4, ReleaseFacts
  <2>2. ASSUME NEW q \in Orders
        PROVE  /\ job'[PurchaseJob(q)] = job[PurchaseJob(q)]
               /\ route'[q] # NULL => route'[q] = route[q]
    <3>1. PurchaseJob(q) \in JobKeys /\ PurchaseJob(q) # ReleaseJob(o, binding[o])
      BY <2>1, KeyFacts, KeysDiffer
    <3>2. QED BY <1>4, <2>1, <3>1 DEF TypeOK, ReleaseCommit, Enqueue
  <2>3. QED BY <1>4, <2>2 DEF UserInv, RouteKeepsUser, ReleaseCommit
<1>5. ASSUME UNCHANGED user, UNCHANGED route,
             \A k \in JobKeys : job'[k] # "NONE" => job[k] # "NONE"
      PROVE  UserInv'
  BY <1>5, KeyFacts DEF UserInv, RouteKeepsUser
<1>6. ASSUME NEW r \in Requests, MarkProvisionPending(r)
      PROVE  UNCHANGED route /\ UNCHANGED jobs
  BY <1>6 DEF MarkProvisionPending, rows
<1>7. QED
  BY <1>1, <1>2, <1>3, <1>4, <1>5, <1>6, UserWriters, RowWriters, JobMoves
  DEF rows, jobs

\* How a request comes to stand at a step where its order's user is its own:
\* through a successful phase A, and to the compensation only when nothing of
\* its commit is in the database.
LEMMA OwnerEntry ==
    ASSUME IInv, Next, NEW q \in Requests
    PROVE  /\ pc'[q] \in OwnerPC => pc[q] \in OwnerPC \/ PrepareSucceeds(q)
           /\ pc'[q] \in {"prepared", "locked", "checked"} =>
                 \/ PrepareSucceeds(q)
                 \/ /\ pc[q] \in {"prepared", "locked", "checked"}
                    /\ alloc'[q] = alloc[q]
           /\ pc'[q] = "preGateway" =>
                 \/ pc[q] \in {"prepared", "locked", "checked", "preGateway"}
                 \/ /\ pc[q] = "firstProbe" /\ UNCHANGED <<rows, jobs>>
                    /\ FirstCommitOutcome(OrderOf[q]) = "ABSENT"
  BY ProcFacts, SMTT(30) DEF IInv, TypeOK, OwnerPC, Leave, Goto, At, RollbackAlloc,
       Next, RequestPhaseA, RequestPhaseB, WorkerPoll, Reconcile, SchedulerStep,
       RejectConfirm, ConfirmPayment, StartRun, StartRunFails, PrepareSucceeds,
       PrepareFails, PrepareUncertain, FailPaidPurchase, MarkProvisionPending,
       MarkRunPendingManual, AcquireLock, AcquireLockFails, CheckUnresolved,
       PreCommitFails, FirstCommit, ProbeFirstCommit, ProbeFirstCommitFails,
       CompensateUser, CompensateUserFails, ClaimInSession, Claim,
       WorkerAcquireLock, WorkerClaim, WorkerFindsNothing, Apply, ApplyFails,
       Finalize, ProbeFinalization, MarkFinalizationUnknown, RecordFailure,
       EnterGrace, Expire, ReleaseAcquireLock, ReleaseCheck, ReleaseCommit, Abort

\* One request at a time owns an order's user, and it owns it enabled, with
\* nothing of the order in the database before its own commit.
LEMMA OwnerStep == ASSUME IInv, Next PROVE OwnerInv'
<1> USE DEF IInv
<1>1. ASSUME NEW r \in Requests, NEW q \in Requests,
             pc'[r] \in OwnerPC, pc'[q] \in OwnerPC, OrderOf[r] = OrderOf[q]
      PROVE  r = q
  <2>1. ASSUME PrepareSucceeds(r), PrepareSucceeds(q) PROVE r = q
    BY <2>1, ProcFacts DEF TypeOK, PrepareSucceeds, Goto, At
  <2>2. ASSUME NEW x \in Requests, NEW y \in Requests, PrepareSucceeds(x),
               pc[y] \in OwnerPC, OrderOf[x] = OrderOf[y]
        PROVE  FALSE
    BY <2>2 DEF OwnerInv, PrepareSucceeds
  <2>3. QED BY <1>1, <2>1, <2>2, OwnerEntry DEF OwnerInv
<1>2. ASSUME NEW q \in Requests, pc'[q] \in OwnerPC PROVE user'[OrderOf[q]] = "enabled"
  <2>1. CASE PrepareSucceeds(q)
    BY <2>1, ProcFacts DEF TypeOK, PrepareSucceeds
  <2>2. CASE pc[q] \in OwnerPC
    <3>1. user[OrderOf[q]] = "enabled"
      BY <2>2 DEF OwnerInv
    <3>2. ASSUME NEW r \in Requests,
                 PrepareSucceeds(r) \/ PrepareFails(r) \/ PrepareUncertain(r)
          PROVE  user'[OrderOf[q]] = "enabled"
      BY <3>1, <3>2, ProcFacts DEF TypeOK, PrepareSucceeds, PrepareFails, PrepareUncertain
    <3>3. ASSUME NEW r \in Requests, CompensateUser(r) \/ CompensateUserFails(r)
          PROVE  user'[OrderOf[q]] = "enabled"
      <4>1. pc[r] = "preGateway" /\ pc'[r] \in {"failing", "manual"}
        BY <3>3, ProcFacts DEF TypeOK, CompensateUser, CompensateUserFails, At, Goto
      <4>2. OrderOf[r] # OrderOf[q]
        BY <1>2, <2>2, <4>1 DEF OwnerInv, OwnerPC
      <4>3. QED BY <3>1, <3>3, <4>2, ProcFacts DEF TypeOK, CompensateUser,
                     CompensateUserFails
    <3>4. QED BY <3>1, <3>2, <3>3, UserWriters
  <2>3. QED BY <1>2, <2>1, <2>2, OwnerEntry
<1>3. ASSUME NEW q \in Requests, pc'[q] \in {"prepared", "locked", "checked"}
      PROVE  alloc'[q] # NULL /\ binding'[OrderOf[q]] = NULL
  <2>1. CASE PrepareSucceeds(q)
    BY <2>1, ProcFacts DEF TypeOK, PrepareSucceeds, rows
  <2>2. CASE pc[q] \in {"prepared", "locked", "checked"} /\ alloc'[q] = alloc[q]
    <3>1. alloc[q] # NULL /\ binding[OrderOf[q]] = NULL
      BY <2>2 DEF OwnerInv
    <3>2. ASSUME NEW r \in Requests, MarkProvisionPending(r) \/ FirstCommit(r)
          PROVE  binding'[OrderOf[q]] = NULL
      <4>1. CASE r = q
        <5>1. alloc'[q] = NULL
          BY <3>2, <4>1 DEF TypeOK, MarkProvisionPending, FirstCommit, RollbackAlloc
        <5>2. QED BY <2>2, <3>1, <5>1
      <4>2. CASE r # q
        <5>1. alloc[r] = NULL
          BY <3>1, <4>2 DEF AllocInv
        <5>2. QED BY <3>1, <3>2, <5>1 DEF OwnerInv, MarkProvisionPending, FirstCommit, At,
                       rows
      <4>3. QED BY <4>1, <4>2
    <3>3. ASSUME ReleaseCommit PROVE binding'[OrderOf[q]] = NULL
      BY <3>1, <3>3, ProcFacts DEF TypeOK, ReleaseCommit
    <3>4. QED BY <2>2, <3>1, <3>2, <3>3, RowWriters DEF rows
  <2>3. QED BY <1>3, <2>1, <2>2, OwnerEntry
<1>4. ASSUME NEW q \in Requests, pc'[q] \in {"prepared", "locked", "checked", "preGateway"}
      PROVE  route'[OrderOf[q]] = NULL /\ job'[PurchaseJob(OrderOf[q])] = "NONE"
  <2> DEFINE o == OrderOf[q]
  <2>0. o \in Orders /\ PurchaseJob(o) \in JobKeys
    BY ProcFacts, KeyFacts
  <2>1. CASE PrepareSucceeds(q)
    BY <2>0, <2>1 DEF UserInv, RouteKeepsUser, PrepareSucceeds, rows, jobs
  <2>2. CASE UNCHANGED <<rows, jobs>> /\ FirstCommitOutcome(o) = "ABSENT"
    BY <2>2 DEF FirstCommitOutcome, rows, jobs
  <2>3. CASE pc[q] \in {"prepared", "locked", "checked", "preGateway"}
    <3>1. route[o] = NULL /\ job[PurchaseJob(o)] = "NONE"
      BY <2>3 DEF OwnerInv
    <3>2. ASSUME NEW r \in Requests, FirstCommit(r)
          PROVE  route'[o] = NULL /\ job'[PurchaseJob(o)] = "NONE"
      <4>1. pc[r] = "checked" /\ pc'[r] \in {"committed", "firstProbe"}
        BY <3>2, ProcFacts DEF TypeOK, FirstCommit, At, Goto
      <4>2. OrderOf[r] # o /\ OrderOf[r] \in Orders
        BY <1>4, <2>3, <4>1, ProcFacts DEF OwnerInv, OwnerPC
      <4>3. PurchaseJob(OrderOf[r]) # PurchaseJob(o)
        BY <4>2 DEF PurchaseJob
      <4>4. QED BY <2>0, <3>1, <3>2, <4>2, <4>3 DEF TypeOK, FirstCommit, Enqueue, rows
    <3>3. ASSUME ReleaseCommit PROVE route'[o] = NULL /\ job'[PurchaseJob(o)] = "NONE"
      <4>1. PICK x \in Orders : /\ binding[x] \in Endpoints
                                /\ cur[Scheduler] = x
        BY <3>3, ReleaseFacts
      <4>2. PurchaseJob(o) # ReleaseJob(x, binding[x])
        BY <2>0, <4>1, KeysDiffer
      <4>3. QED BY <2>0, <3>1, <3>3, <4>1, <4>2 DEF TypeOK, ReleaseCommit, Enqueue
    <3>4. ASSUME UNCHANGED route,
                 \A k \in JobKeys : job[k] = "NONE" => job'[k] = "NONE"
          PROVE  route'[o] = NULL /\ job'[PurchaseJob(o)] = "NONE"
      BY <2>0, <3>1, <3>4
    <3>5. ASSUME NEW r \in Requests, MarkProvisionPending(r)
          PROVE  UNCHANGED route /\ UNCHANGED jobs
      BY <3>5 DEF MarkProvisionPending, rows
    <3>6. QED BY <3>2, <3>3, <3>4, <3>5, RowWriters, JobMoves DEF rows, jobs
  <2>4. QED BY <1>4, <2>1, <2>2, <2>3, OwnerEntry
<1>5. QED BY <1>1, <1>2, <1>3, <1>4 DEF OwnerInv

\* Every job a step leaves unresolved is the one job its process is at, or
\* was unresolved before.
LEMMA UnresolvedStep ==
    ASSUME IInv, Next
    PROVE  \/ UNCHANGED jobs
           \/ \E r \in Requests :
                 /\ pc[r] \in {"checked", "committed"}
                 /\ Unresolved' \subseteq {PurchaseJob(OrderOf[r])}
                 /\ route'[OrderOf[r]] # NULL
                 /\ \A k \in JobKeys : job'[k] = "NONE" => attempts'[k] = 0
           \/ \E k \in JobKeys :
                 /\ UNCHANGED route
                 /\ Unresolved' \subseteq {k}
                 /\ \A o \in Orders : k = PurchaseJob(o) => route[o] # NULL
                 /\ \A l \in JobKeys : job'[l] = "NONE" => attempts'[l] = 0
           \/ \E o \in Orders, e \in Endpoints :
                 /\ Unresolved' \subseteq {ReleaseJob(o, e)}
                 /\ \A k \in JobKeys : job'[k] = "NONE" => attempts'[k] = 0
<1> USE DEF IInv, At
<1>1. ASSUME NEW r \in Requests, FirstCommit(r), ~UNCHANGED jobs
      PROVE  /\ pc[r] = "checked"
             /\ Unresolved' \subseteq {PurchaseJob(OrderOf[r])}
             /\ route'[OrderOf[r]] # NULL
             /\ \A k \in JobKeys : job'[k] = "NONE" => attempts'[k] = 0
  <2> DEFINE o == OrderOf[r]
  <2>1. pc[r] = "checked" /\ Unresolved = {} /\ alloc[r] \in Endpoints /\ o \in Orders
    BY <1>1, ProcFacts DEF TypeOK, FirstCommit, HolderInv, OwnerInv
  <2>2. Enqueue(PurchaseJob(o)) /\ route' = [route EXCEPT ![o] = alloc[r]]
        /\ UNCHANGED attempts
    BY <1>1 DEF FirstCommit, jobs
  <2>3. Unresolved' \subseteq {PurchaseJob(o)}
    BY <2>1, <2>2 DEF TypeOK, Unresolved, Enqueue
  <2>4. \A k \in JobKeys : job'[k] = "NONE" => attempts'[k] = 0
    BY <2>2 DEF TypeOK, JobInv, Enqueue
  <2>5. QED BY <2>1, <2>2, <2>3, <2>4, ProcFacts DEF TypeOK
<1>2. ASSUME NEW r \in Requests, ClaimInSession(r)
      PROVE  /\ pc[r] = "committed"
             /\ Unresolved' \subseteq {PurchaseJob(OrderOf[r])}
             /\ route'[OrderOf[r]] # NULL
             /\ \A k \in JobKeys : job'[k] = "NONE" => attempts'[k] = 0
  <2> DEFINE k == PurchaseJob(OrderOf[r])
  <2>1. /\ pc[r] = "committed" /\ Unresolved \subseteq {k} /\ job[k] = "PENDING"
        /\ k \in JobKeys /\ OrderOf[r] \in Orders
    BY <1>2, ProcFacts, KeyFacts DEF ClaimInSession, HolderInv
  <2>2. k \in Unresolved
    BY <2>1 DEF Unresolved
  <2>3. route[OrderOf[r]] # NULL
    BY <2>1, <2>2 DEF JobInv
  <2>4. Unresolved' \subseteq {k}
    BY <1>2, <2>1 DEF TypeOK, Unresolved, ClaimInSession, Claim
  <2>5. \A l \in JobKeys : job'[l] = "NONE" => attempts'[l] = 0
    BY <1>2, <2>1 DEF TypeOK, JobInv, ClaimInSession, Claim
  <2>6. QED BY <1>2, <2>1, <2>3, <2>4, <2>5 DEF ClaimInSession, Claim, rows
<1>3. ASSUME NEW w \in Workers, WorkerClaim(w)
      PROVE  \E k \in JobKeys :
                /\ UNCHANGED route
                /\ Unresolved' \subseteq {k}
                /\ \A o \in Orders : k = PurchaseJob(o) => route[o] # NULL
                /\ \A l \in JobKeys : job'[l] = "NONE" => attempts'[l] = 0
  <2>1. PICK k \in JobKeys : Claimable(k) /\ Claim(w, k)
    BY <1>3 DEF WorkerClaim
  <2>2. k \in Unresolved
    BY <2>1 DEF Unresolved, Claimable
  <2>3. Unresolved \subseteq {k}
    BY <2>2 DEF JobInv, OneUnresolved, Unresolved
  <2>4. Unresolved' \subseteq {k}
    BY <2>1, <2>3 DEF TypeOK, Unresolved, Claim
  <2>5. \A o \in Orders : k = PurchaseJob(o) => route[o] # NULL
    BY <2>2 DEF JobInv
  <2>6. \A l \in JobKeys : job'[l] = "NONE" => attempts'[l] = 0
    BY <2>1, <2>2 DEF TypeOK, JobInv, Unresolved, Claim
  <2>7. QED BY <2>1, <2>4, <2>5, <2>6 DEF Claim, rows
<1>4. ASSUME NEW p \in Requests \cup Workers,
             Finalize(p) \/ MarkFinalizationUnknown(p) \/ RecordFailure(p)
      PROVE  \E k \in JobKeys :
                /\ UNCHANGED route
                /\ Unresolved' \subseteq {k}
                /\ \A o \in Orders : k = PurchaseJob(o) => route[o] # NULL
                /\ \A l \in JobKeys : job'[l] = "NONE" => attempts'[l] = 0
  <2>1. /\ cur[p] \in JobKeys /\ job[cur[p]] # "NONE" /\ Unresolved \subseteq {cur[p]}
        /\ \A o \in Orders : cur[p] = PurchaseJob(o) => route[o] # NULL
    BY <1>4, ProcFacts DEF HolderInv, ReconcilePC, Finalize, MarkFinalizationUnknown,
         RecordFailure
  <2>2. UNCHANGED route /\ UNCHANGED attempts
    BY <1>4 DEF Finalize, MarkFinalizationUnknown, RecordFailure, rows
  <2>3. \/ UNCHANGED job
        \/ \E t \in {"SUCCEEDED", "REVIEW", "FAILED"} : job' = [job EXCEPT ![cur[p]] = t]
    BY <1>4 DEF Finalize, FinalizedRows, MarkFinalizationUnknown, RecordFailure
  <2>4. Unresolved' \subseteq {cur[p]}
    BY <2>1, <2>3 DEF TypeOK, Unresolved
  <2>5. \A l \in JobKeys : job'[l] = "NONE" => attempts'[l] = 0
    BY <2>1, <2>2, <2>3 DEF TypeOK, JobInv
  <2>6. QED BY <2>1, <2>2, <2>4, <2>5
<1>5. ASSUME ReleaseCommit
      PROVE  \E o \in Orders, e \in Endpoints :
                /\ Unresolved' \subseteq {ReleaseJob(o, e)}
                /\ \A k \in JobKeys : job'[k] = "NONE" => attempts'[k] = 0
  <2>1. PICK o \in Orders : /\ binding[o] \in Endpoints
                            /\ cur[Scheduler] = o
    BY <1>5, ReleaseFacts
  <2>2. Unresolved = {}
    BY <1>5, ProcFacts DEF HolderInv, ReleaseCommit
  <2>3. Unresolved' \subseteq {ReleaseJob(o, binding[o])}
    BY <1>5, <2>1, <2>2 DEF TypeOK, Unresolved, ReleaseCommit, Enqueue
  <2>4. \A k \in JobKeys : job'[k] = "NONE" => attempts'[k] = 0
    BY <1>5 DEF TypeOK, JobInv, ReleaseCommit, Enqueue
  <2>5. QED BY <2>1, <2>3, <2>4
<1>6. QED BY <1>1, <1>2, <1>3, <1>4, <1>5, JobWriters

\* At most one job is unresolved, and a purchase's is for a committed route.
LEMMA JobStep == ASSUME IInv, Next PROVE JobInv'
<1> USE DEF IInv
<1>1. ASSUME UNCHANGED jobs PROVE JobInv'
  <2>1. UNCHANGED Unresolved /\ UNCHANGED <<job, attempts>>
    BY <1>1 DEF Unresolved, jobs
  <2>2. ASSUME NEW o \in Orders, PurchaseJob(o) \in Unresolved PROVE route'[o] # NULL
    <3>1. route[o] # NULL
      BY <2>2 DEF JobInv
    <3>2. ASSUME NEW r \in Requests, FirstCommit(r) PROVE route'[o] # NULL
      <4>1. alloc[r] # NULL
        BY <3>2 DEF OwnerInv, FirstCommit, At
      <4>2. QED BY <3>1, <3>2, <4>1 DEF TypeOK, FirstCommit, rows
    <3>3. ASSUME NEW r \in Requests, MarkProvisionPending(r) PROVE route'[o] # NULL
      BY <3>1, <3>3 DEF MarkProvisionPending, rows
    <3>4. ASSUME ReleaseCommit PROVE FALSE
      BY <2>2, <3>4, ProcFacts DEF HolderInv, ReleaseCommit, At
    <3>5. QED BY <3>1, <3>2, <3>3, <3>4, RowWriters DEF rows
  <2>3. QED BY <2>1, <2>2 DEF JobInv, OneUnresolved
<1>2. ASSUME NEW k, Unresolved' \subseteq {k},
             \A o \in Orders : k = PurchaseJob(o) => route'[o] # NULL,
             \A l \in JobKeys : job'[l] = "NONE" => attempts'[l] = 0
      PROVE  JobInv'
  BY <1>2 DEF JobInv, OneUnresolved
<1>3. ASSUME NEW r \in Requests, NEW o \in Orders,
             PurchaseJob(OrderOf[r]) = PurchaseJob(o)
      PROVE  o = OrderOf[r]
  BY <1>3 DEF PurchaseJob
<1>4. ASSUME NEW q \in Orders, NEW e \in Endpoints, NEW o \in Orders
      PROVE  ReleaseJob(q, e) # PurchaseJob(o)
  BY KeysDiffer
<1>5. QED BY <1>1, <1>2, <1>3, <1>4, UnresolvedStep

\* While a process stands still inside the lock, nobody else writes jobs,
\* routes or the runtime.
LEMMA HolderFrame ==
    ASSUME IInv, Next, NEW p \in Procs, pc[p] \in HeldPC, pc'[p] = pc[p]
    PROVE  UNCHANGED <<job, attempts, route, runtime>> /\ cur'[p] = cur[p]
<1> USE ProcFacts DEF IInv, TypeOK, LockInv, HeldPC, Leave, Goto, At, jobs, rows
<1>1. ASSUME NEW r \in Requests, RequestPhaseA(r)
      PROVE  UNCHANGED <<job, attempts, route, runtime>> /\ cur'[p] = cur[p]
  BY <1>1 DEF RequestPhaseA, RejectConfirm, ConfirmPayment, StartRun, StartRunFails,
       PrepareSucceeds, PrepareFails, PrepareUncertain, FailPaidPurchase,
       MarkProvisionPending, MarkRunPendingManual
<1>2. ASSUME NEW r \in Requests, RequestPhaseB(r)
      PROVE  UNCHANGED <<job, attempts, route, runtime>> /\ cur'[p] = cur[p]
  BY <1>2 DEF RequestPhaseB, AcquireLock, AcquireLockFails, CheckUnresolved,
       PreCommitFails, FirstCommit, ProbeFirstCommit, ProbeFirstCommitFails,
       CompensateUser, CompensateUserFails, ClaimInSession, Claim
<1>3. ASSUME NEW w \in Workers, WorkerPoll(w)
      PROVE  UNCHANGED <<job, attempts, route, runtime>> /\ cur'[p] = cur[p]
  BY <1>3 DEF WorkerPoll, WorkerAcquireLock, WorkerClaim, WorkerFindsNothing, Claim
<1>4. ASSUME NEW q \in Requests \cup Workers, Reconcile(q)
      PROVE  UNCHANGED <<job, attempts, route, runtime>> /\ cur'[p] = cur[p]
  BY <1>4 DEF Reconcile, Apply, ApplyFails, Finalize, ProbeFinalization,
       MarkFinalizationUnknown, RecordFailure
<1>5. ASSUME SchedulerStep
      PROVE  UNCHANGED <<job, attempts, route, runtime>> /\ cur'[p] = cur[p]
  BY <1>5 DEF SchedulerStep, EnterGrace, Expire, ReleaseAcquireLock, ReleaseCheck, ReleaseCommit
<1>6. ASSUME NEW q \in Procs, Abort(q)
      PROVE  UNCHANGED <<job, attempts, route, runtime>> /\ cur'[p] = cur[p]
  BY <1>6 DEF Abort
<1>7. QED BY <1>1, <1>2, <1>3, <1>4, <1>5, <1>6 DEF Next

\* The runtime differs from the committed routes only while a job says so.
LEMMA ConvergedStep == ASSUME IInv, Next PROVE Converged'
<1> USE DEF IInv
<1>1. SUFFICES ASSUME Unresolved' = {} PROVE runtime' = ActiveRoutes'
  BY DEF Converged
<1>2. ASSUME NEW r \in Requests, FirstCommit(r) PROVE runtime' = ActiveRoutes'
  <2> DEFINE k == PurchaseJob(OrderOf[r])
  <2>1. k \in JobKeys /\ job[k] = "NONE" /\ Unresolved = {}
    BY <1>2, ProcFacts, KeyFacts DEF OwnerInv, HolderInv, FirstCommit, At
  <2>2. CASE Enqueue(k)
    <3>1. k \in Unresolved'
      BY <2>1, <2>2 DEF TypeOK, Unresolved, Enqueue
    <3>2. QED BY <1>1, <3>1
  <2>3. CASE UNCHANGED <<rows, job>>
    BY <1>2, <2>1, <2>3 DEF Converged, ActiveRoutes, FirstCommit, rows
  <2>4. QED BY <1>2, <2>2, <2>3 DEF FirstCommit
<1>3. ASSUME ReleaseCommit PROVE FALSE
  <2>1. PICK o \in Orders : /\ binding[o] \in Endpoints
                            /\ cur[Scheduler] = o
                            /\ ep[binding[o]] = "ASSIGNED"
    BY <1>3, ReleaseFacts
  <2>2. ReleaseJob(o, binding[o]) \in JobKeys
    BY <2>1, KeyFacts
  <2>3. job[ReleaseJob(o, binding[o])] = "NONE"
    BY <2>1 DEF RowInv
  <2>4. ReleaseJob(o, binding[o]) \in Unresolved'
    BY <1>3, <2>1, <2>2, <2>3 DEF TypeOK, Unresolved, ReleaseCommit, Enqueue
  <2>5. QED BY <1>1, <2>4
<1>4. ASSUME UNCHANGED route PROVE runtime' = ActiveRoutes'
  <2>1. UNCHANGED ActiveRoutes
    BY <1>4 DEF ActiveRoutes
  <2>2. ASSUME NEW p \in Requests \cup Workers, Apply(p) \/ ApplyFails(p)
        PROVE  runtime' = ActiveRoutes'
    <3>1. UNCHANGED Unresolved
      BY <2>2 DEF Apply, ApplyFails, Unresolved, jobs
    <3>2. QED BY <1>1, <2>1, <2>2, <3>1 DEF Converged, Apply, ApplyFails
  <2>3. ASSUME UNCHANGED runtime PROVE runtime' = ActiveRoutes'
    <3>1. CASE Unresolved = {}
      BY <2>1, <2>3, <3>1 DEF Converged
    <3>2. CASE Unresolved # {}
      <4>1. PICK k \in JobKeys : k \in Unresolved
        BY <3>2 DEF Unresolved
      <4>2. job'[k] # job[k]
        BY <1>1, <4>1 DEF Unresolved
      <4>3. ASSUME NEW r \in Requests, FirstCommit(r) PROVE FALSE
        BY <3>2, <4>3, ProcFacts DEF HolderInv, FirstCommit, At
      <4>4. ASSUME NEW l \in JobKeys, Claimable(l), NEW q \in Procs, Claim(q, l)
            PROVE  FALSE
        <5>1. l \in Unresolved'
          BY <4>4 DEF TypeOK, Unresolved, Claim
        <5>2. QED BY <1>1, <5>1
      <4>5. ASSUME NEW r \in Requests, ClaimInSession(r) PROVE FALSE
        <5>1. PurchaseJob(OrderOf[r]) \in JobKeys
          BY ProcFacts, KeyFacts
        <5>2. PurchaseJob(OrderOf[r]) \in Unresolved'
          BY <4>5, <5>1 DEF TypeOK, Unresolved, ClaimInSession, Claim
        <5>3. QED BY <1>1, <5>2
      <4>6. ASSUME NEW p \in Requests \cup Workers,
                   MarkFinalizationUnknown(p) \/ RecordFailure(p)
            PROVE  FALSE
        <5>1. cur[p] \in JobKeys
          BY <4>6, ProcFacts DEF HolderInv, ReconcilePC, MarkFinalizationUnknown,
               RecordFailure, At
        <5>2. cur[p] \in Unresolved'
          BY <4>6, <5>1 DEF TypeOK, Unresolved, MarkFinalizationUnknown, RecordFailure
        <5>3. QED BY <1>1, <5>2
      <4>7. ASSUME NEW p \in Requests \cup Workers, Finalize(p)
            PROVE  runtime' = ActiveRoutes'
        BY <2>1, <2>3, <4>7, ProcFacts DEF HolderInv, Finalize, At
      <4>8. QED
        BY <1>3, <4>2, <4>3, <4>4, <4>5, <4>6, <4>7, JobWriters, ProcFacts
        DEF jobs, WorkerClaim
    <3>3. QED BY <3>1, <3>2
  <2>4. QED BY <2>2, <2>3, RuntimeWriters
<1>5. ASSUME NEW r \in Requests, MarkProvisionPending(r) PROVE UNCHANGED route
  BY <1>5 DEF MarkProvisionPending, rows
<1>6. QED BY <1>2, <1>3, <1>4, <1>5, RowWriters DEF rows

\* The step by which a process arrives at each place inside the lock.
LEMMA HolderEntry ==
    ASSUME IInv, Next, NEW p \in Procs, pc'[p] # pc[p]
    PROVE  /\ pc'[p] = "checked" => p \in Requests /\ CheckUnresolved(p)
           /\ pc'[p] = "releaseChecked" => p = Scheduler /\ ReleaseCheck
           /\ pc'[p] = "releaseLocked" => p = Scheduler /\ ReleaseAcquireLock
           /\ pc'[p] = "releaseWanted" => p = Scheduler /\ \E o \in Orders : Expire(o)
           /\ pc'[p] = "committed" => p \in Requests /\ FirstCommit(p)
           /\ pc'[p] = "claimed" =>
                 \/ p \in Requests /\ ClaimInSession(p)
                 \/ p \in Workers /\ WorkerClaim(p)
           /\ pc'[p] = "applied" => Apply(p)
           /\ pc'[p] = "finalProbe" => Finalize(p)
           /\ pc'[p] = "record" => ApplyFails(p) \/ ProbeFinalization(p)
           /\ pc'[p] = "unknown" => ProbeFinalization(p)
  BY ProcFacts, SMTT(30) DEF IInv, TypeOK, Leave, Goto, At,
       Next, RequestPhaseA, RequestPhaseB, WorkerPoll, Reconcile, SchedulerStep,
       RejectConfirm, ConfirmPayment, StartRun, StartRunFails, PrepareSucceeds,
       PrepareFails, PrepareUncertain, FailPaidPurchase, MarkProvisionPending,
       MarkRunPendingManual, AcquireLock, AcquireLockFails, CheckUnresolved,
       PreCommitFails, FirstCommit, ProbeFirstCommit, ProbeFirstCommitFails,
       CompensateUser, CompensateUserFails, ClaimInSession, Claim,
       WorkerAcquireLock, WorkerClaim, WorkerFindsNothing, Apply, ApplyFails,
       Finalize, ProbeFinalization, MarkFinalizationUnknown, RecordFailure,
       EnterGrace, Expire, ReleaseAcquireLock, ReleaseCheck, ReleaseCommit, Abort

\* Inside a release the scheduler remembers the order it works on.
LEMMA SchedulerCur ==
    ASSUME IInv, Next, pc'[Scheduler] # "idle" PROVE cur'[Scheduler] \in Orders
<1> USE ProcFacts DEF IInv, TypeOK, HolderInv, Leave, Goto, At
<1>1. ASSUME NEW r \in Requests, RequestPhaseA(r) PROVE cur'[Scheduler] \in Orders
  BY <1>1 DEF RequestPhaseA, RejectConfirm, ConfirmPayment, StartRun, StartRunFails,
       PrepareSucceeds, PrepareFails, PrepareUncertain, FailPaidPurchase,
       MarkProvisionPending, MarkRunPendingManual
<1>2. ASSUME NEW r \in Requests, RequestPhaseB(r) PROVE cur'[Scheduler] \in Orders
  BY <1>2 DEF RequestPhaseB, AcquireLock, AcquireLockFails, CheckUnresolved,
       PreCommitFails, FirstCommit, ProbeFirstCommit, ProbeFirstCommitFails,
       CompensateUser, CompensateUserFails, ClaimInSession, Claim
<1>3. ASSUME NEW w \in Workers, WorkerPoll(w) PROVE cur'[Scheduler] \in Orders
  BY <1>3 DEF WorkerPoll, WorkerAcquireLock, WorkerClaim, WorkerFindsNothing, Claim
<1>4. ASSUME NEW p \in Requests \cup Workers, Reconcile(p) PROVE cur'[Scheduler] \in Orders
  BY <1>4 DEF Reconcile, Apply, ApplyFails, Finalize, ProbeFinalization,
       MarkFinalizationUnknown, RecordFailure
<1>5. ASSUME SchedulerStep PROVE cur'[Scheduler] \in Orders
  BY <1>5 DEF SchedulerStep, EnterGrace, Expire, ReleaseAcquireLock, ReleaseCheck,
       ReleaseCommit
<1>6. ASSUME NEW p \in Procs, Abort(p) PROVE cur'[Scheduler] \in Orders
  BY <1>6 DEF Abort
<1>7. QED BY <1>1, <1>2, <1>3, <1>4, <1>5, <1>6 DEF Next

\* What the holder of the lock knows.
LEMMA HolderStep == ASSUME IInv, Next PROVE HolderInv'
<1> USE DEF IInv, At
<1>1. ASSUME NEW p \in Procs, pc[p] \in HeldPC, pc'[p] = pc[p]
      PROVE  /\ UNCHANGED <<job, attempts, route, runtime>> /\ cur'[p] = cur[p]
             /\ UNCHANGED <<Unresolved, ActiveRoutes>>
  BY <1>1, HolderFrame DEF Unresolved, ActiveRoutes
<1>2. ASSUME NEW p \in Procs, pc'[p] \in {"checked", "releaseChecked"}
      PROVE  Unresolved' = {}
  <2>1. CASE pc'[p] = pc[p]
    BY <1>1, <1>2, <2>1 DEF HolderInv, HeldPC
  <2>2. CASE pc'[p] # pc[p]
    <3>1. CheckUnresolved(p) \/ ReleaseCheck
      BY <1>2, <2>2, HolderEntry
    <3>2. UNCHANGED Unresolved
      BY <3>1 DEF CheckUnresolved, ReleaseCheck, Unresolved, jobs
    <3>3. CASE pc'[p] = "checked" /\ p \in Requests /\ CheckUnresolved(p)
      BY <3>2, <3>3 DEF TypeOK, CheckUnresolved, Goto
    <3>4. CASE pc'[p] = "releaseChecked" /\ p = Scheduler /\ ReleaseCheck
      BY <3>2, <3>4, ProcFacts DEF TypeOK, ReleaseCheck, Goto, Leave
    <3>5. QED BY <1>2, <2>2, <3>3, <3>4, HolderEntry
  <2>3. QED BY <2>1, <2>2
<1>3. ASSUME NEW p \in Procs, pc'[p] = "applied" PROVE runtime' = ActiveRoutes'
  <2>1. CASE pc'[p] = pc[p]
    BY <1>1, <1>3, <2>1 DEF HolderInv, HeldPC
  <2>2. CASE pc'[p] # pc[p]
    <3>1. Apply(p)
      BY <1>3, <2>2, HolderEntry
    <3>2. UNCHANGED ActiveRoutes
      BY <3>1 DEF Apply, ActiveRoutes, rows
    <3>3. QED BY <3>1, <3>2 DEF Apply
  <2>3. QED BY <2>1, <2>2
<1>4. ASSUME NEW p \in Procs, pc'[p] \in ReconcilePC
      PROVE  /\ cur'[p] \in JobKeys /\ job'[cur'[p]] # "NONE"
             /\ Unresolved' \subseteq {cur'[p]}
             /\ \A o \in Orders : cur'[p] = PurchaseJob(o) => route'[o] # NULL
  <2>1. CASE pc'[p] = pc[p]
    BY <1>1, <1>4, <2>1 DEF HolderInv, HeldPC, ReconcilePC
  <2>2. ASSUME NEW k \in JobKeys, Claim(p, k), job[k] # "NONE",
               Unresolved \subseteq {k},
               \A o \in Orders : k = PurchaseJob(o) => route[o] # NULL
        PROVE  /\ cur'[p] \in JobKeys /\ job'[cur'[p]] # "NONE"
               /\ Unresolved' \subseteq {cur'[p]}
               /\ \A o \in Orders : cur'[p] = PurchaseJob(o) => route'[o] # NULL
    <3>1. cur'[p] = k /\ job'[k] # "NONE" /\ UNCHANGED route
      BY <2>2 DEF TypeOK, Claim, rows
    <3>2. Unresolved' \subseteq {k}
      BY <2>2 DEF TypeOK, Unresolved, Claim
    <3>3. QED BY <2>2, <3>1, <3>2
  <2>3. CASE p \in Requests /\ ClaimInSession(p)
    <3> DEFINE k == PurchaseJob(OrderOf[p])
    <3>1. /\ k \in JobKeys /\ job[k] = "PENDING" /\ Unresolved \subseteq {k}
          /\ OrderOf[p] \in Orders /\ Claim(p, k)
      BY <2>3, ProcFacts, KeyFacts DEF HolderInv, ClaimInSession
    <3>2. k \in Unresolved
      BY <3>1 DEF Unresolved
    <3>3. \A o \in Orders : k = PurchaseJob(o) => route[o] # NULL
      BY <3>2 DEF JobInv
    <3>4. QED BY <2>2, <3>1, <3>3
  <2>4. CASE p \in Workers /\ WorkerClaim(p)
    <3>1. PICK k \in JobKeys : Claimable(k) /\ Claim(p, k)
      BY <2>4 DEF WorkerClaim
    <3>2. k \in Unresolved
      BY <3>1 DEF Unresolved, Claimable
    <3>3. Unresolved \subseteq {k} /\ job[k] # "NONE"
      BY <3>2 DEF JobInv, OneUnresolved, Unresolved
    <3>4. \A o \in Orders : k = PurchaseJob(o) => route[o] # NULL
      BY <3>2 DEF JobInv
    <3>5. QED BY <2>2, <3>1, <3>3, <3>4
  <2>5. CASE Apply(p) \/ ApplyFails(p) \/ Finalize(p) \/ ProbeFinalization(p)
    <3>1. pc[p] \in ReconcilePC
      BY <2>5 DEF Apply, ApplyFails, Finalize, ProbeFinalization, ReconcilePC
    <3>2. /\ cur[p] \in JobKeys /\ job[cur[p]] # "NONE" /\ Unresolved \subseteq {cur[p]}
          /\ \A o \in Orders : cur[p] = PurchaseJob(o) => route[o] # NULL
      BY <3>1 DEF HolderInv
    <3>3. UNCHANGED route
      BY <2>5 DEF Apply, ApplyFails, Finalize, ProbeFinalization, rows
    <3>4. cur'[p] = cur[p]
      BY <1>4, <2>5, ProcFacts DEF TypeOK, Apply, ApplyFails, Finalize, ProbeFinalization,
           Leave, ReconcilePC
    <3>5. UNCHANGED job \/ job' = [job EXCEPT ![cur[p]] = "SUCCEEDED"]
      BY <2>5 DEF Apply, ApplyFails, Finalize, FinalizedRows, ProbeFinalization, jobs
    <3>6. Unresolved' \subseteq {cur[p]} /\ job'[cur[p]] # "NONE"
      BY <3>2, <3>5 DEF TypeOK, Unresolved
    <3>7. QED BY <3>2, <3>3, <3>4, <3>6
  <2>6. QED BY <1>4, <2>1, <2>3, <2>4, <2>5, HolderEntry DEF ReconcilePC
<1>5. ASSUME NEW r \in Requests, pc'[r] = "committed"
      PROVE  /\ job'[PurchaseJob(OrderOf[r])] = "PENDING"
             /\ attempts'[PurchaseJob(OrderOf[r])] = 0
             /\ Unresolved' \subseteq {PurchaseJob(OrderOf[r])}
  <2> DEFINE k == PurchaseJob(OrderOf[r])
  <2>1. CASE pc'[r] = pc[r]
    BY <1>1, <1>5, <2>1, ProcFacts DEF HolderInv, HeldPC
  <2>2. CASE pc'[r] # pc[r]
    <3>1. FirstCommit(r) /\ r \in Procs
      BY <1>5, <2>2, ProcFacts, HolderEntry
    <3>2. Enqueue(k) /\ UNCHANGED attempts
      BY <1>5, <3>1 DEF TypeOK, FirstCommit, Goto
    <3>3. k \in JobKeys /\ job[k] = "NONE" /\ Unresolved = {} /\ attempts[k] = 0
      BY <3>1, ProcFacts, KeyFacts DEF FirstCommit, OwnerInv, HolderInv, JobInv
    <3>4. Unresolved' \subseteq {k}
      BY <3>2, <3>3 DEF TypeOK, Unresolved, Enqueue
    <3>5. QED BY <3>2, <3>3, <3>4 DEF TypeOK, Enqueue
  <2>3. QED BY <2>1, <2>2
<1>6. pc'[Scheduler] # "idle" => cur'[Scheduler] \in Orders
  BY SchedulerCur
<1>7. ASSUME pc'[Scheduler] = "releaseChecked" PROVE binding'[cur'[Scheduler]] # NULL
  <2>1. CASE ReleaseCheck
    BY <1>7, <2>1, ProcFacts DEF TypeOK, ReleaseCheck, Leave, rows
  <2>2. CASE pc'[Scheduler] = pc[Scheduler]
    <3>1. cur'[Scheduler] = cur[Scheduler] /\ binding[cur[Scheduler]] # NULL
      BY <1>1, <1>7, <2>2, ProcFacts DEF HolderInv, HeldPC
    <3>2. ASSUME NEW r \in Requests, FirstCommit(r) PROVE FALSE
      BY <1>7, <2>2, <3>2, ProcFacts DEF LockInv, HeldPC, FirstCommit
    <3>3. ASSUME NEW r \in Requests, MarkProvisionPending(r)
          PROVE  binding'[cur[Scheduler]] = binding[cur[Scheduler]]
      BY <1>7, <2>2, <3>1, <3>3 DEF TypeOK, HolderInv, MarkProvisionPending, rows
    <3>4. ASSUME ReleaseCommit PROVE FALSE
      BY <1>7, <3>4, ProcFacts DEF TypeOK, ReleaseCommit, Leave
    <3>5. QED BY <3>1, <3>2, <3>3, <3>4, RowWriters DEF rows
  <2>3. QED BY <1>7, <2>1, <2>2, ProcFacts, HolderEntry
<1>8. QED BY <1>2, <1>3, <1>4, <1>5, <1>6, <1>7 DEF HolderInv

\* A job, once there, is never removed.
LEMMA JobsStay ==
    ASSUME IInv, Next, NEW k \in JobKeys, job[k] # "NONE" PROVE job'[k] # "NONE"
<1> USE DEF IInv
<1>1. ASSUME NEW l \in JobKeys, Enqueue(l) PROVE job'[k] # "NONE"
  BY <1>1 DEF TypeOK, Enqueue
<1>2. ASSUME NEW r \in Requests, FirstCommit(r) PROVE job'[k] # "NONE"
  <2>1. PurchaseJob(OrderOf[r]) \in JobKeys
    BY ProcFacts, KeyFacts
  <2>2. QED BY <1>1, <1>2, <2>1 DEF FirstCommit
<1>3. ASSUME ReleaseCommit PROVE job'[k] # "NONE"
  <2>1. PICK o \in Orders : binding[o] \in Endpoints /\ cur[Scheduler] = o
    BY <1>3, ReleaseFacts
  <2>2. ReleaseJob(o, binding[o]) \in JobKeys
    BY <2>1, KeyFacts
  <2>3. QED BY <1>1, <1>3, <2>1, <2>2 DEF ReleaseCommit
<1>4. QED BY <1>2, <1>3, JobMoves DEF jobs

\* The one step that puts a subscription into use finalizes its purchase job.
LEMMA UseEntry ==
    ASSUME IInv, Next, NEW o \in Orders,
           sub'[o] \in {"ACTIVE", "GRACE"}, sub[o] \notin {"ACTIVE", "GRACE"}
    PROVE  \E p \in Requests \cup Workers :
              /\ Finalize(p) /\ p \in Procs /\ pc[p] = "applied"
              /\ cur[p] = PurchaseJob(o)
<1> USE DEF IInv, At
<1>1. PICK p \in Requests \cup Workers : Finalize(p) /\ sub'[o] # sub[o]
  <2>1. ASSUME NEW r \in Requests, ConfirmPayment(r) \/ FailPaidPurchase(r) PROVE FALSE
    BY <2>1, ProcFacts DEF TypeOK, ConfirmPayment, FailPaidPurchase
  <2>2. ASSUME NEW q \in Orders, EnterGrace(q) \/ Expire(q) PROVE FALSE
    BY <2>2 DEF TypeOK, EnterGrace, Expire
  <2>3. QED BY <2>1, <2>2, SubWriters
<1>2. cur[p] \in PurchaseJobs /\ o = cur[p][2]
  BY <1>1 DEF TypeOK, Finalize, FinalizedRows, business
<1>3. QED BY <1>1, <1>2, ProcFacts, KeyFacts DEF Finalize

\* A subscription in use keeps the purchase job that finalized it.
LEMMA UsedStep == ASSUME IInv, Next PROVE UsedInv'
<1>1. SUFFICES ASSUME NEW o \in Orders, sub'[o] \in {"ACTIVE", "GRACE"}
               PROVE  job'[PurchaseJob(o)] # "NONE"
  BY DEF UsedInv
<1>2. PurchaseJob(o) \in JobKeys
  BY KeyFacts
<1>3. job[PurchaseJob(o)] # "NONE"
  <2>1. CASE sub[o] \in {"ACTIVE", "GRACE"}
    BY <2>1 DEF IInv, UsedInv
  <2>2. CASE sub[o] \notin {"ACTIVE", "GRACE"}
    BY <1>1, <2>2, UseEntry DEF IInv, HolderInv, ReconcilePC
  <2>3. QED BY <2>1, <2>2
<1>4. QED BY <1>2, <1>3, JobsStay

\* A usable subscription stays served, or released: finalization follows a
\* verified apply, a release leaves its job, and no route comes back after it.
LEMMA ServedStep == ASSUME IInv, Next PROVE ActiveIsServed'
<1> USE DEF IInv, At
<1> DEFINE Released(o) == /\ route[o] = NULL
                          /\ \E e \in Endpoints : job[ReleaseJob(o, e)] # "NONE"
<1>1. SUFFICES ASSUME NEW o \in Orders, sub'[o] \in {"ACTIVE", "GRACE"}
               PROVE  \/ route'[o] # NULL /\ <<o, route'[o]>> \in runtime'
                      \/ Released(o)'
  BY UserStep DEF ActiveIsServed, UserInv, RouteKeepsUser
<1>2. ASSUME route[o] # NULL, UNCHANGED route, runtime' = ActiveRoutes
      PROVE  route'[o] # NULL /\ <<o, route'[o]>> \in runtime'
  BY <1>2 DEF ActiveRoutes
<1>3. CASE sub[o] \in {"ACTIVE", "GRACE"}
  <2>1. ASSUME NEW r \in Requests, FirstCommit(r) PROVE route'[o] = route[o]
    <3>1. job[PurchaseJob(OrderOf[r])] = "NONE" /\ job[PurchaseJob(o)] # "NONE"
      BY <1>3, <2>1 DEF FirstCommit, OwnerInv, UsedInv
    <3>2. OrderOf[r] # o
      BY <3>1
    <3>3. QED BY <2>1, <3>2, ProcFacts DEF TypeOK, FirstCommit, rows
  <2>2. CASE ReleaseCommit /\ cur[Scheduler] = o
    <3>1. binding[o] \in Endpoints /\ ReleaseJob(o, binding[o]) \in JobKeys
      BY <2>2, ReleaseFacts, KeyFacts
    <3>2. job'[ReleaseJob(o, binding[o])] # "NONE" /\ route'[o] = NULL
      BY <2>2, <3>1 DEF TypeOK, ReleaseCommit, Enqueue
    <3>3. QED BY <3>1, <3>2
  <2>3. CASE ~(ReleaseCommit /\ cur[Scheduler] = o)
    <3>1. route'[o] = route[o]
      <4>1. ASSUME ReleaseCommit PROVE route'[o] = route[o]
        BY <2>3, <4>1 DEF TypeOK, ReleaseCommit
      <4>2. QED BY <2>1, <4>1, RowWriters DEF MarkProvisionPending, rows
    <3>2. CASE Released(o)
      <4>1. PICK e \in Endpoints : job[ReleaseJob(o, e)] # "NONE"
        BY <3>2
      <4>2. job'[ReleaseJob(o, e)] # "NONE"
        BY <4>1, KeyFacts, JobsStay
      <4>3. QED BY <3>1, <3>2, <4>2
    <3>3. CASE route[o] # NULL /\ <<o, route[o]>> \in runtime
      <4>1. ASSUME NEW p \in Requests \cup Workers, Apply(p) \/ ApplyFails(p)
            PROVE  <<o, route'[o]>> \in runtime'
        <5>1. UNCHANGED route
          BY <4>1 DEF Apply, ApplyFails, rows
        <5>2. QED BY <1>2, <3>3, <4>1, <5>1 DEF Apply, ApplyFails
      <4>2. QED BY <3>1, <3>3, <4>1, RuntimeWriters
    <3>4. QED BY <1>3, <3>2, <3>3 DEF ActiveIsServed
  <2>4. QED BY <2>2, <2>3
<1>4. CASE sub[o] \notin {"ACTIVE", "GRACE"}
  <2>1. PICK p \in Requests \cup Workers :
            /\ Finalize(p) /\ p \in Procs /\ pc[p] = "applied"
            /\ cur[p] = PurchaseJob(o)
    BY <1>1, <1>4, UseEntry
  <2>2. route[o] # NULL /\ runtime = ActiveRoutes
    BY <2>1 DEF HolderInv, ReconcilePC
  <2>3. UNCHANGED <<route, runtime>>
    BY <2>1 DEF Finalize, rows
  <2>4. QED BY <1>2, <2>2, <2>3
<1>5. QED BY <1>3, <1>4

\* Every step keeps the types.  The rows a commit writes come from what the
\* process holds, and a claim is made below the attempt limit.
LEMMA TypeStep == ASSUME IInv, Next PROVE TypeOK'
<1> USE ProcFacts, NumberAssumption
    DEF IInv, TypeOK, At, Goto, Leave, PCs, RequestPC, ReconcilePC, business, rows, jobs
<1>1. ASSUME NEW r \in Requests, RequestPhaseA(r) PROVE TypeOK'
  BY <1>1, SMTT(30) DEF RequestPhaseA, RejectConfirm, ConfirmPayment, StartRun, StartRunFails,
       PrepareSucceeds, PrepareFails, PrepareUncertain, FailPaidPurchase,
       MarkProvisionPending, MarkRunPendingManual, RollbackAlloc,
       OrderStatus, SubStatus, RunStatus, EpStatus, UserStatus
<1>2. ASSUME NEW r \in Requests, RequestPhaseB(r) PROVE TypeOK'
  <2> DEFINE k == PurchaseJob(OrderOf[r])
  <2>1. OrderOf[r] \in Orders /\ k \in JobKeys
    BY KeyFacts
  <2>2. CASE FirstCommit(r)
    <3>1. alloc[r] \in Endpoints
      BY <2>2 DEF FirstCommit, OwnerInv
    <3>2. QED BY <2>1, <2>2, <3>1 DEF FirstCommit, Enqueue, RollbackAlloc, EpStatus, JobStatus
  <2>3. CASE ClaimInSession(r)
    <3>1. attempts[k] = 0 /\ Claim(r, k)
      BY <2>3 DEF ClaimInSession, HolderInv
    <3>2. QED BY <2>1, <3>1 DEF Claim, JobStatus
  <2>4. CASE ~FirstCommit(r) /\ ~ClaimInSession(r)
    BY <1>2, <2>1, <2>4 DEF RequestPhaseB, AcquireLock, AcquireLockFails, CheckUnresolved,
         PreCommitFails, ProbeFirstCommit, ProbeFirstCommitFails, CompensateUser,
         CompensateUserFails, RollbackAlloc, RunStatus, UserStatus
  <2>5. QED BY <2>2, <2>3, <2>4
<1>3. ASSUME NEW w \in Workers, WorkerPoll(w) PROVE TypeOK'
  BY <1>3 DEF WorkerPoll, WorkerAcquireLock, WorkerClaim, WorkerFindsNothing, Claim,
       Claimable, JobStatus
<1>4. ASSUME NEW p \in Requests \cup Workers, Reconcile(p) PROVE TypeOK'
  <2>1. cur[p] \in JobKeys
    BY <1>4 DEF Reconcile, Apply, ApplyFails, Finalize, ProbeFinalization,
         MarkFinalizationUnknown, RecordFailure, HolderInv
  <2>2. cur[p] \in PurchaseJobs => cur[p][2] \in Orders
    BY KeyFacts
  <2>3. ActiveRoutes \subseteq Orders \X Endpoints
    BY DEF ActiveRoutes
  <2>4. QED
    BY <1>4, <2>1, <2>2, <2>3 DEF Reconcile, Apply, ApplyFails, Finalize, FinalizedRows,
         ProbeFinalization, MarkFinalizationUnknown, RecordFailure, OrderStatus,
         SubStatus, RunStatus, JobStatus
<1>5. ASSUME SchedulerStep PROVE TypeOK'
  <2>1. CASE ReleaseCommit
    <3>1. PICK o \in Orders : binding[o] \in Endpoints /\ cur[Scheduler] = o
      BY <2>1, ReleaseFacts
    <3>2. ReleaseJob(o, binding[o]) \in JobKeys
      BY <3>1, KeyFacts
    <3>3. QED BY <2>1, <3>1, <3>2 DEF ReleaseCommit, Enqueue, EpStatus, JobStatus
  <2>2. CASE ReleaseAcquireLock \/ ReleaseCheck
    BY <2>2 DEF ReleaseAcquireLock, ReleaseCheck
  <2>3. CASE \E o \in Orders : EnterGrace(o) \/ Expire(o)
    BY <2>3 DEF EnterGrace, Expire, SubStatus
  <2>4. QED BY <1>5, <2>1, <2>2, <2>3 DEF SchedulerStep
<1>6. ASSUME NEW p \in Procs, Abort(p) PROVE TypeOK'
  BY <1>6 DEF Abort
<1>7. QED BY <1>1, <1>2, <1>3, <1>4, <1>5, <1>6 DEF Next

\* The initial states satisfy the inductive invariant.
LEMMA InitStep == Init => IInv
<1> SUFFICES ASSUME Init PROVE IInv
  OBVIOUS
<1> USE ProcFacts, KeyFacts, NumberAssumption DEF Init
<1>1. TypeOK
  BY DEF TypeOK, OrderStatus, SubStatus, RunStatus, EpStatus, JobStatus, UserStatus,
       PCs, RequestPC
<1>2. Unresolved = {} /\ ActiveRoutes = {}
  BY DEF Unresolved, ActiveRoutes
<1>3. LockInv /\ RoleInv /\ AllocInv /\ OwnerInv
  BY DEF LockInv, RoleInv, AllocInv, OwnerInv, HeldPC, OwnerPC, RequestPC
<1>4. RowInv /\ UserInv /\ JobInv /\ UsedInv
  BY <1>2 DEF RowInv, EndpointsDedicated, UserInv, RouteKeepsUser, JobInv,
       OneUnresolved, UsedInv
<1>5. HolderInv /\ Converged /\ ActiveIsServed
  BY <1>2 DEF HolderInv, Converged, ActiveIsServed, ReconcilePC
<1>6. QED BY <1>1, <1>3, <1>4, <1>5 DEF IInv

\* A step that changes nothing keeps the inductive invariant.
LEMMA StutterStep == ASSUME IInv, UNCHANGED vars PROVE IInv'
<1> USE DEF vars
<1>1. UNCHANGED <<Unresolved, ActiveRoutes>>
  BY DEF Unresolved, ActiveRoutes
<1>2. TypeOK' /\ LockInv' /\ RoleInv' /\ AllocInv' /\ OwnerInv'
  BY DEF IInv, TypeOK, LockInv, RoleInv, AllocInv, OwnerInv
<1>3. RowInv' /\ UserInv' /\ JobInv' /\ UsedInv'
  BY <1>1 DEF IInv, RowInv, EndpointsDedicated, UserInv, RouteKeepsUser, JobInv,
       OneUnresolved, UsedInv
<1>4. HolderInv' /\ Converged' /\ ActiveIsServed'
  BY <1>1 DEF IInv, HolderInv, Converged, ActiveIsServed
<1>5. QED BY <1>2, <1>3, <1>4 DEF IInv

-----------------------------------------------------------------------------
(* The results.                                                             *)

\* IInv holds of every reachable state, for any numbers of orders, confirm
\* calls, recovery workers, endpoints and attempts.
THEOREM InductiveInvariant == Spec => []IInv
<1>1. Init => IInv
  BY InitStep
<1>2. IInv /\ [Next]_vars => IInv'
  <2> SUFFICES ASSUME IInv, [Next]_vars PROVE IInv'
    OBVIOUS
  <2>1. CASE Next
    <3>1. TypeOK' /\ LockInv' /\ RoleInv' /\ AllocInv' /\ OwnerInv' /\ RowInv'
      BY <2>1, TypeStep, LockStep, RoleStep, AllocStep, OwnerStep, RowStep
    <3>2. UserInv' /\ JobInv' /\ UsedInv' /\ HolderInv' /\ Converged' /\ ActiveIsServed'
      BY <2>1, UserStep, JobStep, UsedStep, HolderStep, ConvergedStep, ServedStep
    <3>3. QED BY <3>1, <3>2 DEF IInv
  <2>2. CASE UNCHANGED vars
    BY <2>2, StutterStep
  <2>3. QED BY <2>1, <2>2
<1>3. QED BY <1>1, <1>2, PTL DEF Spec

\* Every variable keeps its type; in particular no job is ever claimed more
\* often than max_attempts.
THEOREM TypeCorrect == Spec => []TypeOK
<1>1. IInv => TypeOK
  BY DEF IInv
<1>2. QED BY <1>1, InductiveInvariant, PTL

\* Two projection mutations are never unresolved at once.
THEOREM SingleIntent == Spec => []OneUnresolved
<1>1. IInv => OneUnresolved
  BY DEF IInv, JobInv
<1>2. QED BY <1>1, InductiveInvariant, PTL

\* Without an unresolved job the runtime serves exactly the committed routes.
THEOREM NoSilentDivergence == Spec => []Converged
<1>1. IInv => Converged
  BY DEF IInv
<1>2. QED BY <1>1, InductiveInvariant, PTL

\* A subscription in use is routed, served and has an enabled user.
THEOREM UsableIsServed == Spec => []ActiveIsServed
<1>1. IInv => ActiveIsServed
  BY DEF IInv
<1>2. QED BY <1>1, InductiveInvariant, PTL

\* No compensation disables the user of a committed route.
THEOREM CommittedKeepsUser == Spec => []RouteKeepsUser
<1>1. IInv => RouteKeepsUser
  BY DEF IInv, UserInv
<1>2. QED BY <1>1, InductiveInvariant, PTL

\* Endpoints are dedicated and routes follow bindings.
THEOREM DedicatedEgress == Spec => []EndpointsDedicated
<1>1. IInv => EndpointsDedicated
  BY DEF IInv, RowInv
<1>2. QED BY <1>1, InductiveInvariant, PTL

-----------------------------------------------------------------------------
(* The refinement of Projection.                                            *)

\* Committed routes change only where no intent is open, and open one: the
\* purchase and the release job a writer enqueues are new rows.
LEMMA RoutesChange ==
    ASSUME IInv, Next, route' # route
    PROVE  Unresolved = {} /\ Unresolved' # {}
<1> USE DEF IInv, At
<1>1. ASSUME NEW r \in Requests, FirstCommit(r)
      PROVE  Unresolved = {} /\ Unresolved' # {}
  <2>1. Unresolved = {}
    BY <1>1, ProcFacts DEF FirstCommit, HolderInv
  <2>2. job[PurchaseJob(OrderOf[r])] = "NONE"
    BY <1>1 DEF FirstCommit, OwnerInv
  <2>3. job' = [job EXCEPT ![PurchaseJob(OrderOf[r])] = "PENDING"]
    BY <1>1, <2>2 DEF FirstCommit, Enqueue, rows
  <2>4. PurchaseJob(OrderOf[r]) \in JobKeys
    BY ProcFacts, KeyFacts
  <2>5. job'[PurchaseJob(OrderOf[r])] = "PENDING"
    BY <2>3, <2>4 DEF TypeOK
  <2>6. QED BY <2>1, <2>4, <2>5 DEF Unresolved
<1>2. ASSUME ReleaseCommit
      PROVE  Unresolved = {} /\ Unresolved' # {}
  <2> DEFINE o == cur[Scheduler]
             e == binding[o]
  <2>1. Unresolved = {}
    BY <1>2, ProcFacts DEF ReleaseCommit, HolderInv
  <2>2. o \in Orders /\ e \in Endpoints /\ ep[e] = "ASSIGNED"
    BY <1>2, ReleaseFacts DEF RowInv, EndpointsDedicated, HolderInv, ReleaseCommit, TypeOK
  <2>3. job[ReleaseJob(o, e)] = "NONE"
    BY <2>2 DEF RowInv
  <2>4. ReleaseJob(o, e) \in JobKeys
    BY <2>2, KeyFacts
  <2>5. job'[ReleaseJob(o, e)] = "PENDING"
    BY <1>2, <2>3, <2>4 DEF ReleaseCommit, Enqueue, TypeOK, rows
  <2>6. QED BY <2>1, <2>4, <2>5 DEF Unresolved
<1>3. QED BY <1>1, <1>2, RowWriters DEF MarkProvisionPending, rows

\* The runtime is touched only while an intent is open: with none open, a
\* reconciler that applies once more changes nothing.
LEMMA RuntimeChange ==
    ASSUME IInv, Next, runtime' # runtime
    PROVE  Unresolved # {}
  BY RuntimeWriters DEF IInv, Converged, Apply, ApplyFails

\* The writers, the recovery loop and the runtime together implement the
\* projection contract of ADR-022, with the committed routes, the runtime and
\* "some job is unresolved" as its three variables.
THEOREM ImplementsProjection == Spec => ProjectionContract
<1>1. Init => Contract!Init
  BY DEF Init, Contract!Init, ActiveRoutes, Unresolved
<1>2. IInv /\ [Next]_vars => [Contract!Next]_(Contract!vars)
  <2> SUFFICES ASSUME IInv, Next
               PROVE  [Contract!Next]_(Contract!vars)
    BY DEF vars, Contract!vars, ActiveRoutes, Unresolved
  <2>1. Converged /\ Converged'
    BY ConvergedStep DEF IInv
  <2>2. route' = route => ActiveRoutes' = ActiveRoutes
    BY DEF ActiveRoutes
  <2>3. CASE Unresolved = {} /\ Unresolved' = {}
    BY <2>2, <2>3, RoutesChange, RuntimeChange DEF Contract!vars
  <2>4. CASE Unresolved = {} /\ Unresolved' # {}
    BY <2>1, <2>4, RuntimeChange DEF Contract!Next, Contract!Intend, Converged
  <2>5. CASE Unresolved # {} /\ Unresolved' # {}
    BY <2>2, <2>5, RoutesChange DEF Contract!Next, Contract!Work
  <2>6. CASE Unresolved # {} /\ Unresolved' = {}
    BY <2>1, <2>2, <2>6, RoutesChange DEF Contract!Next, Contract!Settle, Converged
  <2>7. QED BY <2>3, <2>4, <2>5, <2>6
<1>3. QED
  BY <1>1, <1>2, InductiveInvariant, PTL DEF Spec, ProjectionContract, Contract!Spec
=============================================================================
