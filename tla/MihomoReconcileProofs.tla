----------------------- MODULE MihomoReconcileProofs ------------------------
(***************************************************************************)
(* Proofs about the Mihomo reconciliation for any number of workers,       *)
(* syncers, jobs, attempts and any desired states: its invariants and      *)
(* action properties, through one inductive invariant.                     *)
(***************************************************************************)
EXTENDS MihomoReconcile, TLAPS

\* Steps of a handler that passed the check for unresolved mutations.
LoadedPC     == {"loaded", "installed", "reloaded", "rollback", "restored", "applied",
                 "verified"}
ApplyingPC   == {"checked"} \cup LoadedPC
CommittingPC == {"finalProbe", "failing", "unknown"}

Working(w) == cur[w] # NULL /\ pc[w] # "claimed"
Done(j)    == jobs[j].status = "SUCCEEDED" /\ jobs[j].rel # "PENDING"

\* A sync that wrote the cache knows what it wrote, and with which secret.
SyncInv ==
    /\ SyncTypeOK
    /\ \A s \in Syncers : /\ stage[s] # "idle" => bound[s] # NULL
                          /\ stage[s] = "written" => fetched[s] # NULL

\* What a handler has in hand at each of its steps.
HandlerInv ==
    \A w \in Workers :
        /\ pc[w] \in {"idle", "locked"} => cur[w] = NULL
        /\ pc[w] \notin {"idle", "locked", "release"} => cur[w] # NULL
        /\ pc[w] \in LoadedPC => cand[w] # NULL
        /\ session[w] = "reading" => pc[w] \in LoadedPC
        /\ pc[w] = "claimed" => /\ jobs[cur[w]].status = "RUNNING"
                                /\ ~jobs[cur[w]].unknown
                                /\ jobs[cur[w]].attempts > 0

\* A job has one handler, and only one handler is past the check.
ExclusiveInv ==
    \A v, w \in Workers :
        /\ cur[v] # NULL /\ cur[v] = cur[w] => v = w
        /\ Working(v) /\ Working(w) => v = w

\* Ids are given in order; an untouched row is empty; a job under an UNKNOWN
\* diagnostic is RUNNING; a job succeeds after the earlier ones are done, and
\* one that is done has no handler and no commit under way.
JobInv ==
    \A j \in JobIds :
        /\ jobs[j].status = "NONE" => jobs[j] = NoJob
        /\ jobs[j].status # "NONE" => \A i \in JobIds : i < j => jobs[i].status # "NONE"
        /\ jobs[j].unknown => jobs[j].status = "RUNNING"
        /\ jobs[j].status = "SUCCEEDED" => \A i \in JobIds : i < j => Done(i)
        /\ Done(j) => /\ ~InFlight(j)
                      /\ \A w \in Workers : cur[w] # j

\* A handler past the check works on the first job that is not done.
WorkInv ==
    \A w \in Workers :
        Working(w) =>
            /\ \A i \in JobIds : i < cur[w] => Done(i)
            /\ jobs[cur[w]].status # "NONE"
            /\ pc[w] \in ApplyingPC => /\ jobs[cur[w]].status = "RUNNING"
                                       /\ ~jobs[cur[w]].unknown
            /\ InFlight(cur[w]) => pc[w] \in CommittingPC

\* A commit under way is the only one; its job's handler, if it still has one,
\* waits for it; and what it will record is current and served.
FlightInv ==
    /\ \A f, g \in flight : f = g
    /\ \A f \in flight :
          /\ jobs[f.job].status = "RUNNING" /\ ~jobs[f.job].unknown
          /\ \A i \in JobIds : i < f.job => Done(i)
          /\ \A w \in Workers : Working(w) <=> cur[w] = f.job
          /\ file = f.evidence /\ runtime = f.evidence
          /\ f.evidence.rows = desired /\ f.evidence.feed = receipt.hash

\* The file is the candidate's until it is rolled back, and so is a verified
\* runtime; the newest job that succeeded is served until a later one exists.
FileInv ==
    /\ \A w \in Workers :
          /\ pc[w] \in {"installed", "reloaded", "applied", "verified"} => file = cand[w]
          /\ pc[w] = "verified" => runtime = cand[w]
    /\ \A j \in JobIds :
          jobs[j].status = "SUCCEEDED" /\ (\A i \in JobIds : i > j => jobs[i].status = "NONE")
              => runtime = jobs[j].evidence /\ file = jobs[j].evidence

IInv ==
    /\ MihomoTypeOK /\ SyncInv /\ HandlerInv /\ ExclusiveInv /\ JobInv /\ WorkInv
    /\ FlightInv /\ FileInv /\ LoadedIsProved

-----------------------------------------------------------------------------
(* The type invariant.                                                      *)

\* The constants' kinds, apart from NULL.
LEMMA ConstantFacts ==
    /\ MaxAttempts \in Nat /\ MaxAttempts > 0 /\ MaxSource \in Nat
    /\ NULL \notin Workers /\ NULL \notin JobIds /\ NULL \notin Contents /\ NULL \notin Ops
    /\ NULL \notin Feeds /\ NULL \notin Receipts /\ NULL \notin Revisions
    /\ JobIds \subseteq Nat
  BY JobAssumption, MihomoNullAssumption, FeedAssumption, SourceAssumption DEF JobIds

\* Every step keeps the types of the transport sync.
LEMMA SyncTypeStep ==
    ASSUME SyncInv, [Next]_vars
    PROVE  SyncInv'
  <1> USE ConstantFacts DEF SyncInv, SyncTypeOK, Revisions
  <1>1. CASE UNCHANGED syncVars
    BY <1>1 DEF syncVars
  <1>2. CASE RotateSource
    BY <1>2 DEF RotateSource
  <1>3. ASSUME NEW s \in Syncers, Resolve(s) PROVE SyncInv'
    BY <1>3 DEF Resolve
  <1>4. ASSUME NEW s \in Syncers, WriteCache(s) PROVE SyncInv'
    BY <1>4 DEF WriteCache
  <1>5. ASSUME NEW s \in Syncers, CommitReceipt(s) PROVE SyncInv'
    BY <1>5 DEF CommitReceipt, Receipts
  <1>6. ASSUME NEW s \in Syncers, SyncFails(s) PROVE SyncInv'
    BY <1>6 DEF SyncFails
  <1>7. ASSUME NEW s \in Syncers, SyncRestart(s) PROVE SyncInv'
    BY <1>7 DEF SyncRestart
  <1>8. CASE SyncStep
    BY <1>2, <1>3, <1>4, <1>5, <1>6, <1>7, <1>8 DEF SyncStep
  <1>9. CASE ~SyncStep
    <2>1. ASSUME NEW w \in Workers, WorkerStep(w) PROVE UNCHANGED syncVars
      BY <2>1 DEF WorkerStep, Claim, CheckUnresolved, Load, BeforeInstallFails, Install,
        Reload, CheckHealth, Restore, ReloadRestored, Verify, Finalize, ProbeFinalization,
        MarkUnknown, RecordFailure, OpenReleaseBlocker, ReleaseLock,
        ResolveReleaseBlocker
    <2>2. ASSUME NEW w \in Workers, AcquireLock(w) \/ Prepare(w) \/ NothingToDo(w)
                                    \/ Crash(w) \/ LoseLock(w) \/ LoseSession(w)
          PROVE  UNCHANGED syncVars
      BY <2>2 DEF AcquireLock, Prepare, NothingToDo, Crash, LoseLock, LoseSession
    <2>3. CASE ChangeDesired \/ FlightLands \/ UNCHANGED vars
      BY <1>1, <2>3 DEF ChangeDesired, FlightLands, vars
    <2>4. QED
      BY <1>1, <1>9, <2>1, <2>2, <2>3 DEF Next
  <1>10. QED
    BY <1>8, <1>9

\* The shared state, apart from the jobs.
TypeRest ==
    /\ desired \in Rows
    /\ gens \in Seq([rows : Rows, receipt : Receipts])
    /\ flight \subseteq [job : JobIds, evidence : Contents]
    /\ file \in Contents \cup {NULL}
    /\ runtime \in Contents \cup {NULL}

\* The state of the handlers.
HandlerTypes ==
    /\ lock \in Workers \cup {NULL}
    /\ pc \in [Workers -> PCs]
    /\ cur \in [Workers -> JobIds \cup {NULL}]
    /\ cand \in [Workers -> Contents \cup {NULL}]
    /\ backup \in [Workers -> Contents \cup {NULL}]
    /\ session \in [Workers -> {"none", "reading", "lost"}]
    /\ uncertain \in [Workers -> BOOLEAN]

\* The type invariant is the conjunction of its parts.
LEMMA TypeParts ==
    /\ MihomoTypeOK <=> SyncTypeOK /\ TypeRest /\ jobs \in [JobIds -> Jobs] /\ HandlerTypes
    /\ MihomoTypeOK' <=>
          SyncTypeOK' /\ TypeRest' /\ jobs' \in [JobIds -> Jobs] /\ HandlerTypes'
  BY DEF MihomoTypeOK, TypeRest, HandlerTypes

\* A handler that ends keeps the types.
LEMMA LeaveTypes ==
    ASSUME HandlerTypes, NEW w \in Workers, Leave(w)
    PROVE  HandlerTypes'
  BY ConstantFacts DEF HandlerTypes, Leave, PCs

\* Every step keeps the types of the handlers.
LEMMA HandlerTypeStep ==
    ASSUME MihomoTypeOK, HandlerInv, [Next]_vars
    PROVE  HandlerTypes'
  <1>0. HandlerTypes /\ desired \in Rows /\ cache \in Feeds \cup {NULL}
        /\ receipt \in Receipts \cup {NULL} /\ file \in Contents \cup {NULL}
    BY TypeParts DEF TypeRest, SyncTypeOK
  <1>1. CASE ChangeDesired \/ SyncStep \/ FlightLands \/ UNCHANGED vars
    BY <1>0, <1>1
    DEF ChangeDesired, SyncStep, FlightLands, vars, work, HandlerTypes
  <1>2. ASSUME NEW w \in Workers,
               AcquireLock(w) \/ Prepare(w) \/ NothingToDo(w) \/ LoseLock(w) \/ LoseSession(w)
        PROVE  HandlerTypes'
    BY <1>0, <1>2, ConstantFacts
    DEF AcquireLock, Prepare, NothingToDo, LoseLock, LoseSession, HandlerTypes, work, Goto,
        PCs
  <1>3. ASSUME NEW w \in Workers, NEW j \in JobIds, Claim(w, j) PROVE HandlerTypes'
    BY <1>0, <1>3 DEF Claim, HandlerTypes, Goto, PCs
  <1>4. ASSUME NEW w \in Workers,
               \/ CheckUnresolved(w) \/ BeforeInstallFails(w) \/ Reload(w) \/ CheckHealth(w)
               \/ Restore(w) \/ ReloadRestored(w) \/ Verify(w) \/ Finalize(w)
               \/ ProbeFinalization(w) \/ RecordFailure(w)
        PROVE  HandlerTypes'
    BY <1>0, <1>4
    DEF CheckUnresolved, BeforeInstallFails, Reload, CheckHealth, Restore, ReloadRestored,
        Verify, Finalize, ProbeFinalization, RecordFailure, HandlerTypes,
        work, Goto, EndSession, PCs
  <1>5. ASSUME NEW w \in Workers, Load(w) PROVE HandlerTypes'
    <2>1. Content \in Contents
      BY <1>0, <1>5, ConstantFacts DEF Load, Verified, Content, Contents, Receipts
    <2>2. QED
      BY <1>0, <1>5, <2>1 DEF Load, HandlerTypes, Goto, PCs
  <1>6. ASSUME NEW w \in Workers, Install(w) PROVE HandlerTypes'
    BY <1>0, <1>6 DEF Install, HandlerTypes, Goto, PCs
  <1>7. ASSUME NEW w \in Workers, MarkUnknown(w) PROVE HandlerTypes'
    <2>1. uncertain' = uncertain \/ uncertain' = [uncertain EXCEPT ![w] = TRUE]
      BY <1>7 DEF MarkUnknown
    <2>2. QED
      BY <1>0, <1>7, <2>1 DEF MarkUnknown, HandlerTypes, Goto, PCs
  <1>8. ASSUME NEW w \in Workers, OpenReleaseBlocker(w) \/ ReleaseLock(w)
        PROVE  HandlerTypes'
    BY <1>0, <1>8, LeaveTypes, ConstantFacts
    DEF OpenReleaseBlocker, ReleaseLock, HandlerTypes, work, Goto, PCs
  <1>9. ASSUME NEW w \in Workers, ResolveReleaseBlocker(w) \/ Crash(w)
        PROVE  HandlerTypes'
    BY <1>0, <1>9, LeaveTypes DEF ResolveReleaseBlocker, Crash
  <1>10. QED
    BY <1>1, <1>2, <1>3, <1>4, <1>5, <1>6, <1>7, <1>8, <1>9 DEF Next, WorkerStep

-----------------------------------------------------------------------------
(* What the actions write to the jobs.                                      *)

\* Row j is written with these values, and no other.
Written(j, status, attempts, unknown, evidence, fin, rel) ==
    /\ jobs' \in [JobIds -> Jobs]
    /\ \A i \in JobIds : i # j => jobs'[i] = jobs[i]
    /\ jobs'[j].status = status /\ jobs'[j].attempts = attempts
    /\ jobs'[j].unknown = unknown /\ jobs'[j].evidence = evidence
    /\ jobs'[j].fin = fin /\ jobs'[j].rel = rel

\* The fields of a job.
LEMMA JobFields ==
    ASSUME NEW job \in Jobs
    PROVE  /\ job.status \in Statuses /\ job.attempts \in 0..MaxAttempts
           /\ job.unknown \in BOOLEAN /\ job.evidence \in Contents \cup {NULL}
           /\ job.fin \in Blockers /\ job.rel \in Blockers
  BY DEF Jobs

\* An untouched row is a job too.
LEMMA NoJobType == NoJob \in Jobs
  BY ConstantFacts DEF NoJob, Jobs, Statuses, Blockers

\* Claim: one more attempt.
LEMMA ClaimWrites ==
    ASSUME jobs \in [JobIds -> Jobs], NEW j \in JobIds, jobs[j].attempts < MaxAttempts,
           jobs' = [jobs EXCEPT ![j].status = "RUNNING", ![j].attempts = @ + 1]
    PROVE  Written(j, "RUNNING", jobs[j].attempts + 1, jobs[j].unknown, jobs[j].evidence,
                   jobs[j].fin, jobs[j].rel)
  BY ConstantFacts DEF Written, Jobs, Statuses

\* _reset_blocked_claim: the attempt is given back.
LEMMA ResetWrites ==
    ASSUME jobs \in [JobIds -> Jobs], NEW j \in JobIds, jobs[j].attempts > 0,
           jobs' = [jobs EXCEPT ![j].status = "PENDING", ![j].attempts = @ - 1]
    PROVE  Written(j, "PENDING", jobs[j].attempts - 1, jobs[j].unknown, jobs[j].evidence,
                   jobs[j].fin, jobs[j].rel)
  BY ConstantFacts DEF Written, Jobs, Statuses

\* Finalization.
LEMMA FinalizedWrites ==
    ASSUME jobs \in [JobIds -> Jobs], NEW j \in JobIds, NEW c \in Contents, Finalized(j, c)
    PROVE  Written(j, "SUCCEEDED", jobs[j].attempts, FALSE, c, jobs[j].fin, "PENDING")
  <1> DEFINE row == [jobs[j] EXCEPT !.status = "SUCCEEDED", !.evidence = c,
                                    !.unknown = FALSE, !.rel = "PENDING"]
  <1>1. jobs' = [jobs EXCEPT ![j] = row]
    BY DEF Finalized
  <1>2. row \in Jobs
    BY DEF Jobs, Statuses, Blockers
  <1>3. /\ row.status = "SUCCEEDED" /\ row.attempts = jobs[j].attempts
        /\ row.unknown = FALSE /\ row.evidence = c
        /\ row.fin = jobs[j].fin /\ row.rel = "PENDING"
    BY DEF Jobs
  <1> HIDE DEF row
  <1>4. QED
    BY <1>1, <1>2, <1>3 DEF Written

\* _mark_unknown with the diagnostic ...
LEMMA DiagnosticWrites ==
    ASSUME jobs \in [JobIds -> Jobs], NEW j \in JobIds,
           jobs' = [jobs EXCEPT ![j].unknown = TRUE]
    PROVE  Written(j, jobs[j].status, jobs[j].attempts, TRUE, jobs[j].evidence,
                   jobs[j].fin, jobs[j].rel)
  BY DEF Written, Jobs

\* ... with the FINALIZATION blocker.
LEMMA FinBlockerWrites ==
    ASSUME jobs \in [JobIds -> Jobs], NEW j \in JobIds,
           jobs' = [jobs EXCEPT ![j].fin = "PENDING"]
    PROVE  Written(j, jobs[j].status, jobs[j].attempts, jobs[j].unknown, jobs[j].evidence,
                   "PENDING", jobs[j].rel)
  BY DEF Written, Jobs, Blockers

\* _failure.
LEMMA FailureWrites ==
    ASSUME jobs \in [JobIds -> Jobs], NEW j \in JobIds,
           jobs' = [jobs EXCEPT ![j].status = "FAILED", ![j].unknown = FALSE]
    PROVE  Written(j, "FAILED", jobs[j].attempts, FALSE, jobs[j].evidence,
                   jobs[j].fin, jobs[j].rel)
  <1> DEFINE row == [jobs[j] EXCEPT !.status = "FAILED", !.unknown = FALSE]
  <1>1. jobs' = [jobs EXCEPT ![j] = row]
    OBVIOUS
  <1>2. row \in Jobs
    BY DEF Jobs, Statuses
  <1>3. /\ row.status = "FAILED" /\ row.attempts = jobs[j].attempts
        /\ row.unknown = FALSE /\ row.evidence = jobs[j].evidence
        /\ row.fin = jobs[j].fin /\ row.rel = jobs[j].rel
    BY DEF Jobs
  <1> HIDE DEF row
  <1>4. QED
    BY <1>1, <1>2, <1>3 DEF Written

\* The release blocker is opened, or resolved.
LEMMA ReleaseWrites ==
    ASSUME jobs \in [JobIds -> Jobs], NEW j \in JobIds, NEW r \in Blockers,
           jobs' = [jobs EXCEPT ![j].rel = r]
    PROVE  Written(j, jobs[j].status, jobs[j].attempts, jobs[j].unknown, jobs[j].evidence,
                   jobs[j].fin, r)
  BY DEF Written, Jobs, Blockers

\* prepare_mihomo_reconciliation.
LEMMA PrepareWrites ==
    ASSUME jobs \in [JobIds -> Jobs], NEW j \in JobIds, NEW op \in Ops, NEW n \in Nat,
           jobs' = [jobs EXCEPT ![j] = [NoJob EXCEPT
                       !.status = "PENDING", !.op = op, !.gen = n]]
    PROVE  Written(j, "PENDING", 0, FALSE, NULL, "NONE", "NONE")
  BY NoJobType, ConstantFacts DEF Written, Jobs, NoJob, Statuses, Blockers

-----------------------------------------------------------------------------
(* The steps.  Each lemma shows, for one action or a few alike, what is left *)
(* of the invariant apart from the types.                                    *)

Core ==
    /\ HandlerInv /\ ExclusiveInv /\ JobInv /\ WorkInv /\ FlightInv /\ FileInv
    /\ LoadedIsProved

\* While a handler applies its job, no other does, no commit is under way, and
\* no job that succeeded is the newest one.
LEMMA SoleWriter ==
    ASSUME IInv, NEW w \in Workers, pc[w] \in ApplyingPC
    PROVE  /\ flight = {}
           /\ \A v \in Workers : pc[v] \in ApplyingPC => v = w
           /\ \A j \in JobIds :
                 ~(/\ jobs[j].status = "SUCCEEDED"
                   /\ \A i \in JobIds : i > j => jobs[i].status = "NONE")
  <1> USE ConstantFacts DEF ApplyingPC, LoadedPC, CommittingPC
  <1>0. HandlerTypes
    BY TypeParts DEF IInv
  <1>1. \A v \in Workers : pc[v] \in ApplyingPC => Working(v) /\ cur[v] \in JobIds
    BY <1>0 DEF IInv, HandlerInv, HandlerTypes, Working
  <1>2. \A v \in Workers : pc[v] \in ApplyingPC => v = w
    BY <1>1 DEF IInv, ExclusiveInv
  <1>3. flight = {}
    BY <1>1 DEF IInv, FlightInv, WorkInv, InFlight
  <1>4. jobs[cur[w]].status = "RUNNING" /\ cur[w] \in JobIds
    BY <1>1 DEF IInv, WorkInv
  <1>5. ASSUME NEW j \in JobIds, jobs[j].status = "SUCCEEDED",
               \A i \in JobIds : i > j => jobs[i].status = "NONE"
        PROVE  FALSE
    <2>1. cur[w] < j
      <3>1. j \in Nat /\ cur[w] \in Nat /\ cur[w] # j /\ ~(cur[w] > j)
        BY <1>4, <1>5
      <3>2. QED
        BY <3>1
    <2>2. Done(cur[w])
      BY <1>4, <1>5, <2>1 DEF IInv, JobInv
    <2>3. QED
      BY <1>4, <2>2 DEF Done
  <1>6. QED
    BY <1>2, <1>3, <1>5

\* What the observer has seen when it is not UNKNOWN.
LEMMA OutcomeFacts ==
    ASSUME NEW w \in Workers
    PROVE  /\ Outcome(w) = "LANDED" => jobs[cur[w]].status = "SUCCEEDED"
           /\ Outcome(w) = "ABSENT" => jobs[cur[w]].status = "RUNNING"
  BY DEF Outcome

\* Without a write to the jobs, only a handler that ends changes who has them.
LEMMA JobFrame ==
    ASSUME JobInv, UNCHANGED <<jobs, flight>>,
           \A v \in Workers : cur'[v] \in {cur[v], NULL}
    PROVE  JobInv'
  BY ConstantFacts DEF JobInv, Done, InFlight

\* A job that is done has no handler.
LEMMA DoneFree ==
    ASSUME JobInv, NEW j \in JobIds, Done(j), NEW w \in Workers
    PROVE  j # cur[w]
  BY DEF JobInv

\* What is held under row locks stays as it was read.
LEMMA LoadedFrame ==
    ASSUME LoadedIsProved, UNCHANGED <<desired, receipt>>,
           \A v \in Workers : session'[v] = "reading" =>
               session[v] = "reading" /\ cand'[v] = cand[v]
    PROVE  LoadedIsProved'
  BY DEF LoadedIsProved

\* A handler takes the lock, finds nothing to do, or loses a connection.
LEMMA OutsideStep ==
    ASSUME IInv, HandlerTypes', NEW w \in Workers,
           AcquireLock(w) \/ NothingToDo(w) \/ LoseLock(w) \/ LoseSession(w)
    PROVE  Core'
  <1> USE ConstantFacts
      DEF IInv, AcquireLock, NothingToDo, LoseLock, LoseSession, Goto, At, work,
          HandlerTypes, LoadedPC, ApplyingPC, CommittingPC, syncVars
  <1>0. HandlerTypes
    BY TypeParts
  <1>1. HandlerInv'
    BY <1>0 DEF HandlerInv
  <1>2. ExclusiveInv'
    BY <1>0 DEF HandlerInv, ExclusiveInv, Working
  <1>3. JobInv'
    BY <1>0, JobFrame
  <1>4. WorkInv'
    BY <1>0 DEF WorkInv, HandlerInv, Working, Done, InFlight
  <1>5. FlightInv'
    BY <1>0 DEF FlightInv, HandlerInv, Working, Done, InFlight, WorkInv
  <1>6. FileInv'
    <2>1. \A v \in Workers : pc'[v] \in LoadedPC => pc'[v] = pc[v]
      BY <1>0
    <2>2. UNCHANGED <<file, runtime, cand, jobs>>
      OBVIOUS
    <2>3. QED
      BY <2>1, <2>2 DEF FileInv
  <1>7. LoadedIsProved'
    BY <1>0, LoadedFrame
  <1>8. QED
    BY <1>1, <1>2, <1>3, <1>4, <1>5, <1>6, <1>7 DEF Core

\* The desired state is loaded, with what the receipt proves.
LEMMA LoadStep ==
    ASSUME IInv, HandlerTypes', NEW w \in Workers,
           Load(w)
    PROVE  Core'
  <1> USE ConstantFacts
      DEF IInv, Load, Goto, At, EndSession, work, HandlerTypes, LoadedPC, ApplyingPC,
          CommittingPC, syncVars
  <1>0. HandlerTypes
    BY TypeParts
  <1>c. Content \in Contents /\ Content.rows = desired /\ Content.feed = receipt.hash
    BY DEF Verified, Content, Contents, MihomoTypeOK, SyncTypeOK, Receipts
  <1>1. HandlerInv'
    BY <1>0, <1>c DEF HandlerInv
  <1>2. ExclusiveInv'
    BY <1>0 DEF HandlerInv, ExclusiveInv, Working
  <1>3. JobInv'
    BY <1>0, JobFrame
  <1>4. WorkInv'
    BY <1>0 DEF WorkInv, HandlerInv, Working, Done, InFlight
  <1>5. FlightInv'
    BY <1>0 DEF FlightInv, HandlerInv, Working, Done, InFlight, WorkInv
  <1>6. FileInv'
    BY <1>0 DEF FileInv, HandlerInv
  <1>7. LoadedIsProved'
    BY <1>0, <1>c DEF LoadedIsProved
  <1>8. QED
    BY <1>1, <1>2, <1>3, <1>4, <1>5, <1>6, <1>7 DEF Core

\* The file is installed and reloaded.
LEMMA WriteStep ==
    ASSUME IInv, HandlerTypes', NEW w \in Workers,
           Install(w) \/ Reload(w) \/ CheckHealth(w)
    PROVE  Core'
  <1> USE ConstantFacts
      DEF IInv, Install, Reload, CheckHealth, Goto, At, work, HandlerTypes, LoadedPC,
          ApplyingPC, CommittingPC, syncVars
  <1>0. HandlerTypes
    BY TypeParts
  <1>1. HandlerInv'
    BY <1>0 DEF HandlerInv
  <1>2. ExclusiveInv'
    BY <1>0 DEF HandlerInv, ExclusiveInv, Working
  <1>3. JobInv'
    BY <1>0, JobFrame
  <1>4. WorkInv'
    BY <1>0 DEF WorkInv, HandlerInv, Working, Done, InFlight
  <1>5. FlightInv'
    BY <1>0, SoleWriter DEF FlightInv, HandlerInv, Working, Done, InFlight, WorkInv
  <1>6. FileInv'
    BY <1>0, SoleWriter DEF FileInv, HandlerInv
  <1>7. LoadedIsProved'
    BY <1>0, LoadedFrame
  <1>8. QED
    BY <1>1, <1>2, <1>3, <1>4, <1>5, <1>6, <1>7 DEF Core

\* The apply fails, is rolled back, or is verified.
LEMMA UndoStep ==
    ASSUME IInv, HandlerTypes', NEW w \in Workers,
           BeforeInstallFails(w) \/ Restore(w) \/ ReloadRestored(w) \/ Verify(w)
    PROVE  Core'
  <1> USE ConstantFacts
      DEF IInv, BeforeInstallFails, Restore, ReloadRestored, Verify, Goto, At, EndSession,
          work, HandlerTypes, LoadedPC, ApplyingPC, CommittingPC, syncVars
  <1>0. HandlerTypes
    BY TypeParts
  <1>1. HandlerInv'
    BY <1>0 DEF HandlerInv
  <1>2. ExclusiveInv'
    BY <1>0 DEF HandlerInv, ExclusiveInv, Working
  <1>3. JobInv'
    BY <1>0, JobFrame
  <1>4. WorkInv'
    BY <1>0 DEF WorkInv, HandlerInv, Working, Done, InFlight
  <1>5. FlightInv'
    BY <1>0, SoleWriter DEF FlightInv, HandlerInv, Working, Done, InFlight, WorkInv
  <1>6. FileInv'
    BY <1>0, SoleWriter DEF FileInv, HandlerInv
  <1>7. LoadedIsProved'
    BY <1>0, LoadedFrame
  <1>8. QED
    BY <1>1, <1>2, <1>3, <1>4, <1>5, <1>6, <1>7 DEF Core

\* The observer looks at a finalization without waiting for it.
LEMMA ProbeStep ==
    ASSUME IInv, HandlerTypes', NEW w \in Workers,
           ProbeFinalization(w)
    PROVE  Core'
  <1> USE ConstantFacts
      DEF IInv, ProbeFinalization, Goto, At, work, HandlerTypes, LoadedPC, ApplyingPC,
          CommittingPC, syncVars
  <1>0. HandlerTypes
    BY TypeParts
  <1>1. HandlerInv'
    BY <1>0 DEF HandlerInv
  <1>2. ExclusiveInv'
    BY <1>0 DEF HandlerInv, ExclusiveInv, Working
  <1>3. JobInv'
    BY <1>0, JobFrame
  <1>4. WorkInv'
    BY <1>0, OutcomeFacts DEF WorkInv, HandlerInv, Working, Done, InFlight, FlightInv
  <1>5. FlightInv'
    BY <1>0 DEF FlightInv, HandlerInv, Working, Done, InFlight, WorkInv
  <1>6. FileInv'
    BY <1>0 DEF FileInv, HandlerInv
  <1>7. LoadedIsProved'
    BY <1>0, LoadedFrame
  <1>8. QED
    BY <1>1, <1>2, <1>3, <1>4, <1>5, <1>6, <1>7 DEF Core

\* A handler leaves the lock, or dies.
LEMMA LeaveStep ==
    ASSUME IInv, HandlerTypes', NEW w \in Workers,
           ReleaseLock(w) \/ Crash(w)
    PROVE  Core'
  <1> USE ConstantFacts
      DEF IInv, ReleaseLock, Crash, Goto, At, Leave, work, HandlerTypes, LoadedPC,
          ApplyingPC, CommittingPC, syncVars
  <1>0. HandlerTypes
    BY TypeParts
  <1>1. HandlerInv'
    BY <1>0 DEF HandlerInv
  <1>2. ExclusiveInv'
    BY <1>0 DEF HandlerInv, ExclusiveInv, Working
  <1>3. JobInv'
    BY <1>0, JobFrame
  <1>4. WorkInv'
    BY <1>0 DEF WorkInv, HandlerInv, Working, Done, InFlight
  <1>5. FlightInv'
    <2>1. UNCHANGED <<jobs, flight, file, runtime, desired, receipt>>
      OBVIOUS
    <2>2. \A v \in Workers : (v # w => pc'[v] = pc[v] /\ cur'[v] = cur[v])
      BY <1>0
    <2>3. \A f \in flight : cur[w] = f.job => pc[w] \in CommittingPC
      BY <1>0 DEF FlightInv, WorkInv, InFlight
    <2>4. ~Working(w)' \/ (cur'[w] = cur[w] /\ Working(w))
      BY <1>0 DEF Working
    <2>5. \A f \in flight : f.job # NULL
      BY DEF MihomoTypeOK
    <2>6. \A f \in flight : Working(w)' <=> cur'[w] = f.job
      BY <1>0, <2>3, <2>4, <2>5 DEF FlightInv, Working
    <2>7. \A f \in flight, v \in Workers : Working(v)' <=> cur'[v] = f.job
      BY <2>2, <2>6 DEF FlightInv, Working
    <2>8. QED
      BY <2>1, <2>7 DEF FlightInv, Done
  <1>6. FileInv'
    BY <1>0 DEF FileInv, HandlerInv
  <1>7. LoadedIsProved'
    BY <1>0, LoadedFrame
  <1>8. QED
    BY <1>1, <1>2, <1>3, <1>4, <1>5, <1>6, <1>7 DEF Core

\* The type of a longer sequence.
LEMMA AppendType ==
    ASSUME NEW R, NEW g \in Seq(R), NEW x \in R
    PROVE  Append(g, x) \in Seq(R) /\ Len(g) \in Nat /\ Len(Append(g, x)) \in Nat
  OBVIOUS

\* A generation is a fingerprint with the receipt it was verified against.
LEMMA GenerationType ==
    ASSUME MihomoTypeOK, Verified
    PROVE  /\ Generation \in Seq([rows : Rows, receipt : Receipts])
           /\ Len(Generation) \in Nat
  <1>1. Fingerprint \in [rows : Rows, receipt : Receipts]
    BY DEF Verified, Fingerprint, MihomoTypeOK, SyncTypeOK
  <1>2. gens \in Seq([rows : Rows, receipt : Receipts])
    BY DEF MihomoTypeOK
  <1>3. Generation = gens \/ Generation = Append(gens, Fingerprint)
    BY DEF Generation
  <1>4. QED
    BY <1>1, <1>2, <1>3, AppendType

\* A new job, after all the others.
LEMMA PrepareStep ==
    ASSUME IInv, HandlerTypes', NEW w \in Workers, Prepare(w)
    PROVE  Core'
  <1> USE ConstantFacts
      DEF IInv, Prepare, Goto, At, work, HandlerTypes, LoadedPC, ApplyingPC, CommittingPC,
          syncVars
  <1>0. HandlerTypes /\ jobs \in [JobIds -> Jobs]
    BY TypeParts
  <1>p. PICK j \in JobIds : /\ NextId(j)
                           /\ Written(j, "PENDING", 0, FALSE, NULL, "NONE", "NONE")
    BY <1>0, GenerationType, PrepareWrites
  <1>1. HandlerInv'
    BY <1>0, <1>p DEF HandlerInv, Written, NextId, WorkInv, ExclusiveInv, Working
  <1>2. ExclusiveInv'
    BY <1>0 DEF HandlerInv, ExclusiveInv, Working
  <1>3. JobInv'
    BY <1>0, <1>p
    DEF Written, NextId, JobInv, Done, InFlight, WorkInv, HandlerInv, Working, FlightInv
  <1>4. WorkInv'
    BY <1>0, <1>p
    DEF Written, NextId, WorkInv, HandlerInv, Working, Done, InFlight, JobInv, FlightInv
  <1>5. FlightInv'
    BY <1>0, <1>p
    DEF FlightInv, HandlerInv, Working, Done, InFlight, WorkInv, Written, NextId, JobInv
  <1>6. FileInv'
    BY <1>0, <1>p DEF FileInv, HandlerInv, Written, NextId, JobInv, WorkInv, Working
  <1>7. LoadedIsProved'
    BY <1>0, LoadedFrame
  <1>8. QED
    BY <1>1, <1>2, <1>3, <1>4, <1>5, <1>6, <1>7 DEF Core

\* A job without handler is claimed.
LEMMA ClaimStep ==
    ASSUME IInv, HandlerTypes', NEW w \in Workers, NEW j \in JobIds, Claim(w, j)
    PROVE  Core'
  <1> USE ConstantFacts
      DEF IInv, Claim, Goto, At, Claimable, work, HandlerTypes, LoadedPC, ApplyingPC,
          CommittingPC, syncVars
  <1>0. HandlerTypes /\ jobs \in [JobIds -> Jobs]
    BY TypeParts
  <1>w. Written(j, "RUNNING", jobs[j].attempts + 1, jobs[j].unknown, jobs[j].evidence,
               jobs[j].fin, jobs[j].rel)
    BY <1>0, ClaimWrites
  <1>1. HandlerInv'
    <2>1. jobs[j].unknown = FALSE /\ jobs[j].attempts \in Nat
      BY <1>0, JobFields DEF JobInv
    <2>2. QED
      BY <1>0, <1>w, <2>1 DEF HandlerInv, Written
  <1>2. ExclusiveInv'
    BY <1>0 DEF HandlerInv, ExclusiveInv, Working
  <1>3. JobInv'
    BY <1>0, <1>w
    DEF Written, JobInv, Done, InFlight, WorkInv, HandlerInv, Working, FlightInv
  <1>4. WorkInv'
    BY <1>0, <1>w
    DEF Written, WorkInv, HandlerInv, Working, Done, InFlight, JobInv, FlightInv
  <1>5. FlightInv'
    <2>1. \A i \in JobIds : Done(i) => Done(i)'
      BY <1>w DEF Done, Written
    <2>2. \A f \in flight : f.job # j /\ f.job \in JobIds
      BY DEF InFlight, MihomoTypeOK
    <2>3. \A f \in flight : \A v \in Workers : Working(v)' <=> cur'[v] = f.job
      BY <1>0, <2>2 DEF FlightInv, Working, HandlerInv
    <2>4. QED
      BY <1>w, <2>1, <2>2, <2>3 DEF FlightInv, Written
  <1>6. FileInv'
    BY <1>0, <1>w DEF FileInv, HandlerInv, Written, JobInv, WorkInv, Working
  <1>7. LoadedIsProved'
    BY <1>0, LoadedFrame
  <1>8. QED
    BY <1>1, <1>2, <1>3, <1>4, <1>5, <1>6, <1>7 DEF Core

\* A failure is recorded over whatever the row says.
LEMMA RecordFailureStep ==
    ASSUME IInv, HandlerTypes', NEW w \in Workers, RecordFailure(w)
    PROVE  Core'
  <1> USE ConstantFacts
      DEF IInv, RecordFailure, Goto, At, work, HandlerTypes, LoadedPC, ApplyingPC,
          CommittingPC, syncVars
  <1>0. HandlerTypes /\ jobs \in [JobIds -> Jobs]
    BY TypeParts
  <1>w. \/ jobs' = jobs
        \/ Written(cur[w], "FAILED", jobs[cur[w]].attempts, FALSE, jobs[cur[w]].evidence,
                   jobs[cur[w]].fin, jobs[cur[w]].rel)
    BY <1>0, FailureWrites DEF HandlerInv
  <1>1. HandlerInv'
    BY <1>0, <1>w DEF HandlerInv, Written, WorkInv, ExclusiveInv, Working
  <1>2. ExclusiveInv'
    BY <1>0 DEF HandlerInv, ExclusiveInv, Working
  <1>3. JobInv'
    BY <1>0, <1>w
    DEF Written, JobInv, Done, InFlight, WorkInv, HandlerInv, Working, FlightInv
  <1>4. WorkInv'
    <2>1. \A v \in Workers : Working(v)' => v = w
      BY <1>0 DEF ExclusiveInv, HandlerInv, Working
    <2>2. \A i \in JobIds : Done(i) => Done(i)'
      BY <1>0, <1>w DEF Done, Written, JobInv
    <2>3. Working(w) /\ cur'[w] = cur[w] /\ pc'[w] = "release" /\ flight' = flight
      BY <1>0 DEF Working, HandlerInv
    <2>4. jobs'[cur[w]].status # "NONE"
      BY <1>w, <2>3 DEF Written, WorkInv
    <2>5. QED
      BY <2>1, <2>2, <2>3, <2>4 DEF WorkInv, InFlight
  <1>5. FlightInv'
    BY <1>0, <1>w
    DEF FlightInv, HandlerInv, Working, Done, InFlight, WorkInv, Written, JobInv
  <1>6. FileInv'
    BY <1>0, <1>w DEF FileInv, HandlerInv, Written, JobInv, WorkInv, Working
  <1>7. LoadedIsProved'
    BY <1>0, LoadedFrame
  <1>8. QED
    BY <1>1, <1>2, <1>3, <1>4, <1>5, <1>6, <1>7 DEF Core

\* The diagnostic or the FINALIZATION blocker is written by the handler of the job.
LEMMA MarkUnknownStep ==
    ASSUME IInv, HandlerTypes', NEW w \in Workers, MarkUnknown(w)
    PROVE  Core'
  <1> USE ConstantFacts
      DEF IInv, MarkUnknown, Goto, At, work, HandlerTypes, LoadedPC, ApplyingPC,
          CommittingPC, syncVars
  <1>0. HandlerTypes /\ jobs \in [JobIds -> Jobs]
    BY TypeParts
  <1>w. \/ jobs' = jobs
        \/ /\ Written(cur[w], jobs[cur[w]].status, jobs[cur[w]].attempts, TRUE,
                      jobs[cur[w]].evidence, jobs[cur[w]].fin, jobs[cur[w]].rel)
           /\ jobs[cur[w]].status = "RUNNING"
        \/ Written(cur[w], jobs[cur[w]].status, jobs[cur[w]].attempts, jobs[cur[w]].unknown,
                   jobs[cur[w]].evidence, "PENDING", jobs[cur[w]].rel)
    <2>1. cur[w] \in JobIds
      BY <1>0 DEF HandlerInv
    <2>2. \/ jobs' = jobs
          \/ jobs' = [jobs EXCEPT ![cur[w]].unknown = TRUE] /\ Outcome(w) = "ABSENT"
          \/ jobs' = [jobs EXCEPT ![cur[w]].fin = "PENDING"]
      OBVIOUS
    <2>3. QED
      BY <1>0, <2>1, <2>2, DiagnosticWrites, FinBlockerWrites, OutcomeFacts
  <1>s. Working(w) /\ \A v \in Workers : Working(v) => v = w
    BY <1>0 DEF Working, HandlerInv, ExclusiveInv
  <1>r. \A i \in JobIds : i # cur[w] => jobs'[i] = jobs[i]
    BY <1>w DEF Written
  <1>d. \A i \in JobIds : Done(i) => i # cur[w] /\ Done(i)'
    BY <1>r, DoneFree DEF Done
  <1>1. HandlerInv'
    BY <1>0, <1>w DEF HandlerInv, Written, ExclusiveInv
  <1>2. ExclusiveInv'
    BY <1>0, <1>s DEF ExclusiveInv, Working
  <1>3. JobInv'
    <2>1. CASE jobs' = jobs
      BY <1>0, <2>1, JobFrame
    <2>2. jobs[cur[w]].status # "NONE" /\ \A v \in Workers : cur'[v] \in {cur[v], NULL}
      BY <1>0, <1>s DEF WorkInv
    <2>3. CASE jobs' # jobs
      BY <1>0, <1>w, <1>d, <2>2, <2>3 DEF Written, JobInv, Done, InFlight
    <2>4. QED
      BY <2>1, <2>3
  <1>4. WorkInv'
    BY <1>0, <1>w, <1>s, <1>d DEF Written, WorkInv, Working, InFlight
  <1>5. FlightInv'
    BY <1>0, <1>w, <1>s, <1>d DEF FlightInv, Working, InFlight, Written
  <1>6. FileInv'
    BY <1>0, <1>w DEF FileInv, Written
  <1>7. LoadedIsProved'
    BY <1>0, LoadedFrame
  <1>8. QED
    BY <1>1, <1>2, <1>3, <1>4, <1>5, <1>6, <1>7 DEF Core

\* The release blocker is opened by the handler of the job.
LEMMA OpenReleaseStep ==
    ASSUME IInv, HandlerTypes', NEW w \in Workers, OpenReleaseBlocker(w)
    PROVE  Core'
  <1> USE ConstantFacts
      DEF IInv, OpenReleaseBlocker, Goto, At, Leave, work, HandlerTypes, LoadedPC,
          ApplyingPC, CommittingPC, syncVars
  <1>0. HandlerTypes /\ jobs \in [JobIds -> Jobs]
    BY TypeParts
  <1>w. \/ jobs' = jobs
        \/ Written(cur[w], jobs[cur[w]].status, jobs[cur[w]].attempts, jobs[cur[w]].unknown,
                   jobs[cur[w]].evidence, jobs[cur[w]].fin, "PENDING")
    BY <1>0, ReleaseWrites DEF Blockers
  <1>s. Working(w) /\ \A v \in Workers : Working(v) => v = w
    BY <1>0 DEF Working, HandlerInv, ExclusiveInv
  <1>r. \A i \in JobIds : i # cur[w] => jobs'[i] = jobs[i]
    BY <1>w DEF Written
  <1>d. \A i \in JobIds : Done(i) => i # cur[w] /\ Done(i)'
    BY <1>r, DoneFree DEF Done
  <1>1. HandlerInv'
    BY <1>0, <1>w DEF HandlerInv, Written, ExclusiveInv
  <1>2. ExclusiveInv'
    BY <1>0, <1>s DEF ExclusiveInv, Working
  <1>3. JobInv'
    <2>1. CASE jobs' = jobs
      BY <1>0, <2>1, JobFrame
    <2>2. jobs[cur[w]].status # "NONE" /\ \A v \in Workers : cur'[v] \in {cur[v], NULL}
      BY <1>0, <1>s DEF WorkInv
    <2>3. CASE jobs' # jobs
      BY <1>0, <1>w, <1>d, <2>2, <2>3 DEF Written, JobInv, Done, InFlight
    <2>4. QED
      BY <2>1, <2>3
  <1>4. WorkInv'
    BY <1>0, <1>w, <1>s, <1>d DEF Written, WorkInv, Working, InFlight
  <1>5. FlightInv'
    BY <1>0, <1>w, <1>s, <1>d DEF FlightInv, Working, InFlight, Written
  <1>6. FileInv'
    BY <1>0, <1>w DEF FileInv, Written
  <1>7. LoadedIsProved'
    BY <1>0, LoadedFrame
  <1>8. QED
    BY <1>1, <1>2, <1>3, <1>4, <1>5, <1>6, <1>7 DEF Core

\* The release blocker is resolved by the handler of the job, which is then over.
LEMMA ResolveReleaseStep ==
    ASSUME IInv, HandlerTypes', NEW w \in Workers, ResolveReleaseBlocker(w)
    PROVE  Core'
  <1> USE ConstantFacts
      DEF IInv, ResolveReleaseBlocker, Goto, At, Leave, work, HandlerTypes, LoadedPC,
          ApplyingPC, CommittingPC, syncVars
  <1>0. HandlerTypes /\ jobs \in [JobIds -> Jobs]
    BY TypeParts
  <1>w. \/ jobs' = jobs
        \/ Written(cur[w], jobs[cur[w]].status, jobs[cur[w]].attempts, jobs[cur[w]].unknown,
                   jobs[cur[w]].evidence, jobs[cur[w]].fin, "SUCCEEDED")
    BY <1>0, ReleaseWrites DEF Blockers, HandlerInv
  <1>s. Working(w) /\ \A v \in Workers : Working(v) => v = w
    BY <1>0 DEF Working, HandlerInv, ExclusiveInv
  <1>r. \A i \in JobIds : i # cur[w] => jobs'[i] = jobs[i]
    BY <1>w DEF Written
  <1>d. \A i \in JobIds : Done(i) => i # cur[w] /\ Done(i)'
    BY <1>r, DoneFree DEF Done
  <1>1. HandlerInv'
    BY <1>0, <1>w DEF HandlerInv, Written, ExclusiveInv
  <1>2. ExclusiveInv'
    BY <1>0, <1>s DEF ExclusiveInv, Working
  <1>3. JobInv'
    BY <1>0, <1>w, <1>s, <1>d DEF Written, JobInv, Done, InFlight, WorkInv, ExclusiveInv
  <1>4. WorkInv'
    BY <1>0, <1>w, <1>s, <1>d DEF Written, WorkInv, Working, InFlight
  <1>5. FlightInv'
    BY <1>0, <1>w, <1>s, <1>d DEF FlightInv, Working, InFlight, Written
  <1>6. FileInv'
    BY <1>0, <1>w DEF FileInv, Written
  <1>7. LoadedIsProved'
    BY <1>0, LoadedFrame
  <1>8. QED
    BY <1>1, <1>2, <1>3, <1>4, <1>5, <1>6, <1>7 DEF Core

\* SUCCEEDED is committed, or may still be.
LEMMA FinalizeStep ==
    ASSUME IInv, HandlerTypes', NEW w \in Workers, Finalize(w)
    PROVE  Core'
  <1> USE ConstantFacts
      DEF IInv, Finalize, Goto, At, EndSession, work, HandlerTypes, LoadedPC, ApplyingPC,
          CommittingPC, syncVars
  <1>0. HandlerTypes /\ jobs \in [JobIds -> Jobs]
    BY TypeParts
  <1>j. cur[w] \in JobIds /\ cand[w] \in Contents
    BY <1>0 DEF HandlerInv
  <1>w. \/ jobs' = jobs
        \/ /\ Written(cur[w], "SUCCEEDED", jobs[cur[w]].attempts, FALSE, cand[w],
                      jobs[cur[w]].fin, "PENDING")
           /\ flight' = flight
    BY <1>0, <1>j, FinalizedWrites
  <1>s. Working(w) /\ \A v \in Workers : Working(v) => v = w
    BY <1>0 DEF Working, HandlerInv, ExclusiveInv
  <1>r. \A i \in JobIds : i # cur[w] => jobs'[i] = jobs[i]
    BY <1>w DEF Written
  <1>d. \A i \in JobIds : Done(i) => i # cur[w] /\ Done(i)'
    <2>1. JobInv
      OBVIOUS
    <2> HIDE DEF IInv, Finalize
    <2>2. QED
      BY <1>r, <2>1, DoneFree DEF Done
  <1>1. HandlerInv'
    <2>1. /\ pc'[w] \in {"release", "finalProbe"} /\ session'[w] = "none"
          /\ \A v \in Workers : v # w => pc'[v] = pc[v] /\ session'[v] = session[v]
          /\ UNCHANGED <<cur, cand>>
      BY <1>0
    <2>2. \A v \in Workers : v # w /\ cur[v] # NULL => jobs'[cur[v]] = jobs[cur[v]]
      <3>1. \A v \in Workers : v # w /\ cur[v] # NULL => cur[v] \in JobIds /\ cur[v] # cur[w]
        BY <1>0, <1>j DEF ExclusiveInv
      <3>2. QED
        BY <1>r, <3>1
    <2>3. QED
      BY <1>j, <2>1, <2>2 DEF HandlerInv
  <1>2. ExclusiveInv'
    BY <1>0, <1>s DEF ExclusiveInv, Working
  <1>3. JobInv'
    BY <1>0, <1>j, <1>w, <1>s, <1>d DEF Written, JobInv, Done, InFlight, WorkInv
  <1>4. WorkInv'
    BY <1>0, <1>w, <1>s, <1>d, SoleWriter DEF Written, WorkInv, Working, InFlight
  <1>5. FlightInv'
    <2>1. CASE flight' = flight
      BY <2>1, SoleWriter DEF FlightInv
    <2>2. CASE /\ session[w] = "reading" /\ jobs' = jobs
               /\ flight' = flight \cup {[job |-> cur[w], evidence |-> cand[w]]}
      <3>1. /\ jobs[cur[w]].status = "RUNNING" /\ ~jobs[cur[w]].unknown
            /\ \A i \in JobIds : i < cur[w] => Done(i)
        BY <1>s DEF WorkInv
      <3>2. file = cand[w] /\ runtime = cand[w]
        BY DEF FileInv
      <3>3. cand[w].rows = desired /\ cand[w].feed = receipt.hash
        BY <2>2 DEF LoadedIsProved
      <3>4. \A v \in Workers : Working(v)' <=> cur'[v] = cur[w]
        BY <1>0, <1>j, <1>s DEF Working, ExclusiveInv
      <3>5. \A i \in JobIds : i < cur[w] => Done(i)'
        BY <3>1, <1>d
      <3> DEFINE g == [job |-> cur[w], evidence |-> cand[w]]
      <3>6. flight' = {g} /\ g.job = cur[w] /\ g.evidence = cand[w]
        BY <2>2, SoleWriter
      <3> HIDE DEF g
      <3>7. UNCHANGED <<jobs, file, runtime, desired, receipt>>
        BY <2>2
      <3>8. QED
        BY <3>1, <3>2, <3>3, <3>4, <3>5, <3>6, <3>7 DEF FlightInv
    <2>3. QED
      BY <2>1, <2>2
  <1>6. FileInv'
    <2>1. \A v \in Workers : pc'[v] \notin {"installed", "reloaded", "applied", "verified"}
      <3>1. \A v \in Workers : v # w => pc'[v] = pc[v] /\ pc[v] \notin ApplyingPC
        BY <1>0, SoleWriter
      <3>2. pc'[w] \in {"release", "finalProbe"}
        BY <1>0
      <3>3. QED
        BY <3>1, <3>2
    <2>2. file = cand[w] /\ runtime = cand[w] /\ UNCHANGED <<file, runtime>>
      BY DEF FileInv
    <2>3. CASE jobs' = jobs
      BY <2>1, <2>2, <2>3 DEF FileInv
    <2>4. CASE jobs'[cur[w]].status = "SUCCEEDED" /\ jobs'[cur[w]].evidence = cand[w]
      <3>1. ASSUME NEW i \in JobIds, i # cur[w], jobs'[i].status = "SUCCEEDED",
                   \A k \in JobIds : k > i => jobs'[k].status = "NONE"
            PROVE  FALSE
        <4>1. jobs[i].status = "SUCCEEDED" /\ cur[w] < i
          <5>1. i \in Nat /\ cur[w] \in Nat /\ ~(cur[w] > i) /\ jobs'[i] = jobs[i]
            BY <1>j, <1>r, <2>4, <3>1
          <5>2. QED
            BY <3>1, <5>1
        <4>2. Done(cur[w])
          BY <1>j, <4>1 DEF JobInv
        <4>3. QED
          BY <1>j, <1>d, <4>2
      <3>2. QED
        BY <2>1, <2>2, <2>4, <3>1 DEF FileInv
    <2>5. QED
      BY <1>w, <2>3, <2>4 DEF Written
  <1>7. LoadedIsProved'
    BY <1>0, LoadedFrame
  <1>8. QED
    BY <1>1, <1>2, <1>3, <1>4, <1>5, <1>6, <1>7 DEF Core

\* The check lets the handler of the first job that is not done pass, when no
\* one else is past it.
LEMMA CheckPasses ==
    ASSUME IInv, HandlerTypes', NEW w \in Workers, CheckUnresolved(w), ~Blocked(cur[w])
    PROVE  Core'
  <1> USE ConstantFacts
      DEF IInv, CheckUnresolved, Goto, At, HandlerTypes, LoadedPC, ApplyingPC, CommittingPC,
          syncVars
  <1>0. HandlerTypes /\ cur[w] \in JobIds /\ UNCHANGED <<jobs, cur>> /\ flight = {}
    BY TypeParts DEF HandlerInv
  <1>j. jobs[cur[w]].status = "RUNNING" /\ ~jobs[cur[w]].unknown
    BY DEF HandlerInv
  <1>d. \A i \in JobIds : i < cur[w] => Done(i)
    <2>1. \A i \in JobIds : i < cur[w] => jobs[i].status # "NONE"
      BY <1>0, <1>j DEF JobInv
    <2>2. QED
      BY <1>0, <2>1 DEF Blocked, Done
  <1>s. \A v \in Workers : ~Working(v)
    <2> SUFFICES ASSUME NEW v \in Workers, Working(v) PROVE FALSE
      OBVIOUS
    <2>1. cur[v] \in JobIds /\ cur[v] # cur[w]
      BY <1>0 DEF Working, ExclusiveInv
    <2>2. CASE cur[v] < cur[w]
      BY <1>d, <2>1, <2>2 DEF JobInv
    <2>3. CASE cur[w] < cur[v]
      <3>1. Done(cur[w])
        BY <1>0, <2>1, <2>3 DEF WorkInv
      <3>2. QED
        BY <1>0, <3>1 DEF JobInv
    <2>4. QED
      BY <1>0, <2>1, <2>2, <2>3
  <1>1. HandlerInv'
    BY <1>0 DEF HandlerInv
  <1>2. ExclusiveInv'
    BY <1>0, <1>s DEF ExclusiveInv, Working
  <1>3. JobInv'
    BY <1>0, JobFrame
  <1>4. WorkInv'
    BY <1>0, <1>j, <1>d, <1>s DEF WorkInv, Working, Done, InFlight
  <1>5. FlightInv'
    BY <1>0 DEF FlightInv
  <1>6. FileInv'
    BY <1>0 DEF FileInv
  <1>7. LoadedIsProved'
    BY <1>0, LoadedFrame
  <1>8. QED
    BY <1>1, <1>2, <1>3, <1>4, <1>5, <1>6, <1>7 DEF Core

\* Any other claim is given back with its attempt.
LEMMA CheckRefuses ==
    ASSUME IInv, HandlerTypes', NEW w \in Workers, CheckUnresolved(w), Blocked(cur[w])
    PROVE  Core'
  <1> USE ConstantFacts
      DEF IInv, CheckUnresolved, Goto, At, HandlerTypes, LoadedPC, ApplyingPC, CommittingPC,
          syncVars
  <1>0. /\ HandlerTypes /\ jobs \in [JobIds -> Jobs] /\ cur[w] \in JobIds
        /\ flight = {} /\ UNCHANGED flight
        /\ \A v \in Workers : cur'[v] = IF v = w THEN NULL ELSE cur[v]
    BY TypeParts DEF HandlerInv
  <1>w. Written(cur[w], "PENDING", jobs[cur[w]].attempts - 1, FALSE,
               jobs[cur[w]].evidence, jobs[cur[w]].fin, jobs[cur[w]].rel)
    <2>1. jobs[cur[w]].unknown = FALSE
      BY <1>0, JobFields DEF HandlerInv
    <2>2. /\ jobs[cur[w]].attempts > 0
          /\ jobs' = [jobs EXCEPT ![cur[w]].status = "PENDING", ![cur[w]].attempts = @ - 1]
      BY DEF HandlerInv
    <2>3. Written(cur[w], "PENDING", jobs[cur[w]].attempts - 1, jobs[cur[w]].unknown,
                 jobs[cur[w]].evidence, jobs[cur[w]].fin, jobs[cur[w]].rel)
      BY <1>0, <2>2, ResetWrites
    <2>4. QED
      BY <2>1, <2>3 DEF Written
  <1>d. \A i \in JobIds : Done(i) => i # cur[w] /\ Done(i)'
    BY <1>0, <1>w DEF Done, Written, JobInv
  <1>1. HandlerInv'
    BY <1>0, <1>w DEF HandlerInv, Written, ExclusiveInv
  <1>2. ExclusiveInv'
    BY <1>0 DEF ExclusiveInv, Working
  <1>3. JobInv'
    BY <1>0, <1>w, <1>d DEF Written, JobInv, HandlerInv, Done, InFlight
  <1>4. WorkInv'
    BY <1>0, <1>w, <1>d DEF Written, WorkInv, Working, InFlight, ExclusiveInv
  <1>5. FlightInv'
    BY <1>0 DEF FlightInv
  <1>6. FileInv'
    BY <1>0, <1>w DEF FileInv, Written
  <1>7. LoadedIsProved'
    BY <1>0, LoadedFrame
  <1>8. QED
    BY <1>1, <1>2, <1>3, <1>4, <1>5, <1>6, <1>7 DEF Core

\* The commit that was under way lands, or not.
LEMMA FlightStep ==
    ASSUME IInv, FlightLands
    PROVE  Core'
  <1> USE ConstantFacts DEF IInv, LoadedPC, ApplyingPC, CommittingPC, syncVars, work
  <1>p. PICK f \in flight :
            /\ flight' = flight \ {f}
            /\ Finalized(f.job, f.evidence) \/ UNCHANGED jobs
            /\ UNCHANGED <<syncVars, desired, gens, file, runtime, lock, pc, work>>
    BY DEF FlightLands
  <1>0. /\ HandlerTypes /\ jobs \in [JobIds -> Jobs]
        /\ f.job \in JobIds /\ f.evidence \in Contents /\ flight' = {}
        /\ UNCHANGED <<desired, receipt, file, runtime, pc, cur, cand, session>>
    BY <1>p, TypeParts DEF FlightInv, TypeRest
  <1>w. \/ jobs' = jobs
        \/ Written(f.job, "SUCCEEDED", jobs[f.job].attempts, FALSE, f.evidence,
                   jobs[f.job].fin, "PENDING")
    BY <1>0, <1>p, FinalizedWrites
  <1>j. /\ jobs[f.job].status = "RUNNING" /\ \A i \in JobIds : i < f.job => Done(i)
        /\ \A v \in Workers : Working(v) <=> cur[v] = f.job
        /\ file = f.evidence /\ runtime = f.evidence
    BY DEF FlightInv
  <1>d. \A i \in JobIds : Done(i) => i # f.job /\ Done(i)'
    BY <1>0, <1>w, <1>j DEF Done, Written
  <1>1. HandlerInv'
    <2>1. \A v \in Workers : pc[v] = "claimed" => cur[v] \in JobIds /\ cur[v] # f.job
      BY <1>0, <1>j DEF HandlerInv, Working, HandlerTypes
    <2>2. \A i \in JobIds : i # f.job => jobs'[i] = jobs[i]
      BY <1>w DEF Written
    <2>3. QED
      BY <1>0, <2>1, <2>2 DEF HandlerInv
  <1>2. ExclusiveInv'
    BY <1>0 DEF ExclusiveInv, Working
  <1>3. JobInv'
    BY <1>0, <1>w, <1>j, <1>d DEF Written, JobInv, Done, InFlight
  <1>4. WorkInv'
    BY <1>0, <1>w, <1>j, <1>d DEF Written, WorkInv, Working, InFlight
  <1>5. FlightInv'
    BY <1>0 DEF FlightInv
  <1>6. FileInv'
    BY <1>0, <1>w, <1>j, <1>d DEF FileInv, Written, JobInv
  <1>7. LoadedIsProved'
    BY <1>0, LoadedFrame
  <1>8. QED
    BY <1>1, <1>2, <1>3, <1>4, <1>5, <1>6, <1>7 DEF Core

\* Rows and receipts change only while nobody reads them under lock and no
\* commit is under way; the cache file is no one's.
LEMMA InputStep ==
    ASSUME IInv, ChangeDesired \/ SyncStep
    PROVE  Core'
  <1>0. UNCHANGED <<jobs, flight, file, runtime, pc, cur, cand, session>>
    BY DEF ChangeDesired, SyncStep, work
  <1>1. \/ UNCHANGED <<desired, receipt>>
        \/ flight = {} /\ \A v \in Workers : session[v] # "reading"
    BY DEF ChangeDesired, SyncStep, RowsFree, syncVars, Resolve, WriteCache, SyncFails,
        SyncRestart
  <1>2. HandlerInv' /\ ExclusiveInv' /\ JobInv' /\ WorkInv' /\ FileInv'
    BY <1>0 DEF IInv, HandlerInv, ExclusiveInv, JobInv, WorkInv, FileInv, Working, Done,
        InFlight
  <1>3. FlightInv'
    BY <1>0, <1>1 DEF IInv, FlightInv, Working, Done
  <1>4. LoadedIsProved'
    BY <1>0, <1>1 DEF IInv, LoadedIsProved
  <1>5. QED
    BY <1>2, <1>3, <1>4 DEF Core

-----------------------------------------------------------------------------
(* The inductive invariant.                                                 *)

\* Every step keeps the types of the jobs.
LEMMA JobTypeStep ==
    ASSUME MihomoTypeOK, HandlerInv, FlightInv, [Next]_vars
    PROVE  jobs' \in [JobIds -> Jobs]
  <1>0. HandlerTypes /\ jobs \in [JobIds -> Jobs]
        /\ \A f \in flight : f.job \in JobIds /\ f.evidence \in Contents
    BY TypeParts DEF TypeRest
  <1>h. \A w \in Workers : /\ cur[w] # NULL => cur[w] \in JobIds
                           /\ pc[w] \in LoadedPC => cand[w] \in Contents
                           /\ pc[w] \notin {"idle", "locked", "release"} => cur[w] \in JobIds
    BY <1>0 DEF HandlerTypes, HandlerInv
  <1>1. CASE UNCHANGED jobs
    BY <1>0, <1>1
  <1>2. CASE FlightLands
    BY <1>0, <1>2, FinalizedWrites DEF FlightLands, Written
  <1>3. ASSUME NEW w \in Workers, Prepare(w) PROVE jobs' \in [JobIds -> Jobs]
    BY <1>0, <1>3, GenerationType, PrepareWrites DEF Prepare, Written
  <1>4. ASSUME NEW w \in Workers, NEW j \in JobIds, Claim(w, j) PROVE jobs' \in [JobIds -> Jobs]
    BY <1>0, <1>4, ClaimWrites DEF Claim, Claimable, Written
  <1>5. ASSUME NEW w \in Workers, CheckUnresolved(w) PROVE jobs' \in [JobIds -> Jobs]
    <2>1. cur[w] \in JobIds /\ jobs[cur[w]].attempts > 0
      BY <1>h, <1>5 DEF CheckUnresolved, At, HandlerInv
    <2>2. jobs' = jobs \/ jobs' = [jobs EXCEPT ![cur[w]].status = "PENDING",
                                              ![cur[w]].attempts = @ - 1]
      BY <1>5 DEF CheckUnresolved
    <2>3. QED
      BY <1>0, <2>1, <2>2, ResetWrites DEF Written
  <1>6. ASSUME NEW w \in Workers, Finalize(w) PROVE jobs' \in [JobIds -> Jobs]
    <2>1. cur[w] \in JobIds /\ cand[w] \in Contents
      BY <1>h, <1>6 DEF Finalize, At, LoadedPC
    <2>2. Finalized(cur[w], cand[w]) \/ jobs' = jobs
      BY <1>6 DEF Finalize
    <2>3. QED
      BY <1>0, <2>1, <2>2, FinalizedWrites DEF Written
  <1>7. ASSUME NEW w \in Workers, MarkUnknown(w) PROVE jobs' \in [JobIds -> Jobs]
    BY <1>0, <1>h, <1>7, DiagnosticWrites, FinBlockerWrites DEF MarkUnknown, At, Written
  <1>8. ASSUME NEW w \in Workers, RecordFailure(w) PROVE jobs' \in [JobIds -> Jobs]
    BY <1>0, <1>h, <1>8, FailureWrites DEF RecordFailure, At, Written
  <1>9. ASSUME NEW w \in Workers, OpenReleaseBlocker(w) \/ ResolveReleaseBlocker(w)
        PROVE  jobs' \in [JobIds -> Jobs]
    <2>1. /\ cur[w] \in JobIds
          /\ \/ jobs' = jobs
             \/ jobs' = [jobs EXCEPT ![cur[w]].rel = "PENDING"]
             \/ jobs' = [jobs EXCEPT ![cur[w]].rel = "SUCCEEDED"]
      BY <1>h, <1>9 DEF OpenReleaseBlocker, ResolveReleaseBlocker, At
    <2>2. QED
      BY <1>0, <2>1, ReleaseWrites DEF Written, Blockers
  <1>10. ASSUME NEW w \in Workers,
                \/ AcquireLock(w) \/ NothingToDo(w) \/ Load(w) \/ BeforeInstallFails(w)
                \/ Install(w) \/ Reload(w) \/ CheckHealth(w) \/ Restore(w)
                \/ ReloadRestored(w) \/ Verify(w) \/ ProbeFinalization(w)
                \/ ReleaseLock(w) \/ Crash(w) \/ LoseLock(w) \/ LoseSession(w)
         PROVE  UNCHANGED jobs
    BY <1>10 DEF AcquireLock, NothingToDo, Load, BeforeInstallFails, Install, Reload,
      CheckHealth, Restore, ReloadRestored, Verify, ProbeFinalization, ReleaseLock, Crash,
      LoseLock, LoseSession
  <1>11. CASE ChangeDesired \/ SyncStep \/ UNCHANGED vars
    BY <1>1, <1>11 DEF ChangeDesired, SyncStep, vars
  <1>12. QED
    BY <1>1, <1>2, <1>3, <1>4, <1>5, <1>6, <1>7, <1>8, <1>9, <1>10, <1>11
    DEF Next, WorkerStep

\* Every step keeps the types of the rest.
LEMMA RestTypeStep ==
    ASSUME MihomoTypeOK, HandlerInv, [Next]_vars
    PROVE  TypeRest'
  <1>0. HandlerTypes /\ TypeRest
    BY TypeParts
  <1>1. CASE UNCHANGED <<desired, gens, flight, file, runtime>>
    BY <1>0, <1>1 DEF TypeRest
  <1>2. CASE ChangeDesired \/ FlightLands
    BY <1>0, <1>2 DEF ChangeDesired, FlightLands, TypeRest
  <1>3. ASSUME NEW w \in Workers, Prepare(w) PROVE TypeRest'
    BY <1>0, <1>3, GenerationType DEF Prepare, TypeRest
  <1>4. ASSUME NEW w \in Workers, Finalize(w) PROVE TypeRest'
    <2>1. cur[w] \in JobIds /\ cand[w] \in Contents
      BY <1>0, <1>4 DEF Finalize, At, LoadedPC, HandlerTypes, HandlerInv
    <2>2. [job |-> cur[w], evidence |-> cand[w]] \in [job : JobIds, evidence : Contents]
      BY <2>1
    <2>3. flight' \subseteq flight \cup {[job |-> cur[w], evidence |-> cand[w]]}
          /\ UNCHANGED <<desired, gens, file, runtime>>
      BY <1>4 DEF Finalize
    <2>4. QED
      BY <1>0, <2>2, <2>3 DEF TypeRest
  <1>5. ASSUME NEW w \in Workers,
               Install(w) \/ Reload(w) \/ Restore(w) \/ ReloadRestored(w)
        PROVE  TypeRest'
    <2>1. /\ file' \in {file, cand[w], backup[w]} /\ runtime' \in {runtime, file}
          /\ UNCHANGED <<desired, gens, flight>>
      BY <1>5 DEF Install, Reload, Restore, ReloadRestored
    <2>2. QED
      BY <1>0, <2>1 DEF TypeRest, HandlerTypes
  <1>6. ASSUME NEW w \in Workers,
               \/ AcquireLock(w) \/ NothingToDo(w) \/ CheckUnresolved(w) \/ Load(w)
               \/ BeforeInstallFails(w) \/ CheckHealth(w) \/ Verify(w)
               \/ ProbeFinalization(w) \/ MarkUnknown(w) \/ RecordFailure(w)
               \/ OpenReleaseBlocker(w) \/ ReleaseLock(w) \/ ResolveReleaseBlocker(w)
               \/ Crash(w) \/ LoseLock(w) \/ LoseSession(w) \/ (\E j \in JobIds : Claim(w, j))
        PROVE  UNCHANGED <<desired, gens, flight, file, runtime>>
    BY <1>6 DEF AcquireLock, NothingToDo, CheckUnresolved, Load, BeforeInstallFails,
      CheckHealth, Verify, ProbeFinalization, MarkUnknown, RecordFailure,
      OpenReleaseBlocker, ReleaseLock, ResolveReleaseBlocker, Crash, LoseLock, LoseSession,
      Claim
  <1>7. CASE SyncStep \/ UNCHANGED vars
    BY <1>1, <1>7 DEF SyncStep, vars
  <1>8. QED
    BY <1>1, <1>2, <1>3, <1>4, <1>5, <1>6, <1>7 DEF Next, WorkerStep

\* Nothing is prepared, claimed or installed.
LEMMA InitIInv == Init => IInv
  <1> SUFFICES ASSUME Init PROVE IInv
    OBVIOUS
  <1> USE ConstantFacts, NoJobType
  <1>1. SyncInv
    BY SourceAssumption DEF Init, SyncInit, SyncInv, SyncTypeOK, Revisions
  <1>2. MihomoTypeOK
    BY <1>1 DEF Init, MihomoTypeOK, SyncInv, PCs
  <1>3. \A j \in JobIds : jobs[j] = NoJob /\ jobs[j].status = "NONE" /\ jobs[j].unknown = FALSE
    BY DEF Init, NoJob
  <1>4. HandlerInv /\ ExclusiveInv /\ LoadedIsProved
    BY DEF Init, HandlerInv, ExclusiveInv, LoadedIsProved, Working, LoadedPC
  <1>5. JobInv
    BY <1>3 DEF Init, JobInv, Done
  <1>6. WorkInv /\ FlightInv
    BY DEF Init, WorkInv, FlightInv, Working
  <1>7. FileInv
    BY <1>3 DEF Init, FileInv
  <1>8. QED
    BY <1>1, <1>2, <1>4, <1>5, <1>6, <1>7 DEF IInv

\* Every step keeps the invariant.
LEMMA NextIInv == IInv /\ [Next]_vars => IInv'
  <1> SUFFICES ASSUME IInv, [Next]_vars PROVE IInv'
    OBVIOUS
  <1>1. SyncInv'
    BY SyncTypeStep DEF IInv
  <1>2. HandlerTypes'
    BY HandlerTypeStep DEF IInv
  <1>3. MihomoTypeOK'
    BY <1>1, <1>2, JobTypeStep, RestTypeStep, TypeParts DEF IInv, SyncInv
  <1>4. CASE UNCHANGED vars
    BY <1>1, <1>3, <1>4
    DEF vars, work, syncVars, IInv, HandlerInv, ExclusiveInv, JobInv, WorkInv, FlightInv,
        FileInv, LoadedIsProved, Working, Done, InFlight
  <1>5. CASE Next
    <2>1. ASSUME ChangeDesired \/ SyncStep \/ FlightLands PROVE Core'
      BY <2>1, InputStep, FlightStep
    <2>2. ASSUME NEW w \in Workers, AcquireLock(w) \/ Prepare(w) \/ NothingToDo(w)
                                    \/ Crash(w) \/ LoseLock(w) \/ LoseSession(w)
          PROVE  Core'
      BY <1>2, <2>2, OutsideStep, PrepareStep, LeaveStep
    <2>3. ASSUME NEW w \in Workers, NEW j \in JobIds, Claim(w, j) PROVE Core'
      BY <1>2, <2>3, ClaimStep
    <2>4. ASSUME NEW w \in Workers, WorkerStep(w), \A j \in JobIds : ~Claim(w, j)
          PROVE  Core'
      BY <1>2, <2>4, CheckPasses, CheckRefuses, LoadStep, UndoStep, WriteStep, ProbeStep,
         FinalizeStep, MarkUnknownStep, RecordFailureStep, OpenReleaseStep, LeaveStep,
         ResolveReleaseStep
      DEF WorkerStep
    <2>5. Core'
      BY <1>5, <2>1, <2>2, <2>3, <2>4 DEF Next
    <2>6. QED
      BY <1>1, <1>3, <2>5 DEF IInv, Core
  <1>6. QED
    BY <1>4, <1>5

\* The invariant holds in every reachable state.
LEMMA InductiveInvariant == Spec => []IInv
  BY InitIInv, NextIInv, PTL DEF Spec

-----------------------------------------------------------------------------
(* The theorems.                                                            *)

\* Every row, candidate, file and commit under way keeps its type; attempts
\* stay within max_attempts.
THEOREM TypeCorrect == Spec => []MihomoTypeOK
  <1>1. IInv => MihomoTypeOK
    BY DEF IInv
  <1>2. QED
    BY <1>1, InductiveInvariant, PTL

\* Two reconcilers never work on the installed file at once, however many there
\* are and whatever connections they lose: the job order and the blockers do
\* what the named lock alone does not.
THEOREM ApplierAlone == Spec => []OneApplier
  <1>1. IInv => OneApplier
    <2>1. IInv => \A w \in Workers : pc[w] \in LoadedPC => Working(w)
      BY DEF IInv, HandlerInv, Working, LoadedPC
    <2>2. QED
      BY <2>1 DEF IInv, ExclusiveInv, OneApplier, LoadedPC
  <1>2. QED
    BY <1>1, InductiveInvariant, PTL

\* Jobs succeed in the order they were prepared, and stay so.
THEOREM OrderKept == Spec => []SucceedInOrder
  <1>1. IInv => SucceedInOrder
    BY DEF IInv, JobInv, Done, SucceedInOrder
  <1>2. QED
    BY <1>1, InductiveInvariant, PTL

\* Once everything is settled the runtime and the file hold what the newest
\* job's evidence says it verified.
THEOREM SettledServed == Spec => []SettledIsServed
  <1>1. IInv => SettledIsServed
    BY DEF IInv, FileInv, SettledIsServed
  <1>2. QED
    BY <1>1, InductiveInvariant, PTL

\* A candidate held under row locks is the committed desired state with the
\* bytes the committed receipt proves.
THEOREM LoadedProved == Spec => []LoadedIsProved
  <1>1. IInv => LoadedIsProved
    BY DEF IInv
  <1>2. QED
    BY <1>1, InductiveInvariant, PTL

-----------------------------------------------------------------------------
(* The action properties.                                                   *)

\* Who changes a job: its handler, a commit under way, a claim of a row that is
\* open to it, or the transaction that prepares it.
LEMMA JobChanges ==
    ASSUME IInv, Next, NEW j \in JobIds, jobs'[j] # jobs[j]
    PROVE  \/ \E w \in Workers : cur[w] = j /\ WorkerStep(w)
           \/ InFlight(j) /\ FlightLands
           \/ \E w \in Workers : Claim(w, j)
           \/ jobs[j].status = "NONE" /\ jobs'[j].status = "PENDING"
  <1>0. HandlerTypes /\ jobs \in [JobIds -> Jobs]
        /\ \A f \in flight : f.job \in JobIds /\ f.evidence \in Contents
    BY TypeParts DEF IInv, TypeRest
  <1>1. CASE ChangeDesired \/ SyncStep
    BY <1>1 DEF ChangeDesired, SyncStep
  <1>2. CASE FlightLands
    <2>1. PICK f \in flight : Finalized(f.job, f.evidence) \/ UNCHANGED jobs
      BY <1>2 DEF FlightLands
    <2>2. f.job = j
      BY <1>0, <2>1, FinalizedWrites DEF Written
    <2>3. QED
      BY <1>2, <2>2 DEF InFlight
  <1>3. ASSUME NEW w \in Workers, Prepare(w)
        PROVE  jobs[j].status = "NONE" /\ jobs'[j].status = "PENDING"
    <2>1. PICK k \in JobIds : /\ NextId(k)
                              /\ Written(k, "PENDING", 0, FALSE, NULL, "NONE", "NONE")
      BY <1>0, <1>3, GenerationType, PrepareWrites DEF Prepare, IInv
    <2>2. QED
      BY <2>1 DEF NextId, Written
  <1>4. ASSUME NEW w \in Workers, NEW k \in JobIds, Claim(w, k) PROVE k = j
    BY <1>0, <1>4, ClaimWrites DEF Claim, Claimable, Written
  <1>5. ASSUME NEW w \in Workers, CheckUnresolved(w) \/ Finalize(w) \/ MarkUnknown(w)
               \/ RecordFailure(w) \/ OpenReleaseBlocker(w) \/ ResolveReleaseBlocker(w)
        PROVE  cur[w] = j /\ WorkerStep(w)
    BY <1>0, <1>5
    DEF WorkerStep, CheckUnresolved, Finalize, Finalized, MarkUnknown, RecordFailure,
        OpenReleaseBlocker, ResolveReleaseBlocker
  <1>6. ASSUME NEW w \in Workers,
               \/ AcquireLock(w) \/ NothingToDo(w) \/ Load(w) \/ BeforeInstallFails(w)
               \/ Install(w) \/ Reload(w) \/ CheckHealth(w) \/ Restore(w)
               \/ ReloadRestored(w) \/ Verify(w) \/ ProbeFinalization(w)
               \/ ReleaseLock(w) \/ Crash(w) \/ LoseLock(w) \/ LoseSession(w)
        PROVE  FALSE
    BY <1>6 DEF AcquireLock, NothingToDo, Load, BeforeInstallFails, Install, Reload,
      CheckHealth, Restore, ReloadRestored, Verify, ProbeFinalization, ReleaseLock, Crash,
      LoseLock, LoseSession
  <1>7. QED
    BY <1>1, <1>2, <1>3, <1>4, <1>5, <1>6 DEF Next, WorkerStep

\* A job under an UNKNOWN diagnostic that no handler works on any more is never
\* claimed, finalized or failed (_claim and the diagnostics of _mark_unknown).
THEOREM ManualKept == Spec => UnknownStaysManual
  <1>1. IInv /\ [Next]_vars =>
            [\A j \in JobIds :
                jobs[j].unknown /\ (\A w \in Workers : cur[w] # j) => jobs'[j] = jobs[j]]_vars
    <2> SUFFICES ASSUME IInv, Next, NEW j \in JobIds, jobs[j].unknown,
                        \A w \in Workers : cur[w] # j, jobs'[j] # jobs[j]
                 PROVE  FALSE
      OBVIOUS
    <2>1. jobs[j].status = "RUNNING"
      BY DEF IInv, JobInv
    <2>2. ~InFlight(j)
      BY DEF IInv, FlightInv, InFlight
    <2>3. \A w \in Workers : ~Claim(w, j)
      BY <2>1 DEF Claim, Claimable
    <2>4. QED
      BY <2>1, <2>2, <2>3, JobChanges
  <1>2. QED
    BY <1>1, InductiveInvariant, PTL DEF Spec, UnknownStaysManual

\* SUCCEEDED is written only while its evidence is the committed desired state
\* with the bytes of the committed receipt, at once or by a commit that lands
\* after its handler has gone.
THEOREM CurrentFinalized == Spec => FinalizesCurrent
  <1>1. IInv /\ [Next]_vars =>
            [\A j \in JobIds :
                jobs[j].status # "SUCCEEDED" /\ jobs'[j].status = "SUCCEEDED" =>
                    /\ jobs'[j].evidence.rows = desired
                    /\ jobs'[j].evidence.feed = receipt.hash]_vars
    <2> SUFFICES ASSUME IInv, Next, NEW j \in JobIds,
                        jobs[j].status # "SUCCEEDED", jobs'[j].status = "SUCCEEDED"
                 PROVE  /\ jobs'[j].evidence.rows = desired
                        /\ jobs'[j].evidence.feed = receipt.hash
      OBVIOUS
    <2>0. HandlerTypes /\ jobs \in [JobIds -> Jobs]
          /\ \A f \in flight : f.job \in JobIds /\ f.evidence \in Contents
      BY TypeParts DEF IInv, TypeRest
    <2>1. CASE FlightLands
      <3>1. PICK f \in flight : Finalized(f.job, f.evidence)
        BY <2>1 DEF FlightLands
      <3>2. /\ \A i \in JobIds : i # f.job => jobs'[i] = jobs[i]
            /\ jobs'[f.job].evidence = f.evidence
        BY <2>0, <3>1, FinalizedWrites DEF Written
      <3>3. QED
        BY <3>2 DEF IInv, FlightInv
    <2>2. ASSUME NEW w \in Workers, \E k \in JobIds : Claim(w, k) PROVE FALSE
      BY <2>0, <2>2 DEF Claim
    <2>3. ASSUME NEW w \in Workers, cur[w] = j, WorkerStep(w)
          PROVE  Finalize(w) /\ Finalized(j, cand[w]) /\ session[w] = "reading"
      <3>1. jobs' # jobs
        OBVIOUS
      <3>2. ~(\/ Load(w) \/ BeforeInstallFails(w) \/ Install(w) \/ Reload(w)
              \/ CheckHealth(w) \/ Restore(w) \/ ReloadRestored(w) \/ Verify(w)
              \/ ProbeFinalization(w) \/ ReleaseLock(w))
        BY <3>1 DEF Load, BeforeInstallFails, Install, Reload, CheckHealth, Restore,
          ReloadRestored, Verify, ProbeFinalization, ReleaseLock
      <3>3. ~CheckUnresolved(w)
        BY <2>0, <2>3, <3>1, ResetWrites DEF CheckUnresolved, At, IInv, HandlerInv, Written
      <3>4. ~MarkUnknown(w)
        BY <2>0, <2>3, <3>1, DiagnosticWrites, FinBlockerWrites DEF MarkUnknown, Written
      <3>5. ~RecordFailure(w)
        BY <2>0, <2>3, <3>1, FailureWrites DEF RecordFailure, Written
      <3>6. ~OpenReleaseBlocker(w) /\ ~ResolveReleaseBlocker(w)
        BY <2>0, <2>3, <3>1, ReleaseWrites
        DEF OpenReleaseBlocker, ResolveReleaseBlocker, Written, Blockers
      <3>7. Finalize(w)
        BY <2>2, <2>3, <3>2, <3>3, <3>4, <3>5, <3>6 DEF WorkerStep
      <3>8. QED
        BY <2>3, <3>1, <3>7 DEF Finalize
    <2>4. ASSUME NEW w \in Workers, Finalize(w), Finalized(j, cand[w]), session[w] = "reading"
          PROVE  /\ jobs'[j].evidence.rows = desired
                 /\ jobs'[j].evidence.feed = receipt.hash
      <3>1. cand[w] \in Contents
        BY <2>0, <2>4 DEF IInv, HandlerInv, HandlerTypes
      <3>2. jobs'[j].evidence = cand[w]
        BY <2>0, <2>4, <3>1, FinalizedWrites DEF Written
      <3>3. QED
        BY <2>4, <3>2 DEF IInv, LoadedIsProved
    <2>5. QED
      BY <2>1, <2>2, <2>3, <2>4, JobChanges
  <1>2. QED
    BY <1>1, InductiveInvariant, PTL DEF Spec, FinalizesCurrent

=============================================================================
