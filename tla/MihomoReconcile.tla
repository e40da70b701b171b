-------------------------- MODULE MihomoReconcile ---------------------------
(***************************************************************************)
(* Reconciliation of the full Mihomo configuration                         *)
(* (infra/mihomo_reconciliation.py, _blocker, _generation,                 *)
(* _projection_lock, _materialization and providers/forwarder/mihomo.py),  *)
(* composed with the transport sync that produces one of its inputs.       *)
(*                                                                         *)
(* A writer prepares a generation (the fingerprint of the desired state)   *)
(* and a MIHOMO_RECONCILE job in one commit.  A reconciler claims the      *)
(* lowest job, rebuilds the desired state with locking reads, installs it, *)
(* reloads, verifies, and commits SUCCEEDED together with a LOCK_RELEASE   *)
(* blocker.  The blocker is resolved after RELEASE_LOCK is confirmed; any  *)
(* unresolved blocker stops every reconciler until a person clears it.     *)
(*                                                                         *)
(* Faults: a commit may land unacknowledged or while the observer already  *)
(* looks, the lock's connection or the session's connection may be lost    *)
(* while the handler goes on, reloads may fail with or without effect, and *)
(* a process may die between any two steps.  The 15-minute lease of a      *)
(* RUNNING row and the back-off (two minutes or more) of a FAILED one are  *)
(* taken to outlast the handler that wrote them; once it has ended, they   *)
(* may have elapsed whenever a reconciler looks.                           *)
(***************************************************************************)
EXTENDS TransportSync, Sequences

CONSTANTS
    Rows,          \* states of the desired routing rows
    CanonicalOf,   \* raw bytes -> canonical JSON encoding of their document
    Ops,           \* operation ids passed to prepare_mihomo_reconciliation
    Workers,       \* processes that prepare and reconcile
    MaxJobs,       \* bound: rows of the jobs table
    MaxAttempts    \* Job.max_attempts (5 in the code)

JobIds   == 1..MaxJobs
Contents == [rows : Rows, feed : Feeds]

ASSUME CanonicalAssumption ==
    /\ CanonicalOf \in [Feeds -> Feeds]
    /\ \A f \in Feeds : CanonicalOf[CanonicalOf[f]] = CanonicalOf[f]
ASSUME JobAssumption == MaxJobs \in Nat /\ MaxAttempts \in Nat \ {0}
ASSUME MihomoNullAssumption ==
    NULL \notin Workers \cup JobIds \cup Contents \cup Ops

VARIABLES
    desired,    \* committed routing rows (route groups, rules, egress...)
    gens,       \* mihomo_projection_generations, by revision
    jobs,       \* MIHOMO_RECONCILE jobs by id, each with its two blockers
    flight,     \* finalization commits the server has not finished
    file,       \* the installed Mihomo configuration file
    runtime,    \* the configuration Mihomo serves (external)
    lock,       \* holder of the MySQL named lock
    pc, cur,    \* where each worker stands, and the job it works on
    cand,       \* its candidate
    backup,     \* its copy of the file it replaced
    session,    \* its transaction: holding row locks, lost, or not open
    uncertain   \* SESSION_INFO_DURABLE_STATE_UNKNOWN_KEY

work == <<cur, cand, backup, session, uncertain>>
vars == <<syncVars, desired, gens, jobs, flight, file, runtime, lock, pc, work>>

Statuses == {"NONE", "PENDING", "RUNNING", "FAILED", "SUCCEEDED"}
Blockers == {"NONE", "PENDING", "SUCCEEDED"}
Jobs == [status : Statuses, op : Ops \cup {NULL}, gen : Nat,
         attempts : 0..MaxAttempts,
         unknown : BOOLEAN,                 \* last_error_code is an UNKNOWN one
         evidence : Contents \cup {NULL},   \* finalization_evidence
         fin : Blockers, rel : Blockers]    \* FINALIZATION, LOCK_RELEASE
PCs == {"idle", "locked", "claimed", "checked", "loaded", "installed",
        "reloaded", "rollback", "restored", "applied", "verified",
        "finalProbe", "failing", "unknown", "release", "releasing",
        "resolving"}

NoJob == [status |-> "NONE", op |-> NULL, gen |-> 0, attempts |-> 0,
          unknown |-> FALSE, evidence |-> NULL, fin |-> "NONE", rel |-> "NONE"]

MihomoTypeOK ==
    /\ SyncTypeOK
    /\ desired \in Rows
    /\ gens \in Seq([rows : Rows, receipt : Receipts])
    /\ jobs \in [JobIds -> Jobs]
    /\ flight \subseteq [job : JobIds, evidence : Contents]
    /\ file \in Contents \cup {NULL}
    /\ runtime \in Contents \cup {NULL}
    /\ lock \in Workers \cup {NULL}
    /\ pc \in [Workers -> PCs]
    /\ cur \in [Workers -> JobIds \cup {NULL}]
    /\ cand \in [Workers -> Contents \cup {NULL}]
    /\ backup \in [Workers -> Contents \cup {NULL}]
    /\ session \in [Workers -> {"none", "reading", "lost"}]
    /\ uncertain \in [Workers -> BOOLEAN]

\* NULL also stands for the configuration the deployment installed.
Init ==
    /\ SyncInit
    /\ desired \in Rows
    /\ gens = <<>>
    /\ jobs = [j \in JobIds |-> NoJob]
    /\ flight = {}
    /\ file = NULL
    /\ runtime = NULL
    /\ lock = NULL
    /\ pc = [w \in Workers |-> "idle"]
    /\ cur = [w \in Workers |-> NULL]
    /\ cand = [w \in Workers |-> NULL]
    /\ backup = [w \in Workers |-> NULL]
    /\ session = [w \in Workers |-> "none"]
    /\ uncertain = [w \in Workers |-> FALSE]

-----------------------------------------------------------------------------
At(w, here)    == pc[w] = here
Goto(w, there) == pc' = [pc EXCEPT ![w] = there]
EndSession(w)  == session' = [session EXCEPT ![w] = "none"]

\* The handler is over: its connections are closed, its locks are gone.
Leave(w) ==
    /\ pc' = [pc EXCEPT ![w] = "idle"]
    /\ lock' = IF lock = w THEN NULL ELSE lock
    /\ cur' = [cur EXCEPT ![w] = NULL]
    /\ cand' = [cand EXCEPT ![w] = NULL]
    /\ backup' = [backup EXCEPT ![w] = NULL]
    /\ session' = [session EXCEPT ![w] = "none"]
    /\ uncertain' = [uncertain EXCEPT ![w] = FALSE]

InFlight(j) == \E f \in flight : f.job = j

\* Mutant: plain reads in place of SELECT ... FOR UPDATE.
RowsFreeUnlocked(others) == TRUE

\* No transaction of the others holds the rows of the desired state locked.
RowsFree(others) ==
    /\ \A v \in others : session[v] # "reading"
    /\ flight = {}

\* A transaction of the application changes routing rows.
ChangeDesired ==
    /\ RowsFree(Workers)
    /\ desired' \in Rows \ {desired}
    /\ UNCHANGED <<syncVars, gens, jobs, flight, file, runtime, lock, pc, work>>

\* Sync transactions wait for the loader's row locks; the cache file does not.
SyncStep ==
    /\ \/ RowsFree(Workers) /\ (RotateSource \/ \E s \in Syncers : CommitReceipt(s))
       \/ \E s \in Syncers :
             Resolve(s) \/ WriteCache(s) \/ SyncFails(s) \/ SyncRestart(s)
    /\ UNCHANGED <<desired, gens, jobs, flight, file, runtime, lock, pc, work>>

-----------------------------------------------------------------------------
(* The named lock and prepare_mihomo_reconciliation.                        *)

AcquireLock(w) ==
    /\ At(w, "idle")
    /\ lock = NULL
    /\ lock' = w
    /\ Goto(w, "locked")
    /\ UNCHANGED <<syncVars, desired, gens, jobs, flight, file, runtime, work>>

\* load_current: rows by locking reads, transport content from the verified
\* file; the manifest carries the receipt's proof fields.
Content     == [rows |-> desired, feed |-> cache]
Fingerprint == [rows |-> desired, receipt |-> receipt]

\* allocate_generation: only the latest generation may be reused.
Generation == IF gens # <<>> /\ gens[Len(gens)] = Fingerprint
              THEN gens
              ELSE Append(gens, Fingerprint)

\* The next primary key.
NextId(j) ==
    /\ jobs[j].status = "NONE"
    /\ \A i \in JobIds : i < j => jobs[i].status # "NONE"

\* Generation and job in one commit; the transaction cannot land by halves.
Prepare(w) ==
    /\ At(w, "locked")
    /\ RowsFree(Workers \ {w})
    /\ Verified
    /\ \E op \in Ops, j \in JobIds :
          /\ \A i \in JobIds : jobs[i].op # op
          /\ NextId(j)
          /\ gens' = Generation
          /\ jobs' = [jobs EXCEPT ![j] = [NoJob EXCEPT
                         !.status = "PENDING", !.op = op, !.gen = Len(Generation)]]
    /\ Goto(w, "release")
    /\ UNCHANGED <<syncVars, desired, flight, file, runtime, lock, work>>

\* Nothing is prepared (the operation id has a job already, of this or of
\* another generation, or the load or the commit fails) or nothing is claimed.
NothingToDo(w) ==
    /\ At(w, "locked")
    /\ Goto(w, "release")
    /\ UNCHANGED <<syncVars, desired, gens, jobs, flight, file, runtime, lock, work>>

-----------------------------------------------------------------------------
(* reconcile_mihomo_job                                                     *)

\* Mutants: a row under an UNKNOWN diagnostic is claimed again as stale; a
\* RUNNING row is claimed whoever works on it; attempts are not limited.
ClaimableUnknown(j) ==
    /\ jobs[j].status \in {"PENDING", "FAILED", "RUNNING"}
    /\ jobs[j].attempts < MaxAttempts
    /\ \A w \in Workers : cur[w] # j
    /\ ~InFlight(j)
ClaimableNoLease(j) ==
    /\ \/ jobs[j].status \in {"PENDING", "FAILED"}
       \/ jobs[j].status = "RUNNING" /\ ~jobs[j].unknown
    /\ jobs[j].attempts < MaxAttempts
    /\ ~InFlight(j)
ClaimableForEver(j) ==
    /\ jobs[j].status \in {"PENDING", "FAILED"}
    /\ \A w \in Workers : cur[w] # j
    /\ ~InFlight(j)

\* _claim skips locked rows.  A RUNNING row is stale, and the back-off of a
\* FAILED one is over, only once the handler that wrote it has ended.
Claimable(j) ==
    /\ \/ jobs[j].status \in {"PENDING", "FAILED"}
       \/ jobs[j].status = "RUNNING" /\ ~jobs[j].unknown
    /\ jobs[j].attempts < MaxAttempts
    /\ \A w \in Workers : cur[w] # j
    /\ ~InFlight(j)

\* Lowest id first; a lower FAILED row may still be backing off and a lower
\* RUNNING row within its lease, but a PENDING row is always available.
Claim(w, j) ==
    /\ At(w, "locked")
    /\ Claimable(j)
    /\ \A i \in JobIds : i < j /\ Claimable(i) => jobs[i].status # "PENDING"
    /\ jobs' = [jobs EXCEPT ![j].status = "RUNNING", ![j].attempts = @ + 1]
    /\ cur' = [cur EXCEPT ![w] = j]
    /\ Goto(w, "claimed")
    /\ UNCHANGED <<syncVars, desired, gens, flight, file, runtime, lock,
                   cand, backup, session, uncertain>>

\* Mutant: the job counts as its own obstacle.
BlockedByItself(j) ==
    \E i \in JobIds : i <= j /\ jobs[i].status \notin {"NONE", "SUCCEEDED"}

\* assert_no_unresolved_mihomo_mutation
Blocked(j) ==
    \/ \E i \in JobIds : jobs[i].fin = "PENDING" \/ jobs[i].rel = "PENDING"
    \/ \E i \in JobIds : i < j /\ jobs[i].status \notin {"NONE", "SUCCEEDED"}

\* The check reads with row locks, so it waits for a commit in flight.  A
\* blocked claim is given back with its attempt (_reset_blocked_claim).
CheckUnresolved(w) ==
    LET j == cur[w] IN
    /\ At(w, "claimed")
    /\ flight = {}
    /\ \/ /\ ~Blocked(j)
          /\ Goto(w, "checked")
          /\ UNCHANGED <<jobs, cur>>
       \/ /\ Blocked(j)
          /\ jobs' = IF jobs[j].status = "RUNNING"
                     THEN [jobs EXCEPT ![j].status = "PENDING",
                                       ![j].attempts = @ - 1]
                     ELSE jobs
          /\ cur' = [cur EXCEPT ![w] = NULL]
          /\ Goto(w, "release")
    /\ UNCHANGED <<syncVars, desired, gens, flight, file, runtime, lock,
                   cand, backup, session, uncertain>>

\* loader.load: the generation row is only looked up, and the CURRENT desired
\* state is read and labelled with its revision.
Load(w) ==
    /\ At(w, "checked")
    /\ RowsFree(Workers \ {w})
    /\ Verified
    /\ cand' = [cand EXCEPT ![w] = Content]
    /\ session' = [session EXCEPT ![w] = "reading"]
    /\ Goto(w, "loaded")
    /\ UNCHANGED <<syncVars, desired, gens, jobs, flight, file, runtime, lock,
                   cur, backup, uncertain>>

\* The receipt hashes raw bytes; _validate_materialization hashes the
\* canonical JSON of the parsed document.
HashBytes(f)  == f
Digest(f)     == CanonicalOf[f]
Composable(c) == Digest(c.feed) = HashBytes(c.feed)

\* Any error before the file is replaced: loading, composing, resolving a
\* secret, the backup.
BeforeInstallFails(w) ==
    /\ pc[w] \in {"checked", "loaded"}
    /\ EndSession(w)
    /\ Goto(w, "failing")
    /\ UNCHANGED <<syncVars, desired, gens, jobs, flight, file, runtime, lock,
                   cur, cand, backup, uncertain>>

\* render, finalize, backup, install; installing may raise before or after
\* the replacement.
Install(w) ==
    /\ At(w, "loaded")
    /\ Composable(cand[w])
    /\ backup' = [backup EXCEPT ![w] = file]
    /\ \/ file' = cand[w] /\ Goto(w, "installed")
       \/ file' \in {file, cand[w]} /\ Goto(w, "rollback")
    /\ UNCHANGED <<syncVars, desired, gens, jobs, flight, runtime, lock,
                   cur, cand, session, uncertain>>

\* reload.  It may raise although Mihomo has taken the file, and an accepted
\* request is no proof that it has: that is what the verifier is for.
Reload(w) ==
    /\ At(w, "installed")
    /\ runtime' \in {runtime, file}
    /\ Goto(w, "reloaded") \/ Goto(w, "rollback")
    /\ UNCHANGED <<syncVars, desired, gens, jobs, flight, file, lock, work>>

CheckHealth(w) ==
    /\ At(w, "reloaded")
    /\ Goto(w, "applied") \/ Goto(w, "rollback")
    /\ UNCHANGED <<syncVars, desired, gens, jobs, flight, file, runtime, lock, work>>

\* _rollback: a failed restore leaves either file.
Restore(w) ==
    /\ At(w, "rollback")
    /\ \/ file' = backup[w] /\ Goto(w, "restored") /\ UNCHANGED session
       \/ file' \in {file, backup[w]} /\ Goto(w, "unknown") /\ EndSession(w)
    /\ UNCHANGED <<syncVars, desired, gens, jobs, flight, runtime, lock,
                   cur, cand, backup, uncertain>>

\* Reload and health of the restored file: verified (retryable), or unknown.
ReloadRestored(w) ==
    /\ At(w, "restored")
    /\ runtime' \in {runtime, file}
    /\ Goto(w, "failing") \/ Goto(w, "unknown")
    /\ EndSession(w)
    /\ UNCHANGED <<syncVars, desired, gens, jobs, flight, file, lock,
                   cur, cand, backup, uncertain>>

\* Mutant: the verifier's verdict is not looked at.
VerifyUnchecked(w) ==
    /\ At(w, "applied")
    /\ Goto(w, "verified")
    /\ UNCHANGED <<syncVars, desired, gens, jobs, flight, file, runtime, lock, work>>

\* The verifier compares the runtime with the candidate, or fails.
Verify(w) ==
    /\ At(w, "applied")
    /\ \/ runtime = cand[w] /\ Goto(w, "verified") /\ UNCHANGED session
       \/ Goto(w, "unknown") /\ EndSession(w)
    /\ UNCHANGED <<syncVars, desired, gens, jobs, flight, file, runtime, lock,
                   cur, cand, backup, uncertain>>

\* Mutant: SUCCEEDED is committed without the release blocker.
FinalizedNoBlocker(j, c) ==
    jobs' = [jobs EXCEPT ![j].status = "SUCCEEDED", ![j].evidence = c,
                         ![j].unknown = FALSE]

\* SUCCEEDED, the evidence and the LOCK_RELEASE blocker, in one commit.
Finalized(j, c) ==
    jobs' = [jobs EXCEPT ![j].status = "SUCCEEDED", ![j].evidence = c,
                         ![j].unknown = FALSE, ![j].rel = "PENDING"]

\* The commit is acknowledged; or lands unacknowledged, is still under way
\* on the server, or did not land.
Finalize(w) ==
    /\ At(w, "verified")
    /\ \/ /\ session[w] = "reading"
          /\ Finalized(cur[w], cand[w])
          /\ Goto(w, "release") \/ Goto(w, "finalProbe")
          /\ UNCHANGED flight
       \/ /\ session[w] = "reading"
          /\ flight' = flight \cup {[job |-> cur[w], evidence |-> cand[w]]}
          /\ Goto(w, "finalProbe")
          /\ UNCHANGED jobs
       \/ Goto(w, "finalProbe") /\ UNCHANGED <<jobs, flight>>
    /\ EndSession(w)
    /\ UNCHANGED <<syncVars, desired, gens, file, runtime, lock,
                   cur, cand, backup, uncertain>>

\* The server ends the commit it was left with.
FlightLands ==
    \E f \in flight :
        /\ flight' = flight \ {f}
        /\ Finalized(f.job, f.evidence) \/ UNCHANGED jobs
        /\ UNCHANGED <<syncVars, desired, gens, file, runtime, lock, pc, work>>

\* classify_finalization_outcome, by an observer that waits for no lock.
Outcome(w) ==
    LET job == jobs[cur[w]] IN
    CASE job.status = "SUCCEEDED" /\ job.evidence = cand[w] /\ job.rel = "PENDING"
            -> "LANDED"
      [] job.status = "RUNNING" /\ job.evidence = NULL /\ ~job.unknown
            -> "ABSENT"
      [] OTHER -> "UNKNOWN"

\* The observer may fail: UNKNOWN.
ProbeFinalization(w) ==
    /\ At(w, "finalProbe")
    /\ \/ Outcome(w) = "LANDED" /\ Goto(w, "release")
       \/ Outcome(w) = "ABSENT" /\ Goto(w, "failing")
       \/ Goto(w, "unknown")
    /\ UNCHANGED <<syncVars, desired, gens, jobs, flight, file, runtime, lock, work>>

\* _mark_unknown: the locked re-read waits for a commit in flight.  A row that
\* is RUNNING without evidence gets the diagnostic, any other the FINALIZATION
\* blocker.  A commit that fails here may have landed and sets the flag that
\* keeps the release blocker unresolved.
MarkUnknown(w) ==
    LET j == cur[w]
        marked == IF Outcome(w) = "ABSENT"
                  THEN [jobs EXCEPT ![j].unknown = TRUE]
                  ELSE [jobs EXCEPT ![j].fin = "PENDING"] IN
    /\ At(w, "unknown")
    /\ ~InFlight(j)
    /\ \/ /\ Outcome(w) = "LANDED"
          /\ UNCHANGED <<jobs, uncertain>>
       \/ /\ Outcome(w) # "LANDED"
          /\ jobs' = marked
          /\ UNCHANGED uncertain
       \/ /\ Outcome(w) # "LANDED"
          /\ jobs' \in {jobs, marked}
          /\ uncertain' = [uncertain EXCEPT ![w] = TRUE]
    /\ Goto(w, "release")
    /\ UNCHANGED <<syncVars, desired, gens, flight, file, runtime, lock,
                   cur, cand, backup, session>>

\* _failure; its commit may fail and leave the row RUNNING.  The status it
\* overwrites is not read again.
RecordFailure(w) ==
    /\ At(w, "failing")
    /\ ~InFlight(cur[w])
    /\ jobs' \in {jobs, [jobs EXCEPT ![cur[w]].status = "FAILED",
                                     ![cur[w]].unknown = FALSE]}
    /\ Goto(w, "release")
    /\ UNCHANGED <<syncVars, desired, gens, flight, file, runtime, lock, work>>

-----------------------------------------------------------------------------
(* mihomo_projection_write: leaving the lock.                               *)

\* The release blocker is (re)opened first; without a confirmed commit the
\* connection is invalidated and the lock goes with it.
OpenReleaseBlocker(w) ==
    LET opened == [jobs EXCEPT ![cur[w]].rel = "PENDING"] IN
    /\ At(w, "release")
    /\ cur[w] # NULL
    /\ ~InFlight(cur[w])
    /\ \/ jobs' = opened /\ Goto(w, "releasing") /\ UNCHANGED <<lock, work>>
       \/ jobs' \in {jobs, opened} /\ Leave(w)
    /\ UNCHANGED <<syncVars, desired, gens, flight, file, runtime>>

\* RELEASE_LOCK is confirmed, or it is not (an error, or the lock was lost
\* before) and the blocker stays.
ReleaseLock(w) ==
    /\ At(w, "releasing") \/ (At(w, "release") /\ cur[w] = NULL)
    /\ \/ /\ lock = w /\ cur[w] # NULL /\ ~uncertain[w]
          /\ lock' = NULL
          /\ Goto(w, "resolving")
          /\ UNCHANGED work
       \/ Leave(w)
    /\ UNCHANGED <<syncVars, desired, gens, jobs, flight, file, runtime>>

ResolveReleaseBlocker(w) ==
    /\ At(w, "resolving")
    /\ jobs' \in {jobs, [jobs EXCEPT ![cur[w]].rel = "SUCCEEDED"]}
    /\ Leave(w)
    /\ UNCHANGED <<syncVars, desired, gens, flight, file, runtime>>

-----------------------------------------------------------------------------
(* Faults.                                                                  *)

Crash(w) ==
    /\ ~At(w, "idle")
    /\ Leave(w)
    /\ UNCHANGED <<syncVars, desired, gens, jobs, flight, file, runtime>>

\* The dedicated connection that owns the named lock dies unnoticed.
LoseLock(w) ==
    /\ lock = w
    /\ lock' = NULL
    /\ UNCHANGED <<syncVars, desired, gens, jobs, flight, file, runtime, pc, work>>

\* The session's connection dies: its row locks go, its commit will fail.
LoseSession(w) ==
    /\ session[w] = "reading"
    /\ session' = [session EXCEPT ![w] = "lost"]
    /\ UNCHANGED <<syncVars, desired, gens, jobs, flight, file, runtime, lock,
                   pc, cur, cand, backup, uncertain>>

WorkerStep(w) ==
    \/ (\E j \in JobIds : Claim(w, j)) \/ CheckUnresolved(w) \/ Load(w) \/ BeforeInstallFails(w)
    \/ Install(w) \/ Reload(w) \/ CheckHealth(w) \/ Restore(w)
    \/ ReloadRestored(w) \/ Verify(w) \/ Finalize(w) \/ ProbeFinalization(w)
    \/ MarkUnknown(w) \/ RecordFailure(w) \/ OpenReleaseBlocker(w)
    \/ ReleaseLock(w) \/ ResolveReleaseBlocker(w)

Next ==
    \/ ChangeDesired
    \/ SyncStep
    \/ FlightLands
    \/ \E w \in Workers :
          \/ AcquireLock(w) \/ Prepare(w) \/ NothingToDo(w)
          \/ WorkerStep(w)
          \/ Crash(w) \/ LoseLock(w) \/ LoseSession(w)

Spec == Init /\ [][Next]_vars

\* Every call that was started returns or raises, and the server ends a commit
\* it was left with.  Nothing in the repository calls the reconciler, so no call
\* is fair.
Fairness ==
    /\ WF_vars(FlightLands)
    /\ \A w \in Workers : WF_vars(WorkerStep(w) \/ NothingToDo(w))

FairSpec == Spec /\ Fairness

-----------------------------------------------------------------------------
Settled(j) == jobs[j].status \in {"NONE", "SUCCEEDED"}
Unblocked  == \A j \in JobIds : jobs[j].fin # "PENDING" /\ jobs[j].rel # "PENDING"

\* Two reconcilers never work on the installed file at once, even when one of
\* them has lost the named lock, or its session, without noticing: the lease,
\* the order of jobs and the blockers keep the second out.
OneApplier ==
    \A v, w \in Workers :
        /\ pc[v] \in {"loaded", "installed", "reloaded", "rollback", "restored"}
        /\ pc[w] \in {"loaded", "installed", "reloaded", "rollback", "restored"}
        => v = w

\* Jobs succeed in the order they were prepared: an older intent is never
\* finalized, or reopened, after a newer one.
SucceedInOrder ==
    \A i, j \in JobIds :
        i < j /\ jobs[j].status = "SUCCEEDED" => jobs[i].status = "SUCCEEDED"

\* When every job is settled, no blocker is open and nothing is under way, the
\* runtime serves what the newest job's evidence says it verified, whatever
\* was lost or cut short on the way there.
SettledIsServed ==
    /\ Unblocked
    /\ \A j \in JobIds : Settled(j)
    /\ flight = {}
    => \A j \in JobIds :
          /\ jobs[j].status = "SUCCEEDED"
          /\ \A i \in JobIds : i > j => jobs[i].status = "NONE"
          => runtime = jobs[j].evidence /\ file = jobs[j].evidence

\* A job whose outcome is unknown stays in a person's hands: it is not
\* applied, finalized or failed by a later reconciler (ADR-023).
UnknownStaysManual ==
    [][\A j \in JobIds :
          jobs[j].unknown /\ (\A w \in Workers : cur[w] # j) => jobs'[j] = jobs[j]]_vars

\* A finalization is written only while the evidence IS the committed desired
\* state: rows changed, or a receipt replaced, between load and commit would
\* make a stale candidate authoritative (ADR-025, section 6).
FinalizesCurrent ==
    [][\A j \in JobIds :
          jobs[j].status # "SUCCEEDED" /\ jobs'[j].status = "SUCCEEDED" =>
              /\ jobs'[j].evidence.rows = desired
              /\ jobs'[j].evidence.feed = receipt.hash]_vars

\* Only bytes proved by the committed receipt are loaded for installation: a
\* new file under an old receipt is refused (ADR-025, section 3a).
LoadedIsProved ==
    \A w \in Workers :
        session[w] = "reading" =>
            cand[w].rows = desired /\ cand[w].feed = receipt.hash

\* "content_hash: ... SHA-256 hex of the exact bytes" and "the file has been
\* verified against it" (ADR-025): content that passed the receipt check is
\* accepted by the composer's own hash check.
VerifiedComposes ==
    \A w \in Workers : At(w, "loaded") => Composable(cand[w])

\* A caller that goes on calling: reconcile_mihomo_job takes the lock again and
\* again, and a job that stays claimable is claimed by one of the calls (leases
\* and back-offs elapse between them).
Called ==
    \A w \in Workers :
        /\ []<><<AcquireLock(w)>>_vars
        /\ \A j \in JobIds : SF_vars(Claim(w, j))

\* For a caller that goes on calling, a prepared job succeeds, or ends where the
\* code leaves it to a person: a blocker, an UNKNOWN diagnostic or spent
\* attempts, its own or an earlier job's.  No crash, lost lock or late commit
\* leaves it where further calls find nothing to do.
SettlesIfCalled ==
    Called =>
        \A j \in JobIds :
            jobs[j].status = "PENDING" ~>
                \/ jobs[j].status = "SUCCEEDED"
                \/ ~Unblocked
                \/ \E i \in 1..j :
                      /\ jobs[i].unknown \/ jobs[i].attempts = MaxAttempts
                      /\ \A w \in Workers : cur[w] # i
=============================================================================
