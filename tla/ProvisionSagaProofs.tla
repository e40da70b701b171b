------------------------ MODULE ProvisionSagaProofs ------------------------
(***************************************************************************)
(* Proofs about ProvisionSaga for any number of purchases, user names and   *)
(* accounts of strangers: the type invariant and the safety properties,     *)
(* through one inductive invariant per saga.  That purchases never share a  *)
(* user name is used for SoldIsProvisioned alone.                           *)
(***************************************************************************)
EXTENDS ProvisionSaga, TLAPS

Owns(s) == account[NameOf[s]] # NULL /\ account[NameOf[s]].by = s

\* No account of the saga exists, and none will appear.
Untouched(s) == ~Owns(s) /\ <<s, "create">> \notin late

\* No account of the saga is enabled, and none will appear.
Undone(s) == ~OursEnabled(s) /\ <<s, "create">> \notin late

BeforeCreate == {"idle", "CAPACITY", "ALLOCATE_ENDPOINT", "CREATE_TENANT",
                 "STORE_CREDENTIALS", "APPLY_FORWARDER", "restore"}
AfterCreate  == {"prepared", "APPLY_GATEWAY", "ISSUE_SUBSCRIPTION", "NOTIFY",
                 "activate", "markSucceeded"}
Flushed      == {"CREATE_TENANT", "STORE_CREDENTIALS", "APPLY_FORWARDER",
                 "restore", "CREATE_ACCOUNTING_USER", "prepared",
                 "APPLY_GATEWAY", "ISSUE_SUBSCRIPTION", "NOTIFY", "activate"}
Ending       == {"failing", "failingLate", "markFailed", "done"}

CallInv(s) ==
    /\ call[s] # "idle" => answer[s] = "none"
    /\ answer[s] # "none" => pc[s] \in {"CREATE_ACCOUNTING_USER", "compensate"}

\* What the answers of create_user prove about the service.
CreateInv(s) ==
    /\ pc[s] \in BeforeCreate => Untouched(s)
    /\ pc[s] = "CREATE_ACCOUNTING_USER" =>
          /\ answer[s] \in {"none", "local", "preflight", "auth", "rejected",
                            "garbled"} => Untouched(s)
          /\ answer[s] \in {"ok", "badBody"} =>
                Owns(s) /\ <<s, "create">> \notin late
    /\ pc[s] \in AfterCreate => Owns(s) /\ <<s, "create">> \notin late
    /\ pc[s] \in BeforeCreate \cup {"CREATE_ACCOUNTING_USER"} =>
          effect[s] = "none" /\ failedAt[s] = "none"
    /\ pc[s] \in BeforeCreate \cup {"CREATE_ACCOUNTING_USER"} \cup AfterCreate =>
          <<s, "disable">> \notin late

\* A saga disables an account it created, or one it cannot tell apart.
CompensateInv(s) ==
    /\ pc[s] = "compensate" => <<s, "create">> \notin late
    /\ pc[s] = "compensate" /\ answer[s] = "ok" => ~OursEnabled(s)
    /\ pc[s] = "compensate" \/ <<s, "disable">> \in late =>
          Owns(s) \/ effect[s] = "UNCLASSIFIED"

FailedInv(s) ==
    /\ pc[s] = "failing" => Undone(s)
    /\ failedAt[s] \notin {"none", "ISSUE_SUBSCRIPTION"} =>
          /\ pc[s] \in Ending
          /\ Undone(s)
          /\ rows[s] = "none"
          /\ failedAt[s] = "APPLY_FORWARDER" => forwarder[s] = "previous"
    /\ failedAt[s] = "ISSUE_SUBSCRIPTION" => pc[s] \in Ending

RowsInv(s) ==
    /\ pc[s] = "idle" => rows[s] = "none"
    /\ rows[s] = "committed" =>
          pc[s] \in {"markSucceeded", "markPending"} \cup Ending
    /\ pc[s] \in Flushed => rows[s] = "flushed"
    /\ rows[s] = "flushed" => pc[s] \notin {"markPending"} \cup Ending

RunInv(s) ==
    /\ pc[s] = "markSucceeded" => sub[s] = "ACTIVE" /\ rows[s] = "committed"
    /\ pc[s] = "markPending" => sub[s] = "REVIEW"
    /\ run[s] \in {"SUCCEEDED", "PENDING"} => pc[s] = "done"
    /\ run[s] = "SUCCEEDED" => sub[s] = "ACTIVE" /\ rows[s] = "committed"
    /\ run[s] = "PENDING" => sub[s] = "REVIEW"

SagaInv(s) ==
    /\ CallInv(s) /\ CreateInv(s) /\ CompensateInv(s) /\ FailedInv(s)
    /\ RowsInv(s) /\ RunInv(s)

IInv == SagaTypeOK /\ StrangersKept /\ \A s \in Sagas : SagaInv(s)

\* Only a saga with a name of its own can tell that its user stays enabled.
SoldInv(s) ==
    /\ pc[s] = "CREATE_ACCOUNTING_USER" /\ answer[s] = "ok" => OursEnabled(s)
    /\ pc[s] \in AfterCreate => OursEnabled(s)
    /\ pc[s] \in {"ISSUE_SUBSCRIPTION", "NOTIFY", "activate"} => applied[s]
    /\ sub[s] = "ACTIVE" =>
          /\ pc[s] \in {"markSucceeded", "failingLate", "done"}
          /\ rows[s] = "committed" /\ applied[s] /\ OursEnabled(s)
          /\ <<s, "disable">> \notin late

-----------------------------------------------------------------------------
(* The service's account table.                                             *)

\* A request that is carried out keeps the owner of every account, enables
\* none that exists, disables one of its own name only, and creates one for
\* its own sender only.
LEMMA CarriedOut ==
    ASSUME SagaTypeOK, NEW c \in Sagas, NEW op \in Operations, account' = Served(c, op),
           NEW n \in Names
    PROVE  /\ account' \in [Names -> Accounts]
           /\ account[n] # NULL =>
                 /\ account'[n] # NULL
                 /\ account'[n].by = account[n].by
                 /\ account'[n].enabled => account[n].enabled
                 /\ op = "create" \/ n # NameOf[c] => account'[n] = account[n]
                 /\ op = "disable" /\ n = NameOf[c] => ~account'[n].enabled
           /\ account[n] = NULL =>
                 /\ account'[n] = NULL \/ (op = "create" /\ n = NameOf[c])
                 /\ op = "create" /\ n = NameOf[c] =>
                       account'[n] # NULL /\ account'[n].by = c /\ account'[n].enabled
  <1> DEFINE m == NameOf[c]
             Real == [by : Callers \cup {STRANGER}, enabled : BOOLEAN]
  <1>1. m \in Names /\ account \in [Names -> Accounts] /\ c \in Callers
    BY NameAssumption, SagaAssumption DEF SagaTypeOK, ClientTypeOK
  <1>2. /\ account[n] # NULL => account[n] \in Real
        /\ account[m] # NULL => account[m] \in Real
        /\ \A a \in Real : a \in Accounts /\ a # NULL
    BY <1>1, NullAssumption DEF Accounts
  <1>3. CASE op = "create" /\ account[m] = NULL
    <2> DEFINE r == [by |-> c, enabled |-> TRUE]
    <2>1. account' = [account EXCEPT ![m] = r]
      BY <1>3 DEF Served
    <2>2. r \in Real /\ r.by = c /\ r.enabled = TRUE
      BY <1>1
    <2> HIDE DEF r, Real, m
    <2>3. r \in Accounts /\ r # NULL
      BY <1>2, <2>2
    <2>4. account' \in [Names -> Accounts]
      BY <1>1, <2>1, <2>3
    <2>5. /\ n # m => account'[n] = account[n]
          /\ n = m => account'[n] = r
      BY <1>1, <2>1
    <2>6. account[n] # NULL => account'[n] = account[n]
      BY <1>3, <2>5
    <2>7. op # "disable"
      BY <1>3
    <2>8. QED
      BY <1>3, <2>2, <2>3, <2>4, <2>5, <2>6, <2>7, Zenon DEF m
  <1>4. CASE op = "disable" /\ account[m] # NULL
    <2> DEFINE r == [account[m] EXCEPT !.enabled = FALSE]
    <2>1. account' = [account EXCEPT ![m] = r]
      BY <1>4 DEF Served
    <2>2. r \in Real /\ r.by = account[m].by /\ r.enabled = FALSE
      BY <1>2, <1>4
    <2> HIDE DEF r, Real, m
    <2>3. r \in Accounts /\ r # NULL
      BY <1>2, <2>2
    <2>4. account' \in [Names -> Accounts]
      BY <1>1, <2>1, <2>3
    <2>5. /\ n # m => account'[n] = account[n]
          /\ n = m => account'[n] = r
      BY <1>1, <2>1
    <2>6. op # "create"
      BY <1>4
    <2>7. QED
      BY <1>4, <2>2, <2>3, <2>4, <2>5, <2>6, Zenon DEF m
  <1>5. CASE /\ ~(op = "create" /\ account[m] = NULL)
             /\ ~(op = "disable" /\ account[m] # NULL)
    <2>1. account' = account
      BY <1>5 DEF Served
    <2>2. op = "create" \/ op = "disable"
      BY DEF Operations
    <2>3. QED
      BY <1>1, <1>5, <2>1, <2>2, Zenon
  <1>6. QED
    BY <1>3, <1>4, <1>5

-----------------------------------------------------------------------------
(* Who writes what.                                                         *)

\* The saga's request of the kind op is being sent.
Sends(s, op) ==
    /\ call[s] \in {"send", "resend"}
    /\ pc[s] = IF op = "create" THEN "CREATE_ACCOUNTING_USER" ELSE "compensate"

\* What the steps of others leave of a saga: all it keeps itself; a request
\* it gave up may be carried out.
Quiet(t) ==
    /\ pc'[t] = pc[t] /\ call'[t] = call[t] /\ answer'[t] = answer[t]
    /\ rows'[t] = rows[t] /\ forwarder'[t] = forwarder[t]
    /\ applied'[t] = applied[t] /\ effect'[t] = effect[t]
    /\ failedAt'[t] = failedAt[t] /\ run'[t] = run[t] /\ sub'[t] = sub[t]
    /\ \A op \in Operations : <<t, op>> \in late' => <<t, op>> \in late
    /\ Owns(t) => Owns(t)'
    /\ Owns(t)' => Owns(t) \/ <<t, "create">> \in late
    /\ OursEnabled(t)' => OursEnabled(t) \/ <<t, "create">> \in late

\* A saga's step changes the accounts, or leaves a request under way, only by
\* the request the saga is sending.
LEMMA SagaWrites ==
    ASSUME NEW s \in Sagas, SagaStep(s) \/ Crash(s)
    PROVE  /\ \/ account' = account
              \/ \E op \in Operations : account' = Served(s, op) /\ Sends(s, op)
           /\ \/ late' = late
              \/ \E op \in Operations : late' = late \cup {<<s, op>>} /\ Sends(s, op)
  <1> USE DEF Operations, wire, saga, At
  <1>1. CASE CreateUser(s)
    <2>1. /\ account' = account \/ (account' = Served(s, "create") /\ Sends(s, "create"))
          /\ late' = late \/ (late' = late \cup {<<s, "create">>} /\ Sends(s, "create"))
      BY <1>1 DEF CreateUser, StartCall, CallStep, Authenticate, Unauthorized,
         DispatchRefused, Dispatched, DispatchLost, Sends
    <2>2. QED
      BY <2>1
  <1>2. CASE DisableUser(s)
    <2>1. /\ account' = account \/ (account' = Served(s, "disable") /\ Sends(s, "disable"))
          /\ late' = late \/ (late' = late \cup {<<s, "disable">>} /\ Sends(s, "disable"))
      BY <1>2 DEF DisableUser, StartCall, CallStep, Authenticate, Unauthorized,
         DispatchRefused, Dispatched, DispatchLost, Sends
    <2>2. QED
      BY <2>1
  <1>3. CASE ~CreateUser(s) /\ ~DisableUser(s)
    <2>1. account' = account /\ late' = late
      BY <1>3 DEF SagaStep, Crash, StartRun, StepSucceeds, StepFails,
         TenantUncertain, ApplyForwarder, RestoreForwarder, UserCreated,
         UserDisabled, HandOver, PhaseBFailsEarly, EnterPhaseB, ApplyGateway,
         IssueSubscription, Notify, Activate, MarkSucceeded, MarkProvisionPending,
         MarkRunPendingManual, FailPaidPurchase, MarkRunFailed
    <2>2. QED
      BY <2>1
  <1>4. QED
    BY <1>1, <1>2, <1>3

\* What a saga keeps itself is written by its own steps.
LEMMA OwnState ==
    ASSUME SagaTypeOK, NEW s \in Sagas, SagaStep(s) \/ Crash(s), NEW t \in Sagas, t # s
    PROVE  /\ pc'[t] = pc[t] /\ call'[t] = call[t] /\ answer'[t] = answer[t]
           /\ rows'[t] = rows[t] /\ forwarder'[t] = forwarder[t]
           /\ applied'[t] = applied[t] /\ effect'[t] = effect[t]
           /\ failedAt'[t] = failedAt[t] /\ run'[t] = run[t] /\ sub'[t] = sub[t]
  <1> USE SagaAssumption DEF SagaTypeOK, ClientTypeOK, wire, saga, Goto, Rows,
      Commit, Ends, Failed
  <1>1. CASE CreateUser(s) \/ DisableUser(s)
    BY <1>1 DEF CreateUser, DisableUser, StartCall, CallStep, Authenticate,
       Unauthorized, DispatchRefused, Dispatched, DispatchLost
  <1>2. CASE UserCreated(s)
    BY <1>2 DEF UserCreated
  <1>3. CASE UserDisabled(s)
    BY <1>3 DEF UserDisabled
  <1>4. CASE \/ StartRun(s) \/ StepSucceeds(s) \/ StepFails(s) \/ TenantUncertain(s)
             \/ ApplyForwarder(s) \/ RestoreForwarder(s)
    BY <1>4 DEF StartRun, StepSucceeds, StepFails, TenantUncertain, ApplyForwarder,
       RestoreForwarder
  <1>5. CASE \/ HandOver(s) \/ PhaseBFailsEarly(s) \/ EnterPhaseB(s)
             \/ ApplyGateway(s) \/ IssueSubscription(s) \/ Notify(s)
    BY <1>5 DEF HandOver, PhaseBFailsEarly, EnterPhaseB, ApplyGateway,
       IssueSubscription, Notify
  <1>6. CASE \/ Activate(s) \/ MarkSucceeded(s) \/ MarkProvisionPending(s)
             \/ MarkRunPendingManual(s) \/ FailPaidPurchase(s) \/ MarkRunFailed(s)
             \/ Crash(s)
    BY <1>6 DEF Activate, MarkSucceeded, MarkProvisionPending, MarkRunPendingManual,
       FailPaidPurchase, MarkRunFailed, Crash
  <1>7. QED
    BY <1>1, <1>2, <1>3, <1>4, <1>5, <1>6 DEF SagaStep

\* A saga stays the owner of its account whatever request is carried out,
\* and becomes one by its own create.
LEMMA OwnerKept ==
    ASSUME SagaTypeOK, NEW c \in Sagas, NEW op \in Operations, account' = Served(c, op),
           NEW t \in Sagas
    PROVE  /\ Owns(t) => Owns(t)'
           /\ Owns(t)' /\ ~Owns(t) => c = t /\ op = "create"
           /\ OursEnabled(t)' /\ ~OursEnabled(t) => c = t /\ op = "create"
           /\ c = t /\ op = "disable" => ~OursEnabled(t)'
           /\ c = t /\ op = "create" /\ account[NameOf[t]] = NULL => Owns(t)' /\ OursEnabled(t)'
  <1>1. NameOf[t] \in Names
    BY NameAssumption, SagaAssumption
  <1>2. QED
    BY <1>1, CarriedOut DEF Owns, OursEnabled, Operations

\* The steps of the others, and of the service, are quiet for a saga.
LEMMA OthersAreQuiet ==
    ASSUME SagaTypeOK, NEW t \in Sagas,
           \/ \E s \in Sagas : s # t /\ (SagaStep(s) \/ Crash(s))
           \/ (LandsLate \/ TokenExpires \/ HealthCheck) /\ UNCHANGED <<pc, saga>>
    PROVE  Quiet(t)
  <1>0. ASSUME account' = account
        PROVE  Owns(t)' = Owns(t) /\ OursEnabled(t)' = OursEnabled(t)
    BY <1>0 DEF Owns, OursEnabled
  <1>1. CASE \E s \in Sagas : s # t /\ (SagaStep(s) \/ Crash(s))
    <2>1. PICK s \in Sagas : s # t /\ (SagaStep(s) \/ Crash(s))
      BY <1>1
    <2>2. /\ pc'[t] = pc[t] /\ call'[t] = call[t] /\ answer'[t] = answer[t]
          /\ rows'[t] = rows[t] /\ forwarder'[t] = forwarder[t]
          /\ applied'[t] = applied[t] /\ effect'[t] = effect[t]
          /\ failedAt'[t] = failedAt[t] /\ run'[t] = run[t] /\ sub'[t] = sub[t]
      BY <2>1, OwnState
    <2>3. \A op \in Operations : <<t, op>> \in late' => <<t, op>> \in late
      BY <2>1, SagaWrites
    <2>4. /\ Owns(t) => Owns(t)'
          /\ Owns(t)' => Owns(t)
          /\ OursEnabled(t)' => OursEnabled(t)
      <3>1. CASE account' = account
        BY <1>0, <3>1
      <3>2. CASE \E op \in Operations : account' = Served(s, op)
        BY <2>1, <3>2, OwnerKept
      <3>3. QED
        BY <2>1, <3>1, <3>2, SagaWrites
    <2>5. QED
      BY <2>2, <2>3, <2>4 DEF Quiet
  <1>2. CASE LandsLate /\ UNCHANGED <<pc, saga>>
    <2>1. PICK c \in Sagas, op \in Operations :
              <<c, op>> \in late /\ account' = Served(c, op) /\ late' = late \ {<<c, op>>}
      BY <1>2, SagaAssumption DEF LandsLate
    <2>2. /\ Owns(t) => Owns(t)'
          /\ Owns(t)' => Owns(t) \/ <<t, "create">> \in late
          /\ OursEnabled(t)' => OursEnabled(t) \/ <<t, "create">> \in late
      BY <2>1, OwnerKept
    <2>3. QED
      BY <1>2, <2>1, <2>2 DEF Quiet, LandsLate, saga
  <1>3. CASE (TokenExpires \/ HealthCheck) /\ UNCHANGED <<pc, saga>>
    BY <1>0, <1>3 DEF TokenExpires, HealthCheck, Quiet, saga
  <1>4. QED
    BY <1>1, <1>2, <1>3

\* Quiet steps keep a saga's invariant.
LEMMA QuietKeeps ==
    ASSUME NEW t \in Sagas, SagaInv(t), Quiet(t)
    PROVE  SagaInv(t)'
  <1> USE DEF SagaInv, Quiet
  <1>0. /\ <<t, "create">> \in late' => <<t, "create">> \in late
        /\ <<t, "disable">> \in late' => <<t, "disable">> \in late
    BY DEF Operations
  <1>1. /\ Untouched(t) => Untouched(t)'
        /\ Undone(t) => Undone(t)'
    BY <1>0 DEF Untouched, Undone
  <1>2. CallInv(t)'
    BY DEF CallInv
  <1>3. CreateInv(t)'
    BY <1>0, <1>1 DEF CreateInv
  <1>4. CompensateInv(t)'
    BY <1>0 DEF CompensateInv
  <1>5. FailedInv(t)'
    BY <1>1 DEF FailedInv
  <1>6. RowsInv(t)' /\ RunInv(t)'
    BY DEF RowsInv, RunInv
  <1>7. QED
    BY <1>2, <1>3, <1>4, <1>5, <1>6

-----------------------------------------------------------------------------
(* The type invariant.                                                      *)

\* A step of a call keeps the types of what the client keeps.
LEMMA CallTypes ==
    ASSUME SagaTypeOK, NEW s \in Sagas, NEW op \in Operations,
           \/ StartCall(s) \/ CallStep(s, op)
           \/ Ready(s) /\ Ends(s, "local") /\ UNCHANGED <<account, token, late>>
    PROVE  ClientTypeOK'
  <1>0. /\ ClientTypeOK /\ s \in Callers /\ <<s, op>> \in Callers \X Operations
        /\ NameOf[s] \in Names
    BY SagaAssumption, NameAssumption DEF SagaTypeOK
  <1>1. account' \in [Names -> Accounts]
    <2>1. account' = account \/ account' = Served(s, op)
      BY DEF StartCall, CallStep, Authenticate, Unauthorized, DispatchRefused,
         Dispatched, DispatchLost
    <2>2. QED
      BY <1>0, <2>1, CarriedOut DEF ClientTypeOK
  <1>2. late' \subseteq Callers \X Operations
    BY <1>0 DEF ClientTypeOK, StartCall, CallStep, Authenticate, Unauthorized,
       DispatchRefused, Dispatched, DispatchLost
  <1>3. \A a \in Replies(s, op) : a \in Answers
    BY DEF Replies, Answers
  <1>4. /\ token' \in Tokens
        /\ call' \in [Callers -> Stages]
        /\ answer' \in [Callers -> Answers]
    BY <1>0, <1>3 DEF ClientTypeOK, StartCall, CallStep, Authenticate, Unauthorized,
       DispatchRefused, Dispatched, DispatchLost, Ends, Tokens, Stages, Answers
  <1>5. QED
    BY <1>1, <1>2, <1>4 DEF ClientTypeOK

\* Every step of a saga keeps the types of what the saga keeps.
LEMMA SagaTypes ==
    ASSUME SagaTypeOK, NEW s \in Sagas, SagaInv(s), SagaStep(s) \/ Crash(s)
    PROVE  SagaTypeOK'
  <1> USE SagaAssumption DEF SagaTypeOK, wire, saga, Goto, Rows, Commit, Ends,
      Failed, At, PCs, Steps
  <1>1. CASE CreateUser(s)
    <2>1. ClientTypeOK'
      BY <1>1, CallTypes DEF CreateUser, Operations
    <2>2. \A t \in Sagas : call'[t] # "idle" =>
              pc[t] \in {"CREATE_ACCOUNTING_USER", "compensate"}
      BY <1>1 DEF ClientTypeOK, CreateUser, StartCall, CallStep, Authenticate,
         Unauthorized, DispatchRefused, Dispatched, DispatchLost
    <2>3. QED
      BY <1>1, <2>1, <2>2 DEF CreateUser
  <1>2. CASE DisableUser(s)
    <2>1. ClientTypeOK'
      BY <1>2, CallTypes DEF DisableUser, Operations
    <2>2. \A t \in Sagas : call'[t] # "idle" =>
              pc[t] \in {"CREATE_ACCOUNTING_USER", "compensate"}
      BY <1>2 DEF ClientTypeOK, DisableUser, StartCall, CallStep, Authenticate,
         Unauthorized, DispatchRefused, Dispatched, DispatchLost
    <2>3. QED
      BY <1>2, <2>1, <2>2 DEF DisableUser
  <1>3. CASE UserCreated(s)
    BY <1>3, SMTT(30) DEF UserCreated, ClientTypeOK, Answers, Effect, SagaInv, CallInv
  <1>4. CASE UserDisabled(s)
    BY <1>4, SMTT(30) DEF UserDisabled, ClientTypeOK, Answers, SagaInv, CallInv
  <1>5. CASE \/ StartRun(s) \/ StepSucceeds(s) \/ StepFails(s) \/ TenantUncertain(s)
             \/ ApplyForwarder(s) \/ RestoreForwarder(s)
    BY <1>5, SMTT(30) DEF StartRun, StepSucceeds, StepFails, TenantUncertain, ApplyForwarder,
       RestoreForwarder, ClientTypeOK, After
  <1>6. CASE HandOver(s) \/ PhaseBFailsEarly(s) \/ EnterPhaseB(s)
    BY <1>6 DEF HandOver, PhaseBFailsEarly, EnterPhaseB, ClientTypeOK
  <1>7. CASE ApplyGateway(s)
    <2>1. applied \in [Sagas -> BOOLEAN]
      OBVIOUS
    <2>2. [applied EXCEPT ![s] = TRUE] \in [Sagas -> BOOLEAN]
      BY <2>1
    <2>3. applied' = applied \/ applied' = [applied EXCEPT ![s] = TRUE]
      BY <1>7, Zenon DEF ApplyGateway
    <2>4. applied' \in [Sagas -> BOOLEAN]
      BY <2>1, <2>2, <2>3, Zenon
    <2>5. QED
      BY <1>7, <2>4 DEF ApplyGateway, ClientTypeOK
  <1>8. CASE IssueSubscription(s) \/ Notify(s)
    BY <1>8 DEF IssueSubscription, Notify, ClientTypeOK
  <1>9. CASE \/ Activate(s) \/ MarkSucceeded(s) \/ MarkProvisionPending(s)
             \/ MarkRunPendingManual(s) \/ FailPaidPurchase(s) \/ MarkRunFailed(s)
    BY <1>9 DEF Activate, MarkSucceeded, MarkProvisionPending, MarkRunPendingManual,
       FailPaidPurchase, MarkRunFailed, ClientTypeOK, SagaInv, RowsInv, RunInv, Ending
  <1>10. CASE Crash(s)
    BY <1>10 DEF Crash, ClientTypeOK, Answers, Stages
  <1>11. QED
    BY <1>1, <1>2, <1>3, <1>4, <1>5, <1>6, <1>7, <1>8, <1>9, <1>10
    DEF SagaStep

\* So does every step of the service.
LEMMA ServiceTypes ==
    ASSUME SagaTypeOK, LandsLate \/ TokenExpires \/ HealthCheck, UNCHANGED <<pc, saga>>
    PROVE  SagaTypeOK'
  <1>1. CASE LandsLate
    <2>1. PICK c \in Sagas, op \in Operations :
              /\ account' = Served(c, op)
              /\ late' = late \ {<<c, op>>}
              /\ UNCHANGED <<token, call, answer>>
      BY <1>1, SagaAssumption DEF LandsLate
    <2>2. account' \in [Names -> Accounts]
      BY <2>1, CarriedOut, NameAssumption, SagaAssumption
    <2>3. ClientTypeOK'
      BY <2>1, <2>2 DEF SagaTypeOK, ClientTypeOK
    <2>4. QED
      BY <2>1, <2>3 DEF SagaTypeOK, saga
  <1>2. CASE TokenExpires \/ HealthCheck
    BY <1>2 DEF TokenExpires, HealthCheck, SagaTypeOK, ClientTypeOK, Tokens, saga
  <1>3. QED
    BY <1>1, <1>2

-----------------------------------------------------------------------------
(* The invariant of a saga is kept by its own steps.                        *)

\* create_user: until the request is sent nothing of the saga's exists, and
\* each answer leaves what CreateInv says.
LEMMA CreateUserKeeps ==
    ASSUME SagaTypeOK, NEW s \in Sagas, SagaInv(s), CreateUser(s)
    PROVE  SagaInv(s)'
  <1> USE DEF At, wire, saga
  <1>0. /\ pc[s] = "CREATE_ACCOUNTING_USER" /\ pc' = pc /\ rows' = rows
        /\ forwarder' = forwarder /\ effect' = effect /\ failedAt' = failedAt
        /\ run' = run /\ sub' = sub
    BY DEF CreateUser
  <1>1. /\ answer[s] = "none" /\ ~Owns(s) /\ <<s, "create">> \notin late
        /\ <<s, "disable">> \notin late
    <2>1. answer[s] = "none"
      BY DEF CreateUser, StartCall, CallStep, Authenticate, Unauthorized,
         DispatchRefused, Dispatched, DispatchLost, Ready, SagaInv, CallInv
    <2>2. QED
      BY <1>0, <2>1 DEF SagaInv, CreateInv, Untouched
  <1>2. <<s, "disable">> \notin late'
    <2>1. late' = late \/ late' = late \cup {<<s, "create">>}
      BY DEF CreateUser, StartCall, CallStep, Authenticate, Unauthorized,
         DispatchRefused, Dispatched, DispatchLost
    <2>2. QED
      BY <1>1, <2>1
  <1> DEFINE Classified ==
          /\ call'[s] # "idle" => answer'[s] = "none"
          /\ answer'[s] \in {"none", "local", "preflight", "auth", "rejected",
                             "garbled"} => Untouched(s)'
          /\ answer'[s] \in {"ok", "badBody"} => Owns(s)' /\ <<s, "create">> \notin late'
  <1>3. Classified
    <2>0. /\ call \in [Sagas -> Stages] /\ answer \in [Sagas -> Answers]
          /\ NameOf[s] \in Names
      BY SagaAssumption, NameAssumption DEF SagaTypeOK, ClientTypeOK
    <2>1. ASSUME account' = account PROVE ~Owns(s)'
      BY <1>1, <2>1 DEF Owns
    <2>2. ASSUME account' = account, late' = late,
                 call'[s] # "idle" => answer'[s] = "none",
                 answer'[s] \notin {"ok", "badBody"}
          PROVE  Classified
      BY <1>1, <2>1, <2>2 DEF Untouched
    <2>3. CASE \/ StartCall(s)
               \/ Ready(s) /\ Ends(s, "local") /\ UNCHANGED <<account, token, late>>
      BY <1>1, <2>0, <2>2, <2>3 DEF StartCall, Ends
    <2>4. CASE Authenticate(s) \/ Unauthorized(s) \/ DispatchRefused(s)
      BY <1>1, <2>0, <2>2, <2>4 DEF Authenticate, Unauthorized, DispatchRefused, Ends
    <2>5. CASE Dispatched(s, "create")
      <3>1. late' = late
        BY <2>5 DEF Dispatched
      <3>2. CASE /\ account' = Served(s, "create")
                 /\ \E a \in Replies(s, "create") : Ends(s, a)
        <4>1. PICK a \in Replies(s, "create") : Ends(s, a)
          BY <3>2
        <4>2. call'[s] = "idle" /\ answer'[s] = a
          BY <2>0, <4>1 DEF Ends
        <4>3. CASE account[NameOf[s]] = NULL
          <5>1. Owns(s)'
            BY <3>2, <4>3, OwnerKept DEF Operations
          <5>2. a \in {"ok", "badBody", "status"}
            BY <4>3 DEF Replies
          <5>3. QED
            BY <1>1, <3>1, <4>2, <5>1, <5>2
        <4>4. CASE account[NameOf[s]] # NULL
          <5>1. a \in {"rejected", "status"}
            BY <4>4 DEF Replies
          <5>2. account' = account
            BY <3>2, <4>4 DEF Served
          <5>3. QED
            BY <2>2, <3>1, <4>2, <5>1, <5>2
        <4>5. QED
          BY <4>3, <4>4
      <3>3. CASE account' = account /\ \E a \in {"rejected", "status"} : Ends(s, a)
        BY <2>0, <2>2, <3>1, <3>3 DEF Ends
      <3>4. QED
        BY <2>5, <3>2, <3>3 DEF Dispatched
    <2>6. CASE DispatchLost(s, "create")
      BY <2>0, <2>6 DEF DispatchLost, Ends
    <2>7. QED
      BY <2>3, <2>4, <2>5, <2>6 DEF CreateUser, CallStep
  <1>4. QED
    BY <1>0, <1>1, <1>2, <1>3 DEF SagaInv, CallInv, CreateInv, CompensateInv, FailedInv,
       RowsInv, RunInv, BeforeCreate, AfterCreate, Ending, Flushed

\* The compensation: an answer ok means that the account is disabled.
LEMMA DisableUserKeeps ==
    ASSUME SagaTypeOK, NEW s \in Sagas, SagaInv(s), DisableUser(s)
    PROVE  SagaInv(s)'
  <1> USE DEF At, wire, saga
  <1>0. /\ pc[s] = "compensate" /\ pc' = pc /\ rows' = rows
        /\ forwarder' = forwarder /\ effect' = effect /\ failedAt' = failedAt
        /\ run' = run /\ sub' = sub
    BY DEF DisableUser
  <1>1. /\ answer[s] = "none" /\ <<s, "create">> \notin late
        /\ Owns(s) \/ effect[s] = "UNCLASSIFIED"
    <2>1. answer[s] = "none"
      BY DEF DisableUser, StartCall, CallStep, Authenticate, Unauthorized,
         DispatchRefused, Dispatched, DispatchLost, Ready, SagaInv, CallInv
    <2>2. QED
      BY <1>0, <2>1 DEF SagaInv, CompensateInv
  <1>2. <<s, "create">> \notin late'
    <2>1. late' = late \/ late' = late \cup {<<s, "disable">>}
      BY DEF DisableUser, StartCall, CallStep, Authenticate, Unauthorized,
         DispatchRefused, Dispatched, DispatchLost
    <2>2. QED
      BY <1>1, <2>1
  <1>3. Owns(s) => Owns(s)'
    <2>1. account' = account \/ account' = Served(s, "disable")
      BY DEF DisableUser, StartCall, CallStep, Authenticate, Unauthorized,
         DispatchRefused, Dispatched, DispatchLost
    <2>2. CASE account' = account
      BY <2>2 DEF Owns
    <2>3. CASE account' = Served(s, "disable")
      BY <2>3, OwnerKept DEF Operations
    <2>4. QED
      BY <2>1, <2>2, <2>3
  <1>4. /\ call'[s] # "idle" => answer'[s] = "none"
        /\ answer'[s] = "ok" => ~OursEnabled(s)'
    <2>0. call \in [Sagas -> Stages] /\ answer \in [Sagas -> Answers]
      BY SagaAssumption DEF SagaTypeOK, ClientTypeOK
    <2>1. CASE StartCall(s) \/ Authenticate(s) \/ Unauthorized(s) \/ DispatchRefused(s)
      BY <1>1, <2>0, <2>1 DEF StartCall, Authenticate, Unauthorized, DispatchRefused, Ends
    <2>2. CASE Dispatched(s, "disable")
      <3>1. CASE /\ account' = Served(s, "disable")
                 /\ \E a \in Replies(s, "disable") : Ends(s, a)
        <4>1. ~OursEnabled(s)'
          BY <3>1, OwnerKept DEF Operations
        <4>2. QED
          BY <2>0, <3>1, <4>1 DEF Ends
      <3>2. CASE account' = account /\ \E a \in {"rejected", "status"} : Ends(s, a)
        BY <2>0, <3>2 DEF Ends
      <3>3. QED
        BY <2>2, <3>1, <3>2 DEF Dispatched
    <2>3. CASE DispatchLost(s, "disable")
      BY <2>0, <2>3 DEF DispatchLost, Ends
    <2>4. QED
      BY <2>1, <2>2, <2>3 DEF DisableUser, CallStep
  <1>5. QED
    BY <1>0, <1>1, <1>2, <1>3, <1>4 DEF SagaInv, CallInv, CreateInv, CompensateInv,
       FailedInv, RowsInv, RunInv, BeforeCreate, AfterCreate, Ending, Flushed

\* The answer of create_user is consumed.
LEMMA UserCreatedKeeps ==
    ASSUME SagaTypeOK, NEW s \in Sagas, SagaInv(s), UserCreated(s)
    PROVE  SagaInv(s)'
  <1> USE SagaAssumption DEF At, Goto, Rows, SagaTypeOK, ClientTypeOK
  <1>0. /\ Owns(s)' = Owns(s) /\ OursEnabled(s)' = OursEnabled(s)
        /\ Untouched(s)' = Untouched(s) /\ Undone(s)' = Undone(s) /\ late' = late
    BY DEF UserCreated, Owns, OursEnabled, Untouched, Undone
  <1>1. /\ answer'[s] = "none" /\ call'[s] = "idle" /\ forwarder'[s] = forwarder[s]
        /\ sub'[s] = sub[s]
    BY DEF UserCreated, SagaInv, CallInv
  <1>2. /\ pc[s] = "CREATE_ACCOUNTING_USER" /\ answer[s] # "none"
        /\ answer[s] \in Answers
        /\ run[s] \notin {"SUCCEEDED", "PENDING"} /\ rows[s] = "flushed"
        /\ <<s, "disable">> \notin late
    BY DEF UserCreated, SagaInv, CreateInv, RunInv, RowsInv, Flushed
  <1>3. CASE answer[s] = "ok"
    <2>1. /\ pc'[s] = "prepared" /\ rows'[s] = rows[s] /\ effect'[s] = effect[s]
          /\ failedAt'[s] = failedAt[s] /\ run'[s] = run[s]
      BY <1>3 DEF UserCreated
    <2>2. QED
      BY <1>0, <1>1, <1>2, <1>3, <2>1 DEF SagaInv, CallInv, CreateInv, CompensateInv,
         FailedInv, RowsInv, RunInv, BeforeCreate, AfterCreate, Ending, Flushed
  <1>4. CASE answer[s] \in {"local", "preflight", "auth", "rejected"}
    <2>1. effect'[s] = "NO_SIDE_EFFECT"
      BY <1>4 DEF UserCreated, Effect
    <2>2. /\ pc'[s] = "failing" /\ rows'[s] = "none"
          /\ failedAt'[s] = "CREATE_ACCOUNTING_USER" /\ run'[s] \in {run[s], "FAILED"}
      BY <1>2, <1>4, <2>1 DEF UserCreated, Failed
    <2>3. Untouched(s) /\ Undone(s)
      BY <1>2, <1>4 DEF SagaInv, CreateInv, Untouched, Undone, Owns, OursEnabled
    <2>4. QED
      BY <1>0, <1>1, <1>2, <2>1, <2>2, <2>3 DEF SagaInv, CallInv, CreateInv,
         CompensateInv, FailedInv, RowsInv, RunInv, BeforeCreate, AfterCreate, Ending,
         Flushed
  <1>5. CASE answer[s] \in {"lost", "status"}
    <2>1. effect'[s] = "AMBIGUOUS"
      BY <1>5 DEF UserCreated, Effect
    <2>2. /\ pc'[s] = "pending" /\ rows'[s] = rows[s]
          /\ failedAt'[s] = failedAt[s] /\ run'[s] = run[s]
      BY <1>2, <1>5, <2>1 DEF UserCreated
    <2>3. QED
      BY <1>0, <1>1, <1>2, <2>1, <2>2 DEF SagaInv, CallInv, CreateInv, CompensateInv,
         FailedInv, RowsInv, RunInv, BeforeCreate, AfterCreate, Ending, Flushed
  <1>6. CASE answer[s] \in {"badBody", "garbled"}
    <2>1. effect'[s] = IF answer[s] = "badBody" THEN "CREATED" ELSE "UNCLASSIFIED"
      BY <1>6 DEF UserCreated, Effect
    <2>2. /\ pc'[s] = "compensate" /\ rows'[s] = rows[s]
          /\ failedAt'[s] = failedAt[s] /\ run'[s] = run[s]
      BY <1>2, <1>6, <2>1 DEF UserCreated
    <2>3. <<s, "create">> \notin late /\ (Owns(s) \/ effect'[s] = "UNCLASSIFIED")
      BY <1>2, <1>6, <2>1 DEF SagaInv, CreateInv, Untouched
    <2>4. QED
      BY <1>0, <1>1, <1>2, <2>1, <2>2, <2>3 DEF SagaInv, CallInv, CreateInv,
         CompensateInv, FailedInv, RowsInv, RunInv, BeforeCreate, AfterCreate, Ending,
         Flushed
  <1>7. QED
    BY <1>2, <1>3, <1>4, <1>5, <1>6 DEF Answers

\* The answer of the compensation is consumed.
LEMMA UserDisabledKeeps ==
    ASSUME SagaTypeOK, NEW s \in Sagas, SagaInv(s), UserDisabled(s)
    PROVE  SagaInv(s)'
  <1> USE SagaAssumption DEF At, Goto, Rows, SagaTypeOK, ClientTypeOK
  <1>0. /\ Owns(s)' = Owns(s) /\ OursEnabled(s)' = OursEnabled(s)
        /\ Untouched(s)' = Untouched(s) /\ Undone(s)' = Undone(s) /\ late' = late
    BY DEF UserDisabled, Owns, OursEnabled, Untouched, Undone
  <1>1. /\ answer'[s] = "none" /\ call'[s] = "idle" /\ forwarder'[s] = forwarder[s]
        /\ sub'[s] = sub[s] /\ effect'[s] = effect[s]
    BY DEF UserDisabled, SagaInv, CallInv
  <1>2. /\ pc[s] = "compensate"
        /\ run[s] \notin {"SUCCEEDED", "PENDING"} /\ rows[s] \in {"none", "flushed"}
        /\ <<s, "create">> \notin late
    BY DEF UserDisabled, SagaInv, CompensateInv, RunInv, RowsInv, Ending
  <1>3. CASE answer[s] = "ok"
    <2>1. /\ pc'[s] \in {"failing", "failingLate"} /\ rows'[s] = "none"
          /\ failedAt'[s] \in {"CREATE_ACCOUNTING_USER", "APPLY_GATEWAY"}
          /\ run'[s] \in {run[s], "FAILED"}
      BY <1>2, <1>3 DEF UserDisabled, Failed, Steps
    <2>2. Undone(s)
      BY <1>2, <1>3 DEF SagaInv, CompensateInv, Undone
    <2>3. QED
      BY <1>0, <1>1, <1>2, <2>1, <2>2 DEF SagaInv, CallInv, CreateInv,
         CompensateInv, FailedInv, RowsInv, RunInv, BeforeCreate, AfterCreate, Ending,
         Flushed
  <1>4. CASE answer[s] # "ok"
    <2>1. /\ pc'[s] = "pending" /\ rows'[s] = rows[s]
          /\ failedAt'[s] = failedAt[s] /\ run'[s] = run[s]
      BY <1>4 DEF UserDisabled
    <2>2. QED
      BY <1>0, <1>1, <1>2, <2>1 DEF SagaInv, CallInv, CreateInv, CompensateInv,
         FailedInv, RowsInv, RunInv, BeforeCreate, AfterCreate, Ending, Flushed
  <1>5. QED
    BY <1>3, <1>4

\* The steps that make no call.
LEMMA LocalKeeps ==
    ASSUME SagaTypeOK, NEW s \in Sagas, SagaInv(s), SagaStep(s) \/ Crash(s),
           ~CreateUser(s), ~DisableUser(s), ~UserCreated(s), ~UserDisabled(s)
    PROVE  SagaInv(s)'
  <1> USE SagaAssumption DEF At, Goto, Rows, Commit, wire, saga, SagaTypeOK,
      ClientTypeOK, SagaInv, CallInv, CreateInv, CompensateInv, FailedInv, RowsInv,
      RunInv, BeforeCreate, AfterCreate, Ending, Flushed
  <1>0. account' = account /\ late' = late
    BY DEF SagaStep, Crash, StartRun, StepSucceeds, StepFails, TenantUncertain,
       ApplyForwarder, RestoreForwarder, HandOver, PhaseBFailsEarly, EnterPhaseB,
       ApplyGateway, IssueSubscription, Notify, Activate, MarkSucceeded,
       MarkProvisionPending, MarkRunPendingManual, FailPaidPurchase, MarkRunFailed
  <1>1. /\ Owns(s)' = Owns(s) /\ OursEnabled(s)' = OursEnabled(s)
        /\ Untouched(s)' = Untouched(s) /\ Undone(s)' = Undone(s)
        /\ Untouched(s) => Undone(s)
    BY <1>0 DEF Owns, OursEnabled, Untouched, Undone
  <1>2. CASE StartRun(s)
    BY <1>0, <1>1, <1>2 DEF StartRun
  <1>3. CASE StepSucceeds(s)
    BY <1>0, <1>1, <1>3 DEF StepSucceeds, After
  <1>4. CASE StepFails(s)
    BY <1>0, <1>1, <1>4 DEF StepFails, Failed, Steps
  <1>5. CASE TenantUncertain(s) \/ ApplyForwarder(s)
    BY <1>0, <1>1, <1>5 DEF TenantUncertain, ApplyForwarder
  <1>6. CASE RestoreForwarder(s)
    BY <1>0, <1>1, <1>6 DEF RestoreForwarder, Failed, Steps
  <1>7. CASE HandOver(s) \/ PhaseBFailsEarly(s) \/ EnterPhaseB(s) \/ ApplyGateway(s)
    BY <1>0, <1>1, <1>7 DEF HandOver, PhaseBFailsEarly, EnterPhaseB, ApplyGateway
  <1>8. CASE IssueSubscription(s) \/ Notify(s)
    BY <1>0, <1>1, <1>8 DEF IssueSubscription, Notify, Failed, Steps
  <1>9. CASE Activate(s)
    BY <1>0, <1>1, <1>9 DEF Activate
  <1>10. CASE MarkSucceeded(s) \/ MarkRunPendingManual(s) \/ MarkRunFailed(s)
    BY <1>0, <1>1, <1>10 DEF MarkSucceeded, MarkRunPendingManual, MarkRunFailed
  <1>11. CASE MarkProvisionPending(s)
    BY <1>0, <1>1, <1>11 DEF MarkProvisionPending
  <1>12. CASE FailPaidPurchase(s)
    BY <1>0, <1>1, <1>12 DEF FailPaidPurchase
  <1>13. CASE Crash(s)
    BY <1>0, <1>1, <1>13 DEF Crash, Ends
  <1>14. QED
    BY <1>2, <1>3, <1>4, <1>5, <1>6, <1>7, <1>8, <1>9, <1>10, <1>11, <1>12, <1>13
    DEF SagaStep

-----------------------------------------------------------------------------
(* The inductive invariant.                                                 *)

\* A stranger's account is disabled only by a saga that could not classify
\* the error of its create_user.
LEMMA StrangersStep ==
    ASSUME IInv, Next
    PROVE  StrangersKept'
  <1> USE NameAssumption, SagaAssumption DEF IInv
  <1>0. \A s \in Sagas : effect[s] = "UNCLASSIFIED" => effect'[s] = "UNCLASSIFIED"
    <2>1. SUFFICES ASSUME NEW t \in Sagas, effect[t] = "UNCLASSIFIED"
                   PROVE  effect'[t] = "UNCLASSIFIED"
      OBVIOUS
    <2>2. CASE SagaStep(t) \/ Crash(t)
      <3>1. ~UserCreated(t)
        BY <2>1 DEF UserCreated, At, SagaInv, CreateInv
      <3>2. effect' = effect
        BY <2>2, <3>1 DEF SagaStep, Crash, StartRun, StepSucceeds, StepFails,
           TenantUncertain, ApplyForwarder, RestoreForwarder, CreateUser,
           DisableUser, UserDisabled, HandOver, PhaseBFailsEarly, EnterPhaseB,
           ApplyGateway, IssueSubscription, Notify, Activate, MarkSucceeded,
           MarkProvisionPending, MarkRunPendingManual, FailPaidPurchase,
           MarkRunFailed, saga
      <3>3. QED
        BY <2>1, <3>2
    <2>3. CASE ~(SagaStep(t) \/ Crash(t))
      <3>1. Quiet(t)
        BY <2>3, OthersAreQuiet DEF Next
      <3>2. QED
        BY <2>1, <3>1 DEF Quiet
    <2>4. QED
      BY <2>2, <2>3
  <1>1. CASE account' = account
    BY <1>0, <1>1 DEF StrangersKept
  <1>2. CASE \E c \in Sagas, op \in Operations :
                account' = Served(c, op) /\ (Sends(c, op) \/ <<c, op>> \in late)
    <2>1. PICK c \in Sagas, op \in Operations :
                account' = Served(c, op) /\ (Sends(c, op) \/ <<c, op>> \in late)
      BY <1>2
    <2>2. SUFFICES ASSUME NEW n \in Names, account'[n] # NULL,
                          account'[n].by = STRANGER, ~account'[n].enabled
                   PROVE  \E s \in Sagas : NameOf[s] = n /\ effect'[s] = "UNCLASSIFIED"
      BY DEF StrangersKept
    <2>3. c # STRANGER /\ (op = "create" \/ op = "disable")
      BY CallerAssumption DEF Operations
    <2>4. account[n] # NULL /\ account[n].by = STRANGER
      BY <2>1, <2>2, <2>3, CarriedOut
    <2>5. CASE ~account[n].enabled
      BY <1>0, <2>4, <2>5 DEF StrangersKept
    <2>6. CASE account[n].enabled
      <3>1. op = "disable" /\ n = NameOf[c]
        BY <2>1, <2>2, <2>3, <2>4, <2>6, CarriedOut
      <3>2. pc[c] = "compensate" \/ <<c, "disable">> \in late
        BY <2>1, <3>1 DEF Sends
      <3>3. ~Owns(c)
        BY <2>3, <2>4, <3>1 DEF Owns
      <3>4. effect[c] = "UNCLASSIFIED"
        BY <3>2, <3>3 DEF SagaInv, CompensateInv
      <3>5. QED
        BY <1>0, <3>1, <3>4
    <2>7. QED
      BY <2>5, <2>6
  <1>3. QED
    <2>1. CASE \E s \in Sagas : SagaStep(s) \/ Crash(s)
      BY <1>1, <1>2, <2>1, SagaWrites
    <2>2. CASE LandsLate
      BY <1>2, <2>2 DEF LandsLate
    <2>3. CASE TokenExpires \/ HealthCheck
      BY <1>1, <2>3 DEF TokenExpires, HealthCheck
    <2>4. QED
      BY <2>1, <2>2, <2>3 DEF Next

\* The invariant holds at the start.
LEMMA InitIInv ==
    ASSUME Init PROVE IInv
  <1> USE SagaAssumption, NameAssumption, CallerAssumption, NullAssumption
  <1>1. account \in [Names -> {NULL, [by |-> STRANGER, enabled |-> TRUE]}]
    BY DEF Init, ClientInit
  <1>2. \A n \in Names : account[n] # NULL =>
            account[n].by = STRANGER /\ account[n].enabled
    BY <1>1
  <1>3. account \in [Names -> Accounts]
    <2>1. [by |-> STRANGER, enabled |-> TRUE]
              \in [by : Callers \cup {STRANGER}, enabled : BOOLEAN]
      OBVIOUS
    <2>2. {NULL, [by |-> STRANGER, enabled |-> TRUE]} \subseteq Accounts
      BY <2>1, Zenon DEF Accounts
    <2> DEFINE First == {NULL, [by |-> STRANGER, enabled |-> TRUE]}
    <2>3. account \in [Names -> First] /\ First \subseteq Accounts
      BY <1>1, <2>2
    <2> HIDE DEF First
    <2>4. QED
      BY <2>3
  <1>4. SagaTypeOK
    BY <1>3 DEF Init, ClientInit, SagaTypeOK, ClientTypeOK, Tokens, Stages, Answers,
       PCs, Steps
  <1>5. StrangersKept
    BY <1>2 DEF StrangersKept
  <1>6. ASSUME NEW s \in Sagas PROVE SagaInv(s)
    <2>1. ~Owns(s)
      BY <1>2 DEF Owns
    <2>2. Untouched(s)
      BY <2>1 DEF Untouched, Init, ClientInit
    <2>3. QED
      BY <2>2 DEF Init, ClientInit, SagaInv, CallInv, CreateInv, CompensateInv,
         FailedInv, RowsInv, RunInv, BeforeCreate, AfterCreate, Ending, Flushed
  <1>7. QED
    BY <1>4, <1>5, <1>6 DEF IInv

\* Every step keeps the invariant.
LEMMA NextIInv ==
    ASSUME IInv, [Next]_vars PROVE IInv'
  <1>1. CASE Next
    <2>1. SagaTypeOK'
      BY <1>1, SagaTypes, ServiceTypes DEF Next, IInv
    <2>2. ASSUME NEW t \in Sagas PROVE SagaInv(t)'
      <3>0. SagaTypeOK /\ SagaInv(t)
        BY DEF IInv
      <3>1. CASE SagaStep(t) \/ Crash(t)
        BY <3>0, <3>1, CreateUserKeeps, DisableUserKeeps, UserCreatedKeeps,
           UserDisabledKeeps, LocalKeeps
      <3>2. CASE ~(SagaStep(t) \/ Crash(t))
        <4>1. Quiet(t)
          BY <1>1, <3>0, <3>2, OthersAreQuiet DEF Next
        <4>2. QED
          BY <3>0, <4>1, QuietKeeps
      <3>3. QED
        BY <3>1, <3>2
    <2>3. QED
      BY <1>1, <2>1, <2>2, StrangersStep DEF IInv
  <1>2. CASE UNCHANGED vars
    <2>1. SagaTypeOK' /\ StrangersKept'
      BY <1>2 DEF vars, wire, saga, IInv, SagaTypeOK, ClientTypeOK, StrangersKept
    <2>2. ASSUME NEW t \in Sagas PROVE SagaInv(t)'
      <3>1. Quiet(t)
        BY <1>2 DEF vars, wire, saga, Quiet, Owns, OursEnabled
      <3>2. QED
        BY <3>1, QuietKeeps DEF IInv
    <2>3. QED
      BY <2>1, <2>2 DEF IInv
  <1>3. QED
    BY <1>1, <1>2

\* The invariant the safety properties follow from holds in every behaviour.
LEMMA InductiveInvariant == Spec => []IInv
  BY InitIInv, NextIInv, PTL DEF Spec

-----------------------------------------------------------------------------
(* What is sold stays provisioned.  Here, and nowhere else, no other saga    *)
(* uses the name.                                                           *)

\* With a name of its own, a saga's account is disabled by its own disable.
LEMMA OnlyOwnDisables ==
    ASSUME SagaTypeOK, NEW t \in Sagas, Next, OursEnabled(t),
           <<t, "disable">> \notin late, ~Sends(t, "disable")
    PROVE  OursEnabled(t)'
  <1>0. NameOf[t] \in Names
    BY NameAssumption, SagaAssumption
  <1>1. ASSUME NEW c \in Sagas, NEW op \in Operations, account' = Served(c, op),
               Sends(c, op) \/ <<c, op>> \in late
        PROVE  OursEnabled(t)'
    <2>1. op = "create" \/ NameOf[t] # NameOf[c]
      BY <1>1, OwnNameAssumption DEF Operations
    <2>2. account[NameOf[t]] # NULL
      BY DEF OursEnabled
    <2>3. account'[NameOf[t]] = account[NameOf[t]]
      BY <1>0, <1>1, <2>1, <2>2, CarriedOut
    <2>4. QED
      BY <2>3 DEF OursEnabled
  <1>2. ASSUME account' = account PROVE OursEnabled(t)'
    BY <1>2 DEF OursEnabled
  <1>3. CASE \E s \in Sagas : SagaStep(s) \/ Crash(s)
    BY <1>1, <1>2, <1>3, SagaWrites
  <1>4. CASE LandsLate
    BY <1>1, <1>4, SagaAssumption DEF LandsLate
  <1>5. CASE TokenExpires \/ HealthCheck
    BY <1>2, <1>5 DEF TokenExpires, HealthCheck
  <1>6. QED
    BY <1>3, <1>4, <1>5 DEF Next

\* The steps of a saga keep what it sold, and sell only what is provisioned.
LEMMA SoldStep ==
    ASSUME IInv, NEW t \in Sagas, SoldInv(t), SagaStep(t) \/ Crash(t), Next
    PROVE  SoldInv(t)'
  <1>0. /\ SagaTypeOK /\ CreateInv(t) /\ RowsInv(t) /\ FailedInv(t) /\ CallInv(t)
        /\ pc \in [Sagas -> PCs] /\ applied \in [Sagas -> BOOLEAN]
        /\ rows \in [Sagas -> {"none", "flushed", "committed"}]
        /\ answer \in [Sagas -> Answers] /\ call \in [Sagas -> Stages]
        /\ sub \in [Sagas -> {"PROVISIONING", "PROVISION_FAILED", "REVIEW", "ACTIVE"}]
    BY SagaAssumption DEF IInv, SagaInv, SagaTypeOK, ClientTypeOK
  <1>1. CASE CreateUser(t)
    <2>1. /\ pc' = pc /\ pc[t] = "CREATE_ACCOUNTING_USER" /\ sub' = sub /\ answer[t] = "none"
      BY <1>0, <1>1 DEF CreateUser, At, saga, StartCall, CallStep, Authenticate,
         Unauthorized, DispatchRefused, Dispatched, DispatchLost, Ready, CallInv
    <2>2. answer'[t] = "ok" => OursEnabled(t)'
      <3>1. CASE Dispatched(t, "create")
        <4>1. CASE account' = Served(t, "create") /\ account[NameOf[t]] = NULL
          BY <1>0, <4>1, OwnerKept DEF Operations
        <4>2. CASE ~(account' = Served(t, "create") /\ account[NameOf[t]] = NULL)
          BY <1>0, <3>1, <4>2 DEF Dispatched, Ends, Replies
        <4>3. QED
          BY <4>1, <4>2
      <3>2. CASE ~Dispatched(t, "create")
        BY <1>0, <1>1, <2>1, <3>2 DEF CreateUser, StartCall, CallStep, Authenticate,
           Unauthorized, DispatchRefused, DispatchLost, Ends
      <3>3. QED
        BY <3>1, <3>2
    <2>3. QED
      BY <2>1, <2>2 DEF SoldInv, AfterCreate
  <1>2. CASE DisableUser(t)
    <2>1. pc' = pc /\ pc[t] = "compensate" /\ sub' = sub
      BY <1>2 DEF DisableUser, At, saga
    <2>2. QED
      BY <2>1 DEF SoldInv, AfterCreate
  <1>3. CASE ~CreateUser(t) /\ ~DisableUser(t)
    <2>1. account' = account /\ late' = late
      BY <1>3 DEF SagaStep, Crash, StartRun, StepSucceeds, StepFails,
         TenantUncertain, ApplyForwarder, RestoreForwarder, UserCreated,
         UserDisabled, HandOver, PhaseBFailsEarly, EnterPhaseB, ApplyGateway,
         IssueSubscription, Notify, Activate, MarkSucceeded, MarkProvisionPending,
         MarkRunPendingManual, FailPaidPurchase, MarkRunFailed, wire
    <2>2. OursEnabled(t)' = OursEnabled(t)
      BY <2>1 DEF OursEnabled
    <2> USE <1>0, <2>1, <2>2 DEF SoldInv, AfterCreate, At, Goto, Rows, Commit, wire, saga
    <2>3. CASE \/ StartRun(t) \/ StepSucceeds(t) \/ StepFails(t) \/ TenantUncertain(t)
               \/ ApplyForwarder(t) \/ RestoreForwarder(t)
      BY <2>3 DEF StartRun, StepSucceeds, StepFails, TenantUncertain, ApplyForwarder,
         RestoreForwarder, After, CallInv
    <2>4. CASE UserCreated(t) \/ UserDisabled(t)
      BY <2>4 DEF UserCreated, UserDisabled
    <2>5. CASE HandOver(t) \/ PhaseBFailsEarly(t) \/ EnterPhaseB(t)
      BY <2>5 DEF HandOver, PhaseBFailsEarly, EnterPhaseB
    <2>6. CASE ApplyGateway(t)
      BY <2>6 DEF ApplyGateway
    <2>7. CASE IssueSubscription(t) \/ Notify(t)
      BY <2>7 DEF IssueSubscription, Notify
    <2>8. CASE Activate(t)
      <3>1. rows[t] = "flushed" /\ <<t, "disable">> \notin late
        BY <2>8 DEF Activate, CreateInv, RowsInv, Flushed
      <3>2. QED
        BY <2>8, <3>1 DEF Activate
    <2>9. CASE \/ MarkSucceeded(t) \/ MarkProvisionPending(t)
               \/ MarkRunPendingManual(t) \/ MarkRunFailed(t) \/ FailPaidPurchase(t)
      BY <2>9 DEF MarkSucceeded, MarkProvisionPending, MarkRunPendingManual,
         MarkRunFailed, FailPaidPurchase
    <2>10. CASE Crash(t)
      BY <2>10 DEF Crash
    <2>11. QED
      BY <1>3, <2>3, <2>4, <2>5, <2>6, <2>7, <2>8, <2>9, <2>10 DEF SagaStep
  <1>4. QED
    BY <1>1, <1>2, <1>3

\* Nobody else takes back what a saga sold.
LEMMA SoldQuiet ==
    ASSUME IInv, NEW t \in Sagas, SoldInv(t), Quiet(t), Next
    PROVE  SoldInv(t)'
  <1>1. <<t, "disable">> \in late' => <<t, "disable">> \in late
    BY DEF Quiet, Operations
  <1>2. \/ pc[t] = "CREATE_ACCOUNTING_USER" /\ answer[t] = "ok"
        \/ pc[t] \in AfterCreate
        \/ sub[t] = "ACTIVE"
        => /\ OursEnabled(t) /\ <<t, "disable">> \notin late /\ ~Sends(t, "disable")
    BY DEF IInv, SagaInv, CreateInv, SoldInv, AfterCreate, Sends
  <1>3. \/ pc[t] = "CREATE_ACCOUNTING_USER" /\ answer[t] = "ok"
        \/ pc[t] \in AfterCreate
        \/ sub[t] = "ACTIVE"
        => OursEnabled(t)'
    BY <1>2, OnlyOwnDisables DEF IInv
  <1>4. QED
    BY <1>1, <1>3 DEF SoldInv, Quiet

\* What a saga knows of its sale holds in every behaviour.
LEMMA SoldInvariant == Spec => [](\A s \in Sagas : SoldInv(s))
  <1> DEFINE Sold == \A s \in Sagas : SoldInv(s)
  <1>1. Init => Sold
    BY DEF Init, ClientInit, SoldInv, AfterCreate
  <1>2. IInv /\ Sold /\ [Next]_vars => Sold'
    <2>1. SUFFICES ASSUME IInv, Sold, [Next]_vars, NEW t \in Sagas PROVE SoldInv(t)'
      OBVIOUS
    <2>2. CASE UNCHANGED vars
      BY <2>1, <2>2 DEF vars, wire, saga, SoldInv, OursEnabled
    <2>3. CASE Next /\ (SagaStep(t) \/ Crash(t))
      BY <2>1, <2>3, SoldStep
    <2>4. CASE Next /\ ~(SagaStep(t) \/ Crash(t))
      <3>1. Quiet(t)
        BY <2>1, <2>4, OthersAreQuiet DEF Next, IInv
      <3>2. QED
        BY <2>1, <2>4, <3>1, SoldQuiet
    <2>5. QED
      BY <2>1, <2>2, <2>3, <2>4
  <1> HIDE DEF Sold
  <1>3. Spec => []Sold
    BY <1>1, <1>2, InductiveInvariant, PTL DEF Spec
  <1>4. QED
    BY <1>3 DEF Sold

-----------------------------------------------------------------------------
(* The properties.                                                          *)

\* The state of the client, the service and every purchase keeps its type; a
\* call is under way only in the two steps that make one, and a session that
\* ended holds no flushed rows.
THEOREM TypeCorrect == Spec => []SagaTypeOK
  <1>1. IInv => SagaTypeOK
    BY DEF IInv
  <1>2. QED
    BY <1>1, InductiveInvariant, PTL

\* FAILED means fully compensated, for any number of purchases, answers of the
\* accounting service, lost and late requests, and crashes (_failed and the
\* compensations that lead to it).
THEOREM FailedUndone == Spec => []FailedIsUndone
  <1>1. IInv => FailedIsUndone
    BY DEF IInv, SagaInv, FailedInv, Undone, FailedIsUndone
  <1>2. QED
    BY <1>1, InductiveInvariant, PTL

\* A stranger's account under a purchase's name survives every purchase whose
\* create_user error was classified (the refused create proves that nothing of
\* the purchase's was created).
THEOREM StrangersSafe == Spec => []StrangersKept
  <1>1. IInv => StrangersKept
    BY DEF IInv
  <1>2. QED
    BY <1>1, InductiveInvariant, PTL

\* The run, written on a session of its own, never reports ahead of the
\* business commit.
THEOREM RunBehindBusiness == Spec => []RunFollowsBusiness
  <1>1. IInv => RunFollowsBusiness
    BY DEF IInv, SagaInv, RunInv, RunFollowsBusiness
  <1>2. QED
    BY <1>1, InductiveInvariant, PTL

\* A subscription is ACTIVE only with its rows committed, its route applied
\* and its own user enabled, and no request of anyone can still disable that
\* user.
THEOREM SoldProvisioned == Spec => []SoldIsProvisioned
  <1> DEFINE Sold == \A s \in Sagas : SoldInv(s)
  <1>1. Sold => SoldIsProvisioned
    BY DEF SoldInv, SoldIsProvisioned
  <1> HIDE DEF Sold
  <1>2. Spec => []Sold
    BY SoldInvariant DEF Sold
  <1>3. QED
    BY <1>1, <1>2, PTL

=============================================================================
