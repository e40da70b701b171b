--------------------------- MODULE XrayFileProofs ---------------------------
(***************************************************************************)
(* Proofs about the Xray file and its writers, for any principals, tags,    *)
(* deployment settings and foreign contents, and for a deployment that      *)
(* overlaps the backend in any way: the type invariant, ComposedValidates,  *)
(* ServedUnlessOutdated and HandsOff.                                       *)
(***************************************************************************)
EXTENDS XrayFile, XrayCompositionProofs

\* A writer at work has its candidate: with this the types are inductive.
TypeInv ==
    /\ XrayTypeOK
    /\ pc # "idle" => cand # NULL
    /\ dpc # "idle" => rendered # NULL

\* A content that is composed of the committed routes.
Fresh(c) == \E sh \in Shells : c = compose_xray_config(sh, routes)

\* The backend works for an open job, on what the committed routes compose to.
WorkInv == pc # "idle" => pending /\ Fresh(cand)

\* Once an apply has installed its candidate the file holds the committed
\* routes, and once it has reloaded Xray serves them, unless a deployment wrote
\* older ones or others wrote.
ApplyInv ==
    ~outdated =>
        /\ pc \in {"installed", "reloaded", "checked", "saved"} =>
              Fresh(config) \/ config \in Foreign
        /\ pc \in {"reloaded", "checked", "saved"} =>
              Fresh(runtime) \/ runtime \in Foreign

\* The same between jobs, from the first deployment or apply on.
ServedInv ==
    ~outdated /\ ~pending =>
        /\ baseline # NULL \/ dpc \in {"written", "up", "restarted", "checked"} =>
              Fresh(config) \/ config \in Foreign
        /\ baseline # NULL \/ dpc \in {"restarted", "checked"} =>
              Fresh(runtime) \/ runtime \in Foreign

\* After drift no writer gets past its check.
DriftInv == drift => config \in Foreign /\ ~PastCheck

IInv == TypeInv /\ WorkInv /\ ApplyInv /\ ServedInv /\ DriftInv

-----------------------------------------------------------------------------
(* Contents and baselines.                                                  *)

\* The three kinds of contents, and NULL, differ.
LEMMA ContentFacts ==
    /\ NULL \notin Contents /\ Composed \subseteq Contents /\ Foreign \subseteq Contents
    /\ TORN \in Contents /\ TORN \notin Composed /\ NULL \notin Composed
    /\ \A c \in Foreign : c \notin Composed /\ c # NULL
  BY ContentAssumption DEF Contents

\* Only an applied baseline carries a digest.
LEMMA BaselineFacts ==
    /\ \A c \in Composed : /\ Applied(c) \in Baselines /\ Applied(c) # Degraded
                           /\ Applied(c).state = "applied" /\ Applied(c).sha256 = c
    /\ Degraded \in Baselines /\ Degraded.state = "degraded"
    /\ \A b \in Baselines : b # NULL /\ (b.state = "applied" => b.sha256 \in Composed)
  <1>1. ASSUME NEW c \in Composed
        PROVE  Applied(c).state = "applied" /\ Applied(c).sha256 = c
    BY DEF Applied
  <1>2. Degraded \in Baselines /\ Degraded.state = "degraded"
    BY DEF Baselines, Degraded
  <1>3. ASSUME NEW c \in Composed PROVE Applied(c) \in Baselines /\ Applied(c) # Degraded
    <2>1. Applied(c) \in [state : {"applied"}, sha256 : Composed]
      BY DEF Applied
    <2>2. QED
      BY <1>1, <1>2, <2>1, "applied" # "degraded" DEF Baselines
  <1>4. ASSUME NEW b \in Baselines PROVE b # NULL /\ (b.state = "applied" => b.sha256 \in Composed)
    <2>1. CASE b \in [state : {"applied"}, sha256 : Composed]
      BY <2>1, ContentAssumption
    <2>2. CASE b = Degraded
      BY <1>2, <2>2, ContentAssumption
    <2>3. QED
      BY <2>1, <2>2 DEF Baselines, Degraded
  <1>5. QED
    BY <1>1, <1>2, <1>3, <1>4

\* What is composed belongs to Composed, and only that.
LEMMA ComposedFacts ==
    /\ \A sh \in Shells, d \in Desired :
          Composable(sh, d) => compose_xray_config(sh, d) \in Composed
    /\ \A c \in Composed : \E sh \in Shells, d \in Desired :
          Composable(sh, d) /\ c = compose_xray_config(sh, d)
  <1>1. ASSUME NEW sh \in Shells, NEW d \in Desired, Composable(sh, d)
        PROVE  compose_xray_config(sh, d) \in Composed
    <2>1. /\ <<sh, d>> \in Shells \X Desired /\ <<sh, d>>[1] = sh /\ <<sh, d>>[2] = d
      OBVIOUS
    <2>2. QED
      BY <1>1, <2>1 DEF Composed
  <1>2. ASSUME NEW c \in Composed
        PROVE  \E sh \in Shells, d \in Desired :
                  Composable(sh, d) /\ c = compose_xray_config(sh, d)
    <2>1. PICK x \in Shells \X Desired :
              Composable(x[1], x[2]) /\ c = compose_xray_config(x[1], x[2])
      BY DEF Composed
    <2>2. x[1] \in Shells /\ x[2] \in Desired
      OBVIOUS
    <2>3. QED
      BY <2>1, <2>2
  <1>3. QED
    BY <1>1, <1>2

\* The guard refuses a degraded baseline and a file that somebody else wrote.
LEMMA GuardFacts ==
    ASSUME XrayTypeOK
    PROVE  /\ baseline = Degraded => ~PassesGuard
           /\ config \in Foreign => ~PassesGuard
           /\ config \in Foreign /\ rendered \in Composed => config # rendered
  <1>1. Degraded # NULL /\ Degraded.state # "applied"
    BY BaselineFacts
  <1>2. baseline # NULL => baseline \in Baselines
    BY DEF XrayTypeOK
  <1>3. baseline # NULL /\ baseline.state = "applied" => baseline.sha256 \in Composed
    BY <1>2, BaselineFacts
  <1>4. QED
    BY <1>1, <1>3, ContentFacts DEF PassesGuard

-----------------------------------------------------------------------------
(* The type invariant.                                                      *)

\* Every step keeps the types.
LEMMA TypeStep ==
    ASSUME TypeInv, [Next]_vars
    PROVE  TypeInv'
  <1> USE ContentFacts DEF TypeInv, XrayTypeOK, appVars, deployVars, history, Return
  <1>1. CASE ChangeRoutes
    BY <1>1 DEF ChangeRoutes, Desired
  <1>2. CASE Begin
    BY <1>2, ComposedFacts DEF Begin, Candidate
  <1>3. CASE Guard \/ Resolve
    BY <1>3 DEF Guard, Resolve
  <1>4. CASE Install
    <2>1. cand' = cand /\ config' \in {config, cand}
      BY <1>4 DEF Install
    <2>2. config' \in Contents \cup {NULL}
      BY <2>1
    <2>3. QED
      BY <1>4, <2>2 DEF Install
  <1>5. CASE Reload \/ CheckHealth \/ ReloadRestored
    BY <1>5 DEF Reload, CheckHealth, ReloadRestored
  <1>6. CASE Restore
    BY <1>6 DEF Restore
  <1>7. CASE HealthRestored
    BY <1>7 DEF HealthRestored
  <1>8. CASE MarkDegraded
    BY <1>8, BaselineFacts DEF MarkDegraded
  <1>9. CASE Crash
    BY <1>9 DEF Crash, ProcessDies
  <1>10. CASE RenderRoutes
    BY <1>10, ComposedFacts DEF RenderRoutes
  <1>11. CASE CheckRendered \/ WriteRendered \/ RestartStack \/ CheckPromotion \/ DeployDies
    BY <1>11 DEF CheckRendered, WriteRendered, RestartStack, CheckPromotion, DeployDies
  <1>12. CASE ComposeUp
    <2>1. PICK sh \in Shells, d \in Desired : rendered = compose_xray_config(sh, d)
      BY <1>12, ComposedFacts DEF ComposeUp
    <2>2. rendered.shell \in Shells
      BY <2>1 DEF compose_xray_config
    <2>3. QED
      BY <1>12, <2>2 DEF ComposeUp, ProcessDies
  <1>13. CASE ForeignWrite
    BY <1>13 DEF ForeignWrite, PastCheck
  <1>14. CASE MarzbanRestarts
    BY <1>14 DEF MarzbanRestarts
  <1>15. CASE UNCHANGED vars
    BY <1>15 DEF vars
  <1>16. CASE SaveBaseline
    <2>1. cand \in Composed /\ baseline' \in {baseline, Applied(cand)}
      BY <1>16 DEF SaveBaseline
    <2>2. baseline' \in Baselines \cup {NULL}
      BY <2>1, BaselineFacts
    <2>3. QED
      BY <1>16, <2>2 DEF SaveBaseline
  <1>17. CASE Promote
    <2>1. rendered \in Composed /\ baseline' = Applied(rendered)
      BY <1>17 DEF Promote
    <2>2. baseline' \in Baselines \cup {NULL}
      BY <2>1, BaselineFacts
    <2>3. outdated' \in BOOLEAN
      BY <1>17 DEF Promote
    <2>4. QED
      BY <1>17, <2>2, <2>3 DEF Promote
  <1>18. QED
    BY <1>1, <1>2, <1>3, <1>4, <1>5, <1>6, <1>7, <1>8, <1>9, <1>10, <1>11,
       <1>12, <1>13, <1>14, <1>15, <1>16, <1>17 DEF Next

-----------------------------------------------------------------------------
(* The inductive invariant.                                                  *)

\* The steps of the backend's apply.
LEMMA ApplyStep ==
    ASSUME IInv, TypeInv',
           \/ ChangeRoutes \/ Begin \/ Guard \/ Install \/ Reload \/ CheckHealth
           \/ SaveBaseline \/ Resolve \/ Restore \/ ReloadRestored \/ HealthRestored
           \/ MarkDegraded \/ Crash
    PROVE  IInv'
  <1> USE DEF IInv, WorkInv, ApplyInv, ServedInv, DriftInv, Fresh, PastCheck,
      appVars, deployVars, history, Return
  <1>0. XrayTypeOK /\ XrayTypeOK' /\ TypeInv'
    BY DEF TypeInv
  <1>1. CASE ChangeRoutes
    BY <1>0, <1>1 DEF ChangeRoutes
  <1>2. CASE Begin
    <2>1. \E sh \in Shells : cand' = compose_xray_config(sh, routes)
      BY <1>0, <1>2 DEF Begin, Candidate, XrayTypeOK
    <2>2. QED
      BY <1>0, <1>2, <2>1 DEF Begin
  <1>3. CASE Guard
    <2>1. drift => ~PassesGuard
      BY <1>0, GuardFacts
    <2>2. QED
      BY <1>0, <1>3, <2>1 DEF Guard
  <1>4. CASE Install
    BY <1>0, <1>4 DEF Install
  <1>5. CASE Reload
    BY <1>0, <1>5 DEF Reload
  <1>6. CASE CheckHealth
    BY <1>0, <1>6 DEF CheckHealth
  <1>7. CASE SaveBaseline
    BY <1>0, <1>7 DEF SaveBaseline
  <1>8. CASE Resolve
    BY <1>0, <1>8 DEF Resolve
  <1>9. CASE Restore
    BY <1>0, <1>9 DEF Restore
  <1>10. CASE ReloadRestored
    BY <1>0, <1>10 DEF ReloadRestored
  <1>11. CASE HealthRestored
    BY <1>0, <1>11 DEF HealthRestored
  <1>12. CASE MarkDegraded
    BY <1>0, <1>12 DEF MarkDegraded
  <1>13. CASE Crash
    BY <1>0, <1>13 DEF Crash, ProcessDies
  <1>14. QED
    BY <1>1, <1>2, <1>3, <1>4, <1>5, <1>6, <1>7, <1>8, <1>9, <1>10, <1>11, <1>12, <1>13

\* The steps of a deployment, and of others.
LEMMA DeployStep ==
    ASSUME IInv, TypeInv',
           \/ RenderRoutes \/ CheckRendered \/ WriteRendered \/ ComposeUp \/ RestartStack
           \/ CheckPromotion \/ Promote \/ DeployDies
           \/ ForeignWrite \/ MarzbanRestarts
    PROVE  IInv'
  <1> USE DEF IInv, WorkInv, ApplyInv, ServedInv, DriftInv, Fresh, PastCheck,
      appVars, deployVars, history
  <1>0. XrayTypeOK /\ XrayTypeOK' /\ TypeInv'
    BY DEF TypeInv
  <1>1. CASE RenderRoutes
    BY <1>0, <1>1 DEF RenderRoutes
  <1>2. CASE CheckRendered
    <2>1. drift => ~PassesGuard
      BY <1>0, GuardFacts
    <2>2. QED
      BY <1>0, <1>2, <2>1 DEF CheckRendered
  <1>3. CASE WriteRendered
    BY <1>0, <1>3 DEF WriteRendered, Outdated
  <1>4. CASE ComposeUp
    BY <1>0, <1>4 DEF ComposeUp, ProcessDies, Return
  <1>5. CASE RestartStack
    BY <1>0, <1>5 DEF RestartStack
  <1>6. CASE CheckPromotion
    <2>1. rendered \in Composed
      BY <1>6 DEF TypeInv, XrayTypeOK, CheckPromotion
    <2>2. ~drift
      BY <1>0, <1>6, <2>1, GuardFacts DEF CheckPromotion
    <2>3. QED
      BY <1>0, <1>6, <2>2 DEF CheckPromotion
  <1>7. CASE Promote
    BY <1>0, <1>7 DEF Promote
  <1>8. CASE DeployDies
    BY <1>0, <1>8 DEF DeployDies
  <1>9. CASE ForeignWrite
    BY <1>0, <1>9 DEF ForeignWrite
  <1>10. CASE MarzbanRestarts
    BY <1>0, <1>10 DEF MarzbanRestarts
  <1>11. QED
    BY <1>1, <1>2, <1>3, <1>4, <1>5, <1>6, <1>7, <1>8, <1>9, <1>10

\* Nothing is installed or at work.
LEMMA InitIInv == Init => IInv
  <1> SUFFICES ASSUME Init PROVE IInv
    OBVIOUS
  <1>1. TypeInv
    BY ContentFacts DEF Init, TypeInv, XrayTypeOK, Desired
  <1>2. QED
    BY <1>1 DEF Init, IInv, WorkInv, ApplyInv, ServedInv, DriftInv

\* Every step keeps the invariant.
LEMMA NextIInv ==
    ASSUME IInv, [Next]_vars
    PROVE  IInv'
  <1>1. TypeInv'
    BY TypeStep DEF IInv
  <1>2. CASE UNCHANGED vars
    BY <1>1, <1>2
    DEF vars, appVars, deployVars, history, IInv, WorkInv, ApplyInv, ServedInv, DriftInv,
        Fresh, PastCheck
  <1>3. CASE Next
    BY <1>1, <1>3, ApplyStep, DeployStep DEF Next
  <1>4. QED
    BY <1>2, <1>3

\* The invariant holds in every reachable state.
LEMMA InductiveInvariant == Spec => []IInv
  <1>1. IInv /\ [Next]_vars => IInv'
    BY NextIInv
  <1>2. QED
    BY <1>1, InitIInv, PTL DEF Spec

-----------------------------------------------------------------------------
\* The file, the runtime, the sidecar and both writers keep their types: only
\* what was composed is ever a candidate or a digest.
THEOREM TypeCorrect == Spec => []XrayTypeOK
  <1>1. IInv => XrayTypeOK
    BY DEF IInv, TypeInv
  <1>2. QED
    BY <1>1, InductiveInvariant, PTL

\* The validator that apply runs accepts every candidate the composer makes, so
\* no committed route is refused for its shape.
THEOREM CandidateValid == Spec => []ComposedValidates
  <1>1. IInv => ComposedValidates
    <2> SUFFICES ASSUME IInv, cand # NULL PROVE ValidConfig(cand)
      BY DEF ComposedValidates
    <2>1. cand \in Composed
      BY DEF IInv, TypeInv, XrayTypeOK
    <2>2. PICK sh \in Shells, d \in Desired :
              Composable(sh, d) /\ cand = compose_xray_config(sh, d)
      BY <2>1, ComposedFacts
    <2>3. QED
      BY <2>2, ComposedIsValid
  <1>2. QED
    BY <1>1, InductiveInvariant, PTL

\* With no job open Xray sends every principal through its own egress and blocks
\* everything else, whatever failed, crashed, was written by others or was
\* deployed meanwhile, unless a deployment wrote or promoted older routes.
THEOREM ServedRoutes == Spec => []ServedUnlessOutdated
  <1>1. IInv => ServedUnlessOutdated
    <2> SUFFICES ASSUME IInv, ~outdated, ~pending, baseline # NULL, runtime \notin Foreign,
                        NEW p \in Principals
                 PROVE  /\ Delivered(runtime, p, FALSE)
                              = IF routes[p] = NULL THEN BLOCK ELSE routes[p]
                        /\ Delivered(runtime, p, TRUE) = BLOCK
      BY DEF ServedUnlessOutdated, ServesRoutes
    <2>1. PICK sh \in Shells : runtime = compose_xray_config(sh, routes)
      BY DEF IInv, ServedInv, Fresh
    <2>2. routes \in Desired
      BY DEF IInv, TypeInv, XrayTypeOK
    <2>3. QED
      BY <2>1, <2>2, ComposedDelivers
  <1>2. QED
    BY <1>1, InductiveInvariant, PTL

\* No writer overwrites, adopts or rolls back what others wrote while none was
\* past its check, nor gets past its check over a degraded baseline.
THEOREM HandsKeptOff == Spec => HandsOff
  <1>1. IInv /\ [Next]_vars =>
            [drift \/ (baseline = Degraded /\ ~PastCheck) =>
                /\ ~PastCheck'
                /\ baseline' = baseline
                /\ config' # config => config' \in Foreign]_vars
    <2> SUFFICES ASSUME IInv, Next, drift \/ (baseline = Degraded /\ ~PastCheck)
                 PROVE  /\ ~PastCheck'
                        /\ baseline' = baseline
                        /\ config' # config => config' \in Foreign
      OBVIOUS
    <2>1. ~PastCheck
      BY DEF IInv, DriftInv
    <2>2. ~PassesGuard
      BY GuardFacts DEF IInv, TypeInv, DriftInv
    <2>3. ~CheckPromotion
      <3>1. CASE baseline = Degraded
        BY <3>1 DEF CheckPromotion
      <3>2. CASE drift
        BY <3>2, GuardFacts DEF CheckPromotion, IInv, TypeInv, XrayTypeOK, DriftInv
      <3>3. QED
        BY <3>1, <3>2
    <2>4. CASE \/ ChangeRoutes \/ Begin \/ Guard \/ Resolve \/ Crash \/ RenderRoutes
               \/ CheckRendered \/ RestartStack \/ DeployDies
               \/ ForeignWrite \/ MarzbanRestarts
      BY <2>1, <2>2, <2>4
      DEF PastCheck, ChangeRoutes, Begin, Guard, Resolve, Crash, ProcessDies, Return,
          RenderRoutes, CheckRendered, RestartStack, DeployDies, ForeignWrite,
          MarzbanRestarts, appVars, deployVars
    <2>5. CASE ComposeUp
      BY <2>1, <2>5 DEF PastCheck, ComposeUp, ProcessDies, Return, appVars
    <2>6. CASE \/ Install \/ Reload \/ CheckHealth \/ SaveBaseline \/ Restore
               \/ ReloadRestored \/ HealthRestored \/ MarkDegraded \/ WriteRendered
               \/ Promote
      BY <2>1, <2>6
      DEF PastCheck, Install, Reload, CheckHealth, SaveBaseline, Restore, ReloadRestored,
          HealthRestored, MarkDegraded, WriteRendered, Promote
    <2>7. QED
      BY <2>3, <2>4, <2>5, <2>6 DEF Next
  <1>2. QED
    BY <1>1, InductiveInvariant, PTL DEF Spec, HandsOff

=============================================================================
