-------------------------- MODULE UsageLedgerProofs -------------------------
(***************************************************************************)
(* Proofs about the usage ledger and the renewal queue, for any number of  *)
(* periods, quotas, jobs and admins and for any amount of traffic.  Types  *)
(* hold for any number of schedulers; the other theorems are about one     *)
(* scheduler process, which is what compose.base.yml starts.               *)
(***************************************************************************)
EXTENDS UsageLedger, FiniteSetTheorems, TLAPS

-----------------------------------------------------------------------------
(* Sums.  FoldFunction is a recursive function over the subsets of a finite *)
(* set; inductions over their size are by a smallest counterexample.        *)

Sum(f)  == FoldFunction(LAMBDA a, b : a + b, 0, f)
Pick(s) == CHOOSE x \in s : TRUE

\* The equation of the recursive function inside FoldFunction, for the sums
\* over the subsets of D whose size is at most n.
Level(D, n)     == {s \in SUBSET D : Cardinality(s) <= n}
IsSum(f, S, g)  == g = [s \in S |-> IF s = {} THEN 0 ELSE f[Pick(s)] + g[s \ {Pick(s)}]]

\* A set of naturals that is not empty has a smallest member.
LEMMA Smallest ==
    ASSUME NEW T \in SUBSET Nat, T # {}
    PROVE  \E m \in T : \A k \in T : m <= k
  <1> DEFINE R == {ss \in Nat \X Nat : ss[1] < ss[2]}
  <1>1. IsWellFoundedOn(R, Nat)
    BY NatLessThanWellFounded DEF OpToRel
  <1>2. PICK x \in T : \A y \in T : ~(<<y, x>> \in R)
    BY <1>1, WFMin
  <1>3. ASSUME NEW y \in T PROVE x <= y
    <2>1. x \in Nat /\ y \in Nat /\ <<y, x>> \in Nat \X Nat
      OBVIOUS
    <2>2. ~(y < x)
      BY <1>2, <2>1
    <2>3. QED
      BY <2>1, <2>2
  <1>4. QED
    BY <1>3

\* What the recursion takes out of a set leaves a smaller one.
LEMMA PickSmaller ==
    ASSUME NEW D, IsFiniteSet(D), NEW s \in SUBSET D, s # {}
    PROVE  /\ Pick(s) \in s
           /\ s \ {Pick(s)} \in SUBSET D
           /\ Cardinality(s) \in Nat \ {0}
           /\ Cardinality(s \ {Pick(s)}) \in Nat
           /\ Cardinality(s \ {Pick(s)}) = Cardinality(s) - 1
  <1>1. Pick(s) \in s
    BY DEF Pick
  <1>2. IsFiniteSet(s)
    BY FS_Subset
  <1>3. Cardinality(s) \in Nat /\ Cardinality(s) # 0
    BY <1>2, FS_CardinalityType, FS_EmptySet
  <1>4. IsFiniteSet(s \ {Pick(s)}) /\ Cardinality(s \ {Pick(s)}) = Cardinality(s) - 1
    BY <1>1, <1>2, FS_RemoveElement
  <1>5. QED
    BY <1>1, <1>3, <1>4

\* The recursion defines a function at every level ...
LEMMA SumLevels ==
    ASSUME NEW f, NEW D, IsFiniteSet(D)
    PROVE  \A n \in Nat : \E g : IsSum(f, Level(D, n), g)
  <1> DEFINE Bad == {n \in Nat : ~ \E g : IsSum(f, Level(D, n), g)}
  <1>1. SUFFICES ASSUME Bad # {} PROVE FALSE
    OBVIOUS
  <1>2. PICK m \in Bad : \A k \in Bad : m <= k
    BY <1>1, Smallest
  <1>3. m \in Nat /\ ~ \E g : IsSum(f, Level(D, m), g)
    OBVIOUS
  <1>4. CASE m = 0
    <2> DEFINE g == [s \in Level(D, 0) |-> 0]
    <2>1. ASSUME NEW s \in Level(D, 0) PROVE s = {}
      <3>1. s \in SUBSET D /\ Cardinality(s) <= 0
        BY DEF Level
      <3>2. ASSUME s # {} PROVE Cardinality(s) \in Nat \ {0}
        BY <3>1, <3>2, PickSmaller
      <3>3. QED
        BY <3>1, <3>2
    <2>2. IsSum(f, Level(D, 0), g)
      BY <2>1 DEF IsSum
    <2>3. QED
      BY <1>3, <1>4, <2>2
  <1>5. CASE m # 0
    <2>1. m - 1 \in Nat /\ m - 1 \notin Bad
      BY <1>2, <1>3, <1>5
    <2>2. PICK h : IsSum(f, Level(D, m - 1), h)
      BY <2>1
    <2> DEFINE g == [s \in Level(D, m) |->
                        IF s = {} THEN 0 ELSE f[Pick(s)] + h[s \ {Pick(s)}]]
    <2>3. ASSUME NEW s \in Level(D, m), s # {}
          PROVE  s \ {Pick(s)} \in Level(D, m - 1)
      BY <1>3, <2>3, PickSmaller DEF Level
    <2>4. ASSUME NEW t \in Level(D, m - 1)
          PROVE  t \in Level(D, m) /\ g[t] = h[t]
      <3>1. t \in SUBSET D /\ Cardinality(t) <= m - 1 /\ IsFiniteSet(t)
        BY FS_Subset DEF Level
      <3>2. Cardinality(t) \in Nat
        BY <3>1, FS_CardinalityType
      <3>3. t \in Level(D, m)
        BY <1>3, <3>1, <3>2 DEF Level
      <3>4. h[t] = IF t = {} THEN 0 ELSE f[Pick(t)] + h[t \ {Pick(t)}]
        BY <2>2 DEF IsSum
      <3>5. QED
        BY <3>3, <3>4
    <2>5. ASSUME NEW s \in Level(D, m)
          PROVE  g[s] = IF s = {} THEN 0 ELSE f[Pick(s)] + g[s \ {Pick(s)}]
      BY <2>3, <2>4
    <2>6. g = [s \in Level(D, m) |-> g[s]]
      OBVIOUS
    <2> HIDE DEF g
    <2>7. IsSum(f, Level(D, m), g)
      BY <2>5, <2>6 DEF IsSum
    <2>8. QED
      BY <1>3, <2>7
  <1>6. QED
    BY <1>4, <1>5

\* ... so FoldFunction over a finite domain is what its equation says.
LEMMA SumDefined ==
    ASSUME NEW f, IsFiniteSet(DOMAIN f)
    PROVE  \E g : IsSum(f, SUBSET DOMAIN f, g) /\ Sum(f) = g[DOMAIN f]
  <1> DEFINE D == DOMAIN f
             G == CHOOSE g : IsSum(f, SUBSET D, g)
  <1>1. Cardinality(D) \in Nat
    BY FS_CardinalityType
  <1>2. Level(D, Cardinality(D)) = SUBSET D
    <2>1. \A s \in SUBSET D : Cardinality(s) <= Cardinality(D)
      BY FS_Subset
    <2>2. QED
      BY <2>1 DEF Level
  <1>3. \E g : IsSum(f, SUBSET D, g)
    <2> HIDE DEF D
    <2>1. \E g : IsSum(f, Level(D, Cardinality(D)), g)
      BY <1>1, SumLevels DEF D
    <2>2. QED
      BY <1>2, <2>1
  <1>4. IsSum(f, SUBSET D, G)
    BY <1>3
  <1>5. Sum(f) = G[D]
    BY DEF Sum, FoldFunction, FoldFunctionOnSet, MapThenFoldSet, IsSum, Pick
  <1>6. QED
    BY <1>4, <1>5

\* One more unit at one index is one more unit in the sum.
LEMMA SumUpdate ==
    ASSUME NEW D, IsFiniteSet(D), NEW f \in [D -> Nat], NEW p \in D, NEW d \in Nat
    PROVE  /\ Sum(f) \in Nat
           /\ Sum([f EXCEPT ![p] = @ + d]) = Sum(f) + d
  <1> DEFINE e == [f EXCEPT ![p] = @ + d]
  <1>1. DOMAIN f = D /\ DOMAIN e = D
    OBVIOUS
  <1>2. PICK g : IsSum(f, SUBSET D, g) /\ Sum(f) = g[D]
    BY <1>1, SumDefined
  <1>3. PICK h : IsSum(e, SUBSET D, h) /\ Sum(e) = h[D]
    BY <1>1, SumDefined
  <1> DEFINE Good(s) == g[s] \in Nat /\ h[s] = g[s] + IF p \in s THEN d ELSE 0
             Bad == {n \in Nat : \E s \in SUBSET D : Cardinality(s) = n /\ ~Good(s)}
  <1>4. Bad = {}
    <2>1. SUFFICES ASSUME Bad # {} PROVE FALSE
      OBVIOUS
    <2>2. PICK m \in Bad : \A k \in Bad : m <= k
      BY <2>1, Smallest
    <2>3. PICK s \in SUBSET D : Cardinality(s) = m /\ ~Good(s)
      OBVIOUS
    <2>4. s # {}
      <3>1. SUFFICES ASSUME s = {} PROVE FALSE
        OBVIOUS
      <3>2. g[s] = 0 /\ h[s] = 0
        BY <1>2, <1>3, <3>1 DEF IsSum
      <3>3. QED
        BY <2>3, <3>1, <3>2
    <2> DEFINE x == Pick(s)
               t == s \ {x}
    <2>5. x \in s /\ t \in SUBSET D /\ m \in Nat /\ Cardinality(t) \in Nat /\ Cardinality(t) = m - 1
      BY <2>3, <2>4, PickSmaller
    <2>6. Good(t)
      <3>1. Cardinality(t) \notin Bad
        <4> HIDE DEF Bad, t
        <4>1. ASSUME Cardinality(t) \in Bad PROVE m <= m - 1
          BY <2>2, <2>5, <4>1
        <4>2. QED
          BY <2>5, <4>1
      <3>2. QED
        BY <2>5, <3>1
    <2>7. g[s] = f[x] + g[t] /\ h[s] = e[x] + h[t]
      BY <1>2, <1>3, <2>4 DEF IsSum
    <2>8. x \in D /\ f[x] \in Nat /\ e[x] = f[x] + IF x = p THEN d ELSE 0
      BY <2>5
    <2>9. p \in s <=> x = p \/ p \in t
      BY <2>5
    <2>10. x = p => p \notin t
      OBVIOUS
    <2> HIDE DEF e, x, t
    <2>11. Good(s)
      BY <2>6, <2>7, <2>8, <2>9, <2>10
    <2>12. QED
      BY <2>3, <2>11
  <1>5. Cardinality(D) \in Nat
    BY FS_CardinalityType
  <1>6. Good(D)
    BY <1>4, <1>5
  <1> HIDE DEF e
  <1>7. Sum(e) = Sum(f) + d /\ Sum(f) \in Nat
    BY <1>2, <1>3, <1>6
  <1>8. QED
    BY <1>7 DEF e

\* Nothing charged sums to nothing.
LEMMA SumZero ==
    ASSUME NEW D, IsFiniteSet(D)
    PROVE  Sum([p \in D |-> 0]) = 0
  <1> DEFINE f == [p \in D |-> 0]
  <1>1. DOMAIN f = D
    OBVIOUS
  <1>2. PICK g : IsSum(f, SUBSET D, g) /\ Sum(f) = g[D]
    BY <1>1, SumDefined
  <1> DEFINE Bad == {n \in Nat : \E s \in SUBSET D : Cardinality(s) = n /\ g[s] # 0}
  <1>3. Bad = {}
    <2>1. SUFFICES ASSUME Bad # {} PROVE FALSE
      OBVIOUS
    <2>2. PICK m \in Bad : \A k \in Bad : m <= k
      BY <2>1, Smallest
    <2>3. PICK s \in SUBSET D : Cardinality(s) = m /\ g[s] # 0
      OBVIOUS
    <2>4. s # {} /\ g[s] = f[Pick(s)] + g[s \ {Pick(s)}]
      BY <1>2, <2>3 DEF IsSum
    <2>5. /\ Pick(s) \in D /\ s \ {Pick(s)} \in SUBSET D /\ m \in Nat
          /\ Cardinality(s \ {Pick(s)}) \in Nat /\ Cardinality(s \ {Pick(s)}) = m - 1
      BY <2>3, <2>4, PickSmaller
    <2>6. Cardinality(s \ {Pick(s)}) \notin Bad
      <3> HIDE DEF Bad
      <3>1. ASSUME Cardinality(s \ {Pick(s)}) \in Bad PROVE m <= m - 1
        BY <2>2, <2>5, <3>1
      <3>2. QED
        BY <2>5, <3>1
    <2>7. g[s \ {Pick(s)}] = 0
      BY <2>5, <2>6
    <2>8. QED
      BY <2>3, <2>4, <2>5, <2>7
  <1>4. Cardinality(D) \in Nat
    BY FS_CardinalityType
  <1>5. QED
    BY <1>2, <1>3, <1>4

-----------------------------------------------------------------------------
(* The inductive invariant.                                                 *)

\* There is one scheduler process.
OneScheduler == \A v, w \in Workers : v = w

\* The service's counter never runs ahead of the traffic.
TypeInv == TypeOK /\ counter <= traffic

\* The session of the only writer of the row sees the row until it ends, and
\* an unfinished reconcile keeps the row PENDING.
SyncInv ==
    \A w \in Workers :
        /\ pc[w] \in {"claimed", "read", "reconcile", "writeQuota", "writeExpire", "confirm"}
           => view[w] = row
        /\ pc[w] \in {"reconcile", "writeQuota", "writeExpire", "confirm", "reconcileFailed"}
           => row.recon = "PENDING"
        /\ pc[w] \in {"writeExpire", "confirm"} => accQuota = row.current
        /\ pc[w] = "confirm" => accExpire = row.expires

\* Renewals are confirmed without gaps.
QueueInv == \A p, q \in Periods : p < q /\ period[p] = "NONE" => period[q] = "NONE"

\* What a sample of r charges when the one before it read b.
Charge(b, r) == IF r >= b THEN r - b ELSE r

\* Neither the next reading nor the one a job holds, followed by the next,
\* charges more than has been moved; samples are taken in the order of clock.
\* Without a reset the latest sample has charged exactly what it read.
ChargeInv ==
    /\ Sum(ledger) + Charge(last.bytes, counter) <= traffic
    /\ last.at <= clock
    /\ resets = 0 => /\ traffic = counter
                     /\ Sum(ledger) = last.bytes
                     /\ last.bytes <= counter
    /\ \A w \in Workers :
          /\ pc[w] \in {"claimed", "read"} => stamp[w] = clock
          /\ pc[w] = "read" =>
                Sum(ledger) + Charge(last.bytes, reading[w]) + Charge(reading[w], counter)
                    <= traffic
          /\ pc[w] = "read" /\ resets = 0 =>
                last.bytes <= reading[w] /\ reading[w] <= counter

IInv ==
    /\ TypeInv
    /\ SyncInv
    /\ SyncedMeansWritten
    /\ QueueInv
    /\ PeriodsInOrder
    /\ ChargeInv

-----------------------------------------------------------------------------
(* The operators of the model.                                              *)

USE DEF external, acc, periods, jobrows, local

LEMMA ConstantFacts ==
    /\ NumPeriods \in Nat \ {0} /\ Periods \subseteq Nat \ {0} /\ 1 \in Periods
    /\ Quota \in [Periods -> Nat \ {0}]
    /\ MaxAttempts \in Nat \ {0} /\ MaxTraffic \in Nat /\ MaxResets \in Nat
    /\ NULL \notin Jobs
  BY PeriodAssumption, LimitAssumption, NullAssumption DEF Periods

LEMMA PeriodsFinite == IsFiniteSet(Periods)
  BY FS_Interval, PeriodAssumption DEF Periods

\* The queue has a first period when it is not empty.
LEMMA HeadIsFirst ==
    ASSUME Queue # {}
    PROVE  /\ QueueHead \in Periods /\ period[QueueHead] = "QUEUED"
           /\ \A q \in Periods : period[q] = "QUEUED" => QueueHead <= q
  <1>1. Queue \in SUBSET Nat
    BY ConstantFacts DEF Queue
  <1>2. \E q \in Queue : \A x \in Queue : q <= x
    BY <1>1, Smallest
  <1>3. QueueHead \in Queue /\ \A x \in Queue : QueueHead <= x
    BY <1>2 DEF QueueHead
  <1>4. QED
    BY <1>3 DEF Queue

\* A flush yields a row; from an up-to-date session it writes what the session has.
LEMMA FlushType ==
    ASSUME row \in SubRow, NEW seen \in SubRow, NEW new \in SubRow
    PROVE  Flush(seen, new) \in SubRow
  BY DEF Flush, SubRow

LEMMA FlushFresh ==
    ASSUME row \in SubRow, NEW new \in SubRow
    PROVE  Flush(row, new) = new
  BY DEF Flush, SubRow

\* What apply_expiry_policy can do to the subscription.
LEMMA VerdictCases ==
    ASSUME NEW seen \in SubRow, NEW u
    PROVE  LET new == ExpiryVerdict(seen, u) IN
           /\ new \in SubRow
           /\ Due(seen, u) => new.recon = "PENDING"
           /\ Due(seen, u) /\ Queue # {} => new.current = QueueHead /\ new.status = "ACTIVE"
           /\ Due(seen, u) /\ Queue = {} => new.current = seen.current /\ new.status = "GRACE"
           /\ ~Due(seen, u) => /\ new.current = seen.current
                               /\ new.expires = seen.expires
                               /\ new.recon = seen.recon
                               /\ new.status = seen.status
                                  \/ (seen.status = "GRACE" /\ new.status = "EXPIRED")
  BY HeadIsFirst DEF ExpiryVerdict, SubRow, Deadlines, Due

LEMMA PeriodsType ==
    ASSUME TypeOK, NEW seen, NEW u
    PROVE  ExpiryPeriods(seen, u) \in [Periods -> {"NONE", "QUEUED", "ACTIVE", "CLOSED"}]
  BY DEF ExpiryPeriods, TypeOK

LEMMA DeltaType ==
    ASSUME TypeOK, NEW r \in 0..MaxTraffic
    PROVE  Delta(r) \in Nat /\ Delta(r) = Charge(last.bytes, r)
  BY ConstantFacts DEF Delta, Charge, TypeOK

-----------------------------------------------------------------------------
(* Types.                                                                   *)

LEMMA RowFacts ==
    /\ FirstRow \in SubRow
    /\ [p \in Periods |-> 0] \in [Periods -> Nat]
    /\ \A r \in SubRow :
          /\ r.current \in Periods /\ r.expires \in Deadlines
          /\ \A x \in {"SYNCED", "PENDING", "MANUAL"} : [r EXCEPT !.recon = x] \in SubRow
  BY ConstantFacts DEF SubRow, FirstRow, Deadlines

LocalType ==
    /\ pc \in [Workers -> PCs]
    /\ mine \in [Workers -> Jobs \cup {NULL}]
    /\ view \in [Workers -> SubRow]
    /\ reading \in [Workers -> 0..MaxTraffic]
    /\ stamp \in [Workers -> Nat]
    /\ rolled \in [Workers -> BOOLEAN]
    /\ snap \in [Workers -> [Periods -> Nat]]

\* A worker that ends its round, or goes back to its job, is well-typed.
LEMMA IdleType ==
    ASSUME LocalType, NEW w \in Workers, Idle(w)
    PROVE  LocalType'
  <1>1. 0 \in 0..MaxTraffic /\ "idle" \in PCs
    BY ConstantFacts DEF PCs
  <1>2. QED
    BY <1>1, RowFacts DEF LocalType, Idle, Goto

LEMMA ReturnsType ==
    ASSUME LocalType, NEW w \in Workers, ReconcileReturns(w)
    PROVE  LocalType'
  <1>1. CASE mine[w] = NULL
    BY <1>1, IdleType DEF ReconcileReturns
  <1>2. CASE mine[w] # NULL
    BY <1>2 DEF ReconcileReturns, LocalType, Goto, PCs
  <1>3. QED
    BY <1>1, <1>2

LEMMA AdminDone ==
    ASSUME NEW r \in [pc : {"idle", "read", "done"}, current : Periods,
                      value : 0..MaxTraffic, seen : Nat]
    PROVE  [r EXCEPT !.pc = "done"] \in
              [pc : {"idle", "read", "done"}, current : Periods,
               value : 0..MaxTraffic, seen : Nat]
  OBVIOUS

LEMMA TypeStep == TypeInv /\ [Next]_vars => TypeInv'
  <1> SUFFICES ASSUME TypeInv, [Next]_vars PROVE TypeInv'
    OBVIOUS
  <1> USE ConstantFacts, RowFacts DEF TypeInv, TypeOK, PCs, At, Goto
  <1>1. CASE Traffic
    <2>1. traffic' \in 0..MaxTraffic /\ counter' \in 0..MaxTraffic /\ counter' <= traffic'
      BY <1>1 DEF Traffic
    <2>2. QED
      BY <1>1, <2>1 DEF Traffic
  <1>2. CASE CounterReset
    <2>1. counter' \in 0..MaxTraffic /\ resets' \in 0..MaxResets /\ counter' <= traffic'
      BY <1>2 DEF CounterReset
    <2>2. QED
      BY <1>2, <2>1 DEF CounterReset
  <1>3. CASE DeadlinePasses
    <2>1. elapsed' \subseteq Deadlines
      <3>1. row.expires \in Deadlines
        OBVIOUS
      <3>2. QED
        BY <1>3, <3>1 DEF DeadlinePasses
    <2>2. QED
      BY <1>3, <2>1 DEF DeadlinePasses
  <1>4. ASSUME NEW p \in Periods, ConfirmRenewal(p) PROVE TypeInv'
    BY <1>4 DEF ConfirmRenewal
  <1>5. ASSUME NEW j \in Jobs, EnqueueUsageSync(j) PROVE TypeInv'
    BY <1>5 DEF EnqueueUsageSync
  <1>6. ASSUME NEW a \in Admins, AdminRead(a) PROVE TypeInv'
    BY <1>6 DEF AdminRead
  <1>7. ASSUME NEW a \in Admins, AdminWrite(a) PROVE TypeInv'
    <2> HIDE RowFacts
    <2>1. admin[a].value \in Nat /\ admin[a].current \in Periods
      OBVIOUS
    <2>2. used' \in [Periods -> Nat]
      BY <1>7, <2>1 DEF AdminWrite
    <2>3. admin' \in [Admins -> [pc : {"idle", "read", "done"}, current : Periods,
                                 value : 0..MaxTraffic, seen : Nat]]
      <3>1. admin' = [admin EXCEPT ![a] = [admin[a] EXCEPT !.pc = "done"]]
        BY <1>7 DEF AdminWrite
      <3>2. [admin[a] EXCEPT !.pc = "done"] \in
                [pc : {"idle", "read", "done"}, current : Periods,
                 value : 0..MaxTraffic, seen : Nat]
        BY AdminDone
      <3>3. QED
        BY <3>1, <3>2
    <2>4. QED
      BY <1>7, <2>2, <2>3 DEF AdminWrite
  <1>8. ASSUME NEW w \in Workers, NEW j \in Jobs, ClaimJob(w, j) PROVE TypeInv'
    <2> HIDE RowFacts
    <2>1. job' \in [Jobs -> {"NONE", "PENDING", "RUNNING", "FAILED", "SUCCEEDED"}]
      BY <1>8 DEF ClaimJob
    <2>2. attempts' \in [Jobs -> 0..MaxAttempts]
      <3>1. attempts[j] \in Nat /\ attempts[j] < MaxAttempts
        BY <1>8 DEF ClaimJob, Claimable
      <3>2. attempts[j] + 1 \in 0..MaxAttempts
        BY <3>1
      <3>3. attempts' = [attempts EXCEPT ![j] = attempts[j] + 1]
        BY <1>8 DEF ClaimJob
      <3>4. QED
        BY <3>2, <3>3
    <2>3. clock' \in Nat /\ stamp' \in [Workers -> Nat]
      <3>1. clock' \in Nat /\ stamp' = [stamp EXCEPT ![w] = clock']
        BY <1>8 DEF ClaimJob
      <3>2. QED
        BY <3>1
    <2>4. /\ mine' \in [Workers -> Jobs \cup {NULL}]
          /\ view' \in [Workers -> SubRow]
          /\ pc' \in [Workers -> PCs]
      BY <1>8 DEF ClaimJob
    <2>5. QED
      BY <1>8, <2>1, <2>2, <2>3, <2>4 DEF ClaimJob
  <1>9. ASSUME NEW w \in Workers, ReadUsage(w) PROVE TypeInv'
    <2> HIDE RowFacts
    <2>1. reading' \in [Workers -> 0..MaxTraffic]
      BY <1>9 DEF ReadUsage
    <2>2. pc' \in [Workers -> PCs]
      BY <1>9, SMTT(40) DEF ReadUsage
    <2>3. QED
      BY <1>9, <2>1, <2>2 DEF ReadUsage
  <1>10. ASSUME NEW w \in Workers, CommitSync(w) PROVE TypeInv'
    <2> DEFINE seen  == view[w]
               d     == Delta(reading[w])
               u     == [used EXCEPT ![seen.current] = @ + d]
               new   == ExpiryVerdict(seen, u)
    <2>1. seen \in SubRow /\ seen.current \in Periods
      BY DEF SubRow
    <2>2. d \in Nat
      BY DeltaType
    <2>3. new \in SubRow /\ Flush(seen, new) \in SubRow
      BY <2>1, VerdictCases, FlushType
    <2>4. ExpiryPeriods(seen, u) \in [Periods -> {"NONE", "QUEUED", "ACTIVE", "CLOSED"}]
      BY PeriodsType
    <2>5. u \in [Periods -> Nat] /\ [ledger EXCEPT ![seen.current] = @ + d] \in [Periods -> Nat]
      BY <2>1, <2>2, SMTT(40)
    <2>6. [at |-> stamp[w], bytes |-> reading[w]] \in [at : Nat, bytes : 0..MaxTraffic]
      OBVIOUS
    <2> HIDE DEF seen, d, u, new
    <2>7. /\ row' = Flush(seen, new) /\ period' = ExpiryPeriods(seen, u) /\ used' = u
          /\ ledger' = [ledger EXCEPT ![seen.current] = @ + d]
          /\ last' \in {last, [at |-> stamp[w], bytes |-> reading[w]]}
          /\ view' = [view EXCEPT ![w] = new]
          /\ rolled' \in [Workers -> BOOLEAN]
          /\ pc' \in [Workers -> PCs]
          /\ UNCHANGED <<external, acc, jobrows, mine, reading, stamp, snap, admin>>
      BY <1>10 DEF CommitSync, PCs, seen, d, u, new
    <2>8. QED
      BY <2>3, <2>4, <2>5, <2>6, <2>7
  <1>11. ASSUME NEW w \in Workers, SyncFails(w) PROVE TypeInv'
    BY <1>11 DEF SyncFails
  <1>12. ASSUME NEW w \in Workers, Release(w) PROVE TypeInv'
    BY <1>12 DEF Release
  <1>13. ASSUME NEW w \in Workers, FinishJob(w) PROVE TypeInv'
    <2>1. LocalType'
      BY <1>13, IdleType DEF LocalType, FinishJob
    <2>2. QED
      BY <1>13, <2>1 DEF LocalType, FinishJob
  <1>14. ASSUME NEW w \in Workers, FailJob(w) PROVE TypeInv'
    <2>1. LocalType'
      BY <1>14, IdleType DEF LocalType, FailJob
    <2>2. QED
      BY <1>14, <2>1 DEF LocalType, FailJob
  <1>15. ASSUME NEW w \in Workers, LoadPending(w) PROVE TypeInv'
    BY <1>15 DEF LoadPending
  <1>16. ASSUME NEW w \in Workers, StartReconcile(w) PROVE TypeInv'
    <2>1. row' \in SubRow /\ view' \in [Workers -> SubRow]
      BY <1>16, FlushType DEF StartReconcile
    <2>2. pc' \in [Workers -> PCs]
      BY <1>16 DEF StartReconcile
    <2>3. QED
      BY <1>16, <2>1, <2>2 DEF StartReconcile
  <1>17. ASSUME NEW w \in Workers, WriteQuota(w) PROVE TypeInv'
    BY <1>17 DEF WriteQuota
  <1>18. ASSUME NEW w \in Workers, WriteExpire(w) PROVE TypeInv'
    BY <1>18 DEF WriteExpire
  <1>19. ASSUME NEW w \in Workers, WriteFails(w) PROVE TypeInv'
    <2>1. accQuota' \in Periods /\ accExpire' \in Deadlines
      <3>1. view[w].current \in Periods /\ view[w].expires \in Deadlines
        OBVIOUS
      <3>2. QED
        BY <1>19, <3>1 DEF WriteFails
    <2>2. pc' \in [Workers -> PCs]
      BY <1>19 DEF WriteFails
    <2>3. QED
      BY <1>19, <2>1, <2>2 DEF WriteFails
  <1>20. ASSUME NEW w \in Workers, RecordReconcileFailed(w) PROVE TypeInv'
    <2>1. LocalType'
      BY <1>20, ReturnsType DEF LocalType, RecordReconcileFailed
    <2>2. row' \in SubRow
      BY <1>20 DEF RecordReconcileFailed
    <2>3. QED
      BY <1>20, <2>1, <2>2 DEF LocalType, RecordReconcileFailed
  <1>21. ASSUME NEW w \in Workers, ConfirmReconcile(w) PROVE TypeInv'
    <2>1. LocalType'
      BY <1>21, ReturnsType DEF LocalType, ConfirmReconcile
    <2>2. view[w] \in SubRow /\ [view[w] EXCEPT !.recon = "SYNCED"] \in SubRow
      OBVIOUS
    <2>3. row' \in SubRow
      BY <1>21, <2>2, FlushType, SMTT(40) DEF ConfirmReconcile
    <2>4. QED
      BY <1>21, <2>1, <2>3 DEF LocalType, ConfirmReconcile
  <1>22. ASSUME NEW w \in Workers, RepairSnapshot(w) PROVE TypeInv'
    BY <1>22 DEF RepairSnapshot
  <1>23. ASSUME NEW w \in Workers, RepairCache(w) PROVE TypeInv'
    <2>1. LocalType'
      BY <1>23, IdleType DEF LocalType, RepairCache
    <2>2. QED
      BY <1>23, <2>1 DEF LocalType, RepairCache
  <1>24. ASSUME NEW w \in Workers, Crash(w) PROVE TypeInv'
    <2>1. LocalType'
      BY <1>24, IdleType DEF LocalType, Crash
    <2>2. QED
      BY <1>24, <2>1 DEF LocalType, Crash
  <1>25. CASE UNCHANGED vars
    BY <1>25 DEF vars
  <1>26. QED
    BY <1>1, <1>2, <1>3, <1>4, <1>5, <1>6, <1>7, <1>8, <1>9, <1>10, <1>11, <1>12, <1>13, <1>14, <1>15, <1>16, <1>17, <1>18, <1>19, <1>20, <1>21, <1>22, <1>23, <1>24, <1>25
    DEF Next, Environment, UsageJobStep, ReconcileStep

-----------------------------------------------------------------------------
(* A sync whose session sees the row as it is.                              *)

\* apply_expiry_policy leaves everything alone but the step from GRACE to
\* EXPIRED, opens the next paid period, or closes the last one.
NothingDue ==
    /\ period' = period
    /\ row'.current = row.current /\ row'.expires = row.expires /\ row'.recon = row.recon
    /\ row'.status = row.status \/ (row.status = "GRACE" /\ row'.status = "EXPIRED")

RollsOver ==
    /\ row.status = "ACTIVE" /\ row'.status = "ACTIVE" /\ row'.recon = "PENDING"
    /\ Queue # {} /\ row'.current = QueueHead
    /\ period' = [p \in Periods |-> IF p = row.current THEN "CLOSED"
                                    ELSE IF p = QueueHead THEN "ACTIVE" ELSE period[p]]

RunsOut ==
    /\ row.status = "ACTIVE" /\ row'.status = "GRACE" /\ row'.recon = "PENDING"
    /\ Queue = {} /\ row'.current = row.current
    /\ period' = [p \in Periods |-> IF p = row.current THEN "CLOSED" ELSE period[p]]

LEMMA CommitCases ==
    ASSUME TypeInv, NEW w \in Workers, view[w] = row, CommitSync(w)
    PROVE  /\ row' \in SubRow /\ view'[w] = row'
           /\ \/ NothingDue /\ pc'[w] \in {"release", "finish", "failing"}
              \/ (RollsOver \/ RunsOut) /\ pc'[w] \in {"release", "reconcile", "failing"}
  <1> DEFINE u   == [used EXCEPT ![row.current] = @ + Delta(reading[w])]
             new == ExpiryVerdict(row, u)
  <1>1. row \in SubRow /\ row.current \in Periods /\ DOMAIN view = Workers /\ DOMAIN pc = Workers
        /\ period = [p \in Periods |-> period[p]]
    BY DEF TypeInv, TypeOK, SubRow
  <1>2. new \in SubRow /\ Flush(row, new) = new
    BY <1>1, VerdictCases, FlushFresh
  <1>3. /\ Due(row, u) => new.recon = "PENDING"
        /\ Due(row, u) /\ Queue # {} => new.current = QueueHead /\ new.status = "ACTIVE"
        /\ Due(row, u) /\ Queue = {} => new.current = row.current /\ new.status = "GRACE"
        /\ ~Due(row, u) => /\ new.current = row.current
                           /\ new.expires = row.expires
                           /\ new.recon = row.recon
                           /\ new.status = row.status
                              \/ (row.status = "GRACE" /\ new.status = "EXPIRED")
    BY <1>1, VerdictCases
  <1>4. Due(row, u) => row.status = "ACTIVE"
    BY DEF Due
  <1> HIDE DEF u, new
  <1>5. /\ row' = new /\ view' = [view EXCEPT ![w] = new]
        /\ period' = ExpiryPeriods(row, u)
        /\ \/ pc' = [pc EXCEPT ![w] = IF new.status = "EXPIRED" THEN "release"
                                      ELSE IF Due(row, u) THEN "reconcile" ELSE "finish"]
           \/ pc' = [pc EXCEPT ![w] = "failing"]
    BY <1>2 DEF CommitSync, Goto, u, new
  <1>6. CASE ~Due(row, u)
    <2>1. period' = period
      BY <1>1, <1>5, <1>6 DEF ExpiryPeriods
    <2>2. NothingDue
      BY <1>3, <1>5, <1>6, <2>1 DEF NothingDue
    <2>3. pc'[w] \in {"release", "finish", "failing"}
      BY <1>1, <1>5, <1>6
    <2>4. QED
      BY <1>1, <1>2, <1>5, <2>2, <2>3
  <1>7. CASE Due(row, u) /\ Queue # {}
    <2>1. RollsOver
      BY <1>3, <1>4, <1>5, <1>7 DEF RollsOver, ExpiryPeriods
    <2>2. pc'[w] \in {"release", "reconcile", "failing"}
      BY <1>1, <1>5, <1>7
    <2>3. QED
      BY <1>1, <1>2, <1>5, <2>1, <2>2
  <1>8. CASE Due(row, u) /\ Queue = {}
    <2>1. RunsOut
      BY <1>3, <1>4, <1>5, <1>8 DEF RunsOut, ExpiryPeriods
    <2>2. pc'[w] \in {"release", "reconcile", "failing"}
      BY <1>1, <1>5, <1>8
    <2>3. QED
      BY <1>1, <1>2, <1>5, <2>1, <2>2
  <1>9. QED
    BY <1>6, <1>7, <1>8

-----------------------------------------------------------------------------
(* The service and the row.                                                 *)

LEMMA SyncStep ==
    ASSUME OneScheduler, TypeInv, SyncInv, SyncedMeansWritten, [Next]_vars
    PROVE  SyncInv' /\ SyncedMeansWritten'
  <1>0. /\ pc \in [Workers -> PCs] /\ view \in [Workers -> SubRow] /\ row \in SubRow
        /\ mine \in [Workers -> Jobs \cup {NULL}]
    BY DEF TypeInv, TypeOK
  <1> USE <1>0 DEF OneScheduler, SyncInv, SyncedMeansWritten, At, Goto
  <1>1. CASE Traffic
    BY <1>1 DEF Traffic
  <1>2. CASE CounterReset
    BY <1>2 DEF CounterReset
  <1>3. CASE DeadlinePasses
    BY <1>3 DEF DeadlinePasses
  <1>4. ASSUME NEW p \in Periods, ConfirmRenewal(p) PROVE SyncInv' /\ SyncedMeansWritten'
    BY <1>4 DEF ConfirmRenewal
  <1>5. ASSUME NEW j \in Jobs, EnqueueUsageSync(j) PROVE SyncInv' /\ SyncedMeansWritten'
    BY <1>5 DEF EnqueueUsageSync
  <1>6. ASSUME NEW a \in Admins, AdminRead(a) PROVE SyncInv' /\ SyncedMeansWritten'
    BY <1>6 DEF AdminRead
  <1>7. ASSUME NEW a \in Admins, AdminWrite(a) PROVE SyncInv' /\ SyncedMeansWritten'
    BY <1>7 DEF AdminWrite
  <1>8. ASSUME NEW w \in Workers, NEW j \in Jobs, ClaimJob(w, j) PROVE SyncInv' /\ SyncedMeansWritten'
    BY <1>8 DEF ClaimJob
  <1>9. ASSUME NEW w \in Workers, ReadUsage(w) PROVE SyncInv' /\ SyncedMeansWritten'
    BY <1>9 DEF ReadUsage
  <1>10. ASSUME NEW w \in Workers, CommitSync(w) PROVE SyncInv' /\ SyncedMeansWritten'
    <2>1. view[w] = row
      BY <1>10 DEF CommitSync
    <2>2. /\ row' \in SubRow /\ view'[w] = row'
          /\ \/ NothingDue /\ pc'[w] \in {"release", "finish", "failing"}
             \/ (RollsOver \/ RunsOut) /\ pc'[w] \in {"release", "reconcile", "failing"}
      BY <1>10, <2>1, CommitCases
    <2>3. UNCHANGED <<accQuota, accExpire>>
      BY <1>10 DEF CommitSync
    <2>4. CASE NothingDue /\ pc'[w] \in {"release", "finish", "failing"}
      BY <2>2, <2>3, <2>4 DEF NothingDue
    <2>5. CASE (RollsOver \/ RunsOut) /\ pc'[w] \in {"release", "reconcile", "failing"}
      BY <2>2, <2>3, <2>5 DEF RollsOver, RunsOut
    <2>6. QED
      BY <2>2, <2>4, <2>5
  <1>11. ASSUME NEW w \in Workers, SyncFails(w) PROVE SyncInv' /\ SyncedMeansWritten'
    BY <1>11 DEF SyncFails
  <1>12. ASSUME NEW w \in Workers, Release(w) PROVE SyncInv' /\ SyncedMeansWritten'
    BY <1>12 DEF Release
  <1>13. ASSUME NEW w \in Workers, FinishJob(w) PROVE SyncInv' /\ SyncedMeansWritten'
    BY <1>13 DEF FinishJob, Idle
  <1>14. ASSUME NEW w \in Workers, FailJob(w) PROVE SyncInv' /\ SyncedMeansWritten'
    BY <1>14 DEF FailJob, Idle
  <1>15. ASSUME NEW w \in Workers, LoadPending(w) PROVE SyncInv' /\ SyncedMeansWritten'
    BY <1>15 DEF LoadPending
  <1>16. ASSUME NEW w \in Workers, StartReconcile(w) PROVE SyncInv' /\ SyncedMeansWritten'
    <2> DEFINE new == [row EXCEPT !.recon = "PENDING"]
    <2>1. view[w] = row /\ new = row
      BY <1>16, RowFacts DEF StartReconcile, SubRow
    <2>2. Flush(row, row) = row
      BY FlushFresh
    <2>3. row' = row /\ view'[w] = row /\ pc'[w] = "writeQuota" /\ UNCHANGED <<accQuota, accExpire>>
      BY <1>16, <2>1, <2>2 DEF StartReconcile
    <2>4. row.recon = "PENDING"
      BY <1>16 DEF StartReconcile
    <2>5. QED
      BY <2>3, <2>4
  <1>17. ASSUME NEW w \in Workers, WriteQuota(w) PROVE SyncInv' /\ SyncedMeansWritten'
    BY <1>17 DEF WriteQuota
  <1>18. ASSUME NEW w \in Workers, WriteExpire(w) PROVE SyncInv' /\ SyncedMeansWritten'
    BY <1>18 DEF WriteExpire
  <1>19. ASSUME NEW w \in Workers, WriteFails(w) PROVE SyncInv' /\ SyncedMeansWritten'
    BY <1>19 DEF WriteFails
  <1>20. ASSUME NEW w \in Workers, RecordReconcileFailed(w) PROVE SyncInv' /\ SyncedMeansWritten'
    <2>1. pc'[w] \in {"idle", "finish"}
      BY <1>20 DEF RecordReconcileFailed, ReconcileReturns, Idle
    <2>2. row'.recon # "SYNCED"
      BY <1>20 DEF RecordReconcileFailed, SubRow
    <2>3. QED
      BY <2>1, <2>2
  <1>21. ASSUME NEW w \in Workers, ConfirmReconcile(w) PROVE SyncInv' /\ SyncedMeansWritten'
    <2> DEFINE new == [row EXCEPT !.recon = "SYNCED"]
    <2>1. /\ view[w] = row /\ row.recon = "PENDING" /\ accQuota = row.current
          /\ accExpire = row.expires
      BY <1>21 DEF ConfirmReconcile
    <2>2. Flush(row, new) = new
      BY FlushFresh, RowFacts
    <2>3. new.current = row.current /\ new.expires = row.expires
      BY DEF SubRow
    <2>4. pc'[w] \in {"idle", "finish"}
      BY <1>21 DEF ConfirmReconcile, ReconcileReturns, Idle
    <2>5. row' \in {row, new} /\ UNCHANGED <<accQuota, accExpire>>
      BY <1>21, <2>1, <2>2 DEF ConfirmReconcile
    <2> HIDE DEF new
    <2>6. SyncedMeansWritten'
      BY <2>1, <2>3, <2>5
    <2>7. SyncInv'
      BY <2>4
    <2>8. QED
      BY <2>6, <2>7
  <1>22. ASSUME NEW w \in Workers, RepairSnapshot(w) PROVE SyncInv' /\ SyncedMeansWritten'
    BY <1>22 DEF RepairSnapshot
  <1>23. ASSUME NEW w \in Workers, RepairCache(w) PROVE SyncInv' /\ SyncedMeansWritten'
    BY <1>23 DEF RepairCache, Idle
  <1>24. ASSUME NEW w \in Workers, Crash(w) PROVE SyncInv' /\ SyncedMeansWritten'
    BY <1>24 DEF Crash, Idle
  <1>25. CASE UNCHANGED vars
    BY <1>25 DEF vars
  <1>26. QED
    BY <1>1, <1>2, <1>3, <1>4, <1>5, <1>6, <1>7, <1>8, <1>9, <1>10, <1>11, <1>12, <1>13, <1>14, <1>15, <1>16, <1>17, <1>18, <1>19, <1>20, <1>21, <1>22, <1>23, <1>24, <1>25
    DEF Next, Environment, UsageJobStep, ReconcileStep

-----------------------------------------------------------------------------
(* The queue.                                                               *)

\* A period that was never opened lies behind the current one.
LEMMA OpenOrClosed ==
    ASSUME TypeInv, PeriodsInOrder, NEW p \in Periods, period[p] \in {"NONE", "QUEUED"}
    PROVE  p > row.current
  <1>1. row.current \in Periods /\ row.current \in Nat /\ p \in Nat
    BY ConstantFacts, RowFacts DEF TypeInv, TypeOK
  <1>2. period[row.current] \in {"ACTIVE", "CLOSED"}
    BY DEF PeriodsInOrder
  <1>3. ~(p < row.current)
    BY DEF PeriodsInOrder
  <1>4. p # row.current
    BY <1>2
  <1>5. QED
    BY <1>1, <1>3, <1>4

LEMMA PeriodsStep ==
    ASSUME OneScheduler, TypeInv, SyncInv, QueueInv, PeriodsInOrder, [Next]_vars
    PROVE  QueueInv' /\ PeriodsInOrder'
  <1>0. /\ period \in [Periods -> {"NONE", "QUEUED", "ACTIVE", "CLOSED"}]
        /\ row \in SubRow /\ row.current \in Periods /\ view \in [Workers -> SubRow]
        /\ Periods \subseteq Nat
    BY ConstantFacts DEF TypeInv, TypeOK, SubRow
  <1> USE <1>0 DEF QueueInv, PeriodsInOrder, At, Goto
  <1>1. CASE Traffic
    BY <1>1 DEF Traffic
  <1>2. CASE CounterReset
    BY <1>2 DEF CounterReset
  <1>3. CASE DeadlinePasses
    BY <1>3 DEF DeadlinePasses
  <1>4. ASSUME NEW p \in Periods, ConfirmRenewal(p) PROVE QueueInv' /\ PeriodsInOrder'
    <2>1. /\ period[p] = "NONE" /\ \A q \in Periods : q < p => period[q] # "NONE"
          /\ period' = [period EXCEPT ![p] = "QUEUED"] /\ row' = row
      BY <1>4 DEF ConfirmRenewal
    <2>2. p > row.current
      BY <2>1, OpenOrClosed
    <2>3. QED
      BY <2>1, <2>2
  <1>5. ASSUME NEW j \in Jobs, EnqueueUsageSync(j) PROVE QueueInv' /\ PeriodsInOrder'
    BY <1>5 DEF EnqueueUsageSync
  <1>6. ASSUME NEW a \in Admins, AdminRead(a) PROVE QueueInv' /\ PeriodsInOrder'
    BY <1>6 DEF AdminRead
  <1>7. ASSUME NEW a \in Admins, AdminWrite(a) PROVE QueueInv' /\ PeriodsInOrder'
    BY <1>7 DEF AdminWrite
  <1>8. ASSUME NEW w \in Workers, NEW j \in Jobs, ClaimJob(w, j) PROVE QueueInv' /\ PeriodsInOrder'
    BY <1>8 DEF ClaimJob
  <1>9. ASSUME NEW w \in Workers, ReadUsage(w) PROVE QueueInv' /\ PeriodsInOrder'
    BY <1>9 DEF ReadUsage
  <1>10. ASSUME NEW w \in Workers, CommitSync(w) PROVE QueueInv' /\ PeriodsInOrder'
    <2>1. view[w] = row
      BY <1>10 DEF CommitSync, SyncInv
    <2>2. row' \in SubRow /\ (NothingDue \/ RollsOver \/ RunsOut)
      BY <1>10, <2>1, CommitCases
    <2>3. CASE NothingDue
      BY <2>3 DEF NothingDue
    <2>4. CASE RollsOver
      <3>1. /\ QueueHead \in Periods /\ period[QueueHead] = "QUEUED"
            /\ \A q \in Periods : period[q] = "QUEUED" => QueueHead <= q
        BY <2>4, HeadIsFirst DEF RollsOver
      <3>2. QueueHead \in Nat /\ row.current \in Nat /\ QueueHead > row.current
        BY <3>1, OpenOrClosed
      <3>3. \A q \in Periods : row.current < q /\ q < QueueHead => FALSE
        BY <3>1
      <3>4. ASSUME NEW q \in Periods, q > QueueHead PROVE period[q] \in {"NONE", "QUEUED"}
        <4>1. q \in Nat /\ q > row.current
          BY <3>2, <3>4
        <4>2. QED
          BY <4>1
      <3>5. ASSUME NEW q \in Periods, q < QueueHead PROVE q = row.current \/ q < row.current
        <4>1. q \in Nat /\ ~(row.current < q)
          BY <3>3, <3>5
        <4>2. QED
          BY <3>2, <4>1
      <3>6. PeriodsInOrder'
        BY <2>4, <3>1, <3>2, <3>4, <3>5 DEF RollsOver
      <3>7. QueueInv'
        BY <2>4, <3>1 DEF RollsOver
      <3>8. QED
        BY <3>6, <3>7
    <2>5. CASE RunsOut
      BY <2>5 DEF RunsOut
    <2>6. QED
      BY <2>2, <2>3, <2>4, <2>5
  <1>11. ASSUME NEW w \in Workers, SyncFails(w) PROVE QueueInv' /\ PeriodsInOrder'
    BY <1>11 DEF SyncFails
  <1>12. ASSUME NEW w \in Workers, Release(w) PROVE QueueInv' /\ PeriodsInOrder'
    BY <1>12 DEF Release
  <1>13. ASSUME NEW w \in Workers, FinishJob(w) PROVE QueueInv' /\ PeriodsInOrder'
    BY <1>13 DEF FinishJob
  <1>14. ASSUME NEW w \in Workers, FailJob(w) PROVE QueueInv' /\ PeriodsInOrder'
    BY <1>14 DEF FailJob
  <1>15. ASSUME NEW w \in Workers, LoadPending(w) PROVE QueueInv' /\ PeriodsInOrder'
    BY <1>15 DEF LoadPending
  <1>16. ASSUME NEW w \in Workers, StartReconcile(w) PROVE QueueInv' /\ PeriodsInOrder'
    <2> DEFINE new == [row EXCEPT !.recon = "PENDING"]
    <2>1. view[w] = row /\ new = row
      BY <1>16 DEF StartReconcile, SubRow, SyncInv
    <2>2. row' = row /\ period' = period
      BY <1>16, <2>1, FlushFresh DEF StartReconcile
    <2>3. QED
      BY <2>2
  <1>17. ASSUME NEW w \in Workers, WriteQuota(w) PROVE QueueInv' /\ PeriodsInOrder'
    BY <1>17 DEF WriteQuota
  <1>18. ASSUME NEW w \in Workers, WriteExpire(w) PROVE QueueInv' /\ PeriodsInOrder'
    BY <1>18 DEF WriteExpire
  <1>19. ASSUME NEW w \in Workers, WriteFails(w) PROVE QueueInv' /\ PeriodsInOrder'
    BY <1>19 DEF WriteFails
  <1>20. ASSUME NEW w \in Workers, RecordReconcileFailed(w) PROVE QueueInv' /\ PeriodsInOrder'
    <2>1. row'.current = row.current /\ row'.status = row.status /\ period' = period
      BY <1>20 DEF RecordReconcileFailed, SubRow
    <2>2. QED
      BY <2>1
  <1>21. ASSUME NEW w \in Workers, ConfirmReconcile(w) PROVE QueueInv' /\ PeriodsInOrder'
    <2> DEFINE new == [row EXCEPT !.recon = "SYNCED"]
    <2>1. view[w] = row
      BY <1>21 DEF ConfirmReconcile, SyncInv
    <2>2. Flush(row, new) = new
      BY FlushFresh, RowFacts
    <2>3. new.current = row.current /\ new.status = row.status
      BY DEF SubRow
    <2>4. row' \in {row, new} /\ period' = period
      BY <1>21, <2>1, <2>2 DEF ConfirmReconcile
    <2> HIDE DEF new
    <2>5. QED
      BY <2>3, <2>4
  <1>22. ASSUME NEW w \in Workers, RepairSnapshot(w) PROVE QueueInv' /\ PeriodsInOrder'
    BY <1>22 DEF RepairSnapshot
  <1>23. ASSUME NEW w \in Workers, RepairCache(w) PROVE QueueInv' /\ PeriodsInOrder'
    BY <1>23 DEF RepairCache
  <1>24. ASSUME NEW w \in Workers, Crash(w) PROVE QueueInv' /\ PeriodsInOrder'
    BY <1>24 DEF Crash
  <1>25. CASE UNCHANGED vars
    BY <1>25 DEF vars
  <1>26. QED
    BY <1>1, <1>2, <1>3, <1>4, <1>5, <1>6, <1>7, <1>8, <1>9, <1>10, <1>11, <1>12, <1>13, <1>14, <1>15, <1>16, <1>17, <1>18, <1>19, <1>20, <1>21, <1>22, <1>23, <1>24, <1>25
    DEF Next, Environment, UsageJobStep, ReconcileStep

-----------------------------------------------------------------------------
(* The charges.                                                             *)

\* Traffic moves the counter, and the next charge, by at most one unit.
LEMMA ChargeGrows ==
    ASSUME NEW b \in Nat, NEW c \in Nat
    PROVE  /\ Charge(b, c) \in Nat /\ Charge(b, 0) = 0 /\ Charge(b, b) = 0
           /\ Charge(b, c + 1) <= Charge(b, c) + 1
  BY DEF Charge

LEMMA SumLedger ==
    ASSUME ledger \in [Periods -> Nat], NEW q \in Periods, NEW d \in Nat
    PROVE  Sum([ledger EXCEPT ![q] = @ + d]) = Sum(ledger) + d
  BY SumUpdate, PeriodsFinite, ZenonT(60)

LEMMA ChargeStep ==
    ASSUME OneScheduler, TypeInv, SyncInv, ChargeInv, [Next]_vars
    PROVE  ChargeInv'
  <1>0. /\ ledger \in [Periods -> Nat] /\ traffic \in Nat /\ counter \in Nat /\ clock \in Nat
        /\ last.bytes \in Nat /\ last.at \in Nat /\ resets \in Nat
        /\ reading \in [Workers -> Nat] /\ stamp \in [Workers -> Nat] /\ pc \in [Workers -> PCs]
    BY ConstantFacts DEF TypeInv, TypeOK
  <1>00. Sum(ledger) \in Nat
    BY <1>0, SumUpdate, PeriodsFinite, ConstantFacts
  <1> USE <1>0, <1>00 DEF OneScheduler, ChargeInv, At, Goto
  <1>1. CASE Traffic
    <2>1. counter' = counter + 1 /\ traffic' = traffic + 1
          /\ UNCHANGED <<ledger, last, clock, pc, stamp, reading, resets>>
      BY <1>1 DEF Traffic
    <2>2. /\ Charge(last.bytes, counter) \in Nat
          /\ Charge(last.bytes, counter + 1) \in Nat
          /\ Charge(last.bytes, counter + 1) <= Charge(last.bytes, counter) + 1
      BY counter + 1 \in Nat, ChargeGrows
    <2>3. ASSUME NEW w \in Workers
          PROVE  /\ Charge(last.bytes, reading[w]) \in Nat
                 /\ Charge(reading[w], counter) \in Nat
                 /\ Charge(reading[w], counter + 1) \in Nat
                 /\ Charge(reading[w], counter + 1) <= Charge(reading[w], counter) + 1
      <3>1. reading[w] \in Nat /\ counter + 1 \in Nat
        OBVIOUS
      <3>2. QED
        BY <3>1, ChargeGrows
    <2>4. QED
      BY <2>1, <2>2, <2>3
  <1>2. CASE CounterReset
    <2>1. counter' = 0 /\ resets' # 0 /\ UNCHANGED <<ledger, last, clock, pc, stamp, reading, traffic>>
      BY <1>2 DEF CounterReset
    <2>2. /\ Charge(last.bytes, counter) \in Nat
          /\ Charge(last.bytes, 0) = 0
      BY ChargeGrows
    <2>3. ASSUME NEW w \in Workers
          PROVE  /\ Charge(last.bytes, reading[w]) \in Nat
                 /\ Charge(reading[w], counter) \in Nat
                 /\ Charge(reading[w], 0) = 0
      BY ChargeGrows
    <2>4. QED
      BY <2>1, <2>2, <2>3
  <1>3. CASE DeadlinePasses
    BY <1>3 DEF DeadlinePasses
  <1>4. ASSUME NEW p \in Periods, ConfirmRenewal(p) PROVE ChargeInv'
    BY <1>4 DEF ConfirmRenewal
  <1>5. ASSUME NEW j \in Jobs, EnqueueUsageSync(j) PROVE ChargeInv'
    BY <1>5 DEF EnqueueUsageSync
  <1>6. ASSUME NEW a \in Admins, AdminRead(a) PROVE ChargeInv'
    BY <1>6 DEF AdminRead
  <1>7. ASSUME NEW a \in Admins, AdminWrite(a) PROVE ChargeInv'
    BY <1>7 DEF AdminWrite
  <1>8. ASSUME NEW w \in Workers, NEW j \in Jobs, ClaimJob(w, j) PROVE ChargeInv'
    <2>1. clock' = clock + 1 /\ stamp'[w] = clock' /\ pc'[w] = "claimed"
          /\ UNCHANGED <<ledger, last, counter, traffic, resets>>
      BY <1>8 DEF ClaimJob
    <2>2. QED
      BY <2>1
  <1>9. ASSUME NEW w \in Workers, ReadUsage(w) PROVE ChargeInv'
    <2>1. stamp[w] = clock /\ UNCHANGED <<ledger, last, counter, traffic, resets, clock, stamp>>
      BY <1>9 DEF ReadUsage
    <2>2. \/ pc'[w] = "read" /\ reading'[w] = counter
          \/ pc'[w] = "failing"
      BY <1>9 DEF ReadUsage
    <2>3. Charge(counter, counter) = 0 /\ Charge(last.bytes, counter) \in Nat
      BY ChargeGrows
    <2>4. QED
      BY <2>1, <2>2, <2>3
  <1>10. ASSUME NEW w \in Workers, CommitSync(w) PROVE ChargeInv'
    <2> DEFINE q == view[w].current
               d == Delta(reading[w])
    <2>1. d \in Nat /\ d = Charge(last.bytes, reading[w])
      BY DeltaType DEF TypeInv, TypeOK
    <2>2. q \in Periods
      BY RowFacts DEF TypeInv, TypeOK
    <2>3. /\ ledger' = [ledger EXCEPT ![q] = @ + d]
          /\ stamp[w] = clock
          /\ Sum(ledger) + Charge(last.bytes, reading[w]) + Charge(reading[w], counter) <= traffic
      BY <1>10 DEF CommitSync
    <2>4. last' = [at |-> clock, bytes |-> reading[w]]
      BY <1>10, <2>3 DEF CommitSync
    <2>5. pc'[w] \notin {"claimed", "read"} /\ UNCHANGED <<clock, counter, traffic, resets>>
      BY <1>10 DEF CommitSync
    <2>5a. resets = 0 => /\ last.bytes <= reading[w] /\ reading[w] <= counter
                         /\ Charge(last.bytes, reading[w]) = reading[w] - last.bytes
      BY <1>10 DEF CommitSync, Charge
    <2> HIDE DEF q, d
    <2>6. Sum(ledger') = Sum(ledger) + d
      <3>1. Sum([ledger EXCEPT ![q] = @ + d]) = Sum(ledger) + d
        BY <2>1, <2>2, SumLedger
      <3>2. QED
        BY <2>3, <3>1
    <2>7. last'.at = clock /\ last'.bytes = reading[w]
      BY <2>4
    <2>8. QED
      BY <2>1, <2>3, <2>5, <2>5a, <2>6, <2>7
  <1>11. ASSUME NEW w \in Workers, SyncFails(w) PROVE ChargeInv'
    BY <1>11 DEF SyncFails
  <1>12. ASSUME NEW w \in Workers, Release(w) PROVE ChargeInv'
    BY <1>12 DEF Release
  <1>13. ASSUME NEW w \in Workers, FinishJob(w) PROVE ChargeInv'
    BY <1>13 DEF FinishJob, Idle
  <1>14. ASSUME NEW w \in Workers, FailJob(w) PROVE ChargeInv'
    BY <1>14 DEF FailJob, Idle
  <1>15. ASSUME NEW w \in Workers, LoadPending(w) PROVE ChargeInv'
    BY <1>15 DEF LoadPending
  <1>16. ASSUME NEW w \in Workers, StartReconcile(w) PROVE ChargeInv'
    BY <1>16 DEF StartReconcile
  <1>17. ASSUME NEW w \in Workers, WriteQuota(w) PROVE ChargeInv'
    BY <1>17 DEF WriteQuota
  <1>18. ASSUME NEW w \in Workers, WriteExpire(w) PROVE ChargeInv'
    BY <1>18 DEF WriteExpire
  <1>19. ASSUME NEW w \in Workers, WriteFails(w) PROVE ChargeInv'
    BY <1>19 DEF WriteFails
  <1>20. ASSUME NEW w \in Workers, RecordReconcileFailed(w) PROVE ChargeInv'
    BY <1>20 DEF RecordReconcileFailed, Idle, ReconcileReturns
  <1>21. ASSUME NEW w \in Workers, ConfirmReconcile(w) PROVE ChargeInv'
    BY <1>21 DEF ConfirmReconcile, Idle, ReconcileReturns
  <1>22. ASSUME NEW w \in Workers, RepairSnapshot(w) PROVE ChargeInv'
    BY <1>22 DEF RepairSnapshot
  <1>23. ASSUME NEW w \in Workers, RepairCache(w) PROVE ChargeInv'
    BY <1>23 DEF RepairCache, Idle
  <1>24. ASSUME NEW w \in Workers, Crash(w) PROVE ChargeInv'
    BY <1>24 DEF Crash, Idle
  <1>25. CASE UNCHANGED vars
    BY <1>25 DEF vars
  <1>26. QED
    BY <1>1, <1>2, <1>3, <1>4, <1>5, <1>6, <1>7, <1>8, <1>9, <1>10, <1>11, <1>12, <1>13, <1>14, <1>15, <1>16, <1>17, <1>18, <1>19, <1>20, <1>21, <1>22, <1>23, <1>24, <1>25
    DEF Next, Environment, UsageJobStep, ReconcileStep

-----------------------------------------------------------------------------
(* The theorems.                                                            *)

LEMMA InitTypes == Init => TypeInv
  <1> SUFFICES ASSUME Init PROVE TypeInv
    OBVIOUS
  <1>1. /\ 0 \in 0..MaxTraffic /\ 0 \in 0..MaxResets /\ 0 \in 0..MaxAttempts
        /\ <<1, "paid">> \in Deadlines
    BY ConstantFacts DEF Deadlines
  <1>2. LocalType
    BY <1>1, RowFacts DEF Init, LocalType, PCs
  <1>3. /\ traffic \in 0..MaxTraffic /\ counter \in 0..MaxTraffic /\ resets \in 0..MaxResets
        /\ accQuota \in Periods /\ accExpire \in Deadlines /\ elapsed \subseteq Deadlines
        /\ clock \in Nat /\ counter <= traffic
    BY <1>1, ConstantFacts DEF Init
  <1>3a. row \in SubRow
    <2>1. FirstRow \in SubRow /\ [FirstRow EXCEPT !.recon = "PENDING"] \in SubRow
      BY RowFacts
    <2>2. QED
      BY <2>1 DEF Init
  <1>4. /\ period \in [Periods -> {"NONE", "QUEUED", "ACTIVE", "CLOSED"}]
        /\ used \in [Periods -> Nat] /\ ledger \in [Periods -> Nat]
        /\ last \in [at : Nat, bytes : 0..MaxTraffic]
    BY <1>1 DEF Init
  <1>5. /\ job \in [Jobs -> {"NONE", "PENDING", "RUNNING", "FAILED", "SUCCEEDED"}]
        /\ attempts \in [Jobs -> 0..MaxAttempts]
        /\ admin \in [Admins -> [pc : {"idle", "read", "done"}, current : Periods,
                                 value : 0..MaxTraffic, seen : Nat]]
    BY <1>1, ConstantFacts DEF Init
  <1>6. QED
    BY <1>2, <1>3, <1>3a, <1>4, <1>5 DEF TypeInv, TypeOK, LocalType

LEMMA InitIInv == Init => IInv
  <1> SUFFICES ASSUME Init PROVE IInv
    OBVIOUS
  <1>1. TypeInv
    BY InitTypes
  <1>2. SyncInv /\ SyncedMeansWritten
    BY DEF Init, SyncInv, SyncedMeansWritten, FirstRow
  <1>3. QueueInv /\ PeriodsInOrder
    BY ConstantFacts DEF Init, QueueInv, PeriodsInOrder, FirstRow, Periods
  <1>4. ChargeInv
    <2>1. Sum(ledger) = 0
      BY SumZero, PeriodsFinite DEF Init
    <2>2. QED
      BY <2>1 DEF Init, ChargeInv, Charge
  <1>5. QED
    BY <1>1, <1>2, <1>3, <1>4 DEF IInv

LEMMA IInvStep ==
    ASSUME OneScheduler, IInv, [Next]_vars
    PROVE  IInv'
  <1>1. TypeInv /\ SyncInv /\ SyncedMeansWritten /\ QueueInv /\ PeriodsInOrder /\ ChargeInv
    BY DEF IInv
  <1>2. TypeInv'
    BY <1>1, TypeStep
  <1>3. SyncInv' /\ SyncedMeansWritten'
    BY <1>1, SyncStep
  <1>4. QueueInv' /\ PeriodsInOrder'
    BY <1>1, PeriodsStep
  <1>5. ChargeInv'
    BY <1>1, ChargeStep
  <1>6. QED
    BY <1>2, <1>3, <1>4, <1>5 DEF IInv

\* With any number of schedulers and manual syncs every variable keeps its
\* type: in particular the charges and caches of accounting_sync.py never go
\* below zero and the attempts of a job never exceed max_attempts.
THEOREM TypeCorrect == Spec => []TypeOK
  <1>1. TypeInv => TypeOK
    BY DEF TypeInv
  <1>2. QED
    BY <1>1, InitTypes, TypeStep, PTL DEF Spec

\* The invariant of one scheduler is inductive.
THEOREM Invariance == ASSUME OneScheduler PROVE Spec => []IInv
  <1>1. IInv /\ [Next]_vars => IInv'
    BY IInvStep
  <1>2. QED
    BY <1>1, InitIInv, PTL DEF Spec

\* One scheduler never charges a customer more than was moved, whatever is
\* retried, lost, reset or crashes around sync_subscription_usage.
THEOREM ChargesEarned == ASSUME OneScheduler PROVE Spec => []NeverOvercharged
  <1>1. IInv => NeverOvercharged
    <2> SUFFICES ASSUME IInv PROVE NeverOvercharged
      OBVIOUS
    <2>1. /\ Sum(ledger) + Charge(last.bytes, counter) <= traffic
          /\ ledger \in [Periods -> Nat] /\ last.bytes \in Nat /\ counter \in Nat /\ traffic \in Nat
      BY ConstantFacts DEF IInv, ChargeInv, TypeInv, TypeOK
    <2>2. Sum(ledger) \in Nat /\ Charge(last.bytes, counter) \in Nat
      BY <2>1, SumUpdate, PeriodsFinite, ConstantFacts, ChargeGrows
    <2>3. Sum(ledger) <= traffic
      BY <2>1, <2>2
    <2>4. QED
      BY <2>3 DEF NeverOvercharged, Sum
  <1>2. QED
    BY <1>1, Invariance, PTL

\* Nor does it lose traffic while the service's counter is not reset: every
\* reading that a failed or dead job threw away is charged by a later one.
THEOREM TrafficKept == ASSUME OneScheduler PROVE Spec => []NothingLost
  <1>1. IInv => NothingLost
    <2> SUFFICES ASSUME IInv, resets = 0 PROVE Sum(ledger) + counter - last.bytes = traffic
      BY DEF NothingLost, Sum
    <2>1. traffic = counter /\ Sum(ledger) = last.bytes /\ last.bytes \in Nat /\ counter \in Nat
      BY ConstantFacts DEF IInv, ChargeInv, TypeInv, TypeOK
    <2>2. QED
      BY <2>1
  <1>2. QED
    BY <1>1, Invariance, PTL

\* When the row says SYNCED the accounting service holds the quota and the
\* expiry of the current period: reconcile_subscription only says so after both
\* writes, and nothing changes the period in between.
THEOREM SyncedWritten == ASSUME OneScheduler PROVE Spec => []SyncedMeansWritten
  <1>1. IInv => SyncedMeansWritten
    BY DEF IInv
  <1>2. QED
    BY <1>1, Invariance, PTL

\* Paid periods are opened in the order of payment, none skipped or reopened,
\* and the status follows them, for any number of renewals.
THEOREM OrderKept == ASSUME OneScheduler PROVE Spec => []PeriodsInOrder
  <1>1. IInv => PeriodsInOrder
    BY DEF IInv
  <1>2. QED
    BY <1>1, Invariance, PTL

=============================================================================
