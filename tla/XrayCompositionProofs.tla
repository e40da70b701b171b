----------------------- MODULE XrayCompositionProofs ------------------------
(***************************************************************************)
(* Proofs about the composer and the validator of repo-owned Xray files,    *)
(* for any set of principals, tags and deployment settings.                 *)
(***************************************************************************)
EXTENDS XrayComposition, FiniteSetTheorems, SequenceTheorems, TLAPS

-----------------------------------------------------------------------------
(* Sorting.  The induction over the size of a set is by a smallest          *)
(* counterexample.                                                          *)

\* A set of naturals that is not empty has a smallest member.
LEMMA Smallest ==
    ASSUME NEW T \in SUBSET Nat, T # {}
    PROVE  \E m \in T : \A k \in T : m <= k
  <1> DEFINE R == {ss \in Nat \X Nat : ss[1] < ss[2]}
  <1>1. IsWellFoundedOn(R, Nat)
    BY NatLessThanWellFounded DEF OpToRel
  <1>2. PICK x \in T : \A y \in T : ~(<<y, x>> \in R)
    BY <1>1, WFMin
  <1>3. ASSUME NEW y \in T PROVE x <= y
    <2>1. x \in Nat /\ y \in Nat /\ <<y, x>> \in Nat \X Nat
      OBVIOUS
    <2>2. ~(y < x)
      BY <1>2, <2>1
    <2>3. QED
      BY <2>1, <2>2
  <1>4. QED
    BY <1>3

IsSorted(S, s) ==
    /\ s \in [1..Cardinality(S) -> S]
    /\ \A i, j \in DOMAIN s : i < j => s[i] < s[j]

\* Putting a smaller member in front of a sorted enumeration.
LEMMA SortedPrepend ==
    ASSUME NEW S \in SUBSET Nat, IsFiniteSet(S), NEW x \in S, \A y \in S : x <= y,
           NEW s, IsSorted(S \ {x}, s)
    PROVE  \E z : IsSorted(S, z)
  <1> DEFINE n == Cardinality(S)
             z == [i \in 1..n |-> IF i = 1 THEN x ELSE s[i - 1]]
  <1>1. n \in Nat /\ n # 0 /\ Cardinality(S \ {x}) = n - 1
    BY FS_CardinalityType, FS_RemoveElement, FS_EmptySet
  <1>2. s \in [1..(n - 1) -> S \ {x}] /\ \A i, j \in 1..(n - 1) : i < j => s[i] < s[j]
    BY <1>1 DEF IsSorted
  <1>3. \A i \in 2..n : i - 1 \in 1..(n - 1) /\ s[i - 1] \in S /\ x < s[i - 1]
    <2>1. ASSUME NEW i \in 2..n
          PROVE  i - 1 \in 1..(n - 1) /\ s[i - 1] \in S /\ x < s[i - 1]
      <3>1. i - 1 \in 1..(n - 1)
        BY <1>1
      <3>2. s[i - 1] \in S \ {x}
        BY <1>2, <3>1
      <3>3. s[i - 1] \in Nat /\ x \in Nat /\ x <= s[i - 1] /\ x # s[i - 1]
        BY <3>2
      <3>4. QED
        BY <3>1, <3>2, <3>3
    <2>2. QED
      BY <2>1
  <1>4. z \in [1..n -> S]
    <2>1. ASSUME NEW i \in 1..n PROVE (IF i = 1 THEN x ELSE s[i - 1]) \in S
      BY <1>1, <1>3
    <2>2. QED
      BY <2>1
  <1>5. ASSUME NEW i \in 1..n, NEW j \in 1..n, i < j PROVE z[i] < z[j]
    <2>1. j # 1 /\ z[j] = s[j - 1] /\ j \in 2..n
      BY <1>1, <1>5
    <2>2. CASE i = 1
      BY <1>3, <2>1, <2>2
    <2>3. CASE i # 1
      <3>1. z[i] = s[i - 1] /\ i - 1 \in 1..(n - 1) /\ j - 1 \in 1..(n - 1) /\ i - 1 < j - 1
        BY <1>1, <1>3, <1>5, <2>1, <2>3
      <3>2. QED
        BY <1>2, <2>1, <3>1
    <2>4. QED
      BY <2>2, <2>3
  <1>6. IsSorted(S, z)
    BY <1>4, <1>5 DEF IsSorted
  <1>7. QED
    BY <1>6

\* Every finite set of naturals has a sorted enumeration.
LEMMA SortedExists ==
    ASSUME NEW S \in SUBSET Nat, IsFiniteSet(S)
    PROVE  \E s : IsSorted(S, s)
  <1> DEFINE Bad == {U \in SUBSET Nat : IsFiniteSet(U) /\ ~\E s : IsSorted(U, s)}
             Sizes == {Cardinality(U) : U \in Bad}
  <1>1. SUFFICES ASSUME S \in Bad PROVE FALSE
    OBVIOUS
  <1>2. Sizes \in SUBSET Nat /\ Sizes # {}
    <2>1. \A U \in Bad : Cardinality(U) \in Nat
      BY FS_CardinalityType
    <2>2. QED
      BY <1>1, <2>1
  <1>3. PICK m \in Sizes : \A k \in Sizes : m <= k
    BY <1>2, Smallest
  <1>4. PICK U \in Bad : Cardinality(U) = m
    BY <1>3
  <1>5. U \in SUBSET Nat /\ IsFiniteSet(U) /\ ~\E s : IsSorted(U, s)
    BY <1>4
  <1>6. CASE U = {}
    <2>1. IsSorted({}, [i \in 1..0 |-> 0])
      BY FS_EmptySet DEF IsSorted
    <2>2. QED
      BY <1>5, <1>6, <2>1
  <1>7. CASE U # {}
    <2>1. PICK x \in U : \A y \in U : x <= y
      BY <1>5, <1>7, Smallest
    <2>2. /\ U \ {x} \in SUBSET Nat /\ IsFiniteSet(U \ {x})
          /\ Cardinality(U \ {x}) = m - 1 /\ m \in Nat
      BY <1>2, <1>4, <1>5, FS_RemoveElement
    <2>3. U \ {x} \notin Bad
      <3>1. SUFFICES ASSUME U \ {x} \in Bad PROVE FALSE
        OBVIOUS
      <3>2. m - 1 \in Sizes
        BY <2>2, <3>1
      <3>3. QED
        BY <1>3, <2>2, <3>2
    <2>4. PICK s : IsSorted(U \ {x}, s)
      BY <2>2, <2>3
    <2>5. QED
      BY <1>5, <2>1, <2>4, SortedPrepend
  <1>8. QED
    BY <1>6, <1>7

\* What Sorted returns: every member, once, in order.
LEMMA SortedFacts ==
    ASSUME NEW S \in SUBSET Nat, IsFiniteSet(S)
    PROVE  /\ Cardinality(S) \in Nat
           /\ Sorted(S) \in [1..Cardinality(S) -> S]
           /\ \A i, j \in 1..Cardinality(S) : i < j => Sorted(S)[i] < Sorted(S)[j]
           /\ \A i, j \in 1..Cardinality(S) : Sorted(S)[i] = Sorted(S)[j] => i = j
           /\ \A x \in S : \E i \in 1..Cardinality(S) : Sorted(S)[i] = x
  <1> DEFINE n == Cardinality(S)
             s == Sorted(S)
  <1>1. n \in Nat
    BY FS_CardinalityType
  <1>2. PICK z : IsSorted(S, z)
    BY SortedExists
  <1>3. s \in [1..n -> S] /\ \A i, j \in DOMAIN s : i < j => s[i] < s[j]
    <2>1. \E y \in [1..n -> S] : \A i, j \in DOMAIN y : i < j => y[i] < y[j]
      BY <1>2, Zenon DEF IsSorted
    <2>2. QED
      BY <2>1, Zenon DEF Sorted
  <1> HIDE DEF s
  <1>4. \A i, j \in 1..n : i < j => s[i] < s[j]
    BY <1>3
  <1>5. ASSUME NEW i \in 1..n, NEW j \in 1..n, s[i] = s[j] PROVE i = j
    <2>1. s[i] \in Nat /\ s[j] \in Nat
      BY <1>3
    <2>2. QED
      BY <1>1, <1>4, <1>5, <2>1
  <1>6. s \in Injection(1..n, S)
    BY <1>3, <1>5 DEF Injection, IsInjective
  <1>7. IsFiniteSet(1..n) /\ Cardinality(1..n) = n
    BY <1>1, FS_Interval
  <1>8. s \in Surjection(1..n, S)
    BY <1>6, <1>7, FS_Injection
  <1>9. \A x \in S : \E i \in 1..n : s[i] = x
    BY <1>8 DEF Surjection
  <1>10. QED
    BY <1>1, <1>3, <1>4, <1>5, <1>9 DEF s

-----------------------------------------------------------------------------
(* What the composer makes.                                                 *)

\* A sequence after one element.
LEMMA Headed ==
    ASSUME NEW a, NEW n \in Nat, NEW f, f = [i \in 1..n |-> f[i]]
    PROVE  LET w == <<a>> \o f IN
           /\ DOMAIN w = 1..(n + 1) /\ Len(w) = n + 1
           /\ w[1] = a
           /\ \A i \in 2..(n + 1) : i - 1 \in 1..n /\ w[i] = f[i - 1]
  <1> DEFINE A == {a} \cup {f[i] : i \in 1..n}
  <1>1. f \in Seq(A) /\ Len(f) = n /\ <<a>> \in Seq(A)
    OBVIOUS
  <1> HIDE DEF A
  <1>2. QED
    BY <1>1

\* A sequence between two elements.
LEMMA Framed ==
    ASSUME NEW a, NEW b, NEW n \in Nat, NEW f, f = [i \in 1..n |-> f[i]]
    PROVE  LET w == <<a>> \o f \o <<b>> IN
           /\ DOMAIN w = 1..(n + 2) /\ Len(w) = n + 2
           /\ w[1] = a /\ w[n + 2] = b
           /\ \A i \in 2..(n + 1) : i - 1 \in 1..n /\ w[i] = f[i - 1]
  <1> DEFINE A == {a, b} \cup {f[i] : i \in 1..n}
  <1>1. f \in Seq(A) /\ Len(f) = n /\ <<a>> \in Seq(A) /\ <<b>> \in Seq(A)
    OBVIOUS
  <1> HIDE DEF A
  <1> DEFINE v == <<a>> \o f
             w == v \o <<b>>
  <1>2. /\ v \in Seq(A) /\ Len(v) = n + 1
        /\ v[1] = a /\ \A i \in 2..(n + 1) : i - 1 \in 1..n /\ v[i] = f[i - 1]
    <2>1. v \in Seq(A)
      BY <1>1
    <2>2. QED
      BY <2>1, Headed
  <1> HIDE DEF v
  <1>3. /\ w \in Seq(A) /\ Len(w) = n + 2
        /\ w[n + 2] = b /\ \A i \in 1..(n + 1) : w[i] = v[i]
    BY <1>1, <1>2
  <1> HIDE DEF w
  <1>4. DOMAIN w = 1..(n + 2) /\ w[1] = a
    BY <1>2, <1>3
  <1>5. ASSUME NEW i \in 2..(n + 1) PROVE i - 1 \in 1..n /\ w[i] = f[i - 1]
    <2>1. i \in 1..(n + 1)
      OBVIOUS
    <2>2. w[i] = v[i]
      BY <1>3, <2>1
    <2>3. QED
      BY <1>2, <2>2
  <1>6. QED
    BY <1>3, <1>4, <1>5 DEF v, w

\* The routed principals and the tags they use are finite sets of naturals.
LEMMA RoutedFacts ==
    ASSUME NEW d \in Desired
    PROVE  /\ Routed(d) \in SUBSET Nat /\ IsFiniteSet(Routed(d))
           /\ Routed(d) \subseteq Principals
           /\ {d[p] : p \in Routed(d)} \in SUBSET Nat
           /\ {d[p] : p \in Routed(d)} \subseteq Tags
           /\ IsFiniteSet({d[p] : p \in Routed(d)})
           /\ \A p \in Routed(d) : d[p] \in Tags /\ d[p] \in Nat /\ d[p] # BLOCK
  <1>1. \A p \in Routed(d) : d[p] \in Tags /\ d[p] \in Nat /\ d[p] # BLOCK
    BY TagAssumption DEF Routed, Desired, BLOCK
  <1>2. Routed(d) \in SUBSET Principals
    BY DEF Routed
  <1>3. {d[p] : p \in Routed(d)} \in SUBSET Tags
    BY <1>1
  <1>4. IsFiniteSet(Routed(d)) /\ IsFiniteSet({d[p] : p \in Routed(d)})
    BY <1>2, <1>3, PrincipalAssumption, TagAssumption, FS_Subset
  <1>5. QED
    BY <1>1, <1>2, <1>3, <1>4, PrincipalAssumption, TagAssumption

\* n routed principals, listed by u, have one rule each between the private
\* block and the fallback.
RulesShape(d, n, u) ==
    /\ u \in [1..n -> Routed(d)]
    /\ DOMAIN Rules(d) = 1..(n + 2) /\ Len(Rules(d)) = n + 2
    /\ Rules(d)[1] = PrivateRule /\ Rules(d)[n + 2] = FallbackRule
    /\ \A i \in 2..(n + 1) :
          i - 1 \in 1..n /\ Rules(d)[i] = UserRule(u[i - 1], d[u[i - 1]])
    /\ \A i, j \in 1..n : u[i] = u[j] => i = j
    /\ \A p \in Routed(d) : \E i \in 1..n : u[i] = p

\* n tags, listed by g, have one socks outbound each after the block.
OutboundsShape(d, n, g) ==
    /\ g \in [1..n -> Tags]
    /\ DOMAIN Outbounds(d) = 1..(n + 1) /\ Len(Outbounds(d)) = n + 1
    /\ Outbounds(d)[1] = BlockOutbound
    /\ \A i \in 2..(n + 1) :
          i - 1 \in 1..n /\ Outbounds(d)[i] = [tag |-> g[i - 1], protocol |-> "socks"]
    /\ \A i, j \in 1..n : g[i] = g[j] => i = j
    /\ \A p \in Routed(d) : \E i \in 1..n : g[i] = d[p]

\* The rules: the private block, one rule for each routed principal, and the
\* fallback.
LEMMA RulesFacts ==
    ASSUME NEW d \in Desired
    PROVE  \E n \in Nat : \E u : RulesShape(d, n, u)
  <1> DEFINE n == Cardinality(Routed(d))
             u == Sorted(Routed(d))
             f == [i \in DOMAIN u |-> UserRule(u[i], d[u[i]])]
  <1>1. /\ n \in Nat /\ u \in [1..n -> Routed(d)]
        /\ \A i, j \in 1..n : u[i] = u[j] => i = j
        /\ \A p \in Routed(d) : \E i \in 1..n : u[i] = p
    BY RoutedFacts, SortedFacts
  <1> HIDE DEF n, u
  <1>2. f = [i \in 1..n |-> f[i]] /\ \A i \in 1..n : f[i] = UserRule(u[i], d[u[i]])
    BY <1>1
  <1>3. Rules(d) = <<PrivateRule>> \o f \o <<FallbackRule>>
    BY DEF Rules, u
  <1> HIDE DEF f
  <1>4. /\ DOMAIN Rules(d) = 1..(n + 2) /\ Len(Rules(d)) = n + 2
        /\ Rules(d)[1] = PrivateRule /\ Rules(d)[n + 2] = FallbackRule
        /\ \A i \in 2..(n + 1) : i - 1 \in 1..n /\ Rules(d)[i] = f[i - 1]
    BY <1>1, <1>2, <1>3, Framed
  <1>5. \A i \in 2..(n + 1) :
            i - 1 \in 1..n /\ Rules(d)[i] = UserRule(u[i - 1], d[u[i - 1]])
    BY <1>2, <1>4
  <1>6. RulesShape(d, n, u)
    BY <1>1, <1>4, <1>5 DEF RulesShape
  <1>7. QED
    BY <1>1, <1>6

\* The outbounds: the block, and one socks outbound for each tag.
LEMMA OutboundsFacts ==
    ASSUME NEW d \in Desired
    PROVE  \E n \in Nat : \E g : OutboundsShape(d, n, g)
  <1> DEFINE T == {d[p] : p \in Routed(d)}
             n == Cardinality(T)
             g == Sorted(T)
             f == [i \in DOMAIN g |-> [tag |-> g[i], protocol |-> "socks"]]
  <1>0. /\ T \in SUBSET Nat /\ IsFiniteSet(T) /\ T \subseteq Tags
        /\ \A p \in Routed(d) : d[p] \in T
    BY RoutedFacts
  <1>3. Outbounds(d) = <<BlockOutbound>> \o f
    BY DEF Outbounds
  <1> HIDE DEF T
  <1>1. /\ n \in Nat /\ g \in [1..n -> T]
        /\ \A i, j \in 1..n : g[i] = g[j] => i = j
        /\ \A p \in Routed(d) : \E i \in 1..n : g[i] = d[p]
    BY <1>0, SortedFacts
  <1> HIDE DEF n, g
  <1>2. /\ f = [i \in 1..n |-> f[i]]
        /\ \A i \in 1..n : f[i] = [tag |-> g[i], protocol |-> "socks"]
    BY <1>1
  <1> HIDE DEF f
  <1>4. /\ DOMAIN Outbounds(d) = 1..(n + 1) /\ Len(Outbounds(d)) = n + 1
        /\ Outbounds(d)[1] = BlockOutbound
        /\ \A i \in 2..(n + 1) : i - 1 \in 1..n /\ Outbounds(d)[i] = f[i - 1]
    BY <1>1, <1>2, <1>3, Headed
  <1>5. \A i \in 2..(n + 1) :
            i - 1 \in 1..n /\ Outbounds(d)[i] = [tag |-> g[i - 1], protocol |-> "socks"]
    BY <1>2, <1>4
  <1>6. OutboundsShape(d, n, g)
    BY <1>0, <1>1, <1>4, <1>5 DEF OutboundsShape
  <1>7. QED
    BY <1>1, <1>6

\* Composing reads the settings and the routes, nothing else.
LEMMA ComposeFacts ==
    ASSUME NEW sh, NEW d
    PROVE  LET c == compose_xray_config(sh, d) IN
           c.shell = sh /\ c.outbounds = Outbounds(d) /\ c.rules = Rules(d)
  BY DEF compose_xray_config

\* Whatever compose_xray_config makes of settings and routes that it does not
\* refuse, _validate_repo_owned_xray_config accepts.
THEOREM ComposedIsValid ==
    ASSUME NEW sh, NEW d \in Desired, Composable(sh, d)
    PROVE  ValidConfig(compose_xray_config(sh, d))
  <1> DEFINE c == compose_xray_config(sh, d)
  <1>0. c.shell = sh /\ c.outbounds = Outbounds(d) /\ c.rules = Rules(d)
    BY ComposeFacts
  <1> HIDE DEF c
  <1>1. ValidShell(c)
    BY <1>0 DEF ValidShell, Composable
  <1>m. PICK m \in Nat : \E g : OutboundsShape(d, m, g)
    BY OutboundsFacts
  <1>2. PICK g : OutboundsShape(d, m, g)
    BY <1>m
  <1>3. /\ g \in [1..m -> Tags]
        /\ DOMAIN c.outbounds = 1..(m + 1) /\ Len(c.outbounds) = m + 1
        /\ c.outbounds[1] = BlockOutbound
        /\ \A i \in 2..(m + 1) :
              i - 1 \in 1..m /\ c.outbounds[i] = [tag |-> g[i - 1], protocol |-> "socks"]
        /\ \A i, j \in 1..m : g[i] = g[j] => i = j
        /\ \A p \in Routed(d) : \E i \in 1..m : g[i] = d[p]
    BY <1>0, <1>2 DEF OutboundsShape
  <1>4. /\ BlockOutbound.tag = BLOCK
        /\ \A i \in 2..(m + 1) :
              /\ i - 1 \in 1..m
              /\ c.outbounds[i].tag = g[i - 1]
              /\ c.outbounds[i].protocol = "socks"
              /\ c.outbounds[i].tag \in Nat /\ c.outbounds[i].tag # BLOCK
    <2>1. ASSUME NEW i \in 2..(m + 1)
          PROVE  /\ i - 1 \in 1..m
                 /\ c.outbounds[i].tag = g[i - 1]
                 /\ c.outbounds[i].protocol = "socks"
                 /\ c.outbounds[i].tag \in Nat /\ c.outbounds[i].tag # BLOCK
      <3>1. i - 1 \in 1..m /\ c.outbounds[i] = [tag |-> g[i - 1], protocol |-> "socks"]
        BY <1>0, <1>3
      <3>2. g[i - 1] \in Tags
        BY <1>3, <3>1
      <3>3. g[i - 1] \in Nat /\ g[i - 1] # BLOCK
        BY <3>2, TagAssumption DEF BLOCK
      <3>4. QED
        BY <3>1, <3>3
    <2>2. QED
      BY <2>1 DEF BlockOutbound
  <1>5. ValidOutbounds(c)
    <2>1. c.outbounds # <<>>
      BY <1>0, <1>3
    <2>2. ASSUME NEW i \in DOMAIN c.outbounds, NEW j \in DOMAIN c.outbounds,
                 c.outbounds[i].tag = c.outbounds[j].tag
          PROVE  i = j
      <3>1. i \in 1..(m + 1) /\ j \in 1..(m + 1)
        BY <1>0, <1>3
      <3>2. c.outbounds[1].tag = BLOCK
        BY <1>0, <1>3, <1>4
      <3>3. CASE i = 1 \/ j = 1
        <4>1. ASSUME NEW k \in 1..(m + 1), c.outbounds[k].tag = BLOCK PROVE k = 1
          <5>1. k \notin 2..(m + 1)
            BY <1>4, <4>1
          <5>2. QED
            BY <5>1
        <4>2. c.outbounds[i].tag = BLOCK /\ c.outbounds[j].tag = BLOCK
          BY <2>2, <3>2, <3>3
        <4>3. QED
          BY <3>1, <4>1, <4>2
      <3>4. CASE i # 1 /\ j # 1
        <4>1. i \in 2..(m + 1) /\ j \in 2..(m + 1)
          BY <3>1, <3>4
        <4>2. i - 1 \in 1..m /\ j - 1 \in 1..m /\ g[i - 1] = g[j - 1]
          BY <1>4, <2>2, <4>1
        <4>3. i - 1 = j - 1
          BY <1>3, <4>2
        <4>4. QED
          BY <3>1, <4>3
      <3>5. QED
        BY <3>3, <3>4
    <2>3. DIRECT \notin TagsOf(c)
      <3>1. ASSUME NEW i \in DOMAIN c.outbounds PROVE c.outbounds[i].tag # DIRECT
        <4>1. i \in 1..(m + 1)
          BY <1>0, <1>3
        <4>2. CASE i = 1
          BY <1>0, <1>3, <1>4, <4>2 DEF BLOCK, DIRECT
        <4>3. CASE i # 1
          <5>1. i \in 2..(m + 1)
            BY <4>1, <4>3
          <5>2. QED
            BY <1>4, <5>1 DEF DIRECT
        <4>4. QED
          BY <4>2, <4>3
      <3>2. QED
        BY <3>1 DEF TagsOf
    <2>4. QED
      BY <1>0, <1>3, <1>4, <2>1, <2>2, <2>3 DEF ValidOutbounds
  <1>6. ASSUME NEW p \in Routed(d)
        PROVE  d[p] \in TagsOf(c) \ {BLOCK, DIRECT}
    <2>1. PICK i \in 1..m : g[i] = d[p]
      BY <1>3
    <2>2. i + 1 \in 2..(m + 1) /\ i + 1 - 1 = i
      OBVIOUS
    <2>3. c.outbounds[i + 1].tag = d[p] /\ i + 1 \in DOMAIN c.outbounds
      BY <1>0, <1>3, <1>4, <2>1, <2>2
    <2>4. d[p] \in Nat /\ d[p] # BLOCK
      BY RoutedFacts
    <2>5. d[p] # DIRECT
      BY <2>4 DEF DIRECT
    <2>6. QED
      BY <2>3, <2>4, <2>5 DEF TagsOf
  <1>7. ValidRules(c)
    <2>n. PICK n \in Nat : \E u : RulesShape(d, n, u)
      BY RulesFacts
    <2>1. PICK u : RulesShape(d, n, u)
      BY <2>n
    <2>2. /\ u \in [1..n -> Routed(d)]
          /\ DOMAIN c.rules = 1..(n + 2) /\ Len(c.rules) = n + 2
          /\ c.rules[1] = PrivateRule /\ c.rules[n + 2] = FallbackRule
          /\ \A i \in 2..(n + 1) :
                i - 1 \in 1..n /\ c.rules[i] = UserRule(u[i - 1], d[u[i - 1]])
          /\ \A i, j \in 1..n : u[i] = u[j] => i = j
      BY <1>0, <2>1 DEF RulesShape
    <2>3. ASSUME NEW i \in 2..(n + 1)
          PROVE  /\ i - 1 \in 1..n /\ u[i - 1] \in Routed(d)
                 /\ c.rules[i].user = u[i - 1]
                 /\ c.rules[i].outboundTag = d[u[i - 1]]
      <3>1. i - 1 \in 1..n /\ c.rules[i] = UserRule(u[i - 1], d[u[i - 1]])
        BY <1>0, <2>2
      <3>2. u[i - 1] \in Routed(d)
        BY <2>2, <3>1
      <3>3. QED
        BY <3>1, <3>2 DEF UserRule
    <2>4. ASSUME NEW i \in 2..(n + 1)
          PROVE  /\ c.rules[i].user # NULL
                 /\ c.rules[i].outboundTag \in TagsOf(c) \ {BLOCK, DIRECT}
                 /\ \A j \in 2..(n + 1) : c.rules[i].user = c.rules[j].user => i = j
      <3>1. u[i - 1] # NULL
        BY <2>3, RoutedFacts, RouteNullAssumption
      <3>2. ASSUME NEW j \in 2..(n + 1), c.rules[i].user = c.rules[j].user PROVE i = j
        <4>1. i - 1 = j - 1
          BY <2>2, <2>3, <3>2
        <4>2. QED
          BY <4>1
      <3>3. QED
        BY <1>6, <2>3, <3>1, <3>2
    <2>5. (n + 2) - 1 = n + 1 /\ n + 2 >= 2
      OBVIOUS
    <2>6. /\ Len(c.rules) = n + 2
          /\ c.rules[1] = PrivateRule /\ c.rules[n + 2] = FallbackRule
      BY <1>0, <2>2
    <2>7. \A i \in 2..(Len(c.rules) - 1) :
             /\ c.rules[i].user # NULL
             /\ c.rules[i].outboundTag \in TagsOf(c) \ {BLOCK, DIRECT}
             /\ \A j \in 2..(Len(c.rules) - 1) : c.rules[i].user = c.rules[j].user => i = j
      BY <2>4, <2>5, <2>6
    <2>8. QED
      BY <2>5, <2>6, <2>7 DEF ValidRules
  <1>8. QED
    BY <1>1, <1>5, <1>7 DEF ValidConfig, c

-----------------------------------------------------------------------------
(* What Xray does with it.                                                  *)

IsFirst(c, p, private, k) ==
    /\ k \in DOMAIN c.rules
    /\ Matches(c.rules[k], p, private)
    /\ \A j \in 1..(k - 1) : ~Matches(c.rules[j], p, private)

\* The rule that decides is the first one that matches.
LEMMA FirstMatch ==
    ASSUME NEW c, NEW p, NEW private, NEW k, IsFirst(c, p, private, k),
           DOMAIN c.rules \subseteq Nat \ {0}
    PROVE  Delivered(c, p, private) = c.rules[k].outboundTag
  <1> DEFINE First(i) == /\ Matches(c.rules[i], p, private)
                         /\ \A j \in 1..(i - 1) : ~Matches(c.rules[j], p, private)
             f == CHOOSE i \in DOMAIN c.rules : First(i)
  <1>1. k \in DOMAIN c.rules /\ First(k)
    BY DEF IsFirst
  <1>2. f \in DOMAIN c.rules /\ First(f)
    <2>1. \E i \in DOMAIN c.rules : First(i)
      BY <1>1
    <2> HIDE DEF First
    <2>2. QED
      BY <2>1
  <1>3. Delivered(c, p, private) = c.rules[f].outboundTag
    BY DEF Delivered
  <1> HIDE DEF f
  <1>4. ~(f < k) /\ ~(k < f)
    BY <1>1, <1>2
  <1>5. f = k
    BY <1>1, <1>2, <1>4
  <1>6. QED
    BY <1>3, <1>5

\* With the file that compose_xray_config makes, Xray sends every principal
\* through its own egress, and blocks those without a route and every private
\* address.
THEOREM ComposedDelivers ==
    ASSUME NEW sh, NEW d \in Desired, NEW p \in Principals
    PROVE  LET c == compose_xray_config(sh, d) IN
           /\ Delivered(c, p, TRUE) = BLOCK
           /\ Delivered(c, p, FALSE) = IF d[p] = NULL THEN BLOCK ELSE d[p]
  <1> DEFINE c == compose_xray_config(sh, d)
  <1>0. c.rules = Rules(d)
    BY ComposeFacts
  <1> HIDE DEF c
  <1>n. PICK n \in Nat : \E u : RulesShape(d, n, u)
    BY RulesFacts
  <1>1. PICK u : RulesShape(d, n, u)
    BY <1>n
  <1>2. /\ u \in [1..n -> Routed(d)]
        /\ DOMAIN c.rules = 1..(n + 2)
        /\ c.rules[1] = PrivateRule /\ c.rules[n + 2] = FallbackRule
        /\ \A i \in 2..(n + 1) :
              i - 1 \in 1..n /\ c.rules[i] = UserRule(u[i - 1], d[u[i - 1]])
        /\ \A i, j \in 1..n : u[i] = u[j] => i = j
        /\ \A q \in Routed(d) : \E i \in 1..n : u[i] = q
    BY <1>0, <1>1 DEF RulesShape
  <1>3. /\ n + 2 \in Nat /\ 1 \in 1..(n + 2) /\ n + 2 \in 1..(n + 2)
        /\ DOMAIN c.rules \subseteq Nat \ {0}
    BY <1>2
  <1>4. NULL # "geoip:private" /\ p # NULL
    BY RouteNullAssumption
  <1>5. /\ Matches(PrivateRule, p, TRUE) /\ ~Matches(PrivateRule, p, FALSE)
        /\ Matches(FallbackRule, p, FALSE)
        /\ PrivateRule.outboundTag = BLOCK /\ FallbackRule.outboundTag = BLOCK
    BY <1>4 DEF Matches, PrivateRule, FallbackRule
  <1>6. ASSUME NEW i \in 2..(n + 1)
        PROVE  /\ i - 1 \in 1..n /\ u[i - 1] \in Routed(d)
               /\ c.rules[i].outboundTag = d[u[i - 1]]
               /\ Matches(c.rules[i], p, FALSE) <=> u[i - 1] = p
    <2>1. i - 1 \in 1..n /\ c.rules[i] = UserRule(u[i - 1], d[u[i - 1]])
      BY <1>2
    <2>2. u[i - 1] \in Routed(d)
      BY <1>2, <2>1
    <2>3. u[i - 1] # NULL
      BY <2>2, RoutedFacts, RouteNullAssumption
    <2>4. QED
      BY <1>4, <2>1, <2>2, <2>3 DEF UserRule, Matches
  <1>7. Delivered(c, p, TRUE) = BLOCK
    <2>1. IsFirst(c, p, TRUE, 1)
      <3>1. 1 \in DOMAIN c.rules /\ Matches(c.rules[1], p, TRUE)
        BY <1>2, <1>3, <1>5
      <3>2. 1..(1 - 1) = {}
        OBVIOUS
      <3>3. QED
        BY <3>1, <3>2 DEF IsFirst
    <2>2. Delivered(c, p, TRUE) = c.rules[1].outboundTag
      BY <1>3, <2>1, FirstMatch, Zenon
    <2>3. QED
      BY <1>2, <1>5, <2>2
  <1>8. CASE d[p] = NULL
    <2>1. p \notin Routed(d)
      BY <1>8 DEF Routed
    <2>2. ASSUME NEW j \in 1..(n + 1) PROVE ~Matches(c.rules[j], p, FALSE)
      <3>1. CASE j = 1
        BY <1>2, <1>5, <3>1
      <3>2. CASE j # 1
        <4>1. j \in 2..(n + 1)
          BY <3>2
        <4>2. QED
          BY <1>6, <2>1, <4>1
      <3>3. QED
        BY <3>1, <3>2
    <2>3. (n + 2) - 1 = n + 1
      OBVIOUS
    <2>4. IsFirst(c, p, FALSE, n + 2)
      BY <1>2, <1>3, <1>5, <2>2, <2>3 DEF IsFirst
    <2>5. Delivered(c, p, FALSE) = c.rules[n + 2].outboundTag
      BY <1>3, <2>4, FirstMatch, Zenon
    <2>6. QED
      BY <1>2, <1>5, <1>7, <1>8, <2>5 DEF c
  <1>9. CASE d[p] # NULL
    <2>1. p \in Routed(d)
      BY <1>9 DEF Routed
    <2>2. PICK k \in 2..(n + 1) : u[k - 1] = p
      <3>1. PICK i \in 1..n : u[i] = p
        BY <1>2, <2>1
      <3>2. i + 1 \in 2..(n + 1) /\ (i + 1) - 1 = i
        OBVIOUS
      <3>3. QED
        BY <3>1, <3>2
    <2>3. k \in 1..(n + 2) /\ k - 1 \in 1..n
      OBVIOUS
    <2>4. Matches(c.rules[k], p, FALSE) /\ c.rules[k].outboundTag = d[p]
      BY <1>6, <2>2
    <2>5. ASSUME NEW j \in 1..(k - 1) PROVE ~Matches(c.rules[j], p, FALSE)
      <3>1. CASE j = 1
        BY <1>2, <1>5, <3>1
      <3>2. CASE j # 1
        <4>1. j \in 2..(n + 1) /\ j - 1 \in 1..n /\ j - 1 # k - 1
          BY <3>2
        <4>2. u[j - 1] # p
          BY <1>2, <2>2, <2>3, <4>1
        <4>3. QED
          BY <1>6, <4>1, <4>2
      <3>3. QED
        BY <3>1, <3>2
    <2>6. IsFirst(c, p, FALSE, k)
      BY <1>2, <2>3, <2>4, <2>5 DEF IsFirst
    <2>7. Delivered(c, p, FALSE) = c.rules[k].outboundTag
      BY <1>3, <2>6, FirstMatch, Zenon
    <2>8. QED
      BY <1>7, <1>9, <2>4, <2>7 DEF c
  <1>10. QED
    BY <1>8, <1>9

=============================================================================
