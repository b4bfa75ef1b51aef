----------------------------- MODULE UrlsProofs ----------------------------
EXTENDS Urls, FiniteSetTheorems, TLAPS


\* Zenon, unless a leaf asks for another prover.
USE ZenonT(40)

-----------------------------------------------------------------------------
(* Loops over a sequence                                                   *)

\* A non-empty set of naturals has a least element: induction, in the form
\* the provers can use.
LEMMA LeastNat ==
  ASSUME NEW T, T \subseteq Nat, T # {}
  PROVE  \E n \in T : \A m \in T : n <= m
<1>1. PICK x \in T : \A y \in T : <<y, x>> \notin OpToRel(<, Nat)
  BY NatLessThanWellFounded, WFMin
<1>2. \A y, z \in Nat : y < z => <<y, z>> \in OpToRel(<, Nat)
  BY DEF OpToRel
<1>3. \A y \in T : ~(y < x)
  BY <1>1, <1>2
<1>4. QED
  BY <1>3, SMT

\* The rounds of a loop: what holds at first and goes from each round to the
\* next holds at last.
LEMMA Rounds ==
  ASSUME NEW n \in Nat, NEW G, 0 \in G, \A i \in 1 .. n : i - 1 \in G => i \in G
  PROVE  n \in G
<1> DEFINE Bad == {i \in 0 .. n : i \notin G}
<1>1. Bad \subseteq Nat /\ (n \notin G => n \in Bad)
  BY SMT
<1>2. ASSUME NEW i \in Bad, \A j \in Bad : i <= j PROVE FALSE
  <2>1. i \in 1 .. n /\ i - 1 \in 0 .. n /\ ~(i <= i - 1)
    BY SMT
  <2>2. QED
    BY <1>2, <2>1
<1> HIDE DEF Bad
<1>3. QED
  BY <1>1, <1>2, LeastNat

\* A loop over 1 .. n has a history: the state after each of its rounds.
Runs(F, n, init, step) ==
  F = [i \in 0 .. n |-> IF i = 0 THEN init ELSE step[<<i, F[i - 1]>>]]

\* A loop of n rounds that keeps a type defines the function of its states.
LEMMA LoopExists ==
  ASSUME NEW T, NEW n \in Nat, NEW init \in T, NEW step \in [(1 .. n) \X T -> T]
  PROVE  \E F \in [0 .. n -> T] : Runs(F, n, init, step)
<1> DEFINE Good(m) == \E F \in [0 .. m -> T] : Runs(F, m, init, step)
<1>1. Good(0)
  <2> DEFINE G == [i \in 0 .. 0 |-> init]
  <2>1. G \in [0 .. 0 -> T] /\ Runs(G, 0, init, step)
    BY SMT DEF Runs
  <2>2. QED
    BY <2>1
<1>2. ASSUME NEW m \in 1 .. n, Good(m - 1) PROVE Good(m)
  <2>1. m \in Nat \ {0} /\ m \in 0 .. m /\ m - 1 \in 0 .. m /\ m - 1 # m
    BY SMT
  <2>2. PICK F \in [0 .. m - 1 -> T] : Runs(F, m - 1, init, step)
    BY SMT, <1>2
  <2> DEFINE G == [i \in 0 .. m |-> IF i = m THEN step[<<m, F[m - 1]>>] ELSE F[i]]
  <2>3. step[<<m, F[m - 1]>>] \in T
    BY SMT, <2>1, <2>2
  <2>4. G \in [0 .. m -> T]
    BY SMT, <2>1, <2>2, <2>3
  <2>5. ASSUME NEW i \in 0 .. m
        PROVE  G[i] = IF i = 0 THEN init ELSE step[<<i, G[i - 1]>>]
    <3>1. CASE i = 0
      BY SMT, <2>1, <2>2, <3>1 DEF Runs
    <3>2. CASE i # 0 /\ i = m
      BY SMT, <2>1, <2>2, <3>2
    <3>3. CASE i # 0 /\ i # m
      <4>1. i \in 0 .. m - 1 /\ i - 1 \in 0 .. m - 1 /\ i - 1 # m
        BY SMT, <2>1, <3>3
      <4>2. F[i] = step[<<i, F[i - 1]>>]
        BY SMT, <2>2, <3>3, <4>1 DEF Runs
      <4>3. G[i] = F[i] /\ G[i - 1] = F[i - 1]
        BY SMT, <2>1, <3>3, <4>1
      <4>4. QED
        BY <3>3, <4>2, <4>3
    <3>4. QED
      BY <3>1, <3>2, <3>3
  <2>6. Runs(G, m, init, step)
    BY <2>5 DEF Runs
  <2>7. QED
    BY <2>4, <2>6
<1>3. QED
  <2> DEFINE G == {m \in 0 .. n : Good(m)}
  <2> HIDE DEF Good
  <2>1. 0 \in G /\ \A m \in 1 .. n : m - 1 \in G => m \in G
    BY SMT, <1>1, <1>2
  <2>2. n \in G
    BY <2>1, Rounds
  <2>3. QED
    BY <2>2 DEF Good

-----------------------------------------------------------------------------
(* Sequences                                                               *)

\* Seq(S) holds the functions from every 1 .. n to S.
LEMMA SeqIs ==
  /\ \A S : \A n \in Nat : \A s \in [1 .. n -> S] : s \in Seq(S)
  /\ \A S : \A s \in Seq(S) : Len(s) \in Nat /\ DOMAIN s = 1 .. Len(s)
BY SMT

-----------------------------------------------------------------------------
(* The query                                                               *)

Queries == Seq(Nat)
Kept(q) == {j \in DOMAIN q : ~Tracked(q[j])}
Below(q, v) == {j \in Kept(q) : q[j] < v}
Through(q, v) == {j \in Kept(q) : q[j] <= v}

\* v is the k-th parameter, in ascending order.
At(q, k, v) ==
  v \in {q[j] : j \in Kept(q)} /\ Cardinality(Below(q, v)) < k /\ k <= Cardinality(Through(q, v))

\* The canonical query lists them.
Lists(c, q) ==
  /\ c = [k \in 1 .. Cardinality(Kept(q)) |-> c[k]]
  /\ \A k \in 1 .. Cardinality(Kept(q)) : At(q, k, c[k])

\* What is kept of q has its place in r.
Embeds(f, q, r) ==
  /\ f \in [Kept(q) -> Kept(r)]
  /\ \A j \in Kept(q) : r[f[j]] = q[j]
  /\ \A j, k \in Kept(q) : f[j] = f[k] => j = k

\* The canonical query is its own canonical query, and neither the order of the
\* parameters nor a tracking parameter matters to it.
LEMMA QueryIsCanonical ==
  /\ \A q \in Queries : CanonicalQuery(q) \in Queries /\ CanonicalQuery(CanonicalQuery(q)) = CanonicalQuery(q)
  /\ \A q \in Queries : Reverse(q) \in Queries /\ CanonicalQuery(Reverse(q)) = CanonicalQuery(q)
  /\ \A q \in Queries, m \in Tracking :
       <<m>> \o q \in Queries /\ CanonicalQuery(<<m>> \o q) = CanonicalQuery(q)

\* The sets that are counted are finite.
<1>Counts.
    ASSUME NEW q \in Queries
    PROVE  /\ IsFiniteSet(Kept(q)) /\ Cardinality(Kept(q)) \in Nat
           /\ DOMAIN q = 1 .. Len(q) /\ Len(q) \in Nat
           /\ \A j \in DOMAIN q : q[j] \in Nat
           /\ \A S \in SUBSET Kept(q) : IsFiniteSet(S) /\ Cardinality(S) \in Nat /\ Cardinality(S) <= Cardinality(Kept(q))
           /\ \A v : Below(q, v) \in SUBSET Kept(q) /\ Through(q, v) \in SUBSET Kept(q)
  <2>1. DOMAIN q = 1 .. Len(q) /\ Len(q) \in Nat /\ \A j \in DOMAIN q : q[j] \in Nat
    BY SMT DEF Queries
  <2>2. IsFiniteSet(1 .. Len(q))
    BY SMT, <2>1, FS_Interval
  <2>3. Kept(q) \in SUBSET (1 .. Len(q))
    BY <2>1 DEF Kept
  <2>4. IsFiniteSet(Kept(q)) /\ Cardinality(Kept(q)) \in Nat
    BY <2>2, <2>3, FS_Subset, FS_CardinalityType
  <2>5. ASSUME NEW S \in SUBSET Kept(q)
        PROVE  IsFiniteSet(S) /\ Cardinality(S) \in Nat /\ Cardinality(S) <= Cardinality(Kept(q))
    BY <2>4, FS_Subset, FS_CardinalityType
  <2>6. \A v : Below(q, v) \in SUBSET Kept(q) /\ Through(q, v) \in SUBSET Kept(q)
    BY DEF Below, Through
  <2>7. QED
    BY <2>1, <2>4, <2>5, <2>6

\* What counts up to a value is below a larger one.
<1>Nested.
    ASSUME NEW q \in Queries, NEW v \in Nat, NEW w \in Nat, v < w
    PROVE  Cardinality(Through(q, v)) <= Cardinality(Below(q, w))
  <2> USE <1>Nested
  <2>1. \A j \in Kept(q) : q[j] \in Nat
    BY <1>Counts DEF Kept
  <2>2. \A x \in Nat : x <= v => x < w
    BY SMT
  <2>3. Through(q, v) \in SUBSET Below(q, w)
    BY <2>1, <2>2 DEF Through, Below
  <2>4. IsFiniteSet(Below(q, w))
    BY <1>Counts
  <2>5. QED
    BY <2>3, <2>4, FS_Subset

\* No two values are the k-th, and a later one is no smaller.
<1>AtOrder.
    ASSUME NEW q \in Queries, NEW j \in Nat, NEW k \in Nat, NEW v, NEW w, At(q, j, v), At(q, k, w), j <= k
    PROVE  v \in Nat /\ w \in Nat /\ v <= w
  <2> USE <1>AtOrder
  <2>1. v \in Nat /\ w \in Nat
    BY <1>Counts DEF At, Kept
  <2>2. CASE w < v
    <3>1. Cardinality(Through(q, w)) <= Cardinality(Below(q, v))
      BY <2>1, <2>2, <1>Nested
    <3>2. k <= Cardinality(Through(q, w)) /\ Cardinality(Below(q, v)) < j
      BY DEF At
    <3>3. Cardinality(Through(q, w)) \in Nat /\ Cardinality(Below(q, v)) \in Nat
      BY <1>Counts
    <3>4. QED
      BY SMT, <3>1, <3>2, <3>3
  <2>3. QED
    BY SMT, <2>1, <2>2

\* The parameters have a bound.
<1>QueryBound.
    ASSUME NEW q \in Queries
    PROVE  \E b \in Nat : \A j \in DOMAIN q : q[j] <= b
  <2> DEFINE Bound(i, b) == \A j \in 1 .. i : q[j] <= b
             G == {i \in 0 .. Len(q) : \E b \in Nat : Bound(i, b)}
  <2>1. Len(q) \in Nat /\ DOMAIN q = 1 .. Len(q) /\ \A j \in 1 .. Len(q) : q[j] \in Nat
    BY <1>Counts
  <2>2. 0 \in G
    <3>1. Bound(0, 0) /\ 0 \in Nat /\ 0 \in 0 .. Len(q)
      BY SMT, <2>1
    <3>2. QED
      BY <3>1
  <2>3. ASSUME NEW i \in 1 .. Len(q), i - 1 \in G PROVE i \in G
    <3>1. PICK b \in Nat : Bound(i - 1, b)
      BY <2>3
    <3>2. i \in 0 .. Len(q) /\ q[i] \in Nat
      BY SMT, <2>1
    <3>3. \A j \in 1 .. i : q[j] \in Nat /\ (j = i \/ j \in 1 .. i - 1)
      BY SMT, <2>1
    <3>4. b + q[i] \in Nat /\ \A x \in Nat : x <= b => x <= b + q[i]
      BY SMT, <3>2
    <3>5. q[i] <= b + q[i]
      BY SMT, <3>2
    <3>6. Bound(i, b + q[i])
      BY <3>1, <3>3, <3>4, <3>5
    <3> HIDE DEF Bound
    <3>7. QED
      BY <3>2, <3>4, <3>6
  <2> HIDE DEF Bound
  <2> HIDE DEF G
  <2>4. Len(q) \in G
    BY <2>1, <2>2, <2>3, Rounds
  <2>5. QED
    BY <2>1, <2>4 DEF G, Bound

\* There is a k-th for every k up to their number.
<1>AtExists.
    ASSUME NEW q \in Queries, NEW k \in 1 .. Cardinality(Kept(q))
    PROVE  \E v : At(q, k, v)
  <2> DEFINE V == {v \in Nat : k <= Cardinality(Through(q, v))}
  <2>0. k \in Nat /\ k > 0 /\ k <= Cardinality(Kept(q))
    BY SMT, <1>Counts
  <2>1. \E v \in Nat : Through(q, v) = Kept(q)
    BY <1>QueryBound DEF Through, Kept
  <2>2. V # {} /\ V \subseteq Nat
    BY <2>0, <2>1
  <2>3. PICK v \in V : \A u \in V : v <= u
    BY <2>2, LeastNat
  <2>4. v \in Nat /\ k <= Cardinality(Through(q, v)) /\ \A u \in Nat : k <= Cardinality(Through(q, u)) => v <= u
    BY <2>3
  <2> HIDE DEF V
  <2>5. Cardinality(Below(q, v)) \in Nat /\ Cardinality(Through(q, v)) \in Nat
    BY <1>Counts
  <2>6. \A j \in Kept(q) : q[j] \in Nat
    BY <1>Counts DEF Kept
  <2>7. Cardinality(Below(q, v)) < k
    <3>1. CASE v = 0
      <4>1. \A x \in Nat : ~(x < 0)
        BY SMT
      <4>2. Below(q, v) = {}
        BY <2>6, <3>1, <4>1 DEF Below
      <4>3. Cardinality(Below(q, v)) = 0
        BY <4>2, FS_EmptySet
      <4>4. QED
        BY SMT, <2>0, <4>3
    <3>2. CASE v # 0
      <4>1. v - 1 \in Nat /\ ~(v <= v - 1) /\ \A x \in Nat : x < v <=> x <= v - 1
        BY SMT, <2>4, <3>2
      <4>2. Below(q, v) = Through(q, v - 1)
        BY <2>6, <4>1 DEF Below, Through
      <4>3. ~(k <= Cardinality(Below(q, v)))
        BY <2>4, <4>1, <4>2
      <4>4. QED
        BY SMT, <2>0, <2>5, <4>3
    <3>3. QED
      BY <3>1, <3>2
  <2>8. v \in {q[j] : j \in Kept(q)}
    <3>1. Cardinality(Below(q, v)) # Cardinality(Through(q, v))
      BY SMT, <2>0, <2>4, <2>5, <2>7
    <3>2. \A x \in Nat : x < v => x <= v
      BY SMT, <2>4
    <3>3. \A x \in Nat : x <= v /\ ~(x < v) => x = v
      BY SMT, <2>4
    <3>4. PICK j \in Through(q, v) : j \notin Below(q, v)
      BY <2>6, <3>1, <3>2 DEF Through, Below
    <3>5. QED
      BY <2>6, <3>3, <3>4 DEF Through, Below
  <2>9. QED
    BY <2>4, <2>7, <2>8 DEF At

<1>CanonicalLists.
    ASSUME NEW q \in Queries
    PROVE  Lists(CanonicalQuery(q), q)
  <2> DEFINE c == CanonicalQuery(q)
             n == Cardinality(Kept(q))
             Pick(k) == CHOOSE v \in {q[j] : j \in Kept(q)} :
                          Cardinality(Below(q, v)) < k /\ k <= Cardinality(Through(q, v))
  <2>1. c = [k \in 1 .. n |-> Pick(k)]
    BY DEF CanonicalQuery, Kept, Below, Through
  <2>2. ASSUME NEW k \in 1 .. n PROVE At(q, k, Pick(k))
    BY <1>AtExists DEF At
  <2> HIDE DEF Pick, c
  <2>3. \A k \in 1 .. n : c[k] = Pick(k)
    BY <2>1
  <2>4. c = [k \in 1 .. n |-> c[k]]
    BY <2>1, <2>3
  <2>5. QED
    BY <2>2, <2>3, <2>4 DEF Lists, c

\* Only one sequence does.
<1>ListsOnce.
    ASSUME NEW q \in Queries, NEW r \in Queries, NEW c, NEW d, Lists(c, q), Lists(d, r),
           Cardinality(Kept(q)) = Cardinality(Kept(r)),
           \A k \in 1 .. Cardinality(Kept(q)) : At(q, k, d[k])
    PROVE  c = d
  <2> USE <1>ListsOnce
  <2> DEFINE n == Cardinality(Kept(q))
  <2>1. ASSUME NEW k \in 1 .. n PROVE c[k] = d[k]
    <3>1. At(q, k, c[k]) /\ At(q, k, d[k]) /\ k \in Nat /\ k <= k
      <4>1. k \in Nat /\ k <= k
        BY SMT, <1>Counts
      <4>2. QED
        BY <4>1 DEF Lists
    <3>2. c[k] \in Nat /\ d[k] \in Nat /\ c[k] <= d[k] /\ d[k] <= c[k]
      BY <3>1, <1>AtOrder
    <3>3. QED
      BY SMT, <3>2
  <2>2. QED
    BY <2>1 DEF Lists

\* The canonical query is its own canonical query.
<1>QueryIsFixed.
    ASSUME NEW q \in Queries
    PROVE  CanonicalQuery(q) \in Queries /\ CanonicalQuery(CanonicalQuery(q)) = CanonicalQuery(q)
  <2> DEFINE c == CanonicalQuery(q)
             n == Cardinality(Kept(q))
  <2>1. n \in Nat /\ \A k \in 1 .. n : k \in Nat
    BY SMT, <1>Counts
  <2>2. Lists(c, q)
    BY <1>CanonicalLists
  <2> HIDE DEF c
  <2>3. DOMAIN c = 1 .. n /\ \A k \in 1 .. n : At(q, k, c[k])
    <3>1. c = [k \in 1 .. n |-> c[k]] /\ \A k \in 1 .. n : At(q, k, c[k])
      BY <2>2 DEF Lists
    <3>2. QED
      BY <3>1
  <2>4. \A k \in 1 .. n : c[k] \in Nat /\ ~Tracked(c[k])
    BY <2>3, <1>Counts DEF At, Kept
  <2>5. c \in Queries
    <3>1. c = [k \in 1 .. n |-> c[k]]
      BY <2>2 DEF Lists
    <3>2. c \in [1 .. n -> Nat]
      BY <2>4, <3>1
    <3>3. QED
      BY <2>1, <3>2, SeqIs DEF Queries
  <2>6. Kept(c) = 1 .. n
    BY <2>3, <2>4 DEF Kept
  <2>7. Cardinality(Kept(c)) = n
    <3>1. Cardinality(1 .. n) = n
      BY SMT, <2>1, FS_Interval
    <3>2. QED
      BY <2>6, <3>1
  <2>8. ASSUME NEW j \in 1 .. n, NEW k \in 1 .. n, j <= k PROVE c[j] <= c[k]
    BY <2>1, <2>3, <2>8, <1>AtOrder
  <2>9. ASSUME NEW k \in 1 .. n PROVE At(c, k, c[k])
    <3>1. Below(c, c[k]) \in SUBSET (1 .. k - 1)
      <4>1. ASSUME NEW j \in 1 .. n, c[j] < c[k] PROVE j \in 1 .. k - 1
        <5>1. CASE j < k
          BY SMT, <2>1, <5>1
        <5>2. CASE k <= j
          <6>1. c[k] <= c[j] /\ c[k] \in Nat /\ c[j] \in Nat
            BY <2>4, <2>8, <5>2
          <6>2. QED
            BY SMT, <4>1, <6>1
        <5>3. QED
          BY SMT, <2>1, <5>1, <5>2
      <4>2. QED
        BY <2>6, <4>1 DEF Below
    <3>2. 1 .. k \in SUBSET Through(c, c[k])
      <4>1. \A j \in 1 .. k : j \in 1 .. n /\ j <= k
        BY SMT, <2>1
      <4>2. QED
        BY <2>6, <2>8, <4>1 DEF Through
    <3>3. /\ IsFiniteSet(1 .. k - 1) /\ Cardinality(1 .. k - 1) = k - 1
          /\ Cardinality(1 .. k) = k /\ IsFiniteSet(Through(c, c[k]))
      <4>1. k - 1 \in Int /\ k \in Int /\ 1 \in Int
        BY SMT, <2>1
      <4>2. /\ IsFiniteSet(1 .. k - 1) /\ Cardinality(1 .. k - 1) = IF 1 > k - 1 THEN 0 ELSE k - 1 - 1 + 1
            /\ Cardinality(1 .. k) = IF 1 > k THEN 0 ELSE k - 1 + 1
        BY <4>1, FS_Interval
      <4>3. Cardinality(1 .. k - 1) = k - 1 /\ Cardinality(1 .. k) = k
        BY SMT, <2>1, <4>2
      <4>4. QED
        BY <2>5, <4>2, <4>3, <1>Counts
    <3>4. /\ Cardinality(Below(c, c[k])) <= k - 1 /\ k <= Cardinality(Through(c, c[k]))
      <4>1. Cardinality(Below(c, c[k])) <= Cardinality(1 .. k - 1)
        BY <3>1, <3>3, FS_Subset
      <4>2. Cardinality(1 .. k) <= Cardinality(Through(c, c[k]))
        BY <3>2, <3>3, FS_Subset
      <4>3. QED
        BY <3>3, <4>1, <4>2
    <3>5. Cardinality(Below(c, c[k])) \in Nat
      BY <2>5, <1>Counts
    <3>6. Cardinality(Below(c, c[k])) < k
      BY SMT, <2>1, <3>4, <3>5
    <3>7. QED
      BY <2>6, <3>4, <3>6 DEF At
  <2>10. Lists(CanonicalQuery(c), c)
    BY <2>5, <1>CanonicalLists
  <2>11. CanonicalQuery(c) = c
    BY <2>2, <2>5, <2>7, <2>9, <2>10, <1>ListsOnce
  <2>12. QED
    BY <2>5, <2>11 DEF c

<1>AtMost.
    ASSUME NEW q \in Queries, NEW r \in Queries, NEW f, Embeds(f, q, r)
    PROVE  /\ Cardinality(Kept(q)) <= Cardinality(Kept(r))
           /\ \A v : /\ Cardinality(Below(q, v)) <= Cardinality(Below(r, v))
                     /\ Cardinality(Through(q, v)) <= Cardinality(Through(r, v))
           /\ \A v \in {q[j] : j \in Kept(q)} : v \in {r[j] : j \in Kept(r)}
  <2> USE <1>AtMost
  <2>1. ASSUME NEW S \in SUBSET Kept(q), NEW T \in SUBSET Kept(r), \A j \in S : f[j] \in T
        PROVE  Cardinality(S) <= Cardinality(T)
    <3> DEFINE g == [j \in S |-> f[j]]
    <3>1. g \in [S -> T]
      BY <2>1
    <3>2. \A j, k \in S : g[j] = g[k] => j = k
      BY DEF Embeds
    <3>3. g \in Injection(S, T)
      BY <3>1, <3>2 DEF Injection, IsInjective
    <3>4. IsFiniteSet(T)
      BY <1>Counts
    <3> HIDE DEF g
    <3>5. QED
      BY <3>3, <3>4, FS_Injection
  <2>2. Cardinality(Kept(q)) <= Cardinality(Kept(r))
    BY <2>1 DEF Embeds
  <2>3. ASSUME NEW v PROVE Cardinality(Below(q, v)) <= Cardinality(Below(r, v))
    <3>1. \A j \in Below(q, v) : f[j] \in Below(r, v)
      BY DEF Embeds, Below
    <3>2. QED
      BY <2>1, <3>1, <1>Counts
  <2>4. ASSUME NEW v PROVE Cardinality(Through(q, v)) <= Cardinality(Through(r, v))
    <3>1. \A j \in Through(q, v) : f[j] \in Through(r, v)
      BY DEF Embeds, Through
    <3>2. QED
      BY <2>1, <3>1, <1>Counts
  <2>5. ASSUME NEW v \in {q[j] : j \in Kept(q)} PROVE v \in {r[j] : j \in Kept(r)}
    <3>1. PICK j \in Kept(q) : v = q[j]
      OBVIOUS
    <3>2. f[j] \in Kept(r) /\ r[f[j]] = v
      BY <3>1 DEF Embeds
    <3>3. QED
      BY <3>2
  <2>6. QED
    BY <2>2, <2>3, <2>4, <2>5

\* Two queries that keep the same parameters, in whatever order, are one.
<1>SameQuery.
    ASSUME NEW q \in Queries, NEW r \in Queries, NEW f, NEW g, Embeds(f, q, r), Embeds(g, r, q)
    PROVE  CanonicalQuery(q) = CanonicalQuery(r)
  <2> USE <1>SameQuery
  <2>1. \A a, b \in Nat : a <= b /\ b <= a => a = b
    BY SMT
  <2>2. /\ Cardinality(Kept(q)) = Cardinality(Kept(r))
        /\ \A v : /\ Cardinality(Below(q, v)) = Cardinality(Below(r, v))
                  /\ Cardinality(Through(q, v)) = Cardinality(Through(r, v))
        /\ \A v \in {r[j] : j \in Kept(r)} : v \in {q[j] : j \in Kept(q)}
    <3>1. /\ Cardinality(Kept(q)) \in Nat /\ Cardinality(Kept(r)) \in Nat
          /\ \A v : /\ Cardinality(Below(q, v)) \in Nat /\ Cardinality(Below(r, v)) \in Nat
                    /\ Cardinality(Through(q, v)) \in Nat /\ Cardinality(Through(r, v)) \in Nat
      BY <1>Counts
    <3>2. /\ Cardinality(Kept(q)) <= Cardinality(Kept(r)) /\ Cardinality(Kept(r)) <= Cardinality(Kept(q))
          /\ \A v : /\ Cardinality(Below(q, v)) <= Cardinality(Below(r, v))
                    /\ Cardinality(Through(q, v)) <= Cardinality(Through(r, v))
                    /\ Cardinality(Below(r, v)) <= Cardinality(Below(q, v))
                    /\ Cardinality(Through(r, v)) <= Cardinality(Through(q, v))
      BY <1>AtMost
    <3>3. \A v \in {r[j] : j \in Kept(r)} : v \in {q[j] : j \in Kept(q)}
      BY <1>AtMost
    <3>4. QED
      BY <2>1, <3>1, <3>2, <3>3
  <2>3. \A k, v : At(r, k, v) => At(q, k, v)
    BY <2>2 DEF At
  <2>4. Lists(CanonicalQuery(q), q) /\ Lists(CanonicalQuery(r), r)
    BY <1>CanonicalLists
  <2>5. \A k \in 1 .. Cardinality(Kept(q)) : At(q, k, CanonicalQuery(r)[k])
    BY <2>2, <2>3, <2>4 DEF Lists
  <2>6. QED
    BY <2>2, <2>4, <2>5, <1>ListsOnce

<1>ReversedQuery.
    ASSUME NEW q \in Queries
    PROVE  Reverse(q) \in Queries /\ CanonicalQuery(Reverse(q)) = CanonicalQuery(q)
  <2> DEFINE r == Reverse(q)
             n == Len(q)
             Other(j) == (n - j) + 1
  <2>1. n \in Nat /\ DOMAIN q = 1 .. n /\ \A j \in 1 .. n : q[j] \in Nat
    BY <1>Counts
  <2>2. \A j \in 1 .. n : Other(j) \in 1 .. n /\ Other(Other(j)) = j
    BY SMT, <2>1
  <2>3. r = [j \in 1 .. n |-> q[Other(j)]]
    BY DEF Reverse
  <2> HIDE DEF Other, r
  <2>4. r \in [1 .. n -> Nat]
    BY <2>1, <2>2, <2>3
  <2>5. r \in Queries /\ DOMAIN r = 1 .. n /\ \A j \in 1 .. n : r[j] = q[Other(j)] /\ r[Other(j)] = q[j]
    <3>1. DOMAIN r = 1 .. n /\ \A j \in 1 .. n : r[j] = q[Other(j)]
      BY <2>3
    <3>2. r \in Queries
      BY <2>1, <2>4, SeqIs DEF Queries
    <3>3. \A j \in 1 .. n : r[Other(j)] = q[j]
      BY <2>2, <3>1
    <3>4. QED
      BY <3>1, <3>2, <3>3
  <2> DEFINE f == [j \in Kept(q) |-> Other(j)]
             g == [j \in Kept(r) |-> Other(j)]
  <2>6. Embeds(f, q, r)
    <3>1. \A j \in Kept(q) : j \in 1 .. n /\ Other(j) \in Kept(r) /\ r[Other(j)] = q[j]
      BY <2>1, <2>2, <2>5 DEF Kept
    <3>2. QED
      BY <2>2, <3>1 DEF Embeds
  <2>7. Embeds(g, r, q)
    <3>1. \A j \in Kept(r) : j \in 1 .. n /\ Other(j) \in Kept(q) /\ q[Other(j)] = r[j]
      BY <2>1, <2>2, <2>5 DEF Kept
    <3>2. QED
      BY <2>2, <3>1 DEF Embeds
  <2> HIDE DEF f, g
  <2>8. CanonicalQuery(q) = CanonicalQuery(r)
    BY <2>5, <2>6, <2>7, <1>SameQuery
  <2>9. QED
    BY <2>5, <2>8 DEF r

<1>TrackedQuery.
    ASSUME NEW q \in Queries, NEW m \in Tracking
    PROVE  <<m>> \o q \in Queries /\ CanonicalQuery(<<m>> \o q) = CanonicalQuery(q)
  <2> DEFINE r == <<m>> \o q
             n == Len(q)
  <2>1. n \in Nat /\ DOMAIN q = 1 .. n /\ \A j \in 1 .. n : q[j] \in Nat
    BY <1>Counts
  <2>2. m \in Nat /\ Tracked(m)
    BY TrackingAssumption DEF Tracked
  <2>3. r \in Queries /\ DOMAIN r = 1 .. n + 1 /\ r[1] = m /\ \A j \in 1 .. n : r[j + 1] = q[j]
    BY SMT, <2>1, <2>2 DEF Queries
  <2> HIDE DEF r
  <2> DEFINE f == [j \in Kept(q) |-> j + 1]
             g == [j \in Kept(r) |-> j - 1]
  <2>4. \A j \in 1 .. n : j + 1 \in 1 .. n + 1 /\ (j + 1) - 1 = j
    BY SMT, <2>1
  <2>5. \A j \in 1 .. n + 1 : j # 1 => j - 1 \in 1 .. n /\ (j - 1) + 1 = j
    BY SMT, <2>1
  <2>6. Embeds(f, q, r)
    <3>1. \A j \in Kept(q) : j + 1 \in Kept(r) /\ r[j + 1] = q[j] /\ (j + 1) - 1 = j
      BY <2>1, <2>3, <2>4 DEF Kept
    <3>2. QED
      BY <3>1 DEF Embeds
  <2>7. Embeds(g, r, q)
    <3>1. \A j \in Kept(r) : j - 1 \in Kept(q) /\ q[j - 1] = r[j] /\ (j - 1) + 1 = j
      <4>1. \A j \in Kept(r) : j \in 1 .. n + 1 /\ ~Tracked(r[j])
        BY <2>3 DEF Kept
      <4>2. \A j \in Kept(r) : j # 1
        BY <2>2, <2>3, <4>1
      <4>3. \A j \in Kept(r) : j - 1 \in 1 .. n /\ (j - 1) + 1 = j /\ ~Tracked(r[j])
        BY <2>5, <4>1, <4>2
      <4>4. \A i \in 1 .. n : ~Tracked(r[i + 1]) => i \in Kept(q)
        BY <2>1, <2>3 DEF Kept
      <4>5. QED
        BY <2>3, <4>3, <4>4
    <3>2. QED
      BY <3>1 DEF Embeds
  <2> HIDE DEF f, g
  <2>8. CanonicalQuery(q) = CanonicalQuery(r)
    BY <2>3, <2>6, <2>7, <1>SameQuery
  <2>9. QED
    BY <2>3, <2>8 DEF r

<1> QED
  BY <1>QueryIsFixed, <1>ReversedQuery, <1>TrackedQuery

-----------------------------------------------------------------------------
(* Keep                                                                    *)

\* What holds at first and goes from each round of a loop to the next holds
\* after each of them.
LEMMA EachRound ==
  ASSUME NEW n \in Nat, NEW G, 0 \in G, \A i \in 1 .. n : i - 1 \in G => i \in G
  PROVE  \A i \in 0 .. n : i \in G
<1> SUFFICES ASSUME NEW i \in 0 .. n PROVE i \in G
  OBVIOUS
<1>1. i \in Nat /\ \A k \in 1 .. i : k \in 1 .. n
  BY SMT
<1>2. \A k \in 1 .. i : k - 1 \in G => k \in G
  BY <1>1
<1>3. QED
  BY <1>1, <1>2, Rounds

\* What Keep has after each of its rounds.
IsKeep(s, K, f) ==
  f = [i \in 0 .. Len(s) |-> IF i = 0 THEN <<>> ELSE IF i \in K THEN Append(f[i - 1], s[i]) ELSE f[i - 1]]
Keeps(s, K, F) ==
  /\ F[0] = <<>> /\ F[Len(s)] = Keep(s, K)
  /\ \A i \in 1 .. Len(s) : F[i] = IF i \in K THEN Append(F[i - 1], s[i]) ELSE F[i - 1]

LEMMA KeepRounds ==
  ASSUME NEW S, NEW s \in Seq(S), NEW K
  PROVE  \E F \in [0 .. Len(s) -> Seq(S)] : Keeps(s, K, F)
<1> DEFINE n == Len(s)
           step == [p \in (1 .. n) \X Seq(S) |-> IF p[1] \in K THEN Append(p[2], s[p[1]]) ELSE p[2]]
           F == CHOOSE f : IsKeep(s, K, f)
<1>1. /\ n \in Nat /\ 0 \in 0 .. n /\ <<>> \in Seq(S)
      /\ \A i \in 1 .. n : i \in 0 .. n /\ i - 1 \in 0 .. n /\ i # 0
      /\ \A i \in 0 .. n : i # 0 => i \in 1 .. n
  BY SMT
<1>2. \A i \in 1 .. n : \A q \in Seq(S) : Append(q, s[i]) \in Seq(S)
  BY SMT
<1>3. step \in [(1 .. n) \X Seq(S) -> Seq(S)]
  BY <1>2
<1>4. \A i \in 1 .. n : \A q \in Seq(S) : step[<<i, q>>] = IF i \in K THEN Append(q, s[i]) ELSE q
  OBVIOUS
<1> HIDE DEF step
<1>5. PICK E \in [0 .. n -> Seq(S)] : Runs(E, n, <<>>, step)
  BY <1>1, <1>3, LoopExists
<1>6. ASSUME NEW i \in 0 .. n
      PROVE  E[i] = IF i = 0 THEN <<>> ELSE IF i \in K THEN Append(E[i - 1], s[i]) ELSE E[i - 1]
  <2>1. E[i] = IF i = 0 THEN <<>> ELSE step[<<i, E[i - 1]>>]
    BY <1>5 DEF Runs
  <2>2. i # 0 => i \in 1 .. n /\ E[i - 1] \in Seq(S)
    BY <1>1, <1>5
  <2>3. QED
    BY <1>4, <2>1, <2>2
<1>7. IsKeep(s, K, F)
  <2>1. IsKeep(s, K, E)
    BY <1>5, <1>6 DEF IsKeep
  <2>2. QED
    BY <2>1
<1>8. Keep(s, K) = F[n]
  BY DEF Keep, IsKeep
<1> HIDE DEF F
<1>9. /\ F = [i \in 0 .. n |-> F[i]]
      /\ \A i \in 0 .. n : F[i] = IF i = 0 THEN <<>> ELSE IF i \in K THEN Append(F[i - 1], s[i]) ELSE F[i - 1]
  BY <1>7 DEF IsKeep
<1>10. Keeps(s, K, F)
  BY <1>1, <1>8, <1>9 DEF Keeps
<1>11. \A i \in 0 .. n : F[i] \in Seq(S)
  <2> DEFINE G == {i \in 0 .. n : F[i] \in Seq(S)}
  <2>1. 0 \in G /\ \A i \in 1 .. n : i - 1 \in G => i \in G
    BY <1>1, <1>2, <1>10 DEF Keeps
  <2> HIDE DEF G
  <2>2. \A i \in 0 .. n : i \in G
    BY <1>1, <2>1, EachRound
  <2>3. QED
    BY <2>2 DEF G
<1>12. F \in [0 .. n -> Seq(S)]
  BY <1>9, <1>11
<1>13. QED
  BY <1>10, <1>12

\* What is kept is of the sequence's type, and is the sequence when all is kept.
LEMMA KeepIs ==
  ASSUME NEW S, NEW s \in Seq(S), NEW K
  PROVE  /\ Keep(s, K) \in Seq(S)
         /\ Len(s) \in K /\ s # <<>> => Keep(s, K) # <<>>
         /\ (\A i \in 1 .. Len(s) : i \in K) => Keep(s, K) = s
<1> DEFINE n == Len(s)
<1>1. PICK F \in [0 .. n -> Seq(S)] : Keeps(s, K, F)
  BY KeepRounds
<1>2. n \in Nat /\ n \in 0 .. n /\ (s # <<>> => n \in 1 .. n /\ n - 1 \in 0 .. n)
  BY SMT
<1>3. Keep(s, K) = F[n] /\ F[n] \in Seq(S)
  BY <1>1, <1>2 DEF Keeps
<1>4. ASSUME n \in K, s # <<>> PROVE Keep(s, K) # <<>>
  <2>1. F[n] = Append(F[n - 1], s[n]) /\ F[n - 1] \in Seq(S)
    BY <1>1, <1>2, <1>4 DEF Keeps
  <2>2. F[n] # <<>>
    BY SMT, <1>2, <1>4, <2>1
  <2>3. QED
    BY <1>3, <2>2
<1>5. ASSUME \A i \in 1 .. n : i \in K PROVE Keep(s, K) = s
  <2> DEFINE Good(i) == Len(F[i]) = i /\ \A k \in 1 .. i : F[i][k] = s[k]
             G == {i \in 0 .. n : Good(i)}
  <2>1. F[0] = <<>> /\ \A i \in 1 .. n : F[i] = Append(F[i - 1], s[i])
    BY <1>1, <1>5 DEF Keeps
  <2>2. Good(0)
    <3>1. Len(<<>>) = 0 /\ \A k \in 1 .. 0 : FALSE
      BY SMT
    <3>2. QED
      BY <2>1, <3>1
  <2>3. ASSUME NEW i \in 1 .. n, Good(i - 1) PROVE Good(i)
    <3> DEFINE f == F[i - 1]
    <3>1. i - 1 \in 0 .. n /\ i \in Nat /\ s[i] \in S
      BY SMT, <1>2
    <3>2. f \in Seq(S) /\ F[i] = Append(f, s[i]) /\ Len(f) = i - 1 /\ \A k \in 1 .. i - 1 : f[k] = s[k]
      BY <1>1, <2>1, <2>3, <3>1
    <3> HIDE DEF f
    <3>3. Len(Append(f, s[i])) = i /\ \A k \in 1 .. i : Append(f, s[i])[k] = s[k]
      BY SMT, <3>1, <3>2
    <3>4. QED
      BY <3>2, <3>3
  <2>4. 0 \in G /\ \A i \in 1 .. n : i - 1 \in G => i \in G
    <3> HIDE DEF Good
    <3>1. 0 \in 0 .. n /\ \A i \in 1 .. n : i \in 0 .. n
      BY SMT, <1>2
    <3>2. QED
      BY <2>2, <2>3, <3>1
  <2>5. Good(n)
    <3> HIDE DEF G
    <3>1. n \in G
      BY <1>2, <2>4, Rounds
    <3>2. QED
      BY <3>1 DEF G
  <2>6. F[n] = s
    BY SMT, <1>2, <1>3, <2>5
  <2>7. QED
    BY <1>3, <2>6
<1>6. QED
  BY <1>3, <1>4, <1>5

\* A last element is kept or not, whatever was kept before it.
LEMMA KeepAppend ==
  ASSUME NEW S, NEW s \in Seq(S), NEW x \in S, NEW K, NEW L, \A i \in 1 .. Len(s) : i \in K <=> i \in L
  PROVE  Keep(Append(s, x), L) = IF Len(s) + 1 \in L THEN Append(Keep(s, K), x) ELSE Keep(s, K)
<1> DEFINE n == Len(s)
           t == Append(s, x)
<1>1. n \in Nat /\ t \in Seq(S) /\ Len(t) = n + 1 /\ t[n + 1] = x /\ \A i \in 1 .. n : t[i] = s[i]
  BY SMT
<1> HIDE DEF t
<1>2. PICK F : Keeps(s, K, F)
  BY KeepRounds
<1>3. PICK E : Keeps(t, L, E)
  BY <1>1, KeepRounds
<1>4. \A i \in 1 .. n : i \in 1 .. n + 1
  BY SMT, <1>1
<1>5. n + 1 \in 1 .. n + 1 /\ (n + 1) - 1 = n
  BY SMT, <1>1
<1>6. E[n] = F[n]
  <2> DEFINE G == {i \in 0 .. n : E[i] = F[i]}
  <2>1. \A i \in 1 .. n : i \in 0 .. n
    BY SMT, <1>1
  <2>2. 0 \in 0 .. n
    BY SMT, <1>1
  <2>3. 0 \in G /\ \A i \in 1 .. n : i - 1 \in G => i \in G
    BY <1>1, <1>2, <1>3, <1>4, <2>1, <2>2 DEF Keeps
  <2> HIDE DEF G
  <2>4. n \in G
    BY <1>1, <2>3, Rounds
  <2>5. QED
    BY <2>4 DEF G
<1>7. Keep(t, L) = E[n + 1] /\ Keep(s, K) = F[n]
  BY <1>1, <1>2, <1>3 DEF Keeps
<1>8. E[n + 1] = IF n + 1 \in L THEN Append(E[n], x) ELSE E[n]
  BY <1>1, <1>3, <1>5 DEF Keeps
<1>9. QED
  BY <1>6, <1>7, <1>8 DEF t

\* An element that is put in between and not kept makes no difference.
LEMMA KeepInsert ==
  ASSUME NEW S, NEW s \in Seq(S), NEW t \in Seq(S), NEW j \in 1 .. Len(s), NEW K, NEW L,
         Len(t) = Len(s) + 1,
         \A i \in 1 .. j - 1 : t[i] = s[i] /\ (i \in L <=> i \in K),
         \A i \in j .. Len(s) : t[i + 1] = s[i] /\ (i + 1 \in L <=> i \in K),
         j \notin L
  PROVE  Keep(t, L) = Keep(s, K)
<1> DEFINE n == Len(s)
<1>1. n \in Nat
  BY SMT
<1>2. PICK F : Keeps(s, K, F)
  BY KeepRounds
<1>3. PICK E : Keeps(t, L, E)
  BY KeepRounds
<1>4. E[0] = <<>> /\ F[0] = <<>> /\ Keep(t, L) = E[n + 1] /\ Keep(s, K) = F[n]
  BY <1>2, <1>3 DEF Keeps
<1>5. /\ \A i \in 1 .. n : F[i] = IF i \in K THEN Append(F[i - 1], s[i]) ELSE F[i - 1]
      /\ \A i \in 1 .. n + 1 : E[i] = IF i \in L THEN Append(E[i - 1], t[i]) ELSE E[i - 1]
  BY <1>2, <1>3 DEF Keeps
<1> DEFINE Good(i) == (i < j => E[i] = F[i]) /\ (i >= j - 1 => E[i + 1] = F[i])
           G == {i \in 0 .. n : Good(i)}
<1>6. \A i \in 0 .. n : i = j - 1 => E[i + 1] = E[i]
  BY SMT, <1>1, <1>5
<1>7. Good(0)
  BY SMT, <1>1, <1>4, <1>6
<1>8. ASSUME NEW i \in 1 .. n, Good(i - 1) PROVE Good(i)
  <2>1. CASE i < j
    <3>1. i \in 1 .. j - 1 /\ i \in 1 .. n + 1 /\ i \in 0 .. n /\ i - 1 < j
      BY SMT, <1>1, <2>1
    <3>2. E[i - 1] = F[i - 1] /\ t[i] = s[i] /\ (i \in L <=> i \in K)
      BY <1>8, <3>1
    <3>3. E[i] = F[i]
      BY <1>5, <3>1, <3>2
    <3>4. i >= j - 1 => i = j - 1
      BY SMT, <1>1, <2>1
    <3>5. QED
      BY <1>6, <3>1, <3>3, <3>4
  <2>2. CASE i >= j
    <3>1. i \in j .. n /\ i + 1 \in 1 .. n + 1 /\ (i + 1) - 1 = i /\ (i - 1) + 1 = i /\ i - 1 >= j - 1 /\ ~(i < j)
      BY SMT, <1>1, <2>2
    <3>2. E[i] = F[i - 1] /\ t[i + 1] = s[i] /\ (i + 1 \in L <=> i \in K)
      BY <1>8, <3>1
    <3>3. E[i + 1] = IF i + 1 \in L THEN Append(E[i], t[i + 1]) ELSE E[i]
      <4>1. E[i + 1] = IF i + 1 \in L THEN Append(E[(i + 1) - 1], t[i + 1]) ELSE E[(i + 1) - 1]
        BY <1>5, <3>1
      <4>2. QED
        BY <3>1, <4>1
    <3>4. E[i + 1] = F[i]
      BY <1>5, <3>2, <3>3
    <3>5. QED
      BY <3>1, <3>4
  <2>3. QED
    BY SMT, <1>1, <2>1, <2>2
<1>9. 0 \in G /\ \A i \in 1 .. n : i - 1 \in G => i \in G
  <2> HIDE DEF Good
  <2>1. \A i \in 1 .. n : i \in 0 .. n
    BY SMT, <1>1
  <2>2. 0 \in 0 .. n
    BY SMT, <1>1
  <2>3. QED
    BY <1>7, <1>8, <2>1, <2>2
<1>10. Good(n)
  <2> HIDE DEF G
  <2>1. n \in G
    BY <1>1, <1>9, Rounds
  <2>2. QED
    BY <2>1 DEF G
<1>11. n >= j - 1
  BY SMT, <1>1
<1>12. QED
  BY <1>4, <1>10, <1>11

-----------------------------------------------------------------------------
(* Segment by segment                                                      *)

Map(m, s) == [i \in DOMAIN s |-> m[s[i]]]
Maps(m, S, T) == \A x \in S : m[x] \in T

\* A map goes along with what sequences are made of.
LEMMA MapIs ==
  ASSUME NEW S, NEW T, NEW m, Maps(m, S, T), NEW s \in Seq(S)
  PROVE  /\ Map(m, s) \in Seq(T)
         /\ Len(Map(m, s)) = Len(s)
         /\ \A i \in 1 .. Len(s) : Map(m, s)[i] = m[s[i]]
BY SMT DEF Map, Maps

LEMMA MapEmpty == \A m : Map(m, <<>>) = <<>>
BY SMT DEF Map

LEMMA MapAppend ==
  ASSUME NEW S, NEW T, NEW m, Maps(m, S, T), NEW s \in Seq(S), NEW x \in S
  PROVE  Map(m, Append(s, x)) = Append(Map(m, s), m[x])
BY SMT DEF Map, Maps

LEMMA MapFront ==
  ASSUME NEW S, NEW T, NEW m, Maps(m, S, T), NEW s \in Seq(S)
  PROVE  Map(m, SubSeq(s, 1, Len(s) - 1)) = SubSeq(Map(m, s), 1, Len(s) - 1)
BY SMT DEF Map, Maps

\* Keeping and mapping go in either order.
LEMMA KeepMap ==
  ASSUME NEW S, NEW T, NEW m, Maps(m, S, T), NEW s \in Seq(S), NEW K
  PROVE  Keep(Map(m, s), K) = Map(m, Keep(s, K))
<1> DEFINE n == Len(s)
           t == Map(m, s)
<1>1. n \in Nat /\ t \in Seq(T) /\ Len(t) = n /\ \A i \in 1 .. n : t[i] = m[s[i]] /\ s[i] \in S
  <2>1. n \in Nat /\ \A i \in 1 .. n : s[i] \in S
    BY SMT
  <2>2. QED
    BY SMT, <2>1, MapIs
<1> HIDE DEF t
<1>2. PICK F \in [0 .. n -> Seq(S)] : Keeps(s, K, F)
  BY KeepRounds
<1>3. PICK E : Keeps(t, K, E)
  BY <1>1, KeepRounds
<1> DEFINE G == {i \in 0 .. n : E[i] = Map(m, F[i])}
<1>4. /\ \A i \in 1 .. n : i \in 0 .. n /\ i - 1 \in 0 .. n
      /\ 0 \in 0 .. n
  BY SMT, <1>1
<1>5. 0 \in G
  BY <1>2, <1>3, <1>4, MapEmpty DEF Keeps
<1>6. ASSUME NEW i \in 1 .. n, i - 1 \in G PROVE i \in G
  <2>1. F[i - 1] \in Seq(S) /\ E[i - 1] = Map(m, F[i - 1])
    BY <1>2, <1>4, <1>6
  <2>2. F[i] = IF i \in K THEN Append(F[i - 1], s[i]) ELSE F[i - 1]
    BY <1>2 DEF Keeps
  <2>3. E[i] = IF i \in K THEN Append(E[i - 1], m[s[i]]) ELSE E[i - 1]
    BY <1>1, <1>3 DEF Keeps
  <2>4. Map(m, Append(F[i - 1], s[i])) = Append(Map(m, F[i - 1]), m[s[i]])
    BY SMT, <1>1, <2>1, MapAppend
  <2>5. QED
    BY <1>4, <2>1, <2>2, <2>3, <2>4
<1> HIDE DEF G
<1>7. n \in G
  BY <1>1, <1>5, <1>6, Rounds
<1>8. QED
  BY <1>1, <1>2, <1>3, <1>7 DEF G, Keeps, t

-----------------------------------------------------------------------------
(* Dot segments                                                            *)

Dotted(s) == Dot(s) \/ DotDot(s)
Undotted(S) == {s \in S : ~Dotted(s)}

\* What RemoveDots makes of its stack at a segment, and what it has after each.
DotStep(q, s) ==
  IF Dot(s) THEN q ELSE IF DotDot(s) THEN SubSeq(q, 1, Len(q) - 1) ELSE Append(q, s)
IsStack(p, f) == f = [i \in 0 .. Len(p) |-> IF i = 0 THEN <<>> ELSE DotStep(f[i - 1], p[i])]
Stacks(p, F) ==
  /\ F[0] = <<>>
  /\ \A i \in 1 .. Len(p) : F[i] = DotStep(F[i - 1], p[i])
  /\ RemoveDots(p) = F[Len(p)] \o (IF Dotted(p[Len(p)]) THEN <<EmptySegment>> ELSE <<>>)

\* A step keeps the stack free of dot segments, and puts any other on it.
LEMMA DotStepAppends == \A q, s : ~Dotted(s) => DotStep(q, s) = Append(q, s)
BY DEF DotStep, Dotted

LEMMA DotStepIs ==
  ASSUME NEW S, NEW q \in Seq(Undotted(S)), NEW s \in S
  PROVE  DotStep(q, s) \in Seq(Undotted(S))
<1>1. SubSeq(q, 1, Len(q) - 1) \in Seq(Undotted(S))
  BY SMT
<1>2. \A x \in Undotted(S) : Append(q, x) \in Seq(Undotted(S))
  BY SMT
<1>3. QED
  BY <1>1, <1>2 DEF DotStep, Dotted, Undotted

LEMMA StackRounds ==
  ASSUME NEW S, NEW p \in Seq(S)
  PROVE  \E F \in [0 .. Len(p) -> Seq(Undotted(S))] : Stacks(p, F)
<1> DEFINE n == Len(p)
           T == Seq(Undotted(S))
           step == [x \in (1 .. n) \X T |-> DotStep(x[2], p[x[1]])]
           F == CHOOSE f : IsStack(p, f)
<1>1. /\ n \in Nat /\ 0 \in 0 .. n /\ <<>> \in T
      /\ \A i \in 1 .. n : i \in 0 .. n /\ i - 1 \in 0 .. n /\ i # 0
      /\ \A i \in 0 .. n : i # 0 => i \in 1 .. n
  BY SMT
<1>2. \A i \in 1 .. n : \A q \in T : DotStep(q, p[i]) \in T
  <2>1. \A i \in 1 .. n : p[i] \in S
    BY SMT
  <2>2. QED
    BY <2>1, DotStepIs
<1>3. step \in [(1 .. n) \X T -> T]
  BY <1>2
<1>4. \A i \in 1 .. n : \A q \in T : step[<<i, q>>] = DotStep(q, p[i])
  OBVIOUS
<1> HIDE DEF step, T
<1>5. PICK E \in [0 .. n -> T] : Runs(E, n, <<>>, step)
  BY <1>1, <1>3, LoopExists
<1>6. ASSUME NEW i \in 0 .. n
      PROVE  E[i] = IF i = 0 THEN <<>> ELSE DotStep(E[i - 1], p[i])
  <2>1. E[i] = IF i = 0 THEN <<>> ELSE step[<<i, E[i - 1]>>]
    BY <1>5 DEF Runs
  <2>2. i # 0 => i \in 1 .. n /\ E[i - 1] \in T
    BY <1>1, <1>5
  <2>3. QED
    BY <1>4, <2>1, <2>2
<1>7. IsStack(p, F)
  <2>1. IsStack(p, E)
    BY <1>5, <1>6 DEF IsStack
  <2>2. QED
    BY <2>1
<1>8. RemoveDots(p) = F[n] \o (IF Dotted(p[n]) THEN <<EmptySegment>> ELSE <<>>)
  BY DEF RemoveDots, IsStack, DotStep, Dotted
<1> HIDE DEF F
<1>9. /\ F = [i \in 0 .. n |-> F[i]]
      /\ \A i \in 0 .. n : F[i] = IF i = 0 THEN <<>> ELSE DotStep(F[i - 1], p[i])
  BY <1>7 DEF IsStack
<1>10. Stacks(p, F)
  BY <1>1, <1>8, <1>9 DEF Stacks
<1>11. \A i \in 0 .. n : F[i] \in T
  <2> DEFINE G == {i \in 0 .. n : F[i] \in T}
  <2>1. 0 \in G /\ \A i \in 1 .. n : i - 1 \in G => i \in G
    BY <1>1, <1>2, <1>10 DEF Stacks
  <2> HIDE DEF G
  <2>2. \A i \in 0 .. n : i \in G
    BY <1>1, <2>1, EachRound
  <2>3. QED
    BY <2>2 DEF G
<1>12. F \in [0 .. n -> T]
  BY <1>9, <1>11
<1>13. QED
  BY <1>10, <1>12 DEF T

\* The empty segment is a segment, and no dot segment.
LEMMA EmptyIs ==
  /\ EmptySegment \in Segments /\ ~Dotted(EmptySegment) /\ Empty(EmptySegment) /\ ~Colon(EmptySegment)
  /\ EmptySegment.escapes = 0 /\ EmptySegment.quote = "none" /\ EmptySegment.name = ""
<1>1. EmptySegment.escapes = 0 /\ EmptySegment.quote = "none" /\ EmptySegment.name = ""
  BY DEF EmptySegment
<1>2. EmptySegment \in [name : Names, escapes : Nat, quote : {"none", "raw", "encoded"}]
  <2>1. "" \in Names
    BY NameAssumption
  <2>2. 0 \in Nat
    BY SMT
  <2>3. QED
    BY <2>1, <2>2 DEF EmptySegment
<1>3. QED
  BY <1>1, <1>2, NameAssumption DEF Segments, Dotted, Dot, DotDot, Empty, Colon

\* RemoveDots leaves no dot segment, and at least one other.
LEMMA DotsAreRemoved ==
  ASSUME NEW S, EmptySegment \in S, NEW p \in Seq(S), p # <<>>
  PROVE  RemoveDots(p) \in Seq(Undotted(S)) /\ RemoveDots(p) # <<>>
<1> DEFINE n == Len(p)
           T == Undotted(S)
<1>1. n \in 1 .. n /\ n \in 0 .. n /\ n - 1 \in 0 .. n /\ p[n] \in S
  BY SMT
<1>2. PICK F \in [0 .. n -> Seq(T)] : Stacks(p, F)
  BY StackRounds
<1>3. F[n] \in Seq(T) /\ F[n - 1] \in Seq(T) /\ EmptySegment \in T
  BY <1>1, <1>2, EmptyIs DEF Undotted
<1>4. CASE Dotted(p[n])
  <2>1. RemoveDots(p) = F[n] \o <<EmptySegment>>
    BY <1>2, <1>4 DEF Stacks
  <2> HIDE DEF T
  <2>2. F[n] \o <<EmptySegment>> \in Seq(T) /\ F[n] \o <<EmptySegment>> # <<>>
    BY SMT, <1>3
  <2>3. QED
    BY <2>1, <2>2 DEF T
<1>5. CASE ~Dotted(p[n])
  <2>1. RemoveDots(p) = F[n] \o <<>>
    BY <1>2, <1>5 DEF Stacks
  <2>2. F[n] = Append(F[n - 1], p[n])
    BY <1>1, <1>2, <1>5, DotStepAppends DEF Stacks
  <2> HIDE DEF T
  <2>3. F[n] # <<>> /\ F[n] \o <<>> = F[n]
    BY SMT, <1>1, <1>3, <2>2
  <2>4. QED
    BY <1>3, <2>1, <2>3 DEF T
<1>6. QED
  BY <1>4, <1>5

\* A path without dot segments is left alone.
LEMMA DotsLeaveAlone ==
  ASSUME NEW S, NEW p \in Seq(S), p # <<>>, \A i \in 1 .. Len(p) : ~Dotted(p[i])
  PROVE  RemoveDots(p) = p
<1> DEFINE n == Len(p)
<1>1. n \in Nat /\ n \in 1 .. n /\ n \in 0 .. n
  BY SMT
<1>2. PICK F \in [0 .. n -> Seq(Undotted(S))] : Stacks(p, F)
  BY StackRounds
<1>3. ASSUME NEW i \in 1 .. n PROVE F[i] = Append(F[i - 1], p[i])
  BY <1>2, DotStepAppends DEF Stacks
<1>4. F[n] = Keep(p, 1 .. n)
  <2>1. PICK E : Keeps(p, 1 .. n, E)
    BY KeepRounds
  <2> DEFINE G == {i \in 0 .. n : E[i] = F[i]}
  <2>2. 0 \in 0 .. n /\ \A i \in 1 .. n : i \in 0 .. n
    BY SMT, <1>1
  <2>3. 0 \in G /\ \A i \in 1 .. n : i - 1 \in G => i \in G
    BY <1>2, <1>3, <2>1, <2>2 DEF Keeps, Stacks
  <2> HIDE DEF G
  <2>4. n \in G
    BY <1>1, <2>3, Rounds
  <2>5. QED
    BY <2>1, <2>4 DEF G, Keeps
<1>5. F[n] = p
  BY <1>4, KeepIs
<1>6. RemoveDots(p) = F[n] \o <<>>
  BY <1>1, <1>2 DEF Stacks
<1>7. p \o <<>> = p
  BY SMT
<1>8. QED
  BY <1>5, <1>6, <1>7

\* Removing dot segments and mapping go in either order, if the map leaves dot
\* segments as they are.
LEMMA DotsMap ==
  ASSUME NEW S, NEW T, NEW m, Maps(m, S, T), EmptySegment \in S, m[EmptySegment] = EmptySegment,
         \A s \in S : (Dot(m[s]) <=> Dot(s)) /\ (DotDot(m[s]) <=> DotDot(s)),
         NEW p \in Seq(S), p # <<>>
  PROVE  RemoveDots(Map(m, p)) = Map(m, RemoveDots(p))
<1> DEFINE n == Len(p)
           t == Map(m, p)
<1>1. /\ n \in Nat /\ 0 \in 0 .. n /\ n \in 1 .. n /\ n \in 0 .. n
      /\ \A i \in 1 .. n : i \in 0 .. n /\ i - 1 \in 0 .. n /\ p[i] \in S
  BY SMT
<1>2. t \in Seq(T) /\ Len(t) = n /\ \A i \in 1 .. n : t[i] = m[p[i]]
  BY SMT, MapIs
<1> HIDE DEF t
<1>3. PICK F \in [0 .. n -> Seq(Undotted(S))] : Stacks(p, F)
  BY StackRounds
<1>4. \A i \in 0 .. n : F[i] \in Seq(S)
  <2>1. Seq(Undotted(S)) \subseteq Seq(S)
    BY SMT DEF Undotted
  <2>2. QED
    BY <1>3, <2>1
<1>5. PICK E : Stacks(t, E)
  BY <1>2, StackRounds
<1>6. ASSUME NEW q \in Seq(S), NEW s \in S PROVE DotStep(Map(m, q), m[s]) = Map(m, DotStep(q, s))
  <2>1. Map(m, Append(q, s)) = Append(Map(m, q), m[s])
    BY SMT, MapAppend
  <2>2. Map(m, SubSeq(q, 1, Len(q) - 1)) = SubSeq(Map(m, q), 1, Len(q) - 1) /\ Len(Map(m, q)) = Len(q)
    BY SMT, MapFront, MapIs
  <2>3. QED
    BY <2>1, <2>2 DEF DotStep
<1> DEFINE G == {i \in 0 .. n : E[i] = Map(m, F[i])}
<1>7. 0 \in G
  BY <1>1, <1>3, <1>5, MapEmpty DEF Stacks
<1>8. ASSUME NEW i \in 1 .. n, i - 1 \in G PROVE i \in G
  <2>1. F[i - 1] \in Seq(S) /\ E[i - 1] = Map(m, F[i - 1])
    BY <1>1, <1>4, <1>8
  <2>2. F[i] = DotStep(F[i - 1], p[i]) /\ E[i] = DotStep(E[i - 1], m[p[i]])
    BY <1>2, <1>3, <1>5 DEF Stacks
  <2>3. QED
    BY <1>1, <1>6, <2>1, <2>2
<1> HIDE DEF G
<1>9. E[n] = Map(m, F[n])
  <2>1. n \in G
    BY <1>1, <1>7, <1>8, Rounds
  <2>2. QED
    BY <2>1 DEF G
<1>10. Dotted(t[n]) <=> Dotted(p[n])
  BY <1>1, <1>2 DEF Dotted
<1>11. CASE Dotted(p[n])
  <2>1. RemoveDots(p) = F[n] \o <<EmptySegment>> /\ RemoveDots(t) = E[n] \o <<EmptySegment>>
    BY <1>2, <1>3, <1>5, <1>10, <1>11 DEF Stacks
  <2>2. Map(m, F[n]) \in Seq(T) /\ EmptySegment \in T
    <3>1. Map(m, F[n]) \in Seq(T)
      BY <1>1, <1>4, MapIs
    <3>2. m[EmptySegment] \in T
      BY DEF Maps
    <3>3. QED
      BY <3>1, <3>2
  <2>3. F[n] \o <<EmptySegment>> = Append(F[n], EmptySegment)
    BY SMT, <1>1, <1>4
  <2>4. Map(m, F[n]) \o <<EmptySegment>> = Append(Map(m, F[n]), EmptySegment)
    BY SMT, <2>2
  <2>5. Map(m, Append(F[n], EmptySegment)) = Append(Map(m, F[n]), m[EmptySegment])
    <3> DEFINE f == F[n]
    <3>1. f \in Seq(S)
      BY <1>1, <1>4
    <3> HIDE DEF f
    <3>2. Map(m, Append(f, EmptySegment)) = Append(Map(m, f), m[EmptySegment])
      BY SMT, <3>1, MapAppend
    <3>3. QED
      BY <3>2 DEF f
  <2>6. QED
    BY <1>9, <2>1, <2>3, <2>4, <2>5 DEF t
<1>12. CASE ~Dotted(p[n])
  <2>1. RemoveDots(p) = F[n] \o <<>> /\ RemoveDots(t) = E[n] \o <<>>
    BY <1>2, <1>3, <1>5, <1>10, <1>12 DEF Stacks
  <2>2. Map(m, F[n]) \in Seq(T)
    BY <1>1, <1>4, MapIs
  <2>3. F[n] \o <<>> = F[n]
    BY SMT, <1>1, <1>4
  <2>4. Map(m, F[n]) \o <<>> = Map(m, F[n])
    BY SMT, <2>2
  <2>5. QED
    BY <1>9, <2>1, <2>3, <2>4 DEF t
<1>13. QED
  BY <1>11, <1>12

-----------------------------------------------------------------------------
(* collapse_path_slashes                                                   *)

Held(p) == {k \in DOMAIN p : ~Drops(p, k)}

\* An empty segment that follows a colon: an embedded scheme, unless it is last.
Slot(p, k) == k > 1 /\ Colon(p[k - 1]) /\ Empty(p[k])

LEMMA SchemeIsSlot ==
  ASSUME NEW S, NEW p \in Seq(S)
  PROVE  /\ Len(p) \in Nat /\ DOMAIN p = 1 .. Len(p)
         /\ \A k \in Int : Scheme(p, k) <=> k \in 1 .. Len(p) - 1 /\ Slot(p, k)
         /\ \A k \in Int : Drops(p, k) <=> k \in 1 .. Len(p) - 1 /\ Empty(p[k]) /\ ~Slot(p, k) /\ ~Slot(p, k - 1)
         /\ p # <<>> => Len(p) \in Held(p)
<1>1. Len(p) \in Nat /\ DOMAIN p = 1 .. Len(p) /\ (p # <<>> => Len(p) \in 1 .. Len(p))
  BY SMT
<1>2. \A k \in Int : k \in 2 .. Len(p) - 1 <=> k \in 1 .. Len(p) - 1 /\ k > 1
  BY SMT, <1>1
<1>3. \A k \in Int : k \in 1 .. Len(p) - 1 => k - 1 \in Int /\ (k - 1 > 1 => k - 1 \in 1 .. Len(p) - 1)
  BY SMT, <1>1
<1>4. Len(p) \notin 1 .. Len(p) - 1
  BY SMT, <1>1
<1>5. \A k \in Int : Scheme(p, k) <=> k \in 1 .. Len(p) - 1 /\ Slot(p, k)
  BY <1>2 DEF Scheme, Slot
<1>6. \A k \in Int : k \in 1 .. Len(p) - 1 => (Scheme(p, k - 1) <=> Slot(p, k - 1))
  BY <1>3, <1>5 DEF Slot
<1>7. \A k \in Int : Drops(p, k) <=> k \in 1 .. Len(p) - 1 /\ Empty(p[k]) /\ ~Slot(p, k) /\ ~Slot(p, k - 1)
  BY <1>5, <1>6 DEF Drops
<1>8. QED
  BY <1>1, <1>4, <1>5, <1>7 DEF Held, Drops

\* The last segment stays, so there is a path left.
LEMMA CollapseIs ==
  ASSUME NEW S, NEW p \in Seq(S), p # <<>>
  PROVE  CollapsePathSlashes(p) \in Seq(S) /\ CollapsePathSlashes(p) # <<>> /\ CollapsePathSlashes(p) = Keep(p, Held(p))
<1>1. CollapsePathSlashes(p) = Keep(p, Held(p))
  BY DEF CollapsePathSlashes, Held
<1>2. Len(p) \in Held(p)
  BY SchemeIsSlot
<1>3. Keep(p, Held(p)) \in Seq(S) /\ Keep(p, Held(p)) # <<>>
  BY <1>2, KeepIs
<1>4. QED
  BY <1>1, <1>3

\* Collapsing and mapping go in either order, if the map leaves empty segments
\* and colons as they are.
LEMMA CollapseMap ==
  ASSUME NEW S, NEW T, NEW m, Maps(m, S, T),
         \A s \in S : (Empty(m[s]) <=> Empty(s)) /\ (Colon(m[s]) <=> Colon(s)),
         NEW p \in Seq(S)
  PROVE  CollapsePathSlashes(Map(m, p)) = Map(m, CollapsePathSlashes(p))
<1> DEFINE t == Map(m, p)
<1>1. t \in Seq(T) /\ Len(t) = Len(p) /\ \A i \in 1 .. Len(p) : t[i] = m[p[i]]
  BY SMT, MapIs
<1> HIDE DEF t
<1>2. Len(p) \in Nat /\ DOMAIN p = 1 .. Len(p) /\ DOMAIN t = 1 .. Len(p) /\ \A i \in 1 .. Len(p) : p[i] \in S
  BY SMT, <1>1
<1>3. \A i \in 1 .. Len(p) : (Empty(t[i]) <=> Empty(p[i])) /\ (Colon(t[i]) <=> Colon(p[i]))
  BY <1>1, <1>2
<1>4. \A k \in 2 .. Len(p) - 1 : k - 1 \in 1 .. Len(p) /\ k \in 1 .. Len(p)
  BY SMT, <1>2
<1>5. \A k : Scheme(t, k) <=> Scheme(p, k)
  BY <1>1, <1>3, <1>4 DEF Scheme
<1>6. \A k \in 1 .. Len(p) - 1 : k \in 1 .. Len(p)
  BY SMT, <1>2
<1>7. \A k : Drops(t, k) <=> Drops(p, k)
  BY <1>1, <1>3, <1>5, <1>6 DEF Drops
<1>8. Held(t) = Held(p)
  BY <1>2, <1>7 DEF Held
<1>9. CollapsePathSlashes(t) = Keep(t, Held(p)) /\ CollapsePathSlashes(p) = Keep(p, Held(p))
  BY <1>8 DEF CollapsePathSlashes, Held
<1>10. Keep(t, Held(p)) = Map(m, Keep(p, Held(p)))
  <2>1. Keep(Map(m, p), Held(p)) = Map(m, Keep(p, Held(p)))
    BY SMT, KeepMap
  <2>2. QED
    BY <2>1 DEF t
<1>11. QED
  BY <1>9, <1>10 DEF t

\* The slots among the first i segments, and how many there are.
SlotsTo(p, i) == {k \in 1 .. i : Slot(p, k)}

LEMMA SlotsCount ==
  ASSUME NEW p, NEW i \in Nat
  PROVE  /\ IsFiniteSet(SlotsTo(p, i)) /\ Cardinality(SlotsTo(p, i)) \in Nat
         /\ Cardinality(SlotsTo(p, i + 1)) = Cardinality(SlotsTo(p, i)) + (IF Slot(p, i + 1) THEN 1 ELSE 0)
<1>1. IsFiniteSet(1 .. i)
  BY SMT, FS_Interval
<1>2. IsFiniteSet(SlotsTo(p, i)) /\ Cardinality(SlotsTo(p, i)) \in Nat
  <2>1. SlotsTo(p, i) \in SUBSET (1 .. i)
    BY DEF SlotsTo
  <2>2. QED
    BY <1>1, <2>1, FS_Subset, FS_CardinalityType
<1>3. 1 .. i + 1 = (1 .. i) \cup {i + 1} /\ i + 1 \notin 1 .. i
  BY SMT
<1>4. CASE Slot(p, i + 1)
  <2>1. SlotsTo(p, i + 1) = SlotsTo(p, i) \cup {i + 1} /\ i + 1 \notin SlotsTo(p, i)
    BY <1>3, <1>4 DEF SlotsTo
  <2>2. Cardinality(SlotsTo(p, i) \cup {i + 1}) = Cardinality(SlotsTo(p, i)) + 1
    BY <1>2, <2>1, FS_AddElement
  <2>3. QED
    BY <1>2, <1>4, <2>1, <2>2
<1>5. CASE ~Slot(p, i + 1)
  <2>1. SlotsTo(p, i + 1) = SlotsTo(p, i)
    BY <1>3, <1>5 DEF SlotsTo
  <2>2. Cardinality(SlotsTo(p, i)) + 0 = Cardinality(SlotsTo(p, i))
    BY SMT, <1>2
  <2>3. QED
    BY <1>2, <1>5, <2>1, <2>2
<1>6. QED
  BY <1>4, <1>5

\* What is kept of the first i segments ends as they do, has an empty segment
\* only in a slot or behind one, and as many slots as they have.
Follows(q, p, i) ==
  /\ Len(q) > 0 /\ Colon(q[Len(q)]) <=> i > 0 /\ Colon(p[i])
  /\ Slot(q, Len(q)) <=> Slot(p, i)
  /\ \A k \in 1 .. Len(q) : Empty(q[k]) => Slot(q, k) \/ Slot(q, k - 1)
  /\ Cardinality(SlotsTo(q, Len(q))) = Cardinality(SlotsTo(p, i))

\* A sequence with one more segment has the slots it had.
LEMMA SlotAppend ==
  ASSUME NEW S, NEW q \in Seq(S), NEW x \in S
  PROVE  LET r == Append(q, x)
         IN  /\ Len(r) = Len(q) + 1 /\ r[Len(q) + 1] = x /\ \A k \in 1 .. Len(q) : r[k] = q[k]
             /\ \A k \in 0 .. Len(q) : Slot(r, k) <=> Slot(q, k)
             /\ Slot(r, Len(q) + 1) <=> Len(q) > 0 /\ Colon(q[Len(q)]) /\ Empty(x)
             /\ SlotsTo(r, Len(q)) = SlotsTo(q, Len(q))
<1> DEFINE r == Append(q, x)
           m == Len(q)
<1>1. m \in Nat /\ Len(r) = m + 1 /\ r[m + 1] = x /\ \A k \in 1 .. m : r[k] = q[k]
  BY SMT
<1> HIDE DEF r
<1>2. \A k \in 0 .. m : k > 1 => k \in 1 .. m /\ k - 1 \in 1 .. m
  BY SMT, <1>1
<1>3. \A k \in 0 .. m : Slot(r, k) <=> Slot(q, k)
  BY <1>1, <1>2 DEF Slot
<1>4. (m + 1) - 1 = m /\ (m + 1 > 1 <=> m > 0) /\ (m > 0 => m \in 1 .. m) /\ \A k \in 1 .. m : k \in 0 .. m
  BY SMT, <1>1
<1>5. Slot(r, m + 1) <=> m > 0 /\ Colon(q[m]) /\ Empty(x)
  BY <1>1, <1>4 DEF Slot
<1>6. SlotsTo(r, m) = SlotsTo(q, m)
  BY <1>3, <1>4 DEF SlotsTo
<1>7. QED
  BY <1>1, <1>3, <1>5, <1>6 DEF r

LEMMA FollowsKeep ==
  ASSUME NEW S, NEW q \in Seq(S), NEW p \in Seq(S), NEW i \in 1 .. Len(p), Follows(q, p, i - 1),
         Empty(p[i]) => Slot(p, i) \/ Slot(p, i - 1)
  PROVE  Follows(Append(q, p[i]), p, i)
<1> DEFINE r == Append(q, p[i])
           m == Len(q)
<1>1. m \in Nat /\ i \in Nat /\ i - 1 \in Nat /\ (i - 1) + 1 = i /\ p[i] \in S /\ (i - 1 > 0 <=> i > 1) /\ i > 0
  BY SMT
<1>2. /\ Len(r) = m + 1 /\ r[m + 1] = p[i] /\ \A k \in 1 .. m : r[k] = q[k]
      /\ \A k \in 0 .. m : Slot(r, k) <=> Slot(q, k)
      /\ Slot(r, m + 1) <=> m > 0 /\ Colon(q[m]) /\ Empty(p[i])
      /\ SlotsTo(r, m) = SlotsTo(q, m)
  BY <1>1, SlotAppend
<1> HIDE DEF r
<1>3. Slot(r, m + 1) <=> Slot(p, i)
  BY <1>1, <1>2 DEF Follows, Slot
<1>4. m + 1 > 0 /\ (m + 1) - 1 = m /\ m \in 0 .. m /\ \A k \in 1 .. m + 1 : k = m + 1 \/ (k \in 1 .. m /\ k \in 0 .. m /\ k - 1 \in 0 .. m)
  BY SMT, <1>1
<1>5. ASSUME NEW k \in 1 .. m + 1, Empty(r[k]) PROVE Slot(r, k) \/ Slot(r, k - 1)
  <2>1. CASE k = m + 1
    <3>1. Slot(p, i) \/ Slot(p, i - 1)
      BY <1>2, <1>5, <2>1
    <3>2. Slot(p, i - 1) => Slot(r, m)
      BY <1>2, <1>4 DEF Follows
    <3>3. QED
      BY <1>3, <1>4, <2>1, <3>1, <3>2
  <2>2. CASE k # m + 1
    <3>1. Empty(q[k]) /\ k \in 1 .. m /\ k \in 0 .. m /\ k - 1 \in 0 .. m
      BY <1>2, <1>4, <1>5, <2>2
    <3>2. Slot(q, k) \/ Slot(q, k - 1)
      BY <3>1 DEF Follows
    <3>3. QED
      BY <1>2, <3>1, <3>2
  <2>3. QED
    BY <2>1, <2>2
<1>6. Cardinality(SlotsTo(r, m + 1)) = Cardinality(SlotsTo(p, i))
  <2>1. Cardinality(SlotsTo(r, m + 1)) = Cardinality(SlotsTo(r, m)) + (IF Slot(r, m + 1) THEN 1 ELSE 0)
    BY <1>1, SlotsCount
  <2>2. Cardinality(SlotsTo(p, (i - 1) + 1)) = Cardinality(SlotsTo(p, i - 1)) + (IF Slot(p, (i - 1) + 1) THEN 1 ELSE 0)
    BY <1>1, SlotsCount
  <2>3. Cardinality(SlotsTo(q, m)) = Cardinality(SlotsTo(p, i - 1))
    BY DEF Follows
  <2>4. QED
    BY <1>1, <1>2, <1>3, <2>1, <2>2, <2>3
<1>7. QED
  BY <1>1, <1>2, <1>3, <1>4, <1>5, <1>6 DEF Follows, r

LEMMA FollowsDrop ==
  ASSUME NEW S, NEW q \in Seq(S), NEW p \in Seq(S), NEW i \in 1 .. Len(p), Follows(q, p, i - 1),
         Empty(p[i]), ~Colon(p[i]), ~Slot(p, i), ~Slot(p, i - 1)
  PROVE  Follows(q, p, i)
<1>1. i - 1 \in Nat /\ (i - 1) + 1 = i /\ (i - 1 > 0 <=> i > 1)
  BY SMT
<1>2. Cardinality(SlotsTo(p, i)) = Cardinality(SlotsTo(p, i - 1))
  <2>1. Cardinality(SlotsTo(p, (i - 1) + 1)) = Cardinality(SlotsTo(p, i - 1)) + (IF Slot(p, (i - 1) + 1) THEN 1 ELSE 0)
    BY <1>1, SlotsCount
  <2>2. Cardinality(SlotsTo(p, i - 1)) \in Nat
    BY <1>1, SlotsCount
  <2>3. Cardinality(SlotsTo(p, i - 1)) + 0 = Cardinality(SlotsTo(p, i - 1))
    BY SMT, <2>2
  <2>4. QED
    BY <1>1, <2>1, <2>3
<1>3. ~(i > 1 /\ Colon(p[i - 1]))
  BY DEF Slot
<1>4. QED
  BY <1>1, <1>2, <1>3 DEF Follows

\* What is kept before the last segment follows the path.
LEMMA CollapseFollows ==
  ASSUME NEW S, NEW p \in Seq(S), p # <<>>
  PROVE  \E q \in Seq(S) : CollapsePathSlashes(p) = Append(q, p[Len(p)]) /\ Follows(q, p, Len(p) - 1)
<1> DEFINE n == Len(p)
<1>1. /\ n \in Nat /\ n - 1 \in Nat /\ n \in 1 .. n /\ 0 \in 0 .. n - 1 /\ n - 1 \in 0 .. n
      /\ \A i \in 1 .. n - 1 : i \in 1 .. n /\ i \in Int /\ i \in 0 .. n - 1 /\ i - 1 \in 0 .. n
  BY SMT
<1>2. PICK F \in [0 .. n -> Seq(S)] : Keeps(p, Held(p), F)
  BY KeepRounds
<1>3. /\ \A i \in 1 .. n - 1 : i \in Held(p) <=> ~(Empty(p[i]) /\ ~Slot(p, i) /\ ~Slot(p, i - 1))
      /\ n \in Held(p) /\ DOMAIN p = 1 .. n
  <2>1. /\ \A k \in Int : Drops(p, k) <=> k \in 1 .. n - 1 /\ Empty(p[k]) /\ ~Slot(p, k) /\ ~Slot(p, k - 1)
        /\ n \in Held(p) /\ DOMAIN p = 1 .. n
    BY SchemeIsSlot
  <2>2. QED
    BY <1>1, <2>1 DEF Held
<1> DEFINE G == {i \in 0 .. n - 1 : Follows(F[i], p, i)}
<1>4. 0 \in G
  <2>1. F[0] = <<>> /\ Len(<<>>) = 0
    BY SMT, <1>2 DEF Keeps
  <2>2. ~(0 > 0) /\ ~(0 > 1) /\ \A k \in 1 .. 0 : FALSE
    BY SMT
  <2>3. SlotsTo(<<>>, 0) = {} /\ SlotsTo(p, 0) = {}
    BY <2>2 DEF SlotsTo
  <2>4. Follows(<<>>, p, 0)
    BY <2>1, <2>2, <2>3 DEF Follows, Slot
  <2>5. QED
    BY <1>1, <2>1, <2>4
<1>5. ASSUME NEW i \in 1 .. n - 1, i - 1 \in G PROVE i \in G
  <2>1. F[i - 1] \in Seq(S) /\ Follows(F[i - 1], p, i - 1) /\ i \in 1 .. n
    BY <1>1, <1>2, <1>5
  <2>2. F[i] = IF i \in Held(p) THEN Append(F[i - 1], p[i]) ELSE F[i - 1]
    BY <1>2, <2>1 DEF Keeps
  <2>3. CASE i \in Held(p)
    <3>1. Empty(p[i]) => Slot(p, i) \/ Slot(p, i - 1)
      BY <1>3, <2>3
    <3>2. Follows(Append(F[i - 1], p[i]), p, i)
      BY <2>1, <3>1, FollowsKeep
    <3>3. QED
      BY <1>1, <2>2, <2>3, <3>2
  <2>4. CASE i \notin Held(p)
    <3>1. Empty(p[i]) /\ ~Slot(p, i) /\ ~Slot(p, i - 1)
      BY <1>3, <2>4
    <3>2. ~Colon(p[i])
      BY <3>1, NameAssumption DEF Empty, Colon
    <3>3. Follows(F[i - 1], p, i)
      BY <2>1, <3>1, <3>2, FollowsDrop
    <3>4. QED
      BY <1>1, <2>2, <2>4, <3>3
  <2>5. QED
    BY <2>3, <2>4
<1> HIDE DEF G
<1>6. Follows(F[n - 1], p, n - 1)
  <2>1. n - 1 \in G
    BY <1>1, <1>4, <1>5, Rounds
  <2>2. QED
    BY <2>1 DEF G
<1>7. Keep(p, Held(p)) = Append(F[n - 1], p[n]) /\ F[n - 1] \in Seq(S)
  BY <1>1, <1>2, <1>3 DEF Keeps
<1>8. CollapsePathSlashes(p) = Keep(p, Held(p))
  BY CollapseIs
<1>9. QED
  BY <1>6, <1>7, <1>8

\* What was collapsed has nothing left to collapse.
LEMMA CollapseTwice ==
  ASSUME NEW S, NEW p \in Seq(S), p # <<>>
  PROVE  CollapsePathSlashes(CollapsePathSlashes(p)) = CollapsePathSlashes(p)
<1> DEFINE c == CollapsePathSlashes(p)
           x == p[Len(p)]
<1>1. c \in Seq(S) /\ c # <<>> /\ CollapsePathSlashes(c) = Keep(c, Held(c))
  BY CollapseIs
<1>2. PICK q \in Seq(S) : c = Append(q, x) /\ Follows(q, p, Len(p) - 1)
  BY CollapseFollows
<1> HIDE DEF c
<1>3. x \in S
  BY SMT
<1> HIDE DEF x
<1> DEFINE m == Len(q)
<1>4. /\ Len(c) = m + 1 /\ \A k \in 1 .. m : c[k] = q[k]
      /\ \A k \in 0 .. m : Slot(c, k) <=> Slot(q, k)
  <2> DEFINE r == Append(q, x)
  <2>1. /\ Len(r) = m + 1 /\ \A k \in 1 .. m : r[k] = q[k]
        /\ \A k \in 0 .. m : Slot(r, k) <=> Slot(q, k)
    BY SMT, <1>3, SlotAppend
  <2> HIDE DEF r
  <2>2. c = r
    BY <1>2 DEF r
  <2>3. QED
    BY <2>1, <2>2
<1>5. m \in Nat /\ (m + 1) - 1 = m /\ \A k \in 1 .. m : k \in 0 .. m /\ k - 1 \in 0 .. m
  BY SMT
<1>6. \A k \in Int : Drops(c, k) <=> k \in 1 .. Len(c) - 1 /\ Empty(c[k]) /\ ~Slot(c, k) /\ ~Slot(c, k - 1)
  BY <1>1, SchemeIsSlot
<1>7. ASSUME NEW k \in 1 .. Len(c) PROVE k \in Held(c)
  <2>1. k \in Int /\ DOMAIN c = 1 .. Len(c)
    BY SMT, <1>1
  <2>2. ASSUME k \in 1 .. m, Empty(c[k]) PROVE Slot(c, k) \/ Slot(c, k - 1)
    BY <1>2, <1>4, <1>5, <2>2 DEF Follows
  <2>3. ~Drops(c, k)
    BY <1>4, <1>5, <1>6, <2>1, <2>2
  <2>4. QED
    BY <2>1, <2>3 DEF Held
<1>8. Keep(c, Held(c)) = c
  BY <1>1, <1>7, KeepIs
<1>9. QED
  BY <1>1, <1>8 DEF c

\* An embedded "://" is kept, and so is every segment that is not empty.
LEMMA CollapseKeeps ==
  ASSUME NEW S, NEW p \in Seq(S), p # <<>>
  PROVE  LET c == CollapsePathSlashes(p)
         IN  Cardinality(Schemes(c)) = Cardinality(Schemes(p)) /\ Solid(c) = Solid(p)
<1> DEFINE c == CollapsePathSlashes(p)
           n == Len(p)
           x == p[n]
<1>1. c \in Seq(S) /\ c # <<>> /\ c = Keep(p, Held(p))
  BY CollapseIs
<1>2. PICK q \in Seq(S) : c = Append(q, x) /\ Follows(q, p, n - 1)
  BY CollapseFollows
<1> HIDE DEF c
<1>3. Cardinality(Schemes(c)) = Cardinality(Schemes(p))
  <2>1. x \in S /\ n \in Nat /\ Len(q) \in Nat /\ (Len(q) + 1) - 1 = Len(q)
    BY SMT
  <2>2. Len(c) = Len(q) + 1 /\ SlotsTo(c, Len(q)) = SlotsTo(q, Len(q))
    BY <1>2, <2>1, SlotAppend
  <2>3. ASSUME NEW t \in Seq(S) PROVE Schemes(t) = SlotsTo(t, Len(t) - 1)
    <3>1. \A k \in 1 .. Len(t) : k \in Int
      BY SMT
    <3>2. \A k \in 1 .. Len(t) - 1 : k \in Int /\ k \in 1 .. Len(t)
      BY SMT
    <3>3. DOMAIN t = 1 .. Len(t) /\ \A k \in Int : Scheme(t, k) <=> k \in 1 .. Len(t) - 1 /\ Slot(t, k)
      BY SchemeIsSlot
    <3>4. QED
      BY <3>1, <3>2, <3>3 DEF Schemes, SlotsTo
  <2>4. Schemes(c) = SlotsTo(q, Len(q)) /\ Schemes(p) = SlotsTo(p, n - 1)
    BY <1>1, <2>1, <2>2, <2>3
  <2>5. QED
    BY <1>2, <2>4 DEF Follows
<1>4. Solid(c) = Solid(p)
  <2> DEFINE Full(t) == {k \in DOMAIN t : ~Empty(t[k])}
  <2>1. PICK F \in [0 .. n -> Seq(S)] : Keeps(p, Held(p), F)
    BY KeepRounds
  <2>2. PICK E : Keeps(p, Full(p), E)
    BY KeepRounds
  <2>3. /\ n \in Nat /\ 0 \in 0 .. n /\ DOMAIN p = 1 .. n
        /\ \A i \in 1 .. n : i \in 0 .. n /\ i - 1 \in 0 .. n /\ i \in Int /\ p[i] \in S
    BY SMT
  <2>4. ASSUME NEW t \in Seq(S), NEW y \in S
        PROVE  Solid(Append(t, y)) = IF Empty(y) THEN Solid(t) ELSE Append(Solid(t), y)
    <3> DEFINE r == Append(t, y)
    <3>1. DOMAIN t = 1 .. Len(t) /\ DOMAIN r = 1 .. Len(t) + 1 /\ Len(t) + 1 \in DOMAIN r /\ r[Len(t) + 1] = y
      BY SMT
    <3>2. \A k \in 1 .. Len(t) : k \in 1 .. Len(t) + 1 /\ r[k] = t[k]
      BY SMT
    <3> HIDE DEF r
    <3>3. /\ \A k \in 1 .. Len(t) : k \in Full(t) <=> k \in Full(r)
          /\ Len(t) + 1 \in Full(r) <=> ~Empty(y)
      BY <3>1, <3>2
    <3> HIDE DEF Full
    <3>4. Keep(Append(t, y), Full(r)) = IF Len(t) + 1 \in Full(r) THEN Append(Keep(t, Full(t)), y) ELSE Keep(t, Full(t))
      BY <3>3, KeepAppend
    <3>5. Solid(t) = Keep(t, Full(t)) /\ Solid(r) = Keep(r, Full(r))
      BY DEF Solid, Full
    <3>6. QED
      BY <3>3, <3>4, <3>5 DEF r
  <2> DEFINE G == {i \in 0 .. n : Solid(F[i]) = E[i]}
  <2>5. 0 \in G
    <3>1. F[0] = <<>> /\ E[0] = <<>>
      BY <2>1, <2>2 DEF Keeps
    <3>2. <<>> \in Seq(S) /\ \A i \in 1 .. Len(<<>>) : i \in Full(<<>>)
      BY SMT
    <3> HIDE DEF Full
    <3>3. Keep(<<>>, Full(<<>>)) = <<>>
      BY <3>2, KeepIs
    <3>4. Solid(<<>>) = <<>>
      BY <3>3 DEF Solid, Full
    <3>5. QED
      BY <2>3, <3>1, <3>4
  <2>6. ASSUME NEW i \in 1 .. n, i - 1 \in G PROVE i \in G
    <3>1. F[i - 1] \in Seq(S) /\ Solid(F[i - 1]) = E[i - 1] /\ p[i] \in S
      BY <2>1, <2>3, <2>6
    <3>2. /\ F[i] = IF i \in Held(p) THEN Append(F[i - 1], p[i]) ELSE F[i - 1]
          /\ E[i] = IF i \in Full(p) THEN Append(E[i - 1], p[i]) ELSE E[i - 1]
      BY <2>1, <2>2 DEF Keeps
    <3>3. i \in Full(p) <=> ~Empty(p[i])
      BY <2>3
    <3>4. i \notin Held(p) => Empty(p[i])
      BY <2>3 DEF Held, Drops
    <3> HIDE DEF Full
    <3>5. Solid(Append(F[i - 1], p[i])) = IF Empty(p[i]) THEN Solid(F[i - 1]) ELSE Append(Solid(F[i - 1]), p[i])
      BY <2>4, <3>1
    <3>6. QED
      BY <2>3, <3>1, <3>2, <3>3, <3>4, <3>5
  <2> HIDE DEF G, Full
  <2>7. Solid(F[n]) = E[n]
    <3>1. n \in G
      BY <2>3, <2>5, <2>6, Rounds
    <3>2. QED
      BY <3>1 DEF G
  <2>8. E[n] = Solid(p) /\ F[n] = c
    BY <1>1, <2>1, <2>2 DEF Keeps, Solid, Full
  <2>9. QED
    BY <2>7, <2>8
<1>5. QED
  BY <1>3, <1>4 DEF c

\* A slash that is doubled, away from an embedded "://", is collapsed.
LEMMA CollapseDouble ==
  ASSUME NEW S, EmptySegment \in S, NEW p \in Seq(S), NEW j \in Doublable(p)
  PROVE  /\ InsertAt(p, j, EmptySegment) \in Seq(S) /\ InsertAt(p, j, EmptySegment) # <<>>
         /\ CollapsePathSlashes(InsertAt(p, j, EmptySegment)) = CollapsePathSlashes(p)
<1> DEFINE n == Len(p)
           v == InsertAt(p, j, EmptySegment)
<1>1. n \in Nat /\ DOMAIN p = 1 .. n /\ j \in 1 .. n
  BY SMT DEF Doublable
<1>2. /\ v \in Seq(S) /\ Len(v) = n + 1 /\ v[j] = EmptySegment
      /\ \A i \in 1 .. j - 1 : v[i] = p[i]
      /\ \A i \in j .. n : v[i + 1] = p[i]
  <2> DEFINE a == SubSeq(p, 1, j - 1)
             b == SubSeq(p, j, n)
  <2>1. a \in Seq(S) /\ Len(a) = j - 1 /\ \A i \in 1 .. j - 1 : a[i] = p[i]
    BY SMT, <1>1
  <2>2. b \in Seq(S) /\ Len(b) = n - j + 1 /\ \A i \in 1 .. n - j + 1 : b[i] = p[j + i - 1]
    BY SMT, <1>1
  <2>3. v = a \o <<EmptySegment>> \o b
    BY DEF InsertAt
  <2> HIDE DEF a, b, v
  <2> DEFINE d == a \o <<EmptySegment>>
  <2>4. d \in Seq(S) /\ Len(d) = j /\ d[j] = EmptySegment /\ \A i \in 1 .. j - 1 : d[i] = p[i]
    BY SMT, <1>1, <2>1
  <2>5. v = d \o b
    BY <2>3
  <2> HIDE DEF d
  <2>6. v \in Seq(S) /\ Len(v) = n + 1 /\ v[j] = EmptySegment /\ \A i \in 1 .. j - 1 : v[i] = p[i]
    BY SMT, <1>1, <2>2, <2>4, <2>5
  <2>7. ASSUME NEW i \in j .. n PROVE v[i + 1] = p[i]
    <3>1. v[i + 1] = b[i + 1 - j]
      BY SMT, <1>1, <2>2, <2>4, <2>5
    <3>2. b[i + 1 - j] = p[i]
      BY SMT, <1>1, <2>2
    <3>3. QED
      BY <3>1, <3>2
  <2>8. QED
    BY <2>6, <2>7
<1> HIDE DEF v
<1>3. v # <<>> /\ DOMAIN v = 1 .. n + 1 /\ (n + 1) - 1 = n
  BY SMT, <1>1, <1>2
<1>4. ~(j > 1 /\ Colon(p[j - 1])) /\ ~Slot(p, j - 1) /\ ~Slot(p, j)
  <2>1. j - 1 \in Int /\ (j - 1 > 1 => j - 1 \in 1 .. n - 1)
    BY SMT, <1>1
  <2>2. Slot(p, j - 1) => Scheme(p, j - 1)
    BY <2>1, SchemeIsSlot DEF Slot
  <2>3. QED
    BY <2>2 DEF Doublable, Slot
<1>5. /\ \A k \in Int : Drops(p, k) <=> k \in 1 .. n - 1 /\ Empty(p[k]) /\ ~Slot(p, k) /\ ~Slot(p, k - 1)
      /\ \A k \in Int : Drops(v, k) <=> k \in 1 .. n /\ Empty(v[k]) /\ ~Slot(v, k) /\ ~Slot(v, k - 1)
  <2>1. \A k \in Int : Drops(p, k) <=> k \in 1 .. n - 1 /\ Empty(p[k]) /\ ~Slot(p, k) /\ ~Slot(p, k - 1)
    BY SchemeIsSlot
  <2>2. \A k \in Int : Drops(v, k) <=> k \in 1 .. Len(v) - 1 /\ Empty(v[k]) /\ ~Slot(v, k) /\ ~Slot(v, k - 1)
    BY <1>2, SchemeIsSlot
  <2>3. QED
    BY <1>2, <1>3, <2>1, <2>2
<1>6. \A k \in 0 .. j - 1 : Slot(v, k) <=> Slot(p, k)
  <2>1. \A k \in 0 .. j - 1 : k > 1 => k \in 1 .. j - 1 /\ k - 1 \in 1 .. j - 1
    BY SMT, <1>1
  <2>2. QED
    BY <1>2, <2>1 DEF Slot
<1>7. ~Slot(v, j) /\ ~Slot(v, j + 1) /\ ~Slot(v, j - 1)
  <2>1. j - 1 \in 0 .. j - 1 /\ (j > 1 => j - 1 \in 1 .. j - 1) /\ (j + 1) - 1 = j
    BY SMT, <1>1
  <2>2. ~Slot(v, j)
    BY <1>2, <1>4, <2>1 DEF Slot
  <2>3. ~Slot(v, j + 1)
    BY <1>2, <2>1, EmptyIs DEF Slot
  <2>4. QED
    BY <1>4, <1>6, <2>1, <2>2, <2>3
<1>8. \A k \in j .. n : Slot(v, k + 1) <=> Slot(p, k)
  <2> SUFFICES ASSUME NEW k \in j .. n PROVE Slot(v, k + 1) <=> Slot(p, k)
    OBVIOUS
  <2>1. CASE k = j
    BY <1>4, <1>7, <2>1
  <2>2. CASE k # j
    <3>1. k - 1 \in j .. n /\ (k - 1) + 1 = k /\ (k + 1) - 1 = k /\ k > 1 /\ k + 1 > 1
      BY SMT, <1>1, <2>2
    <3>2. v[k] = p[k - 1] /\ v[k + 1] = p[k]
      BY <1>2, <3>1
    <3>3. QED
      BY <3>1, <3>2 DEF Slot
  <2>3. QED
    BY <2>1, <2>2
<1>9. j \notin Held(v)
  <2>1. j \in Int /\ j \in 1 .. n
    BY SMT, <1>1
  <2>2. Drops(v, j)
    BY <1>2, <1>5, <1>7, <2>1, EmptyIs
  <2>3. QED
    BY <2>2 DEF Held
<1>10. ASSUME NEW i \in 1 .. j - 1 PROVE v[i] = p[i] /\ (i \in Held(v) <=> i \in Held(p))
  <2>1. /\ i \in Int /\ i \in 1 .. n /\ i \in 1 .. n + 1 /\ i \in 1 .. n - 1
        /\ i \in 0 .. j - 1 /\ i - 1 \in 0 .. j - 1
    BY SMT, <1>1
  <2>2. v[i] = p[i]
    BY <1>2
  <2>3. Drops(v, i) <=> Drops(p, i)
    BY <1>5, <1>6, <2>1, <2>2
  <2>4. QED
    BY <1>1, <1>3, <2>1, <2>2, <2>3 DEF Held
<1>11. ASSUME NEW i \in j .. n PROVE v[i + 1] = p[i] /\ (i + 1 \in Held(v) <=> i \in Held(p))
  <2>1. /\ i \in Int /\ i + 1 \in Int /\ i \in 1 .. n /\ i + 1 \in 1 .. n + 1 /\ (i + 1) - 1 = i
        /\ i \in 1 .. n - 1 <=> i + 1 \in 1 .. n
    BY SMT, <1>1
  <2>2. v[i + 1] = p[i] /\ (Slot(v, i + 1) <=> Slot(p, i))
    BY <1>2, <1>8
  <2>3. Slot(v, i) <=> Slot(p, i - 1)
    <3>1. CASE i = j
      BY <1>4, <1>7, <3>1
    <3>2. CASE i # j
      <4>1. i - 1 \in j .. n /\ (i - 1) + 1 = i
        BY SMT, <1>1, <3>2
      <4>2. Slot(v, (i - 1) + 1) <=> Slot(p, i - 1)
        BY <1>8, <4>1
      <4>3. QED
        BY <4>1, <4>2
    <3>3. QED
      BY <3>1, <3>2
  <2>4. Drops(v, i + 1) <=> Drops(p, i)
    <3>1. Drops(v, i + 1) <=> i + 1 \in 1 .. n /\ Empty(v[i + 1]) /\ ~Slot(v, i + 1) /\ ~Slot(v, (i + 1) - 1)
      BY <1>5, <2>1
    <3>2. Drops(p, i) <=> i \in 1 .. n - 1 /\ Empty(p[i]) /\ ~Slot(p, i) /\ ~Slot(p, i - 1)
      BY <1>5, <2>1
    <3>3. QED
      BY <2>1, <2>2, <2>3, <3>1, <3>2
  <2>5. QED
    BY <1>1, <1>3, <2>1, <2>2, <2>4 DEF Held
<1>12. Keep(v, Held(v)) = Keep(p, Held(p))
  BY SMT, <1>1, <1>2, <1>9, <1>10, <1>11, KeepInsert
<1>13. CollapsePathSlashes(v) = Keep(v, Held(v)) /\ CollapsePathSlashes(p) = Keep(p, Held(p))
  BY DEF CollapsePathSlashes, Held
<1>14. QED
  BY <1>2, <1>3, <1>12, <1>13 DEF v

-----------------------------------------------------------------------------
(* The canonical path                                                      *)

EncodeSegment == [s \in Segments |-> [s EXCEPT !.quote = IF @ = "raw" THEN "encoded" ELSE @]]
DecodeSegment == [s \in Segments |-> [s EXCEPT !.escapes = IF @ = 0 THEN 0 ELSE @ - 1]]
CleanSegment == [s \in Segments |-> DecodeSegment[EncodeSegment[s]]]

\* Segments without broken escapes, those among them that Url::set_path leaves
\* alone, and the canonical ones.
Wells == {s \in Segments : s.escapes <= 1}
Settled == {s \in Undotted(Wells) : s.quote # "raw"}
Cleans == {s \in Settled : s.escapes = 0}

\* A segment is what its fields are.
LEMMA SegmentIs ==
  /\ \A s \in Segments : s.name \in Names /\ s.escapes \in Nat /\ s.quote \in {"none", "raw", "encoded"}
  /\ \A s, t \in Segments : s.name = t.name /\ s.escapes = t.escapes /\ s.quote = t.quote => s = t
<1>1. \A s \in Segments : s \in [name : Names, escapes : Nat, quote : {"none", "raw", "encoded"}]
  BY DEF Segments
<1>2. \A s \in Segments : s.name \in Names /\ s.escapes \in Nat /\ s.quote \in {"none", "raw", "encoded"}
  BY <1>1
<1>3. \A s \in Segments : s = [name |-> s.name, escapes |-> s.escapes, quote |-> s.quote]
  BY SMT, <1>1
<1>4. QED
  BY <1>2, <1>3

\* Encoding and decoding change the quote and the escapes alone.
LEMMA EncodeIs ==
  ASSUME NEW s \in Segments
  PROVE  LET e == EncodeSegment[s]
         IN  /\ e \in Segments /\ e.name = s.name /\ e.escapes = s.escapes
             /\ e.quote = IF s.quote = "raw" THEN "encoded" ELSE s.quote
<1> DEFINE e == EncodeSegment[s]
           new == IF s.quote = "raw" THEN "encoded" ELSE s.quote
<1>1. s \in [name : Names, escapes : Nat, quote : {"none", "raw", "encoded"}]
  BY DEF Segments
<1>2. new \in {"none", "raw", "encoded"} /\ (s.quote = "none" => new = "none")
  BY <1>1
<1>3. e = [s EXCEPT !.quote = new]
  BY DEF EncodeSegment
<1> HIDE DEF new, e
<1>4. /\ e \in [name : Names, escapes : Nat, quote : {"none", "raw", "encoded"}]
      /\ e.name = s.name /\ e.escapes = s.escapes /\ e.quote = new
  BY SMT, <1>1, <1>2, <1>3
<1>5. e \in Segments
  BY <1>2, <1>4 DEF Segments
<1>6. QED
  BY <1>4, <1>5 DEF e, new

LEMMA DecodeIs ==
  ASSUME NEW s \in Segments
  PROVE  LET d == DecodeSegment[s]
         IN  /\ d \in Segments /\ d.name = s.name /\ d.quote = s.quote
             /\ d.escapes = IF s.escapes = 0 THEN 0 ELSE s.escapes - 1
<1> DEFINE d == DecodeSegment[s]
           new == IF s.escapes = 0 THEN 0 ELSE s.escapes - 1
<1>1. s \in [name : Names, escapes : Nat, quote : {"none", "raw", "encoded"}]
  BY DEF Segments
<1>2. new \in Nat /\ (s.escapes = 0 => new = 0)
  BY SMT, <1>1
<1>3. d = [s EXCEPT !.escapes = new]
  BY DEF DecodeSegment
<1> HIDE DEF new, d
<1>4. /\ d \in [name : Names, escapes : Nat, quote : {"none", "raw", "encoded"}]
      /\ d.name = s.name /\ d.quote = s.quote /\ d.escapes = new
  BY SMT, <1>1, <1>2, <1>3
<1>5. d \in Segments
  BY <1>2, <1>4 DEF Segments
<1>6. QED
  BY <1>4, <1>5 DEF d, new

\* What comes of a segment without broken escapes.
LEMMA CleanIs ==
  ASSUME NEW s \in Wells
  PROVE  LET c == CleanSegment[s]
         IN  /\ s \in Segments /\ c \in Wells /\ c.name = s.name /\ c.escapes = 0
             /\ c.quote = IF s.quote = "raw" THEN "encoded" ELSE s.quote
             /\ (Dot(c) <=> Dot(s)) /\ (DotDot(c) <=> DotDot(s))
             /\ (Empty(c) <=> Empty(s)) /\ (Colon(c) <=> Colon(s))
<1> DEFINE e == EncodeSegment[s]
           c == CleanSegment[s]
<1>1. s \in Segments /\ s.escapes \in Nat /\ s.escapes <= 1
  BY SegmentIs DEF Wells
<1>2. c = DecodeSegment[e]
  BY <1>1 DEF CleanSegment
<1>3. /\ e \in Segments /\ e.name = s.name /\ e.escapes = s.escapes
      /\ e.quote = IF s.quote = "raw" THEN "encoded" ELSE s.quote
  BY <1>1, EncodeIs
<1> HIDE DEF e, c
<1>4. /\ c \in Segments /\ c.name = e.name /\ c.quote = e.quote
      /\ c.escapes = IF e.escapes = 0 THEN 0 ELSE e.escapes - 1
  BY <1>2, <1>3, DecodeIs
<1>5. c.escapes = 0 /\ 0 <= 1
  BY SMT, <1>1, <1>3, <1>4
<1>6. c \in Wells
  BY <1>4, <1>5 DEF Wells
<1>7. (Dot(c) <=> Dot(s)) /\ (DotDot(c) <=> DotDot(s)) /\ (Empty(c) <=> Empty(s)) /\ (Colon(c) <=> Colon(s))
  BY <1>1, <1>3, <1>4, <1>5 DEF Dot, DotDot, Empty, Colon
<1>8. QED
  BY <1>1, <1>3, <1>4, <1>5, <1>6, <1>7 DEF c

\* The two passes, segment by segment.
LEMMA PassesAreMaps ==
  ASSUME NEW p \in Seq(Segments)
  PROVE  Encoded(p) = Map(EncodeSegment, p) /\ DecodeUnreserved(p) = Map(DecodeSegment, p)
<1>1. \A i \in DOMAIN p : p[i] \in Segments
  BY SMT
<1>2. QED
  BY <1>1 DEF Encoded, DecodeUnreserved, Map, EncodeSegment, DecodeSegment

\* Two paths are one if their segments are.
LEMMA PathIs ==
  ASSUME NEW S, NEW T, NEW s \in Seq(S), NEW t \in Seq(T), Len(s) = Len(t), \A i \in 1 .. Len(s) : s[i] = t[i]
  PROVE  s = t
BY SMT

\* Url::set_path leaves a path alone that it has set.
LEMMA SetPathLeaves ==
  ASSUME NEW p \in Seq(Settled), p # <<>>
  PROVE  SetPath(p) = p /\ p \in Seq(Segments)
<1>1. \A i \in 1 .. Len(p) : p[i] \in Settled
  BY SMT
<1>2. p \in Seq(Segments)
  BY SMT DEF Settled, Undotted, Wells
<1>3. \A i \in 1 .. Len(p) : ~Dotted(p[i]) /\ p[i].quote # "raw"
  BY <1>1 DEF Settled, Undotted
<1>4. RemoveDots(p) = p
  BY <1>2, <1>3, DotsLeaveAlone
<1>5. Encoded(p) = p
  <2> DEFINE e == Map(EncodeSegment, p)
  <2>1. Encoded(p) = e
    BY <1>2, PassesAreMaps
  <2>2. \A i \in 1 .. Len(p) : p[i] \in Segments
    BY SMT, <1>2
  <2>3. Maps(EncodeSegment, Segments, Segments)
    BY EncodeIs DEF Maps
  <2>4. e \in Seq(Segments) /\ Len(e) = Len(p) /\ \A i \in 1 .. Len(p) : e[i] = EncodeSegment[p[i]]
    BY SMT, <1>2, <2>3, MapIs
  <2> HIDE DEF e
  <2>5. \A i \in 1 .. Len(p) : e[i] = p[i]
    BY <1>3, <2>2, <2>4, EncodeIs, SegmentIs
  <2>6. e = p
    BY <1>2, <2>4, <2>5, PathIs
  <2>7. QED
    BY <2>1, <2>6
<1>6. QED
  BY <1>2, <1>4, <1>5 DEF SetPath

\* The canonical path: of one without broken escapes, the segments are cleaned
\* each for itself, and then the dot segments and the doubled slashes go.
Canonical(p) == SetPath(DecodeUnreserved(SetPath(CollapsePathSlashes(SetPath(p)))))
Cleaned(p) == Map(CleanSegment, p)

LEMMA CleanedIs ==
  ASSUME NEW p \in Seq(Wells)
  PROVE  /\ Cleaned(p) \in Seq(Wells) /\ Len(Cleaned(p)) = Len(p)
         /\ \A i \in 1 .. Len(p) : Cleaned(p)[i] = CleanSegment[p[i]] /\ p[i] \in Wells
<1>1. Maps(CleanSegment, Wells, Wells)
  BY CleanIs DEF Maps
<1>2. \A i \in 1 .. Len(p) : p[i] \in Wells
  BY SMT
<1>3. QED
  BY SMT, <1>1, <1>2, MapIs DEF Cleaned

LEMMA CanonicalPath ==
  ASSUME NEW p \in Seq(Wells), p # <<>>
  PROVE  /\ Canonical(p) = CollapsePathSlashes(RemoveDots(Cleaned(p)))
         /\ Canonical(p) \in Seq(Cleans) /\ Canonical(p) # <<>>
<1> DEFINE r == RemoveDots(p)
           e == Map(EncodeSegment, r)
           c == CollapsePathSlashes(e)
           d == Map(DecodeSegment, c)
<1>1. EmptySegment \in Wells /\ Wells \subseteq Segments
  <2>1. 0 <= 1
    BY SMT
  <2>2. QED
    BY <2>1, EmptyIs DEF Wells
<1>2. r \in Seq(Undotted(Wells)) /\ r # <<>>
  BY <1>1, DotsAreRemoved
<1>3. r \in Seq(Wells) /\ r \in Seq(Segments)
  <2>1. Undotted(Wells) \subseteq Wells /\ Undotted(Wells) \subseteq Segments
    BY <1>1 DEF Undotted
  <2>2. \A S, T : S \subseteq T => Seq(S) \subseteq Seq(T)
    BY SMT
  <2>3. QED
    BY <1>2, <2>1, <2>2
<1>4. ASSUME NEW s \in Undotted(Wells) PROVE EncodeSegment[s] \in Settled
  <2>1. s \in Segments /\ s.escapes <= 1 /\ ~Dotted(s)
    BY DEF Undotted, Wells
  <2>2. QED
    BY <2>1, EncodeIs DEF Settled, Undotted, Wells, Dotted, Dot, DotDot
<1>5. ASSUME NEW s \in Settled PROVE DecodeSegment[s] \in Cleans /\ s \in Segments
  <2>1. s \in Segments /\ s.escapes <= 1 /\ s.escapes \in Nat /\ ~Dotted(s) /\ s.quote # "raw"
    BY SegmentIs DEF Settled, Undotted, Wells
  <2> DEFINE x == DecodeSegment[s]
  <2>2. /\ x \in Segments /\ x.name = s.name /\ x.quote = s.quote
        /\ x.escapes = IF s.escapes = 0 THEN 0 ELSE s.escapes - 1
    BY <2>1, DecodeIs
  <2> HIDE DEF x
  <2>3. x.escapes = 0 /\ 0 <= 1
    BY SMT, <2>1, <2>2
  <2>4. x \in Cleans
    BY <2>1, <2>2, <2>3 DEF Cleans, Settled, Undotted, Wells, Dotted, Dot, DotDot
  <2>5. QED
    BY <2>1, <2>4 DEF x
<1>6. SetPath(p) = e
  BY <1>3, PassesAreMaps DEF SetPath
<1>7. e \in Seq(Settled) /\ e # <<>>
  <2>1. Maps(EncodeSegment, Undotted(Wells), Settled)
    BY <1>4 DEF Maps
  <2>2. e \in Seq(Settled) /\ Len(e) = Len(r)
    BY SMT, <1>2, <2>1, MapIs
  <2> HIDE DEF e, r
  <2>3. e # <<>>
    BY SMT, <1>2, <2>2
  <2>4. QED
    BY <2>2, <2>3
<1> HIDE DEF e
<1>8. c \in Seq(Settled) /\ c # <<>>
  BY <1>7, CollapseIs
<1> HIDE DEF c
<1>9. SetPath(c) = c /\ c \in Seq(Segments)
  BY <1>8, SetPathLeaves
<1>10. DecodeUnreserved(c) = d
  BY <1>9, PassesAreMaps
<1>11. d \in Seq(Cleans) /\ d # <<>>
  <2>1. Maps(DecodeSegment, Settled, Cleans)
    BY <1>5 DEF Maps
  <2>2. d \in Seq(Cleans) /\ Len(d) = Len(c)
    BY SMT, <1>8, <2>1, MapIs
  <2> HIDE DEF d
  <2>3. d # <<>>
    BY SMT, <1>8, <2>2
  <2>4. QED
    BY <2>2, <2>3
<1>12. SetPath(d) = d
  <2>1. d \in Seq(Settled)
    BY SMT, <1>11 DEF Cleans
  <2>2. QED
    BY <1>11, <2>1, SetPathLeaves
<1>13. Canonical(p) = d
  BY <1>6, <1>9, <1>10, <1>12 DEF Canonical, c
<1>14. d = CollapsePathSlashes(Map(DecodeSegment, e))
  <2>1. Maps(DecodeSegment, Settled, Cleans)
    BY <1>5 DEF Maps
  <2>2. \A s \in Settled : (Empty(DecodeSegment[s]) <=> Empty(s)) /\ (Colon(DecodeSegment[s]) <=> Colon(s))
    BY <1>5, DecodeIs DEF Empty, Colon
  <2>3. CollapsePathSlashes(Map(DecodeSegment, e)) = Map(DecodeSegment, CollapsePathSlashes(e))
    BY SMT, <1>7, <2>1, <2>2, CollapseMap
  <2>4. QED
    BY <2>3 DEF c
<1>15. Map(DecodeSegment, e) = Cleaned(r)
  <2>1. Len(e) = Len(r) /\ \A i \in 1 .. Len(r) : e[i] = EncodeSegment[r[i]]
    <3>1. Maps(EncodeSegment, Undotted(Wells), Settled)
      BY <1>4 DEF Maps
    <3>2. QED
      BY SMT, <1>2, <3>1, MapIs DEF e
  <2>2. DOMAIN e = 1 .. Len(r) /\ DOMAIN r = 1 .. Len(r) /\ \A i \in 1 .. Len(r) : r[i] \in Segments
    BY SMT, <1>3, <1>7, <2>1
  <2>3. QED
    BY <2>1, <2>2 DEF Map, Cleaned, CleanSegment
<1>16. Cleaned(r) = RemoveDots(Cleaned(p))
  <2>1. Maps(CleanSegment, Wells, Wells)
    BY CleanIs DEF Maps
  <2>2. \A s \in Wells : (Dot(CleanSegment[s]) <=> Dot(s)) /\ (DotDot(CleanSegment[s]) <=> DotDot(s))
    BY CleanIs
  <2>3. CleanSegment[EmptySegment] = EmptySegment
    <3> DEFINE x == CleanSegment[EmptySegment]
    <3>1. /\ x \in Wells /\ x.name = EmptySegment.name /\ x.escapes = 0
          /\ x.quote = IF EmptySegment.quote = "raw" THEN "encoded" ELSE EmptySegment.quote
      BY <1>1, CleanIs
    <3> HIDE DEF x
    <3>2. x = EmptySegment
      BY <1>1, <3>1, EmptyIs, SegmentIs
    <3>3. QED
      BY <3>2 DEF x
  <2>4. RemoveDots(Map(CleanSegment, p)) = Map(CleanSegment, RemoveDots(p))
    BY SMT, <1>1, <2>1, <2>2, <2>3, DotsMap
  <2>5. QED
    BY <2>4 DEF Cleaned
<1>17. QED
  BY <1>11, <1>13, <1>14, <1>15, <1>16

\* The canonical path is its own canonical path.
LEMMA CanonicalPathFixed ==
  ASSUME NEW p \in Seq(Wells), p # <<>>
  PROVE  Canonical(p) \in Seq(Wells) /\ Canonical(p) # <<>> /\ Canonical(Canonical(p)) = Canonical(p)
<1> DEFINE c == Canonical(p)
           x == RemoveDots(Cleaned(p))
<1>1. c = CollapsePathSlashes(x) /\ c \in Seq(Cleans) /\ c # <<>>
  BY CanonicalPath
<1>2. CollapsePathSlashes(c) = c
  <2>1. Cleaned(p) \in Seq(Wells) /\ Cleaned(p) # <<>>
    <3>1. Cleaned(p) \in Seq(Wells) /\ Len(Cleaned(p)) = Len(p)
      BY CleanedIs
    <3>2. QED
      BY SMT, <3>1
  <2>2. EmptySegment \in Wells
    <3>1. 0 <= 1
      BY SMT
    <3>2. QED
      BY <3>1, EmptyIs DEF Wells
  <2>3. x \in Seq(Undotted(Wells)) /\ x # <<>>
    BY <2>1, <2>2, DotsAreRemoved
  <2> HIDE DEF x
  <2>4. CollapsePathSlashes(CollapsePathSlashes(x)) = CollapsePathSlashes(x)
    BY <2>3, CollapseTwice
  <2>5. QED
    BY <1>1, <2>4
<1> HIDE DEF c, x
<1>3. c \in Seq(Wells) /\ \A i \in 1 .. Len(c) : c[i] \in Cleans
  BY SMT, <1>1 DEF Cleans, Settled, Undotted
<1>4. Cleaned(c) = c
  <2>1. Cleaned(c) \in Seq(Wells) /\ Len(Cleaned(c)) = Len(c) /\ \A i \in 1 .. Len(c) : Cleaned(c)[i] = CleanSegment[c[i]]
    BY <1>3, CleanedIs
  <2>2. ASSUME NEW s \in Cleans PROVE CleanSegment[s] = s
    <3>1. s \in Wells /\ s.escapes = 0 /\ s.quote # "raw"
      BY DEF Cleans, Settled, Undotted
    <3> DEFINE y == CleanSegment[s]
    <3>2. y \in Wells /\ y.name = s.name /\ y.escapes = 0 /\ y.quote = IF s.quote = "raw" THEN "encoded" ELSE s.quote
      BY <3>1, CleanIs
    <3> HIDE DEF y
    <3>3. y = s
      BY <3>1, <3>2, SegmentIs DEF Wells
    <3>4. QED
      BY <3>3 DEF y
  <2>3. QED
    BY <1>3, <2>1, <2>2, PathIs
<1>5. RemoveDots(c) = c
  <2>1. \A i \in 1 .. Len(c) : ~Dotted(c[i])
    BY <1>3 DEF Cleans, Settled, Undotted
  <2>2. QED
    BY <1>1, <1>3, <2>1, DotsLeaveAlone
<1>6. Canonical(c) = CollapsePathSlashes(RemoveDots(Cleaned(c)))
  BY <1>1, <1>3, CanonicalPath
<1>7. QED
  BY <1>1, <1>2, <1>3, <1>4, <1>5, <1>6 DEF c

\* Two spellings of a path that differ in how segments are escaped and encoded
\* have one canonical path.
LEMMA SpellingsAgree ==
  ASSUME NEW p \in Seq(Wells), p # <<>>, NEW v \in Seq(Wells), Len(v) = Len(p),
         \A i \in 1 .. Len(p) :
            v[i].name = p[i].name /\ (v[i].quote = "none" <=> p[i].quote = "none")
  PROVE  Canonical(v) = Canonical(p)
<1>1. /\ Cleaned(p) \in Seq(Wells) /\ Len(Cleaned(p)) = Len(p)
      /\ \A i \in 1 .. Len(p) : Cleaned(p)[i] = CleanSegment[p[i]] /\ p[i] \in Wells
  BY CleanedIs
<1>2. /\ Cleaned(v) \in Seq(Wells) /\ Len(Cleaned(v)) = Len(v)
      /\ \A i \in 1 .. Len(v) : Cleaned(v)[i] = CleanSegment[v[i]] /\ v[i] \in Wells
  BY CleanedIs
<1>3. ASSUME NEW s \in Wells, NEW t \in Wells, s.name = t.name, s.quote = "none" <=> t.quote = "none"
      PROVE  CleanSegment[s] = CleanSegment[t]
  <2> DEFINE a == CleanSegment[s]
             b == CleanSegment[t]
  <2>1. /\ s \in Segments /\ a \in Wells /\ a.name = s.name /\ a.escapes = 0
        /\ a.quote = IF s.quote = "raw" THEN "encoded" ELSE s.quote
    BY CleanIs
  <2>2. /\ t \in Segments /\ b \in Wells /\ b.name = t.name /\ b.escapes = 0
        /\ b.quote = IF t.quote = "raw" THEN "encoded" ELSE t.quote
    BY CleanIs
  <2> HIDE DEF a, b
  <2>3. s.quote \in {"none", "raw", "encoded"} /\ t.quote \in {"none", "raw", "encoded"}
    BY <2>1, <2>2, SegmentIs
  <2>4. a.quote = b.quote
    <3>1. CASE s.quote = "none"
      <4>1. t.quote = "none" /\ "none" # "raw"
        BY SMT, <1>3, <3>1
      <4>2. QED
        BY <2>1, <2>2, <3>1, <4>1
    <3>2. CASE s.quote # "none"
      <4>1. t.quote # "none"
        BY <1>3, <3>2
      <4>2. s.quote \in {"raw", "encoded"} /\ t.quote \in {"raw", "encoded"}
        BY <2>3, <3>2, <4>1
      <4>3. a.quote = "encoded" /\ b.quote = "encoded"
        BY <2>1, <2>2, <4>2
      <4>4. QED
        BY <4>3
    <3>3. QED
      BY <3>1, <3>2
  <2>5. a = b
    <3>1. a \in Segments /\ b \in Segments
      BY <2>1, <2>2 DEF Wells
    <3>2. a.name = b.name /\ a.escapes = b.escapes
      BY <1>3, <2>1, <2>2
    <3>3. QED
      BY <2>4, <3>1, <3>2, SegmentIs
  <2>6. QED
    BY <2>5 DEF a, b
<1>4. ASSUME NEW i \in 1 .. Len(p) PROVE Cleaned(v)[i] = Cleaned(p)[i]
  <2>1. p[i] \in Wells /\ v[i] \in Wells /\ Cleaned(p)[i] = CleanSegment[p[i]] /\ Cleaned(v)[i] = CleanSegment[v[i]]
    BY <1>1, <1>2
  <2>2. v[i].name = p[i].name /\ (v[i].quote = "none" <=> p[i].quote = "none")
    OBVIOUS
  <2>3. CleanSegment[v[i]] = CleanSegment[p[i]]
    BY <1>3, <2>1, <2>2
  <2>4. QED
    BY <2>1, <2>3
<1>5. Cleaned(v) = Cleaned(p)
  <2>1. Len(Cleaned(v)) = Len(Cleaned(p)) /\ \A i \in 1 .. Len(Cleaned(v)) : Cleaned(v)[i] = Cleaned(p)[i]
    BY <1>1, <1>2, <1>4
  <2>2. QED
    BY <1>1, <1>2, <2>1, PathIs
<1>6. v # <<>>
  BY SMT
<1>7. QED
  BY <1>5, <1>6, CanonicalPath

\* So it is if one segment is written otherwise.
LEMMA SpellingAgrees ==
  ASSUME NEW p \in Seq(Wells), p # <<>>, NEW i \in DOMAIN p, NEW t \in Wells,
         t.name = p[i].name, t.quote = "none" <=> p[i].quote = "none"
  PROVE  LET v == [p EXCEPT ![i] = t] IN v \in Seq(Wells) /\ v # <<>> /\ Canonical(v) = Canonical(p)
<1> DEFINE v == [p EXCEPT ![i] = t]
<1>1. v \in Seq(Wells) /\ Len(v) = Len(p) /\ v # <<>> /\ i \in 1 .. Len(p)
  <2> HIDE DEF Wells
  <2>1. QED
    BY SMT
<1>2. \A j \in 1 .. Len(p) : v[j] = IF j = i THEN t ELSE p[j]
  <2> HIDE DEF Wells
  <2>1. QED
    BY SMT
<1> HIDE DEF v
<1>3. \A j \in 1 .. Len(p) : v[j].name = p[j].name /\ (v[j].quote = "none" <=> p[j].quote = "none")
  BY <1>2
<1>4. Canonical(v) = Canonical(p)
  BY <1>1, <1>3, SpellingsAgree
<1>5. QED
  BY <1>1, <1>4 DEF v

\* So have a path without dot segments and that path with a slash doubled.
LEMMA DoublesAgree ==
  ASSUME NEW p \in Seq(Wells), p # <<>>, Dotless(p), NEW j \in Doublable(p)
  PROVE  /\ InsertAt(p, j, EmptySegment) \in Seq(Wells) /\ InsertAt(p, j, EmptySegment) # <<>>
         /\ Canonical(InsertAt(p, j, EmptySegment)) = Canonical(p)
<1> DEFINE v == InsertAt(p, j, EmptySegment)
<1>1. EmptySegment \in Wells
  <2>1. 0 <= 1
    BY SMT
  <2>2. QED
    BY <2>1, EmptyIs DEF Wells
<1>2. v \in Seq(Wells) /\ v # <<>> /\ CollapsePathSlashes(v) = CollapsePathSlashes(p)
  BY <1>1, CollapseDouble
<1>3. ASSUME NEW t \in Seq(Wells), t # <<>>, \A i \in 1 .. Len(t) : ~Dotted(t[i])
      PROVE  Canonical(t) = Cleaned(CollapsePathSlashes(t))
  <2>1. Maps(CleanSegment, Wells, Wells)
    BY CleanIs DEF Maps
  <2>2. /\ Cleaned(t) \in Seq(Wells) /\ Len(Cleaned(t)) = Len(t)
        /\ \A i \in 1 .. Len(t) : Cleaned(t)[i] = CleanSegment[t[i]] /\ t[i] \in Wells
    BY CleanedIs
  <2>3. \A i \in 1 .. Len(t) : ~Dotted(Cleaned(t)[i])
    BY <1>3, <2>2, CleanIs DEF Dotted
  <2>4. Cleaned(t) # <<>>
    BY SMT, <1>3, <2>2
  <2>5. RemoveDots(Cleaned(t)) = Cleaned(t)
    BY <2>2, <2>3, <2>4, DotsLeaveAlone
  <2>6. \A s \in Wells : (Empty(CleanSegment[s]) <=> Empty(s)) /\ (Colon(CleanSegment[s]) <=> Colon(s))
    BY CleanIs
  <2>7. CollapsePathSlashes(Map(CleanSegment, t)) = Map(CleanSegment, CollapsePathSlashes(t))
    BY SMT, <2>1, <2>6, CollapseMap
  <2>8. Canonical(t) = CollapsePathSlashes(RemoveDots(Cleaned(t)))
    BY <1>3, CanonicalPath
  <2>9. QED
    BY <2>5, <2>7, <2>8 DEF Cleaned
<1>4. \A i \in 1 .. Len(p) : ~Dotted(p[i])
  <2>1. DOMAIN p = 1 .. Len(p)
    BY SMT
  <2>2. QED
    BY <2>1 DEF Dotless, Dotted, Dot, DotDot
<1>5. \A i \in 1 .. Len(v) : ~Dotted(v[i])
  <2>1. \A i \in 1 .. Len(v) : v[i] = EmptySegment \/ \E k \in 1 .. Len(p) : v[i] = p[k]
    <3> DEFINE T == {EmptySegment} \cup {p[k] : k \in 1 .. Len(p)}
    <3>1. p \in Seq(T)
      BY SMT
    <3>2. EmptySegment \in T
      OBVIOUS
    <3> HIDE DEF T, v
    <3>3. v \in Seq(T)
      BY <3>1, <3>2, CollapseDouble DEF v
    <3>4. \A i \in 1 .. Len(v) : v[i] \in T
      BY SMT, <3>3
    <3>5. QED
      BY <3>4 DEF T
  <2>2. QED
    BY <1>4, <2>1, EmptyIs
<1> HIDE DEF v
<1>6. QED
  BY <1>2, <1>3, <1>4, <1>5 DEF v

-----------------------------------------------------------------------------
(* Canonical URLs                                                          *)

Addresses == [path : Paths, query : Queries, extra : BOOLEAN]

LEMMA CanonicalIs ==
  ASSUME NEW x \in Addresses
  PROVE  /\ Canonicalize(FromText(x)) = [path |-> Canonical(x.path), query |-> CanonicalQuery(x.query), extra |-> FALSE]
         /\ x.path \in Paths /\ x.query \in Queries
<1>1. x.path \in Paths /\ x.query \in Queries
  BY SMT DEF Addresses
<1>2. FromText(x).path = SetPath(x.path) /\ FromText(x).query = x.query
  BY SMT DEF FromText, Addresses
<1>3. QED
  BY <1>1, <1>2 DEF Canonicalize, Canonical

\* Url::set_path makes a path.
LEMMA SetPathIs ==
  ASSUME NEW p \in Paths
  PROVE  SetPath(p) \in Seq(Segments) /\ SetPath(p) # <<>>
<1> DEFINE r == RemoveDots(p)
<1>1. r \in Seq(Undotted(Segments)) /\ r # <<>>
  BY EmptyIs, DotsAreRemoved DEF Paths
<1> HIDE DEF r
<1>2. r \in Seq(Segments)
  <2>1. Undotted(Segments) \subseteq Segments
    BY DEF Undotted
  <2>2. \A S, T : S \subseteq T => Seq(S) \subseteq Seq(T)
    BY SMT
  <2>3. QED
    BY <1>1, <2>1, <2>2
<1>3. Maps(EncodeSegment, Segments, Segments)
  BY EncodeIs DEF Maps
<1>4. Map(EncodeSegment, r) \in Seq(Segments) /\ Len(Map(EncodeSegment, r)) = Len(r)
  BY SMT, <1>2, <1>3, MapIs
<1>5. Map(EncodeSegment, r) # <<>>
  BY SMT, <1>1, <1>2, <1>4
<1>6. QED
  BY <1>2, <1>4, <1>5, PassesAreMaps DEF SetPath, r

LEMMA WellPaths ==
  ASSUME NEW p \in Paths
  PROVE  /\ p \in Seq(Segments) /\ p # <<>> /\ DOMAIN p = 1 .. Len(p)
         /\ WellEscaped(p) => p \in Seq(Wells)
<1>1. p \in Seq(Segments) /\ p # <<>>
  BY DEF Paths
<1>2. DOMAIN p = 1 .. Len(p) /\ Len(p) \in Nat /\ \A i \in 1 .. Len(p) : p[i] \in Segments
  BY SMT, <1>1
<1>3. WellEscaped(p) => \A i \in 1 .. Len(p) : p[i] \in Wells
  BY <1>2 DEF WellEscaped, Wells
<1>4. (\A i \in 1 .. Len(p) : p[i] \in Wells) => p \in Seq(Wells)
  <2> HIDE DEF Wells
  <2>1. QED
    BY SMT, <1>1, <1>2
<1>5. QED
  BY <1>1, <1>2, <1>3, <1>4

\* The canonical URL of an address with whole escapes is its own canonical URL.
LEMMA CanonicalFixed ==
  ASSUME NEW x \in Addresses, WellEscaped(x.path)
  PROVE  LET c == Canonicalize(FromText(x))
         IN  Canonicalize(FromText(c)) = c
<1> DEFINE c == Canonicalize(FromText(x))
           d == Canonical(x.path)
           q == CanonicalQuery(x.query)
<1>1. c = [path |-> d, query |-> q, extra |-> FALSE] /\ x.path \in Paths /\ x.query \in Queries
  BY CanonicalIs
<1>2. x.path \in Seq(Wells) /\ x.path # <<>>
  BY <1>1, WellPaths
<1>3. d \in Paths /\ Canonical(d) = d
  <2>1. d \in Seq(Wells) /\ d # <<>> /\ Canonical(d) = d
    BY <1>2, CanonicalPathFixed
  <2>2. Wells \subseteq Segments
    BY DEF Wells
  <2> HIDE DEF d
  <2>3. d \in Seq(Segments)
    BY SMT, <2>1, <2>2
  <2>4. QED
    BY <2>1, <2>3 DEF Paths
<1>4. q \in Queries /\ CanonicalQuery(q) = q
  BY <1>1, QueryIsCanonical
<1> HIDE DEF c, d, q
<1>5. c \in Addresses /\ c.path = d /\ c.query = q
  BY SMT, <1>1, <1>3, <1>4 DEF Addresses
<1>6. Canonicalize(FromText(c)) = [path |-> Canonical(c.path), query |-> CanonicalQuery(c.query), extra |-> FALSE]
  BY <1>5, CanonicalIs
<1>7. QED
  BY <1>1, <1>3, <1>4, <1>5, <1>6 DEF c
=============================================================================
