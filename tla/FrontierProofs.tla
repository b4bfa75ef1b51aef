--------------------------- MODULE FrontierProofs ---------------------------
(***************************************************************************)
(* Proofs about Frontier for any sets of URLs, hosts and workers, any      *)
(* quota, lease and batch limit: the list lemmas of RedisLists, type       *)
(* correctness, what each step does to the keys the safety properties      *)
(* speak of, the inductive invariant and what follows from it, and that    *)
(* Frontier implements UrlDelivery.                                        *)
(***************************************************************************)
EXTENDS FrontierRefinement, WellFoundedInduction, FiniteSetTheorems, TLAPS

-----------------------------------------------------------------------------
(* What RPUSH, LPOP and LREM do to membership and to distinctness          *)

\* A non-empty set of naturals has a least element: induction, in the form
\* the provers can use.
LEMMA LeastNat ==
  ASSUME NEW T, T \subseteq Nat, T # {}
  PROVE  \E n \in T : \A m \in T : n <= m
<1>1. PICK x \in T : \A y \in T : <<y, x>> \notin OpToRel(<, Nat)
  BY NatLessThanWellFounded, WFMin, Zenon
<1>2. \A y, z \in Nat : y < z => <<y, z>> \in OpToRel(<, Nat)
  BY Zenon DEF OpToRel
<1>3. \A y \in T : ~(y < x)
  BY <1>1, <1>2, Zenon
<1>4. QED
  BY <1>3, SMT

\* RPUSH adds its element and nothing else.
LEMMA PushContains ==
  ASSUME NEW S, NEW s \in Seq(S), NEW e \in S, NEW x
  PROVE  Contains(Append(s, e), x) <=> Contains(s, x) \/ x = e
<1>1. Len(Append(s, e)) = Len(s) + 1 /\ Append(s, e)[Len(s) + 1] = e
  OBVIOUS
<1>2. \A i \in 1 .. Len(s) : Append(s, e)[i] = s[i]
  OBVIOUS
<1>3. QED
  BY <1>1, <1>2 DEF Contains

\* LPOP removes one occurrence of the head and nothing else.
LEMMA PopContains ==
  ASSUME NEW S, NEW s \in Seq(S), s # << >>, NEW x
  PROVE  Contains(s, x) <=> Contains(Tail(s), x) \/ x = Head(s)
<1>1. Len(Tail(s)) = Len(s) - 1 /\ Head(s) = s[1] /\ Len(s) \in Nat \ {0}
  OBVIOUS
<1>2. \A i \in 1 .. Len(Tail(s)) : Tail(s)[i] = s[i + 1]
  OBVIOUS
<1>3. ASSUME NEW i \in 1 .. Len(s), s[i] = x, x # Head(s)
      PROVE  Contains(Tail(s), x)
  <2>1. i - 1 \in 1 .. Len(Tail(s)) /\ Tail(s)[i - 1] = x
    BY <1>1, <1>2, <1>3
  <2>2. QED
    BY <2>1, Zenon DEF Contains
<1>4. ASSUME NEW i \in 1 .. Len(Tail(s)), Tail(s)[i] = x
      PROVE  Contains(s, x)
  <2>1. i + 1 \in 1 .. Len(s) /\ s[i + 1] = x
    BY <1>1, <1>2, <1>4
  <2>2. QED
    BY <2>1, Zenon DEF Contains
<1>5. QED
  BY <1>1, <1>3, <1>4 DEF Contains

\* RPUSH of an element that is not there keeps a list free of repetitions.
LEMMA PushInjective ==
  ASSUME NEW S, NEW s \in Seq(S), NEW e \in S, IsInjective(s), ~Contains(s, e)
  PROVE  IsInjective(Append(s, e))
<1>1. DOMAIN Append(s, e) = 1 .. Len(s) + 1 /\ DOMAIN s = 1 .. Len(s)
  OBVIOUS
<1>2. Append(s, e)[Len(s) + 1] = e /\ Len(s) \in Nat
  OBVIOUS
<1>3. \A i \in 1 .. Len(s) : Append(s, e)[i] = s[i] /\ s[i] # e
  BY DEF Contains
<1>4. \A i, j \in 1 .. Len(s) : s[i] = s[j] => i = j
  BY <1>1, Zenon DEF IsInjective
<1>5. \A i, j \in 1 .. Len(s) + 1 : Append(s, e)[i] = Append(s, e)[j] => i = j
  BY <1>2, <1>3, <1>4
<1>6. QED
  BY <1>1, <1>5, Zenon DEF IsInjective

\* LPOP keeps a list free of repetitions, and its head is gone.
LEMMA PopInjective ==
  ASSUME NEW S, NEW s \in Seq(S), s # << >>, IsInjective(s)
  PROVE  IsInjective(Tail(s)) /\ ~Contains(Tail(s), Head(s))
<1>1. DOMAIN s = 1 .. Len(s) /\ DOMAIN Tail(s) = 1 .. Len(Tail(s))
  OBVIOUS
<1>2. Len(Tail(s)) = Len(s) - 1 /\ Head(s) = s[1] /\ Len(s) \in Nat \ {0}
  OBVIOUS
<1>3. \A i \in 1 .. Len(Tail(s)) : Tail(s)[i] = s[i + 1] /\ i + 1 \in 1 .. Len(s)
  OBVIOUS
<1>4. QED
  BY <1>1, <1>2, <1>3 DEF IsInjective, Contains

\* The prefix function behind LREM: Keep(s, x)[i] is s[1 .. i] without x.
KeepBody(s, x, F, i) ==
  IF i = 0 THEN << >> ELSE IF s[i] = x THEN F[i - 1] ELSE Append(F[i - 1], s[i])
IsKeepFn(s, x, F) == F = [i \in 0 .. Len(s) |-> KeepBody(s, x, F, i)]
Keep(s, x) == CHOOSE F : IsKeepFn(s, x, F)

\* The recursion of LREM defines a function on the prefixes of any list.
LEMMA KeepExists ==
  ASSUME NEW S, NEW s \in Seq(S), NEW x
  PROVE  \E F : IsKeepFn(s, x, F)
<1> DEFINE Good(n) == \E F \in [0 .. n -> Seq(S)] :
                        F = [i \in 0 .. n |-> KeepBody(s, x, F, i)]
           Bad == {n \in 0 .. Len(s) : ~Good(n)}
<1>1. SUFFICES Bad = {}
  <2>1. Len(s) \in 0 .. Len(s)
    OBVIOUS
  <2>2. Good(Len(s))
    BY Zenon, <1>1, <2>1
  <2>3. QED
    BY <2>2, Zenon DEF IsKeepFn
<1>2. SUFFICES ASSUME NEW n \in Bad, \A m \in Bad : n <= m
               PROVE  FALSE
  <2>1. Bad \subseteq Nat
    OBVIOUS
  <2>2. QED
    BY Zenon, <1>2, <2>1, LeastNat
<1>3. CASE n = 0
  <2> DEFINE G == [i \in 0 .. 0 |-> << >>]
  <2>1. G \in [0 .. 0 -> Seq(S)]
    OBVIOUS
  <2>2. G = [i \in 0 .. 0 |-> KeepBody(s, x, G, i)]
    BY DEF KeepBody
  <2>3. Good(0)
    BY Zenon, <2>1, <2>2
  <2>4. QED
    BY <1>3, <2>3, Zenon
<1>4. CASE n # 0
  <2>1. n \in 1 .. Len(s) /\ n - 1 \in 0 .. Len(s) /\ Good(n - 1)
    <3> HIDE DEF Good
    <3> QED
      BY <1>2, <1>4
  <2>2. PICK F \in [0 .. n - 1 -> Seq(S)] :
           F = [i \in 0 .. n - 1 |-> KeepBody(s, x, F, i)]
    BY <2>1, Zenon
  <2> DEFINE last == IF s[n] = x THEN F[n - 1] ELSE Append(F[n - 1], s[n])
             G == [i \in 0 .. n |-> IF i = n THEN last ELSE F[i]]
  <2>3. last \in Seq(S)
    BY <2>1, <2>2
  <2>4. G \in [0 .. n -> Seq(S)]
    BY <2>1, <2>2, <2>3
  <2>5. ASSUME NEW i \in 0 .. n
        PROVE  G[i] = KeepBody(s, x, G, i)
    <3>1. CASE i = n
      <4> HIDE DEF last
      <4>1. n - 1 \in 0 .. n /\ n - 1 # n /\ n # 0
        BY <2>1
      <4>2. G[n] = last /\ G[n - 1] = F[n - 1]
        BY <2>1, <4>1
      <4> HIDE DEF G
      <4>3. KeepBody(s, x, G, n) = last
        BY <4>1, <4>2, Zenon DEF KeepBody, last
      <4>4. QED
        BY <3>1, <4>2, <4>3, Zenon
    <3>2. CASE i # n
      <4> HIDE DEF last
      <4>1. i \in 0 .. n - 1 /\ G[i] = F[i]
        BY <2>1, <3>2
      <4>a. F[i] = KeepBody(s, x, F, i)
        BY <2>2, <4>1, Zenon
      <4>2. i # 0 => G[i - 1] = F[i - 1]
        BY <2>1, <3>2
      <4>3. QED
        BY <4>1, <4>a, <4>2, Zenon DEF KeepBody
    <3>3. QED
      BY <3>1, <3>2, Zenon
  <2>6. G = [i \in 0 .. n |-> KeepBody(s, x, G, i)]
    BY Zenon, <2>5
  <2>7. Good(n)
    BY Zenon, <2>4, <2>6
  <2>8. QED
    BY <2>7, Zenon
<1>5. QED
  BY <1>3, <1>4, Zenon

\* LREM is that function at the whole list.
LEMMA KeepDef ==
  ASSUME NEW S, NEW s \in Seq(S), NEW x
  PROVE  LRem(s, x) = Keep(s, x)[Len(s)] /\ IsKeepFn(s, x, Keep(s, x))
<1>1. LRem(s, x) = Keep(s, x)[Len(s)]
  BY Zenon DEF LRem, Keep, IsKeepFn, KeepBody
<1>2. \E F : IsKeepFn(s, x, F)
  BY Zenon, KeepExists
<1>3. QED
  BY <1>1, <1>2, Zenon DEF Keep

\* LREM removes every occurrence of its element and nothing else.
LEMMA LRemContains ==
  ASSUME NEW S, NEW s \in Seq(S), NEW x
  PROVE  /\ LRem(s, x) \in Seq(S)
         /\ \A y : Contains(LRem(s, x), y) <=> Contains(s, y) /\ y # x
<1> DEFINE P == Keep(s, x)
           Good(n) == /\ P[n] \in Seq(S)
                      /\ \A y : Contains(P[n], y) <=> y # x /\ \E i \in 1 .. n : s[i] = y
           Bad == {n \in 0 .. Len(s) : ~Good(n)}
<1>0. LRem(s, x) = P[Len(s)] /\ \A n \in 0 .. Len(s) : P[n] = KeepBody(s, x, P, n)
  <2>1. LRem(s, x) = P[Len(s)] /\ P = [i \in 0 .. Len(s) |-> KeepBody(s, x, P, i)]
    BY KeepDef DEF IsKeepFn
  <2> HIDE DEF P
  <2>2. QED
    BY <2>1, Zenon
<1> HIDE DEF P
<1>1. SUFFICES Bad = {}
  <2>1. Len(s) \in 0 .. Len(s)
    OBVIOUS
  <2>2. Good(Len(s))
    <3> HIDE DEF Good
    <3> QED
      BY <1>1, <2>1, Zenon
  <2>3. \A y : Contains(s, y) <=> \E i \in 1 .. Len(s) : s[i] = y
    BY Zenon DEF Contains
  <2>4. QED
    BY <1>0, <2>2, <2>3, Zenon
<1>2. SUFFICES ASSUME NEW n \in Bad, \A m \in Bad : n <= m
               PROVE  FALSE
  <2>1. Bad \subseteq Nat
    OBVIOUS
  <2>2. QED
    BY Zenon, <1>2, <2>1, LeastNat
<1>3. CASE n = 0
  <2>1. P[0] = << >>
    BY <1>0 DEF KeepBody
  <2>2. Good(0)
    BY <2>1 DEF Contains
  <2>3. QED
    BY <1>3, <2>2, Zenon
<1>4. CASE n # 0
  <2>1. n \in 1 .. Len(s) /\ Good(n - 1)
    <3> HIDE DEF Good
    <3>1. n \in 1 .. Len(s) /\ n - 1 \in 0 .. Len(s)
      BY <1>4
    <3>2. QED
      BY <1>2, <3>1
  <2>2. P[n] = IF s[n] = x THEN P[n - 1] ELSE Append(P[n - 1], s[n])
    BY <1>0, <2>1 DEF KeepBody
  <2>3. s[n] \in S /\ \A y : (\E i \in 1 .. n : s[i] = y) <=> y = s[n] \/ \E i \in 1 .. n - 1 : s[i] = y
    BY <2>1
  <2>4. CASE s[n] = x
    BY <2>1, <2>2, <2>3, <2>4, Zenon
  <2>5. CASE s[n] # x
    <3>1. P[n] = Append(P[n - 1], s[n]) /\ P[n] \in Seq(S)
      BY <2>1, <2>2, <2>3, <2>5
    <3>2. \A y : Contains(P[n], y) <=> Contains(P[n - 1], y) \/ y = s[n]
      BY <2>1, <2>3, <3>1, PushContains
    <3>3. Good(n)
      BY <2>1, <2>3, <2>5, <3>1, <3>2, Zenon
    <3>4. QED
      BY <3>3, Zenon
  <2>6. QED
    BY <2>4, <2>5, Zenon
<1>5. QED
  BY <1>3, <1>4, Zenon

-----------------------------------------------------------------------------
(* Type correctness                                                        *)

\* A batch is a sequence of URLs.
LEMMA BatchesAreSequences == \A b \in Batches : b \in Seq(Urls)
BY BoundAssumption DEF Batches

\* A worker between claim and ack holds a URL.
JobHeld ==
  \A w \in Workers : pc[w] \in {"claimed", "planned", "acking"} => job[w] \in Urls

TypeInv == TypeOK /\ JobHeld

\* The empty frontier is well typed.
LEMMA TypeInit == Init => TypeInv
BY HostOfAssumption, BoundAssumption DEF Init, TypeInv, TypeOK, JobHeld, Score, NoScore

\* The keys that Enqueue writes keep their types.
LEMMA EnqueueTyped ==
  ASSUME TypeOK, NEW u \in Urls, Enqueue(u)
  PROVE  /\ seen' \subseteq Urls /\ urls' \subseteq Urls /\ admitted' \subseteq Urls
         /\ host_queue' \in [Hosts -> Seq(Urls)] /\ wake' \in [Hosts -> Score]
<1>1. seen' \subseteq Urls /\ urls' \subseteq Urls /\ admitted' \subseteq Urls
  BY Zenon DEF Enqueue, TypeOK
<1>2. host_queue \in [Hosts -> Seq(Urls)] /\ wake \in [Hosts -> Score]
  BY Zenon DEF TypeOK
<1>3. HostOf[u] \in Hosts
  BY HostOfAssumption, Zenon
<1>4. host_queue' \in [Hosts -> Seq(Urls)]
  BY <1>2, <1>3 DEF Enqueue
<1>5. wake' \in [Hosts -> Score]
  BY <1>2, <1>3, Zenon DEF Enqueue, ZaddNX, Score
<1>6. QED
  BY <1>1, <1>4, <1>5, Zenon

\* Every script, command and tick keeps the types.
LEMMA TypeNext == TypeInv /\ [Next]_vars => TypeInv'
<1> SUFFICES ASSUME TypeInv, [Next]_vars PROVE TypeInv'
  OBVIOUS
<1> USE NoUrlAssumption, HostOfAssumption, TimeAssumption, BoundAssumption
    DEF TypeInv, TypeOK, JobHeld, Score, NoScore, redis, script, workers, seenVars
<1>1. ASSUME NEW u \in Urls, Submit(u) PROVE TypeInv'
  <2>1. UNCHANGED <<ready, inflight, batch, due, expired, tick, pc, job, faults, acked, floor>>
    BY <1>1, Zenon DEF Submit
  <2>2. CASE Enqueue(u) /\ UNCHANGED <<host_count, counted>>
    BY <2>1, <2>2, EnqueueTyped, Zenon
  <2>3. CASE BloomHit(u)
    BY <2>1, <2>3, Zenon DEF BloomHit
  <2>4. QED
    BY <1>1, <2>2, <2>3, Zenon DEF Submit
<1>2. ASSUME NEW b \in Batches, SubmitBatch(b) PROVE TypeInv'
  BY <1>2, BatchesAreSequences, Zenon DEF SubmitBatch
<1>3. CASE BatchStep
  <2> DEFINE u == Head(batch)
  <2>1. u \in Urls /\ batch' \in Seq(Urls)
    BY <1>3 DEF BatchStep
  <2>2. UNCHANGED <<ready, inflight, due, expired, tick, pc, job, faults, acked, floor>>
    BY <1>3, Zenon DEF BatchStep
  <2> HIDE DEF u
  <2>3. CASE UNCHANGED <<seen, urls, host_queue, host_count, wake, seenVars>>
    BY <2>1, <2>2, <2>3, Zenon
  <2>4. CASE BatchEnqueue(u)
    <3>1. host_count' \in [Hosts -> Nat]
      BY <2>1, <2>4 DEF BatchEnqueue
    <3>2. /\ host_queue' \in [Hosts -> Seq(Urls)] /\ wake' \in [Hosts -> Score]
          /\ seen' \subseteq Urls /\ urls' \subseteq Urls
          /\ admitted' \subseteq Urls /\ counted' \subseteq Urls
      BY <2>1, <2>4, EnqueueTyped, Zenon DEF BatchEnqueue
    <3>3. QED
      BY Zenon, <2>1, <2>2, <3>1, <3>2
  <2>5. CASE BloomHit(u)
    BY <2>1, <2>2, <2>5, Zenon DEF BloomHit
  <2>6. QED
    BY <1>3, <2>3, <2>4, <2>5, Zenon DEF BatchStep, u
<1>4. ASSUME NEW w \in Workers, Claim(w) \/ ClaimEmpty(w) PROVE TypeInv'
  BY <1>4, Zenon DEF Claim, ClaimEmpty
<1>5. ASSUME NEW w \in Workers, ClaimStale(w) PROVE TypeInv'
  <2>1. ready' \in Seq(Hosts)
    BY <1>5 DEF ClaimStale
  <2>2. QED
    BY <1>5, <2>1, Zenon DEF ClaimStale
<1>6. ASSUME NEW w \in Workers, ClaimUrl(w) PROVE TypeInv'
  <2> DEFINE h == Head(ready)
             u == Head(host_queue[h])
  <2>1. /\ h \in Hosts /\ host_queue[h] # << >>
        /\ Tail(ready) \in Seq(Hosts)
    BY <1>6 DEF ClaimUrl
  <2>2. u \in Urls /\ Tail(host_queue[h]) \in Seq(Urls)
    <3>1. host_queue[h] \in Seq(Urls)
      BY <2>1, Zenon
    <3>2. QED
      BY ONLY <2>1, <3>1
  <2>3. QED
    BY <1>6, <2>1, <2>2, Zenon DEF ClaimUrl, Stamp
<1>7. ASSUME NEW w \in Workers, NEW d \in 0 .. MaxDelay, AdvanceWake(w, d)
      PROVE  TypeInv'
  <2>1. ready' \in Seq(Hosts)
    BY <1>7, LRemContains DEF AdvanceWake
  <2>2. QED
    BY <1>7, <2>1 DEF AdvanceWake
<1>8. ASSUME NEW w \in Workers, AckLease(w) PROVE TypeInv'
  BY <1>8, Zenon DEF AckLease, Release
<1>9. ASSUME NEW w \in Workers, AckPayload(w) PROVE TypeInv'
  BY <1>9, Zenon DEF AckPayload
<1>18. ASSUME NEW w \in Workers, Abandon(w) PROVE TypeInv'
  <2>1. faults' \in 0 .. MaxFaults
    BY <1>18 DEF Abandon
  <2>2. QED
    BY <1>18, <2>1, Zenon DEF Abandon
<1>10. CASE TickPromote
  BY <1>10, Zenon DEF TickPromote, FirstOf
<1>11. CASE PromoteStep
  BY <1>11 DEF PromoteStep
<1>12. CASE TickReclaim
  BY <1>12, Zenon DEF TickReclaim, FirstOf
<1>13. CASE ReclaimStep
  BY <1>13 DEF ReclaimStep, Release, ZaddNX
<1>14. CASE TickFails
  BY <1>14 DEF TickFails
<1>15. CASE Elapse
  <2>1. \A t \in Score : Sooner(t) \in Score
    BY DEF Sooner
  <2>2. \A t \in Nat : Sooner(t) \in Nat
    BY DEF Sooner
  <2>3. /\ wake' \in [Hosts -> Score] /\ inflight' \in [Urls -> Score]
        /\ floor' \in [Hosts -> Nat]
    BY <1>15, <2>1, <2>2, Zenon DEF Elapse
  <2>4. QED
    BY <1>15, <2>3, Zenon DEF Elapse
<1>16. CASE UNCHANGED vars
  BY <1>16, Zenon DEF vars
<1>17. QED
  BY Zenon, <1>1, <1>2, <1>3, <1>4, <1>5, <1>6, <1>7, <1>8, <1>9, <1>10, <1>11,
     <1>12, <1>13, <1>14, <1>15, <1>16, <1>18 DEF Next

\* Every reachable state is well typed; in particular no script ever pops,
\* leases or acknowledges something that is not a URL of the shard.
THEOREM TypeCorrect == Spec => []TypeOK
<1>1. TypeInv => TypeOK
  BY Zenon DEF TypeInv
<1>2. QED
  BY <1>1, TypeInit, TypeNext, PTL DEF Spec

-----------------------------------------------------------------------------
(* How a push and a pop change who is queued where                         *)

\* RPUSH of a URL to its host's queue adds that URL there and nothing else.
LEMMA QueuePush ==
  ASSUME TypeOK, NEW u \in Urls,
         host_queue' = [host_queue EXCEPT ![HostOf[u]] = Append(@, u)]
  PROVE  /\ \A h \in Hosts : \A x \in Urls :
               Contains(host_queue'[h], x)
                 <=> Contains(host_queue[h], x) \/ (h = HostOf[u] /\ x = u)
         /\ ~Contains(host_queue[HostOf[u]], u) =>
              \A h \in Hosts :
                IsInjective(host_queue[h]) => IsInjective(host_queue'[h])
         /\ \A h \in Hosts : h # HostOf[u] => host_queue'[h] = host_queue[h]
<1> DEFINE g == HostOf[u]
<1>1. g \in Hosts /\ host_queue[g] \in Seq(Urls)
  BY HostOfAssumption, Zenon DEF TypeOK
<1>2. host_queue'[g] = Append(host_queue[g], u)
  BY <1>1, Zenon DEF TypeOK
<1>3. \A h \in Hosts : h # g => host_queue'[h] = host_queue[h]
  BY Zenon DEF TypeOK
<1> HIDE DEF g
<1>4. \A x \in Urls :
        Contains(host_queue'[g], x) <=> Contains(host_queue[g], x) \/ x = u
  BY <1>1, <1>2, PushContains
<1>5. IsInjective(host_queue[g]) /\ ~Contains(host_queue[g], u)
        => IsInjective(host_queue'[g])
  BY <1>1, <1>2, PushInjective, Zenon
<1>6. QED
  BY <1>3, <1>4, <1>5, Zenon DEF g

\* LPOP of a host's queue removes its head and nothing else.
LEMMA QueuePop ==
  ASSUME TypeOK, NEW g \in Hosts, NEW u \in Urls, host_queue[g] # << >>,
         u = Head(host_queue[g]), host_queue'[g] = Tail(host_queue[g]),
         \A h \in Hosts : h # g => host_queue'[h] = host_queue[h]
  PROVE  /\ \A h \in Hosts : \A x \in Urls :
               Contains(host_queue[h], x)
                 <=> Contains(host_queue'[h], x) \/ (h = g /\ x = u)
         /\ \A h \in Hosts :
              IsInjective(host_queue[h]) =>
                IsInjective(host_queue'[h]) /\ (h = g => ~Contains(host_queue'[h], u))
<1>1. host_queue[g] \in Seq(Urls) /\ host_queue'[g] = Tail(host_queue[g])
  BY Zenon DEF TypeOK
<1>2. \A x \in Urls :
        Contains(host_queue[g], x) <=> Contains(host_queue'[g], x) \/ x = u
  BY <1>1, PopContains
<1>3. IsInjective(host_queue[g]) =>
        IsInjective(host_queue'[g]) /\ ~Contains(host_queue'[g], u)
  BY <1>1, PopInjective, Zenon
<1>4. QED
  BY <1>2, <1>3, Zenon

\* Enqueue, the only way into the system, keeps everything it does not add.
LEMMA EnqueueEffect ==
  ASSUME TypeOK, NEW u \in Urls, Enqueue(u)
  PROVE  /\ u \notin seen /\ HostOf[u] \in Hosts
         /\ seen' = seen \cup {u} /\ urls' = urls \cup {u}
         /\ admitted' = admitted \cup {u}
         /\ \A h \in Hosts : wake[h] # NoScore => wake'[h] = wake[h]
         /\ \A h \in Hosts : h # HostOf[u] => wake'[h] = wake[h]
         /\ wake'[HostOf[u]] # NoScore
BY HostOfAssumption DEF Enqueue, Fresh, ZaddNX, TypeOK, NoScore, Score

-----------------------------------------------------------------------------
(* Steps by what they do to the keys the safety properties speak of        *)

Quiet == UNCHANGED <<seen, urls, host_queue, wake, ready, inflight, acked,
                     floor, admitted>>
Frame == UNCHANGED <<ready, inflight, due, expired, pc, job, acked, floor>>
Skip ==
  /\ seen' = seen \/ \E u \in Urls : seen' = seen \cup {u}
  /\ UNCHANGED <<urls, host_queue, wake, admitted>>

\* A submit, single or one entry of a batch, enqueues a new URL or changes
\* nothing but the Bloom filter.
LEMMA SubmitKinds ==
  ASSUME TypeOK, BatchStep \/ \E u \in Urls : Submit(u)
  PROVE  Frame /\ (Skip \/ \E u \in Urls : Enqueue(u))
<1>1. ASSUME NEW u \in Urls, Submit(u)
      PROVE  Frame /\ (Skip \/ Enqueue(u))
  BY <1>1, Zenon DEF Submit, BloomHit, Frame, Skip, script, workers, seenVars
<1>2. CASE BatchStep
  <2> DEFINE u == Head(batch)
  <2>1. u \in Urls
    BY <1>2 DEF BatchStep, TypeOK
  <2>2. Frame /\ (Skip \/ Enqueue(u))
    BY <1>2, <2>1, Zenon DEF BatchStep, BatchEnqueue, BloomHit, Frame, Skip, workers, seenVars
  <2>3. QED
    BY <2>1, <2>2, Zenon
<1>3. QED
  BY <1>1, <1>2, Zenon

\* What a step can do to the queues, leases and wake-times: nothing, one
\* submit, or one of the actions named.
LEMMA StepKinds ==
  ASSUME TypeOK, [Next]_vars
  PROVE  \/ Quiet
         \/ Frame /\ (Skip \/ \E u \in Urls : Enqueue(u))
         \/ \E w \in Workers :
              \/ ClaimStale(w) \/ ClaimUrl(w) \/ AckLease(w) \/ AckPayload(w)
              \/ \E d \in 0 .. MaxDelay : AdvanceWake(w, d)
         \/ PromoteStep \/ ReclaimStep \/ Elapse
<1>1. ASSUME NEW b \in Batches, SubmitBatch(b) PROVE Quiet
  BY <1>1, Zenon DEF SubmitBatch, Quiet, redis, seenVars
<1>2. ASSUME NEW w \in Workers, Claim(w) \/ ClaimEmpty(w) \/ Abandon(w)
      PROVE  Quiet
  BY <1>2, Zenon DEF Claim, ClaimEmpty, Abandon, Quiet, redis, seenVars
<1>3. ASSUME TickPromote \/ TickReclaim \/ TickFails PROVE Quiet
  BY <1>3, Zenon DEF TickPromote, TickReclaim, TickFails, Quiet, redis, seenVars
<1>4. ASSUME UNCHANGED vars PROVE Quiet
  BY <1>4, Zenon DEF vars, Quiet, redis, seenVars
<1>5. QED
  BY <1>1, <1>2, <1>3, <1>4, SubmitKinds, Zenon DEF Next

-----------------------------------------------------------------------------
(* A claim, spelled out                                                    *)

\* claim.lua moves u, the head of the first ready host h, to `inflight' and
\* stamps the safety wake-time.
Claims(w, h, u) ==
  /\ ready # << >> /\ h = Head(ready) /\ ready' = Tail(ready)
  /\ host_queue[h] # << >> /\ u = Head(host_queue[h])
  /\ \A g \in Hosts : g # h => host_queue'[g] = host_queue[g]
  /\ \A g \in Hosts : \A x \in Urls :
       Contains(host_queue[g], x)
         <=> Contains(host_queue'[g], x) \/ (g = h /\ x = u)
  /\ \A g \in Hosts :
       IsInjective(host_queue[g]) =>
         IsInjective(host_queue'[g]) /\ (g = h => ~Contains(host_queue'[g], u))
  /\ wake' = [wake EXCEPT ![h] = LeaseTimeout]
  /\ inflight' = [inflight EXCEPT ![u] = LeaseTimeout]
  /\ \/ pc' = [pc EXCEPT ![w] = "claimed"] /\ job' = [job EXCEPT ![w] = u]
     \/ pc' = [pc EXCEPT ![w] = "idle"] /\ UNCHANGED job
  /\ UNCHANGED <<seen, urls, due, expired, acked, floor, admitted, counted>>

\* A claim that finds a URL is such a step for some host and URL.
LEMMA ClaimEffect ==
  ASSUME TypeOK, NEW w \in Workers, ClaimUrl(w)
  PROVE  \E h \in Hosts : \E u \in Urls : Claims(w, h, u)
<1> DEFINE h == Head(ready)
           u == Head(host_queue[h])
<1>1. h \in Hosts /\ host_queue[h] # << >>
  BY DEF ClaimUrl, TypeOK
<1>2. u \in Urls
  BY <1>1 DEF TypeOK
<1>3. /\ host_queue'[h] = Tail(host_queue[h])
      /\ \A g \in Hosts : g # h => host_queue'[g] = host_queue[g]
  BY <1>1, Zenon DEF ClaimUrl, TypeOK
<1>4. /\ \A g \in Hosts : \A x \in Urls :
           Contains(host_queue[g], x)
             <=> Contains(host_queue'[g], x) \/ (g = h /\ x = u)
      /\ \A g \in Hosts :
           IsInjective(host_queue[g]) =>
             IsInjective(host_queue'[g]) /\ (g = h => ~Contains(host_queue'[g], u))
  <2> HIDE DEF h
  <2> QED
    BY <1>1, <1>2, <1>3, QueuePop, Zenon
<1>5. /\ ready # << >> /\ ready' = Tail(ready)
      /\ wake' = [wake EXCEPT ![h] = LeaseTimeout]
      /\ inflight' = [inflight EXCEPT ![u] = LeaseTimeout]
      /\ \/ pc' = [pc EXCEPT ![w] = "claimed"] /\ job' = [job EXCEPT ![w] = u]
         \/ pc' = [pc EXCEPT ![w] = "idle"] /\ UNCHANGED job
      /\ UNCHANGED <<seen, urls, due, expired, acked, floor, admitted, counted>>
  BY Zenon DEF ClaimUrl, Stamp, script, seenVars
<1>6. Claims(w, h, u)
  BY <1>1, <1>3, <1>4, <1>5, Zenon DEF Claims
<1>7. QED
  BY <1>1, <1>2, <1>6, Zenon

\* The passing of time neither starts nor ends a lease: a score stops at 0.
LEMMA ElapseLeased ==
  ASSUME TypeOK, Elapse
  PROVE  \A x \in Urls : Leased(x)' <=> Leased(x)
<1>1. \A x \in Urls : inflight[x] \in Score
  BY Zenon DEF TypeOK
<1>2. \A x \in Urls : inflight'[x] = Sooner(inflight[x])
  BY Zenon DEF Elapse
<1>3. \A s \in Score : Sooner(s) # NoScore <=> s # NoScore
  BY DEF Sooner, Score, NoScore
<1>4. QED
  BY <1>1, <1>2, <1>3, Zenon DEF Leased

-----------------------------------------------------------------------------
(* The inductive invariant                                                 *)

\* What the running script still has to process is as it was when the script
\* read it: hosts are still due, leases still expired.
ScriptInv ==
  /\ \A h \in due : wake[h] = 0
  /\ \A u \in expired : inflight[u] = 0
  /\ due # {} \/ expired # {} => \A w \in Workers : pc[w] # "claiming"

\* The Bloom filter knows every URL that is anywhere in the system.
SeenInv ==
  /\ admitted \subseteq seen /\ counted \subseteq seen /\ acked \subseteq seen
  /\ \A u \in Urls : Leased(u) => u \in seen
  /\ \A h \in Hosts : \A u \in Urls : Contains(host_queue[h], u) => u \in seen
  /\ \A w \in Workers :
       /\ pc[w] \in {"claimed", "planned", "acking"} => job[w] \in seen
       /\ pc[w] = "acking" => job[w] \in acked

\* The counter of a capped host is exact and within its cap.
QuotaInv ==
  \A h \in Hosts :
    MaxUrls[h] >= 0 =>
      /\ host_count[h] = Cardinality({u \in counted : HostOf[u] = h})
      /\ host_count[h] <= MaxUrls[h]

IInv ==
  /\ TypeInv /\ ScriptInv /\ SeenInv /\ QuotaInv
  /\ SingleCopy /\ NothingLost /\ NoStrandedHost /\ WakePlanHeld

-----------------------------------------------------------------------------
(* Each part of the invariant is preserved                                 *)

\* Every step keeps a URL in one place: submits are new, a claim pops before
\* it leases, a reclaim releases before it pushes.
LEMMA CopyNext ==
  ASSUME TypeInv, ScriptInv, SeenInv, SingleCopy, [Next]_vars
  PROVE  SingleCopy'
<1> USE DEF TypeInv
<1>1. CASE Quiet
  BY <1>1, Zenon DEF Quiet, SingleCopy, Leased
<1>2. CASE Frame /\ Skip
  BY <1>2, Zenon DEF Frame, Skip, SingleCopy, Leased
<1>3. ASSUME Frame, NEW u \in Urls, Enqueue(u) PROVE SingleCopy'
  <2>1. u \notin seen /\ host_queue' = [host_queue EXCEPT ![HostOf[u]] = Append(@, u)]
    BY <1>3 DEF Enqueue, Fresh
  <2>2. ~Leased(u) /\ ~Contains(host_queue[HostOf[u]], u) /\ HostOf[u] \in Hosts
    BY <2>1, HostOfAssumption, Zenon DEF SeenInv, TypeOK
  <2>3. \A x \in Urls : Leased(x)' <=> Leased(x)
    BY <1>3, Zenon DEF Frame, Leased
  <2>4. /\ \A h \in Hosts : \A x \in Urls :
               Contains(host_queue'[h], x)
                 <=> Contains(host_queue[h], x) \/ (h = HostOf[u] /\ x = u)
        /\ \A h \in Hosts :
             IsInjective(host_queue[h]) => IsInjective(host_queue'[h])
    BY Zenon, <2>1, <2>2, QueuePush
  <2>5. QED
    BY ONLY <2>2, <2>3, <2>4, SingleCopy, Zenon DEF SingleCopy
<1>4. ASSUME NEW w \in Workers, ClaimUrl(w) PROVE SingleCopy'
  <2>0. PICK h \in Hosts, u \in Urls : Claims(w, h, u)
    BY <1>4, ClaimEffect, Zenon
  <2>1. /\ \A g \in Hosts : \A x \in Urls :
             Contains(host_queue[g], x)
               <=> Contains(host_queue'[g], x) \/ (g = h /\ x = u)
        /\ \A g \in Hosts :
             IsInjective(host_queue[g]) =>
               IsInjective(host_queue'[g]) /\ (g = h => ~Contains(host_queue'[g], u))
        /\ inflight' = [inflight EXCEPT ![u] = LeaseTimeout]
    BY <2>0, Zenon DEF Claims
  <2>2. \A x \in Urls : x # u => (Leased(x)' <=> Leased(x))
    BY <2>1, Zenon DEF Leased, TypeOK
  <2>3. Contains(host_queue[h], u)
    BY <2>1, Zenon
  <2>4. HostOf[u] = h /\ ~Contains(host_queue'[h], u)
    BY <2>1, <2>3, Zenon DEF SingleCopy
  <2>5. \A g \in Hosts : ~Contains(host_queue'[g], u)
    BY <2>1, <2>4, Zenon DEF SingleCopy
  <2>6. SUFFICES ASSUME NEW g \in Hosts
                 PROVE  /\ IsInjective(host_queue'[g])
                        /\ \A x \in Urls :
                             Contains(host_queue'[g], x) => HostOf[x] = g /\ ~Leased(x)'
    BY Zenon DEF SingleCopy
  <2>7. IsInjective(host_queue'[g])
    BY <2>1, Zenon DEF SingleCopy
  <2>8. ASSUME NEW x \in Urls, Contains(host_queue'[g], x)
        PROVE  HostOf[x] = g /\ ~Leased(x)'
    <3>1. x # u /\ Contains(host_queue[g], x)
      BY <2>1, <2>5, <2>8, Zenon
    <3>2. QED
      BY <2>2, <3>1, Zenon DEF SingleCopy
  <2>9. QED
    BY <2>7, <2>8, Zenon
<1>5. ASSUME NEW w \in Workers, AckLease(w) PROVE SingleCopy'
  BY <1>5, Zenon DEF AckLease, Release, SingleCopy, Leased, TypeOK, JobHeld, NoScore
<1>6. CASE ReclaimStep
  <2>1. PICK u \in expired :
          /\ inflight' = [inflight EXCEPT ![u] = NoScore]
          /\ host_queue' = [host_queue EXCEPT ![HostOf[u]] = Append(@, u)]
    BY <1>6, Zenon DEF ReclaimStep, Release
  <2>2. u \in Urls /\ Leased(u) /\ HostOf[u] \in Hosts
    BY HostOfAssumption DEF ScriptInv, TypeOK, Leased, NoScore
  <2>3. ~Contains(host_queue[HostOf[u]], u)
    BY <2>2, Zenon DEF SingleCopy
  <2>4. ~Leased(u)' /\ \A x \in Urls : x # u => (Leased(x)' <=> Leased(x))
    BY <2>1, <2>2, Zenon DEF Leased, TypeOK
  <2>5. /\ \A h \in Hosts : \A x \in Urls :
               Contains(host_queue'[h], x)
                 <=> Contains(host_queue[h], x) \/ (h = HostOf[u] /\ x = u)
        /\ \A h \in Hosts :
             IsInjective(host_queue[h]) => IsInjective(host_queue'[h])
    BY Zenon, <2>1, <2>2, <2>3, QueuePush
  <2>6. QED
    BY <2>2, <2>4, <2>5, Zenon DEF SingleCopy
<1>7. CASE Elapse
  <2>1. \A x \in Urls : Leased(x)' <=> Leased(x)
    BY <1>7, ElapseLeased, Zenon
  <2>2. QED
    BY <1>7, <2>1, Zenon DEF Elapse, SingleCopy
<1>8. ASSUME NEW w \in Workers, ClaimStale(w) \/ AckPayload(w) PROVE SingleCopy'
  BY <1>8, Zenon DEF ClaimStale, AckPayload, SingleCopy, Leased
<1>9. ASSUME NEW w \in Workers, NEW d \in 0 .. MaxDelay, AdvanceWake(w, d)
      PROVE  SingleCopy'
  BY <1>9, Zenon DEF AdvanceWake, SingleCopy, Leased
<1>10. CASE PromoteStep
  BY <1>10, Zenon DEF PromoteStep, SingleCopy, Leased
<1>11. QED
  BY SMTT(30), <1>1, <1>2, <1>3, <1>4, <1>5, <1>6, <1>7, <1>8, <1>9, <1>10, StepKinds

\* Every step keeps unacknowledged URLs queued or leased, with a payload.
LEMMA LostNext ==
  ASSUME TypeInv, ScriptInv, SeenInv, NothingLost, [Next]_vars
  PROVE  NothingLost'
<1> USE DEF TypeInv
<1>0. \A x \in Urls : HostOf[x] \in Hosts
  BY HostOfAssumption, Zenon
<1>1. CASE Quiet
  BY <1>1, Zenon DEF Quiet, NothingLost, Queued, Leased
<1>2. CASE Frame /\ Skip
  BY <1>2, Zenon DEF Frame, Skip, NothingLost, Queued, Leased
<1>3. ASSUME Frame, NEW u \in Urls, Enqueue(u) PROVE NothingLost'
  <2>1. host_queue' = [host_queue EXCEPT ![HostOf[u]] = Append(@, u)]
    BY <1>3, Zenon DEF Enqueue
  <2>2. \A x \in Urls : Queued(x)' <=> Queued(x) \/ x = u
    <3>1. \A h \in Hosts : \A x \in Urls :
            Contains(host_queue'[h], x)
              <=> Contains(host_queue[h], x) \/ (h = HostOf[u] /\ x = u)
      BY Zenon, <2>1, QueuePush
    <3>2. QED
      BY <1>0, <3>1, Zenon DEF Queued
  <2>3. \A x \in Urls : Leased(x)' <=> Leased(x)
    BY <1>3, Zenon DEF Frame, Leased
  <2>4. /\ admitted' = admitted \cup {u} /\ urls' = urls \cup {u} /\ acked' = acked
        /\ admitted \subseteq Urls
    BY <1>3, Zenon DEF Enqueue, Frame, TypeOK
  <2>5. QED
    BY <2>2, <2>3, <2>4, Zenon DEF NothingLost
<1>4. ASSUME NEW w \in Workers, ClaimUrl(w) PROVE NothingLost'
  <2>0. PICK h \in Hosts, u \in Urls : Claims(w, h, u)
    BY <1>4, ClaimEffect, Zenon
  <2>1. /\ \A g \in Hosts : \A x \in Urls :
             Contains(host_queue[g], x)
               <=> Contains(host_queue'[g], x) \/ (g = h /\ x = u)
        /\ inflight' = [inflight EXCEPT ![u] = LeaseTimeout]
        /\ UNCHANGED <<urls, acked, admitted>>
    BY <2>0, Zenon DEF Claims
  <2>2. \A x \in Urls : Leased(x)' <=> Leased(x) \/ x = u
    BY <2>1, TimeAssumption DEF Leased, TypeOK, NoScore
  <2>3. \A x \in Urls : Queued(x) => Queued(x)' \/ x = u
    BY <1>0, <2>1 DEF Queued
  <2>4. QED
    BY <2>1, <2>2, <2>3, Zenon DEF NothingLost, TypeOK
<1>5. ASSUME NEW w \in Workers, AckLease(w) PROVE NothingLost'
  <2>1. job[w] \in Urls
    BY <1>5 DEF AckLease, JobHeld
  <2>2. \A x \in Urls : Queued(x)' <=> Queued(x)
    BY <1>5, Zenon DEF AckLease, Queued
  <2>3. \A x \in Urls : x # job[w] => (Leased(x)' <=> Leased(x))
    BY <1>5, <2>1, Zenon DEF AckLease, Release, Leased, TypeOK
  <2>4. acked' = acked \cup {job[w]} /\ admitted' = admitted /\ urls' = urls
    BY <1>5, Zenon DEF AckLease, seenVars
  <2>5. QED
    BY <2>2, <2>3, <2>4, Zenon DEF NothingLost, TypeOK
<1>6. ASSUME NEW w \in Workers, AckPayload(w) PROVE NothingLost'
  <2>1. job[w] \in acked
    BY <1>6, Zenon DEF AckPayload, SeenInv
  <2>2. QED
    BY <1>6, <2>1, Zenon DEF AckPayload, NothingLost, Queued, Leased, seenVars
<1>7. CASE ReclaimStep
  <2>1. PICK u \in expired :
          /\ inflight' = [inflight EXCEPT ![u] = NoScore]
          /\ host_queue' = [host_queue EXCEPT ![HostOf[u]] = Append(@, u)]
          /\ UNCHANGED <<urls, acked, admitted>>
    BY <1>7, Zenon DEF ReclaimStep, Release, seenVars
  <2>2. u \in Urls
    BY Zenon DEF TypeOK
  <2>3. \A x \in Urls : Queued(x)' <=> Queued(x) \/ x = u
    <3>1. \A h \in Hosts : \A x \in Urls :
            Contains(host_queue'[h], x)
              <=> Contains(host_queue[h], x) \/ (h = HostOf[u] /\ x = u)
      BY Zenon, <2>1, <2>2, QueuePush
    <3>2. QED
      BY <1>0, <3>1, Zenon DEF Queued
  <2>4. \A x \in Urls : x # u => (Leased(x)' <=> Leased(x))
    BY <2>1, <2>2, Zenon DEF Leased, TypeOK
  <2>5. QED
    BY <2>1, <2>3, <2>4, Zenon DEF NothingLost, TypeOK
<1>8. CASE Elapse
  <2>1. \A x \in Urls : Leased(x)' <=> Leased(x)
    BY <1>8, ElapseLeased, Zenon
  <2>2. QED
    BY <1>8, <2>1, Zenon DEF Elapse, NothingLost, Queued, TypeOK, seenVars
<1>9. ASSUME NEW w \in Workers, ClaimStale(w) PROVE NothingLost'
  BY <1>9, Zenon DEF ClaimStale, NothingLost, Queued, Leased, seenVars
<1>10. ASSUME NEW w \in Workers, NEW d \in 0 .. MaxDelay, AdvanceWake(w, d)
       PROVE  NothingLost'
  BY <1>10, Zenon DEF AdvanceWake, NothingLost, Queued, Leased, seenVars
<1>11. CASE PromoteStep
  BY <1>11, Zenon DEF PromoteStep, NothingLost, Queued, Leased, seenVars
<1>12. QED
  BY <1>1, <1>2, <1>3, <1>4, <1>5, <1>6, <1>7, <1>8, <1>9, <1>10, <1>11, StepKinds

\* No step leaves queued URLs on a host that is neither scheduled nor ready.
LEMMA StrandedNext ==
  ASSUME TypeInv, NoStrandedHost, [Next]_vars
  PROVE  NoStrandedHost'
<1> USE DEF TypeInv
<1>1. CASE Quiet
  BY <1>1, Zenon DEF Quiet, NoStrandedHost
<1>2. CASE Frame /\ Skip
  BY <1>2, Zenon DEF Frame, Skip, NoStrandedHost
<1>3. ASSUME Frame, NEW u \in Urls, Enqueue(u) PROVE NoStrandedHost'
  <2>1. \A h \in Hosts : h # HostOf[u] =>
          host_queue'[h] = host_queue[h] /\ wake'[h] = wake[h]
    BY <1>3, EnqueueEffect, Zenon DEF Enqueue, TypeOK
  <2>2. wake'[HostOf[u]] # NoScore
    BY <1>3, EnqueueEffect, Zenon
  <2>3. ready' = ready
    BY <1>3, Zenon DEF Frame
  <2>4. QED
    BY <2>1, <2>2, <2>3, Zenon DEF NoStrandedHost
<1>4. ASSUME NEW w \in Workers, ClaimUrl(w) PROVE NoStrandedHost'
  <2>0. PICK h \in Hosts, u \in Urls : Claims(w, h, u)
    BY <1>4, ClaimEffect, Zenon
  <2>1. /\ ready # << >> /\ h = Head(ready) /\ ready' = Tail(ready)
        /\ \A g \in Hosts : g # h => host_queue'[g] = host_queue[g]
        /\ wake' = [wake EXCEPT ![h] = LeaseTimeout]
    BY <2>0, Zenon DEF Claims
  <2>2. \A g \in Hosts : Contains(ready, g) => Contains(ready', g) \/ g = h
    BY <2>1, PopContains, Zenon DEF TypeOK
  <2>3. wake'[h] # NoScore /\ \A g \in Hosts : g # h => wake'[g] = wake[g]
    BY <2>1, TimeAssumption DEF TypeOK, NoScore
  <2>4. QED
    BY <2>1, <2>2, <2>3, Zenon DEF NoStrandedHost
<1>5. ASSUME NEW w \in Workers, ClaimStale(w) PROVE NoStrandedHost'
  <2>1. \A g \in Hosts : Contains(ready, g) => Contains(ready', g) \/ g = Head(ready)
    BY <1>5, PopContains, Zenon DEF ClaimStale, TypeOK
  <2>2. QED
    BY <1>5, <2>1, Zenon DEF ClaimStale, NoStrandedHost
<1>6. ASSUME NEW w \in Workers, NEW d \in 0 .. MaxDelay, AdvanceWake(w, d)
      PROVE  NoStrandedHost'
  <2> DEFINE h == HostOf[job[w]]
  <2>1. h \in Hosts
    BY <1>6, HostOfAssumption, Zenon DEF AdvanceWake, JobHeld
  <2>2. wake' = [wake EXCEPT ![h] = d] /\ ready' = LRem(ready, h)
        /\ host_queue' = host_queue
    BY <1>6, Zenon DEF AdvanceWake
  <2> HIDE DEF h
  <2>3. \A g \in Hosts : Contains(ready, g) => Contains(ready', g) \/ g = h
    BY <2>1, <2>2, LRemContains, Zenon DEF TypeOK
  <2>4. wake'[h] # NoScore /\ \A g \in Hosts : g # h => wake'[g] = wake[g]
    BY <2>1, <2>2, TimeAssumption, SMTT(30) DEF TypeOK, NoScore
  <2>5. QED
    BY <2>2, <2>3, <2>4, Zenon DEF NoStrandedHost
<1>7. ASSUME NEW w \in Workers, AckLease(w) \/ AckPayload(w) PROVE NoStrandedHost'
  BY <1>7, Zenon DEF AckLease, AckPayload, NoStrandedHost
<1>8. CASE PromoteStep
  <2>1. PICK h \in due : /\ wake' = [wake EXCEPT ![h] = NoScore]
                         /\ ready' = Append(ready, h) /\ host_queue' = host_queue
    BY <1>8, Zenon DEF PromoteStep
  <2>2. \A g \in Hosts : Contains(ready', g) <=> Contains(ready, g) \/ g = h
    <3>1. ready \in Seq(Hosts) /\ h \in Hosts
      BY Zenon DEF TypeOK
    <3>2. QED
      BY ONLY <2>1, <3>1, PushContains, Zenon
  <2>3. \A g \in Hosts : g # h => wake'[g] = wake[g]
    BY <2>1, Zenon DEF TypeOK
  <2>4. QED
    BY <2>1, <2>2, <2>3, Zenon DEF NoStrandedHost
<1>9. CASE ReclaimStep
  <2>1. PICK u \in expired :
          /\ host_queue' = [host_queue EXCEPT ![HostOf[u]] = Append(@, u)]
          /\ wake' = ZaddNX(HostOf[u]) /\ ready' = ready
    BY <1>9, Zenon DEF ReclaimStep
  <2>2. HostOf[u] \in Hosts
    BY HostOfAssumption, Zenon DEF TypeOK
  <2>3. /\ wake'[HostOf[u]] # NoScore
        /\ \A g \in Hosts : g # HostOf[u] =>
             wake'[g] = wake[g] /\ host_queue'[g] = host_queue[g]
    BY <2>1, <2>2 DEF ZaddNX, TypeOK, NoScore
  <2>4. QED
    BY <2>1, <2>3, Zenon DEF NoStrandedHost
<1>10. CASE Elapse
  BY <1>10 DEF Elapse, Sooner, NoStrandedHost, TypeOK, Score, NoScore
<1>11. QED
  BY <1>1, <1>2, <1>3, <1>4, <1>5, <1>6, <1>7, <1>8, <1>9, <1>10, StepKinds

\* No step puts a host back before its last wake plan has elapsed.
LEMMA PlanNext ==
  ASSUME TypeInv, ScriptInv, WakePlanHeld, [Next]_vars
  PROVE  WakePlanHeld'
<1> USE DEF TypeInv
<1>0. \A h \in Hosts : floor[h] > 0 => wake[h] # NoScore
  BY DEF WakePlanHeld, TypeOK, NoScore
<1>1. CASE Quiet
  BY <1>1, Zenon DEF Quiet, WakePlanHeld
<1>2. CASE Frame /\ Skip
  BY <1>2, Zenon DEF Frame, Skip, WakePlanHeld
<1>3. ASSUME Frame, NEW u \in Urls, Enqueue(u) PROVE WakePlanHeld'
  <2>1. \A h \in Hosts : wake[h] # NoScore => wake'[h] = wake[h]
    BY <1>3, EnqueueEffect, Zenon
  <2>2. ready' = ready /\ floor' = floor
    BY <1>3, Zenon DEF Frame
  <2>3. QED
    BY <1>0, <2>1, <2>2, Zenon DEF WakePlanHeld
<1>4. ASSUME NEW w \in Workers, ClaimUrl(w) PROVE WakePlanHeld'
  <2>0. PICK h \in Hosts, u \in Urls : Claims(w, h, u)
    BY <1>4, ClaimEffect, Zenon
  <2>1. /\ ready # << >> /\ h = Head(ready) /\ ready' = Tail(ready)
        /\ wake' = [wake EXCEPT ![h] = LeaseTimeout] /\ floor' = floor
    BY <2>0, Zenon DEF Claims
  <2>2. Contains(ready, h) /\ \A g \in Hosts : Contains(ready', g) => Contains(ready, g)
    BY <2>1, PopContains, Zenon DEF TypeOK
  <2>3. \A g \in Hosts : g # h => wake'[g] = wake[g]
    BY <2>1, Zenon DEF TypeOK
  <2>4. QED
    BY <2>1, <2>2, <2>3, Zenon DEF WakePlanHeld
<1>5. ASSUME NEW w \in Workers, ClaimStale(w) PROVE WakePlanHeld'
  <2>1. \A g \in Hosts : Contains(ready', g) => Contains(ready, g)
    BY <1>5, PopContains, Zenon DEF ClaimStale, TypeOK
  <2>2. QED
    BY <1>5, <2>1, Zenon DEF ClaimStale, WakePlanHeld
<1>6. ASSUME NEW w \in Workers, NEW d \in 0 .. MaxDelay, AdvanceWake(w, d)
      PROVE  WakePlanHeld'
  <2> DEFINE h == HostOf[job[w]]
  <2>1. h \in Hosts
    BY <1>6, HostOfAssumption, Zenon DEF AdvanceWake, JobHeld
  <2>2. /\ wake' = [wake EXCEPT ![h] = d] /\ ready' = LRem(ready, h)
        /\ floor' = [floor EXCEPT ![h] = d]
    BY <1>6, Zenon DEF AdvanceWake
  <2> HIDE DEF h
  <2>3. ~Contains(ready', h) /\ \A g \in Hosts : Contains(ready', g) => Contains(ready, g)
    BY <2>1, <2>2, LRemContains, Zenon DEF TypeOK
  <2>4. /\ wake'[h] = d /\ floor'[h] = d
        /\ \A g \in Hosts : g # h => wake'[g] = wake[g] /\ floor'[g] = floor[g]
    BY <2>1, <2>2, Zenon DEF TypeOK
  <2>5. d >= d
    OBVIOUS
  <2>6. SUFFICES ASSUME NEW g \in Hosts, floor'[g] > 0
                 PROVE  wake'[g] >= floor'[g] /\ ~Contains(ready', g)
    BY Zenon DEF WakePlanHeld
  <2>7. CASE g = h
    BY <2>3, <2>4, <2>5, <2>7, Zenon
  <2>8. CASE g # h
    BY <2>3, <2>4, <2>6, <2>8, Zenon DEF WakePlanHeld
  <2>9. QED
    BY <2>7, <2>8, Zenon
<1>7. ASSUME NEW w \in Workers, AckLease(w) \/ AckPayload(w) PROVE WakePlanHeld'
  BY <1>7, Zenon DEF AckLease, AckPayload, WakePlanHeld
<1>8. CASE PromoteStep
  <2>1. PICK h \in due : /\ wake' = [wake EXCEPT ![h] = NoScore]
                         /\ ready' = Append(ready, h) /\ floor' = floor
    BY <1>8, Zenon DEF PromoteStep
  <2>2. \A g \in Hosts : Contains(ready', g) <=> Contains(ready, g) \/ g = h
    <3>1. ready \in Seq(Hosts) /\ h \in Hosts
      BY Zenon DEF TypeOK
    <3>2. QED
      BY ONLY <2>1, <3>1, PushContains, Zenon
  <2>3. h \in Hosts /\ ~(floor[h] > 0)
    BY DEF ScriptInv, WakePlanHeld, TypeOK
  <2>4. \A g \in Hosts : g # h => wake'[g] = wake[g]
    BY <2>1, Zenon DEF TypeOK
  <2>5. QED
    BY <2>1, <2>2, <2>3, <2>4, Zenon DEF WakePlanHeld
<1>9. CASE ReclaimStep
  <2>1. PICK u \in expired : wake' = ZaddNX(HostOf[u]) /\ ready' = ready /\ floor' = floor
    BY <1>9, Zenon DEF ReclaimStep
  <2>2. \A h \in Hosts : wake[h] # NoScore => wake'[h] = wake[h]
    BY <2>1, Zenon DEF ZaddNX, TypeOK
  <2>3. QED
    BY <1>0, <2>1, <2>2, Zenon DEF WakePlanHeld
<1>10. CASE Elapse
  <2>1. \A h \in Hosts : /\ wake'[h] = Sooner(wake[h]) /\ floor'[h] = Sooner(floor[h])
                          /\ wake[h] \in Score /\ floor[h] \in Nat
    BY <1>10, Zenon DEF Elapse, TypeOK
  <2>2. ready' = ready
    BY <1>10, Zenon DEF Elapse
  <2>3. SUFFICES ASSUME NEW h \in Hosts, floor'[h] > 0
                 PROVE  wake'[h] >= floor'[h] /\ ~Contains(ready', h)
    BY Zenon DEF WakePlanHeld
  <2>4. /\ wake'[h] = Sooner(wake[h]) /\ floor'[h] = Sooner(floor[h])
        /\ wake[h] \in Score /\ floor[h] \in Nat
    BY <2>1, Zenon
  <2>5. floor[h] > 0
    BY <2>3, <2>4, Zenon DEF Sooner
  <2>6. wake[h] >= floor[h] /\ ~Contains(ready, h)
    BY <2>5, Zenon DEF WakePlanHeld
  <2>7. wake'[h] >= floor'[h]
    BY <2>4, <2>5, <2>6 DEF Sooner, Score, NoScore
  <2>8. QED
    BY <2>2, <2>6, <2>7, Zenon
<1>11. QED
  BY <1>1, <1>2, <1>3, <1>4, <1>5, <1>6, <1>7, <1>8, <1>9, <1>10, StepKinds, Zenon

-----------------------------------------------------------------------------
(* The supporting parts                                                    *)

\* While a script runs nothing else touches what it has read.
LEMMA ScriptNext ==
  ASSUME TypeInv, ScriptInv, [Next]_vars
  PROVE  ScriptInv'
<1> USE DEF TypeInv
<1>1. ASSUME NEW u \in Urls, Submit(u) PROVE ScriptInv'
  BY <1>1, Zenon DEF Submit, RedisFree, ScriptInv, script, workers
<1>2. ASSUME NEW b \in Batches, SubmitBatch(b) PROVE ScriptInv'
  BY <1>2, Zenon DEF SubmitBatch, ScriptInv, redis, workers
<1>3. CASE BatchStep
  <2>1. \A h \in Hosts : wake[h] = 0 => wake'[h] = 0
    BY <1>3, Zenon DEF BatchStep, BatchEnqueue, Enqueue, ZaddNX, BloomHit, TypeOK, NoScore
  <2>2. QED
    BY <1>3, <2>1, Zenon DEF BatchStep, ScriptInv, workers, TypeOK
<1>4. ASSUME NEW w \in Workers, Claim(w) PROVE ScriptInv'
  BY <1>4, Zenon DEF Claim, RedisFree, ScriptInv, redis, script
<1>5. ASSUME NEW w \in Workers, ClaimEmpty(w) PROVE ScriptInv'
  BY <1>5, Zenon DEF ClaimEmpty, ScriptInv, redis, script, TypeOK
<1>6. ASSUME NEW w \in Workers, ClaimStale(w) PROVE ScriptInv'
  BY <1>6, Zenon DEF ClaimStale, ScriptInv, script, workers
<1>7. ASSUME NEW w \in Workers, ClaimUrl(w) PROVE ScriptInv'
  BY <1>7, Zenon DEF ClaimUrl, ScriptInv, script
<1>8. ASSUME NEW w \in Workers, NEW d \in 0 .. MaxDelay, AdvanceWake(w, d)
      PROVE  ScriptInv'
  BY <1>8, Zenon DEF AdvanceWake, RedisFree, ScriptInv, script
<1>9. ASSUME NEW w \in Workers, AckLease(w) \/ AckPayload(w) PROVE ScriptInv'
  BY <1>9, Zenon DEF AckLease, AckPayload, RedisFree, ScriptInv, script
<1>10. ASSUME NEW w \in Workers, Abandon(w) PROVE ScriptInv'
  BY <1>10 DEF Abandon, ScriptInv, redis, script, TypeOK
<1>11. CASE TickPromote
  BY <1>11, Zenon DEF TickPromote, FirstOf, RedisFree, ScriptInv, redis, workers
<1>12. CASE TickReclaim
  BY <1>12, Zenon DEF TickReclaim, FirstOf, RedisFree, ScriptInv, redis, workers
<1>13. CASE PromoteStep
  BY <1>13, Zenon DEF PromoteStep, ScriptInv, workers, TypeOK
<1>14. CASE ReclaimStep
  <2>1. \A h \in Hosts : wake[h] = 0 => wake'[h] = 0
    BY <1>14 DEF ReclaimStep, ZaddNX, TypeOK, NoScore
  <2>2. QED
    BY <1>14, <2>1 DEF ReclaimStep, Release, ScriptInv, workers, TypeOK
<1>15. CASE TickFails \/ Elapse
  BY <1>15, Zenon DEF TickFails, Elapse, RedisFree, ScriptInv, redis, script, workers
<1>16. CASE UNCHANGED vars
  BY <1>16, Zenon DEF vars, ScriptInv, redis, script, workers
<1>17. QED
  BY SMTT(30), <1>1, <1>2, <1>3, <1>4, <1>5, <1>6, <1>7, <1>8, <1>9, <1>10, <1>11,
     <1>12, <1>13, <1>14, <1>15, <1>16 DEF Next

\* What a submit adds, the Bloom filter has.
LEMMA SubmitSeen ==
  ASSUME TypeOK, BatchStep \/ \E u \in Urls : Submit(u)
  PROVE  /\ Frame /\ seen \subseteq seen'
         /\ \/ UNCHANGED <<host_queue, admitted, counted>>
            \/ \E u \in Urls :
                 /\ u \in seen'
                 /\ host_queue' = [host_queue EXCEPT ![HostOf[u]] = Append(@, u)]
                 /\ admitted' = admitted \cup {u}
                 /\ counted' \subseteq counted \cup {u}
<1>1. ASSUME NEW u \in Urls, Submit(u)
      PROVE  /\ Frame /\ seen \subseteq seen'
             /\ \/ UNCHANGED <<host_queue, admitted, counted>>
                \/ /\ u \in seen'
                   /\ host_queue' = [host_queue EXCEPT ![HostOf[u]] = Append(@, u)]
                   /\ admitted' = admitted \cup {u}
                   /\ counted' \subseteq counted \cup {u}
  BY <1>1, Zenon DEF Submit, Enqueue, BloomHit, Frame, script, workers, seenVars
<1>2. CASE BatchStep
  <2> DEFINE u == Head(batch)
  <2>1. u \in Urls
    BY <1>2 DEF BatchStep, TypeOK
  <2>2. Frame
    BY <1>2, Zenon DEF BatchStep, Frame, workers
  <2>3. \/ UNCHANGED <<seen, host_queue, admitted, counted>>
        \/ BatchEnqueue(u) \/ BloomHit(u)
    BY <1>2, Zenon DEF BatchStep, seenVars
  <2> HIDE DEF u
  <2>4. CASE BatchEnqueue(u)
    BY <2>1, <2>2, <2>4, Zenon DEF BatchEnqueue, Enqueue
  <2>5. CASE BloomHit(u)
    BY <2>1, <2>2, <2>5 DEF BloomHit, seenVars
  <2>6. QED
    BY <2>2, <2>3, <2>4, <2>5, Zenon
<1>3. QED
  BY <1>1, <1>2, Zenon

\* No step brings in a URL the Bloom filter has not recorded.
LEMMA SeenNext ==
  ASSUME TypeInv, ScriptInv, SeenInv, [Next]_vars
  PROVE  SeenInv'
<1> USE DEF TypeInv
<1>1. ASSUME BatchStep \/ \E u \in Urls : Submit(u) PROVE SeenInv'
  <2>1. Frame /\ seen \subseteq seen'
    BY <1>1, SubmitSeen, Zenon
  <2>2. CASE UNCHANGED <<host_queue, admitted, counted>>
    BY <2>1, <2>2, Zenon DEF Frame, SeenInv, Leased
  <2>3. ASSUME NEW u \in Urls, u \in seen',
               host_queue' = [host_queue EXCEPT ![HostOf[u]] = Append(@, u)],
               admitted' = admitted \cup {u}, counted' \subseteq counted \cup {u}
        PROVE  SeenInv'
    <3>1. \A h \in Hosts : \A x \in Urls :
            Contains(host_queue'[h], x)
              <=> Contains(host_queue[h], x) \/ (h = HostOf[u] /\ x = u)
      BY Zenon, <2>3, QueuePush
    <3>2. QED
      BY <2>1, <2>3, <3>1, Zenon DEF Frame, SeenInv, Leased
  <2>4. QED
    BY <1>1, <2>2, <2>3, SubmitSeen
<1>2. ASSUME NEW b \in Batches, SubmitBatch(b) PROVE SeenInv'
  BY <1>2, Zenon DEF SubmitBatch, SeenInv, Leased, redis, workers, seenVars
<1>4. ASSUME NEW w \in Workers, Claim(w) \/ ClaimEmpty(w) PROVE SeenInv'
  BY <1>4, Zenon DEF Claim, ClaimEmpty, SeenInv, Leased, redis, seenVars, TypeOK
<1>6. ASSUME NEW w \in Workers, ClaimStale(w) PROVE SeenInv'
  BY <1>6, Zenon DEF ClaimStale, SeenInv, Leased, workers, seenVars
<1>7. ASSUME NEW w \in Workers, ClaimUrl(w) PROVE SeenInv'
  <2>0. PICK h \in Hosts, u \in Urls : Claims(w, h, u)
    BY <1>7, ClaimEffect, Zenon
  <2>1. /\ \A g \in Hosts : \A x \in Urls :
             Contains(host_queue[g], x)
               <=> Contains(host_queue'[g], x) \/ (g = h /\ x = u)
        /\ inflight' = [inflight EXCEPT ![u] = LeaseTimeout]
        /\ \/ pc' = [pc EXCEPT ![w] = "claimed"] /\ job' = [job EXCEPT ![w] = u]
           \/ pc' = [pc EXCEPT ![w] = "idle"] /\ UNCHANGED job
        /\ UNCHANGED <<seen, acked, admitted, counted>>
    BY <2>0, Zenon DEF Claims
  <2>2. u \in seen
    BY <2>1, Zenon DEF SeenInv
  <2>3. \A x \in Urls : Leased(x)' => Leased(x) \/ x = u
    BY <2>1, Zenon DEF Leased, TypeOK
  <2>4. \A v \in Workers :
          /\ pc'[v] \in {"claimed", "planned", "acking"} => job'[v] \in seen
          /\ pc'[v] = "acking" => job'[v] \in acked
    BY <2>1, <2>2, Zenon DEF SeenInv, TypeOK
  <2>5. QED
    BY <2>1, <2>2, <2>3, <2>4, Zenon DEF SeenInv
<1>8. ASSUME NEW w \in Workers, NEW d \in 0 .. MaxDelay, AdvanceWake(w, d)
      PROVE  SeenInv'
  BY <1>8, Zenon DEF AdvanceWake, SeenInv, Leased, seenVars, TypeOK
<1>9. ASSUME NEW w \in Workers, AckLease(w) PROVE SeenInv'
  <2>1. \A x \in Urls : Leased(x)' => Leased(x)
    BY <1>9, Zenon DEF AckLease, Release, Leased, TypeOK
  <2>2. QED
    BY <1>9, <2>1, Zenon DEF AckLease, SeenInv, seenVars, TypeOK
<1>10. ASSUME NEW w \in Workers, AckPayload(w) PROVE SeenInv'
  BY <1>10, Zenon DEF AckPayload, SeenInv, Leased, seenVars, TypeOK
<1>11. ASSUME NEW w \in Workers, Abandon(w) PROVE SeenInv'
  BY <1>11, Zenon DEF Abandon, SeenInv, Leased, redis, seenVars, TypeOK
<1>12. CASE TickPromote \/ TickReclaim \/ TickFails
  BY <1>12, Zenon DEF TickPromote, TickReclaim, TickFails, SeenInv, Leased, redis, workers, seenVars
<1>13. CASE PromoteStep
  BY <1>13, Zenon DEF PromoteStep, SeenInv, Leased, workers, seenVars
<1>14. CASE ReclaimStep
  <2>1. PICK u \in expired :
          /\ inflight' = [inflight EXCEPT ![u] = NoScore]
          /\ host_queue' = [host_queue EXCEPT ![HostOf[u]] = Append(@, u)]
          /\ UNCHANGED <<seen, pc, job, acked, admitted, counted>>
    BY <1>14, Zenon DEF ReclaimStep, Release, workers, seenVars
  <2>2. u \in Urls /\ u \in seen
    BY DEF ScriptInv, SeenInv, TypeOK, Leased, NoScore
  <2>3. \A h \in Hosts : \A x \in Urls :
          Contains(host_queue'[h], x)
            <=> Contains(host_queue[h], x) \/ (h = HostOf[u] /\ x = u)
    BY Zenon, <2>1, <2>2, QueuePush
  <2>4. \A x \in Urls : Leased(x)' => Leased(x)
    BY <2>1, <2>2 DEF Leased, TypeOK
  <2>5. QED
    BY <2>1, <2>2, <2>3, <2>4, Zenon DEF SeenInv
<1>15. CASE Elapse
  <2>1. \A x \in Urls : Leased(x)' <=> Leased(x)
    BY <1>15, ElapseLeased, Zenon
  <2>2. QED
    BY <1>15, <2>1, Zenon DEF Elapse, SeenInv, workers, seenVars
<1>16. CASE UNCHANGED vars
  BY <1>16, Zenon DEF vars, SeenInv, Leased, redis, workers, seenVars
<1>17. QED
  BY <1>1, <1>2, <1>4, <1>6, <1>7, <1>8, <1>9, <1>10, <1>11,
     <1>12, <1>13, <1>14, <1>15, <1>16, Zenon DEF Next

\* A step counts at most one URL, only in a batch, only below the quota and
\* only one the counter does not include yet.
LEMMA CountKinds ==
  ASSUME TypeOK, [Next]_vars
  PROVE  \/ UNCHANGED <<host_count, counted>>
         \/ \E u \in Urls : BatchEnqueue(u) /\ ~AtQuota(HostOf[u])
<1>1. ASSUME NEW u \in Urls, Submit(u) PROVE UNCHANGED <<host_count, counted>>
  BY <1>1 DEF Submit, BloomHit, seenVars
<1>2. ASSUME BatchStep
      PROVE  \/ UNCHANGED <<host_count, counted>>
             \/ BatchEnqueue(Head(batch)) /\ ~AtQuota(HostOf[Head(batch)])
  BY <1>2, Zenon DEF BatchStep, BloomHit, seenVars
<1>3. BatchStep => Head(batch) \in Urls
  BY DEF BatchStep, TypeOK
<1>4. ASSUME NEW b \in Batches, SubmitBatch(b) PROVE UNCHANGED <<host_count, counted>>
  BY <1>4, SMTT(30) DEF SubmitBatch, redis, seenVars
<1>5. ASSUME NEW w \in Workers,
             Claim(w) \/ ClaimEmpty(w) \/ ClaimStale(w) \/ ClaimUrl(w)
      PROVE  UNCHANGED <<host_count, counted>>
  BY <1>5, Zenon DEF Claim, ClaimEmpty, ClaimStale, ClaimUrl, redis, seenVars
<1>6. ASSUME NEW w \in Workers, NEW d \in 0 .. MaxDelay, AdvanceWake(w, d)
      PROVE  UNCHANGED <<host_count, counted>>
  BY <1>6, Zenon DEF AdvanceWake, seenVars
<1>7. ASSUME NEW w \in Workers, AckLease(w) \/ AckPayload(w) \/ Abandon(w)
      PROVE  UNCHANGED <<host_count, counted>>
  BY <1>7, Zenon DEF AckLease, AckPayload, Abandon, redis, seenVars
<1>8. ASSUME \/ TickPromote \/ PromoteStep \/ TickReclaim \/ ReclaimStep
             \/ TickFails \/ Elapse \/ UNCHANGED vars
      PROVE  UNCHANGED <<host_count, counted>>
  BY <1>8, Zenon DEF TickPromote, PromoteStep, TickReclaim, ReclaimStep, TickFails,
              Elapse, vars, redis, seenVars
<1>9. QED
  BY <1>1, <1>2, <1>3, <1>4, <1>5, <1>6, <1>7, <1>8, Zenon DEF Next

\* A counter below its cap can be incremented.
LEMMA BelowCap ==
  \A n \in Nat : \A m \in Int : ~(n >= m) => n + 1 <= m
OBVIOUS

\* The counter of a capped host stays exact and within the cap.
LEMMA QuotaNext ==
  ASSUME TypeInv, SeenInv, QuotaInv, [Next]_vars
  PROVE  QuotaInv'
<1> USE DEF TypeInv
<1>1. CASE UNCHANGED <<host_count, counted>>
  BY <1>1, Zenon DEF QuotaInv
<1>2. ASSUME NEW u \in Urls, BatchEnqueue(u), ~AtQuota(HostOf[u])
      PROVE  QuotaInv'
  <2> DEFINE Of(C, h) == {x \in C : HostOf[x] = h}
  <2>1. u \notin counted /\ counted' = counted \cup {u} /\ HostOf[u] \in Hosts
    BY <1>2, HostOfAssumption, Zenon DEF BatchEnqueue, Enqueue, Fresh, SeenInv, TypeOK
  <2>2. \A h \in Hosts : IsFiniteSet(Of(counted, h))
    BY BoundAssumption, FS_Subset, Zenon DEF TypeOK
  <2>3. SUFFICES ASSUME NEW h \in Hosts, MaxUrls[h] >= 0
                 PROVE  /\ host_count'[h] = Cardinality(Of(counted', h))
                        /\ host_count'[h] <= MaxUrls[h]
    BY Zenon DEF QuotaInv
  <2>4. CASE h = HostOf[u]
    <3>1. Of(counted', h) = Of(counted, h) \cup {u} /\ u \notin Of(counted, h)
      BY <2>1, <2>4, Zenon
    <3>2. Cardinality(Of(counted', h)) = Cardinality(Of(counted, h)) + 1
      BY <2>2, <3>1, FS_AddElement, Zenon
    <3>3. host_count'[h] = host_count[h] + 1 /\ host_count[h] \in Nat
      BY <1>2, <2>1, <2>3, <2>4, Zenon DEF BatchEnqueue, TypeOK
    <3>4. MaxUrls[h] \in Int /\ ~(host_count[h] >= MaxUrls[h])
      BY <1>2, <2>3, <2>4, MaxUrlsAssumption, Zenon DEF AtQuota
    <3>5. host_count[h] = Cardinality(Of(counted, h))
      BY <2>3, Zenon DEF QuotaInv
    <3> HIDE DEF Of
    <3>6. host_count'[h] <= MaxUrls[h]
      BY <3>3, <3>4, BelowCap, Zenon
    <3>7. QED
      BY <3>2, <3>3, <3>5, <3>6, Zenon
  <2>5. CASE h # HostOf[u]
    <3>1. Of(counted', h) = Of(counted, h)
      BY <2>1, <2>5, Zenon
    <3>2. host_count'[h] = host_count[h]
      BY <1>2, <2>1, <2>5 DEF BatchEnqueue, TypeOK
    <3>3. QED
      BY <2>3, <3>1, <3>2 DEF QuotaInv
  <2>6. QED
    BY <2>4, <2>5, Zenon
<1>3. QED
  BY <1>1, <1>2, CountKinds, Zenon

-----------------------------------------------------------------------------
(* The theorems                                                            *)

\* The frontier starts in the invariant.
LEMMA InductiveInit == Init => IInv
<1> SUFFICES ASSUME Init PROVE IInv
  BY Zenon
<1>1. TypeInv
  BY TypeInit, Zenon
<1>2. ScriptInv /\ SeenInv
  BY DEF Init, ScriptInv, SeenInv, Leased, Contains
<1>3. QuotaInv
  <2>1. \A h \in Hosts : {u \in counted : HostOf[u] = h} = {}
    BY Zenon DEF Init
  <2>2. QED
    BY <2>1, FS_EmptySet, MaxUrlsAssumption, Zenon DEF Init, QuotaInv
<1>4. SingleCopy
  BY DEF Init, SingleCopy, Contains, IsInjective
<1>5. NothingLost /\ NoStrandedHost /\ WakePlanHeld
  BY DEF Init, NothingLost, NoStrandedHost, WakePlanHeld
<1>6. QED
  BY <1>1, <1>2, <1>3, <1>4, <1>5, Zenon DEF IInv

\* Every step keeps the invariant.
LEMMA InductiveNext == IInv /\ [Next]_vars => IInv'
BY TypeNext, ScriptNext, SeenNext, QuotaNext, CopyNext, LostNext,
   StrandedNext, PlanNext DEF IInv

\* The invariant holds of every behaviour.
THEOREM Inductive == Spec => []IInv
BY InductiveInit, InductiveNext, PTL DEF Spec

\* A URL is queued at most once, only on its own host, and never while it is
\* leased, for any number of URLs, hosts, workers, crashes and reclaims.
THEOREM CopyCorrect == Spec => []SingleCopy
BY Inductive, PTL DEF IInv

\* An admitted URL that was not acknowledged is queued or leased and still
\* has its payload: at-least-once delivery rests on it.
THEOREM LostCorrect == Spec => []NothingLost
BY Inductive, PTL DEF IInv

\* Queued URLs are always on a host that has a wake-time or is ready.
THEOREM StrandedCorrect == Spec => []NoStrandedHost
BY Inductive, PTL DEF IInv

\* Neither submits nor reclaims nor claims undercut the last wake plan.
THEOREM PlanCorrect == Spec => []WakePlanHeld
BY Inductive, PTL DEF IInv

\* submit_batch never admits more URLs of a host than its quota.
THEOREM QuotaCorrect == Spec => []QuotaHeld
<1>1. IInv => QuotaHeld
  BY Zenon DEF IInv, QuotaInv, QuotaHeld
<1>2. QED
  BY <1>1, Inductive, PTL

\* A URL that is acknowledged and out of the system never re-enters it.
THEOREM SettledCorrect == Spec => SettledStaysOut
<1>1. ASSUME IInv, [Next]_vars, NEW u \in Urls, Settled(u) PROVE Settled(u)'
  <2> USE DEF IInv, TypeInv
  <2>0. HostOf[u] \in Hosts /\ u \in seen /\ u \in acked
    BY <1>1, HostOfAssumption, SMTT(30) DEF Settled, SeenInv
  <2>1. CASE Quiet
    BY <1>1, <2>1 DEF Quiet, Settled, Queued, Leased
  <2>2. CASE Frame /\ Skip
    BY <1>1, <2>2, Zenon DEF Frame, Skip, Settled, Queued, Leased
  <2>3. ASSUME Frame, NEW x \in Urls, Enqueue(x) PROVE Settled(u)'
    <3>1. u # x /\ host_queue' = [host_queue EXCEPT ![HostOf[x]] = Append(@, x)]
      BY <2>0, <2>3, Zenon DEF Enqueue, Fresh
    <3>2. \A h \in Hosts : \A y \in Urls :
            Contains(host_queue'[h], y)
              <=> Contains(host_queue[h], y) \/ (h = HostOf[x] /\ y = x)
      BY Zenon, <1>1, <3>1, QueuePush
    <3>3. QED
      BY <1>1, <2>0, <2>3, <3>1, <3>2, Zenon DEF Frame, Settled, Queued, Leased
  <2>4. ASSUME NEW w \in Workers, ClaimUrl(w) PROVE Settled(u)'
    <3>0. PICK h \in Hosts, x \in Urls : Claims(w, h, x)
      BY <1>1, <2>4, ClaimEffect, Zenon
    <3>1. /\ \A g \in Hosts : \A y \in Urls :
               Contains(host_queue[g], y)
                 <=> Contains(host_queue'[g], y) \/ (g = h /\ y = x)
          /\ inflight' = [inflight EXCEPT ![x] = LeaseTimeout]
          /\ UNCHANGED acked
      BY <3>0, Zenon DEF Claims
    <3>2. u # x
      BY <1>1, <2>0, <3>1, Zenon DEF Settled, Queued, SingleCopy
    <3>3. Leased(u)' <=> Leased(u)
      BY <1>1, <3>1, <3>2, Zenon DEF Leased, TypeOK
    <3>4. QED
      BY <1>1, <2>0, <3>1, <3>3, Zenon DEF Settled, Queued
  <2>5. ASSUME NEW w \in Workers, AckLease(w) PROVE Settled(u)'
    <3>1. Leased(u)' => Leased(u)
      BY <1>1, <2>5, Zenon DEF AckLease, Release, Leased, TypeOK, JobHeld
    <3>2. QED
      BY <1>1, <2>5, <3>1, Zenon DEF AckLease, Settled, Queued
  <2>6. CASE ReclaimStep
    <3>1. PICK x \in expired :
            /\ inflight' = [inflight EXCEPT ![x] = NoScore]
            /\ host_queue' = [host_queue EXCEPT ![HostOf[x]] = Append(@, x)]
            /\ UNCHANGED acked
      BY <2>6, Zenon DEF ReclaimStep, Release
    <3>2. x \in Urls /\ u # x
      BY <1>1 DEF Settled, ScriptInv, TypeOK, Leased, NoScore
    <3>3. \A h \in Hosts : \A y \in Urls :
            Contains(host_queue'[h], y)
              <=> Contains(host_queue[h], y) \/ (h = HostOf[x] /\ y = x)
      BY Zenon, <1>1, <3>1, <3>2, QueuePush
    <3>4. Leased(u)' <=> Leased(u)
      BY <1>1, <3>1, <3>2, SMTT(30) DEF Leased, TypeOK
    <3>5. QED
      BY <1>1, <2>0, <3>1, <3>2, <3>3, <3>4, Zenon DEF Settled, Queued
  <2>7. CASE Elapse
    <3>1. Leased(u)' <=> Leased(u)
      BY <1>1, <2>7, ElapseLeased, Zenon
    <3>2. QED
      BY <1>1, <2>7, <3>1, Zenon DEF Elapse, Settled, Queued
  <2>8. ASSUME NEW w \in Workers, ClaimStale(w) \/ AckPayload(w) PROVE Settled(u)'
    BY <1>1, <2>8, Zenon DEF ClaimStale, AckPayload, Settled, Queued, Leased
  <2>9. ASSUME NEW w \in Workers, NEW d \in 0 .. MaxDelay, AdvanceWake(w, d)
        PROVE  Settled(u)'
    BY <1>1, <2>9, Zenon DEF AdvanceWake, Settled, Queued, Leased
  <2>10. CASE PromoteStep
    BY <1>1, <2>10, Zenon DEF PromoteStep, Settled, Queued, Leased
  <2>11. QED
    BY SMTT(30), <1>1, <2>1, <2>2, <2>3, <2>4, <2>5, <2>6, <2>7, <2>8, <2>9, <2>10, StepKinds
<1>2. IInv /\ [Next]_vars => [\A u \in Urls : Settled(u) => Settled(u)']_vars
  BY <1>1, Zenon
<1>3. QED
  BY <1>2, Inductive, PTL DEF Spec, SettledStaysOut

-----------------------------------------------------------------------------
(* The refinement.  The step simulation needs the inductive invariant: a   *)
(* claim empties a URL's place in the queue only because it is queued once *)
(* (SingleCopy), and the payload an ack deletes belongs to an acknowledged *)
(* URL (SeenInv).                                                          *)

\* The empty Redis keys are the empty abstract sets.
LEMMA SimulationInit == Init => Delivery!DeliveryInit
BY HostOfAssumption
   DEF Init, Delivery!DeliveryInit, QueuedUrls, LeasedUrls, Queued, Leased, Contains

\* One step of the scripts and commands is one abstract step or none.
LEMMA SimulationNext ==
  ASSUME IInv, [Next]_vars
  PROVE  Delivery!DeliveryNext \/ UNCHANGED Delivery!delivery
<1> USE DEF IInv, TypeInv
<1>0. \A x \in Urls : HostOf[x] \in Hosts
  BY HostOfAssumption, Zenon
<1>1. CASE Quiet
  BY <1>1, Zenon DEF Quiet, Delivery!delivery, QueuedUrls, LeasedUrls, Queued, Leased
<1>2. CASE Frame /\ Skip
  <2>1. QueuedUrls' = QueuedUrls /\ LeasedUrls' = LeasedUrls
    BY <1>2, Zenon DEF Frame, Skip, QueuedUrls, LeasedUrls, Queued, Leased
  <2>2. QED
    BY <1>2, <2>1, Zenon
       DEF Frame, Skip, Delivery!DeliveryNext, Delivery!Suppress, Delivery!delivery
<1>3. ASSUME Frame, NEW u \in Urls, Enqueue(u) PROVE Delivery!DeliveryNext
  <2>1. \A h \in Hosts : \A x \in Urls :
          Contains(host_queue'[h], x)
            <=> Contains(host_queue[h], x) \/ (h = HostOf[u] /\ x = u)
    BY <1>3, QueuePush, Zenon DEF Enqueue
  <2>2. QueuedUrls' = QueuedUrls \cup {u}
    BY <1>0, <2>1, Zenon DEF QueuedUrls, Queued
  <2>3. LeasedUrls' = LeasedUrls
    BY <1>3, Zenon DEF Frame, LeasedUrls, Leased
  <2>4. Delivery!Accept(u)
    BY <1>3, <2>2, <2>3, EnqueueEffect, Zenon DEF Frame, Delivery!Accept
  <2>5. QED
    BY <2>4, Zenon DEF Delivery!DeliveryNext
<1>4. ASSUME NEW w \in Workers, ClaimUrl(w) PROVE Delivery!DeliveryNext
  <2>0. PICK h \in Hosts, u \in Urls : Claims(w, h, u)
    BY <1>4, ClaimEffect, Zenon
  <2>1. /\ \A g \in Hosts : \A x \in Urls :
             Contains(host_queue[g], x)
               <=> Contains(host_queue'[g], x) \/ (g = h /\ x = u)
        /\ \A g \in Hosts :
             IsInjective(host_queue[g]) =>
               IsInjective(host_queue'[g]) /\ (g = h => ~Contains(host_queue'[g], u))
        /\ inflight' = [inflight EXCEPT ![u] = LeaseTimeout]
        /\ UNCHANGED <<seen, urls, acked, admitted>>
    BY <2>0, Zenon DEF Claims
  <2>2. HostOf[u] = h /\ ~Contains(host_queue'[h], u)
    BY <2>1, Zenon DEF SingleCopy
  <2>3. QueuedUrls' = QueuedUrls \ {u} /\ u \in QueuedUrls
    <3>1. \A x \in Urls : Queued(x)' <=> Queued(x) /\ x # u
      BY <1>0, <2>1, <2>2, Zenon DEF Queued
    <3>2. Queued(u)
      BY <1>0, <2>1, <2>2, Zenon DEF Queued
    <3>3. QED
      BY <3>1, <3>2, Zenon DEF QueuedUrls
  <2>4. LeasedUrls' = LeasedUrls \cup {u}
    BY <2>1, TimeAssumption, SMTT(30) DEF LeasedUrls, Leased, TypeOK, NoScore
  <2>5. Delivery!Deliver(u)
    BY <2>1, <2>3, <2>4, Zenon DEF Delivery!Deliver
  <2>6. QED
    BY <2>5, Zenon DEF Delivery!DeliveryNext
<1>5. ASSUME NEW w \in Workers, AckLease(w) PROVE Delivery!DeliveryNext
  <2>1. job[w] \in Urls
    BY <1>5, Zenon DEF AckLease, JobHeld
  <2>2. QueuedUrls' = QueuedUrls
    BY <1>5, Zenon DEF AckLease, QueuedUrls, Queued
  <2>3. LeasedUrls' = LeasedUrls \ {job[w]}
    BY <1>5, <2>1, Zenon DEF AckLease, Release, LeasedUrls, Leased, TypeOK
  <2>4. Delivery!Release(job[w])
    BY <1>5, <2>2, <2>3, Zenon DEF AckLease, Delivery!Release, seenVars
  <2>5. QED
    BY <2>1, <2>4 DEF Delivery!DeliveryNext
<1>6. ASSUME NEW w \in Workers, AckPayload(w) PROVE Delivery!DeliveryNext
  <2>1. job[w] \in Urls /\ job[w] \in acked
    BY <1>6, Zenon DEF AckPayload, JobHeld, SeenInv
  <2>2. QueuedUrls' = QueuedUrls /\ LeasedUrls' = LeasedUrls
    BY <1>6, Zenon DEF AckPayload, QueuedUrls, LeasedUrls, Queued, Leased
  <2>3. Delivery!Forget(job[w])
    BY <1>6, <2>1, <2>2 DEF AckPayload, Delivery!Forget, seenVars
  <2>4. QED
    BY <2>1, <2>3, SMTT(30) DEF Delivery!DeliveryNext
<1>7. CASE ReclaimStep
  <2>1. PICK u \in expired :
          /\ inflight' = [inflight EXCEPT ![u] = NoScore]
          /\ host_queue' = [host_queue EXCEPT ![HostOf[u]] = Append(@, u)]
          /\ UNCHANGED <<seen, urls, acked, admitted>>
    BY <1>7, Zenon DEF ReclaimStep, Release, seenVars
  <2>2. u \in Urls /\ u \in LeasedUrls
    BY DEF ScriptInv, TypeOK, LeasedUrls, Leased, NoScore
  <2>3. \A h \in Hosts : \A x \in Urls :
          Contains(host_queue'[h], x)
            <=> Contains(host_queue[h], x) \/ (h = HostOf[u] /\ x = u)
    BY Zenon, <2>1, <2>2, QueuePush
  <2>4. QueuedUrls' = QueuedUrls \cup {u}
    BY <1>0, <2>2, <2>3, Zenon DEF QueuedUrls, Queued
  <2>5. LeasedUrls' = LeasedUrls \ {u}
    BY <2>1, <2>2, Zenon DEF LeasedUrls, Leased, TypeOK
  <2>6. Delivery!Redeliver(u)
    BY <2>1, <2>2, <2>4, <2>5, Zenon DEF Delivery!Redeliver
  <2>7. QED
    BY <2>2, <2>6, Zenon DEF Delivery!DeliveryNext
<1>8. CASE Elapse
  <2>1. LeasedUrls' = LeasedUrls /\ QueuedUrls' = QueuedUrls
    BY <1>8 DEF Elapse, Sooner, QueuedUrls, Queued, LeasedUrls, Leased, TypeOK, Score, NoScore
  <2>2. QED
    BY <1>8, <2>1, Zenon DEF Elapse, Delivery!delivery, seenVars
<1>9. ASSUME NEW w \in Workers, ClaimStale(w) PROVE UNCHANGED Delivery!delivery
  BY <1>9, Zenon DEF ClaimStale, Delivery!delivery, QueuedUrls, LeasedUrls, Queued, Leased, seenVars
<1>10. ASSUME NEW w \in Workers, NEW d \in 0 .. MaxDelay, AdvanceWake(w, d)
       PROVE  UNCHANGED Delivery!delivery
  BY <1>10, Zenon DEF AdvanceWake, Delivery!delivery, QueuedUrls, LeasedUrls, Queued, Leased, seenVars
<1>11. CASE PromoteStep
  BY <1>11, Zenon DEF PromoteStep, Delivery!delivery, QueuedUrls, LeasedUrls, Queued, Leased, seenVars
<1>12. QED
  BY <1>1, <1>2, <1>3, <1>4, <1>5, <1>6, <1>7, <1>8, <1>9, <1>10, <1>11, StepKinds, Zenon

\* The frontier implements the abstract delivery specification: whatever the
\* number of hosts, workers, crashes and lapsed leases, callers see a URL
\* accepted once, leased, redelivered, and gone once acknowledged.
THEOREM Refinement == Spec => ImplementsDelivery
<1>1. IInv /\ [Next]_vars => [Delivery!DeliveryNext]_(Delivery!delivery)
  BY SimulationNext, Zenon
<1>2. QED
  BY <1>1, SimulationInit, Inductive, PTL
     DEF Spec, ImplementsDelivery, Delivery!DeliverySpec
=============================================================================
