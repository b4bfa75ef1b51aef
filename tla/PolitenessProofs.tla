-------------------------- MODULE PolitenessProofs --------------------------
(***************************************************************************)
(* Proofs about what crawlrs-politeness keeps of a host: HostBackoff, for  *)
(* any workers and any backoff policy, and RobotsCache, for any pods and   *)
(* workers, any bodies the host may serve, any lifetimes and any delay of  *)
(* a step.  The two specifications share no variable.                      *)
(***************************************************************************)
EXTENDS HostBackoff, RobotsCache, TLAPS

-----------------------------------------------------------------------------
(* The failure state of a host                                             *)

\* compute_backoff stays within max_backoff: whatever the number of failures
\* and the multiplier make of the exponential, whether or not a Duration can
\* hold it, and whatever Retry-After the server sends.
LEMMA BackoffBounded ==
  ASSUME NEW n \in Nat, NEW strong \in BOOLEAN, NEW hint \in Hints \cup {NoScore}
  PROVE  ComputeBackoff(n, strong, hint) \in 0 .. MaxBackoff
<1> DEFINE base == IF strong THEN Initial ELSE Initial \div 2
<1>1. base \in Nat /\ Multiplier \in Nat
  BY PolicyAssumption
<1>2. Computed(n, strong) \in 0 .. MaxBackoff
  <2>1. CASE n = 0
    BY <2>1, PolicyAssumption DEF Computed
  <2>2. CASE n # 0
    <3>1. Multiplier ^ (n - 1) \in Int
      <4>1. n - 1 \in Nat
        BY <2>2
      <4>2. QED
        BY <1>1, <4>1, PolicyAssumption
    <3>2. \A x \in Int : Most(0, x) \in Nat
      BY DEF Most
    <3>3. base * Multiplier ^ (n - 1) \in Int
      BY <1>1, <3>1
    <3>4. \A x \in Nat : Least(x, MaxBackoff) \in 0 .. MaxBackoff
      BY PolicyAssumption DEF Least
    <3>5. 0 \in 0 .. MaxBackoff
      BY PolicyAssumption
    <3>6. QED
      BY <3>2, <3>3, <3>4, <3>5 DEF Computed
  <2>3. QED
    BY <2>1, <2>2
<1>3. hint # NoScore => hint \in Nat
  BY PolicyAssumption
<1>4. \A x \in 0 .. MaxBackoff, h \in Nat : Most(x, Least(h, MaxBackoff)) \in 0 .. MaxBackoff
  BY PolicyAssumption DEF Most, Least
<1>5. QED
  BY <1>2, <1>3, <1>4 DEF ComputeBackoff

\* Time shortens a window that has not lapsed, and no other.
LEMMA SoonerTyped == \A t \in NoScore .. MaxBackoff : Sooner(t) \in NoScore .. MaxBackoff
BY PolicyAssumption DEF Sooner, NoScore

\* Every command of a check or a record, every fault and the clock keep the types.
LEMMA BreakerTypeNext == BreakerTypeOK /\ [BreakerNext]_breaker => BreakerTypeOK'
<1> SUFFICES ASSUME BreakerTypeOK, [BreakerNext]_breaker PROVE BreakerTypeOK'
  OBVIOUS
<1>0. /\ 0 \in 0 .. MaxCount /\ NoScore \in NoScore .. MaxBackoff
      /\ 0 .. MaxBackoff \subseteq NoScore .. MaxBackoff
  BY PolicyAssumption DEF NoScore
<1>1. ASSUME NEW w \in Fetchers, Done(w)
      PROVE  /\ stage' \in [Fetchers -> Stages] /\ read' \in [Fetchers -> 0 .. MaxCount]
             /\ window' \in [Fetchers -> NoScore .. MaxBackoff]
  BY <1>0, <1>1 DEF BreakerTypeOK, Done, Goto, Stages
<1>2. ASSUME NEW w \in Fetchers, NEW l \in Stages, Goto(w, l) PROVE stage' \in [Fetchers -> Stages]
  BY <1>2 DEF BreakerTypeOK, Goto
<1>3. ASSUME NEW w \in Fetchers, ReadFailures(w) \/ ReadWindow(w) PROVE BreakerTypeOK'
  <2>1. stage' \in [Fetchers -> Stages]
    BY <1>2, <1>3 DEF ReadFailures, ReadWindow, Stages
  <2>2. QED
    BY <1>3, <2>1 DEF ReadFailures, ReadWindow, BreakerTypeOK
<1>4. ASSUME NEW w \in Fetchers, Note(w) PROVE BreakerTypeOK'
  <2>1. /\ stage' \in [Fetchers -> Stages] /\ read' \in [Fetchers -> 0 .. MaxCount]
        /\ window' \in [Fetchers -> NoScore .. MaxBackoff]
    <3>1. CASE Done(w)
      BY <1>1, <3>1
    <3>2. CASE /\ Goto(w, "fetching")
               /\ read' = [read EXCEPT ![w] = 0] /\ window' = [window EXCEPT ![w] = NoScore]
      <4>1. stage' \in [Fetchers -> Stages]
        BY <1>2, <3>2 DEF Stages
      <4>2. QED
        BY <1>0, <3>2, <4>1, Zenon DEF BreakerTypeOK
    <3>3. QED
      BY <1>4, <3>1, <3>2 DEF Note
  <2>2. tracked' \in BOOLEAN
    BY <1>4 DEF Note
  <2>3. QED
    BY <1>4, <2>1, <2>2 DEF Note, BreakerTypeOK
<1>5. ASSUME NEW w \in Fetchers,
             RobotsDisallow(w) \/ Succeed(w) \/ Fail(w) \/ ResetOnSuccess(w) \/ Clear(w) \/ Invalidate(w)
      PROVE  BreakerTypeOK'
  <2>1. PICK l \in {"idle", "resetting", "counting", "clearing", "cleared"} : Goto(w, l)
    BY <1>5 DEF RobotsDisallow, Succeed, Fail, ResetOnSuccess, Clear, Invalidate
  <2>2. stage' \in [Fetchers -> Stages]
    BY <1>2, <2>1 DEF Stages
  <2>3. QED
    BY <1>0, <1>5, <2>2, Zenon
       DEF RobotsDisallow, Succeed, Fail, ResetOnSuccess, Clear, Invalidate, BreakerTypeOK
<1>6. ASSUME NEW w \in Fetchers, CountFailure(w) PROVE BreakerTypeOK'
  <2>1. Least(failures + 1, MaxCount) \in 0 .. MaxCount
    BY PolicyAssumption DEF Least, BreakerTypeOK
  <2>2. stage' \in [Fetchers -> Stages]
    BY <1>2, <1>6 DEF CountFailure, Stages
  <2>3. QED
    BY <1>6, <2>1, <2>2, Zenon DEF CountFailure, BreakerTypeOK
<1>7. ASSUME NEW w \in Fetchers, Track(w) PROVE BreakerTypeOK'
  <2>1. PICK strong \in BOOLEAN, hint \in Hints \cup {NoScore} :
          window' = [window EXCEPT ![w] = ComputeBackoff(read[w], strong, hint)]
    BY <1>7, Zenon DEF Track
  <2>2. read[w] \in Nat
    BY PolicyAssumption DEF BreakerTypeOK
  <2>3. ComputeBackoff(read[w], strong, hint) \in NoScore .. MaxBackoff
    BY <1>0, <2>2, BackoffBounded
  <2>4. window' \in [Fetchers -> NoScore .. MaxBackoff]
    BY <2>1, <2>3 DEF BreakerTypeOK
  <2>5. stage' \in [Fetchers -> Stages]
    BY <1>2, <1>7 DEF Track, Stages
  <2>6. QED
    BY <1>0, <1>7, <2>4, <2>5 DEF Track, BreakerTypeOK
<1>8. ASSUME NEW w \in Fetchers, WriteWindow(w) \/ RedisError(w) PROVE BreakerTypeOK'
  <2>1. /\ stage' \in [Fetchers -> Stages] /\ read' \in [Fetchers -> 0 .. MaxCount]
        /\ window' \in [Fetchers -> NoScore .. MaxBackoff]
    BY <1>1, <1>8 DEF WriteWindow, RedisError
  <2>2. mishaps' \in 0 .. MaxMishaps
    BY <1>8, PolicyAssumption DEF WriteWindow, RedisError, BreakerTypeOK
  <2>3. QED
    BY <1>8, <2>1, <2>2 DEF WriteWindow, RedisError, BreakerTypeOK
<1>9. CASE EvictHost \/ Restart \/ Recover
  <2>1. mishaps' \in 0 .. MaxMishaps
    BY <1>9, PolicyAssumption DEF EvictHost, Restart, Recover, BreakerTypeOK
  <2>2. QED
    BY <1>0, <1>9, <2>1, Zenon DEF EvictHost, Restart, Recover, BreakerTypeOK, Stages
<1>10. CASE BackoffElapses
  BY <1>10, SoonerTyped DEF BackoffElapses, BreakerTypeOK
<1>11. CASE UNCHANGED breaker
  BY <1>11 DEF breaker, BreakerTypeOK
<1>12. QED
  BY <1>3, <1>4, <1>5, <1>6, <1>7, <1>8, <1>9, <1>10, <1>11 DEF BreakerNext, Check, Record

\* Every reachable state of the breaker is well typed, for any workers and any
\* policy: no window that workers race to write is beyond max_backoff.
THEOREM BreakerTypeCorrect == BreakerSpec => []BreakerTypeOK
<1>1. BreakerInit => BreakerTypeOK
  <2>1. 0 \in 0 .. MaxCount /\ NoScore \in NoScore .. MaxBackoff /\ 0 \in 0 .. MaxMishaps
    BY PolicyAssumption DEF NoScore
  <2>2. QED
    BY <2>1, Zenon DEF BreakerInit, BreakerTypeOK, Stages
<1>2. QED
  BY <1>1, BreakerTypeNext, PTL DEF BreakerSpec

-----------------------------------------------------------------------------
(* The robots cache: type correctness                                      *)

\* Either lifetime is a second at least, and so the oldest answer has an age.
LEMMA Lifetimes ==
  /\ JitteredTtl \in Nat /\ JitteredTtl >= 1 /\ BaseTtl \in Nat /\ BaseTtl >= 1
  /\ MaxDelay \in Nat /\ MaxAge \in Nat /\ MaxFaults \in Nat
<1>1. BaseTtl * (80 + Bucket) \in Nat
  BY RobotsAssumption
<1>2. \A n \in Nat : n \div 100 \in Nat
  OBVIOUS
<1>3. JitteredTtl \in Nat /\ JitteredTtl >= 1
  BY <1>1, <1>2 DEF JitteredTtl
<1>4. QED
  BY <1>3, RobotsAssumption DEF MaxAge

\* The moving worker's variables keep their domains.
LEMMA MovesTyped ==
  ASSUME TypeOK, NEW w \in Workers, NEW l \in Phases, NEW a \in Answers \cup {NoAnswer},
         Moves(w, l, a)
  PROVE  /\ pc' \in [Workers -> Phases] /\ got' \in [Workers -> Answers \cup {NoAnswer}]
         /\ waited' \in [Workers -> 0 .. MaxDelay]
BY Lifetimes DEF TypeOK, Moves

\* The hash holds an answer or a miss.
LEMMA SharedTyped == TypeOK => SharedAnswer \in Answers \cup {NoAnswer}
BY Zenon DEF TypeOK, SharedAnswer, Answers

\* Every step of a check, of the host and of time keeps the types.
LEMMA TypeNext == TypeOK /\ [Next]_vars => TypeOK'
<1> SUFFICES ASSUME TypeOK, [Next]_vars PROVE TypeOK'
  BY Zenon
<1> USE DEF shared
<1>0. \A a : Verdict(a) \in Phases
  BY Zenon DEF Verdict, Phases
<1>1. ASSUME NEW w \in Workers, Lookup(w) PROVE TypeOK'
  <2>1. local[PodOf[w]] \in Answers \cup {NoAnswer}
    BY RobotsAssumption, Zenon DEF TypeOK
  <2>2. \E l \in Phases : \E a \in Answers \cup {NoAnswer} : Moves(w, l, a)
    <3>1. "allow" \in Phases /\ "read" \in Phases
      BY Zenon DEF Phases
    <3>2. QED
      BY <1>0, <1>1, <2>1, <3>1, Zenon DEF Lookup
  <2>3. QED
    BY <1>1, <2>2, MovesTyped, Zenon DEF Lookup, TypeOK
<1>2. ASSUME NEW w \in Workers, ReadCache(w) PROVE TypeOK'
  <2>1. \E l \in Phases : Moves(w, l, SharedAnswer)
    BY <1>2, Zenon DEF ReadCache, Phases
  <2>2. QED
    BY <1>2, <2>1, SharedTyped, MovesTyped, Zenon DEF ReadCache, TypeOK
<1>3. ASSUME NEW w \in Workers, FetchRobots(w) PROVE TypeOK'
  <2>1. PICK a \in {origin, Absent} : Moves(w, "status", a) /\ age' = [age EXCEPT ![a] = 0]
    BY <1>3, Zenon DEF FetchRobots
  <2>2. a \in Answers /\ "status" \in Phases
    BY Zenon DEF TypeOK, Answers, Phases
  <2>3. age' \in [Answers -> 0 .. MaxAge + 1]
    BY <2>1, <2>2, Lifetimes DEF TypeOK
  <2>4. QED
    BY <1>3, <2>1, <2>2, <2>3, MovesTyped, Zenon DEF FetchRobots, TypeOK
<1>4. ASSUME NEW w \in Workers, WriteStatus(w) \/ WriteBody(w) \/ WriteExpire(w) \/ Insert(w)
      PROVE  TypeOK'
  <2>1. got[w] \in Answers \cup {NoAnswer} /\ PodOf[w] \in Pods
    BY RobotsAssumption, Zenon DEF TypeOK
  <2>2. \E l \in Phases : Moves(w, l, got[w])
    <3>1. {"body", "expire", "insert"} \subseteq Phases
      BY Zenon DEF Phases
    <3>2. QED
      BY <1>0, <1>4, <3>1, Zenon DEF WriteStatus, WriteBody, WriteExpire, Insert
  <2>3. /\ pc' \in [Workers -> Phases] /\ got' \in [Workers -> Answers \cup {NoAnswer}]
        /\ waited' \in [Workers -> 0 .. MaxDelay]
    BY <2>1, <2>2, MovesTyped, Zenon
  <2>4. /\ status' \in {"ok", Absent, NoAnswer} /\ body' \in Bodies \cup {NoAnswer}
        /\ expires' \in NoTtl .. JitteredTtl
    BY <1>4, <2>1, Lifetimes
       DEF WriteStatus, WriteBody, WriteExpire, Insert, TypeOK, Answers, NoTtl
  <2>5. /\ local' \in [Pods -> Answers \cup {NoAnswer}] /\ lives' \in [Pods -> 0 .. BaseTtl]
    BY <1>4, <2>1, Lifetimes DEF WriteStatus, WriteBody, WriteExpire, Insert, TypeOK
  <2>6. QED
    BY <1>4, <2>3, <2>4, <2>5, Zenon DEF WriteStatus, WriteBody, WriteExpire, Insert, TypeOK
<1>5. ASSUME NEW w \in Workers, Decide(w) \/ CallFails(w) PROVE TypeOK'
  <2>1. Moves(w, "idle", NoAnswer) /\ "idle" \in Phases
    BY <1>5, Zenon DEF Decide, CallFails, Phases
  <2>2. faults' \in 0 .. MaxFaults
    BY <1>5, Lifetimes DEF Decide, CallFails, Fault, TypeOK
  <2>3. torn' \in BOOLEAN
    BY <1>5, Zenon DEF Decide, CallFails, TypeOK
  <2>4. QED
    BY <1>5, <2>1, <2>2, <2>3, MovesTyped, Zenon DEF Decide, CallFails, TypeOK
<1>6. ASSUME NEW p \in Pods, Evict(p) PROVE TypeOK'
  BY <1>6, Lifetimes DEF Evict, TypeOK
<1>7. CASE Change
  BY <1>7, Zenon DEF Change, TypeOK
<1>8. CASE Elapse
  <2>1. waited' \in [Workers -> 0 .. MaxDelay] /\ age' \in [Answers -> 0 .. MaxAge + 1]
    BY <1>8, Lifetimes DEF Elapse, TypeOK
  <2>2. lives' \in [Pods -> 0 .. BaseTtl] /\ local' \in [Pods -> Answers \cup {NoAnswer}]
    BY <1>8, Lifetimes DEF Elapse, TypeOK
  <2>3. /\ status' \in {"ok", Absent, NoAnswer} /\ body' \in Bodies \cup {NoAnswer}
        /\ expires' \in NoTtl .. JitteredTtl
    BY <1>8, Lifetimes DEF Elapse, TypeOK, NoTtl
  <2>4. QED
    BY <1>8, <2>1, <2>2, <2>3, Zenon DEF Elapse, TypeOK
<1>9. CASE UNCHANGED vars
  BY <1>9, Zenon DEF vars, TypeOK
<1>10. QED
  BY <1>1, <1>2, <1>3, <1>4, <1>5, <1>6, <1>7, <1>8, <1>9, Zenon DEF Next

\* Every reachable state is well typed: no lifetime exceeds the configured
\* ones, however often entries are written again.
THEOREM TypeCorrect == Spec => []TypeOK
<1>1. Init => TypeOK
  <2> SUFFICES ASSUME Init PROVE TypeOK
    BY Zenon
  <2>1. "idle" \in Phases /\ expires \in NoTtl .. JitteredTtl
    BY Lifetimes DEF Init, Phases, NoTtl
  <2>2. /\ lives \in [Pods -> 0 .. BaseTtl] /\ waited \in [Workers -> 0 .. MaxDelay]
        /\ age \in [Answers -> 0 .. MaxAge + 1] /\ faults \in 0 .. MaxFaults
    BY Lifetimes DEF Init
  <2>3. QED
    BY <2>1, <2>2, Zenon DEF Init, TypeOK
<1>2. QED
  BY <1>1, TypeNext, PTL DEF Spec

-----------------------------------------------------------------------------
(* How old the answers are that the caches and the workers hold            *)

\* What the fields of the shared hash say is at most n old.  A status "ok"
\* says nothing by itself.
StatusWithin(n) == status = Absent => age[Absent] <= n
BodyWithin(n) == body # NoAnswer => age[body] <= n

\* An answer ages by at most the delay of each step it has been through; one
\* that was read from a cache also by the time it lay there.
CarriedFresh(w) ==
  /\ pc[w] \in {"status", "body", "expire", "insert"} => got[w] \in Answers
  /\ pc[w] = "status" => age[got[w]] <= waited[w]
  /\ pc[w] = "body" => age[got[w]] <= MaxDelay + waited[w]
  /\ pc[w] = "expire" => age[got[w]] <= 2 * MaxDelay + waited[w]
  /\ pc[w] = "insert" => age[got[w]] <= 3 * MaxDelay + JitteredTtl - 1 + waited[w]
  /\ pc[w] \in {"allow", "disallow"} /\ EffectiveObeyRobots =>
       /\ got[w] \in Answers
       /\ age[got[w]] <= 4 * MaxDelay + JitteredTtl + BaseTtl - 2 + waited[w]
  /\ pc[w] = "allow" => got[w] \notin Forbids
  /\ pc[w] \notin {"idle", "allow"} => EffectiveObeyRobots

\* What a worker has written is still in the hash, or something more recent
\* is, or the hash has expired.
WrittenFresh(w) ==
  /\ pc[w] = "body" => StatusWithin(MaxDelay + waited[w])
  /\ pc[w] = "expire" =>
       StatusWithin(2 * MaxDelay + waited[w]) /\ BodyWithin(2 * MaxDelay + waited[w])

\* A hash without an expiry has a worker that is about to give it one, soon
\* enough for the body the hash holds.
Rescued(w) == pc[w] \in {"body", "expire"} /\ BodyWithin(2 * MaxDelay + waited[w])

SharedFresh ==
  /\ Cached /\ expires = NoTtl => \E w \in Workers : Rescued(w)
  /\ expires # NoTtl =>
       /\ expires >= 1 /\ Cached
       /\ StatusWithin(3 * MaxDelay + JitteredTtl - expires)
       /\ BodyWithin(3 * MaxDelay + JitteredTtl - expires)

LocalFresh ==
  \A p \in Pods : local[p] # NoAnswer =>
    /\ lives[p] >= 1
    /\ age[local[p]] <= 4 * MaxDelay + JitteredTtl - 1 + BaseTtl - lives[p]

FreshInv ==
  (\A w \in Workers : CarriedFresh(w) /\ WrittenFresh(w)) /\ SharedFresh /\ LocalFresh

\* A step of one worker leaves the others where they are.
LEMMA MovesEffect ==
  ASSUME TypeOK, NEW w \in Workers, NEW l, NEW a, Moves(w, l, a)
  PROVE  /\ pc'[w] = l /\ got'[w] = a /\ waited'[w] = 0
         /\ \A x \in Workers \ {w} : pc'[x] = pc[x] /\ got'[x] = got[x] /\ waited'[x] = waited[x]
BY Zenon DEF TypeOK, Moves

\* The numbers in the bounds.
LEMMA Numbers ==
  ASSUME TypeOK
  PROVE  /\ \A w \in Workers : waited[w] \in Nat /\ waited[w] <= MaxDelay
         /\ \A a \in Answers : age[a] \in Nat
         /\ \A p \in Pods : lives[p] \in Nat /\ lives[p] <= BaseTtl
         /\ expires \in Int /\ expires <= JitteredTtl
         /\ body # NoAnswer => body \in Answers
         /\ Absent \in Answers /\ Absent # NoAnswer /\ NoAnswer \notin Answers
<1>1. NoAnswer \notin Answers /\ Absent # NoAnswer
  BY RobotsAssumption, Zenon DEF Answers, Absent, NoAnswer
<1>2. QED
  BY <1>1, Lifetimes DEF TypeOK, NoTtl, Answers

\* What the invariant says of one worker, and the numbers in it.
LEMMA FreshOf ==
  ASSUME TypeOK, FreshInv, NEW w \in Workers
  PROVE  /\ CarriedFresh(w) /\ WrittenFresh(w)
         /\ waited[w] \in Nat /\ waited[w] <= MaxDelay
         /\ got[w] \in Answers => age[got[w]] \in Nat
         /\ age[Absent] \in Nat /\ (body # NoAnswer => age[body] \in Nat)
BY Numbers, Zenon DEF FreshInv

\* Steps that only read: they leave the hash, the pods' entries and the ages.
LEMMA FreshRead ==
  ASSUME TypeOK, FreshInv, NEW w \in Workers, NEW l, NEW a, Moves(w, l, a),
         UNCHANGED <<shared, local, lives, age>>,
         pc[w] \notin {"body", "expire"} \/ ~Cached \/ expires # NoTtl,
         l \notin {"body", "expire"}, CarriedFresh(w)'
  PROVE  FreshInv'
<1> USE DEF shared
<1>1. /\ pc'[w] = l /\ got'[w] = a /\ waited'[w] = 0
      /\ \A x \in Workers \ {w} : pc'[x] = pc[x] /\ got'[x] = got[x] /\ waited'[x] = waited[x]
  BY MovesEffect, Zenon
<1>2. ASSUME NEW x \in Workers PROVE CarriedFresh(x)' /\ WrittenFresh(x)'
  <2>1. CASE x = w
    BY <1>1, <2>1, Zenon DEF WrittenFresh
  <2>2. CASE x # w
    BY <1>1, <2>2, Zenon DEF FreshInv, CarriedFresh, WrittenFresh, StatusWithin, BodyWithin
  <2>3. QED
    BY <2>1, <2>2, Zenon
<1>3. SharedFresh'
  <2>1. ASSUME Cached, expires = NoTtl PROVE \E x \in Workers : Rescued(x)'
    <3>1. PICK x \in Workers : Rescued(x)
      BY <2>1, Zenon DEF FreshInv, SharedFresh
    <3>2. x # w
      BY <2>1, <3>1, Zenon DEF Rescued
    <3>3. Rescued(x)'
      BY <1>1, <3>1, <3>2, Zenon DEF Rescued, BodyWithin
    <3>4. QED
      BY <3>3, Zenon
  <2>2. QED
    BY <2>1, Zenon DEF FreshInv, SharedFresh, Cached, StatusWithin, BodyWithin, Rescued
<1>4. LocalFresh'
  BY Zenon DEF FreshInv, LocalFresh
<1>5. QED
  BY <1>2, <1>3, <1>4, Zenon DEF FreshInv

\* check: an entry of the pod's own cache is within its lifetime.
LEMMA FreshLookup ==
  ASSUME TypeOK, FreshInv, NEW w \in Workers, Lookup(w)
  PROVE  FreshInv'
<1> DEFINE cached == local[PodOf[w]]
<1>1. PodOf[w] \in Pods
  BY RobotsAssumption, Zenon
<1>2. UNCHANGED <<shared, local, lives, age>> /\ pc[w] \notin {"body", "expire"}
  BY Zenon DEF Lookup
<1>3. CASE ~EffectiveObeyRobots /\ Moves(w, "allow", NoAnswer)
  <2>1. NoAnswer \notin Forbids
    BY RobotsAssumption, Zenon
  <2>2. CarriedFresh(w)'
    BY <1>3, <2>1, MovesEffect DEF CarriedFresh, EffectiveObeyRobots
  <2>3. QED
    BY <1>2, <1>3, <2>2, FreshRead, Zenon
<1>4. CASE EffectiveObeyRobots /\ Moves(w, "read", NoAnswer)
  <2>1. CarriedFresh(w)'
    BY <1>4, MovesEffect DEF CarriedFresh, EffectiveObeyRobots
  <2>2. QED
    BY <1>2, <1>4, <2>1, FreshRead, Zenon
<1>5. CASE EffectiveObeyRobots /\ cached # NoAnswer /\ Moves(w, Verdict(cached), cached)
  <2>1. /\ pc'[w] = Verdict(cached) /\ got'[w] = cached /\ waited'[w] = 0 /\ age' = age
        /\ EffectiveObeyRobots'
    BY <1>2, <1>5, MovesEffect DEF EffectiveObeyRobots
  <2>2. /\ lives[PodOf[w]] >= 1
        /\ age[cached] <= 4 * MaxDelay + JitteredTtl - 1 + BaseTtl - lives[PodOf[w]]
    BY <1>1, <1>5, Zenon DEF FreshInv, LocalFresh
  <2>3. /\ cached \in Answers /\ age[cached] \in Nat /\ lives[PodOf[w]] \in Nat
    BY <1>1, <1>5, Numbers, Zenon DEF TypeOK
  <2>4. age[cached] <= 4 * MaxDelay + JitteredTtl + BaseTtl - 2 + 0
    BY <2>2, <2>3, Lifetimes
  <2>5. Verdict(cached) \in {"allow", "disallow"} /\ (Verdict(cached) = "allow" => cached \notin Forbids)
    BY Zenon DEF Verdict
  <2>6. CarriedFresh(w)'
    BY <2>1, <2>3, <2>4, <2>5, Zenon DEF CarriedFresh
  <2>7. QED
    BY <1>2, <1>5, <2>5, <2>6, FreshRead, Zenon
<1>6. QED
  BY <1>3, <1>4, <1>5, Zenon DEF Lookup

\* read_cache: what the hash says is within its lifetime, or a worker of the
\* pipeline that wrote it has not set the expiry yet.
LEMMA FreshReadCache ==
  ASSUME TypeOK, FreshInv, NEW w \in Workers, ReadCache(w)
  PROVE  FreshInv'
<1> DEFINE a == SharedAnswer
           l == IF a = NoAnswer THEN "fetch" ELSE "insert"
<1>1. /\ UNCHANGED <<shared, local, lives, age>> /\ pc[w] \notin {"body", "expire"}
      /\ Moves(w, l, a) /\ l \in {"fetch", "insert"}
  BY Zenon DEF ReadCache
<1>2. pc'[w] = l /\ got'[w] = a /\ waited'[w] = 0 /\ age' = age
  BY <1>1, MovesEffect, ZenonT(60)
<1>3. ASSUME a # NoAnswer PROVE a \in Answers /\ age[a] <= 3 * MaxDelay + JitteredTtl - 1 + 0
  <2>1. a \in Answers /\ age[a] \in Nat /\ Cached
    BY <1>3, SharedTyped, Numbers, Zenon DEF SharedAnswer, Cached, TypeOK
  <2>2. (status = Absent /\ a = Absent) \/ (body # NoAnswer /\ a = body)
    BY <1>3, Numbers, Zenon DEF SharedAnswer, TypeOK
  <2>3. CASE expires = NoTtl
    <3>1. PICK v \in Workers : Rescued(v)
      BY <2>1, <2>3, Zenon DEF FreshInv, SharedFresh
    <3>2. WrittenFresh(v) /\ waited[v] \in Nat /\ waited[v] <= MaxDelay
      BY Numbers, Zenon DEF FreshInv
    <3>3. age[a] <= 2 * MaxDelay + waited[v]
      BY <2>1, <2>2, <3>1, <3>2, Lifetimes DEF Rescued, WrittenFresh, StatusWithin, BodyWithin
    <3>4. QED
      BY <2>1, <3>2, <3>3, Lifetimes
  <2>4. CASE expires # NoTtl
    BY <2>1, <2>2, <2>4, Numbers, Lifetimes DEF FreshInv, SharedFresh, StatusWithin, BodyWithin
  <2>5. QED
    BY <2>3, <2>4, Zenon
<1>4. EffectiveObeyRobots
  BY Zenon DEF ReadCache, FreshInv, CarriedFresh
<1>5. CarriedFresh(w)'
  BY <1>2, <1>3, <1>4, Zenon DEF CarriedFresh, EffectiveObeyRobots
<1>6. QED
  BY <1>1, <1>5, FreshRead, Zenon

\* The steps that end a check.  A pipeline that breaks off may leave a hash
\* that nobody will expire: that is what `torn' observes.
LEMMA FreshEnds ==
  ASSUME TypeOK, FreshInv, NEW w \in Workers, Decide(w) \/ CallFails(w), ~torn'
  PROVE  FreshInv'
<1>1. Moves(w, "idle", NoAnswer) /\ UNCHANGED <<shared, local, lives, age>>
  BY Zenon DEF Decide, CallFails
<1>2. pc[w] \notin {"body", "expire"} \/ ~Cached \/ expires # NoTtl
  BY Zenon DEF Decide, CallFails
<1>3. CarriedFresh(w)'
  BY <1>1, MovesEffect DEF CarriedFresh
<1>4. QED
  BY <1>1, <1>2, <1>3, FreshRead, Zenon

\* fetch_and_cache: the ages only fall.
LEMMA FreshFetch ==
  ASSUME TypeOK, FreshInv, NEW w \in Workers, FetchRobots(w)
  PROVE  FreshInv'
<1> USE DEF shared
<1>1. PICK a \in {origin, Absent} : Moves(w, "status", a) /\ age' = [age EXCEPT ![a] = 0]
  BY Zenon DEF FetchRobots
<1>2. /\ a \in Answers /\ UNCHANGED <<status, body, expires, local, lives>> /\ pc[w] = "fetch"
  BY Zenon DEF TypeOK, Answers, FetchRobots
<1>3. /\ pc'[w] = "status" /\ got'[w] = a /\ waited'[w] = 0
      /\ \A x \in Workers \ {w} : pc'[x] = pc[x] /\ got'[x] = got[x] /\ waited'[x] = waited[x]
  BY <1>1, MovesEffect, Zenon
<1>4. age'[a] = 0 /\ \A b \in Answers : age'[b] \in Nat /\ age[b] \in Nat /\ age'[b] <= age[b]
  BY <1>1, <1>2, Numbers DEF TypeOK
<1>5. ASSUME NEW n \in Int
      PROVE  /\ StatusWithin(n) => (status' = Absent => age'[Absent] <= n)
             /\ BodyWithin(n) => (body' # NoAnswer => age'[body'] <= n)
  <2>1. ASSUME NEW b \in Answers, age[b] <= n PROVE age'[b] <= n
    <3>1. age'[b] \in Nat /\ age[b] \in Nat /\ age'[b] <= age[b]
      BY <1>4, Zenon
    <3>2. QED
      BY <2>1, <3>1
  <2>2. Absent \in Answers /\ (body # NoAnswer => body \in Answers)
    BY Numbers, Zenon
  <2>3. QED
    BY <1>2, <2>1, <2>2, Zenon DEF StatusWithin, BodyWithin
<1>6. ASSUME NEW x \in Workers PROVE CarriedFresh(x)' /\ WrittenFresh(x)'
  <2>1. CASE x = w
    <3>1. age'[a] <= 0 /\ EffectiveObeyRobots
      <4>1. EffectiveObeyRobots
        BY <1>2, FreshOf, Zenon DEF CarriedFresh
      <4>2. QED
        BY <1>4, <4>1
    <3>2. QED
      BY <1>2, <1>3, <2>1, <3>1, Zenon DEF CarriedFresh, WrittenFresh, EffectiveObeyRobots
  <2>2. CASE x # w
    <3>1. CarriedFresh(x) /\ WrittenFresh(x) /\ waited[x] \in Nat
      BY Numbers, Zenon DEF FreshInv
    <3>2. /\ pc'[x] = pc[x] /\ got'[x] = got[x] /\ waited'[x] = waited[x]
          /\ got[x] \in Answers \/ got[x] = NoAnswer
      BY <1>3, <2>2, Zenon DEF TypeOK
    <3>3. /\ waited[x] \in Int /\ MaxDelay + waited[x] \in Int /\ 2 * MaxDelay + waited[x] \in Int
          /\ 3 * MaxDelay + JitteredTtl - 1 + waited[x] \in Int
          /\ 4 * MaxDelay + JitteredTtl + BaseTtl - 2 + waited[x] \in Int
      BY <3>1, Lifetimes
    <3>4. CarriedFresh(x)'
      <4>1. ASSUME NEW n \in Int, got[x] \in Answers, age[got[x]] <= n PROVE age'[got[x]] <= n
        <5>1. age'[got[x]] \in Nat /\ age[got[x]] \in Nat /\ age'[got[x]] <= age[got[x]]
          BY <1>4, <4>1, Zenon
        <5>2. QED
          BY <4>1, <5>1
      <4>2. QED
        BY <3>1, <3>2, <3>3, <4>1, Zenon DEF CarriedFresh, EffectiveObeyRobots
    <3>5. WrittenFresh(x)'
      BY <1>5, <3>1, <3>2, <3>3, Zenon DEF WrittenFresh, StatusWithin, BodyWithin
    <3>6. QED
      BY <3>4, <3>5, Zenon
  <2>3. QED
    BY <2>1, <2>2, Zenon
<1>7. SharedFresh'
  <2>1. ASSUME Cached, expires = NoTtl PROVE \E x \in Workers : Rescued(x)'
    <3>1. PICK x \in Workers : Rescued(x)
      BY <2>1, Zenon DEF FreshInv, SharedFresh
    <3>2. x # w /\ waited[x] \in Nat
      BY <1>2, <3>1, Numbers, Zenon DEF Rescued
    <3>3. Rescued(x)'
      BY <1>3, <1>5, <3>1, <3>2, Lifetimes, SMTT(60) DEF Rescued, BodyWithin
    <3>4. QED
      BY <3>3, Zenon
  <2>2. ASSUME expires # NoTtl
        PROVE  /\ expires' >= 1 /\ Cached'
               /\ StatusWithin(3 * MaxDelay + JitteredTtl - expires)'
               /\ BodyWithin(3 * MaxDelay + JitteredTtl - expires)'
    BY <1>2, <1>5, <2>2, Numbers, Lifetimes
       DEF FreshInv, SharedFresh, Cached, StatusWithin, BodyWithin
  <2>3. QED
    BY <1>2, <2>1, <2>2, Zenon DEF SharedFresh, Cached
<1>8. LocalFresh'
  <2>1. \A p \in Pods : local[p] # NoAnswer => local[p] \in Answers
    BY Zenon DEF TypeOK
  <2>2. QED
    BY <1>2, <1>4, <2>1, Numbers, Lifetimes DEF FreshInv, LocalFresh
<1>9. QED
  BY <1>6, <1>7, <1>8, Zenon DEF FreshInv

\* The commands of write_cache: each leaves the ages and the pods' entries.
LEMMA FreshWrites ==
  ASSUME TypeOK, FreshInv, NEW w \in Workers, NEW l, Moves(w, l, got[w]),
         UNCHANGED <<local, lives, age>>, CarriedFresh(w)',
         \A x \in Workers : WrittenFresh(x)', SharedFresh'
  PROVE  FreshInv'
<1>1. \A x \in Workers \ {w} : pc'[x] = pc[x] /\ got'[x] = got[x] /\ waited'[x] = waited[x]
  BY MovesEffect, Zenon
<1>2. \A x \in Workers \ {w} : CarriedFresh(x)'
  BY <1>1, Zenon DEF FreshInv, CarriedFresh, EffectiveObeyRobots
<1>3. LocalFresh'
  BY Zenon DEF FreshInv, LocalFresh
<1>4. QED
  BY <1>2, <1>3, Zenon DEF FreshInv

\* HSET status.  A hash this creates anew is without a body, and its writer
\* is the one to give it an expiry.
LEMMA FreshWriteStatus ==
  ASSUME TypeOK, FreshInv, NEW w \in Workers, WriteStatus(w)
  PROVE  FreshInv'
<1>1. /\ pc[w] = "status" /\ Moves(w, "body", got[w])
      /\ status' = IF got[w] = Absent THEN Absent ELSE "ok"
      /\ body' = body /\ expires' = expires /\ age' = age /\ local' = local /\ lives' = lives
  BY Zenon DEF WriteStatus
<1>2. /\ pc'[w] = "body" /\ got'[w] = got[w] /\ waited'[w] = 0
      /\ \A x \in Workers \ {w} : pc'[x] = pc[x] /\ got'[x] = got[x] /\ waited'[x] = waited[x]
  BY <1>1, MovesEffect, Zenon
<1>3. got[w] \in Answers /\ age[got[w]] <= MaxDelay /\ age[got[w]] \in Nat
  <2>1. got[w] \in Answers /\ age[got[w]] <= waited[w]
    BY <1>1, FreshOf, Zenon DEF CarriedFresh
  <2>2. waited[w] \in Nat /\ waited[w] <= MaxDelay /\ age[got[w]] \in Nat
    BY <2>1, FreshOf, Zenon
  <2>3. QED
    BY <2>1, <2>2, Lifetimes
<1>4. CarriedFresh(w)'
  <2>1. age'[got[w]] <= MaxDelay + 0
    BY <1>1, <1>3, Lifetimes
  <2>2. EffectiveObeyRobots
    BY <1>1, FreshOf, Zenon DEF CarriedFresh
  <2>3. QED
    BY <1>2, <1>3, <2>1, <2>2, Zenon DEF CarriedFresh, EffectiveObeyRobots
<1>5. status' # NoAnswer /\ (status' = Absent => got[w] = Absent)
  BY <1>1, Zenon DEF Absent, NoAnswer
<1>6. status' = Absent => age'[Absent] <= MaxDelay /\ age'[Absent] \in Nat
  BY <1>1, <1>3, <1>5, Zenon
<1>7. \A x \in Workers : WrittenFresh(x)'
  <2>1. \A x \in Workers : waited'[x] \in Nat
    BY <1>2, Numbers
  <2>2. ASSUME NEW x \in Workers
        PROVE  /\ status' = Absent => age'[Absent] <= MaxDelay + waited'[x]
               /\ status' = Absent => age'[Absent] <= 2 * MaxDelay + waited'[x]
    BY <1>6, <2>1, Lifetimes
  <2>3. ASSUME NEW x \in Workers PROVE WrittenFresh(x)'
    <3>1. CASE x = w
      BY <1>2, <2>2, <3>1, Zenon DEF WrittenFresh, StatusWithin
    <3>2. CASE x # w
      <4>1. WrittenFresh(x) /\ pc'[x] = pc[x] /\ waited'[x] = waited[x]
        BY <1>2, <3>2, FreshOf, Zenon
      <4>2. QED
        BY <1>1, <2>2, <4>1, Zenon DEF WrittenFresh, StatusWithin, BodyWithin
    <3>3. QED
      BY <3>1, <3>2, Zenon
  <2>4. QED
    BY <2>3, Zenon
<1>8. SharedFresh'
  <2>1. CASE expires = NoTtl
    <3>1. CASE body = NoAnswer
      BY <1>1, <1>2, <2>1, <3>1, Zenon DEF SharedFresh, Rescued, BodyWithin
    <3>2. CASE body # NoAnswer
      <4>1. PICK x \in Workers : Rescued(x)
        BY <2>1, <3>2, Zenon DEF FreshInv, SharedFresh, Cached
      <4>2. x # w
        BY <1>1, <4>1, Zenon DEF Rescued
      <4>3. Rescued(x)'
        BY <1>1, <1>2, <4>1, <4>2, Zenon DEF Rescued, BodyWithin
      <4>4. QED
        BY <1>1, <2>1, <4>3, Zenon DEF SharedFresh
    <3>3. QED
      BY <3>1, <3>2, Zenon
  <2>2. CASE expires # NoTtl
    <3>1. expires >= 1 /\ Cached /\ BodyWithin(3 * MaxDelay + JitteredTtl - expires)
      BY <2>2, Zenon DEF FreshInv, SharedFresh
    <3>2. expires \in Int /\ expires <= JitteredTtl
      BY Numbers, Zenon
    <3>3. status' = Absent => age'[Absent] <= 3 * MaxDelay + JitteredTtl - expires
      BY <1>6, <3>1, <3>2, Lifetimes
    <3>4. QED
      BY <1>1, <1>5, <2>2, <3>1, <3>3, Zenon DEF SharedFresh, Cached, StatusWithin, BodyWithin
  <2>3. QED
    BY <2>1, <2>2, Zenon
<1>9. QED
  BY <1>1, <1>4, <1>7, <1>8, FreshWrites, Zenon

\* HSET body, or HDEL body and with it perhaps the hash.
LEMMA FreshWriteBody ==
  ASSUME TypeOK, FreshInv, NEW w \in Workers, WriteBody(w)
  PROVE  FreshInv'
<1>1. /\ pc[w] = "body" /\ Moves(w, "expire", got[w])
      /\ body' = IF got[w] = Absent THEN NoAnswer ELSE got[w]
      /\ expires' = IF status = NoAnswer /\ body' = NoAnswer THEN NoTtl ELSE expires
      /\ status' = status /\ age' = age /\ local' = local /\ lives' = lives
  BY Zenon DEF WriteBody
<1>2. /\ pc'[w] = "expire" /\ got'[w] = got[w] /\ waited'[w] = 0
      /\ \A x \in Workers \ {w} : pc'[x] = pc[x] /\ got'[x] = got[x] /\ waited'[x] = waited[x]
  BY <1>1, MovesEffect, Zenon
<1>3. got[w] \in Answers /\ age[got[w]] <= 2 * MaxDelay /\ age[got[w]] \in Nat
  <2>1. got[w] \in Answers /\ age[got[w]] <= MaxDelay + waited[w]
    BY <1>1, FreshOf, Zenon DEF CarriedFresh
  <2>2. waited[w] \in Nat /\ waited[w] <= MaxDelay /\ age[got[w]] \in Nat
    BY <2>1, FreshOf, Zenon
  <2>3. QED
    BY <2>1, <2>2, Lifetimes
<1>4. CarriedFresh(w)'
  <2>1. age'[got[w]] <= 2 * MaxDelay + 0
    BY <1>1, <1>3, Lifetimes
  <2>2. EffectiveObeyRobots
    BY <1>1, FreshOf, Zenon DEF CarriedFresh
  <2>3. QED
    BY <1>2, <1>3, <2>1, <2>2, Zenon DEF CarriedFresh, EffectiveObeyRobots
<1>5. status' = Absent => age'[Absent] <= 2 * MaxDelay
  <2>1. status = Absent => age[Absent] <= MaxDelay + waited[w]
    BY <1>1, FreshOf, Zenon DEF WrittenFresh, StatusWithin
  <2>2. waited[w] \in Nat /\ waited[w] <= MaxDelay /\ age[Absent] \in Nat
    BY FreshOf, Zenon
  <2>3. status = Absent => age[Absent] <= 2 * MaxDelay
    BY <2>1, <2>2, Lifetimes
  <2>4. QED
    BY <1>1, <2>3, Zenon
<1>6. body' # NoAnswer => age'[body'] <= 2 * MaxDelay /\ age'[body'] \in Nat
  BY <1>1, <1>3, Zenon
<1>7. \A x \in Workers : waited'[x] \in Nat
  BY <1>2, Numbers
<1>8. \A x \in Workers : WrittenFresh(x)'
  <2>1. WrittenFresh(w)'
    BY <1>2, <1>5, <1>6, Lifetimes DEF WrittenFresh, StatusWithin, BodyWithin
  <2>2. ASSUME NEW x \in Workers \ {w} PROVE WrittenFresh(x)'
    <3>1. WrittenFresh(x) /\ pc'[x] = pc[x] /\ waited'[x] = waited[x] /\ waited'[x] \in Nat
      BY <1>2, <1>7, FreshOf, Zenon
    <3>2. body' # NoAnswer => age'[body'] <= 2 * MaxDelay + waited'[x]
      BY <1>6, <3>1, Lifetimes
    <3>3. QED
      BY <1>1, <3>1, <3>2, Zenon DEF WrittenFresh, StatusWithin, BodyWithin
  <2>3. QED
    BY <2>1, <2>2, Zenon
<1>9. SharedFresh'
  <2>1. Rescued(w)'
    BY <1>2, <1>6, Lifetimes DEF Rescued, BodyWithin
  <2>2. ASSUME expires' # NoTtl
        PROVE  /\ expires' >= 1 /\ Cached'
               /\ StatusWithin(3 * MaxDelay + JitteredTtl - expires)'
               /\ BodyWithin(3 * MaxDelay + JitteredTtl - expires)'
    <3>1. expires' = expires /\ Cached'
      BY <1>1, <2>2, Zenon DEF Cached
    <3>2. QED
      <4>1. expires >= 1 /\ StatusWithin(3 * MaxDelay + JitteredTtl - expires)
        BY <2>2, <3>1, Zenon DEF FreshInv, SharedFresh
      <4>2. expires \in Int /\ expires <= JitteredTtl
        BY Numbers, Zenon
      <4>3. body' # NoAnswer => age'[body'] <= 3 * MaxDelay + JitteredTtl - expires
        BY <1>6, <4>1, <4>2, Lifetimes
      <4>4. QED
        BY <1>1, <3>1, <4>1, <4>3, Zenon DEF StatusWithin, BodyWithin
  <2>3. QED
    BY <2>1, <2>2, Zenon DEF SharedFresh
<1>10. QED
  BY <1>1, <1>4, <1>8, <1>9, FreshWrites, Zenon

\* EXPIRE: whatever the hash holds by now is three steps old at most.
LEMMA FreshWriteExpire ==
  ASSUME TypeOK, FreshInv, NEW w \in Workers, WriteExpire(w)
  PROVE  FreshInv'
<1>1. /\ pc[w] = "expire" /\ Moves(w, "insert", got[w])
      /\ expires' = IF Cached THEN JitteredTtl ELSE NoTtl
      /\ status' = status /\ body' = body /\ age' = age /\ local' = local /\ lives' = lives
  BY Zenon DEF WriteExpire
<1>2. /\ pc'[w] = "insert" /\ got'[w] = got[w] /\ waited'[w] = 0
      /\ \A x \in Workers \ {w} : pc'[x] = pc[x] /\ got'[x] = got[x] /\ waited'[x] = waited[x]
  BY <1>1, MovesEffect, Zenon
<1>3. got[w] \in Answers /\ age[got[w]] <= 3 * MaxDelay /\ age[got[w]] \in Nat
  <2>1. got[w] \in Answers /\ age[got[w]] <= 2 * MaxDelay + waited[w]
    BY <1>1, FreshOf, Zenon DEF CarriedFresh
  <2>2. waited[w] \in Nat /\ waited[w] <= MaxDelay /\ age[got[w]] \in Nat
    BY <2>1, FreshOf, Zenon
  <2>3. QED
    BY <2>1, <2>2, Lifetimes
<1>4. CarriedFresh(w)'
  <2>1. age'[got[w]] <= 3 * MaxDelay + JitteredTtl - 1 + 0
    BY <1>1, <1>3, Lifetimes
  <2>2. EffectiveObeyRobots
    BY <1>1, FreshOf, Zenon DEF CarriedFresh
  <2>3. QED
    BY <1>2, <1>3, <2>1, <2>2, Zenon DEF CarriedFresh, EffectiveObeyRobots
<1>5. \A x \in Workers : WrittenFresh(x)'
  BY <1>1, <1>2, Zenon DEF FreshInv, WrittenFresh, StatusWithin, BodyWithin
<1>6. /\ status = Absent => age[Absent] <= 3 * MaxDelay
      /\ body # NoAnswer => age[body] <= 3 * MaxDelay
  <2>1. /\ status = Absent => age[Absent] <= 2 * MaxDelay + waited[w]
        /\ body # NoAnswer => age[body] <= 2 * MaxDelay + waited[w]
    BY <1>1, FreshOf, Zenon DEF WrittenFresh, StatusWithin, BodyWithin
  <2>2. /\ waited[w] \in Nat /\ waited[w] <= MaxDelay
        /\ age[Absent] \in Nat /\ (body # NoAnswer => age[body] \in Nat)
    BY FreshOf, Zenon
  <2>3. QED
    BY <2>1, <2>2, Lifetimes
<1>7. SharedFresh'
  <2>1. Cached' = Cached
    BY <1>1, Zenon DEF Cached
  <2>2. ASSUME expires' # NoTtl
        PROVE  /\ expires' >= 1 /\ Cached'
               /\ StatusWithin(3 * MaxDelay + JitteredTtl - expires)'
               /\ BodyWithin(3 * MaxDelay + JitteredTtl - expires)'
    <3>1. Cached /\ expires' = JitteredTtl
      BY <1>1, <2>2, Zenon
    <3>2. QED
      BY <1>1, <1>6, <2>1, <3>1, Lifetimes DEF StatusWithin, BodyWithin
  <2>3. ~(Cached' /\ expires' = NoTtl)
    BY <1>1, <2>1, Lifetimes DEF NoTtl
  <2>4. QED
    BY <2>2, <2>3, Zenon DEF SharedFresh
<1>8. QED
  BY <1>1, <1>4, <1>5, <1>7, FreshWrites, Zenon

\* The pod's own cache takes the answer for one lifetime.
LEMMA FreshInsert ==
  ASSUME TypeOK, FreshInv, NEW w \in Workers, Insert(w)
  PROVE  FreshInv'
<1> USE DEF shared
<1> DEFINE a == got[w]
<1>1. /\ pc[w] = "insert" /\ Moves(w, Verdict(a), a)
      /\ local' = [local EXCEPT ![PodOf[w]] = a] /\ lives' = [lives EXCEPT ![PodOf[w]] = BaseTtl]
      /\ UNCHANGED <<status, body, expires, age>>
  BY Zenon DEF Insert
<1>2. /\ pc'[w] = Verdict(a) /\ got'[w] = a /\ waited'[w] = 0
      /\ \A x \in Workers \ {w} : pc'[x] = pc[x] /\ got'[x] = got[x] /\ waited'[x] = waited[x]
  BY <1>1, MovesEffect, Zenon
<1>3. a \in Answers /\ age[a] \in Nat /\ age[a] <= 4 * MaxDelay + JitteredTtl - 1
  <2>1. a \in Answers /\ age[a] <= 3 * MaxDelay + JitteredTtl - 1 + waited[w]
    BY <1>1, FreshOf, Zenon DEF CarriedFresh
  <2>2. waited[w] \in Nat /\ waited[w] <= MaxDelay /\ age[a] \in Nat
    BY <2>1, FreshOf, Zenon
  <2>3. QED
    BY <2>1, <2>2, Lifetimes
<1>4. Verdict(a) \in {"allow", "disallow"} /\ (Verdict(a) = "allow" => a \notin Forbids)
  BY Zenon DEF Verdict
<1>5. ASSUME NEW x \in Workers PROVE CarriedFresh(x)' /\ WrittenFresh(x)'
  <2>1. CASE x # w
    BY <1>1, <1>2, <2>1, Zenon
       DEF FreshInv, CarriedFresh, WrittenFresh, StatusWithin, BodyWithin, EffectiveObeyRobots
  <2>2. CASE x = w
    <3>1. age'[a] <= 4 * MaxDelay + JitteredTtl + BaseTtl - 2 + 0
      BY <1>1, <1>3, Lifetimes
    <3>2. EffectiveObeyRobots
      BY <1>1, Zenon DEF FreshInv, CarriedFresh
    <3>3. QED
      BY <1>2, <1>3, <1>4, <2>2, <3>1, <3>2, Zenon DEF CarriedFresh, WrittenFresh, EffectiveObeyRobots
  <2>3. QED
    BY <2>1, <2>2, Zenon
<1>6. SharedFresh'
  <2>1. ASSUME Cached, expires = NoTtl PROVE \E x \in Workers : Rescued(x)'
    <3>1. PICK x \in Workers : Rescued(x)
      BY <2>1, Zenon DEF FreshInv, SharedFresh
    <3>2. x # w
      BY <1>1, <3>1, Zenon DEF Rescued
    <3>3. Rescued(x)'
      BY <1>1, <1>2, <3>1, <3>2, Zenon DEF Rescued, BodyWithin
    <3>4. QED
      BY <3>3, Zenon
  <2>2. QED
    BY <1>1, <2>1, Zenon DEF FreshInv, SharedFresh, Cached, StatusWithin, BodyWithin, Rescued
<1>7. LocalFresh'
  <2>1. PodOf[w] \in Pods
    BY RobotsAssumption, Zenon
  <2>2. ASSUME NEW p \in Pods, local'[p] # NoAnswer
        PROVE  /\ lives'[p] >= 1
               /\ age'[local'[p]] <= 4 * MaxDelay + JitteredTtl - 1 + BaseTtl - lives'[p]
    <3>1. CASE p = PodOf[w]
      BY <1>1, <1>3, <2>1, <3>1, Lifetimes DEF TypeOK
    <3>2. CASE p # PodOf[w]
      BY <1>1, <2>2, <3>2, Zenon DEF TypeOK, FreshInv, LocalFresh
    <3>3. QED
      BY <3>1, <3>2, Zenon
  <2>3. QED
    BY <2>2, Zenon DEF LocalFresh
<1>8. QED
  BY <1>5, <1>6, <1>7, Zenon DEF FreshInv

\* Time: whatever ages by a tick has waited or lain there for that tick.
LEMMA FreshElapse ==
  ASSUME TypeOK, FreshInv, Elapse
  PROVE  FreshInv'
<1> USE DEF shared
<1>1. /\ pc' = pc /\ got' = got
      /\ \A x \in Workers : pc[x] # "idle" => waited'[x] = waited[x] + 1
      /\ \A b \in Answers : age'[b] <= age[b] + 1 /\ age'[b] \in Nat /\ age[b] \in Nat
      /\ \A x \in Workers : waited[x] \in Nat
  BY Lifetimes DEF Elapse, TypeOK
<1>2. \/ status' = status /\ body' = body
      \/ status' = NoAnswer /\ body' = NoAnswer /\ expires' = NoTtl
  BY Zenon DEF Elapse
<1>3. ASSUME NEW n \in Int
      PROVE  /\ StatusWithin(n) => (status' = Absent => age'[Absent] <= n + 1)
             /\ BodyWithin(n) => (body' # NoAnswer => age'[body'] <= n + 1)
  BY <1>1, <1>2, Numbers DEF StatusWithin, BodyWithin
<1>4. ASSUME NEW x \in Workers PROVE CarriedFresh(x)'
  <2>1. CarriedFresh(x)
    BY Zenon DEF FreshInv
  <2>2. QED
    BY <1>1, <2>1, Lifetimes DEF CarriedFresh, EffectiveObeyRobots
<1>5. ASSUME NEW x \in Workers PROVE WrittenFresh(x)'
  <2>1. WrittenFresh(x) /\ MaxDelay + waited[x] \in Int /\ 2 * MaxDelay + waited[x] \in Int
    BY <1>1, Lifetimes DEF FreshInv
  <2>2. CASE pc[x] = "body"
    BY <1>1, <1>3, <2>1, <2>2, Lifetimes, SMTT(60) DEF WrittenFresh, StatusWithin
  <2>3. CASE pc[x] = "expire"
    BY <1>1, <1>3, <2>1, <2>3, Lifetimes, SMTT(60) DEF WrittenFresh, StatusWithin, BodyWithin
  <2>4. QED
    BY <1>1, <2>2, <2>3, Zenon DEF WrittenFresh
<1>6. SharedFresh'
  <2>1. CASE expires = NoTtl
    <3>1. UNCHANGED <<status, body, expires>>
      BY <2>1 DEF Elapse, NoTtl
    <3>2. ASSUME Cached PROVE \E x \in Workers : Rescued(x)'
      <4>1. PICK x \in Workers : Rescued(x)
        BY <2>1, <3>2, Zenon DEF FreshInv, SharedFresh
      <4>2. 2 * MaxDelay + waited[x] \in Int /\ waited'[x] = waited[x] + 1
        BY <1>1, <4>1, Lifetimes DEF Rescued
      <4>3. Rescued(x)'
        BY <1>1, <1>3, <4>1, <4>2, Lifetimes DEF Rescued, BodyWithin
      <4>4. QED
        BY <4>3, Zenon
    <3>3. QED
      BY <2>1, <3>1, <3>2, Zenon DEF SharedFresh, Cached
  <2>2. CASE expires # NoTtl
    <3>1. /\ expires \in Nat /\ expires >= 1 /\ Cached
          /\ StatusWithin(3 * MaxDelay + JitteredTtl - expires)
          /\ BodyWithin(3 * MaxDelay + JitteredTtl - expires)
      BY <2>2, Numbers DEF FreshInv, SharedFresh
    <3>2. CASE expires = 1
      <4>1. status' = NoAnswer /\ body' = NoAnswer /\ expires' = NoTtl
        BY <3>2 DEF Elapse
      <4>2. QED
        BY <4>1, Zenon DEF SharedFresh, Cached
    <3>3. CASE expires > 1
      <4>1. status' = status /\ body' = body /\ expires' = expires - 1
        BY <3>3, Zenon DEF Elapse
      <4>2. expires' # NoTtl /\ expires' >= 1 /\ Cached'
        BY <3>1, <3>3, <4>1 DEF NoTtl, Cached
      <4>3. 3 * MaxDelay + JitteredTtl - expires \in Int
        BY <3>1, Lifetimes
      <4>4. (3 * MaxDelay + JitteredTtl - expires) + 1 = 3 * MaxDelay + JitteredTtl - expires'
        BY <3>1, <4>1, Lifetimes
      <4>5. /\ status' = Absent => age'[Absent] <= 3 * MaxDelay + JitteredTtl - expires'
            /\ body' # NoAnswer => age'[body'] <= 3 * MaxDelay + JitteredTtl - expires'
        BY <1>3, <3>1, <4>3, <4>4, Zenon
      <4>6. QED
        BY <4>2, <4>5, Zenon DEF SharedFresh, StatusWithin, BodyWithin
    <3>4. QED
      BY <3>1, <3>2, <3>3
  <2>3. QED
    BY <2>1, <2>2, Zenon
<1>7. LocalFresh'
  <2> SUFFICES ASSUME NEW p \in Pods, local'[p] # NoAnswer
               PROVE  /\ lives'[p] >= 1
                      /\ age'[local'[p]] <= 4 * MaxDelay + JitteredTtl - 1 + BaseTtl - lives'[p]
    BY Zenon DEF LocalFresh
  <2>1. /\ lives'[p] = (IF lives[p] = 0 THEN 0 ELSE lives[p] - 1)
        /\ local'[p] = (IF lives'[p] = 0 THEN NoAnswer ELSE local[p])
        /\ lives[p] \in Nat
    BY Numbers, Zenon DEF Elapse
  <2>2. lives'[p] = lives[p] - 1 /\ lives'[p] >= 1 /\ local'[p] = local[p]
    BY <2>1
  <2>3. local[p] \in Answers /\ age[local[p]] <= 4 * MaxDelay + JitteredTtl - 1 + BaseTtl - lives[p]
    BY <2>2, Zenon DEF TypeOK, FreshInv, LocalFresh
  <2>4. QED
    BY <1>1, <2>1, <2>2, <2>3, Lifetimes
<1>8. QED
  BY <1>4, <1>5, <1>6, <1>7, Zenon DEF FreshInv

\* The invariant holds as long as no pipeline has broken off half-way.
LEMMA FreshNext == TypeOK /\ (~torn => FreshInv) /\ [Next]_vars => (~torn' => FreshInv')
<1> SUFFICES ASSUME TypeOK, ~torn => FreshInv, [Next]_vars, ~torn' PROVE FreshInv'
  BY Zenon
<1> USE DEF shared
<1>0. FreshInv
  <2>1. torn => torn'
    BY Zenon DEF Next, Lookup, ReadCache, FetchRobots, WriteStatus, WriteBody, WriteExpire, Insert,
           Decide, CallFails, Evict, Change, Elapse, vars
  <2>2. QED
    BY <2>1, Zenon
<1>1. ASSUME NEW w \in Workers,
             \/ Lookup(w) \/ ReadCache(w) \/ FetchRobots(w) \/ WriteStatus(w) \/ WriteBody(w)
             \/ WriteExpire(w) \/ Insert(w) \/ Decide(w) \/ CallFails(w)
      PROVE  FreshInv'
  BY <1>0, <1>1, FreshLookup, FreshReadCache, FreshFetch, FreshWriteStatus, FreshWriteBody,
     FreshWriteExpire, FreshInsert, FreshEnds, Zenon
<1>2. CASE UNCHANGED <<status, body, expires, pc, got, waited, age>> /\ LocalFresh'
  BY <1>0, <1>2, Zenon DEF FreshInv, CarriedFresh, WrittenFresh, SharedFresh, Rescued, Cached,
                    StatusWithin, BodyWithin, EffectiveObeyRobots
<1>3. ASSUME NEW p \in Pods, Evict(p) PROVE FreshInv'
  <2>1. LocalFresh'
    BY <1>0, <1>3, Zenon DEF Evict, TypeOK, FreshInv, LocalFresh
  <2>2. QED
    BY <1>2, <1>3, <2>1, Zenon DEF Evict
<1>4. CASE Change \/ UNCHANGED vars
  <2>1. LocalFresh'
    BY <1>0, <1>4, Zenon DEF Change, vars, FreshInv, LocalFresh
  <2>2. QED
    BY <1>2, <1>4, <2>1, Zenon DEF Change, vars
<1>5. QED
  BY <1>0, <1>1, <1>3, <1>4, FreshElapse, Zenon DEF Next

\* Unless a pipeline broke off before its EXPIRE, a verdict rests on an answer
\* some pod got from the host within the two lifetimes and the delays of the
\* calls, whatever pods write concurrently, and no answer that forbids the
\* URL allows it.
THEOREM FreshCorrect == Spec => []AnswersFresh
<1>1. Init => FreshInv
  BY Zenon DEF Init, FreshInv, CarriedFresh, WrittenFresh, SharedFresh, LocalFresh, Cached
<1>2. TypeOK /\ (~torn => FreshInv) => AnswersFresh
  <2> SUFFICES ASSUME TypeOK, FreshInv, NEW w \in Workers,
                      pc[w] \in {"allow", "disallow"}
               PROVE  /\ EffectiveObeyRobots \/ pc[w] = "disallow" => age[got[w]] <= MaxAge
                      /\ pc[w] = "allow" => got[w] \notin Forbids
    BY Zenon DEF AnswersFresh
  <2>1. CarriedFresh(w) /\ waited[w] \in Nat /\ waited[w] <= MaxDelay
    BY Numbers, Zenon DEF FreshInv
  <2>2. got[w] \in Answers => age[got[w]] \in Nat
    BY Numbers, Zenon
  <2>3. QED
    BY <2>1, <2>2, Lifetimes DEF CarriedFresh, MaxAge
<1>3. QED
  BY <1>1, <1>2, FreshNext, TypeCorrect, PTL DEF Spec
=============================================================================
