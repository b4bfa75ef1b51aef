---------------------------- MODULE ShardsProofs ----------------------------
(***************************************************************************)
(* Safety of the sharded frontier, for any number of shards, pods, workers *)
(* and URLs, any link graph and any number of faults.                      *)
(***************************************************************************)
EXTENDS Shards, FiniteSetTheorems, SequenceTheorems, TLAPS

-----------------------------------------------------------------------------
(* Ownership                                                               *)

\* Division with remainder, for the strides of derive_owned_shards.
LEMMA DivMod ==
  ASSUME NEW a \in Nat, NEW n \in Nat \ {0}
  PROVE  /\ a \div n \in Nat /\ a % n \in 0 .. n - 1
         /\ a = n * (a \div n) + (a % n)
  OBVIOUS

\* The remainder is the only number below n at a multiple of n from a.
LEMMA RemainderUnique ==
  ASSUME NEW n \in Nat \ {0}, NEW q \in 0 .. n - 1, NEW r \in 0 .. n - 1,
         NEW i \in Nat, NEW j \in Nat, q + i * n = r + j * n
  PROVE  q = r
<1>1. CASE i = j
  BY <1>1
<1>2. CASE i < j
  <2>1. (j - i) * n >= n
    BY <1>2
  <2>2. j * n = i * n + (j - i) * n
    OBVIOUS
  <2> QED
    BY <2>1, <2>2
<1>3. CASE j < i
  <2>1. (i - j) * n >= n
    BY <1>3
  <2>2. i * n = j * n + (i - j) * n
    OBVIOUS
  <2> QED
    BY <2>1, <2>2
<1> QED
  BY <1>1, <1>2, <1>3

\* A multiple of n that is below another comes from a smaller factor.
LEMMA FactorBelow ==
  ASSUME NEW n \in Nat \ {0}, NEW x \in Nat, NEW y \in Nat, n * x < n * y
  PROVE  x < y
<1>1. ASSUME x >= y
      PROVE  FALSE
  <2>1. n * (x - y) >= 0
    BY <1>1
  <2>2. n * x = n * y + n * (x - y)
    OBVIOUS
  <2> QED
    BY <2>1, <2>2
<1> QED
  BY <1>1

\* The list derive_owned_shards makes for an ordinal below num_shards.
LEMMA StrideDomain ==
  ASSUME NEW p \in Nat, NEW r \in Nat \ {0}, p < NumShards
  PROVE  /\ 1 + ((NumShards - 1 - p) \div r) \in Nat \ {0}
         /\ DOMAIN Stride(p, r) = 1 .. 1 + ((NumShards - 1 - p) \div r)
         /\ Stride(p, r) \in Seq(Int)
         /\ \A i \in DOMAIN Stride(p, r) : Stride(p, r)[i] = p + (i - 1) * r
<1> DEFINE n == 1 + ((NumShards - 1 - p) \div r)
<1>1. n \in Nat \ {0}
  <2>1. NumShards - 1 - p \in Nat
    BY DeploymentAssumption
  <2>2. (NumShards - 1 - p) \div r \in Nat
    BY <2>1, DivMod, Zenon
  <2> QED
    BY <2>2
<1>2. Stride(p, r) = [i \in 1 .. n |-> p + (i - 1) * r]
  BY DeploymentAssumption DEF Stride
<1> HIDE DEF n
<1>3. Stride(p, r) \in [1 .. n -> Int]
  BY <1>1, <1>2
<1>4. Stride(p, r) \in Seq(Int)
  BY <1>1, <1>3
<1> QED
  BY <1>1, <1>2, <1>4, Zenon DEF n

\* An ordinal below the replica count gets the shards with its remainder.
LEMMA StrideOwns ==
  ASSUME NEW r \in Nat \ {0}, NEW p \in 0 .. r - 1, p < NumShards, NEW s \in Shards
  PROVE  (\E i \in DOMAIN Stride(p, r) : Stride(p, r)[i] = s) <=> s % r = p
<1> DEFINE last == NumShards - 1 - p
           n == 1 + (last \div r)
<1>1. last \in Nat /\ s \in Nat /\ s < NumShards /\ p \in Nat
  BY DeploymentAssumption DEF Shards
<1>2. /\ n \in Nat /\ DOMAIN Stride(p, r) = 1 .. n
      /\ \A i \in 1 .. n : Stride(p, r)[i] = p + (i - 1) * r
  BY <1>1, StrideDomain, Zenon
<1>3. /\ s \div r \in Nat /\ s % r \in 0 .. r - 1
      /\ s = r * (s \div r) + (s % r)
  BY <1>1, DivMod, Zenon
<1>4. /\ last \div r \in Nat /\ last % r \in 0 .. r - 1
      /\ last = r * (last \div r) + (last % r)
  BY <1>1, DivMod, Zenon
<1>5. ASSUME NEW i \in 1 .. n, Stride(p, r)[i] = s
      PROVE  s % r = p
  <2>1. p + (i - 1) * r = (s % r) + (s \div r) * r /\ i - 1 \in Nat
    BY <1>2, <1>3, <1>5
  <2> QED
    BY <1>3, <2>1, RemainderUnique, Zenon
<1>6. ASSUME s % r = p
      PROVE  \E i \in 1 .. n : Stride(p, r)[i] = s
  <2>1. r * (s \div r) = s - p /\ s - p <= last
    BY <1>1, <1>3, <1>6, DeploymentAssumption
  <2>2. last < r * ((last \div r) + 1)
    <3>1. r * ((last \div r) + 1) = r * (last \div r) + r
      BY <1>4
    <3> QED
      BY <1>1, <1>4, <3>1
  <2>3. s \div r < (last \div r) + 1
    <3>1. r * (s \div r) < r * ((last \div r) + 1)
      BY <1>1, <1>3, <1>4, <2>1, <2>2
    <3> QED
      BY <1>3, <1>4, <3>1, FactorBelow
  <2>4. (s \div r) + 1 \in 1 .. n
    BY <1>3, <1>4, <2>3
  <2>5. Stride(p, r)[(s \div r) + 1] = p + (s \div r) * r
    BY <1>2, <1>3, <2>4
  <2> QED
    BY <1>1, <1>3, <2>1, <2>4, <2>5
<1> QED
  BY <1>2, <1>5, <1>6, Zenon

\* The list is empty just when the ordinal is no shard.
LEMMA StrideSeq ==
  ASSUME NEW p \in Nat, NEW r \in Nat \ {0}
  PROVE  Stride(p, r) \in Seq(Int) /\ (Stride(p, r) # <<>> <=> p < NumShards)
<1>1. CASE p < NumShards
  <2>1. Stride(p, r) \in Seq(Int) /\ 1 \in DOMAIN Stride(p, r)
    BY <1>1, StrideDomain
  <2> QED
    BY <1>1, <2>1
<1>2. CASE p >= NumShards
  <2>1. Stride(p, r) = [i \in 1 .. 0 |-> p + (i - 1) * r]
    BY <1>2, Zenon DEF Stride
  <2>2. 1 .. 0 = {}
    OBVIOUS
  <2>3. Stride(p, r) = <<>>
    BY <2>1, <2>2
  <2>4. ~(p < NumShards)
    BY <1>2, DeploymentAssumption
  <2> QED
    BY <2>3, <2>4
<1> QED
  BY <1>1, <1>2, DeploymentAssumption

\* With what a settled deployment finds, the ordinals that run are the
\* remainders of one number.
LEMMA SettledStride ==
  ASSUME target \in 1 .. MaxPods, env \in Environments, Countable, Explicit = <<>>
  PROVE  \E r \in 1 .. target : \A q \in Nat :
           q < target => /\ DeriveOwnedShards(q, target) = Stride(q, r)
                         /\ q < NumShards => q < r
<1>0. target \in Nat \ {0} /\ NumShards \in Nat \ {0}
  BY DeploymentAssumption
<1>1. CASE env = "both"
  <2>1. \A q : DeriveOwnedShards(q, target) = Stride(q, target)
    BY <1>1, Zenon DEF DeriveOwnedShards
  <2> QED
    BY <1>0, <2>1
<1>2. CASE env = "ordinal"
  <2>1. \A q : DeriveOwnedShards(q, target) = Stride(q, NumShards)
    BY <1>2 DEF DeriveOwnedShards
  <2>2. NumShards \in 1 .. target
    BY <1>0, <1>2 DEF Countable
  <2> QED
    BY <2>1, <2>2
<1>3. CASE env = "neither"
  <2>1. DeriveOwnedShards(0, target) = Stride(0, 1)
    BY <1>3, Zenon DEF DeriveOwnedShards
  <2>2. target = 1
    BY <1>3 DEF Countable
  <2>3. \A q \in Nat : q < target => q = 0
    BY <2>2
  <2>4. 1 \in 1 .. target /\ 0 < 1
    BY <2>2
  <2> QED
    BY <2>1, <2>3, <2>4, Zenon
<1> QED
  BY <1>1, <1>2, <1>3, Zenon DEF Countable

\* Settled pods own every shard once.
LEMMA SettledPartition ==
  ASSUME target \in 1 .. MaxPods, env \in Environments, Settled, Countable, Explicit = <<>>,
         NEW s \in Shards
  PROVE  \E p \in Pods : \A q \in Pods : Owns(q, s) <=> q = p
<1>0. PICK r \in 1 .. target : \A q \in Nat :
        q < target => /\ DeriveOwnedShards(q, target) = Stride(q, r)
                      /\ q < NumShards => q < r
  BY SettledStride, Zenon
<1> DEFINE p == s % r
<1>1. /\ target \in Nat \ {0} /\ target <= MaxPods /\ s \in Nat /\ s < NumShards
      /\ r \in Nat \ {0} /\ r <= target
  BY <1>0, DeploymentAssumption DEF Shards
<1>2. p \in 0 .. r - 1 /\ p <= s
  <2>1. s \div r \in Nat /\ p \in 0 .. r - 1 /\ s = r * (s \div r) + p
    BY <1>1, DivMod, Zenon
  <2>2. r * (s \div r) >= 0
    BY <1>1, <2>1
  <2> QED
    BY <1>1, <2>1, <2>2
<1>3. p \in Pods
  BY <1>1, <1>2, DeploymentAssumption DEF Pods
<1>4. ASSUME NEW q \in Pods
      PROVE  Owns(q, s) <=> q = p
  <2>1. q \in Nat
    BY DEF Pods
  <2>2. CASE q < target /\ q < NumShards
    <3>0. DeriveOwnedShards(q, target) = Stride(q, r) /\ q < r
      BY <1>0, <2>1, <2>2, Zenon
    <3>1. conf[q] = target /\ target # 0
      BY <1>1, <2>1, <2>2, <3>0, StrideSeq, Zenon DEF Settled
    <3>2. Owned(q) = Stride(q, r)
      BY <3>0, <3>1, Zenon DEF Owned
    <3>3. q \in 0 .. r - 1
      BY <1>1, <2>1, <3>0
    <3> QED
      BY <1>1, <2>2, <3>2, <3>3, StrideOwns DEF Owns
  <2>3. CASE ~(q < target /\ q < NumShards)
    <3>1. conf[q] = 0
      <4>1. CASE q < target
        <5>1. DeriveOwnedShards(q, target) = Stride(q, r) /\ Stride(q, r) = <<>>
          BY <1>0, <1>1, <2>1, <2>3, <4>1, StrideSeq, Zenon
        <5> QED
          BY <5>1, Zenon DEF Settled
      <4> QED
        BY <4>1, Zenon DEF Settled
    <3>2. ~Owns(q, s)
      <4>1. Owned(q) = <<>>
        BY <3>1, Zenon DEF Owned
      <4> QED
        BY <4>1 DEF Owns
    <3>3. q # p
      BY <1>1, <1>2, <2>1, <2>3, DeploymentAssumption
    <3> QED
      BY <3>2, <3>3, Zenon
  <2> QED
    BY <2>2, <2>3, Zenon
<1> QED
  BY <1>3, <1>4, Zenon

-----------------------------------------------------------------------------
(* Types                                                                   *)

\* A running pod owns a shard: build_frontier refuses an empty list.
OwnInv == \A p \in Pods : conf[p] # 0 => DeriveOwnedShards(p, conf[p]) # <<>>

\* A worker past its claim has a URL.
HoldInv == \A t \in Tasks : task[t].pc \in {"page", "ship", "ack"} => task[t].url \in Urls

TypeInv == TypeOK /\ OwnInv /\ HoldInv

\* The modulus of claim's round is not zero.
LEMMA OwnedLen ==
  ASSUME TypeOK, OwnInv, NEW p \in Pods, conf[p] # 0
  PROVE  Len(Owned(p)) \in Nat \ {0}
<1>1. Owned(p) = DeriveOwnedShards(p, conf[p]) /\ Owned(p) # <<>>
  BY Zenon DEF Owned, OwnInv
<1>2. CASE Explicit # <<>>
  BY <1>1, <1>2, EmptySeq, DeploymentAssumption, Zenon DEF DeriveOwnedShards
<1>3. CASE Explicit = <<>>
  <2>1. p \in Nat /\ conf[p] \in Nat \ {0} /\ NumShards \in Nat \ {0}
    <3>1. conf[p] \in 0 .. MaxPods
      BY Zenon DEF TypeOK
    <3> QED
      BY <3>1, DeploymentAssumption DEF Pods
  <2>2. \E o \in Nat, r \in Nat \ {0} : Owned(p) = Stride(o, r)
    <3>1. Owned(p) = IF env = "neither" THEN Stride(0, 1)
                     ELSE Stride(p, IF env = "both" THEN conf[p] ELSE NumShards)
      BY <1>1, <1>3, Zenon DEF DeriveOwnedShards
    <3>2. 0 \in Nat /\ 1 \in Nat \ {0}
      OBVIOUS
    <3> QED
      BY <2>1, <3>1, <3>2, Zenon
  <2>3. Owned(p) \in Seq(Int)
    BY <2>2, StrideSeq, Zenon
  <2> QED
    BY <1>1, <2>3, EmptySeq, Zenon
<1> QED
  BY <1>2, <1>3, Zenon

LEMMA TypeInit == Init => TypeInv
  BY DeploymentAssumption, UrlAssumption
     DEF Init, TypeInv, TypeOK, OwnInv, HoldInv, IdleTask, IdlePub, Pods

\* A host that is full stays full.
LEMMA FullGrows ==
  ASSUME NEW S \in SUBSET Urls, NEW T \in SUBSET Urls, S \subseteq T,
         NEW h \in Hosts, Full(S, h)
  PROVE  Full(T, h)
<1> DEFINE A == {u \in S : HostOf[u] = h}
           B == {u \in T : HostOf[u] = h}
<1>1. IsFiniteSet(B) /\ A \subseteq B
  BY FS_Subset, UrlAssumption, Zenon
<1>2. /\ IsFiniteSet(A) /\ Cardinality(A) \in Nat /\ Cardinality(B) \in Nat
      /\ Cardinality(A) <= Cardinality(B)
  BY <1>1, FS_Subset, FS_CardinalityType, Zenon
<1>3. MaxUrls[h] >= 0 /\ Cardinality(A) >= MaxUrls[h] /\ MaxUrls[h] \in Int
  <2>1. MaxUrls[h] \in {-1} \cup Nat
    BY UrlAssumption, Zenon
  <2>2. MaxUrls[h] \in Int
    BY <2>1
  <2> QED
    BY <2>2, Zenon DEF Full
<1> HIDE DEF A, B
<1>4. MaxUrls[h] >= 0 /\ Cardinality(B) >= MaxUrls[h]
  BY <1>2, <1>3
<1> QED
  BY <1>4, Zenon DEF Full, B

\* submit_batch.lua on the URLs of one shard: each is taken or refused, and
\* what was handled stays so.
LEMMA SubmitHandles ==
  ASSUME TypeOK, NEW urls \in SUBSET Urls, Submit(urls)
  PROVE  /\ seen' \subseteq Urls /\ queued' \subseteq seen' /\ leased' \subseteq seen' \ queued'
         /\ seen \subseteq seen'
         /\ \A u \in urls : Handled(u)'
<1>1. PICK new \in SUBSET (urls \ seen) :
        /\ \A u \in urls \ (seen \cup new) : Full(seen \cup new, HostOf[u])
        /\ seen' = seen \cup new /\ queued' = queued \cup new /\ leased' = leased
  BY Zenon DEF Submit
<1>2. seen \subseteq Urls /\ queued \subseteq seen /\ leased \subseteq seen \ queued
  BY Zenon DEF TypeOK
<1>3. ASSUME NEW u \in urls
      PROVE  u \in seen' \/ Full(seen', HostOf[u])
  BY <1>1, Zenon
<1>4. \A u \in urls : Handled(u)'
  BY <1>3 DEF Handled, Full
<1> QED
  BY <1>1, <1>2, <1>4, Zenon

\* insert_outbox_row only appends.
LEMMA RowsAppended ==
  ASSUME TypeInv, NEW u \in Urls, outbox' = outbox \o NewRows(u)
  PROVE  /\ outbox' \in Seq(Urls \X Urls) /\ DOMAIN outbox \subseteq DOMAIN outbox'
         /\ \A i \in DOMAIN outbox : outbox'[i] = outbox[i]
<1>1. NewRows(u) \in Seq(Urls \X Urls)
  <2>1. LinksOf[u] \in Seq(Urls)
    BY UrlAssumption, Zenon
  <2>2. /\ Len(LinksOf[u]) \in Nat /\ DOMAIN LinksOf[u] = 1 .. Len(LinksOf[u])
        /\ \A i \in DOMAIN LinksOf[u] : LinksOf[u][i] \in Urls
    BY <2>1, LenProperties, ElementOfSeq, Zenon
  <2>3. [i \in DOMAIN LinksOf[u] |-> <<u, LinksOf[u][i]>>] \in [1 .. Len(LinksOf[u]) -> Urls \X Urls]
    BY <2>2, Zenon
  <2>4. [i \in DOMAIN LinksOf[u] |-> <<u, LinksOf[u][i]>>] \in Seq(Urls \X Urls)
    BY <2>2, <2>3
  <2> QED
    BY <2>4 DEF NewRows
<1>2. outbox \in Seq(Urls \X Urls)
  BY Zenon DEF TypeInv, TypeOK
<1> HIDE DEF NewRows
<1> QED
  BY <1>1, <1>2, ConcatProperties, LenProperties

\* The links of a page are URLs.
LEMMA LinkUrls ==
  ASSUME NEW u \in Urls
  PROVE  Links(u) \subseteq Urls
  BY ElementOfSeq, LenProperties, UrlAssumption, Zenon DEF Links

\* The steps of a worker change its own entry of `task'.
LEMMA WorkType ==
  ASSUME TypeInv, NEW t \in Tasks, Work(t) \/ ClaimFails(t) \/ ShipFails(t)
  PROVE  TypeInv'
<1> USE DEF TypeInv
<1>0. t[1] \in Pods /\ task[t] \in [pc : {"idle", "round", "page", "ship", "ack"},
         start : Nat, offset : Nat, url : Urls \cup {NoUrl}, rest : SUBSET Urls]
  BY Zenon DEF TypeOK, Tasks
<1>a. OwnInv'
  <2>1. conf' = conf /\ env' = env
    BY Zenon DEF Work, Claim, ClaimEmpty, ClaimUrl, ClaimFails, Abandon, MarkSucceeded,
           DispatchDirect, Ship, ShipFails, Ack, deployment
  <2> QED
    BY <2>1, Zenon DEF OwnInv, DeriveOwnedShards
<1>b. \A v \in Tasks : v # t => task'[v] = task[v]
  BY Zenon DEF TypeOK, Work, Claim, ClaimEmpty, ClaimUrl, ClaimFails, Abandon, MarkSucceeded,
         DispatchDirect, Ship, ShipFails, Ack
<1>1. CASE Claim(t)
  <2>1. Len(Owned(t[1])) \in Nat \ {0}
    BY <1>0, <1>1, OwnedLen, Zenon DEF Claim
  <2>2. cursor[t[1]] \in Nat
    BY <1>0, UrlAssumption DEF TypeOK
  <2>3. cursor[t[1]] % Len(Owned(t[1])) \in Nat
    BY SMTT(60), <2>1, <2>2, DivMod
  <2>4. (cursor[t[1]] + 1) % CursorSize \in 0 .. CursorSize - 1
    <3>1. cursor[t[1]] + 1 \in Nat /\ CursorSize \in Nat \ {0}
      BY <2>2, UrlAssumption
    <3> QED
      BY <3>1, DivMod, Zenon
  <2>5. TypeOK'
    BY <1>0, <1>1, <2>3, <2>4, Zenon DEF TypeOK, Claim, deployment, frontier, ledger, observed
  <2>6. task'[t].pc = "round"
    BY <1>0, <1>1, Zenon DEF TypeOK, Claim
  <2> QED
    BY <1>a, <1>b, <2>5, <2>6, Zenon DEF HoldInv
<1>2. CASE ClaimEmpty(t)
  <2>1. task' \in [Tasks -> [pc : {"idle", "round", "page", "ship", "ack"},
           start : Nat, offset : Nat, url : Urls \cup {NoUrl}, rest : SUBSET Urls]]
    <3>1. CASE task' = [task EXCEPT ![t] = IdleTask]
      BY <3>1, Zenon DEF TypeOK, IdleTask
    <3>2. CASE task' = [task EXCEPT ![t].offset = @ + 1]
      <4>1. task[t].offset + 1 \in Nat
        BY <1>0
      <4>2. task' = [task EXCEPT ![t] = [task[t] EXCEPT !.offset = task[t].offset + 1]]
        BY <3>2, Zenon
      <4> QED
        BY <1>0, <4>1, <4>2, Zenon DEF TypeOK
    <3> QED
      BY <1>2, <3>1, <3>2, Zenon DEF ClaimEmpty
  <2>2. TypeOK'
    BY <1>2, <2>1, Zenon DEF TypeOK, ClaimEmpty, deployment, frontier, ledger, observed
  <2>3. task'[t].pc \in {"idle", "round"}
    BY <1>0, <1>2, Zenon DEF TypeOK, ClaimEmpty, IdleTask
  <2> QED
    BY <1>a, <1>b, <2>2, <2>3, Zenon DEF HoldInv
<1>c. CASE ClaimFails(t)
  <2>1. TypeOK'
    BY <1>0, <1>c, UrlAssumption DEF TypeOK, ClaimFails, IdleTask, Fault,
                                     deployment, frontier, ledger, observed
  <2>2. task'[t].pc = "idle"
    BY <1>c, Zenon DEF TypeOK, ClaimFails, IdleTask
  <2> QED
    BY <1>a, <1>b, <2>1, <2>2, Zenon DEF HoldInv
<1>3. ASSUME NEW u \in Urls, ClaimUrl(t, u)
      PROVE  TypeInv'
  <2>1. u \in queued
    BY <1>3, Zenon DEF ClaimUrl, Group
  <2>2. TypeOK'
    BY <1>0, <1>3, <2>1, Zenon DEF TypeOK, ClaimUrl, IdleTask, deployment, ledger, observed
  <2> QED
    BY <1>0, <1>3, <1>a, <2>2, SMTT(60) DEF TypeOK, ClaimUrl, IdleTask, HoldInv
<1>4. CASE Abandon(t)
  <2>1. TypeOK'
    BY <1>0, <1>4, Zenon DEF TypeOK, Abandon, IdleTask, deployment, ledger, observed
  <2> QED
    BY <1>0, <1>4, <1>a, <2>1, Zenon DEF TypeOK, Abandon, IdleTask, HoldInv
<1>5. CASE MarkSucceeded(t)
  <2>1. task[t].url \in Urls
    BY <1>5, Zenon DEF MarkSucceeded, HoldInv
  <2>2. outbox' \in Seq(Urls \X Urls) /\ DOMAIN outbox \subseteq DOMAIN outbox'
    BY <1>5, <2>1, RowsAppended, Zenon DEF MarkSucceeded
  <2>3. pub' \in [Pods -> [pc : {"idle", "resolve", "ship", "commit"},
                           rows : SUBSET DOMAIN outbox', rest : SUBSET Urls]]
    BY <1>5, <2>2, Zenon DEF TypeOK, MarkSucceeded
  <2>4. TypeOK'
    BY <1>0, <1>5, <2>2, <2>3, Zenon DEF TypeOK, MarkSucceeded, deployment, frontier, observed
  <2> QED
    BY <1>0, <1>5, <1>a, <2>1, <2>4, Zenon DEF TypeOK, MarkSucceeded, HoldInv
<1>6. CASE DispatchDirect(t)
  <2>1. task[t].url \in Urls
    BY <1>6, Zenon DEF DispatchDirect, HoldInv
  <2>2. Links(task[t].url) \subseteq Urls
    BY <2>1, LinkUrls, Zenon
  <2>3. task' \in [Tasks -> [pc : {"idle", "round", "page", "ship", "ack"},
           start : Nat, offset : Nat, url : Urls \cup {NoUrl}, rest : SUBSET Urls]]
    <3>1. CASE task' = [task EXCEPT ![t].pc = "ship", ![t].rest = Links(task[t].url)]
      BY <1>0, <2>2, <3>1, Zenon DEF TypeOK
    <3>2. CASE task' = [task EXCEPT ![t].pc = "ack"]
      BY <1>0, <3>2, Zenon DEF TypeOK
    <3> QED
      BY <1>6, <3>1, <3>2, Zenon DEF DispatchDirect
  <2>4. failed' \subseteq Urls
    BY <1>6, <2>1, Zenon DEF TypeOK, DispatchDirect
  <2>5. task'[t].url = task[t].url
    BY <1>0, <1>6 DEF TypeOK, DispatchDirect
  <2>6. TypeOK'
    BY <1>6, <2>3, <2>4, Zenon DEF TypeOK, DispatchDirect, deployment, frontier, ledger
  <2> QED
    BY <1>a, <1>b, <2>1, <2>5, <2>6, Zenon DEF HoldInv
<1>7. CASE Ship(t)
  <2>1. PICK s \in Shards :
          LET group == Group(s, task[t].rest)
          IN  /\ group # {} /\ Submit(group)
              /\ task' = [task EXCEPT ![t].rest = @ \ group,
                                      ![t].pc = IF task[t].rest = group THEN "ack" ELSE "ship"]
    BY <1>7, Zenon DEF Ship
  <2>2. Group(s, task[t].rest) \subseteq Urls
    BY <1>0, Zenon DEF Group
  <2> DEFINE group == Group(s, task[t].rest)
  <2>3. /\ seen' \subseteq Urls /\ queued' \subseteq seen' /\ leased' \subseteq seen' \ queued'
    BY <2>1, <2>2, SubmitHandles, Zenon
  <2>4. task' = [task EXCEPT ![t].rest = @ \ group,
                             ![t].pc = IF task[t].rest = group THEN "ack" ELSE "ship"]
    BY <2>1, Zenon
  <2> HIDE DEF group
  <2>5. TypeOK'
    BY <1>0, <1>7, <2>3, <2>4, ZenonT(60) DEF TypeOK, Ship, deployment, ledger, observed
  <2> QED
    BY <1>0, <1>7, <1>a, <2>4, <2>5, ZenonT(60) DEF TypeOK, Ship, HoldInv
<1>8. CASE ShipFails(t)
  <2>1. task[t].url \in Urls
    BY <1>8, Zenon DEF ShipFails, HoldInv
  <2>2. task' \in [Tasks -> [pc : {"idle", "round", "page", "ship", "ack"},
           start : Nat, offset : Nat, url : Urls \cup {NoUrl}, rest : SUBSET Urls]]
    BY <1>0, <1>8, Zenon DEF TypeOK, ShipFails
  <2>3. faults' \in 0 .. MaxFaults /\ failed' \subseteq Urls
    BY <1>8, <2>1, UrlAssumption DEF TypeOK, ShipFails, Fault
  <2>4. TypeOK'
    BY <1>8, <2>2, <2>3, Zenon DEF TypeOK, ShipFails, deployment, frontier, ledger
  <2>5. task'[t].url = task[t].url
    BY <1>0, <1>8, Zenon DEF TypeOK, ShipFails
  <2> QED
    BY <1>a, <1>b, <2>1, <2>4, <2>5 DEF HoldInv
<1>9. CASE Ack(t)
  <2>1. task[t].url \in Urls
    BY <1>9, Zenon DEF Ack, HoldInv
  <2>2. TypeOK'
    BY <1>0, <1>9, <2>1, Zenon DEF TypeOK, Ack, IdleTask, deployment, ledger
  <2> QED
    BY <1>0, <1>9, <1>a, <2>2, SMTT(60) DEF TypeOK, Ack, IdleTask, HoldInv
<1> QED
  BY <1>1, <1>2, <1>3, <1>4, <1>5, <1>6, <1>7, <1>8, <1>9, <1>c DEF Work

\* The steps of a publisher change its own entry of `pub'.
LEMMA PublishType ==
  ASSUME TypeInv, NEW p \in Pods, Publish(p) \/ PublishFails(p)
  PROVE  TypeInv'
<1> USE DEF TypeInv
<1>0. pub[p] \in [pc : {"idle", "resolve", "ship", "commit"},
                  rows : SUBSET DOMAIN outbox, rest : SUBSET Urls]
  BY Zenon DEF TypeOK
<1>1. UNCHANGED <<conf, env, task>>
  BY Zenon DEF Publish, SelectRows, Resolve, ShipRows, CommitRows, PublishFails, deployment
<1>2. OwnInv' /\ HoldInv'
  BY <1>1, Zenon DEF OwnInv, HoldInv, DeriveOwnedShards
<1>3. CASE SelectRows(p)
  <2>1. PICK first \in SUBSET Available :
          pub' = [pub EXCEPT ![p] = [pc |-> "resolve", rows |-> first,
                                     rest |-> {outbox[i][2] : i \in first}]]
    BY <1>3, Zenon DEF SelectRows
  <2>2. \A i \in first : i \in DOMAIN outbox /\ outbox[i][2] \in Urls
    <3>1. first \subseteq DOMAIN outbox
      BY <2>1, Zenon DEF Available
    <3> QED
      BY <3>1, LenProperties, ElementOfSeq, SMTT(60) DEF TypeOK
  <2>3. {outbox[i][2] : i \in first} \subseteq Urls /\ first \subseteq DOMAIN outbox
    BY <2>2, Zenon
  <2>4. pub' \in [Pods -> [pc : {"idle", "resolve", "ship", "commit"},
                           rows : SUBSET DOMAIN outbox, rest : SUBSET Urls]]
    BY <2>1, <2>3, Zenon DEF TypeOK
  <2> QED
    BY <1>2, <1>3, <2>4, Zenon DEF TypeOK, SelectRows, deployment, frontier, ledger, observed
<1>4. CASE Resolve(p)
  <2>1. pub' \in [Pods -> [pc : {"idle", "resolve", "ship", "commit"},
                           rows : SUBSET DOMAIN outbox, rest : SUBSET Urls]]
    <3>1. CASE pub' = [pub EXCEPT ![p].pc = "ship"]
      BY <1>0, <3>1, Zenon DEF TypeOK
    <3>2. CASE pub' = [pub EXCEPT ![p] = IdlePub]
      BY <3>2, Zenon DEF TypeOK, IdlePub
    <3> QED
      BY <1>4, <3>1, <3>2, Zenon DEF Resolve
  <2> QED
    BY <1>2, <1>4, <2>1, Zenon DEF TypeOK, Resolve, deployment, frontier, ledger, observed
<1>6. CASE CommitRows(p) \/ PublishFails(p)
  <2>1. pub' \in [Pods -> [pc : {"idle", "resolve", "ship", "commit"},
                           rows : SUBSET DOMAIN outbox, rest : SUBSET Urls]]
    <3>1. pub' = [pub EXCEPT ![p] = IdlePub]
      BY <1>6, Zenon DEF CommitRows, PublishFails
    <3> QED
      BY <3>1, Zenon DEF TypeOK, IdlePub
  <2>2. faults' \in 0 .. MaxFaults /\ published' \subseteq DOMAIN outbox
    BY <1>0, <1>6, UrlAssumption DEF TypeOK, CommitRows, PublishFails, Fault, ledger
  <2> QED
    BY <1>2, <1>6, <2>1, <2>2 DEF TypeOK, CommitRows, PublishFails,
                                  deployment, frontier, ledger, observed
<1>5. CASE ShipRows(p)
  <2>1. PICK s \in Shards :
          LET group == Group(s, pub[p].rest)
          IN  /\ group # {} /\ Submit(group)
              /\ pub' = [pub EXCEPT ![p].rest = @ \ group,
                                    ![p].pc = IF pub[p].rest = group THEN "commit" ELSE "ship"]
    BY <1>5, Zenon DEF ShipRows
  <2>2. Group(s, pub[p].rest) \subseteq Urls
    BY <1>0, Zenon DEF Group
  <2>3. pub' \in [Pods -> [pc : {"idle", "resolve", "ship", "commit"},
                           rows : SUBSET DOMAIN outbox, rest : SUBSET Urls]]
    BY <1>0, <2>1, Zenon DEF TypeOK
  <2>4. /\ seen' \subseteq Urls /\ queued' \subseteq seen' /\ leased' \subseteq seen' \ queued'
    BY <2>1, <2>2, SubmitHandles, Zenon
  <2> QED
    BY <1>2, <1>5, <2>3, <2>4, Zenon DEF TypeOK, ShipRows, deployment, ledger, observed
<1> QED
  BY <1>3, <1>4, <1>5, <1>6, Zenon DEF Publish

\* Pods start and end, the deployment is scaled, seeds and lapsed leases are
\* queued.
LEMMA OtherType ==
  ASSUME TypeInv,
         \/ \E p \in Pods : Start(p) \/ Roll(p) \/ Kill(p)
         \/ \E u \in Urls : Seed(u) \/ Reclaim(u)
         \/ Scale
  PROVE  TypeInv'
<1> USE DEF TypeInv
<1>1. ASSUME NEW p \in Pods, Start(p)
      PROVE  TypeInv'
  <2>1. target \in 0 .. MaxPods
    BY DeploymentAssumption DEF TypeOK
  <2>2. TypeOK'
    BY <1>1, <2>1, Zenon DEF TypeOK, Start, frontier, ledger, observed
  <2>3. OwnInv'
    BY <1>1, Zenon DEF TypeOK, OwnInv, Start, DeriveOwnedShards
  <2> QED
    BY <1>1, <2>2, <2>3, Zenon DEF HoldInv, Start
<1>2. ASSUME NEW p \in Pods, Roll(p) \/ Kill(p)
      PROVE  TypeInv'
  <2>1. Ends(p) /\ faults' \in 0 .. MaxFaults
    BY <1>2, UrlAssumption DEF TypeOK, Roll, Kill, Fault
  <2>2. 0 \in 0 .. MaxPods /\ 0 \in 0 .. CursorSize - 1
    BY DeploymentAssumption, UrlAssumption
  <2>3. TypeOK'
    BY <2>1, <2>2, Zenon DEF TypeOK, Ends, IdleTask, IdlePub, frontier, ledger, observed
  <2>4. OwnInv'
    BY <2>1, Zenon DEF TypeOK, OwnInv, Ends, DeriveOwnedShards
  <2>5. HoldInv'
    BY <2>1, Zenon DEF TypeOK, HoldInv, Ends, IdleTask
  <2> QED
    BY <2>3, <2>4, <2>5, Zenon
<1>3. ASSUME NEW u \in Urls, Seed(u) \/ Reclaim(u)
      PROVE  TypeInv'
  <2>1. CASE Seed(u)
    <3>1. Submit({u}) /\ {u} \in SUBSET Urls
      BY <2>1, Zenon DEF Seed
    <3>2. /\ seen' \subseteq Urls /\ queued' \subseteq seen' /\ leased' \subseteq seen' \ queued'
      BY <3>1, SubmitHandles, Zenon
    <3> QED
      BY <2>1, <3>2, Zenon DEF TypeOK, Seed, OwnInv, HoldInv, DeriveOwnedShards,
                               deployment, ledger, observed
  <2>2. CASE Reclaim(u)
    BY <2>2, Zenon DEF TypeOK, Reclaim, OwnInv, HoldInv, DeriveOwnedShards,
                       deployment, ledger, observed
  <2> QED
    BY <1>3, <2>1, <2>2, Zenon
<1>4. CASE Scale
  <2>1. TypeOK'
    BY <1>4, UrlAssumption DEF TypeOK, Scale, Fault, frontier, ledger, observed
  <2> QED
    BY <1>4, <2>1, Zenon DEF Scale, OwnInv, HoldInv, DeriveOwnedShards
<1> QED
  BY <1>1, <1>2, <1>3, <1>4, Zenon

\* Which lemma a step falls under.
LEMMA StepKinds ==
  ASSUME [Next]_vars
  PROVE  \/ \E t \in Tasks : Work(t) \/ ClaimFails(t) \/ ShipFails(t)
         \/ \E p \in Pods : Publish(p) \/ PublishFails(p)
         \/ \E p \in Pods : Start(p) \/ Roll(p) \/ Kill(p)
         \/ \E u \in Urls : Seed(u) \/ Reclaim(u)
         \/ Scale
         \/ UNCHANGED vars
  BY Zenon DEF Next, Tick, Deploy

LEMMA TypeStep == TypeInv /\ [Next]_vars => TypeInv'
<1>1. ASSUME TypeInv, UNCHANGED vars
      PROVE  TypeInv'
  BY <1>1, Zenon DEF TypeInv, TypeOK, OwnInv, HoldInv, DeriveOwnedShards,
                     vars, deployment, frontier, ledger, observed
<1> QED
  BY <1>1, StepKinds, WorkType, PublishType, OtherType, Zenon

\* Types of the deployment, the frontier, the workers and the outbox; the
\* modulus of every round over shards is positive.
THEOREM TypeCorrect == Spec => []TypeInv
<1> QED
  BY TypeInit, TypeStep, PTL DEF Spec

\* In every settled deployment each shard has exactly one owning pod.
THEOREM OwnersCorrect == Spec => []OwnersPartition
<1>1. TypeInv => OwnersPartition
  BY SettledPartition, Zenon DEF TypeInv, TypeOK, OwnersPartition
<1> QED
  BY <1>1, TypeCorrect, PTL

-----------------------------------------------------------------------------
(* Rows and links                                                          *)

\* What a publisher has locked is handled or still to be shipped.
PubInv ==
  \A p \in Pods :
    /\ \A i \in pub[p].rows : outbox[i][2] \in pub[p].rest \/ Handled(outbox[i][2])
    /\ pub[p].pc = "commit" => pub[p].rest = {}

HasRow(u, v) == \E i \in DOMAIN outbox : outbox[i] = <<u, v>>

\* A page has the rows of all its links or none.
RowsInv == \A i \in DOMAIN outbox : \A v \in Links(outbox[i][1]) : HasRow(outbox[i][1], v)

\* The links of a page are recorded, shipped, or known to be given up.
Placed(u) ==
  \/ dispatch = "outbox" /\ \A v \in Links(u) : HasRow(u, v)
  \/ dispatch # "outbox" /\ ((\A v \in Links(u) : Handled(v)) \/ u \in failed)

\* The same of a page that is about to be acknowledged; a worker that ships
\* has the remaining links left.
DoneInv == \A u \in done : Placed(u)
TaskInv ==
  \A t \in Tasks :
    /\ task[t].pc = "ack" => Placed(task[t].url)
    /\ task[t].pc = "ship" => dispatch # "outbox"
                              /\ \A v \in Links(task[t].url) : v \in task[t].rest \/ Handled(v)

IInv == TypeInv /\ PubInv /\ PublishedShipped /\ RowsInv /\ DoneInv /\ TaskInv

\* No step takes a URL from the Bloom filters or makes room at a full host,
\* takes a row from the outbox or a failure from the observation, or changes
\* the way of dispatch.
Grows ==
  /\ \A u \in Urls : Handled(u) => Handled(u)'
  /\ failed \subseteq failed' /\ dispatch' = dispatch
  /\ DOMAIN outbox \subseteq DOMAIN outbox'
  /\ \A i \in DOMAIN outbox : outbox'[i] = outbox[i]

\* What a step that leaves the filters alone or grows them does to Handled.
LEMMA HandledStays ==
  ASSUME TypeOK, seen' \subseteq Urls, seen \subseteq seen'
  PROVE  \A u \in Urls : Handled(u) => Handled(u)'
<1>1. ASSUME NEW u \in Urls, Handled(u)
      PROVE  u \in seen' \/ Full(seen', HostOf[u])
  <2>1. HostOf[u] \in Hosts /\ seen \subseteq Urls
    BY UrlAssumption, Zenon DEF TypeOK
  <2> QED
    BY <1>1, <2>1, FullGrows, Zenon DEF Handled
<1>2. ASSUME NEW u \in Urls, Handled(u)
      PROVE  Handled(u)'
  BY <1>1, <1>2 DEF Handled, Full
<1> QED
  BY <1>2, Zenon

\* Which steps grow the filters: those that submit.
LEMMA SeenGrows ==
  ASSUME TypeInv, [Next]_vars
  PROVE  seen' \subseteq Urls /\ seen \subseteq seen'
<1>0. TypeOK /\ seen \subseteq Urls
  BY Zenon DEF TypeInv, TypeOK
<1>1. ASSUME NEW t \in Tasks, Ship(t)
      PROVE  seen' \subseteq Urls /\ seen \subseteq seen'
  <2>1. PICK s \in Shards : Submit(Group(s, task[t].rest))
    BY <1>1, Zenon DEF Ship
  <2>2. task[t].rest \subseteq Urls
    BY <1>0, Zenon DEF TypeOK
  <2>3. Group(s, task[t].rest) \subseteq Urls
    BY <2>2, Zenon DEF Group
  <2> QED
    BY <1>0, <2>1, <2>3, SubmitHandles, Zenon
<1>2. ASSUME NEW p \in Pods, ShipRows(p)
      PROVE  seen' \subseteq Urls /\ seen \subseteq seen'
  <2>1. PICK s \in Shards : Submit(Group(s, pub[p].rest))
    BY <1>2, Zenon DEF ShipRows
  <2>2. pub[p].rest \subseteq Urls
    BY <1>0, Zenon DEF TypeOK
  <2>3. Group(s, pub[p].rest) \subseteq Urls
    BY <2>2, Zenon DEF Group
  <2> QED
    BY <1>0, <2>1, <2>3, SubmitHandles, Zenon
<1>3. ASSUME NEW u \in Urls, Seed(u)
      PROVE  seen' \subseteq Urls /\ seen \subseteq seen'
  <2>1. Submit({u}) /\ {u} \in SUBSET Urls
    BY <1>3, Zenon DEF Seed
  <2> QED
    BY <1>0, <2>1, SubmitHandles, Zenon
<1>4. \/ \E t \in Tasks : Ship(t)
      \/ \E p \in Pods : ShipRows(p)
      \/ \E u \in Urls : Seed(u)
      \/ seen' = seen
  BY StepKinds, ZenonT(60) DEF Work, Claim, ClaimEmpty, ClaimUrl, ClaimFails, Abandon, MarkSucceeded,
     DispatchDirect, ShipFails, Ack, Publish, SelectRows, Resolve, CommitRows, PublishFails,
     Start, Roll, Kill, Ends, Reclaim, Scale, vars, frontier
<1> QED
  BY <1>0, <1>1, <1>2, <1>3, <1>4, Zenon

LEMMA StepGrows ==
  ASSUME TypeInv, [Next]_vars
  PROVE  Grows
<1>0. \A u \in Urls : Handled(u) => Handled(u)'
  BY SeenGrows, HandledStays, Zenon DEF TypeInv
<1>1. ASSUME NEW t \in Tasks, MarkSucceeded(t)
      PROVE  Grows
  <2>1. task[t].url \in Urls
    BY <1>1, Zenon DEF TypeInv, HoldInv, MarkSucceeded
  <2>2. outbox' = outbox \o NewRows(task[t].url)
    BY <1>1, Zenon DEF MarkSucceeded
  <2> QED
    BY <1>0, <1>1, <2>1, <2>2, RowsAppended, Zenon DEF Grows, MarkSucceeded, deployment, frontier, observed
<1>2. ASSUME NEW t \in Tasks,
             \/ Claim(t) \/ ClaimEmpty(t) \/ Abandon(t) \/ ClaimFails(t)
             \/ \E u \in Urls : ClaimUrl(t, u)
      PROVE  Grows
  BY <1>0, <1>2, Zenon DEF Grows, Claim, ClaimEmpty, Abandon, ClaimFails, ClaimUrl,
              deployment, frontier, ledger, observed
<1>3. ASSUME NEW t \in Tasks, DispatchDirect(t) \/ Ship(t) \/ ShipFails(t) \/ Ack(t)
      PROVE  Grows
  BY <1>0, <1>3, Zenon DEF Grows, DispatchDirect, Ship, ShipFails, Ack,
              deployment, frontier, ledger, observed
<1>4. ASSUME NEW p \in Pods, Publish(p) \/ PublishFails(p)
      PROVE  Grows
  BY <1>0, <1>4, Zenon DEF Grows, Publish, SelectRows, Resolve, ShipRows, CommitRows, PublishFails,
              deployment, frontier, ledger, observed
<1>5. ASSUME NEW p \in Pods, Start(p) \/ Roll(p) \/ Kill(p)
      PROVE  Grows
  BY <1>0, <1>5, Zenon DEF Grows, Start, Roll, Kill, Ends, frontier, ledger, observed
<1>6. ASSUME NEW u \in Urls, Seed(u) \/ Reclaim(u)
      PROVE  Grows
  BY <1>0, <1>6, Zenon DEF Grows, Seed, Reclaim, deployment, ledger, observed
<1>7. CASE Scale \/ UNCHANGED vars
  BY <1>0, <1>7, Zenon DEF Grows, Scale, vars, deployment, frontier, ledger, observed
<1> QED
  BY <1>1, <1>2, <1>3, <1>4, <1>5, <1>6, <1>7, StepKinds, Zenon DEF Work

\* A page that is placed stays placed.
LEMMA PlacedStays ==
  ASSUME Grows, NEW u \in Urls, Placed(u)
  PROVE  Placed(u)'
<1>1. Links(u)' = Links(u)
  BY Zenon DEF Links
<1>2. \A v : HasRow(u, v) => HasRow(u, v)'
  BY Zenon DEF Grows, HasRow
<1> QED
  BY <1>1, <1>2, LinkUrls, Zenon DEF Grows, Placed

\* Only CommitRows publishes, and what it publishes has been shipped.
LEMMA PubStep ==
  ASSUME TypeInv, PubInv, PublishedShipped, [Next]_vars
  PROVE  PubInv' /\ PublishedShipped'
<1>0. Grows
  BY StepGrows, Zenon
<1>a. published \subseteq DOMAIN outbox /\ \A p \in Pods : pub[p].rows \subseteq DOMAIN outbox
  BY Zenon DEF TypeInv, TypeOK
<1>d. \A i \in DOMAIN outbox : outbox[i][2] \in Urls /\ outbox'[i] = outbox[i]
  <2>1. outbox \in Seq(Urls \X Urls)
    BY Zenon DEF TypeInv, TypeOK
  <2>2. \A i \in DOMAIN outbox : outbox[i] \in Urls \X Urls
    BY <2>1, LenProperties, ElementOfSeq, Zenon
  <2> QED
    BY <1>0, <2>2 DEF Grows
<1>b. \A i \in published : Handled(outbox[i][2])'
  <2>1. ASSUME NEW i \in published
        PROVE  Handled(outbox[i][2])'
    <3>1. PICK u \in Urls : u = outbox[i][2] /\ u = outbox'[i][2]
      BY <1>a, <1>d, Zenon
    <3>2. Handled(u)'
      BY <1>0, <3>1, Zenon DEF Grows, PublishedShipped
    <3> QED
      BY <3>1, <3>2, Zenon DEF Handled
  <2> QED
    BY <2>1, Zenon
<1>c. \A p \in Pods : \A i \in pub[p].rows :
        outbox'[i][2] \in pub[p].rest \/ Handled(outbox[i][2])'
  <2>1. ASSUME NEW p \in Pods, NEW i \in pub[p].rows, outbox[i][2] \notin pub[p].rest
        PROVE  Handled(outbox[i][2])'
    <3>1. PICK u \in Urls : u = outbox[i][2] /\ u = outbox'[i][2]
      BY <1>a, <1>d, Zenon
    <3>2. Handled(u)'
      BY <1>0, <2>1, <3>1, Zenon DEF Grows, PubInv
    <3> QED
      BY <3>1, <3>2, Zenon DEF Handled
  <2> QED
    BY <1>a, <1>d, <2>1, Zenon
<1>1. CASE UNCHANGED <<pub, published>>
  BY <1>b, <1>c, <1>1, Zenon DEF PubInv, PublishedShipped
<1>2. ASSUME NEW p \in Pods, Publish(p) \/ PublishFails(p) \/ Roll(p) \/ Kill(p)
      PROVE  PubInv' /\ PublishedShipped'
  <2>0. \A q \in Pods : q # p => pub'[q] = pub[q]
    BY <1>2, Zenon DEF TypeInv, TypeOK, Publish, SelectRows, Resolve, ShipRows, CommitRows,
                PublishFails, Roll, Kill, Ends
  <2>1. CASE SelectRows(p)
    <3>1. PICK first \in SUBSET Available :
            pub' = [pub EXCEPT ![p] = [pc |-> "resolve", rows |-> first,
                                       rest |-> {outbox[i][2] : i \in first}]]
      BY <2>1, Zenon DEF SelectRows
    <3>2. /\ pub'[p].pc = "resolve" /\ pub'[p].rows = first
          /\ pub'[p].rest = {outbox[i][2] : i \in first}
      BY <3>1, Zenon DEF TypeInv, TypeOK
    <3>3. outbox' = outbox /\ published' = published
      BY <2>1, Zenon DEF SelectRows, ledger
    <3>4. PubInv'
      BY <1>c, <2>0, <3>2, <3>3, ZenonT(60) DEF PubInv
    <3> QED
      BY <1>b, <3>3, <3>4, Zenon DEF PublishedShipped
  <2>2. CASE Resolve(p)
    <3>1. \/ pub'[p] = IdlePub
          \/ pub'[p].pc = "ship" /\ pub'[p].rows = pub[p].rows /\ pub'[p].rest = pub[p].rest
      BY <2>2 DEF TypeInv, TypeOK, Resolve
    <3>2. published' = published
      BY <2>2, Zenon DEF Resolve, ledger
    <3>3. PubInv'
      BY <1>c, <2>0, <3>1, SMTT(60) DEF PubInv, IdlePub
    <3> QED
      BY <1>b, <3>2, <3>3, Zenon DEF PublishedShipped
  <2>3. CASE ShipRows(p)
    <3>1. PICK s \in Shards :
            LET group == Group(s, pub[p].rest)
            IN  /\ group # {} /\ Submit(group)
                /\ pub' = [pub EXCEPT ![p].rest = @ \ group,
                                      ![p].pc = IF pub[p].rest = group THEN "commit" ELSE "ship"]
      BY <2>3, Zenon DEF ShipRows
    <3> DEFINE group == Group(s, pub[p].rest)
    <3>2. /\ pub'[p].rows = pub[p].rows /\ pub'[p].rest = pub[p].rest \ group
          /\ pub'[p].pc = "commit" => pub[p].rest = group
      BY <3>1 DEF TypeInv, TypeOK
    <3>5. \A u \in group : Handled(u)'
      <4>1. Submit(group)
        BY <3>1, Zenon
      <4>2. group \in SUBSET Urls /\ TypeOK
        BY Zenon DEF TypeInv, TypeOK, Group
      <4> HIDE DEF group
      <4> QED
        BY <4>1, <4>2, SubmitHandles, Zenon
    <3>6. outbox' = outbox
      BY <2>3, Zenon DEF ShipRows, ledger
    <3> HIDE DEF group
    <3>3. published' = published
      BY <2>3, Zenon DEF ShipRows, ledger
    <3>7. ASSUME NEW i \in pub[p].rows, outbox'[i][2] \notin pub'[p].rest
          PROVE  Handled(outbox[i][2])'
      <4>1. CASE outbox[i][2] \in group
        <5>1. PICK u \in group : u = outbox[i][2] /\ u = outbox'[i][2]
          BY <3>6, <4>1, Zenon
        <5> QED
          BY <3>5, <5>1, Zenon DEF Handled
      <4>2. CASE outbox[i][2] \notin group
        BY <1>c, <3>2, <3>6, <3>7, <4>2, Zenon
      <4> QED
        BY <4>1, <4>2, Zenon
    <3>8. pub'[p].pc = "commit" => pub'[p].rest = {}
      BY <3>2
    <3>4. PubInv'
      BY <1>c, <2>0, <3>2, <3>7, <3>8, Zenon DEF PubInv
    <3> QED
      BY <1>b, <3>3, <3>4, Zenon DEF PublishedShipped
  <2>4. CASE CommitRows(p)
    <3>1. pub'[p] = IdlePub /\ published' = published \cup pub[p].rows /\ pub[p].rest = {}
      BY <2>4, Zenon DEF TypeInv, TypeOK, CommitRows, PubInv
    <3>2. pub'[p].rows = {} /\ pub'[p].pc = "idle"
      BY <3>1 DEF IdlePub
    <3>3. PubInv'
      BY <1>c, <2>0, <3>2, Zenon DEF PubInv
    <3> QED
      BY <1>b, <1>c, <3>1, <3>3, Zenon DEF PublishedShipped
  <2>5. CASE PublishFails(p) \/ Roll(p) \/ Kill(p)
    <3>1. pub'[p] = IdlePub /\ published' = published
      <4>1. pub' = [pub EXCEPT ![p] = IdlePub] /\ published' = published
        BY <2>5, Zenon DEF PublishFails, Roll, Kill, Ends, ledger
      <4> QED
        BY <4>1, Zenon DEF TypeInv, TypeOK
    <3>2. pub'[p].rows = {} /\ pub'[p].pc = "idle"
      BY <3>1 DEF IdlePub
    <3>3. PubInv'
      BY <1>c, <2>0, <3>2, Zenon DEF PubInv
    <3> QED
      BY <1>b, <3>1, <3>3, Zenon DEF PublishedShipped
  <2> QED
    BY <1>2, <2>1, <2>2, <2>3, <2>4, <2>5, Zenon DEF Publish
<1>3. ASSUME NEW t \in Tasks, Work(t) \/ ClaimFails(t) \/ ShipFails(t)
      PROVE  UNCHANGED <<pub, published>>
  BY <1>3, Zenon DEF Work, Claim, ClaimEmpty, ClaimUrl, ClaimFails, Abandon, MarkSucceeded,
              DispatchDirect, Ship, ShipFails, Ack, ledger
<1>4. ASSUME \/ \E p \in Pods : Start(p)
             \/ \E u \in Urls : Seed(u) \/ Reclaim(u)
             \/ Scale \/ UNCHANGED vars
      PROVE  UNCHANGED <<pub, published>>
  BY <1>4, Zenon DEF Start, Seed, Reclaim, Scale, vars, ledger
<1> QED
  BY <1>1, <1>2, <1>3, <1>4, StepKinds, Zenon

\* insert_outbox_row: the first success of a page brings the rows of all its
\* links.
LEMMA AllRows ==
  ASSUME TypeInv, RowsInv, NEW u \in Urls, outbox' = outbox \o NewRows(u)
  PROVE  /\ \A v \in Links(u) : HasRow(u, v)'
         /\ \A i \in DOMAIN outbox' : i \in DOMAIN outbox \/ outbox'[i][1] = u
<1>1. outbox \in Seq(Urls \X Urls) /\ LinksOf[u] \in Seq(Urls)
  BY UrlAssumption, Zenon DEF TypeInv, TypeOK
<1>2. CASE \E i \in DOMAIN outbox : outbox[i][1] = u
  <2>1. outbox' = outbox
    BY <1>1, <1>2, ConcatEmptySeq, Zenon DEF NewRows
  <2>2. \A v \in Links(u) : HasRow(u, v)
    BY <1>2, Zenon DEF RowsInv
  <2> QED
    BY <2>1, <2>2, Zenon DEF HasRow
<1>3. CASE ~ \E i \in DOMAIN outbox : outbox[i][1] = u
  <2> DEFINE rows == [i \in DOMAIN LinksOf[u] |-> <<u, LinksOf[u][i]>>]
             m == Len(outbox)
             n == Len(LinksOf[u])
  <2>1. /\ m \in Nat /\ DOMAIN outbox = 1 .. m
        /\ n \in Nat /\ DOMAIN LinksOf[u] = 1 .. n
        /\ \A i \in 1 .. n : LinksOf[u][i] \in Urls
    BY <1>1, LenProperties, ElementOfSeq, Zenon
  <2>2. rows \in [1 .. n -> Urls \X Urls]
    BY <2>1, Zenon
  <2>3. rows \in Seq(Urls \X Urls) /\ Len(rows) = n
    BY <2>1, <2>2
  <2>4. \A i \in 1 .. n : rows[i] = <<u, LinksOf[u][i]>>
    BY <2>1, Zenon
  <2>5. outbox' = outbox \o rows
    BY <1>3, Zenon DEF NewRows
  <2> HIDE DEF rows, m, n
  <2>6. /\ outbox' \in Seq(Urls \X Urls) /\ Len(outbox') = m + n
        /\ \A i \in 1 .. m + n : outbox'[i] = IF i <= m THEN outbox[i] ELSE rows[i - m]
    <3>1. /\ outbox \o rows \in Seq(Urls \X Urls)
          /\ Len(outbox \o rows) = Len(outbox) + Len(rows)
          /\ \A i \in 1 .. Len(outbox) + Len(rows) : (outbox \o rows)[i] =
               IF i <= Len(outbox) THEN outbox[i] ELSE rows[i - Len(outbox)]
      BY <1>1, <2>3, ConcatProperties, Zenon
    <3> QED
      BY <2>3, <2>5, <3>1, Zenon DEF m
  <2>7. DOMAIN outbox' = 1 .. m + n
    BY <2>6, LenProperties, Zenon
  <2>8. ASSUME NEW i \in 1 .. n
        PROVE  m + i \in DOMAIN outbox' /\ outbox'[m + i] = <<u, LinksOf[u][i]>>
    <3>1. m + i \in 1 .. m + n /\ ~(m + i <= m) /\ (m + i) - m = i
      BY <2>1
    <3> QED
      BY <2>4, <2>6, <2>7, <3>1, Zenon
  <2>9. ASSUME NEW v \in Links(u)
        PROVE  HasRow(u, v)'
    <3>1. PICK i \in 1 .. n : v = LinksOf[u][i]
      BY <2>1, <2>9, Zenon DEF Links
    <3> QED
      BY <2>8, <3>1, Zenon DEF HasRow
  <2>10. ASSUME NEW i \in DOMAIN outbox', i \notin DOMAIN outbox
         PROVE  outbox'[i][1] = u
    <3>1. i - m \in 1 .. n /\ ~(i <= m) /\ i \in 1 .. m + n
      BY <2>1, <2>7, <2>10
    <3> QED
      BY SMTT(60), <2>4, <2>6, <3>1
  <2> QED
    BY <2>9, <2>10, Zenon
<1> QED
  BY <1>2, <1>3, Zenon

LEMMA RowsStep ==
  ASSUME TypeInv, RowsInv, [Next]_vars
  PROVE  RowsInv'
<1>0. Grows
  BY StepGrows, Zenon
<1>1. ASSUME NEW t \in Tasks, MarkSucceeded(t)
      PROVE  RowsInv'
  <2>1. PICK u \in Urls : outbox' = outbox \o NewRows(u)
    BY <1>1, Zenon DEF MarkSucceeded, TypeInv, HoldInv
  <2>2. /\ \A v \in Links(u) : HasRow(u, v)'
        /\ \A i \in DOMAIN outbox' : i \in DOMAIN outbox \/ outbox'[i][1] = u
    BY <2>1, AllRows, Zenon
  <2>3. ASSUME NEW i \in DOMAIN outbox', NEW v \in Links(outbox'[i][1])
        PROVE  \E j \in DOMAIN outbox' : outbox'[j] = <<outbox'[i][1], v>>
    <3>1. CASE i \in DOMAIN outbox
      <4>1. outbox'[i] = outbox[i]
        BY <1>0, <3>1, Zenon DEF Grows
      <4>2. HasRow(outbox[i][1], v)
        BY <2>3, <3>1, <4>1, Zenon DEF RowsInv
      <4> QED
        BY <1>0, <4>1, <4>2, Zenon DEF Grows, HasRow
    <3>2. CASE outbox'[i][1] = u
      BY <2>2, <2>3, <3>2, Zenon DEF HasRow
    <3> QED
      BY <2>2, <3>1, <3>2, Zenon
  <2> QED
    BY <2>3, Zenon DEF RowsInv, HasRow, Links
<1>2. CASE outbox' = outbox
  BY <1>2 DEF RowsInv, HasRow, Links
<1>3. (\E t \in Tasks : MarkSucceeded(t)) \/ outbox' = outbox
  BY StepKinds, ZenonT(60) DEF Work, Claim, ClaimEmpty, ClaimUrl, ClaimFails, Abandon, DispatchDirect,
     Ship, ShipFails, Ack, Publish, SelectRows, Resolve, ShipRows, CommitRows, PublishFails,
     Start, Roll, Kill, Ends, Seed, Reclaim, Scale, vars, ledger
<1> QED
  BY <1>1, <1>2, <1>3, Zenon

\* What TaskInv says of one worker.
Fine(t) ==
  /\ task[t].pc = "ack" => Placed(task[t].url)
  /\ task[t].pc = "ship" => dispatch # "outbox"
                            /\ \A v \in Links(task[t].url) : v \in task[t].rest \/ Handled(v)

LEMMA PlacedNow ==
  ASSUME NEW t \in Tasks, NEW u, task'[t].url = u, Placed(u)'
  PROVE  Placed(task[t].url)'
  BY Zenon DEF Placed, HasRow, Links

LEMMA FineStays ==
  ASSUME TypeInv, Grows, NEW t \in Tasks, Fine(t), task'[t] = task[t]
  PROVE  Fine(t)'
<1>1. PICK u : u = task[t].url
  BY Zenon
<1>0. task[t].pc \in {"ack", "ship"} => u \in Urls
  BY <1>1, Zenon DEF TypeInv, HoldInv
<1>2. task[t].pc = "ack" => Placed(u)'
  BY <1>0, <1>1, PlacedStays, Zenon DEF Fine
<1>3. task'[t].pc = "ack" => Placed(task[t].url)'
  BY <1>1, <1>2, PlacedNow, Zenon
<1>4. task[t].pc = "ship" => \A v \in Links(u) : v \in task[t].rest \/ Handled(v)'
  BY <1>0, <1>1, LinkUrls, Zenon DEF Fine, Grows
<1> QED
  BY <1>1, <1>3, <1>4, Zenon DEF Fine, Grows, Links

\* What each step of a worker does to the page it holds.
LEMMA WorkFine ==
  ASSUME TypeInv, RowsInv, Grows, NEW t \in Tasks, Fine(t),
         Work(t) \/ ClaimFails(t) \/ ShipFails(t)
  PROVE  Fine(t)'
<1>0. task[t] \in [pc : {"idle", "round", "page", "ship", "ack"},
         start : Nat, offset : Nat, url : Urls \cup {NoUrl}, rest : SUBSET Urls]
  BY Zenon DEF TypeInv, TypeOK
<1>1. CASE \/ Claim(t) \/ ClaimEmpty(t) \/ ClaimFails(t) \/ Abandon(t) \/ Ack(t)
           \/ \E u \in Urls : ClaimUrl(t, u)
  <2>1. task'[t].pc \in {"idle", "round", "page"}
    <3>1. CASE Claim(t)
      BY <1>0, <3>1, Zenon DEF TypeInv, TypeOK, Claim
    <3>2. CASE ClaimEmpty(t)
      <4>1. task'[t] = IdleTask \/ task'[t] = [task[t] EXCEPT !.offset = @ + 1]
        BY <3>2, Zenon DEF TypeInv, TypeOK, ClaimEmpty
      <4>2. task[t].pc = "round"
        BY <3>2, Zenon DEF ClaimEmpty
      <4> QED
        BY <1>0, <4>1, <4>2 DEF IdleTask
    <3>3. CASE ClaimFails(t) \/ Abandon(t) \/ Ack(t)
      <4>1. task' = [task EXCEPT ![t] = IdleTask]
        BY <3>3, Zenon DEF ClaimFails, Abandon, Ack
      <4>2. task'[t] = IdleTask
        BY <4>1, Zenon DEF TypeInv, TypeOK
      <4> QED
        BY <4>2 DEF IdleTask
    <3>4. CASE \E u \in Urls : ClaimUrl(t, u)
      BY <3>4 DEF TypeInv, TypeOK, ClaimUrl, IdleTask
    <3> QED
      BY <1>1, <3>1, <3>2, <3>3, <3>4, Zenon
  <2> QED
    BY <2>1, Zenon DEF Fine
<1>2. PICK u : u = task[t].url
  BY Zenon
<1>3. CASE MarkSucceeded(t)
  <2>1. task'[t].pc = "ack" /\ task'[t].url = u /\ dispatch' = "outbox" /\ u \in Urls
    BY <1>0, <1>2, <1>3, Zenon DEF TypeInv, TypeOK, HoldInv, MarkSucceeded, deployment
  <2>2. \A v \in Links(u) : HasRow(u, v)'
    BY <1>2, <1>3, <2>1, AllRows, Zenon DEF MarkSucceeded
  <2>3. Placed(u)'
    BY <2>1, <2>2, Zenon DEF Placed, Links
  <2> QED
    BY <2>1, <2>3, PlacedNow, Zenon DEF Fine
<1>4. CASE DispatchDirect(t)
  <2>1. task'[t].url = u /\ dispatch' # "outbox" /\ Links(u)' = Links(u)
    <3>1. task'[t].url = task[t].url
      BY <1>0, <1>4 DEF TypeInv, TypeOK, DispatchDirect
    <3>2. dispatch' # "outbox"
      BY <1>4, Zenon DEF DispatchDirect, deployment
    <3> QED
      BY <1>2, <3>1, <3>2, Zenon DEF Links
  <2>2. CASE Links(u) # {} /\ OwnsAll(t[1], Links(u))
    <3>1. task'[t].pc = "ship" /\ task'[t].rest = Links(u)
      BY <1>0, <1>2, <1>4, <2>2 DEF TypeInv, TypeOK, DispatchDirect
    <3> QED
      BY <2>1, <3>1, Zenon DEF Fine, Links
  <2>3. CASE ~(Links(u) # {} /\ OwnsAll(t[1], Links(u)))
    <3>1. task'[t].pc = "ack" /\ (Links(u) = {} \/ u \in failed')
      BY <1>0, <1>2, <1>4, <2>3 DEF TypeInv, TypeOK, DispatchDirect
    <3>2. Placed(u)'
      BY <2>1, <3>1, Zenon DEF Placed
    <3> QED
      BY <2>1, <3>1, <3>2, PlacedNow, Zenon DEF Fine
  <2> QED
    BY <2>2, <2>3, Zenon
<1>5. CASE Ship(t)
  <2>1. PICK s \in Shards :
          LET group == Group(s, task[t].rest)
          IN  /\ group # {} /\ Submit(group)
              /\ task' = [task EXCEPT ![t].rest = @ \ group,
                                      ![t].pc = IF task[t].rest = group THEN "ack" ELSE "ship"]
    BY <1>5, Zenon DEF Ship
  <2> DEFINE group == Group(s, task[t].rest)
  <2>2. /\ task'[t].url = u /\ task'[t].rest = task[t].rest \ group
        /\ task'[t].pc = IF task[t].rest = group THEN "ack" ELSE "ship"
    BY <1>0, <1>2, <2>1, Zenon DEF TypeInv, TypeOK
  <2>6. \A v \in group : Handled(v)'
    <3>1. Submit(group)
      BY <2>1, Zenon
    <3>2. group \in SUBSET Urls /\ TypeOK
      BY <1>0, Zenon DEF TypeInv, Group
    <3> HIDE DEF group
    <3> QED
      BY <3>1, <3>2, SubmitHandles, Zenon
  <2> HIDE DEF group
  <2>7. /\ dispatch' # "outbox" /\ Links(u)' = Links(u)
        /\ \A v \in Links(u) : v \in task[t].rest \/ Handled(v)
    BY <1>2, <1>5, Zenon DEF Fine, Ship, deployment, Links
  <2>8. u \in Urls
    BY <1>2, <1>5, Zenon DEF TypeInv, HoldInv, Ship
  <2>3. /\ dispatch' # "outbox" /\ Links(u)' = Links(u)
        /\ \A v \in Links(u) : v \in task[t].rest \ group \/ Handled(v)'
    BY <2>6, <2>7, <2>8, LinkUrls, Zenon DEF Grows
  <2>4. CASE task[t].rest = group
    <3>1. Placed(u)'
      BY <2>2, <2>3, <2>4, Zenon DEF Placed
    <3> QED
      BY <2>2, <2>4, <3>1, PlacedNow, Zenon DEF Fine
  <2>5. CASE task[t].rest # group
    BY <1>2, <2>2, <2>3, <2>5, Zenon DEF Fine, Links
  <2> QED
    BY <2>4, <2>5, Zenon
<1>6. CASE ShipFails(t)
  <2>1. task'[t].pc = "ack" /\ task'[t].url = u /\ u \in failed' /\ dispatch' # "outbox"
    BY <1>0, <1>2, <1>6, Zenon DEF TypeInv, TypeOK, ShipFails, Fine, deployment
  <2>2. Placed(u)'
    BY <2>1, Zenon DEF Placed
  <2> QED
    BY <2>1, <2>2, PlacedNow, Zenon DEF Fine
<1> QED
  BY <1>1, <1>3, <1>4, <1>5, <1>6, Zenon DEF Work

LEMMA TaskStep ==
  ASSUME TypeInv, RowsInv, TaskInv, [Next]_vars
  PROVE  TaskInv'
<1>0. Grows
  BY StepGrows, Zenon
<1>a. \A v \in Tasks : Fine(v)
  BY Zenon DEF TaskInv, Fine
<1>b. SUFFICES ASSUME NEW v \in Tasks
               PROVE  Fine(v)'
  BY Zenon DEF TaskInv, Fine
<1>1. CASE task'[v] = task[v]
  BY <1>0, <1>a, <1>1, FineStays, Zenon
<1>2. ASSUME NEW t \in Tasks, Work(t) \/ ClaimFails(t) \/ ShipFails(t)
      PROVE  Fine(v)'
  <2>1. CASE v = t
    BY <1>0, <1>a, <1>2, <2>1, WorkFine, Zenon
  <2>2. CASE v # t
    <3>1. task'[v] = task[v]
      BY <1>2, <2>2, Zenon DEF TypeInv, TypeOK, Work, Claim, ClaimEmpty, ClaimUrl, ClaimFails, Abandon,
                        MarkSucceeded, DispatchDirect, Ship, ShipFails, Ack
    <3> QED
      BY <1>1, <3>1, Zenon
  <2> QED
    BY <2>1, <2>2, Zenon
<1>3. ASSUME NEW p \in Pods, Roll(p) \/ Kill(p)
      PROVE  Fine(v)'
  <2>1. task'[v] = IdleTask \/ task'[v] = task[v]
    BY <1>3, Zenon DEF Roll, Kill, Ends
  <2>2. CASE task'[v] = IdleTask
    <3>1. task'[v].pc = "idle"
      BY <2>2 DEF IdleTask
    <3> QED
      BY <3>1, Zenon DEF Fine
  <2> QED
    BY <1>1, <2>1, <2>2, Zenon
<1>4. ASSUME \/ \E p \in Pods : Publish(p) \/ PublishFails(p) \/ Start(p)
             \/ \E u \in Urls : Seed(u) \/ Reclaim(u)
             \/ Scale \/ UNCHANGED vars
      PROVE  task' = task
  BY <1>4, Zenon DEF Publish, SelectRows, Resolve, ShipRows, CommitRows, PublishFails, Start,
              Seed, Reclaim, Scale, vars
<1> QED
  BY <1>1, <1>2, <1>3, <1>4, StepKinds, Zenon

\* Only a page that is placed is acknowledged.
LEMMA DoneStep ==
  ASSUME TypeInv, DoneInv, TaskInv, [Next]_vars
  PROVE  DoneInv'
<1>0. Grows
  BY StepGrows, Zenon
<1>1. ASSUME NEW u \in done
      PROVE  Placed(u)'
  BY <1>0, PlacedStays, Zenon DEF DoneInv, TypeInv, TypeOK
<1>2. ASSUME NEW t \in Tasks, Ack(t)
      PROVE  DoneInv'
  <2>1. PICK u : u = task[t].url
    BY Zenon
  <2>2. Placed(u)'
    BY <1>0, <1>2, <2>1, PlacedStays, Zenon DEF TaskInv, TypeInv, HoldInv, Ack
  <2>3. done' \subseteq done \cup {u}
    BY <1>2, <2>1, Zenon DEF Ack
  <2> QED
    BY <1>1, <2>2, <2>3, Zenon DEF DoneInv
<1>3. CASE done' = done
  BY <1>1, <1>3, Zenon DEF DoneInv
<1>4. (\E t \in Tasks : Ack(t)) \/ done' = done
  BY StepKinds, ZenonT(60) DEF Work, Claim, ClaimEmpty, ClaimUrl, ClaimFails, Abandon, MarkSucceeded,
     DispatchDirect, Ship, ShipFails, Publish, SelectRows, Resolve, ShipRows, CommitRows,
     PublishFails, Start, Roll, Kill, Ends, Seed, Reclaim, Scale, vars, observed
<1> QED
  BY <1>2, <1>3, <1>4, Zenon

\* The inductive invariant.
THEOREM Invariance == Spec => []IInv
<1>1. Init => IInv
  <2>1. Init => TypeInv
    BY TypeInit, Zenon
  <2>2. Init => PubInv /\ PublishedShipped /\ RowsInv /\ DoneInv /\ TaskInv
    <3>1. ASSUME Init, NEW p \in Pods
          PROVE  pub[p].rows = {} /\ pub[p].pc = "idle"
      BY <3>1, Zenon DEF Init, IdlePub
    <3>2. ASSUME Init, NEW t \in Tasks
          PROVE  task[t].pc = "idle"
      BY <3>2, Zenon DEF Init, IdleTask
    <3>3. ASSUME Init
          PROVE  published = {} /\ DOMAIN outbox = {} /\ done = {}
      BY <3>3 DEF Init
    <3> QED
      BY <3>1, <3>2, <3>3, Zenon DEF PubInv, PublishedShipped, RowsInv, DoneInv, TaskInv
  <2> QED
    BY <2>1, <2>2, Zenon DEF IInv
<1>2. IInv /\ [Next]_vars => IInv'
  BY TypeStep, PubStep, RowsStep, DoneStep, TaskStep, Zenon DEF IInv
<1> QED
  BY <1>1, <1>2, PTL DEF Spec

\* A row is published only when its URL is in the frontier or its host has
\* all the URLs its quota allows, whatever fails between the SELECT and the
\* COMMIT.
THEOREM PublishedCorrect == Spec => []PublishedShipped
<1>1. IInv => PublishedShipped
  BY Zenon DEF IInv
<1> QED
  BY <1>1, Invariance, PTL

\* No link of a dispatched page is lost to anything but its host's quota,
\* unless direct dispatch failed.
THEOREM LinksCorrect == Spec => []LinkKept
<1>1. ASSUME IInv
      PROVE  LinkKept
  <2>1. ASSUME NEW u \in done, NEW v \in Links(u), ~Handled(v), dispatch = "outbox"
        PROVE  \E i \in DOMAIN outbox \ published : outbox[i] = <<u, v>>
    <3>1. HasRow(u, v)
      BY <1>1, <2>1, Zenon DEF IInv, DoneInv, Placed
    <3>2. PICK i \in DOMAIN outbox : outbox[i] = <<u, v>>
      BY <3>1, Zenon DEF HasRow
    <3>3. outbox[i][2] = v
      BY <3>2
    <3>4. i \notin published
      BY <1>1, <2>1, <3>3, Zenon DEF IInv, PublishedShipped
    <3> QED
      BY <3>2, <3>4, Zenon
  <2>2. ASSUME NEW u \in done, NEW v \in Links(u), ~Handled(v), dispatch # "outbox"
        PROVE  u \in failed
    BY <1>1, <2>2, Zenon DEF IInv, DoneInv, Placed
  <2> QED
    BY <2>1, <2>2, Zenon DEF LinkKept
<1>2. IInv => LinkKept
  BY <1>1, Zenon
<1> QED
  BY <1>2, Invariance, PTL
=============================================================================
