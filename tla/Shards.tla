------------------------------- MODULE Shards -------------------------------
(***************************************************************************)
(* The frontier split over shards and the shards over pods                 *)
(* (crates/crawlrs-bin/src/factory.rs, crates/crawlrs-frontier/src/        *)
(* frontier.rs): which shards a pod owns, how its claims go round them,    *)
(* and what happens to a page's links when some fall on another pod's      *)
(* shard, with either way of dispatching links, while the deployment is    *)
(* scaled and pods restart with the new replica count one at a time.       *)
(*                                                                         *)
(* Module Frontier has the queue of one shard in detail.  Here a shard is  *)
(* the set of its queued URLs, and a lease is only taken back once its     *)
(* holder has let go of it.                                                *)
(***************************************************************************)
EXTENDS Integers, FiniteSets, Sequences

CONSTANTS
  NumShards,    \* sharding.num_shards
  MaxPods,      \* the largest replica count of the deployment
  Explicit,     \* sharding.owned_shards, <<>> when it is unset
  Workers,      \* names of the worker tasks of a pod
  Environments, \* what the pods may find in their environment, see env
  Hosts, ShardOf,
  MaxUrls,      \* scope's max_urls of a host, -1 when it has none
  Urls, HostOf, Seeds,
  LinksOf,      \* LinksOf[u]: the URLs a page links to, in order, each once
  Dispatches,   \* the ways of link dispatch considered
  BatchSize,    \* rows of one publication
  CursorSize,   \* the claim cursor wraps at this value
  MaxFaults     \* bound: failed calls, killed pods and changes of scale

Shards == 0 .. NumShards - 1
Pods == 0 .. MaxPods - 1

ASSUME DeploymentAssumption ==
  /\ NumShards \in Nat \ {0} /\ MaxPods \in Nat \ {0}
  /\ Explicit \in Seq(Shards)
  /\ Environments \subseteq {"neither", "ordinal", "both"}

ASSUME UrlAssumption ==
  /\ ShardOf \in [Hosts -> Shards] /\ MaxUrls \in [Hosts -> {-1} \cup Nat]
  /\ IsFiniteSet(Urls) /\ HostOf \in [Urls -> Hosts] /\ Seeds \subseteq Urls
  /\ LinksOf \in [Urls -> Seq(Urls)]
  /\ Dispatches \subseteq {"direct", "outbox"}
  /\ BatchSize \in Nat \ {0} /\ CursorSize \in Nat \ {0}
  /\ MaxFaults \in Nat

VARIABLES
  dispatch,      \* the configured link dispatch
  env,           \* which of POD_NAME's ordinal and CRAWLRS_REPLICAS are set
  target,        \* replicas of the deployment
  conf,          \* conf[p]: the replica count p was started with, 0 if down
  cursor,        \* claim_cursor of a pod
  seen,          \* URLs the shards' Bloom filters hold
  queued,        \* URLs in the shards' queues
  leased,        \* URLs with a lease
  task,          \* what each worker is doing
  outbox,        \* the rows of frontier_outbox by id: the page and the link
  published,     \* ids with published_at set
  pub,           \* what each pod's publisher is doing
  faults,        \* how much of MaxFaults is used
  done,          \* observation: pages with links acknowledged after dispatching them
  failed         \* observation: pages whose direct dispatch failed

deployment == <<dispatch, env, target, conf>>
frontier == <<seen, queued, leased>>
ledger == <<outbox, published>>
observed == <<done, failed>>
vars == <<deployment, cursor, frontier, task, ledger, pub, faults, observed>>

Tasks == Pods \X Workers
NoUrl == "none"
IdleTask == [pc |-> "idle", start |-> 0, offset |-> 0, url |-> NoUrl, rest |-> {}]
IdlePub == [pc |-> "idle", rows |-> {}, rest |-> {}]

TypeOK ==
  /\ dispatch \in Dispatches /\ env \in Environments /\ target \in 1 .. MaxPods
  /\ conf \in [Pods -> 0 .. MaxPods] /\ cursor \in [Pods -> 0 .. CursorSize - 1]
  /\ seen \subseteq Urls /\ queued \subseteq seen /\ leased \subseteq seen \ queued
  /\ task \in [Tasks -> [pc : {"idle", "round", "page", "ship", "ack"},
                         start : Nat, offset : Nat, url : Urls \cup {NoUrl}, rest : SUBSET Urls]]
  /\ outbox \in Seq(Urls \X Urls) /\ published \subseteq DOMAIN outbox
  /\ pub \in [Pods -> [pc : {"idle", "resolve", "ship", "commit"},
                       rows : SUBSET DOMAIN outbox, rest : SUBSET Urls]]
  /\ faults \in 0 .. MaxFaults
  /\ done \subseteq Urls /\ failed \subseteq Urls

Fault == faults < MaxFaults /\ faults' = faults + 1

-----------------------------------------------------------------------------
(* Ownership                                                               *)

\* derive_owned_shards: the explicit list; all shards for a pod without an
\* ordinal; else every replicas-th shard from the ordinal on, with num_shards
\* for an unset replica count.  <<>> is the error that keeps the pod from
\* starting.
Stride(ordinal, replicas) ==
  LET n == IF replicas = 0 \/ ordinal >= NumShards THEN 0
           ELSE 1 + ((NumShards - 1 - ordinal) \div replicas)
  IN  [i \in 1 .. n |-> ordinal + (i - 1) * replicas]
ReplicasUnread(ordinal, replicas) ==
  IF Explicit # <<>> THEN Explicit
  ELSE IF env = "neither" THEN Stride(0, 1) ELSE Stride(ordinal, NumShards)
DeriveOwnedShards(ordinal, replicas) ==
  IF Explicit # <<>> THEN Explicit
  ELSE IF env = "neither" THEN Stride(0, 1)
  ELSE Stride(ordinal, IF env = "both" THEN replicas ELSE NumShards)

Owned(p) == IF conf[p] = 0 THEN <<>> ELSE DeriveOwnedShards(p, conf[p])
Owns(p, s) == \E i \in DOMAIN Owned(p) : Owned(p)[i] = s
Links(u) == {LinksOf[u][i] : i \in DOMAIN LinksOf[u]}
OwnsAll(p, urls) == \A u \in urls : Owns(p, ShardOf[HostOf[u]])

Init ==
  /\ dispatch \in Dispatches /\ env \in Environments /\ target \in 1 .. MaxPods
  /\ conf = [p \in Pods |-> 0] /\ cursor = [p \in Pods |-> 0]
  /\ seen = {} /\ queued = {} /\ leased = {}
  /\ task = [t \in Tasks |-> IdleTask] /\ pub = [p \in Pods |-> IdlePub]
  /\ outbox = <<>> /\ published = {}
  /\ faults = 0
  /\ done = {} /\ failed = {}

\* A pod of the deployment starts with the replica count it finds.
Start(p) ==
  /\ conf[p] = 0 /\ p < target /\ DeriveOwnedShards(p, target) # <<>>
  /\ conf' = [conf EXCEPT ![p] = target]
  /\ UNCHANGED <<dispatch, env, target, cursor, frontier, task, ledger, pub, faults, observed>>

\* The process ends, and its memory with it: the next one starts with cursor 0.
\* Its workers' leases stay, its publisher's transaction rolls back.
Ends(p) ==
  /\ conf' = [conf EXCEPT ![p] = 0] /\ cursor' = [cursor EXCEPT ![p] = 0]
  /\ task' = [t \in Tasks |-> IF t[1] = p THEN IdleTask ELSE task[t]]
  /\ pub' = [pub EXCEPT ![p] = IdlePub]
  /\ UNCHANGED <<dispatch, env, target, frontier, ledger, observed>>

\* A rolling update stops a pod of the former replica count.
Roll(p) == conf[p] \notin {0, target} /\ Ends(p) /\ UNCHANGED faults
Kill(p) == conf[p] # 0 /\ Fault /\ Ends(p)

Scale ==
  /\ Fault /\ target' \in 1 .. MaxPods \ {target}
  /\ UNCHANGED <<dispatch, env, conf, cursor, frontier, task, ledger, pub, observed>>

-----------------------------------------------------------------------------
(* submit_batch and claim                                                  *)

\* A host has all the URLs its scope allows.  The script counts a URL when
\* the Bloom filter takes it, so host_count is the number of those in seen.
Full(urls, h) ==
  MaxUrls[h] >= 0 /\ Cardinality({u \in urls : HostOf[u] = h}) >= MaxUrls[h]

\* The script of one shard: a URL of a full host is rejected, and enters
\* neither filter nor queue; of the others, what the filter has not seen is
\* queued.  The items of a call come in any order.
Submit(urls) ==
  \E new \in SUBSET (urls \ seen) :
    /\ \A u \in new : ~Full((seen \cup new) \ {u}, HostOf[u])
    /\ \A u \in urls \ (seen \cup new) : Full(seen \cup new, HostOf[u])
    /\ seen' = seen \cup new /\ queued' = queued \cup new
    /\ UNCHANGED leased

\* The next shard of a batch whose shards were all resolved.
Group(s, urls) == {u \in urls : ShardOf[HostOf[u]] = s}

\* crawlrs seed, whose frontier owns every shard.
Seed(u) ==
  /\ u \in Seeds \ seen /\ Submit({u})
  /\ UNCHANGED <<deployment, cursor, task, ledger, pub, faults, observed>>

\* claim: the cursor picks the shard the round starts at.
CursorStays(t) ==
  /\ conf[t[1]] # 0 /\ task[t].pc = "idle"
  /\ task' = [task EXCEPT ![t].pc = "round", ![t].offset = 0,
                          ![t].start = cursor[t[1]] % Len(Owned(t[1]))]
  /\ UNCHANGED <<deployment, cursor, frontier, ledger, pub, faults, observed>>
Claim(t) ==
  /\ conf[t[1]] # 0 /\ task[t].pc = "idle"
  /\ task' = [task EXCEPT ![t].pc = "round", ![t].offset = 0,
                          ![t].start = cursor[t[1]] % Len(Owned(t[1]))]
  /\ cursor' = [cursor EXCEPT ![t[1]] = (@ + 1) % CursorSize]
  /\ UNCHANGED <<deployment, frontier, ledger, pub, faults, observed>>

\* The shard a round is at.
Here(t) ==
  LET n == Len(Owned(t[1]))
  IN  Owned(t[1])[1 + ((task[t].start + task[t].offset) % n)]

ClaimUrl(t, u) ==
  /\ task[t].pc = "round" /\ u \in Group(Here(t), queued)
  /\ queued' = queued \ {u} /\ leased' = leased \cup {u}
  /\ task' = [task EXCEPT ![t] = [IdleTask EXCEPT !.pc = "page", !.url = u]]
  /\ UNCHANGED <<deployment, cursor, seen, ledger, pub, faults, observed>>

\* Nothing here: on to the next shard, or Empty after a whole round.
ClaimEmpty(t) ==
  /\ task[t].pc = "round" /\ Group(Here(t), queued) = {}
  /\ task' = IF task[t].offset + 1 = Len(Owned(t[1]))
             THEN [task EXCEPT ![t] = IdleTask]
             ELSE [task EXCEPT ![t].offset = @ + 1]
  /\ UNCHANGED <<deployment, cursor, frontier, ledger, pub, faults, observed>>

\* An error of one shard ends the round.
ClaimFails(t) ==
  /\ task[t].pc = "round" /\ Fault
  /\ task' = [task EXCEPT ![t] = IdleTask]
  /\ UNCHANGED <<deployment, cursor, frontier, ledger, pub, observed>>

\* The page fails and its lease is left to lapse, or it is acknowledged with
\* nothing recorded of its links (skipped, dead-lettered, not stored).
Abandon(t) ==
  /\ task[t].pc = "page"
  /\ leased' \in {leased, leased \ {task[t].url}}
  /\ task' = [task EXCEPT ![t] = IdleTask]
  /\ UNCHANGED <<deployment, cursor, seen, queued, ledger, pub, faults, observed>>

\* tick of a pod that owns the shard: reclaim.
Reclaim(u) ==
  /\ u \in leased /\ \A t \in Tasks : task[t].url # u
  /\ \E p \in Pods : Owns(p, ShardOf[HostOf[u]])
  /\ leased' = leased \ {u} /\ queued' = queued \cup {u}
  /\ UNCHANGED <<deployment, cursor, seen, task, ledger, pub, faults, observed>>

-----------------------------------------------------------------------------
(* The links of a page                                                     *)

\* insert_outbox_row, ON CONFLICT DO NOTHING: an attempt is named after its
\* page, so all the rows of a page that is delivered again conflict.
NewRows(u) ==
  IF \E i \in DOMAIN outbox : outbox[i][1] = u THEN <<>>
  ELSE [i \in DOMAIN LinksOf[u] |-> <<u, LinksOf[u][i]>>]

\* mark_succeeded commits the links to the outbox with the page.
MarkSucceeded(t) ==
  /\ task[t].pc = "page" /\ dispatch = "outbox"
  /\ outbox' = outbox \o NewRows(task[t].url)
  /\ task' = [task EXCEPT ![t].pc = "ack"]
  /\ UNCHANGED <<deployment, cursor, frontier, published, pub, faults, observed>>

\* LinkDispatch::Direct: submit_batch resolves the shard of every link first
\* and fails on one the pod does not own; the worker logs the failure and
\* goes on to acknowledge the page.
DispatchDirect(t) ==
  LET u == task[t].url
  IN  /\ task[t].pc = "page" /\ dispatch = "direct"
      /\ IF Links(u) # {} /\ OwnsAll(t[1], Links(u))
           THEN /\ task' = [task EXCEPT ![t].pc = "ship", ![t].rest = Links(u)]
                /\ UNCHANGED failed
           ELSE /\ task' = [task EXCEPT ![t].pc = "ack"]
                /\ failed' = IF Links(u) = {} THEN failed ELSE failed \cup {u}
      /\ UNCHANGED <<deployment, cursor, frontier, ledger, pub, faults, done>>

\* One script call per shard, in the order of a hash map.
Ship(t) ==
  /\ task[t].pc = "ship"
  /\ \E s \in Shards :
       LET group == Group(s, task[t].rest)
       IN  /\ group # {} /\ Submit(group)
           /\ task' = [task EXCEPT ![t].rest = @ \ group,
                                   ![t].pc = IF task[t].rest = group THEN "ack" ELSE "ship"]
  /\ UNCHANGED <<deployment, cursor, ledger, pub, faults, observed>>

\* A shard's call fails: the shards after it get nothing.
ShipFails(t) ==
  /\ task[t].pc = "ship" /\ Fault
  /\ task' = [task EXCEPT ![t].pc = "ack", ![t].rest = {}]
  /\ failed' = failed \cup {task[t].url}
  /\ UNCHANGED <<deployment, cursor, frontier, ledger, pub, done>>

Ack(t) ==
  /\ task[t].pc = "ack"
  /\ leased' = leased \ {task[t].url}
  /\ done' = done \cup {u \in {task[t].url} : Links(u) # {}}
  /\ task' = [task EXCEPT ![t] = IdleTask]
  /\ UNCHANGED <<deployment, cursor, seen, queued, ledger, pub, faults, failed>>

-----------------------------------------------------------------------------
(* The outbox publisher of a pod                                           *)

Locked == UNION {pub[p].rows : p \in Pods}
Available == (DOMAIN outbox \ published) \ Locked

\* SELECT .. ORDER BY id LIMIT .. FOR UPDATE SKIP LOCKED: rows of every pod.
SelectRows(p) ==
  /\ conf[p] # 0 /\ pub[p].pc = "idle" /\ dispatch = "outbox" /\ Available # {}
  /\ LET first == {i \in Available : Cardinality({j \in Available : j < i}) < BatchSize}
     IN  pub' = [pub EXCEPT ![p] = [pc |-> "resolve", rows |-> first,
                                    rest |-> {outbox[i][2] : i \in first}]]
  /\ UNCHANGED <<deployment, cursor, frontier, task, ledger, faults, observed>>

\* submit_batch resolves every shard; an unowned one fails the batch and the
\* transaction rolls back.
Resolve(p) ==
  /\ pub[p].pc = "resolve"
  /\ pub' = IF OwnsAll(p, pub[p].rest) THEN [pub EXCEPT ![p].pc = "ship"]
            ELSE [pub EXCEPT ![p] = IdlePub]
  /\ UNCHANGED <<deployment, cursor, frontier, task, ledger, faults, observed>>

ShipRows(p) ==
  /\ pub[p].pc = "ship"
  /\ \E s \in Shards :
       LET group == Group(s, pub[p].rest)
       IN  /\ group # {} /\ Submit(group)
           /\ pub' = [pub EXCEPT ![p].rest = @ \ group,
                                 ![p].pc = IF pub[p].rest = group THEN "commit" ELSE "ship"]
  /\ UNCHANGED <<deployment, cursor, task, ledger, faults, observed>>

CommitEarly(p) ==
  /\ pub[p].pc \in {"ship", "commit"}
  /\ published' = published \cup pub[p].rows
  /\ pub' = [pub EXCEPT ![p] = IdlePub]
  /\ UNCHANGED <<deployment, cursor, frontier, task, outbox, faults, observed>>
CommitRows(p) ==
  /\ pub[p].pc = "commit"
  /\ published' = published \cup pub[p].rows
  /\ pub' = [pub EXCEPT ![p] = IdlePub]
  /\ UNCHANGED <<deployment, cursor, frontier, task, outbox, faults, observed>>

ErrorIgnored(p) ==
  /\ pub[p].pc # "idle" /\ Fault
  /\ published' = published \cup pub[p].rows
  /\ pub' = [pub EXCEPT ![p] = IdlePub]
  /\ UNCHANGED <<deployment, cursor, frontier, task, outbox, observed>>
PublishFails(p) ==
  /\ pub[p].pc # "idle" /\ Fault
  /\ pub' = [pub EXCEPT ![p] = IdlePub]
  /\ UNCHANGED <<deployment, cursor, frontier, task, ledger, observed>>

-----------------------------------------------------------------------------
\* The loop of a worker, of a publisher, of the promoter ticks and of the
\* controller of the deployment.
Work(t) ==
  \/ Claim(t) \/ ClaimEmpty(t) \/ \E u \in Urls : ClaimUrl(t, u)
  \/ Abandon(t) \/ MarkSucceeded(t) \/ DispatchDirect(t) \/ Ship(t) \/ Ack(t)
Publish(p) == SelectRows(p) \/ Resolve(p) \/ ShipRows(p) \/ CommitRows(p)
Tick == \E u \in Urls : Reclaim(u)
Deploy == \E p \in Pods : Start(p) \/ Roll(p)

Next ==
  \/ \E t \in Tasks : Work(t) \/ ClaimFails(t) \/ ShipFails(t)
  \/ \E p \in Pods : Publish(p) \/ PublishFails(p) \/ Kill(p)
  \/ \E u \in Urls : Seed(u)
  \/ Tick \/ Deploy \/ Scale

Spec == Init /\ [][Next]_vars

\* All four are loops of running tasks, and the controller restarts pods
\* until all are up to date.
Fairness ==
  /\ \A t \in Tasks : WF_vars(Work(t))
  /\ \A p \in Pods : WF_vars(Publish(p))
  /\ WF_vars(Tick) /\ WF_vars(Deploy)

FairSpec == Spec /\ Fairness

-----------------------------------------------------------------------------
(* Properties                                                              *)

\* Once every pod of the deployment runs with its replica count, each shard
\* has exactly one owner.  Pods that find no replica count need one replica
\* per shard for that, pods that find no ordinal have to be alone.
Settled ==
  \A p \in Pods :
    conf[p] = IF p < target /\ DeriveOwnedShards(p, target) # <<>> THEN target ELSE 0
Countable ==
  \/ env = "both"
  \/ env = "ordinal" /\ target >= NumShards
  \/ env = "neither" /\ target = 1
OwnersPartition ==
  Settled /\ Countable /\ Explicit = <<>> =>
    \A s \in Shards : \E p \in Pods : \A q \in Pods : Owns(q, s) <=> q = p

\* A URL is in the frontier, or was refused because its host is full.
Handled(u) == u \in seen \/ Full(seen, HostOf[u])

\* A link of a page that was dispatched is in the frontier or in a row that
\* waits, or its host is full, through restarts, scaling and batches that
\* fail half way.  Only direct dispatch gives other links up, and then a call
\* failed or the pod did not own the shard of one of them.
LinkKept ==
  \A u \in done : \A v \in Links(u) :
    \/ Handled(v)
    \/ IF dispatch = "outbox"
         THEN \E i \in DOMAIN outbox \ published : outbox[i] = <<u, v>>
         ELSE u \in failed

\* A row is marked published only when its URL is in the frontier or refused
\* by its host's quota.
PublishedShipped == \A i \in published : Handled(outbox[i][2])

\* A shard that keeps an owner and has URLs is claimed from again and again,
\* however many URLs the pod's other shards have: every claim starts its
\* round one shard further.
ClaimFrom(s) ==
  \E t \in Tasks :
    task[t].pc = "round" /\ task'[t].pc = "page" /\ ShardOf[HostOf[task'[t].url]] = s
ShardsServed ==
  \A s \in Shards :
    <>[](\E p \in Pods : Owns(p, s)) =>
      []<>(Group(s, queued) = {}) \/ []<><<ClaimFrom(s)>>_vars

\* The outbox drains: the URL of a row gets into the frontier, or is refused.
LinksArrive == \A u \in Urls : (\E i \in DOMAIN outbox : outbox[i][2] = u) ~> Handled(u)
=============================================================================
