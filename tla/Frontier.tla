------------------------------ MODULE Frontier ------------------------------
(***************************************************************************)
(* One shard of the Redis-backed frontier (crates/crawlrs-frontier): the   *)
(* seven keys a shard owns, the six Lua scripts and the two-command ack    *)
(* that change them, the promoter tick, and the workers that claim, plan   *)
(* the host's next wake-time and acknowledge.                              *)
(*                                                                         *)
(* Redis runs a script to completion.  A script that loops is modelled one *)
(* iteration per step; `batch', `due', `expired' and a worker that is      *)
(* "claiming" hold what the running script has left, and RedisFree guards  *)
(* every other command until the script is done.                           *)
(*                                                                         *)
(* Scores of the ZSETs `wake' and `inflight' are kept relative to the      *)
(* clock: a score is the time left, 0 is "score <= now", and Elapse counts *)
(* every score down.                                                       *)
(***************************************************************************)
EXTENDS Integers, FiniteSets, RedisLists

CONSTANTS
  Urls,          \* URL identities of this shard
  Hosts,         \* hosts the sharding policy maps to this shard
  Workers,       \* worker tasks claiming from this shard
  NoUrl,         \* a worker that holds nothing
  HostOf,        \* HostOf[u]: the host of URL u
  MaxUrls,       \* MaxUrls[h]: the per-host quota of a run, -1 for none
  LeaseTimeout,  \* lease_timeout, in units of Elapse
  MaxDelay,      \* bound: the longest wake plan politeness produces
  BatchLimit,    \* tick_batch_limit
  MaxBatch,      \* bound: URLs in one submit_batch call
  MaxReady,      \* bound: entries of `ready' after a promote
  MaxFaults      \* bound: crashed or abandoned attempts and failed scripts

ASSUME NoUrlAssumption == NoUrl \notin Urls
ASSUME HostOfAssumption == HostOf \in [Urls -> Hosts]
ASSUME MaxUrlsAssumption == MaxUrls \in [Hosts -> Int]
ASSUME TimeAssumption == LeaseTimeout \in Nat \ {0} /\ MaxDelay \in Nat
ASSUME BoundAssumption ==
  /\ IsFiniteSet(Urls) /\ IsFiniteSet(Hosts)
  /\ BatchLimit \in Nat \ {0} /\ MaxBatch \in Nat
  /\ MaxReady \in Nat /\ MaxFaults \in Nat

VARIABLES
  seen,          \* Bloom filter: URLs BF.ADD reports as present
  urls,          \* HASH url_id -> payload: the ids that have one
  host_queue,    \* per-host LIST of URL ids
  host_count,    \* per-host counter of the quota
  wake,          \* ZSET of hosts by wake-time
  ready,         \* LIST of hosts a claim may pop
  inflight,      \* ZSET of leased URLs by expiry
  batch,         \* submit_batch.lua: entries not yet processed
  due,           \* promote.lua: hosts not yet moved
  expired,       \* reclaim.lua: leases not yet reclaimed
  tick,          \* the script tick_once runs next
  pc, job,       \* what each worker is doing, and its URL
  faults,        \* how much of MaxFaults is used
  admitted,      \* observation: URLs ever enqueued
  counted,       \* observation: those enqueued by submit_batch
  acked,         \* observation: URLs some worker acknowledged
  floor          \* observation: time left of the last wake plan per host

redis == <<seen, urls, host_queue, host_count, wake, ready, inflight>>
script == <<batch, due, expired>>
workers == <<pc, job>>
seenVars == <<admitted, counted>>
vars == <<redis, script, tick, workers, faults, seenVars, acked, floor>>

NoScore == -1
Score == {NoScore} \cup Nat

TypeOK ==
  /\ seen \subseteq Urls /\ urls \subseteq Urls
  /\ host_queue \in [Hosts -> Seq(Urls)]
  /\ host_count \in [Hosts -> Nat]
  /\ wake \in [Hosts -> Score] /\ inflight \in [Urls -> Score]
  /\ ready \in Seq(Hosts)
  /\ batch \in Seq(Urls) /\ due \subseteq Hosts /\ expired \subseteq Urls
  /\ tick \in {"promote", "reclaim"}
  /\ pc \in [Workers -> {"idle", "claiming", "claimed", "planned", "acking"}]
  /\ job \in [Workers -> Urls \cup {NoUrl}]
  /\ faults \in 0 .. MaxFaults
  /\ admitted \subseteq Urls /\ counted \subseteq Urls /\ acked \subseteq Urls
  /\ floor \in [Hosts -> Nat]

Init ==
  /\ seen = {} /\ urls = {}
  /\ host_queue = [h \in Hosts |-> << >>]
  /\ host_count = [h \in Hosts |-> 0]
  /\ wake = [h \in Hosts |-> NoScore] /\ inflight = [u \in Urls |-> NoScore]
  /\ ready = << >>
  /\ batch = << >> /\ due = {} /\ expired = {}
  /\ tick = "promote"
  /\ pc = [w \in Workers |-> "idle"] /\ job = [w \in Workers |-> NoUrl]
  /\ faults = 0
  /\ admitted = {} /\ counted = {} /\ acked = {}
  /\ floor = [h \in Hosts |-> 0]

RedisFree ==
  /\ batch = << >> /\ due = {} /\ expired = {}
  /\ \A w \in Workers : pc[w] # "claiming"

-----------------------------------------------------------------------------
(* Redis commands the scripts are made of.                                 *)

\* ZADD wake NX now h
ZaddXX(h) == [wake EXCEPT ![h] = IF @ = NoScore THEN @ ELSE 0]
ZaddAlways(h) == [wake EXCEPT ![h] = 0]
ZaddNX(h) == [wake EXCEPT ![h] = IF @ = NoScore THEN 0 ELSE @]

\* ZADD inflight (now + lease_timeout) u
StampNothing(u) == inflight
Stamp(u) == [inflight EXCEPT ![u] = LeaseTimeout]

\* ZREM inflight u
ReleaseNothing(u) == inflight
Release(u) == [inflight EXCEPT ![u] = NoScore]

\* BF.ADD = 1 is only possible for a URL whose bits are not all set.
AlwaysFresh(u) == TRUE
Fresh(u) == u \notin seen

\* BF.ADD = 0: the URL was added before, or its bits are all set (a false
\* positive, which stays one: bits are never cleared).
BloomHit(u) ==
  /\ seen' = seen \cup {u}
  /\ UNCHANGED <<urls, host_queue, host_count, wake, seenVars>>

\* BF.ADD = 1, then HSET, RPUSH and ZADD NX.
Enqueue(u) ==
  /\ Fresh(u)
  /\ seen' = seen \cup {u}
  /\ urls' = urls \cup {u}
  /\ host_queue' = [host_queue EXCEPT ![HostOf[u]] = Append(@, u)]
  /\ wake' = ZaddNX(HostOf[u])
  /\ admitted' = admitted \cup {u}

-----------------------------------------------------------------------------
(* submit.lua and submit_batch.lua                                         *)

Submit(u) ==
  /\ RedisFree
  /\ \/ Enqueue(u) /\ UNCHANGED <<host_count, counted>>
     \/ BloomHit(u)
  /\ UNCHANGED <<ready, inflight, script, tick, workers, faults, acked, floor>>

SubmitBatch(b) ==
  /\ RedisFree
  /\ batch' = b
  /\ UNCHANGED <<redis, due, expired, tick, workers, faults, seenVars, acked, floor>>

OverQuota(h) == MaxUrls[h] >= 0 /\ host_count[h] > MaxUrls[h]
AtQuota(h) == MaxUrls[h] >= 0 /\ host_count[h] >= MaxUrls[h]

\* INCR is for the hosts with a quota alone.
CountDown(u) ==
  /\ Enqueue(u)
  /\ host_count' = IF MaxUrls[HostOf[u]] >= 0
                     THEN [host_count EXCEPT ![HostOf[u]] = @ - 1]
                     ELSE host_count
  /\ counted' = counted \cup {u}
BatchEnqueue(u) ==
  /\ Enqueue(u)
  /\ host_count' = IF MaxUrls[HostOf[u]] >= 0
                     THEN [host_count EXCEPT ![HostOf[u]] = @ + 1]
                     ELSE host_count
  /\ counted' = counted \cup {u}

BatchStep ==
  /\ batch # << >>
  /\ LET u == Head(batch) IN
       \/ AtQuota(HostOf[u])
          /\ UNCHANGED <<seen, urls, host_queue, host_count, wake, seenVars>>
       \/ ~AtQuota(HostOf[u]) /\ BatchEnqueue(u)
       \/ ~AtQuota(HostOf[u]) /\ BloomHit(u)
  /\ batch' = Tail(batch)
  /\ UNCHANGED <<ready, inflight, due, expired, tick, workers, faults, acked, floor>>

-----------------------------------------------------------------------------
(* claim.lua                                                               *)

Claim(w) ==
  /\ RedisFree
  /\ pc[w] = "idle"
  /\ pc' = [pc EXCEPT ![w] = "claiming"]
  /\ UNCHANGED <<redis, script, tick, job, faults, seenVars, acked, floor>>

\* `ready' is empty: EmptyHint or Empty.
ClaimEmpty(w) ==
  /\ pc[w] = "claiming"
  /\ ready = << >>
  /\ pc' = [pc EXCEPT ![w] = "idle"]
  /\ UNCHANGED <<redis, script, tick, job, faults, seenVars, acked, floor>>

\* The popped host has nothing queued: the loop pops the next one.
ClaimStale(w) ==
  /\ pc[w] = "claiming"
  /\ ready # << >>
  /\ host_queue[Head(ready)] = << >>
  /\ ready' = Tail(ready)
  /\ UNCHANGED <<seen, urls, host_queue, host_count, wake, inflight, script,
                 tick, workers, faults, seenVars, acked, floor>>

\* The lease and the safety wake-time are stamped before the payload is
\* read; without a payload the caller gets an error and holds nothing.
ClaimUrl(w) ==
  /\ pc[w] = "claiming"
  /\ ready # << >>
  /\ LET h == Head(ready)
         u == Head(host_queue[h])
     IN  /\ host_queue[h] # << >>
         /\ host_queue' = [host_queue EXCEPT ![h] = Tail(@)]
         /\ wake' = [wake EXCEPT ![h] = LeaseTimeout]
         /\ inflight' = Stamp(u)
         /\ \/ /\ u \in urls
               /\ pc' = [pc EXCEPT ![w] = "claimed"]
               /\ job' = [job EXCEPT ![w] = u]
            \/ /\ u \notin urls
               /\ pc' = [pc EXCEPT ![w] = "idle"]
               /\ UNCHANGED job
  /\ ready' = Tail(ready)
  /\ UNCHANGED <<seen, urls, host_count, script, tick, faults, seenVars, acked, floor>>

-----------------------------------------------------------------------------
(* What a worker does with its claim: plan the host's next wake-time       *)
(* (advance_wake.lua), acknowledge (ZREM, then HDEL), or give up.          *)

\* d = 0: the plan lapsed while it was on its way.
AdvanceWake(w, d) ==
  /\ RedisFree
  /\ pc[w] = "claimed"
  /\ LET h == HostOf[job[w]] IN
       /\ wake' = [wake EXCEPT ![h] = d]
       /\ ready' = LRem(ready, h)
       /\ floor' = [floor EXCEPT ![h] = d]
  /\ pc' = [pc EXCEPT ![w] = "planned"]
  /\ UNCHANGED <<seen, urls, host_queue, host_count, inflight, script, tick,
                 job, faults, seenVars, acked>>

AckLease(w) ==
  /\ RedisFree
  /\ pc[w] \in {"claimed", "planned"}
  /\ inflight' = Release(job[w])
  /\ acked' = acked \cup {job[w]}
  /\ pc' = [pc EXCEPT ![w] = "acking"]
  /\ UNCHANGED <<seen, urls, host_queue, host_count, wake, ready, script, tick,
                 job, faults, seenVars, floor>>

AckPayload(w) ==
  /\ RedisFree
  /\ pc[w] = "acking"
  /\ urls' = urls \ {job[w]}
  /\ pc' = [pc EXCEPT ![w] = "idle"]
  /\ job' = [job EXCEPT ![w] = NoUrl]
  /\ UNCHANGED <<seen, host_queue, host_count, wake, ready, inflight, script,
                 tick, faults, seenVars, acked, floor>>

\* The worker crashes, or leaves the URL to the lease reclaim.
Abandon(w) ==
  /\ pc[w] \in {"claimed", "planned", "acking"}
  /\ faults < MaxFaults
  /\ faults' = faults + 1
  /\ pc' = [pc EXCEPT ![w] = "idle"]
  /\ job' = [job EXCEPT ![w] = NoUrl]
  /\ UNCHANGED <<redis, script, tick, seenVars, acked, floor>>

-----------------------------------------------------------------------------
(* tick_once: promote.lua, then reclaim.lua; an error of either is logged  *)
(* and the pass goes on.                                                   *)

\* ZRANGEBYSCORE .. LIMIT 0 BatchLimit
FirstOf(S) ==
  {T \in SUBSET S :
     \/ T = S /\ Cardinality(S) <= BatchLimit
     \/ Cardinality(T) = BatchLimit}

TickPromote ==
  /\ RedisFree
  /\ tick = "promote"
  /\ \E D \in FirstOf({h \in Hosts : wake[h] = 0}) :
       /\ Len(ready) + Cardinality(D) <= MaxReady
       /\ due' = D
  /\ tick' = "reclaim"
  /\ UNCHANGED <<redis, batch, expired, workers, faults, seenVars, acked, floor>>

PromoteStep ==
  \E h \in due :
    /\ due' = due \ {h}
    /\ wake' = [wake EXCEPT ![h] = NoScore]
    /\ ready' = Append(ready, h)
    /\ UNCHANGED <<seen, urls, host_queue, host_count, inflight, batch, expired,
                   tick, workers, faults, seenVars, acked, floor>>

TickReclaim ==
  /\ RedisFree
  /\ tick = "reclaim"
  /\ \E E \in FirstOf({u \in Urls : inflight[u] = 0}) : expired' = E
  /\ tick' = "promote"
  /\ UNCHANGED <<redis, batch, due, workers, faults, seenVars, acked, floor>>

ReclaimStep ==
  \E u \in expired :
    /\ expired' = expired \ {u}
    /\ inflight' = Release(u)
    /\ host_queue' = [host_queue EXCEPT ![HostOf[u]] = Append(@, u)]
    /\ wake' = ZaddNX(HostOf[u])
    /\ UNCHANGED <<seen, urls, host_count, ready, batch, due, tick, workers,
                   faults, seenVars, acked, floor>>

TickFails ==
  /\ RedisFree
  /\ faults < MaxFaults
  /\ faults' = faults + 1
  /\ tick' = IF tick = "promote" THEN "reclaim" ELSE "promote"
  /\ UNCHANGED <<redis, script, workers, seenVars, acked, floor>>

\* One unit of time passes.
Sooner(score) == IF score > 0 THEN score - 1 ELSE score

Elapse ==
  /\ RedisFree
  /\ wake' = [h \in Hosts |-> Sooner(wake[h])]
  /\ inflight' = [u \in Urls |-> Sooner(inflight[u])]
  /\ floor' = [h \in Hosts |-> Sooner(floor[h])]
  /\ UNCHANGED <<seen, urls, host_queue, host_count, ready, script, tick,
                 workers, faults, seenVars, acked>>

Batches == UNION {[1 .. n -> Urls] : n \in 1 .. MaxBatch}

Next ==
  \/ \E u \in Urls : Submit(u)
  \/ \E b \in Batches : SubmitBatch(b)
  \/ BatchStep
  \/ \E w \in Workers :
       \/ Claim(w) \/ ClaimEmpty(w) \/ ClaimStale(w) \/ ClaimUrl(w)
       \/ \E d \in 0 .. MaxDelay : AdvanceWake(w, d)
       \/ AckLease(w) \/ AckPayload(w) \/ Abandon(w)
  \/ TickPromote \/ PromoteStep \/ TickReclaim \/ ReclaimStep \/ TickFails
  \/ Elapse

Spec == Init /\ [][Next]_vars

\* A running script ends; Redis serves every waiting connection in turn, so a
\* command that is waiting is not passed over for ever.  A worker that is
\* not struck by a fault goes on to acknowledge.
Fairness ==
  /\ WF_vars(BatchStep) /\ WF_vars(PromoteStep) /\ WF_vars(ReclaimStep)
  /\ SF_vars(TickPromote) /\ SF_vars(TickReclaim) /\ SF_vars(Elapse)
  /\ \A w \in Workers :
       /\ WF_vars(ClaimEmpty(w) \/ ClaimStale(w) \/ ClaimUrl(w))
       /\ SF_vars(Claim(w))
       /\ SF_vars(AckLease(w) \/ AckPayload(w))

FairSpec == Spec /\ Fairness

-----------------------------------------------------------------------------
(* Safety                                                                  *)

Queued(u) == Contains(host_queue[HostOf[u]], u)
Leased(u) == inflight[u] # NoScore

\* A host with queued URLs is scheduled: it has a wake-time or it is in
\* `ready'.  No order of submit, claim, advance_wake, promote and reclaim
\* leaves queued work that no later tick and claim can reach.
NoStrandedHost ==
  \A h \in Hosts :
    host_queue[h] # << >> => wake[h] # NoScore \/ Contains(ready, h)

\* A URL is in one place: in its own host's queue at most once, and not there
\* while it is leased, whatever submits, redeliveries and late acks do.
SingleCopy ==
  \A h \in Hosts :
    /\ IsInjective(host_queue[h])
    /\ \A u \in Urls :
         Contains(host_queue[h], u) => HostOf[u] = h /\ ~Leased(u)

\* An admitted URL that no worker acknowledged is queued or leased, with its
\* payload: crashes, lapsed leases and failed ticks lose nothing.
NothingLost ==
  \A u \in admitted \ acked : (Queued(u) \/ Leased(u)) /\ u \in urls

\* Until the last plan advance_wake wrote for a host has elapsed, the host is
\* out of `ready' and no wake-time earlier than the plan is set: submit,
\* reclaim and claim of other URLs of the host do not undercut politeness.
WakePlanHeld ==
  \A h \in Hosts : floor[h] > 0 => wake[h] >= floor[h] /\ ~Contains(ready, h)

\* submit_batch admits at most max_urls URLs of a host, duplicates within a
\* batch, Bloom false positives and repeated batches included.
QuotaHeld ==
  \A h \in Hosts :
    MaxUrls[h] >= 0 => Cardinality({u \in counted : HostOf[u] = h}) <= MaxUrls[h]

\* A URL that was acknowledged and is neither queued nor leased never comes
\* back: the Bloom filter suppresses every later submit of it.
Settled(u) == u \in acked /\ ~Queued(u) /\ ~Leased(u)
SettledStaysOut == [][\A u \in Urls : Settled(u) => Settled(u)']_vars

(* Liveness                                                                *)

\* Every admitted URL is eventually acknowledged: ticks bring its host back
\* to `ready', lapsed leases are redelivered, and claims reach it.
EventuallyAcked == \A u \in Urls : u \in admitted ~> u \in acked
=============================================================================
