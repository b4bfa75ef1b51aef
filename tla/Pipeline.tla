------------------------------ MODULE Pipeline ------------------------------
(***************************************************************************)
(* The URL pipeline (crates/crawlrs-runtime/src/worker.rs) between the     *)
(* frontier, the Postgres ledger (crates/crawlrs-metadata) and the outbox  *)
(* publishers (crates/crawlrs-runtime/src/outbox.rs).  The frontier is     *)
(* UrlDelivery.  Every awaited call on a backend is one step, so workers,  *)
(* publishers and lapsing leases interleave between them; a Postgres       *)
(* transaction is one step because nobody sees it half done.               *)
(*                                                                         *)
(* Any call on a backend may fail, and any worker may die at any point, as *)
(* long as `faults' stays within MaxFaults.                                *)
(***************************************************************************)
EXTENDS UrlDelivery, Naturals, FiniteSets

CONSTANTS
  Workers,       \* worker tasks
  Publishers,    \* outbox publisher tasks, one per pod
  NoUrl,         \* a worker that holds nothing
  Seeds,         \* URLs `crawlrs seed' submits
  Links,         \* Links[u]: outbound links of u within the depth cap
  TooDeep,       \* TooDeep[u]: outbound links of u beyond it
  Blocked,       \* URLs of blocklisted hosts
  Capped,        \* URLs of hosts with a quota: submit_batch may reject them
  Collisions,    \* URLs the Bloom filter may wrongly know
  DurableOutbox, \* link_dispatch is DurableOutbox (otherwise Direct)
  MaxRetries,    \* max_retries
  BatchSize,     \* rows a publisher leases at a time
  MaxFaults      \* bound: failed calls and crashes

ASSUME NoJobAssumption == NoUrl \notin Urls
ASSUME LinkAssumption ==
  Links \in [Urls -> SUBSET Urls] /\ TooDeep \in [Urls -> SUBSET Urls]
ASSUME PipelineAssumption ==
  /\ IsFiniteSet(Workers) /\ Seeds \subseteq Urls /\ DurableOutbox \in BOOLEAN
  /\ MaxRetries \in Nat /\ BatchSize \in Nat \ {0} /\ MaxFaults \in Nat

VARIABLES
  status, retry, \* url_metadata: status ("none": no row) and retry_count
  succeeded,     \* url_history: URLs with a `succeeded' event
  outbox,        \* frontier_outbox: rows <<parent, child>>
  published,     \* rows with published_at set
  pc, job,       \* the phase each worker is in, and its URL
  phase, locked, \* each publisher's phase and the rows its SELECT locked
  faults,        \* how much of MaxFaults is used
  excused        \* observation: URLs whose ledger write failed or was skipped

ledger == <<status, retry, succeeded, outbox, published>>
workers == <<pc, job>>
publishers == <<phase, locked>>
vars == <<delivery, ledger, workers, publishers, faults, excused>>

Statuses == {"none", "in_progress", "succeeded", "failed_transient",
             "permanently_failed", "skipped"}
Phases == {"idle", "check", "attempt", "fetch", "failing", "dlq", "store",
           "commit", "children", "dispatch", "ack", "forget"}
Rows == Urls \X Urls

TypeOK ==
  /\ known \subseteq Urls /\ accepted \subseteq Urls /\ queued \subseteq Urls
  /\ leased \subseteq Urls /\ payload \subseteq Urls /\ acked \subseteq Urls
  /\ status \in [Urls -> Statuses] /\ retry \in [Urls -> Nat]
  /\ succeeded \subseteq Urls /\ outbox \subseteq Rows /\ published \subseteq Rows
  /\ pc \in [Workers -> Phases] /\ job \in [Workers -> Urls \cup {NoUrl}]
  /\ \A w \in Workers : pc[w] # "idle" => job[w] \in Urls
  /\ phase \in [Publishers -> {"idle", "locked", "shipped"}]
  /\ locked \in [Publishers -> SUBSET Rows]
  /\ faults \in 0 .. MaxFaults
  /\ excused \subseteq Urls

Init ==
  /\ DeliveryInit
  /\ status = [u \in Urls |-> "none"] /\ retry = [u \in Urls |-> 0]
  /\ succeeded = {} /\ outbox = {} /\ published = {}
  /\ pc = [w \in Workers |-> "idle"] /\ job = [w \in Workers |-> NoUrl]
  /\ phase = [p \in Publishers |-> "idle"] /\ locked = [p \in Publishers |-> {}]
  /\ faults = 0 /\ excused = {}

Fault == faults < MaxFaults /\ faults' = faults + 1
Goto(w, l) == pc' = [pc EXCEPT ![w] = l] /\ UNCHANGED job
Done(w) == pc' = [pc EXCEPT ![w] = "idle"] /\ job' = [job EXCEPT ![w] = NoUrl]

-----------------------------------------------------------------------------
(* The ledger's statements and the frontier's submit_batch                 *)

\* INSERT .. ON CONFLICT (url) DO NOTHING
SkipOverwrites(S) == [u \in Urls |-> IF u \in S THEN "skipped" ELSE status[u]]
MarkSkipped(S) ==
  [u \in Urls |-> IF u \in S /\ status[u] = "none" THEN "skipped" ELSE status[u]]

\* UPDATE .. WHERE url = $2: no row, no change (and a Missing error).
UpdateStatus(u, s) == [status EXCEPT ![u] = IF @ = "none" THEN @ ELSE s]

\* A success ends the count of failures: retry_count = 0.
TakeOneBack(u) == [retry EXCEPT ![u] = @ - 1]
ResetRetry(u) == [retry EXCEPT ![u] = 0]

\* submit_batch of S with R rejected at the quota: a URL the seen-set does
\* not know is queued, unless the filter collides.
SubmitAll(S, R) ==
  \E F \in SUBSET Collisions :
    LET new == (S \ R) \ (known \cup F) IN
      /\ known' = known \cup (S \ R)
      /\ accepted' = accepted \cup new
      /\ queued' = queued \cup new
      /\ payload' = payload \cup new
      /\ UNCHANGED <<leased, acked>>

\* Every quota rejection gets a skip row, each on a best effort.
Submitted(S) ==
  \E R \in SUBSET (S \cap Capped) :
    /\ SubmitAll(S, R)
    /\ \/ status' = MarkSkipped(R) /\ UNCHANGED faults
       \/ Fault /\ \E Q \in SUBSET R : Q # R /\ status' = MarkSkipped(Q)

\* An error of one shard's script: the shards before it have been submitted.
SubmittedPartly(S) ==
  /\ Fault /\ UNCHANGED status
  /\ \E T \in SUBSET S, R \in SUBSET Capped : SubmitAll(T, R)

-----------------------------------------------------------------------------
(* The worker                                                              *)

Seed(u) ==
  /\ u \in Seeds
  /\ \/ Accept(u)
     \/ u \in known \cup Collisions /\ Suppress(u)
  /\ UNCHANGED <<ledger, workers, publishers, faults, excused>>

\* A URL without payload is leased all the same, and the claim is an error.
Claim(w, u) ==
  /\ pc[w] = "idle"
  /\ Deliver(u)
  /\ \/ /\ u \in payload
        /\ pc' = [pc EXCEPT ![w] = "check"]
        /\ job' = [job EXCEPT ![w] = u]
     \/ /\ u \notin payload
        /\ UNCHANGED workers
  /\ UNCHANGED <<ledger, publishers, faults, excused>>

\* politeness_allows
Allow(w) ==
  /\ pc[w] = "check" /\ job[w] \notin Blocked
  /\ Goto(w, "attempt")
  /\ UNCHANGED <<delivery, ledger, publishers, faults, excused>>

\* Blocklist and robots rejections: record_discovered_skip, then ack.
DisallowUnrecorded(w) ==
  /\ pc[w] = "check"
  /\ Goto(w, "ack")
  /\ UNCHANGED <<delivery, ledger, publishers, faults, excused>>
Disallow(w) ==
  /\ pc[w] = "check"
  /\ \/ status' = MarkSkipped({job[w]}) /\ UNCHANGED <<faults, excused>>
     \/ Fault /\ excused' = excused \cup {job[w]} /\ UNCHANGED status
  /\ Goto(w, "ack")
  /\ UNCHANGED <<delivery, retry, succeeded, outbox, published, publishers>>

\* DisallowReason::Circuit: no ledger write, then ack.
CircuitOpen(w) ==
  /\ pc[w] = "check" /\ job[w] \notin Blocked
  /\ excused' = excused \cup {job[w]}
  /\ Goto(w, "ack")
  /\ UNCHANGED <<delivery, ledger, publishers, faults>>

\* politeness.check failed: the lease is left to expire.
CheckFails(w) ==
  /\ pc[w] = "check" /\ job[w] \notin Blocked
  /\ Fault /\ Done(w)
  /\ UNCHANGED <<delivery, ledger, publishers, excused>>

AttemptAfresh(w) ==
  /\ pc[w] = "attempt"
  /\ status' = [status EXCEPT ![job[w]] = "in_progress"]
  /\ retry' = [retry EXCEPT ![job[w]] = 0]
  /\ Goto(w, "fetch")
  /\ UNCHANGED <<delivery, succeeded, outbox, published, publishers, faults, excused>>
MarkAttempting(w) ==
  /\ pc[w] = "attempt"
  /\ \/ status' = [status EXCEPT ![job[w]] = "in_progress"]
        /\ UNCHANGED <<faults, excused>>
     \/ Fault /\ excused' = excused \cup {job[w]} /\ UNCHANGED status
  /\ Goto(w, "fetch")
  /\ UNCHANGED <<delivery, retry, succeeded, outbox, published, publishers>>

\* fetch and extract: a transport error or failure status, a document that
\* does not parse, or a document to store.
Fetch(w) ==
  /\ pc[w] = "fetch"
  /\ \E l \in {"failing", "dlq", "store"} : Goto(w, l)
  /\ UNCHANGED <<delivery, ledger, publishers, faults, excused>>

\* handle_failure: mark_failed, and DLQ once the budget is used up.
BudgetOverrun(n) == n > MaxRetries
BudgetExhausted(n) == n >= MaxRetries

MarkFailed(w) ==
  /\ pc[w] = "failing"
  /\ LET u == job[w] IN
       \/ /\ status[u] # "none"
          /\ status' = UpdateStatus(u, "failed_transient")
          /\ retry' = [retry EXCEPT ![u] = @ + 1]
          /\ \/ BudgetExhausted(retry[u] + 1) /\ Goto(w, "dlq")
             \/ ~BudgetExhausted(retry[u] + 1) /\ Done(w)
          /\ UNCHANGED faults
       \/ /\ status[u] = "none"
          /\ Done(w) /\ UNCHANGED <<status, retry, faults>>
       \/ Fault /\ Done(w) /\ UNCHANGED <<status, retry>>
  /\ UNCHANGED <<delivery, succeeded, outbox, published, publishers, excused>>

\* mark_permanently_failed, by handle_failure and by fail_parse.
MarkPermanentlyFailed(w) ==
  /\ pc[w] = "dlq"
  /\ \/ status' = UpdateStatus(job[w], "permanently_failed") /\ UNCHANGED faults
     \/ Fault /\ UNCHANGED status
  /\ Goto(w, "ack")
  /\ UNCHANGED <<delivery, retry, succeeded, outbox, published, publishers, excused>>

\* finalize: a failed store write is acknowledged all the same.
StoreWrite(w) ==
  /\ pc[w] = "store"
  /\ \/ Goto(w, "commit") /\ UNCHANGED faults
     \/ Goto(w, "ack") /\ Fault
  /\ UNCHANGED <<delivery, ledger, publishers, excused>>

\* One transaction: the row, the history event and the outbox rows.
SuccessWithoutRows(w) ==
  /\ pc[w] = "commit"
  /\ status' = UpdateStatus(job[w], "succeeded")
  /\ retry' = ResetRetry(job[w])
  /\ succeeded' = succeeded \cup {job[w]}
  /\ Goto(w, "children")
  /\ UNCHANGED <<delivery, outbox, published, publishers, faults, excused>>
MarkSucceeded(w) ==
  /\ pc[w] = "commit"
  /\ LET u == job[w] IN
       \/ /\ status[u] # "none"
          /\ status' = UpdateStatus(u, "succeeded")
          /\ retry' = ResetRetry(u)
          /\ succeeded' = succeeded \cup {u}
          /\ outbox' = IF DurableOutbox THEN outbox \cup ({u} \X Links[u]) ELSE outbox
          /\ UNCHANGED faults
       \/ /\ status[u] = "none"
          /\ UNCHANGED <<status, retry, succeeded, outbox, faults>>
       \/ /\ Fault
          /\ UNCHANGED <<status, retry, succeeded, outbox>>
  /\ Goto(w, "children")
  /\ UNCHANGED <<delivery, published, publishers, excused>>

\* Skip rows of the links beyond the depth cap, each on a best effort.
SkipChildren(w) ==
  /\ pc[w] = "children"
  /\ \/ status' = MarkSkipped(TooDeep[job[w]]) /\ UNCHANGED faults
     \/ Fault /\ \E S \in SUBSET TooDeep[job[w]] :
                   S # TooDeep[job[w]] /\ status' = MarkSkipped(S)
  /\ Goto(w, IF DurableOutbox \/ Links[job[w]] = {} THEN "ack" ELSE "dispatch")
  /\ UNCHANGED <<delivery, retry, succeeded, outbox, published, publishers, excused>>

\* LinkDispatch::Direct: submit_batch, never retried.
DirectDispatch(w) ==
  /\ pc[w] = "dispatch"
  /\ Submitted(Links[job[w]]) \/ SubmittedPartly(Links[job[w]])
  /\ Goto(w, "ack")
  /\ UNCHANGED <<retry, succeeded, outbox, published, publishers, excused>>

AckLease(w) ==
  /\ pc[w] = "ack"
  /\ \/ Release(job[w]) /\ Goto(w, "forget") /\ UNCHANGED faults
     \/ Fault /\ Done(w) /\ UNCHANGED delivery
  /\ UNCHANGED <<ledger, publishers, excused>>

AckPayload(w) ==
  /\ pc[w] = "forget"
  /\ \/ Forget(job[w]) /\ UNCHANGED faults
     \/ Fault /\ UNCHANGED delivery
  /\ Done(w)
  /\ UNCHANGED <<ledger, publishers, excused>>

\* The task panics or the process dies.
Crash(w) ==
  /\ pc[w] # "idle"
  /\ Fault /\ Done(w)
  /\ UNCHANGED <<delivery, ledger, publishers, excused>>

Lapse(u) ==
  /\ Redeliver(u)
  /\ UNCHANGED <<ledger, workers, publishers, faults, excused>>

-----------------------------------------------------------------------------
(* The outbox publisher: one transaction from SELECT to COMMIT             *)

\* FOR UPDATE SKIP LOCKED
Available == (outbox \ published) \ UNION {locked[p] : p \in Publishers}
Children(R) == {r[2] : r \in R}
Rollback(p) ==
  phase' = [phase EXCEPT ![p] = "idle"] /\ locked' = [locked EXCEPT ![p] = {}]

SelectRows(p) ==
  /\ phase[p] = "idle"
  /\ \E R \in SUBSET Available :
       /\ R # {}
       /\ \/ R = Available /\ Cardinality(R) <= BatchSize
          \/ Cardinality(R) = BatchSize
       /\ locked' = [locked EXCEPT ![p] = R]
  /\ phase' = [phase EXCEPT ![p] = "locked"]
  /\ UNCHANGED <<delivery, ledger, workers, faults, excused>>

\* The ship closure; on an error the transaction rolls back.
ShipNothing(p) ==
  /\ phase[p] = "locked"
  /\ phase' = [phase EXCEPT ![p] = "shipped"]
  /\ UNCHANGED <<delivery, ledger, locked, workers, faults, excused>>
Ship(p) ==
  /\ phase[p] = "locked"
  /\ \/ /\ Submitted(Children(locked[p]))
        /\ phase' = [phase EXCEPT ![p] = "shipped"]
        /\ UNCHANGED locked
     \/ SubmittedPartly(Children(locked[p])) /\ Rollback(p)
  /\ UNCHANGED <<retry, succeeded, outbox, published, workers, excused>>

CommitRows(p) ==
  /\ phase[p] = "shipped"
  /\ \/ published' = published \cup locked[p] /\ UNCHANGED faults
     \/ Fault /\ UNCHANGED published
  /\ Rollback(p)
  /\ UNCHANGED <<delivery, status, retry, succeeded, outbox, workers, excused>>

-----------------------------------------------------------------------------
Work(w) ==
  \/ Allow(w) \/ Disallow(w) \/ CircuitOpen(w) \/ CheckFails(w)
  \/ MarkAttempting(w) \/ Fetch(w) \/ MarkFailed(w) \/ MarkPermanentlyFailed(w)
  \/ StoreWrite(w) \/ MarkSucceeded(w) \/ SkipChildren(w) \/ DirectDispatch(w)
  \/ AckLease(w) \/ AckPayload(w)

Publish(p) == SelectRows(p) \/ Ship(p) \/ CommitRows(p)

Next ==
  \/ \E u \in Urls : Seed(u) \/ Lapse(u)
  \/ \E w \in Workers : (\E u \in Urls : Claim(w, u)) \/ Work(w) \/ Crash(w)
  \/ \E p \in Publishers : Publish(p)

Spec == Init /\ [][Next]_vars

\* Leases expire (the tick loop runs), a queued URL is eventually claimed,
\* and a task that is not struck by a fault goes on.
Fairness ==
  /\ \A u \in Urls : WF_vars(Lapse(u)) /\ SF_vars(\E w \in Workers : Claim(w, u))
  /\ \A w \in Workers : WF_vars(Work(w))
  /\ \A p \in Publishers : WF_vars(Publish(p))

FairSpec == Spec /\ Fairness

-----------------------------------------------------------------------------
(* Safety                                                                  *)

Held(u) == \E w \in Workers : pc[w] # "idle" /\ job[w] = u
Gone(u) == u \in acked /\ u \notin queued \cup leased /\ ~Held(u)

\* Under DurableOutbox no outbound link of a recorded success is lost: it is
\* known to the frontier, or its outbox row is still unpublished, or its
\* host has a quota.  Crashes between ship and commit, partial submits and
\* concurrent publishers do not break this.  And a mark_succeeded that fails
\* leaves nothing behind: every row is of a recorded success.
NoLinkLost ==
  /\ DurableOutbox =>
       \A u \in succeeded : \A c \in Links[u] :
         c \in known \cup Capped \/ <<u, c>> \in outbox \ published
  /\ \A r \in outbox : r[1] \in succeeded

\* A URL that left the frontier has a ledger row, unless a ledger write of
\* it failed or an open circuit dropped it.
TrailLeft == \A u \in Urls : Gone(u) => status[u] # "none" \/ u \in excused

\* retry_count passes max_retries at most once per worker that was already
\* working on the URL, and once per crash or failed call: a URL that always
\* fails is not fetched for ever.
RetriesBounded ==
  \A u \in Urls :
    retry[u] <= (IF MaxRetries = 0 THEN 1 ELSE MaxRetries)
                + Cardinality(Workers) - 1 + faults

\* A row that says `skipped' is of a URL that never succeeded or failed:
\* discovery skips do not overwrite what the ledger already knows.
SkippedNeverFetched ==
  \A u \in Urls : status[u] = "skipped" => u \notin succeeded /\ retry[u] = 0

(* Liveness                                                                *)

\* Every outbound link of a recorded success reaches the frontier.
LinksArrive ==
  DurableOutbox =>
    \A u \in Urls : \A c \in Links[u] :
      u \in succeeded ~> c \in known \cup Capped

\* Every accepted URL is eventually acknowledged, however often its fetch
\* fails: the retry budget ends it.
EventuallyAcked == \A u \in Urls : u \in accepted ~> u \in acked
=============================================================================
