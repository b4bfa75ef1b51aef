# crawlrs in TLA+

A model of the crawlrs crawler (`src/crates`): its Redis frontier and the
shards it is split into, its URL pipeline with the Postgres ledger and outbox,
the fetcher and the computation of links, its robots cache and circuit breaker,
its buffered stores, and the tasks of one process from start to shutdown. TLC
checks the models on small instances; TLAPS proves every safety property for all
of them.

## The system

| Part | Code | State | Operations |
|---|---|---|---|
| Frontier | `crawlrs-frontier`: `frontier.rs`, `host_queue.rs`, `promoter.rs`, `scripts/*.lua` | per shard in Redis: `seen` (Bloom), `urls`, `host_queue`, `host_count`, `wake`, `ready`, `inflight` | submit, submit_batch, claim, advance_wake, ack, tick (promote, reclaim) |
| Shards | `frontier.rs`, `crawlrs-bin/src/factory.rs` | owned shards of a pod, its claim cursor | derive_owned_shards, claim over the owned shards, refusal of others |
| URL pipeline | `crawlrs-runtime/src/worker.rs` | the URL a worker holds and its phase | politeness gate, mark attempting, fetch, parse, store, commit, dispatch, ack, retry or dead-letter |
| Ledger, outbox | `crawlrs-metadata/src/store.rs`, `migrations/` | `url_metadata`, `url_history`, `frontier_outbox` | mark_*, publish |
| Publisher | `crawlrs-runtime/src/outbox.rs` | the rows its transaction locks | select, ship, commit |
| Fetcher | `crawlrs-fetch` | proxy, response, body so far | fetch, read_body, report_outcome |
| Links and URLs | `crawlrs-core/src/url.rs`, `crawl_scope.rs`, `crawlrs-parse`, `worker.rs` | none | parse, parse_relative, canonicalize, resolve_links, compute_outbound |
| Circuit breaker | `crawlrs-politeness`: `backoff_tracker.rs`, `failure.rs`, `composite.rs` | `hoststate` in Redis, a bounded in-process cache | is_open, record_failure, reset_on_success |
| Robots cache | `crawlrs-politeness`: `robots.rs`, `robots_checker.rs` | in-process entries, a Redis hash per host | allowed, read_cache, fetch, write_cache |
| Stores | `crawlrs-store` | one open file per shard and store, objects | write, rotate, upload, flush |
| Supervisor, crawler, binary | `supervisor.rs`, `crawler.rs`, `maintenance.rs`, `crawlrs-bin/src/{run,shutdown,http,maintenance}.rs` | tasks, restart budgets, two shutdown channels, readiness | spawn, join, restart, give up, signal, drain, stop |

How they interact: a worker claims a URL from one of its pod's shards under a
lease, asks politeness (blocklist, breaker, robots), fetches, records the
outcome with politeness (which yields the host's next wake-time, written back
with advance_wake), stores the document, commits the ledger row together with
the outbound links, and acknowledges. A publisher moves the links from Postgres
to the frontier. The tick promotes hosts whose wake-time has come and gives
lapsed leases back.

What makes it hard: a lease may lapse while its worker goes on, so two workers
have one URL and late acks and wake plans arrive; a host can be in `wake`,
`ready`, both or neither; ack, the breaker's updates and the robots cache's
writes are several Redis calls; every ledger call is best-effort; publishers
ship before they commit, and to shards their pod may not own; an upload runs
after the store's lock is released; a rolling update has pods with different
replica counts; panics, respawns and the shutdown race.

## Modules

| Module | What it is |
|---|---|
| `RedisLists` | LREM and membership on sequences |
| `Frontier` | one shard in full: the scripts, ack, tick, time, workers as clients |
| `UrlDelivery` | what the `Frontier` trait promises: accepted once, delivered, redelivered, released |
| `FrontierRefinement` | `Frontier` implements `UrlDelivery` |
| `Pipeline` | workers, ledger, outbox and publishers, on top of `UrlDelivery` |
| `Shards` | shards, pods, scaling and rolling updates; claims, links and publication across shards |
| `LinkSeqs` | operators on sequences |
| `Urls` | canonical URLs: pure operators |
| `Links` | links of a document, depth caps: pure operators; extends `Urls` |
| `Requests` | one URL from its text through gate, proxy, response, verdict and wake plan to its links; extends `Links` |
| `HostBackoff` | failure state and breaker of one host |
| `RobotsCache` | the two-tier robots cache of one host |
| `Stores` | MultiStore over Parquet and WARC stores, with the ledger's path |
| `Lifecycle` | supervisors, worker loops, periodic tasks, publisher loop, shutdown |
| `MC*` | constants for TLC |
| `*Proofs` | theorems |

`Pipeline` uses the frontier only through `UrlDelivery`, which `Frontier` is
shown to implement, so the pipeline's properties hold on one shard of the Redis
frontier. `Shards` is the view across shards: a shard is the set of its queued
URLs, and a row of the outbox one link. `Requests` hands its verdict to what
`Pipeline` and `HostBackoff` model; `Stores` is what `Pipeline` has as one step,
the write of a document, together with the commit of its path.

Operators such as `ZaddXX` or `TakeOneBack`, written before the definition they
resemble, are faulty variants of it. No specification uses them: with one in
place of the original the property it is named for in `PROJECT.json` fails.

### How state and actions correspond to the code

*Frontier.* Variables have the names of the Redis keys (`keys.rs`). A Lua script
is atomic in Redis; a script with a loop is modelled one iteration per step, with
`RedisFree` holding back every other command until it is done, so no
interleaving is added. ack is two commands and two steps. Time is relative:
scores in `wake` and `inflight` are the time left, 0 means "not after now", and
`Elapse` counts down. A client reads the clock and its script runs at the same
instant, except that a wake plan may have lapsed before it is written
(`AdvanceWake` with 0). The Bloom filter may answer "present" for any URL and
"new" only for one that was not added. `admitted`, `counted`, `acked` and
`floor` only observe.

*Pipeline.* Each awaited call on a backend is a step, a Postgres transaction is
one step. A failed call takes the code's error path; `Crash` drops the worker.
`excused` only observes. Links, depth caps, quotas, the
blocklist and Bloom collisions are constants or choices.

*Shards.* `env` is what a pod finds in its environment: its ordinal and the
replica count, the ordinal alone (then `num_shards` stands for the replica
count), or neither (then it owns every shard). `conf[p]` is the replica count of
the deployment when pod `p` was started: `Scale`
changes the deployment's, `Roll`, `Kill` and `Start` replace pods one at a time,
so ownership overlaps and has gaps meanwhile. `Claim` takes the cursor's value,
then the owned shards are tried one per step from there. `submit_batch` refuses
a batch with one unowned shard before it submits anything, and submits shard by
shard otherwise; the script of a shard takes its items in any order and stops
admitting those of a host at `max_urls` (`Full`). The shard's filter is exact
here: false positives are in `Frontier` and `Pipeline`. A publisher's transaction
holds its row locks from
`SelectRows` to `CommitRows` or `PublishFails`. `done` and `failed` only observe.

*Requests, Links and Urls.* `pc` follows `process_url` and `fetch`, one step per await:
resolving a proxy, sending, the headers, each chunk of the body. Whatever the
server does is a choice: its status, its Content-Length, its chunks, a redirect
to another host, an error of the transport. An error of no known type is
classified by the words of its text, which is any of the classes the words lead
to (`TextKinds`). A path is a sequence of segments, each with the slash before
it. A segment has a name, the number of passes it takes to decode its escapes of
unreserved characters (more than one only if an escape is broken by another, as
in `%2%65`), and possibly a character the url crate percent-encodes, raw or
encoded. A query is a sequence of decoded parameters. Parsing and `set_path`
encode and remove dot segments, escaped ones included (`SetPath`);
`collapse_path_slashes` drops an empty segment that is not the last unless its
slash or the one before it is part of a `://` (`Drops`); decoding takes one pass
off every segment; and the k-th parameter of the canonical query is the value
with fewer than k kept parameters below it (`CanonicalQuery`). An href is its
host and its kind; `Follow` requests a kept link of the document, so
chains of links cross hosts.

*HostBackoff.* Each Redis command, and each access to the cache, is a step: the
pipelines of the code have no MULTI. `last_kind` is written and never read.
`compute_backoff` keeps its overflow: a value `Duration` cannot hold becomes
zero. A computed window that lapses before it is written stays at 0.

*RobotsCache.* A check is read locally, read from Redis, fetch, three commands of
`write_cache`, insert locally, decide; the commands of several pods mix, and a
connection may break between them. The hash is its two fields and its expiry: a
command on an expired hash creates it anew without one, and HDEL of its last
field deletes it with its expiry. Rules are abstracted to whether they forbid
the URL. `age` (time since a fetch gave an answer) and `torn` (a hash was left
without its expiry) only observe.

*Stores.* `Write` is what happens under a store's mutex: append to the open file
of the shard, rotate it by rows, bytes or age. `Upload` runs afterwards, so
other writers open the next file meanwhile. `MultiStore` writes to its stores in
order and stops at the first error. `Flush*` is `MultiStore::flush`, which the
host of the library calls and the binary does not (`Flushing`). `gone` observes
each row that left memory or an object, with the cause: a failed upload of a
rotation or of a flush, an object of the same name, the end of the process.

*Lifecycle.* Supervisors, worker loops, the three periodic loops, the publisher
loop, the signal, the bridge task and `crawl`'s joins. A URL is one step, or a
panic. The drain delay is the time between `MarkNotReady` and `Shutdown`. The
publisher is present, as under DurableOutbox.

## Runs

| Run | Instance | Shows |
|---|---|---|
| `frontier_leases` | 1 host, 2 URLs, 2 workers, quota 1, batches of 2, lease and plans of 2, tick limit 1, 1 fault | types, `SingleCopy`, `NothingLost`, `WakePlanHeld`, `NoStrandedHost`, `QuotaHeld`, `SettledStaysOut`, `ImplementsDelivery` |
| `frontier_liveness` | 1 host, 2 URLs, 1 worker, 1 fault | `EventuallyAcked`: every admitted URL is acknowledged |
| `pipeline_retries` | 2 URLs linking to each other, 2 workers, Direct, 1 fault | types; `TrailLeft`: the ledger has a row of every URL that left; `RetriesBounded`; `SkippedNeverFetched` |
| `pipeline_outbox` | 2 rows, batch of 1, 2 publishers, 1 fault, one shard | `NoLinkLost`: links of a success are not lost, and only a success has rows; `LinksArrive`, `EventuallyAcked` |
| `host_backoff` | 2 workers, threshold 2, a hint above the cap, overflow at the third failure, 1 fault | types; `BreakerRecovers`: a probe always gets through; `StateClears`: a recovered host's state goes |
| `lifecycle` | 1 worker, 2 restarts | types, `InFlightFinished`, `AtMostOneLateClaim`, `GiveUpJustified`, `GracefulStop`, `WorkerComesBack` |
| `robots` | 2 pods with a worker each, lifetimes of 2, delays of 1, 1 fault | `AnswersFresh`: no verdict rests on an answer older than the two lifetimes and the delays in a row |
| `shards` | up to 2 pods, 3 shards, a page with three links, a quota that admits one of two, pods with and without a replica count, both dispatches, 1 fault or change of scale | `OwnersPartition`; `LinkKept`: a link is in the frontier, in a row that waits or refused by a quota, direct dispatch that failed excepted; `PublishedShipped`; `ShardsServed` |
| `stores` | 2 workers, 2 records, 2 stores, limits of 2 rows and 3 bytes, 1 fault | `LedgerPathHeld`, `BuffersBounded`, `FlushReachesEveryStore` |
| `requests` | paths of up to 5 segments of 4 kinds and 3 segments of 13, queries of up to 3 parameters, documents of 2 hrefs, 3 links deep | `OneReport`, `BodyWhole`, `OutboundExact`, `DepthHeld`, `CanonicalStable`, `VariantsAgree`, `LinksReparse` |

Two runs end in a counterexample; each states what `ARCHITECTURE.md` says and
the code does not keep:

| Run | Text | What happens |
|---|---|---|
| `stores_exit` | line 81: "worker drain, store flush, exit" | nothing calls `Store::flush`; the process ends with a succeeded record in a buffer |
| `shards_outbox` | line 62: the publisher drains the table "with at-least-once delivery" | two pods with different shards: each publisher selects the oldest rows, is refused because one is not of its shards, rolls back and selects them again |

### Bounds

The constants `MaxBatch`, `MaxReady`, `MaxDelay`, `MaxFaults`, `MaxCount`,
`MaxMishaps`, `MaxTime`, `MaxChunk`, `MaxHrefs` and `MaxDepth` bound the inputs, the clock and
the faults. They are large enough for the cases the properties are about: a
lease of 2 lapses before, between and after the two commands of an ack; a tick
limit of 1 leaves work behind; two entries of one host fit into `ready`; a batch
holds a URL twice and crosses the quota; one fault strikes any call at any point,
and lapsed leases need none. `MaxReady` limits how many entries a promote may
leave in `ready`: the code has no limit, and the proofs do not depend on its
value. `MaxCount` lies beyond the failure count at which the backoff is capped
and overflows. In `lifecycle` one worker suffices because supervisors share
nothing but the shutdown flag. The frontier runs have one host; what holds of
several rests on the theorems, which are over any set of hosts. The tick limit of
`frontier_liveness` is one no tick reaches: ZRANGEBYSCORE takes the oldest
entries first, which keeps later ones from overtaking, and that order is lost
where scores stop at 0.

In `stores` the two records fill a file by rows and by bytes, and the clock's one
millisecond reaches the maximal duration; within it two files of a shard get one
name. In `shards` three shards over two pods are uneven, so a pod has one shard
and one has two, and the page's links fall on different pods. Without a replica
count two pods own two of the three shards; the count of pods that makes them
partition the shards then, and pods without an ordinal, are left to the theorem. In `requests` a cap
of one byte with chunks of up to two is met, hit and passed; `MaxDepth`
lies beyond both caps; five segments hold doubled slashes on both sides of a
scheme separator and dot segments that reach over them, three hold every pair of
spellings; a `MaxUrlLen` of 6 is met, and passed by encoding.

Deadlock is checked except in `lifecycle` and `stores`, where the process exits,
and `requests`, where the URL's work ends.

### Fairness

*Frontier*: the tick loop runs, Redis serves each waiting connection in turn
(strong fairness of commands that a running script disables), and a worker not
struck by a fault acknowledges. *Pipeline*: leases lapse, a queued URL is claimed
(which `frontier_liveness` shows), tasks that can go on do. *Shards*: worker,
publisher and tick loops run, and the controller restarts pods until all have
the current replica count; faults are not fair. *HostBackoff*: URLs of the host
keep coming and, once the host has recovered, one that robots.txt allows comes up
again and again; before that no fetch need ever succeed; calls are answered; time
passes. *Lifecycle*: tokio polls every runnable task; a loop selecting between
its timer and the closed channel eventually takes the channel (`select!` chooses
at random). `Stores`, `RobotsCache` and `Requests` are checked for safety only.

## Proofs

Each theorem is over all values of the constants, from the named ASSUMEs of the
module it is about.

*Frontier.* `FrontierProofs` proves `TypeOK`, the list lemmas and what each step
does to the keys, and from these `SingleCopy`, `NothingLost`, `NoStrandedHost`,
`WakePlanHeld`, `QuotaHeld` and the action property `SettledStaysOut`. None is
inductive alone. The inductive invariant `IInv` is their conjunction with three
more parts: what a running script holds (`ScriptInv`: hosts in `due` are due,
leases in `expired` have lapsed, and no claim runs beside them), what the seen
filter covers (`SeenInv`: whatever is admitted, queued, leased or held by a
worker is in `seen`), and that the counter of a capped host equals the number of
its counted URLs (`QuotaInv`). `SingleCopy` needs `SeenInv`, since only the
filter keeps a second copy out, and `ScriptInv`, since a reclaim pushes what it
released; `WakePlanHeld` needs `ScriptInv`, since a host a promote is about to
move must have no running plan. `StepKinds` reduces a step to what it does to
queues, leases and wake-times, so each part is proved once per kind. Last, `Spec
=> ImplementsDelivery`: under `IInv` each step is one abstract step or a stutter.

*Pipeline.* `PipelineProofs` proves `TypeOK`, `SkippedNeverFetched`, `TrailLeft`,
`NoLinkLost` and `RetriesBounded` for any number of workers, publishers, URLs and
faults. The strengthenings: a URL without a ledger row has no history and no
retries (`UntouchedInv`); a worker past its first ledger write has left a row or
an excuse (`TrailInv`); every link of a success has an outbox row and every row is of
a success, and the children
of rows that are shipped or published are known or under a quota (`RowsInv`,
`ShippedInv`). `RetriesBounded` counts workers: while a URL can be claimed, each
failure beyond the budget is of a worker on its way to acknowledge it or that a
fault took off it, and once its payload is gone only the workers that have it can
add one (`RetryInv`); `KnownInv` says that a URL whose payload was deleted is
never queued again. It is the one theorem that needs `Workers` to be finite.

*Shards.* `ShardsProofs` proves `OwnersPartition`, `PublishedShipped` and
`LinkKept`. The first is arithmetic: the shards with `s % replicas = ordinal`
partition the shards, and the sequence a pod builds lists its own; the other
environments are the same with `num_shards` or 1 for the replica count. The others
need that what a publisher has locked is handled (in the frontier, or of a full
host) or still to be shipped (`PubInv`), and that what is handled stays so: a
host that is full stays full, that a page has the rows of all its links or none (`RowsInv`), and
that a worker that ships direct has the links that are not yet handled
left (`TaskInv`, `DoneInv`). Types need that a running pod owns a shard
(`OwnInv`): the round over shards divides by their number.

*Stores.* `StoresProofs` proves `TypeOK` and the lemmas on files and places, then
`BuffersBounded`, `LedgerPathHeld` and `FlushReachesEveryStore`. A row is at one
of a few places (open file, upload, flush, object, or gone with a cause), and the
lemmas show that each step moves it among them. `PathsInv` says so of the paths a
worker has collected from the stores before the commit, which makes the ledger's
path right (`LedgerInv`); `FlushInv` says that a row buffered when a flush began
has been handled, is being handled, or is in a store the flush has yet to come
to.

*Lifecycle.* `LifecycleProofs` proves `TypeOK`, `InFlightFinished`,
`AtMostOneLateClaim` and `GiveUpJustified`, from: a supervisor that is not
waiting for its worker has none that runs (`TaskInv`); no claim was late while
the flag is down or a worker is about to claim (`LateInv`); the budget counts the
exits of the current streak (`StreakInv`).

*HostBackoff.* `PolitenessProofs` proves `BreakerTypeOK`, which says of the breaker that
no window is beyond `max_backoff`: `BackoffBounded` bounds `compute_backoff` for
any multiplier and number of failures, where the exponential overflows included,
and any Retry-After.

*RobotsCache.* The same module proves `TypeOK` and `AnswersFresh` for any
pods, bodies, lifetimes and delays. `FreshInv` bounds the age of an answer at
each place it can be: carried by a worker, by the delays of the steps behind it
(`CarriedFresh`); in the hash, by what is left of its expiry (`SharedFresh`); in
a pod, by what is left of its entry (`LocalFresh`). The hard part is a hash
without an expiry, since pods mix their commands: some worker that has begun its
writes is then about to set one, soon enough for what the hash holds, whoever
wrote it (`Rescued`, `WrittenFresh`).

*Requests and Links.* `RequestsProofs` proves `OneReport`, `BodyWhole`,
`DepthHeld` and `OutboundExact`. `FetchInv` says what status, error, length and
reports are at each point of `fetch`; the five exits then each make the one
report. `DepthInv` adds to `DepthHeld` that the links a page leads to are within
the caps of their own hosts at the depth they will have. `OutboundExact` is about
two loops, `resolve_links` and `compute_outbound`, written as recursive functions
over the prefixes of their input. That such a function exists and obeys its
equation is proved from the least-number principle (`LeastNat`, `Rounds`,
`LoopExists`), not assumed; then the loops are followed round by round: the URLs
seen are the joins of the hrefs so far (`ResolveFinds`), the list built is
`Listed` of the first occurrences so far (`ListedLoop`), and a link appended to
the input goes to the end of its side of the partition (`PartedAppend`).

*Urls.* `UrlsProofs` is about paths and queries of any length, and needs no
state; `RequestsProofs` draws `CanonicalStable`, `VariantsAgree` and
`LinksReparse` from it, with `AtSeed`: a text that has not been parsed is one of
the texts. Encoding and decoding change each segment by itself (`Map`);
collapsing keeps some of the segments (`KeepIs`); removing dots runs a stack over
them, which is followed round by round (`StackRounds`). A segment that is a map
of another drops and is a dot segment alike, so maps commute with both
(`CollapseMap`, `DotsMap`): the canonical path is that of the cleaned segments,
with the dots removed and then collapsed (`CanonicalPath`). The hard part is that one
rewriting may undo what another achieved. A path that collapsing leaves
collapses to itself, because what is kept ends as what has been read ends, so an
empty segment that the code keeps is one that it keeps the next time
(`CollapseFollows`, `CollapseTwice`); and neither collapsing nor decoding an
escape that is not broken makes a dot segment, so the dots that `parse` removed
do not come back (`SetPathLeaves`). `CollapseKeeps` counts the schemes of
a path and of what is kept. `SpellingsAgree` and `DoublesAgree` say that two
spellings come to one path before they are cleaned. `QueryIsCanonical` counts: a value
is the k-th of a query if fewer than k kept parameters are smaller (`At`), which
depends only on how often each value is kept, so the order and the tracking
parameters do not matter, and a sorted query is its own.

Assumptions on the constants are those of the code's types: counts and durations
are naturals, a depth cap is a natural or unset (`DepthAssumption`), a status is
positive (`RequestAssumption`: 0 stands for no response), the set of workers
of a pipeline is finite, and, for URLs, a name that ends in a colon is neither
empty nor dots (`NameAssumption`), and parameters are numbers, for their order
(`TrackingAssumption`).

Only model-checked: liveness, since fairness and ENABLED are out of the prover's
reach. This is all that is said of `HostBackoff` besides its types. `ShardsServed`
is one of these; every invariant and every action property of the runs that pass
has a theorem.

## Divergences seen while modelling

Besides the two runs above, comments and code disagree here. The models follow
the code.

| Text | Code |
|---|---|
| `claim.lua:4-6`: no other worker hits the host until advance_wake | `submit.lua:49` gives a host in `ready` a wake-time; it is promoted twice and two workers hold it |
| `traits/frontier.rs:186-187`: reclaim will not re-deliver an acknowledged URL | `host_queue.rs:307`: the ack of a lapsed lease does not remove the queued copy |
| `traits/frontier.rs:171-173`: advance_wake only moves later | `advance_wake.lua:22`: the ZADD is unconditional |
| `worker.rs:342-343`: under an open circuit the URL stays claimable | `worker.rs:393`: it is acknowledged and leaves no row |
| `worker.rs:606-607`: a future run can pick it up | `worker.rs:639` acknowledges, and the seen filter outlives runs |
| `crawler.rs:258`: a last tick at shutdown | the loop ends without one; the next process's tick reclaims |
| `fetcher.rs:173-175`: no proxy is blamed for our cap | a body that passes the cap while it is read is reported as NetworkError |
| `types.rs:73-77`: redeliveries carry different attempt ids | `frontier.rs:598-600`: the id is shard, URL and host, so they share one |
| `robots.rs:66-69`: the two layers expire within the jitter band | `robots.rs:163`: the in-process entry is made with its full TTL from a shared one of any age, so it outlives it by up to a TTL (`AnswersFresh` has both in a row) |
| `supervisor.rs:181`: stable for at least reset_window | `supervisor.rs:188` resets only beyond it |
| parse_retry_after: a delta that is not positive is None | "0" is a hint of zero |

And some behaviour that no text speaks about, but that the properties had to be
stated around: a backoff beyond what `Duration` holds becomes zero
(`failure.rs:58`); after a redirect to another host neither the blocklist nor
that host's robots.txt is asked, and the wake plan goes to the requested host;
an error's class may come from words of the URL in its text; canonicalisation is
not idempotent on an escape broken by another (`%%341` gives `%41`); a doubled
slash is not collapsed before dot segments are removed, so `/a//../b` and
`/a/../b` are two URLs; a failed upload takes every row of its file, although
their URLs succeeded (`multi_store.rs:66` then leaves the last one without a
ledger row); a seed's canonical
form may be longer than MAX_URL_LEN, which is measured before percent-encoding;
direct dispatch gives a page's links up when one is on a shard of another pod;
a robots entry whose pipeline broke off before EXPIRE stays for ever; two files
of a shard begun in one millisecond have one object name
(`parquet_store.rs:136`).

## Not modelled

- Tokenizing HTML and extracting text: no state of the crawl depends on it but
  the hrefs, which are a choice.
- The transport: connections, TLS, browser emulation, headers. Its outcomes are
  choices of `Requests`.
- Column and record layouts of Parquet and WARC files; which records a file holds
  is modelled.
- Backslashes and control characters in URLs, which the url crate rewrites or
  removes before anything modelled here, and schemes without a path of segments
  (`mailto:`), which no link that is crawled has.
- The FNV hash that places a URL on a shard: any function will do.
- Configuration, CLI, metrics, tracing, Helm charts and Terraform, the builders
  and factories that only pass configuration on, and the in-memory fakes of the
  tests: no state that these properties tell apart.
- Pipeline and Lifecycle composed: the publisher takes its last batch while
  workers still commit (`outbox.rs:104`), so their rows wait for the next process.
  `NoLinkLost` says that they are durable; the composition is beyond a small
  instance.
- The number of Postgres connections: a publisher's ship closure runs inside a
  transaction, and the calls it makes take a connection of their own.
