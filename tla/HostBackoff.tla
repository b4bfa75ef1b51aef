---------------------------- MODULE HostBackoff -----------------------------
(***************************************************************************)
(* The failure state of one host and its circuit breaker                   *)
(* (crates/crawlrs-politeness: backoff_tracker.rs, failure.rs,             *)
(* composite.rs), under workers of one process that fetch from the host    *)
(* concurrently: a claim's safety wake-time passes while a fetch is still  *)
(* running, so this happens.                                               *)
(*                                                                         *)
(* Every Redis command and every access to the in-process cache is one     *)
(* step.  Scores are the time left, as in Frontier.                        *)
(***************************************************************************)
EXTENDS Integers

CONSTANTS
  Fetchers,      \* workers that fetch from the host
  Initial,       \* initial_backoff; even, so that half of it is exact
  Multiplier,    \* multiplier
  MaxBackoff,    \* max_backoff
  DurationLimit, \* first value a Duration cannot represent
  Threshold,     \* failure_threshold
  Hints,         \* Retry-After values a server may send
  MaxCount,      \* bound: the counter saturates, beyond the capped backoff
  MaxMishaps     \* bound: failed Redis calls, evictions and restarts

ASSUME PolicyAssumption ==
  /\ Initial \in Nat /\ Initial % 2 = 0 /\ Multiplier \in Nat \ {0}
  /\ MaxBackoff \in Nat /\ DurationLimit \in Nat /\ Threshold \in Nat
  /\ Hints \subseteq Nat /\ MaxCount \in Nat \ {0} /\ MaxMishaps \in Nat

VARIABLES
  failures,      \* hoststate: consecutive_failures, 0 when absent
  until,         \* hoststate: backoff_until_ms, NoScore when absent
  tracked,       \* hosts_with_failure_state holds the host
  stage,         \* what each worker is doing
  read,          \* the counter value a worker got from Redis
  window,        \* the backoff_until_ms a worker got, or is about to write
  mishaps,       \* how much of MaxMishaps is used
  healthy        \* the host has recovered: no fetch fails from here on

breaker == <<failures, until, tracked, stage, read, window, mishaps, healthy>>

NoScore == -1
Stages == {"idle", "reading", "noting", "fetching", "resetting", "clearing",
           "cleared", "counting", "counted", "writing"}

BreakerTypeOK ==
  /\ failures \in 0 .. MaxCount /\ until \in NoScore .. MaxBackoff
  /\ tracked \in BOOLEAN
  /\ stage \in [Fetchers -> Stages]
  /\ read \in [Fetchers -> 0 .. MaxCount]
  /\ window \in [Fetchers -> NoScore .. MaxBackoff]
  /\ mishaps \in 0 .. MaxMishaps /\ healthy \in BOOLEAN

BreakerInit ==
  /\ failures = 0 /\ until = NoScore /\ tracked = FALSE
  /\ stage = [w \in Fetchers |-> "idle"]
  /\ read = [w \in Fetchers |-> 0] /\ window = [w \in Fetchers |-> NoScore]
  /\ mishaps = 0 /\ healthy = FALSE

Goto(w, l) == stage' = [stage EXCEPT ![w] = l]

\* A worker's reads are forgotten once they are used.
Done(w) ==
  /\ Goto(w, "idle")
  /\ read' = [read EXCEPT ![w] = 0] /\ window' = [window EXCEPT ![w] = NoScore]

-----------------------------------------------------------------------------
(* compute_backoff                                                         *)

Least(a, b) == IF a < b THEN a ELSE b
Most(a, b) == IF a < b THEN b ELSE a

\* try_from_secs_f64(..max(0.0)).unwrap_or(ZERO).min(max_backoff)
Computed(n, strong) ==
  LET secs == Most(0, (IF strong THEN Initial ELSE Initial \div 2) * Multiplier ^ (n - 1))
  IN  IF n # 0 /\ secs < DurationLimit THEN Least(secs, MaxBackoff) ELSE 0

\* strong: TooManyRequests, ServiceUnavailable or ConnectReset.
HintUncapped(n, strong, hint) ==
  IF hint = NoScore THEN Computed(n, strong) ELSE Most(Computed(n, strong), hint)
ComputeBackoff(n, strong, hint) ==
  IF hint = NoScore
    THEN Computed(n, strong)
    ELSE Most(Computed(n, strong), Least(hint, MaxBackoff))

-----------------------------------------------------------------------------
(* check: is_open, a pipeline of two HGETs, then the cache and the verdict *)

ReadFailures(w) ==
  /\ stage[w] = "idle"
  /\ read' = [read EXCEPT ![w] = failures]
  /\ Goto(w, "reading")
  /\ UNCHANGED <<failures, until, tracked, window, mishaps, healthy>>

ReadWindow(w) ==
  /\ stage[w] = "reading"
  /\ window' = [window EXCEPT ![w] = until]
  /\ Goto(w, "noting")
  /\ UNCHANGED <<failures, until, tracked, read, mishaps, healthy>>

\* Below the threshold, or past the window: a half-open probe.
AllowedOnceAbsent(w) == read[w] < Threshold \/ window[w] = NoScore
Allowed(w) == read[w] < Threshold \/ window[w] <= 0

NoteOnlyClears(w) ==
  /\ stage[w] = "noting"
  /\ tracked' = (read[w] # 0 /\ tracked)
  /\ \/ /\ Allowed(w)
        /\ Goto(w, "fetching")
        /\ read' = [read EXCEPT ![w] = 0] /\ window' = [window EXCEPT ![w] = NoScore]
     \/ ~Allowed(w) /\ Done(w)
  /\ UNCHANGED <<failures, until, mishaps, healthy>>
Note(w) ==
  /\ stage[w] = "noting"
  /\ tracked' = (read[w] # 0)
  /\ \/ /\ Allowed(w)
        /\ Goto(w, "fetching")
        /\ read' = [read EXCEPT ![w] = 0] /\ window' = [window EXCEPT ![w] = NoScore]
     \/ ~Allowed(w) /\ Done(w)
  /\ UNCHANGED <<failures, until, mishaps, healthy>>

\* robots.txt disallows the URL: nothing is fetched or recorded.
RobotsDisallow(w) ==
  /\ stage[w] = "fetching"
  /\ Goto(w, "idle")
  /\ UNCHANGED <<failures, until, tracked, read, window, mishaps, healthy>>

-----------------------------------------------------------------------------
(* record_fetch: reset_on_success                                          *)

Succeed(w) ==
  /\ stage[w] = "fetching"
  /\ Goto(w, "resetting")
  /\ UNCHANGED <<failures, until, tracked, read, window, mishaps, healthy>>

ResetOnSuccess(w) ==
  /\ stage[w] = "resetting"
  /\ Goto(w, IF tracked THEN "clearing" ELSE "idle")
  /\ UNCHANGED <<failures, until, tracked, read, window, mishaps, healthy>>

\* HDEL of the three fields
Clear(w) ==
  /\ stage[w] = "clearing"
  /\ failures' = 0 /\ until' = NoScore
  /\ Goto(w, "cleared")
  /\ UNCHANGED <<tracked, read, window, mishaps, healthy>>

Invalidate(w) ==
  /\ stage[w] = "cleared"
  /\ tracked' = FALSE
  /\ Goto(w, "idle")
  /\ UNCHANGED <<failures, until, read, window, mishaps, healthy>>

-----------------------------------------------------------------------------
(* record_failure: HINCRBY, the cache, then HSET of the window             *)

Fail(w) ==
  /\ stage[w] = "fetching" /\ ~healthy
  /\ Goto(w, "counting")
  /\ UNCHANGED <<failures, until, tracked, read, window, mishaps, healthy>>

CountFailure(w) ==
  /\ stage[w] = "counting"
  /\ failures' = Least(failures + 1, MaxCount)
  /\ read' = [read EXCEPT ![w] = Least(failures + 1, MaxCount)]
  /\ Goto(w, "counted")
  /\ UNCHANGED <<until, tracked, window, mishaps, healthy>>

Track(w) ==
  /\ stage[w] = "counted"
  /\ tracked' = TRUE
  /\ \E strong \in BOOLEAN, hint \in Hints \cup {NoScore} :
       window' = [window EXCEPT ![w] = ComputeBackoff(read[w], strong, hint)]
  /\ read' = [read EXCEPT ![w] = 0]
  /\ Goto(w, "writing")
  /\ UNCHANGED <<failures, until, mishaps, healthy>>

WriteWindow(w) ==
  /\ stage[w] = "writing"
  /\ until' = window[w]
  /\ Done(w)
  /\ UNCHANGED <<failures, tracked, mishaps, healthy>>

-----------------------------------------------------------------------------
\* A Redis call of the worker fails; the caller logs it and goes on.
RedisError(w) ==
  /\ stage[w] \notin {"idle", "fetching", "resetting"}
  /\ mishaps < MaxMishaps /\ mishaps' = mishaps + 1
  /\ Done(w)
  /\ UNCHANGED <<failures, until, tracked, healthy>>

\* The bounded cache drops the host.
EvictHost ==
  /\ tracked /\ tracked' = FALSE
  /\ mishaps < MaxMishaps /\ mishaps' = mishaps + 1
  /\ UNCHANGED <<failures, until, stage, read, window, healthy>>

\* The process dies and starts again: Redis keeps its state.
Restart ==
  /\ mishaps < MaxMishaps /\ mishaps' = mishaps + 1
  /\ tracked' = FALSE
  /\ stage' = [w \in Fetchers |-> "idle"]
  /\ read' = [w \in Fetchers |-> 0] /\ window' = [w \in Fetchers |-> NoScore]
  /\ UNCHANGED <<failures, until, healthy>>

Recover ==
  /\ ~healthy /\ healthy' = TRUE
  /\ UNCHANGED <<failures, until, tracked, stage, read, window, mishaps>>

Sooner(score) == IF score > 0 THEN score - 1 ELSE score

BackoffElapses ==
  /\ until' = Sooner(until)
  /\ window' = [w \in Fetchers |-> Sooner(window[w])]
  /\ UNCHANGED <<failures, tracked, stage, read, mishaps, healthy>>

Check(w) == ReadFailures(w) \/ ReadWindow(w) \/ Note(w)
Record(w) ==
  \/ ResetOnSuccess(w) \/ Clear(w) \/ Invalidate(w)
  \/ CountFailure(w) \/ Track(w) \/ WriteWindow(w)

BreakerNext ==
  \/ \E w \in Fetchers :
       \/ Check(w) \/ RobotsDisallow(w) \/ Succeed(w) \/ Fail(w) \/ Record(w)
       \/ RedisError(w)
  \/ EvictHost \/ Restart \/ Recover \/ BackoffElapses

BreakerSpec == BreakerInit /\ [][BreakerNext]_breaker

\* URLs of the host keep coming, and once the host has recovered one that may
\* be fetched comes up again and again; a call that was sent is answered; time
\* passes.  Before it has recovered the host need never answer.
Fairness ==
  /\ \A w \in Fetchers :
       /\ WF_breaker(Check(w)) /\ WF_breaker(Record(w))
       /\ SF_breaker(healthy /\ Succeed(w))
  /\ WF_breaker(BackoffElapses)

FairSpec == BreakerSpec /\ Fairness

-----------------------------------------------------------------------------
\* A breaker that tripped does not shut the host out for good: whatever
\* failures in flight, overwritten windows and failed calls do, a worker gets
\* past it again, and no reset is needed, the host may still be failing.
BreakerRecovers == failures >= Threshold ~> \E w \in Fetchers : stage[w] = "fetching"

\* Once a host has recovered its failure state is cleared for good, although
\* the in-process cache that decides whether to clear it may miss the host
\* after a race, an eviction or a restart: the next check observes the state
\* again.
StateClears == healthy ~> [](failures = 0)
=============================================================================
