----------------------------- MODULE Lifecycle ------------------------------
(***************************************************************************)
(* The tasks of one crawler process: the worker pool under its supervisors *)
(* (crates/crawlrs-runtime/src/supervisor.rs), the periodic loops, the     *)
(* outbox publisher, and the shutdown that ends them, from the signal      *)
(* handler of crates/crawlrs-bin to the return of `crawl'.                 *)
(*                                                                         *)
(* What a worker does with a URL is module Pipeline; here it takes one     *)
(* step, or panics.  Time is relative: Elapse counts it.                   *)
(***************************************************************************)
EXTENDS Integers

CONSTANTS
  Workers,       \* worker indexes
  MaxRestarts,   \* max_restarts
  BaseBackoff,   \* base_backoff, in units of Elapse
  MaxBackoff,    \* max_backoff
  ResetWindow    \* reset_window

ASSUME PolicyAssumption ==
  /\ MaxRestarts \in Nat /\ BaseBackoff \in Nat
  /\ MaxBackoff \in Nat /\ ResetWindow \in Nat

\* The periodic tasks: frontier_tick_loop and maintenance_loop of the
\* crawler, and the gauge refresh of the binary.
Loops == {"tick", "heartbeat", "gauges"}

VARIABLES
  signalled,     \* SIGTERM or SIGINT arrived: the binary's watch channel
  ready,         \* /readyz
  http,          \* the HTTP listener is up
  stop,          \* the crawler's watch channel
  loop,          \* each periodic task: "wait", "busy" or "gone"
  publisher,     \* outbox_publisher
  sup,           \* each supervisor
  task,          \* the worker task it spawned last
  restart_count, \* restarts in the current window
  since,         \* time since the last restart, Never before the first
  pause,         \* time left of the backoff before a respawn
  process,       \* `crawl': "running", "joined" (run returned) or "exited"
  streak,        \* observation: exits without a quiet reset_window between
  late           \* observation: claims that returned a URL after `stop'

supervisors == <<sup, restart_count, since, pause, streak>>
others == <<loop, publisher>>
shutdown == <<signalled, ready, http, stop, process>>
vars == <<shutdown, others, supervisors, task, late>>

Never == -1

TypeOK ==
  /\ signalled \in BOOLEAN /\ ready \in BOOLEAN /\ http \in BOOLEAN /\ stop \in BOOLEAN
  /\ loop \in [Loops -> {"wait", "busy", "gone"}]
  /\ publisher \in {"check", "publish", "sleep", "final", "gone"}
  /\ sup \in [Workers -> {"check", "join", "backoff", "gone"}]
  /\ task \in [Workers -> {"none", "loop", "claim", "sleep", "url", "exited", "panicked"}]
  /\ restart_count \in [Workers -> 0 .. MaxRestarts]
  /\ since \in [Workers -> {Never} \cup 0 .. ResetWindow + 1]
  /\ pause \in [Workers -> 0 .. MaxBackoff]
  /\ process \in {"running", "joined", "exited"}
  /\ streak \in [Workers -> Nat] /\ late \in [Workers -> Nat]

Init ==
  /\ signalled = FALSE /\ ready = TRUE /\ http = TRUE /\ stop = FALSE
  /\ loop = [l \in Loops |-> "wait"] /\ publisher = "check"
  /\ sup = [w \in Workers |-> "check"] /\ task = [w \in Workers |-> "none"]
  /\ restart_count = [w \in Workers |-> 0] /\ since = [w \in Workers |-> Never]
  /\ pause = [w \in Workers |-> 0] /\ process = "running"
  /\ streak = [w \in Workers |-> 0] /\ late = [w \in Workers |-> 0]

-----------------------------------------------------------------------------
(* supervise_worker                                                        *)

\* 1u32.checked_shl(exponent).unwrap_or(u32::MAX), and .min(max_backoff)
Scale(exponent) == IF exponent < 32 THEN 2 ^ exponent ELSE 2 ^ 32 - 1
Backoff(n) ==
  LET scaled == BaseBackoff * Scale(n - 1)
  IN  IF scaled \in 0 .. MaxBackoff THEN scaled ELSE MaxBackoff

\* The top of the loop: return on shutdown, otherwise spawn the worker.
Spawn(w) ==
  /\ sup[w] = "check"
  /\ \/ /\ stop
        /\ sup' = [sup EXCEPT ![w] = "gone"] /\ UNCHANGED task
     \/ /\ ~stop
        /\ sup' = [sup EXCEPT ![w] = "join"] /\ task' = [task EXCEPT ![w] = "loop"]
  /\ UNCHANGED <<shutdown, others, restart_count, since, pause, streak, late>>

\* The worker has been quiet for longer than reset_window.
Stable(w) == since[w] # Never /\ since[w] > ResetWindow

\* decide_restart
NeverReset(w) == restart_count[w]
Budget(w) == IF Stable(w) THEN 0 ELSE restart_count[w]

GiveUp(w) ==
  /\ Budget(w) >= MaxRestarts
  /\ sup' = [sup EXCEPT ![w] = "gone"]
  /\ restart_count' = [restart_count EXCEPT ![w] = Budget(w)]
  /\ UNCHANGED <<since, pause>>

RestartOnceMore(w) ==
  /\ Budget(w) <= MaxRestarts
  /\ sup' = [sup EXCEPT ![w] = "backoff"]
  /\ restart_count' = [restart_count EXCEPT ![w] = Budget(w) + 1]
  /\ since' = [since EXCEPT ![w] = 0]
  /\ pause' = [pause EXCEPT ![w] = Backoff(Budget(w) + 1)]
Restart(w) ==
  /\ Budget(w) < MaxRestarts
  /\ sup' = [sup EXCEPT ![w] = "backoff"]
  /\ restart_count' = [restart_count EXCEPT ![w] = Budget(w) + 1]
  /\ since' = [since EXCEPT ![w] = 0]
  /\ pause' = [pause EXCEPT ![w] = Backoff(Budget(w) + 1)]

JoinUnawaited(w) ==
  /\ sup[w] = "join" /\ stop
  /\ sup' = [sup EXCEPT ![w] = "gone"]
  /\ UNCHANGED <<shutdown, others, restart_count, since, pause, streak, task, late>>
Join(w) ==
  /\ sup[w] = "join" /\ task[w] \in {"exited", "panicked"}
  /\ \/ /\ stop
        /\ sup' = [sup EXCEPT ![w] = "gone"]
        /\ UNCHANGED <<restart_count, since, pause, streak>>
     \/ /\ ~stop
        /\ GiveUp(w) \/ Restart(w)
        /\ streak' = [streak EXCEPT ![w] = IF since[w] # Never /\ ~Stable(w)
                                             THEN @ + 1 ELSE 1]
  /\ UNCHANGED <<shutdown, others, task, late>>

\* The select! between the backoff's sleep and the shutdown channel.
BackoffForever(w) ==
  /\ sup[w] = "backoff" /\ stop /\ pause[w] = 0
  /\ sup' = [sup EXCEPT ![w] = "gone"]
  /\ UNCHANGED <<shutdown, others, restart_count, since, pause, streak, task, late>>
BackoffOver(w) ==
  /\ sup[w] = "backoff"
  /\ \/ pause[w] = 0 /\ sup' = [sup EXCEPT ![w] = "check"]
     \/ stop /\ sup' = [sup EXCEPT ![w] = "gone"]
  /\ UNCHANGED <<shutdown, others, restart_count, since, pause, streak, task, late>>

-----------------------------------------------------------------------------
(* worker_loop                                                             *)

LoopUnchecked(w) ==
  /\ task[w] = "loop"
  /\ task' = [task EXCEPT ![w] = "claim"]
  /\ UNCHANGED <<shutdown, others, supervisors, late>>
LoopTop(w) ==
  /\ task[w] = "loop"
  /\ task' = [task EXCEPT ![w] = IF stop THEN "exited" ELSE "claim"]
  /\ UNCHANGED <<shutdown, others, supervisors, late>>

\* Claimed; or EmptyHint, Empty and errors, which sleep.
ClaimReturns(w) ==
  /\ task[w] = "claim"
  /\ \/ /\ task' = [task EXCEPT ![w] = "url"]
        /\ late' = [late EXCEPT ![w] = IF stop THEN @ + 1 ELSE @]
     \/ task' = [task EXCEPT ![w] = "sleep"] /\ UNCHANGED late
  /\ UNCHANGED <<shutdown, others, supervisors>>

SleepOver(w) ==
  /\ task[w] = "sleep"
  /\ \/ task' = [task EXCEPT ![w] = "loop"]
     \/ stop /\ task' = [task EXCEPT ![w] = "exited"]
  /\ UNCHANGED <<shutdown, others, supervisors, late>>

ProcessUrl(w) ==
  /\ task[w] = "url"
  /\ task' = [task EXCEPT ![w] = "loop"]
  /\ UNCHANGED <<shutdown, others, supervisors, late>>

Panic(w) ==
  /\ task[w] \in {"claim", "url"}
  /\ task' = [task EXCEPT ![w] = "panicked"]
  /\ UNCHANGED <<shutdown, others, supervisors, late>>

-----------------------------------------------------------------------------
(* The other tasks                                                         *)

\* The gauges follow the binary's channel, the others the crawler's.
Flag(l) == IF l = "gauges" THEN signalled ELSE stop

LoopTick(l) ==
  /\ loop[l] = "wait"
  /\ loop' = [loop EXCEPT ![l] = "busy"]
  /\ UNCHANGED <<shutdown, publisher, supervisors, task, late>>

LoopWork(l) ==
  /\ loop[l] = "busy"
  /\ loop' = [loop EXCEPT ![l] = "wait"]
  /\ UNCHANGED <<shutdown, publisher, supervisors, task, late>>

LoopStop(l) ==
  /\ loop[l] = "wait" /\ Flag(l)
  /\ loop' = [loop EXCEPT ![l] = "gone"]
  /\ UNCHANGED <<shutdown, publisher, supervisors, task, late>>

\* A full batch goes round at once, anything else sleeps; the last batch is
\* published after the loop.
PublisherUnchecked ==
  /\ \/ publisher = "check" /\ publisher' = "publish"
     \/ publisher = "publish" /\ publisher' \in {"check", "sleep"}
     \/ publisher = "sleep" /\ publisher' = "check"
     \/ publisher = "sleep" /\ stop /\ publisher' = "final"
     \/ publisher = "final" /\ publisher' = "gone"
  /\ UNCHANGED <<shutdown, loop, supervisors, task, late>>
PublisherStep ==
  /\ \/ publisher = "check" /\ publisher' = IF stop THEN "final" ELSE "publish"
     \/ publisher = "publish" /\ publisher' \in {"check", "sleep"}
     \/ publisher = "sleep" /\ publisher' = "check"
     \/ publisher = "sleep" /\ stop /\ publisher' = "final"
     \/ publisher = "final" /\ publisher' = "gone"
  /\ UNCHANGED <<shutdown, loop, supervisors, task, late>>

-----------------------------------------------------------------------------
(* crates/crawlrs-bin: wait_for_signal, the bridge task and `crawl'        *)

Signal ==
  /\ ~signalled
  /\ signalled' = TRUE
  /\ UNCHANGED <<ready, http, stop, process, others, supervisors, task, late>>

MarkNotReady ==
  /\ signalled /\ ready
  /\ ready' = FALSE
  /\ UNCHANGED <<signalled, http, stop, process, others, supervisors, task, late>>

\* After the drain delay: Crawler::shutdown.
Shutdown ==
  /\ signalled /\ ~ready /\ ~stop
  /\ stop' = TRUE
  /\ UNCHANGED <<signalled, ready, http, process, others, supervisors, task, late>>

StopHttp ==
  /\ stop /\ http
  /\ http' = FALSE
  /\ UNCHANGED <<signalled, ready, stop, process, others, supervisors, task, late>>

\* The JoinSet of Crawler::run is empty.
JoinAll ==
  /\ process = "running"
  /\ \A l \in {"tick", "heartbeat"} : loop[l] = "gone"
  /\ publisher = "gone"
  /\ \A w \in Workers : sup[w] = "gone"
  /\ process' = "joined"
  /\ UNCHANGED <<signalled, ready, http, stop, others, supervisors, task, late>>

Exit ==
  /\ process = "joined"
  /\ ~http /\ loop["gauges"] = "gone" /\ signalled
  /\ process' = "exited"
  /\ UNCHANGED <<signalled, ready, http, stop, others, supervisors, task, late>>

Elapse ==
  /\ process # "exited"
  /\ since' = [w \in Workers |->
                 IF since[w] \in 0 .. ResetWindow THEN since[w] + 1 ELSE since[w]]
  /\ pause' = [w \in Workers |-> IF pause[w] > 0 THEN pause[w] - 1 ELSE 0]
  /\ UNCHANGED <<shutdown, others, sup, restart_count, streak, task, late>>

-----------------------------------------------------------------------------
Supervise(w) == Spawn(w) \/ Join(w) \/ BackoffOver(w)
WorkerLoop(w) == LoopTop(w) \/ ClaimReturns(w) \/ SleepOver(w) \/ ProcessUrl(w)
Bridge == MarkNotReady \/ Shutdown \/ StopHttp

Next ==
  \/ \E w \in Workers : Supervise(w) \/ WorkerLoop(w) \/ Panic(w)
  \/ \E l \in Loops : LoopTick(l) \/ LoopWork(l) \/ LoopStop(l)
  \/ PublisherStep \/ Signal \/ Bridge \/ JoinAll \/ Exit \/ Elapse

Spec == Init /\ [][Next]_vars

\* The runtime polls every task that can go on.  A loop that waits sees the
\* closed channel the next time it is polled, before its timer fires again.
Fairness ==
  /\ \A w \in Workers : WF_vars(Supervise(w)) /\ WF_vars(WorkerLoop(w))
  /\ \A l \in Loops : WF_vars(LoopWork(l)) /\ SF_vars(LoopStop(l))
  /\ WF_vars(PublisherStep) /\ WF_vars(Bridge)
  /\ WF_vars(JoinAll) /\ WF_vars(Exit) /\ WF_vars(Elapse)

FairSpec == Spec /\ Fairness

-----------------------------------------------------------------------------
\* Crawler::run returns only when no worker is inside a URL, whatever races
\* there are between panics, respawns and the shutdown.
InFlightFinished ==
  process # "running" => \A w \in Workers : task[w] \in {"none", "exited", "panicked"}

\* After the shutdown flag is up a worker takes at most the one URL whose
\* claim it had already decided on; a respawned worker takes none.
AtMostOneLateClaim == \A w \in Workers : late[w] <= 1

\* A supervisor gives up before the shutdown only on a worker that exited
\* max_restarts + 1 times with no quiet reset_window in between, and no
\* worker is respawned more often than that.
GiveUpJustified ==
  \A w \in Workers :
    /\ streak[w] <= MaxRestarts + 1
    /\ sup[w] = "gone" /\ ~stop => streak[w] = MaxRestarts + 1

\* A signal ends the process, whatever the workers, their panics and their
\* backoffs are doing.
GracefulStop == signalled ~> process = "exited"

\* A crashed worker is working again unless its budget ran out or the
\* process is stopping.
WorkerComesBack ==
  \A w \in Workers :
    task[w] = "panicked" ~> task[w] = "claim" \/ sup[w] = "gone"
=============================================================================
