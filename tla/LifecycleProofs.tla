--------------------------- MODULE LifecycleProofs --------------------------
(***************************************************************************)
(* Safety of the supervisors and the shutdown, for any number of workers   *)
(* and any restart policy.                                                 *)
(***************************************************************************)
EXTENDS Lifecycle, TLAPS

Resting == {"none", "exited", "panicked"}

\* A supervisor that is not waiting for its worker has none that runs, and
\* run() has returned only after every supervisor has.
TaskInv ==
  /\ \A w \in Workers : sup[w] # "join" => task[w] \in Resting
  /\ process # "running" => \A w \in Workers : sup[w] = "gone"

\* No claim was late while the flag is down, nor for a worker that is about
\* to claim: a worker claims only after it has seen the flag down.
LateInv ==
  \A w \in Workers :
    /\ late[w] <= 1
    /\ ~stop \/ task[w] = "claim" => late[w] = 0

\* Until a supervisor returns, its budget counts the exits of the current
\* streak; a supervisor that returned was stopped or has used its budget up.
StreakInv ==
  \A w \in Workers :
    /\ since[w] = Never => restart_count[w] = 0
    /\ sup[w] # "gone" => streak[w] = restart_count[w]
    /\ sup[w] = "gone" => streak[w] <= MaxRestarts + 1
    /\ sup[w] = "gone" /\ ~stop => streak[w] = MaxRestarts + 1

-----------------------------------------------------------------------------
\* The backoff of supervise_worker stays within max_backoff, also where
\* checked_shl overflows.
LEMMA BackoffBounded ==
  ASSUME NEW n
  PROVE  Backoff(n) \in 0 .. MaxBackoff
<1>1. MaxBackoff \in 0 .. MaxBackoff
  BY PolicyAssumption
<1> DEFINE scaled == BaseBackoff * Scale(n - 1)
<1>2. Backoff(n) = IF scaled \in 0 .. MaxBackoff THEN scaled ELSE MaxBackoff
  BY Zenon DEF Backoff
<1> HIDE DEF scaled
<1> QED
  BY <1>1, <1>2, Zenon

LEMMA TypeInit == Init => TypeOK
<1> SUFFICES ASSUME Init
             PROVE  TypeOK
  OBVIOUS
<1>1. 0 \in 0 .. MaxRestarts /\ 0 \in 0 .. MaxBackoff /\ 0 \in Nat
  BY PolicyAssumption
<1>2. /\ signalled \in BOOLEAN /\ ready \in BOOLEAN /\ http \in BOOLEAN /\ stop \in BOOLEAN
      /\ loop \in [Loops -> {"wait", "busy", "gone"}]
      /\ publisher \in {"check", "publish", "sleep", "final", "gone"}
      /\ process \in {"running", "joined", "exited"}
  BY Zenon DEF Init
<1>3. /\ sup \in [Workers -> {"check", "join", "backoff", "gone"}]
      /\ task \in [Workers -> {"none", "loop", "claim", "sleep", "url", "exited", "panicked"}]
      /\ since \in [Workers -> {Never} \cup 0 .. ResetWindow + 1]
  BY Zenon DEF Init
<1>4. /\ restart_count \in [Workers -> 0 .. MaxRestarts] /\ pause \in [Workers -> 0 .. MaxBackoff]
      /\ streak \in [Workers -> Nat] /\ late \in [Workers -> Nat]
  BY <1>1, Zenon DEF Init
<1> QED
  BY <1>2, <1>3, <1>4, Zenon DEF TypeOK

\* The budget a supervisor decides with is the count or zero.
LEMMA BudgetType ==
  ASSUME TypeOK, NEW w \in Workers
  PROVE  Budget(w) \in 0 .. MaxRestarts
<1>1. restart_count[w] \in 0 .. MaxRestarts
  BY DEF TypeOK
<1> QED
  BY <1>1, PolicyAssumption DEF Budget

\* What decide_restart and the backoff write.
LEMMA JoinType ==
  ASSUME TypeOK, NEW w \in Workers, Join(w)
  PROVE  TypeOK'
<1>1. UNCHANGED <<signalled, ready, http, stop, process, loop, publisher, task, late>>
  BY DEF Join, shutdown, others
<1>2. CASE UNCHANGED <<restart_count, since, pause, streak>>
  <2>1. sup' \in [Workers -> {"check", "join", "backoff", "gone"}]
    BY PolicyAssumption DEF TypeOK, Join, GiveUp, Restart
  <2> QED
    BY <1>1, <1>2, <2>1 DEF TypeOK
<1>3. CASE /\ GiveUp(w)
           /\ streak' = [streak EXCEPT ![w] = IF since[w] # Never /\ ~Stable(w)
                                                THEN @ + 1 ELSE 1]
  <2>1. restart_count' \in [Workers -> 0 .. MaxRestarts]
    BY <1>3, BudgetType DEF TypeOK, GiveUp
  <2>2. streak' \in [Workers -> Nat]
    BY <1>3 DEF TypeOK
  <2>3. sup' \in [Workers -> {"check", "join", "backoff", "gone"}]
        /\ UNCHANGED <<since, pause>>
    BY <1>3 DEF TypeOK, GiveUp
  <2> QED
    BY <1>1, <2>1, <2>2, <2>3 DEF TypeOK
<1>4. CASE /\ Restart(w)
           /\ streak' = [streak EXCEPT ![w] = IF since[w] # Never /\ ~Stable(w)
                                                THEN @ + 1 ELSE 1]
  <2>1. Budget(w) + 1 \in 0 .. MaxRestarts
    BY <1>4, BudgetType, PolicyAssumption DEF Restart
  <2>2. restart_count' \in [Workers -> 0 .. MaxRestarts]
    BY <1>4, <2>1 DEF TypeOK, Restart
  <2>3. streak' \in [Workers -> Nat]
    BY <1>4 DEF TypeOK
  <2>4. since' \in [Workers -> {Never} \cup 0 .. ResetWindow + 1]
    BY <1>4, PolicyAssumption DEF TypeOK, Restart
  <2>5. pause' \in [Workers -> 0 .. MaxBackoff]
    BY <1>4, BackoffBounded DEF TypeOK, Restart
  <2>6. sup' \in [Workers -> {"check", "join", "backoff", "gone"}]
    BY <1>4 DEF TypeOK, Restart
  <2> QED
    BY <1>1, <2>2, <2>3, <2>4, <2>5, <2>6 DEF TypeOK
<1> QED
  BY <1>2, <1>3, <1>4 DEF Join

\* A unit of time.
LEMMA ElapseType ==
  ASSUME TypeOK, Elapse
  PROVE  TypeOK'
<1>1. since' \in [Workers -> {Never} \cup 0 .. ResetWindow + 1]
  <2>1. ASSUME NEW w \in Workers
        PROVE  (IF since[w] \in 0 .. ResetWindow THEN since[w] + 1 ELSE since[w])
                 \in {Never} \cup 0 .. ResetWindow + 1
    <3>1. since[w] \in {Never} \cup 0 .. ResetWindow + 1
      BY DEF TypeOK
    <3> QED
      BY <3>1, PolicyAssumption
  <2> QED
    BY <2>1 DEF Elapse
<1>2. pause' \in [Workers -> 0 .. MaxBackoff]
  <2>1. ASSUME NEW w \in Workers
        PROVE  (IF pause[w] > 0 THEN pause[w] - 1 ELSE 0) \in 0 .. MaxBackoff
    <3>1. pause[w] \in 0 .. MaxBackoff
      BY DEF TypeOK
    <3> QED
      BY <3>1, PolicyAssumption
  <2> QED
    BY <2>1 DEF Elapse
<1> QED
  BY <1>1, <1>2 DEF TypeOK, Elapse, shutdown, others

LEMMA TypeStep == TypeOK /\ [Next]_vars => TypeOK'
<1> SUFFICES ASSUME TypeOK, [Next]_vars
             PROVE  TypeOK'
  OBVIOUS
<1>1. ASSUME NEW w \in Workers, Spawn(w) \/ BackoffOver(w)
      PROVE  TypeOK'
  BY <1>1 DEF TypeOK, Spawn, BackoffOver, shutdown, others
<1>2. ASSUME NEW w \in Workers, Join(w)
      PROVE  TypeOK'
  BY <1>2, JoinType
<1>3. ASSUME NEW w \in Workers, LoopTop(w) \/ SleepOver(w) \/ ProcessUrl(w) \/ Panic(w)
      PROVE  TypeOK'
  BY <1>3 DEF TypeOK, LoopTop, SleepOver, ProcessUrl, Panic, shutdown, others, supervisors
<1>4. ASSUME NEW w \in Workers, ClaimReturns(w)
      PROVE  TypeOK'
  BY <1>4 DEF TypeOK, ClaimReturns, shutdown, others, supervisors
<1>5. ASSUME NEW l \in Loops, LoopTick(l) \/ LoopWork(l) \/ LoopStop(l)
      PROVE  TypeOK'
  BY <1>5 DEF TypeOK, LoopTick, LoopWork, LoopStop, shutdown, supervisors
<1>6. CASE PublisherStep
  BY <1>6 DEF TypeOK, PublisherStep, shutdown, supervisors
<1>7. CASE Signal \/ Bridge \/ JoinAll \/ Exit
  BY <1>7, Zenon DEF TypeOK, Signal, Bridge, MarkNotReady, Shutdown, StopHttp, JoinAll, Exit,
              others, supervisors
<1>8. CASE Elapse
  BY <1>8, ElapseType
<1>9. CASE UNCHANGED vars
  BY <1>9 DEF TypeOK, vars, shutdown, others, supervisors
<1> QED
  BY <1>1, <1>2, <1>3, <1>4, <1>5, <1>6, <1>7, <1>8, <1>9 DEF Next, Supervise, WorkerLoop

\* Types of the process state, through every panic, restart and shutdown.
THEOREM TypeCorrect == Spec => []TypeOK
<1> QED
  BY TypeInit, TypeStep, PTL DEF Spec

-----------------------------------------------------------------------------
LEMMA TaskStep ==
  ASSUME TypeOK, TaskInv, [Next]_vars
  PROVE  TaskInv'
<1>1. ASSUME NEW w \in Workers, Spawn(w) \/ Join(w) \/ BackoffOver(w)
      PROVE  TaskInv'
  <2>1. sup[w] # "gone" /\ process = "running" /\ process' = process
    BY <1>1 DEF TaskInv, Spawn, Join, BackoffOver, shutdown
  <2>2. \A v \in Workers \ {w} : sup'[v] = sup[v] /\ task'[v] = task[v]
    BY <1>1 DEF TypeOK, Spawn, Join, GiveUp, Restart, BackoffOver
  <2>3. sup'[w] # "join" => task'[w] \in Resting
    BY <1>1 DEF TypeOK, TaskInv, Spawn, Join, GiveUp, Restart, BackoffOver, Resting
  <2> QED
    BY <2>1, <2>2, <2>3 DEF TaskInv
<1>2. ASSUME NEW w \in Workers, WorkerLoop(w) \/ Panic(w)
      PROVE  TaskInv'
  <2>1. task[w] \notin Resting /\ UNCHANGED <<sup, process>>
    BY <1>2 DEF WorkerLoop, LoopTop, ClaimReturns, SleepOver, ProcessUrl, Panic, Resting,
                supervisors, shutdown
  <2>2. \A v \in Workers \ {w} : task'[v] = task[v]
    BY <1>2 DEF TypeOK, WorkerLoop, LoopTop, ClaimReturns, SleepOver, ProcessUrl, Panic
  <2> QED
    BY <2>1, <2>2 DEF TaskInv
<1>3. CASE JoinAll
  BY <1>3 DEF TaskInv, JoinAll, supervisors
<1>4. CASE Exit
  BY <1>4 DEF TaskInv, Exit, supervisors
<1>5. CASE \/ \E l \in Loops : LoopTick(l) \/ LoopWork(l) \/ LoopStop(l)
           \/ PublisherStep \/ Signal \/ Bridge \/ Elapse \/ UNCHANGED vars
  <2>1. UNCHANGED <<sup, task, process>>
    BY <1>5 DEF LoopTick, LoopWork, LoopStop, PublisherStep, Signal, Bridge, MarkNotReady,
                Shutdown, StopHttp, Elapse, vars, supervisors, shutdown
  <2> QED
    BY <2>1 DEF TaskInv
<1> QED
  BY <1>1, <1>2, <1>3, <1>4, <1>5 DEF Next, Supervise

\* Crawler::run returns with no worker inside a URL: a supervisor waits for
\* its task before it returns, and run for every supervisor.
THEOREM InFlightCorrect == Spec => []InFlightFinished
<1>1. Init => TaskInv
  BY DEF Init, TaskInv, Resting
<1>2. TypeOK /\ TaskInv /\ [Next]_vars => TaskInv'
  BY TaskStep
<1>3. TaskInv => InFlightFinished
  BY Zenon DEF TaskInv, InFlightFinished, Resting
<1> QED
  BY <1>1, <1>2, <1>3, TypeCorrect, PTL DEF Spec

-----------------------------------------------------------------------------
LEMMA LateStep ==
  ASSUME TypeOK, LateInv, [Next]_vars
  PROVE  LateInv'
<1>1. ASSUME NEW w \in Workers, ClaimReturns(w)
      PROVE  LateInv'
  <2>1. \A v \in Workers \ {w} : task'[v] = task[v] /\ late'[v] = late[v]
    BY <1>1 DEF TypeOK, ClaimReturns
  <2>2. late[w] = 0 /\ task'[w] # "claim" /\ stop' = stop
    BY <1>1 DEF TypeOK, LateInv, ClaimReturns, shutdown
  <2>3. late'[w] = IF stop /\ task'[w] = "url" THEN 1 ELSE 0
    BY <1>1, <2>2 DEF TypeOK, ClaimReturns
  <2> QED
    BY <2>1, <2>2, <2>3 DEF LateInv
<1>2. ASSUME NEW w \in Workers, LoopTop(w) \/ SleepOver(w) \/ ProcessUrl(w) \/ Panic(w)
                                \/ Spawn(w) \/ Join(w) \/ BackoffOver(w)
      PROVE  LateInv'
  <2>1. UNCHANGED <<late, stop>>
    BY <1>2 DEF LoopTop, SleepOver, ProcessUrl, Panic, Spawn, Join, BackoffOver, shutdown
  <2>2. \A v \in Workers : task'[v] = "claim" => task[v] = "claim" \/ ~stop
    BY <1>2 DEF TypeOK, LoopTop, SleepOver, ProcessUrl, Panic, Spawn, Join, BackoffOver
  <2> QED
    BY <2>1, <2>2 DEF LateInv
<1>3. CASE \/ \E l \in Loops : LoopTick(l) \/ LoopWork(l) \/ LoopStop(l)
           \/ PublisherStep \/ Signal \/ Bridge \/ JoinAll \/ Exit \/ Elapse \/ UNCHANGED vars
  <2>1. UNCHANGED <<task, late>> /\ (stop => stop')
    BY <1>3 DEF LoopTick, LoopWork, LoopStop, PublisherStep, Signal, Bridge, MarkNotReady,
                Shutdown, StopHttp, JoinAll, Exit, Elapse, vars, shutdown
  <2> QED
    BY <2>1 DEF LateInv
<1> QED
  BY <1>1, <1>2, <1>3 DEF Next, Supervise, WorkerLoop

\* At most one URL per worker is claimed after the shutdown flag is up,
\* whatever panics and respawns there are.
THEOREM LateCorrect == Spec => []AtMostOneLateClaim
<1>1. Init => LateInv
  <2>1. ASSUME Init, NEW w \in Workers
        PROVE  late[w] = 0 /\ late[w] <= 1
    <3>1. late[w] = 0
      BY <2>1, Zenon DEF Init
    <3> QED
      BY <3>1
  <2> QED
    BY <2>1, Zenon DEF LateInv
<1>2. TypeOK /\ LateInv /\ [Next]_vars => LateInv'
  BY LateStep
<1>3. LateInv => AtMostOneLateClaim
  BY Zenon DEF LateInv, AtMostOneLateClaim
<1> QED
  BY <1>1, <1>2, <1>3, TypeCorrect, PTL DEF Spec

-----------------------------------------------------------------------------
\* decide_restart: the streak and the budget grow and start over together.
LEMMA JoinStreak ==
  ASSUME TypeOK, StreakInv, NEW w \in Workers, Join(w)
  PROVE  StreakInv'
<1>1. \A v \in Workers \ {w} :
        /\ sup'[v] = sup[v] /\ since'[v] = since[v]
        /\ restart_count'[v] = restart_count[v] /\ streak'[v] = streak[v]
  BY DEF TypeOK, Join, GiveUp, Restart
<1>2. stop' = stop /\ sup[w] = "join"
  BY DEF Join, shutdown
<1>3. streak[w] = restart_count[w] /\ restart_count[w] \in 0 .. MaxRestarts
      /\ (since[w] = Never => restart_count[w] = 0)
  BY <1>2 DEF TypeOK, StreakInv
<1>4. CASE stop /\ sup' = [sup EXCEPT ![w] = "gone"] /\ UNCHANGED <<restart_count, since, pause, streak>>
  <2>1. sup'[w] = "gone" /\ streak'[w] <= MaxRestarts + 1
    BY <1>3, <1>4, PolicyAssumption DEF TypeOK
  <2> QED
    BY <1>1, <1>2, <1>3, <1>4, <2>1 DEF StreakInv
<1>5. CASE /\ ~stop
           /\ GiveUp(w) \/ Restart(w)
           /\ streak' = [streak EXCEPT ![w] = IF since[w] # Never /\ ~Stable(w)
                                                THEN @ + 1 ELSE 1]
  <2>1. streak'[w] = IF since[w] # Never /\ ~Stable(w) THEN streak[w] + 1 ELSE 1
    BY <1>5 DEF TypeOK
  <2>2. streak'[w] = Budget(w) + 1
    BY <1>3, <2>1 DEF Budget, Stable
  <2>3. Budget(w) \in 0 .. MaxRestarts
    BY BudgetType
  <2>4. CASE GiveUp(w)
    <3>1. Budget(w) = MaxRestarts
      BY <2>3, <2>4, PolicyAssumption DEF GiveUp
    <3>2. sup'[w] = "gone" /\ restart_count'[w] = Budget(w) /\ since'[w] = since[w]
      BY <2>4 DEF TypeOK, GiveUp
    <3>3. since[w] = Never => Budget(w) = 0
      BY <1>3 DEF Budget
    <3> QED
      BY <1>1, <1>2, <2>2, <3>1, <3>2, <3>3, PolicyAssumption DEF StreakInv
  <2>5. CASE Restart(w)
    <3>1. /\ sup'[w] = "backoff" /\ restart_count'[w] = Budget(w) + 1
          /\ since'[w] = 0
      BY <2>5 DEF TypeOK, Restart
    <3>2. since'[w] # Never
      BY <3>1 DEF Never
    <3> QED
      BY <1>1, <1>2, <2>2, <3>1, <3>2, Zenon DEF StreakInv
  <2> QED
    BY <1>5, <2>4, <2>5
<1> QED
  BY <1>4, <1>5 DEF Join

LEMMA StreakStep ==
  ASSUME TypeOK, StreakInv, [Next]_vars
  PROVE  StreakInv'
<1>1. ASSUME NEW w \in Workers, Spawn(w) \/ BackoffOver(w)
      PROVE  StreakInv'
  <2>1. UNCHANGED <<restart_count, since, streak, stop>>
    BY <1>1 DEF Spawn, BackoffOver, shutdown
  <2>2. \A v \in Workers : sup'[v] = "gone" => sup[v] = "gone" \/ (v = w /\ stop)
    BY <1>1 DEF TypeOK, Spawn, BackoffOver
  <2>3. sup[w] # "gone" /\ \A v \in Workers : v # w => sup'[v] = sup[v]
    BY <1>1 DEF TypeOK, Spawn, BackoffOver
  <2>4. streak[w] = restart_count[w] /\ restart_count[w] <= MaxRestarts + 1
    BY <2>3, PolicyAssumption DEF TypeOK, StreakInv
  <2> QED
    BY <2>1, <2>2, <2>3, <2>4 DEF StreakInv
<1>2. ASSUME NEW w \in Workers, Join(w)
      PROVE  StreakInv'
  BY <1>2, JoinStreak
<1>3. CASE Elapse
  <2>1. UNCHANGED <<restart_count, sup, streak, stop>>
    BY <1>3 DEF Elapse, shutdown
  <2>2. \A w \in Workers : since'[w] = Never => since[w] = Never
    BY <1>3 DEF TypeOK, Elapse, Never
  <2> QED
    BY <2>1, <2>2 DEF StreakInv
<1>4. CASE \/ \E w \in Workers : WorkerLoop(w) \/ Panic(w)
           \/ \E l \in Loops : LoopTick(l) \/ LoopWork(l) \/ LoopStop(l)
           \/ PublisherStep \/ Signal \/ Bridge \/ JoinAll \/ Exit \/ UNCHANGED vars
  <2>1. UNCHANGED <<sup, restart_count, since, streak>> /\ (stop => stop')
    <3>1. CASE \E w \in Workers : WorkerLoop(w) \/ Panic(w)
      BY <3>1, SMTT(60) DEF WorkerLoop, LoopTop, ClaimReturns, SleepOver, ProcessUrl, Panic, shutdown, supervisors
    <3>2. CASE (\E l \in Loops : LoopTick(l) \/ LoopWork(l) \/ LoopStop(l)) \/ PublisherStep
      BY <3>2, SMTT(60) DEF LoopTick, LoopWork, LoopStop, PublisherStep, shutdown, supervisors
    <3>3. CASE Signal \/ Bridge \/ JoinAll \/ Exit \/ UNCHANGED vars
      BY <3>3, SMTT(60) DEF Signal, Bridge, MarkNotReady, Shutdown, StopHttp, JoinAll, Exit, vars,
                         shutdown, supervisors
    <3> QED
      BY <1>4, <3>1, <3>2, <3>3, Zenon
  <2> QED
    BY <2>1 DEF StreakInv
<1> QED
  BY <1>1, <1>2, <1>3, <1>4 DEF Next, Supervise

\* A supervisor gives a worker up only when its budget is used up by exits
\* that followed each other within reset_window.
THEOREM GiveUpCorrect == Spec => []GiveUpJustified
<1>1. Init => StreakInv
  BY PolicyAssumption, Zenon DEF Init, StreakInv
<1>2. TypeOK /\ StreakInv /\ [Next]_vars => StreakInv'
  BY StreakStep
<1>3. TypeOK /\ StreakInv => GiveUpJustified
  <2> SUFFICES ASSUME TypeOK, StreakInv, NEW w \in Workers
               PROVE  /\ streak[w] <= MaxRestarts + 1
                      /\ sup[w] = "gone" /\ ~stop => streak[w] = MaxRestarts + 1
    BY Zenon DEF GiveUpJustified
  <2>1. restart_count[w] \in 0 .. MaxRestarts
    BY DEF TypeOK
  <2> QED
    BY <2>1, PolicyAssumption DEF StreakInv
<1> QED
  BY <1>1, <1>2, <1>3, TypeCorrect, PTL DEF Spec
=============================================================================
