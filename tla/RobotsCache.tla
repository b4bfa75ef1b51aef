----------------------------- MODULE RobotsCache ----------------------------
(***************************************************************************)
(* The robots.txt cache of one host (crates/crawlrs-politeness: robots.rs, *)
(* robots_checker.rs, composite.rs): an in-process cache per pod, a Redis  *)
(* hash shared by the pods, and the host itself, whose answer changes.     *)
(*                                                                         *)
(* write_cache is a pipeline without MULTI, so each of its commands is a   *)
(* step and the commands of several pods mix.  Lifetimes are the time      *)
(* left.  Between two steps of a check at most MaxDelay passes.            *)
(***************************************************************************)
EXTENDS Integers

CONSTANTS
  Pods, Workers, \* processes and their worker tasks
  PodOf,         \* PodOf[w]: the pod of a worker
  Bodies,        \* robots.txt bodies the host may serve
  Forbids,       \* bodies whose rules forbid the URL at hand
  BaseTtl,       \* robots_ttl, the lifetime of an in-process entry
  Bucket,        \* the host's jitter bucket, 0 .. 40
  ObeyGlobal,    \* obey_robots_txt of the configuration
  ObeyHost,      \* the host's override of it, or "unset"
  MaxDelay,      \* bound: how long one step of a check may take
  MaxFaults      \* bound: failed Redis calls and broken connections

Absent == "absent"
Answers == Bodies \cup {Absent}
NoAnswer == "none"
NoTtl == -1

ASSUME RobotsAssumption ==
  /\ PodOf \in [Workers -> Pods] /\ Forbids \subseteq Bodies
  /\ Absent \notin Bodies /\ NoAnswer \notin Bodies
  /\ BaseTtl \in Nat \ {0} /\ Bucket \in 0 .. 40
  /\ ObeyGlobal \in BOOLEAN /\ ObeyHost \in {"unset", TRUE, FALSE}
  /\ MaxDelay \in Nat /\ MaxFaults \in Nat

\* jittered_ttl: between 80 and 120 percent of the base, a second at least.
JitteredTtl ==
  LET scaled == (BaseTtl * (80 + Bucket)) \div 100
  IN  IF scaled < 1 THEN 1 ELSE scaled

\* The oldest answer a verdict may rest on: the last tick of either lifetime,
\* and the delays of the three commands of the pipeline that wrote it, of the
\* insertion of the pod that read it and of the verdict.
MaxAge == (JitteredTtl - 1) + (BaseTtl - 1) + 5 * MaxDelay

VARIABLES
  origin,        \* what the host serves as robots.txt
  status, body,  \* the fields of the shared hash, NoAnswer when missing
  expires,       \* its time to live, NoTtl when it has none
  local, lives,  \* each pod's in-process entry and its time to live
  pc,            \* where each worker's check is
  got,           \* the answer it carries
  waited,        \* how long its current step has taken
  faults,        \* how much of MaxFaults is used
  age,           \* observation: time since a fetch gave each answer
  torn           \* observation: a hash was left without an expiry

shared == <<status, body, expires>>
vars == <<origin, shared, local, lives, pc, got, waited, faults, age, torn>>

Phases == {"idle", "read", "fetch", "status", "body", "expire", "insert",
            "allow", "disallow"}

TypeOK ==
  /\ origin \in Answers
  /\ status \in {"ok", Absent, NoAnswer} /\ body \in Bodies \cup {NoAnswer}
  /\ expires \in NoTtl .. JitteredTtl
  /\ local \in [Pods -> Answers \cup {NoAnswer}] /\ lives \in [Pods -> 0 .. BaseTtl]
  /\ pc \in [Workers -> Phases] /\ got \in [Workers -> Answers \cup {NoAnswer}]
  /\ waited \in [Workers -> 0 .. MaxDelay] /\ faults \in 0 .. MaxFaults
  /\ age \in [Answers -> 0 .. MaxAge + 1] /\ torn \in BOOLEAN

\* Nothing is cached and nothing was ever fetched.
Init ==
  /\ origin \in Answers
  /\ status = NoAnswer /\ body = NoAnswer /\ expires = NoTtl
  /\ local = [p \in Pods |-> NoAnswer] /\ lives = [p \in Pods |-> 0]
  /\ pc = [w \in Workers |-> "idle"] /\ got = [w \in Workers |-> NoAnswer]
  /\ waited = [w \in Workers |-> 0] /\ faults = 0
  /\ age = [a \in Answers |-> MaxAge + 1] /\ torn = FALSE

Fault == faults < MaxFaults /\ faults' = faults + 1

Moves(w, phase, answer) ==
  /\ pc' = [pc EXCEPT ![w] = phase] /\ got' = [got EXCEPT ![w] = answer]
  /\ waited' = [waited EXCEPT ![w] = 0]

-----------------------------------------------------------------------------
(* check and body_for                                                      *)

\* effective_obey_robots: the host's override before the global setting.
EffectiveObeyRobots == IF ObeyHost = "unset" THEN ObeyGlobal ELSE ObeyHost

\* evaluate_rules: an empty, unreadable or unparsable body allows everything.
Verdict(answer) == IF answer \in Forbids THEN "disallow" ELSE "allow"

\* check, past the circuit breaker: the in-process entry answers at once.
Lookup(w) ==
  /\ pc[w] = "idle"
  /\ LET cached == local[PodOf[w]]
     IN  IF ~EffectiveObeyRobots THEN Moves(w, "allow", NoAnswer)
         ELSE IF cached = NoAnswer THEN Moves(w, "read", NoAnswer)
         ELSE Moves(w, Verdict(cached), cached)
  /\ UNCHANGED <<origin, shared, local, lives, faults, age, torn>>

\* read_cache: the answer in the hash, NoAnswer for a miss.  An "ok" without
\* a body is a miss.
EmptyWhenMissing == IF status = "ok" THEN (IF body = NoAnswer THEN Absent ELSE body) ELSE status
SharedAnswer == IF status = "ok" THEN body ELSE status

ReadCache(w) ==
  /\ pc[w] = "read"
  /\ Moves(w, IF SharedAnswer = NoAnswer THEN "fetch" ELSE "insert", SharedAnswer)
  /\ UNCHANGED <<origin, shared, local, lives, faults, age, torn>>

\* fetch_and_cache: a failed fetch and every status other than 200 count as
\* no robots.txt.
FetchRobots(w) ==
  /\ pc[w] = "fetch"
  /\ \E a \in {origin, Absent} :
       /\ Moves(w, "status", a)
       /\ age' = [age EXCEPT ![a] = 0]
  /\ UNCHANGED <<origin, shared, local, lives, faults, torn>>

\* The hash exists in Redis.
Cached == status # NoAnswer \/ body # NoAnswer

\* A command on a hash that has expired creates it anew, without an expiry.
WriteStatus(w) ==
  /\ pc[w] = "status"
  /\ status' = IF got[w] = Absent THEN Absent ELSE "ok"
  /\ Moves(w, "body", got[w])
  /\ UNCHANGED <<origin, body, expires, local, lives, faults, age, torn>>

\* HSET body, or HDEL body: a hash that loses its last field is deleted, and
\* its expiry with it.
WriteBody(w) ==
  /\ pc[w] = "body"
  /\ body' = IF got[w] = Absent THEN NoAnswer ELSE got[w]
  /\ expires' = IF status = NoAnswer /\ body' = NoAnswer THEN NoTtl ELSE expires
  /\ Moves(w, "expire", got[w])
  /\ UNCHANGED <<origin, status, local, lives, faults, age, torn>>

WriteExpire(w) ==
  /\ pc[w] = "expire"
  /\ expires' = IF Cached THEN JitteredTtl ELSE NoTtl
  /\ Moves(w, "insert", got[w])
  /\ UNCHANGED <<origin, status, body, local, lives, faults, age, torn>>

\* The answer goes into the pod's own cache on the way back.
Insert(w) ==
  /\ pc[w] = "insert"
  /\ local' = [local EXCEPT ![PodOf[w]] = got[w]]
  /\ lives' = [lives EXCEPT ![PodOf[w]] = BaseTtl]
  /\ Moves(w, Verdict(got[w]), got[w])
  /\ UNCHANGED <<origin, shared, faults, age, torn>>

\* The worker acts on the verdict.
Decide(w) ==
  /\ pc[w] \in {"allow", "disallow"} /\ Moves(w, "idle", NoAnswer)
  /\ UNCHANGED <<origin, shared, local, lives, faults, age, torn>>

\* A Redis call fails: the check is an error and nothing is inserted.  The
\* commands the server has already run stay; when EXPIRE is not among them a
\* hash without an expiry may keep none.
CallFails(w) ==
  /\ pc[w] \in {"read", "status", "body", "expire"} /\ Fault
  /\ torn' = (torn \/ (pc[w] \in {"body", "expire"} /\ Cached /\ expires = NoTtl))
  /\ Moves(w, "idle", NoAnswer)
  /\ UNCHANGED <<origin, shared, local, lives, age>>

-----------------------------------------------------------------------------
(* The environment                                                         *)

\* The host changes its robots.txt.
Change ==
  /\ origin' \in Answers \ {origin}
  /\ UNCHANGED <<shared, local, lives, pc, got, waited, faults, age, torn>>

\* The LRU drops the host, or the pod restarts.
Evict(p) ==
  /\ local[p] # NoAnswer
  /\ local' = [local EXCEPT ![p] = NoAnswer] /\ lives' = [lives EXCEPT ![p] = 0]
  /\ UNCHANGED <<origin, shared, pc, got, waited, faults, age, torn>>

\* Time passes: entries of either cache expire when their time is up.
Elapse ==
  /\ \A w \in Workers : pc[w] # "idle" => waited[w] < MaxDelay
  /\ waited' = [w \in Workers |-> IF pc[w] = "idle" THEN 0 ELSE waited[w] + 1]
  /\ age' = [a \in Answers |-> IF age[a] > MaxAge THEN age[a] ELSE age[a] + 1]
  /\ lives' = [p \in Pods |-> IF lives[p] = 0 THEN 0 ELSE lives[p] - 1]
  /\ local' = [p \in Pods |-> IF lives'[p] = 0 THEN NoAnswer ELSE local[p]]
  /\ IF expires > 1
       THEN expires' = expires - 1 /\ UNCHANGED <<status, body>>
       ELSE IF expires = 1
         THEN expires' = NoTtl /\ status' = NoAnswer /\ body' = NoAnswer
         ELSE UNCHANGED shared
  /\ UNCHANGED <<origin, pc, got, faults, torn>>

Next ==
  \/ \E w \in Workers :
       \/ Lookup(w) \/ ReadCache(w) \/ FetchRobots(w)
       \/ WriteStatus(w) \/ WriteBody(w) \/ WriteExpire(w) \/ Insert(w)
       \/ Decide(w) \/ CallFails(w)
  \/ \E p \in Pods : Evict(p)
  \/ Change \/ Elapse

Spec == Init /\ [][Next]_vars

-----------------------------------------------------------------------------
(* Properties                                                              *)

\* A verdict rests on an answer some pod got from the host within the two
\* lifetimes and the delays of the calls, whatever pods write concurrently:
\* old rules do not outlive them, and everything is allowed only if a fetch
\* failed or found no robots.txt that recently.  A pipeline that broke off
\* before its EXPIRE is the exception: its entry stays for ever.
AnswersFresh ==
  ~torn => \A w \in Workers :
    /\ pc[w] = "allow" /\ EffectiveObeyRobots => age[got[w]] <= MaxAge /\ got[w] \notin Forbids
    /\ pc[w] = "disallow" => age[got[w]] <= MaxAge
=============================================================================
