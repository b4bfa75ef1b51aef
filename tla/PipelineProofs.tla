--------------------------- MODULE PipelineProofs ---------------------------
(***************************************************************************)
(* Proofs about Pipeline for any set of URLs and links, any number of      *)
(* workers and publishers, any retry budget and any number of faults.      *)
(***************************************************************************)
EXTENDS Pipeline, FiniteSetTheorems, TLAPS

-----------------------------------------------------------------------------
(* The steps by the kind of actor                                          *)

\* A fault is within its bound.
LEMMA FaultTyped == TypeOK /\ Fault => faults' \in 0 .. MaxFaults
BY PipelineAssumption DEF TypeOK, Fault

\* What a submit_batch, complete or partial, does to the frontier.
LEMMA SubmitEffect ==
  ASSUME TypeOK, NEW S \in SUBSET Urls, Submitted(S) \/ SubmittedPartly(S)
  PROVE  /\ known \subseteq known' /\ known' \subseteq Urls
         /\ accepted' \subseteq Urls /\ queued' \subseteq Urls
         /\ payload' \subseteq Urls /\ UNCHANGED <<leased, acked>>
         /\ Submitted(S) => S \subseteq known' \cup Capped
         /\ \E R \in SUBSET S : status' = MarkSkipped(R)
         /\ faults' \in 0 .. MaxFaults
<1>1. ASSUME NEW T \in SUBSET Urls, NEW R, SubmitAll(T, R)
      PROVE  /\ known \subseteq known' /\ known' \subseteq Urls
             /\ accepted' \subseteq Urls /\ queued' \subseteq Urls
             /\ payload' \subseteq Urls /\ UNCHANGED <<leased, acked>>
             /\ T \ R \subseteq known'
  BY <1>1, Zenon DEF SubmitAll, TypeOK
<1>2. CASE Submitted(S)
  <2>1. PICK R \in SUBSET (S \cap Capped) :
          /\ SubmitAll(S, R)
          /\ \/ status' = MarkSkipped(R) /\ UNCHANGED faults
             \/ Fault /\ \E Q \in SUBSET R : Q # R /\ status' = MarkSkipped(Q)
    BY <1>2, Zenon DEF Submitted
  <2>2. S \subseteq (S \ R) \cup Capped /\ \A Q \in SUBSET R : Q \in SUBSET S
    BY Zenon
  <2>3. \E Q \in SUBSET S : status' = MarkSkipped(Q)
    BY <2>1, <2>2, Zenon
  <2>4. faults' \in 0 .. MaxFaults
    BY <2>1, FaultTyped, Zenon DEF TypeOK
  <2>5. QED
    BY <1>1, <2>1, <2>2, <2>3, <2>4, Zenon
<1>3. CASE SubmittedPartly(S) /\ ~Submitted(S)
  <2>1. PICK T \in SUBSET S : \E R : SubmitAll(T, R)
    BY <1>3, Zenon DEF SubmittedPartly
  <2>2. status' = MarkSkipped({})
    BY <1>3, Zenon DEF SubmittedPartly, MarkSkipped, TypeOK
  <2>3. T \in SUBSET Urls /\ faults' \in 0 .. MaxFaults
    BY <1>3, FaultTyped, Zenon DEF SubmittedPartly
  <2>4. QED
    BY <1>1, <1>3, <2>1, <2>2, <2>3, Zenon
<1>4. QED
  BY <1>2, <1>3, Zenon

\* The frontier's own steps.
LEMMA DeliveryTyped ==
  ASSUME TypeOK, NEW u \in Urls,
         \/ Accept(u) \/ Suppress(u) \/ Deliver(u) \/ Redeliver(u)
         \/ Release(u) \/ Forget(u) \/ UNCHANGED delivery
  PROVE  /\ known \subseteq known' /\ known' \subseteq Urls
         /\ accepted' \subseteq Urls /\ queued' \subseteq Urls
         /\ leased' \subseteq Urls /\ payload' \subseteq Urls /\ acked' \subseteq Urls
BY Zenon DEF TypeOK, Accept, Suppress, Deliver, Redeliver, Release, Forget, delivery

WorkersTyped ==
  /\ pc \in [Workers -> Phases] /\ job \in [Workers -> Urls \cup {NoUrl}]
  /\ \A w \in Workers : pc[w] # "idle" => job[w] \in Urls

\* A worker that moves on keeps its URL, one that is done drops it.
LEMMA GotoTyped ==
  ASSUME TypeOK, NEW w \in Workers, pc[w] # "idle",
         Done(w) \/ \E l \in Phases : Goto(w, l)
  PROVE  WorkersTyped'
BY DEF TypeOK, WorkersTyped, Goto, Done, Phases

\* The ledger's status column keeps its domain.
LEMMA StatusTyped ==
  ASSUME TypeOK
  PROVE  /\ \A S : MarkSkipped(S) \in [Urls -> Statuses]
         /\ \A u \in Urls : \A x \in Statuses : UpdateStatus(u, x) \in [Urls -> Statuses]
BY Zenon DEF TypeOK, MarkSkipped, UpdateStatus, Statuses

\* Every step of a worker, a publisher or the frontier keeps the types.
LEMMA TypeNext == TypeOK /\ [Next]_vars => TypeOK'
<1> SUFFICES ASSUME TypeOK, [Next]_vars PROVE TypeOK'
  BY Zenon
<1> USE DEF ledger, workers, publishers
<1> DEFINE FrontierTyped == /\ known \subseteq Urls /\ accepted \subseteq Urls
                            /\ queued \subseteq Urls /\ leased \subseteq Urls
                            /\ payload \subseteq Urls /\ acked \subseteq Urls
<1>1. ASSUME NEW u \in Urls, Seed(u) \/ Lapse(u) PROVE TypeOK'
  <2>1. FrontierTyped'
    BY <1>1, DeliveryTyped, Zenon DEF Seed, Lapse
  <2>2. QED
    BY <1>1, <2>1, Zenon DEF Seed, Lapse, TypeOK
<1>2. ASSUME NEW w \in Workers, NEW u \in Urls, Claim(w, u) PROVE TypeOK'
  <2>1. FrontierTyped'
    BY <1>2, DeliveryTyped, Zenon DEF Claim
  <2>2. WorkersTyped'
    BY <1>2, Zenon DEF Claim, TypeOK, Phases, WorkersTyped
  <2>3. QED
    BY <1>2, <2>1, <2>2, Zenon DEF Claim, TypeOK, WorkersTyped
<1>3. ASSUME NEW w \in Workers,
             Allow(w) \/ CircuitOpen(w) \/ CheckFails(w) \/ Fetch(w) \/ StoreWrite(w) \/ Crash(w)
      PROVE  TypeOK'
  <2>1. job[w] \in Urls
    BY <1>3, Zenon DEF Allow, CircuitOpen, CheckFails, Fetch, StoreWrite, Crash, TypeOK
  <2>2. WorkersTyped'
    BY <1>3, GotoTyped, Zenon DEF Allow, CircuitOpen, CheckFails, Fetch, StoreWrite, Crash, Phases
  <2>3. QED
    BY <1>3, <2>1, <2>2, FaultTyped, Zenon
       DEF Allow, CircuitOpen, CheckFails, Fetch, StoreWrite, Crash, TypeOK, WorkersTyped, delivery
<1>4. ASSUME NEW w \in Workers, Disallow(w) \/ MarkAttempting(w) PROVE TypeOK'
  <2>1. job[w] \in Urls
    BY <1>4, Zenon DEF Disallow, MarkAttempting, TypeOK
  <2>2. WorkersTyped'
    BY <1>4, GotoTyped, Zenon DEF Disallow, MarkAttempting, Phases
  <2>3. status' \in [Urls -> Statuses]
    <3>1. CASE Disallow(w)
      BY <3>1, StatusTyped, Zenon DEF Disallow, TypeOK
    <3>2. CASE MarkAttempting(w)
      BY <2>1, <3>2, Zenon DEF MarkAttempting, TypeOK, Statuses
    <3>3. QED
      BY <1>4, <3>1, <3>2, Zenon
  <2>4. QED
    BY <1>4, <2>1, <2>2, <2>3, FaultTyped, Zenon
       DEF Disallow, MarkAttempting, TypeOK, WorkersTyped, delivery
<1>5. ASSUME NEW w \in Workers, MarkFailed(w) PROVE TypeOK'
  <2>1. job[w] \in Urls
    BY <1>5, Zenon DEF MarkFailed, TypeOK
  <2>2. WorkersTyped'
    BY <1>5, GotoTyped, Zenon DEF MarkFailed, Phases
  <2>3. status' \in [Urls -> Statuses] /\ retry' \in [Urls -> Nat]
    BY <1>5, <2>1, StatusTyped DEF MarkFailed, TypeOK, Statuses
  <2>4. QED
    BY <1>5, <2>2, <2>3, FaultTyped, Zenon DEF MarkFailed, TypeOK, WorkersTyped, delivery
<1>6. ASSUME NEW w \in Workers, MarkPermanentlyFailed(w) \/ SkipChildren(w) PROVE TypeOK'
  <2>1. job[w] \in Urls
    BY <1>6, Zenon DEF MarkPermanentlyFailed, SkipChildren, TypeOK
  <2>2. WorkersTyped'
    BY <1>6, GotoTyped, Zenon DEF MarkPermanentlyFailed, SkipChildren, Phases
  <2>3. status' \in [Urls -> Statuses]
    <3>1. status \in [Urls -> Statuses] /\ "permanently_failed" \in Statuses
      BY Zenon DEF TypeOK, Statuses
    <3>2. CASE MarkPermanentlyFailed(w)
      BY <2>1, <3>1, <3>2, StatusTyped, Zenon DEF MarkPermanentlyFailed
    <3>3. CASE SkipChildren(w)
      BY <3>1, <3>3, StatusTyped, Zenon DEF SkipChildren
    <3>4. QED
      BY <1>6, <3>2, <3>3, Zenon
  <2>4. QED
    BY <1>6, <2>2, <2>3, FaultTyped, Zenon
       DEF MarkPermanentlyFailed, SkipChildren, TypeOK, WorkersTyped, delivery
<1>7. ASSUME NEW w \in Workers, MarkSucceeded(w) PROVE TypeOK'
  <2>1. job[w] \in Urls
    BY <1>7, Zenon DEF MarkSucceeded, TypeOK
  <2>2. WorkersTyped'
    BY <1>7, GotoTyped, Zenon DEF MarkSucceeded, Phases
  <2>3. status' \in [Urls -> Statuses] /\ retry' \in [Urls -> Nat]
    BY <1>7, <2>1, StatusTyped DEF MarkSucceeded, ResetRetry, TypeOK, Statuses
  <2>4. outbox' \subseteq Rows /\ succeeded' \subseteq Urls
    BY <1>7, <2>1, LinkAssumption DEF MarkSucceeded, TypeOK, Rows
  <2>5. QED
    BY <1>7, <2>2, <2>3, <2>4, FaultTyped, Zenon DEF MarkSucceeded, TypeOK, WorkersTyped, delivery
<1>8. ASSUME NEW w \in Workers, DirectDispatch(w) PROVE TypeOK'
  <2>1. job[w] \in Urls
    BY <1>8, Zenon DEF DirectDispatch, TypeOK
  <2>2. WorkersTyped'
    BY <1>8, GotoTyped, Zenon DEF DirectDispatch, Phases
  <2>3. Links[job[w]] \in SUBSET Urls
    BY <2>1, LinkAssumption, Zenon
  <2>4. FrontierTyped' /\ status' \in [Urls -> Statuses] /\ faults' \in 0 .. MaxFaults
    BY <1>8, <2>3, SubmitEffect, StatusTyped, Zenon DEF DirectDispatch, TypeOK
  <2>5. QED
    BY <1>8, <2>2, <2>4, Zenon DEF DirectDispatch, TypeOK, WorkersTyped
<1>9. ASSUME NEW w \in Workers, AckLease(w) \/ AckPayload(w) PROVE TypeOK'
  <2>1. job[w] \in Urls
    BY <1>9, Zenon DEF AckLease, AckPayload, TypeOK
  <2>2. WorkersTyped'
    BY <1>9, GotoTyped, Zenon DEF AckLease, AckPayload, Phases
  <2>3. FrontierTyped'
    BY <1>9, <2>1, DeliveryTyped, Zenon DEF AckLease, AckPayload
  <2>4. QED
    BY <1>9, <2>2, <2>3, FaultTyped, Zenon DEF AckLease, AckPayload, TypeOK, WorkersTyped
<1>10. ASSUME NEW p \in Publishers, SelectRows(p) PROVE TypeOK'
  BY <1>10 DEF SelectRows, Available, TypeOK, delivery
<1>11. ASSUME NEW p \in Publishers, Ship(p) PROVE TypeOK'
  <2>1. Children(locked[p]) \in SUBSET Urls
    BY DEF Children, TypeOK, Rows
  <2>2. FrontierTyped' /\ status' \in [Urls -> Statuses] /\ faults' \in 0 .. MaxFaults
    BY <1>11, <2>1, SubmitEffect, StatusTyped, Zenon DEF Ship, TypeOK
  <2>3. QED
    BY <1>11, <2>2, Zenon DEF Ship, Rollback, TypeOK
<1>12. ASSUME NEW p \in Publishers, CommitRows(p) PROVE TypeOK'
  BY <1>12, FaultTyped, Zenon DEF CommitRows, Rollback, TypeOK, delivery
<1>13. CASE UNCHANGED vars
  BY <1>13, Zenon DEF vars, TypeOK, delivery
<1>14. QED
  BY <1>1, <1>2, <1>3, <1>4, <1>5, <1>6, <1>7, <1>8, <1>9, <1>10, <1>11,
     <1>12, <1>13, Zenon DEF Next, Work, Publish

\* Every reachable state is well typed: a busy worker always has its URL.
THEOREM TypeCorrect == Spec => []TypeOK
<1>1. Init => TypeOK
  BY PipelineAssumption DEF Init, DeliveryInit, TypeOK, Statuses, Phases
<1>2. QED
  BY <1>1, TypeNext, PTL DEF Spec

-----------------------------------------------------------------------------
(* What a step does to the ledger and to the seen-set                      *)

Untouched == {"none", "skipped"}

\* The effect on the row of a URL v: a row is never deleted, and one without
\* a fetch on record comes from one without a fetch on record.
LedgerEffect(v) ==
  /\ status'[v] = "none" => status[v] = "none"
  /\ status'[v] \in Untouched =>
       /\ status[v] \in Untouched
       /\ retry'[v] = retry[v]
       /\ v \in succeeded' => v \in succeeded

\* INSERT .. DO NOTHING touches only URLs without a row.
LEMMA SkipLedger ==
  ASSUME TypeOK, NEW S, status' = MarkSkipped(S), UNCHANGED <<retry, succeeded>>, NEW v \in Urls
  PROVE  LedgerEffect(v)
BY Zenon DEF TypeOK, MarkSkipped, LedgerEffect, Untouched

\* Every step has that effect on every row.
LEMMA LedgerStep ==
  ASSUME TypeOK, [Next]_vars, NEW v \in Urls
  PROVE  LedgerEffect(v)
<1> USE DEF ledger
<1>1. CASE UNCHANGED <<status, retry, succeeded>>
  BY <1>1 DEF LedgerEffect
<1>2. ASSUME NEW w \in Workers, Disallow(w) PROVE LedgerEffect(v)
  BY <1>1, <1>2, SkipLedger, Zenon DEF Disallow
<1>3. ASSUME NEW w \in Workers, SkipChildren(w) PROVE LedgerEffect(v)
  BY <1>3, SkipLedger, Zenon DEF SkipChildren
<1>4. ASSUME NEW w \in Workers, DirectDispatch(w) PROVE LedgerEffect(v)
  <2>1. Links[job[w]] \in SUBSET Urls
    BY <1>4, LinkAssumption, Zenon DEF DirectDispatch, TypeOK
  <2>2. QED
    BY <1>4, <2>1, SubmitEffect, SkipLedger, Zenon DEF DirectDispatch
<1>5. ASSUME NEW p \in Publishers, Ship(p) PROVE LedgerEffect(v)
  <2>1. Children(locked[p]) \in SUBSET Urls
    BY DEF Children, TypeOK, Rows
  <2>2. QED
    BY <1>5, <2>1, SubmitEffect, SkipLedger, Zenon DEF Ship
<1>6. ASSUME NEW w \in Workers, MarkAttempting(w) PROVE LedgerEffect(v)
  <2>1. job[w] \in Urls
    BY <1>6, Zenon DEF MarkAttempting, TypeOK
  <2>2. QED
    BY <1>6, <2>1, Zenon DEF MarkAttempting, TypeOK, LedgerEffect, Untouched
<1>7. ASSUME NEW w \in Workers, MarkFailed(w) PROVE LedgerEffect(v)
  <2>1. job[w] \in Urls
    BY <1>7, Zenon DEF MarkFailed, TypeOK
  <2>2. QED
    BY <1>7, <2>1, Zenon DEF MarkFailed, UpdateStatus, TypeOK, LedgerEffect, Untouched
<1>8. ASSUME NEW w \in Workers, MarkPermanentlyFailed(w) PROVE LedgerEffect(v)
  <2>1. job[w] \in Urls
    BY <1>8, Zenon DEF MarkPermanentlyFailed, TypeOK
  <2>2. QED
    BY <1>8, <2>1, Zenon DEF MarkPermanentlyFailed, UpdateStatus, TypeOK, LedgerEffect, Untouched
<1>9. ASSUME NEW w \in Workers, MarkSucceeded(w) PROVE LedgerEffect(v)
  <2>1. job[w] \in Urls
    BY <1>9, Zenon DEF MarkSucceeded, TypeOK
  <2>2. QED
    BY <1>9, <2>1, Zenon DEF MarkSucceeded, ResetRetry, UpdateStatus, TypeOK, LedgerEffect, Untouched
<1>10. QED
  BY <1>1, <1>2, <1>3, <1>4, <1>5, <1>6, <1>7, <1>8, <1>9, Zenon
     DEF Next, Work, Publish, Seed, Lapse, Claim, Allow, CircuitOpen, CheckFails, Fetch,
         StoreWrite, AckLease, AckPayload, Crash, SelectRows, CommitRows, vars

\* The seen-set only grows, and nothing leaves the list of excused URLs.
LEMMA KnownGrows ==
  ASSUME TypeOK, [Next]_vars
  PROVE  known \subseteq known' /\ excused \subseteq excused'
<1>1. CASE UNCHANGED delivery /\ excused \subseteq excused'
  BY <1>1, Zenon DEF delivery
<1>2. ASSUME NEW w \in Workers, DirectDispatch(w)
      PROVE  known \subseteq known' /\ excused \subseteq excused'
  <2>1. Links[job[w]] \in SUBSET Urls
    BY <1>2, LinkAssumption, Zenon DEF DirectDispatch, TypeOK
  <2>2. QED
    BY <1>2, <2>1, SubmitEffect, Zenon DEF DirectDispatch
<1>3. ASSUME NEW p \in Publishers, Ship(p)
      PROVE  known \subseteq known' /\ excused \subseteq excused'
  <2>1. Children(locked[p]) \in SUBSET Urls
    BY DEF Children, TypeOK, Rows
  <2>2. QED
    BY <1>3, <2>1, SubmitEffect, Zenon DEF Ship
<1>4. ASSUME NEW w \in Workers, AckLease(w) \/ AckPayload(w)
      PROVE  known \subseteq known' /\ excused \subseteq excused'
  <2>1. job[w] \in Urls
    BY <1>4, Zenon DEF AckLease, AckPayload, TypeOK
  <2>2. QED
    BY <1>4, <2>1, DeliveryTyped, Zenon DEF AckLease, AckPayload
<1>5. ASSUME NEW u \in Urls, NEW w, Seed(u) \/ Lapse(u) \/ Claim(w, u)
      PROVE  known \subseteq known' /\ excused \subseteq excused'
  BY <1>5, DeliveryTyped, Zenon DEF Seed, Lapse, Claim
<1>6. QED
  BY <1>1, <1>2, <1>3, <1>4, <1>5, Zenon
     DEF Next, Work, Publish, Allow, Disallow, CircuitOpen, CheckFails, MarkAttempting, Fetch,
         MarkFailed, MarkPermanentlyFailed, StoreWrite, MarkSucceeded, SkipChildren, Crash,
         SelectRows, CommitRows, vars

-----------------------------------------------------------------------------
(* A discovery skip never covers a fetch                                   *)

\* The inductive form: a URL without a row has no fetch on record either.
UntouchedInv ==
  \A v \in Urls : status[v] \in Untouched => v \notin succeeded /\ retry[v] = 0

\* A `skipped' row in the ledger is of a URL that never succeeded or failed,
\* whatever stale workers and publishers write.
THEOREM SkippedCorrect == Spec => []SkippedNeverFetched
<1>1. Init => UntouchedInv
  BY Zenon DEF Init, UntouchedInv
<1>2. TypeOK /\ UntouchedInv /\ [Next]_vars => UntouchedInv'
  <2> SUFFICES ASSUME TypeOK, UntouchedInv, [Next]_vars, NEW v \in Urls,
                      status'[v] \in Untouched
               PROVE  v \notin succeeded' /\ retry'[v] = 0
    BY Zenon DEF UntouchedInv
  <2>1. LedgerEffect(v)
    BY LedgerStep, Zenon
  <2>2. QED
    BY <2>1, Zenon DEF LedgerEffect, UntouchedInv
<1>3. UntouchedInv => SkippedNeverFetched
  BY Zenon DEF UntouchedInv, SkippedNeverFetched, Untouched
<1>4. QED
  BY <1>1, <1>2, <1>3, TypeCorrect, PTL DEF Spec

-----------------------------------------------------------------------------
(* Nothing leaves the frontier without a trail                             *)

Recorded(u) == status[u] # "none" \/ u \in excused

\* The phases after politeness_allows and mark_attempting.
Past == Phases \ {"idle", "check", "attempt"}

\* A worker beyond its first ledger write, and an acknowledged URL, have
\* left a trace.
TrailInv ==
  /\ \A w \in Workers : pc[w] \in Past => Recorded(job[w])
  /\ \A u \in acked : Recorded(u)

\* A trace is permanent.
LEMMA RecordedStays ==
  ASSUME TypeOK, [Next]_vars, NEW u \in Urls, Recorded(u)
  PROVE  Recorded(u)'
BY LedgerStep, KnownGrows, Zenon DEF LedgerEffect, Recorded

\* Only a worker enters a later phase or acknowledges a URL, and it has
\* then written to the ledger or been excused.
LEMMA TrailStep ==
  ASSUME TypeOK, [Next]_vars
  PROVE  /\ \A w \in Workers : pc'[w] \in Past =>
               job'[w] = job[w] /\ (pc[w] \in Past \/ Recorded(job[w])')
         /\ \A u \in acked' \ acked : \E w \in Workers : pc[w] \in Past /\ job[w] = u
<1> DEFINE Moves == \A w \in Workers : pc'[w] \in Past =>
                      job'[w] = job[w] /\ (pc[w] \in Past \/ Recorded(job[w])')
           Acks == \A u \in acked' \ acked : \E w \in Workers : pc[w] \in Past /\ job[w] = u
<1> USE DEF workers
<1>1. ASSUME UNCHANGED workers PROVE Moves
  BY <1>1, Zenon
<1>2. ASSUME UNCHANGED delivery \/ UNCHANGED acked PROVE Acks
  BY <1>2, Zenon DEF delivery
<1>3. ASSUME NEW w \in Workers, Done(w) PROVE Moves
  BY <1>3, Zenon DEF Done, TypeOK, Past
<1>4. ASSUME NEW w \in Workers, NEW l, Goto(w, l), pc[w] \in Past \/ l \notin Past \/ Recorded(job[w])'
      PROVE  Moves
  BY <1>4, Zenon DEF Goto, TypeOK, Past
<1>5. ASSUME NEW u \in Urls, Seed(u) \/ Lapse(u) PROVE Moves /\ Acks
  BY <1>1, <1>2, <1>5, Zenon DEF Seed, Lapse, Accept, Suppress, Redeliver
<1>6. ASSUME NEW w \in Workers, NEW u \in Urls, Claim(w, u) PROVE Moves /\ Acks
  BY <1>6, <1>1, <1>2 DEF Claim, Deliver, TypeOK, Past
<1>7. ASSUME NEW w \in Workers,
             \/ Allow(w) \/ CheckFails(w) \/ Fetch(w) \/ MarkFailed(w)
             \/ MarkPermanentlyFailed(w) \/ StoreWrite(w) \/ MarkSucceeded(w)
             \/ SkipChildren(w) \/ Crash(w)
      PROVE  Moves /\ Acks
  <2>1. Acks
    BY <1>2, <1>7, Zenon DEF Allow, CheckFails, Fetch, MarkFailed, MarkPermanentlyFailed, StoreWrite,
                      MarkSucceeded, SkipChildren, Crash
  <2>2. (pc[w] \in Past \/ Goto(w, "attempt") \/ Done(w))
        /\ (Done(w) \/ \E l : Goto(w, l))
    BY <1>7, Zenon DEF Allow, CheckFails, Fetch, MarkFailed, MarkPermanentlyFailed, StoreWrite,
                MarkSucceeded, SkipChildren, Crash, Past, Phases
  <2>3. "attempt" \notin Past
    BY Zenon DEF Past
  <2>4. QED
    BY <1>3, <1>4, <2>1, <2>2, <2>3, Zenon
<1>8. ASSUME NEW w \in Workers, Disallow(w) \/ CircuitOpen(w) \/ MarkAttempting(w)
      PROVE  Moves /\ Acks
  <2>1. job[w] \in Urls
    BY <1>8, Zenon DEF Disallow, CircuitOpen, MarkAttempting, TypeOK
  <2>2. Acks
    BY <1>2, <1>8, Zenon DEF Disallow, CircuitOpen, MarkAttempting
  <2>3. (status'[job[w]] # "none" \/ job[w] \in excused') /\ UNCHANGED job
    BY <1>8, <2>1 DEF Disallow, CircuitOpen, MarkAttempting, MarkSkipped, TypeOK, Goto
  <2>4. \A v : v \notin {w} => pc'[v] = pc[v] \/ v \notin Workers
    BY <1>8, Zenon DEF Disallow, CircuitOpen, MarkAttempting, Goto, TypeOK
  <2>5. QED
    BY <2>2, <2>3, <2>4, Zenon DEF Recorded
<1>9. ASSUME NEW w \in Workers, DirectDispatch(w) PROVE Moves /\ Acks
  <2>1. Links[job[w]] \in SUBSET Urls
    BY <1>9, LinkAssumption, Zenon DEF DirectDispatch, TypeOK
  <2>2. Acks
    BY <1>2, <1>9, <2>1, SubmitEffect, Zenon DEF DirectDispatch
  <2>3. QED
    BY <1>4, <1>9, <2>2, Zenon DEF DirectDispatch, Past, Phases
<1>10. ASSUME NEW w \in Workers, AckLease(w) \/ AckPayload(w) PROVE Moves /\ Acks
  <2>1. pc[w] \in Past /\ (Done(w) \/ Goto(w, "forget"))
    BY <1>10, Zenon DEF AckLease, AckPayload, Past, Phases
  <2>2. acked' \subseteq acked \cup {job[w]}
    BY <1>10, Zenon DEF AckLease, AckPayload, Release, Forget, delivery
  <2>3. QED
    BY <1>3, <1>4, <2>1, <2>2, Zenon
<1>11. ASSUME NEW p \in Publishers, Publish(p) PROVE Moves /\ Acks
  <2>1. Children(locked[p]) \in SUBSET Urls
    BY DEF Children, TypeOK, Rows
  <2>2. QED
    BY <1>1, <1>2, <1>11, <2>1, SubmitEffect, Zenon DEF Publish, SelectRows, Ship, CommitRows
<1>12. ASSUME UNCHANGED vars PROVE Moves /\ Acks
  BY <1>1, <1>2, <1>12, Zenon DEF vars
<1> HIDE DEF Moves, Acks
<1>13. Moves /\ Acks
  BY <1>5, <1>6, <1>7, <1>8, <1>9, <1>10, <1>11, <1>12, Zenon DEF Next, Work
<1>14. QED
  BY <1>13, Zenon DEF Moves, Acks

\* A URL that left the frontier has a ledger row, unless a ledger write of it
\* failed or an open circuit dropped it.
THEOREM TrailCorrect == Spec => []TrailLeft
<1>1. Init => TrailInv
  BY Zenon DEF Init, DeliveryInit, TrailInv, Past
<1>2. TypeOK /\ TrailInv /\ [Next]_vars => TrailInv'
  <2> SUFFICES ASSUME TypeOK, TrailInv, [Next]_vars PROVE TrailInv'
    BY Zenon
  <2>1. ASSUME NEW w \in Workers, pc'[w] \in Past PROVE Recorded(job[w])' /\ job'[w] = job[w]
    <3>1. CASE pc[w] \in Past
      <4>1. job[w] \in Urls /\ Recorded(job[w])
        BY <3>1, Zenon DEF TrailInv, TypeOK, Past
      <4>2. QED
        BY <2>1, <4>1, RecordedStays, TrailStep, Zenon
    <3>2. QED
      BY <2>1, <3>1, TrailStep, Zenon
  <2>2. ASSUME NEW u \in acked' PROVE Recorded(u)'
    <3>1. CASE u \in acked
      <4>1. u \in Urls /\ Recorded(u)
        BY <3>1, Zenon DEF TrailInv, TypeOK
      <4>2. QED
        BY <4>1, RecordedStays, Zenon
    <3>2. CASE u \notin acked
      <4>1. PICK w \in Workers : pc[w] \in Past /\ job[w] = u
        BY <3>2, TrailStep, Zenon
      <4>2. u \in Urls
        BY <4>1, Zenon DEF TypeOK, Past
      <4>3. Recorded(u)
        BY <4>1, Zenon DEF TrailInv
      <4>4. QED
        BY <4>2, <4>3, RecordedStays, Zenon
    <3>3. QED
      BY <3>1, <3>2, Zenon
  <2>3. QED
    BY <2>1, <2>2, Zenon DEF TrailInv
<1>3. TrailInv => TrailLeft
  BY Zenon DEF TrailInv, TrailLeft, Gone, Recorded
<1>4. QED
  BY <1>1, <1>2, <1>3, TypeCorrect, PTL DEF Spec

-----------------------------------------------------------------------------
(* The outbox loses no link                                                *)

\* mark_succeeded writes the event and the rows in one transaction.
RowsInv ==
  /\ DurableOutbox => \A u \in succeeded : {u} \X Links[u] \subseteq outbox
  /\ \A r \in outbox : r[1] \in succeeded

Reached(R) == \A r \in R : r[2] \in known \cup Capped

\* A row is published only by a transaction whose ship closure returned.
ShippedInv ==
  /\ Reached(published)
  /\ \A p \in Publishers : phase[p] = "shipped" => Reached(locked[p])

\* Rows are only ever added, together with their event.
LEMMA RowsNext == TypeOK /\ RowsInv /\ [Next]_vars => RowsInv'
<1> SUFFICES ASSUME TypeOK, RowsInv, [Next]_vars PROVE RowsInv'
  BY Zenon
<1> USE DEF ledger
<1>1. CASE UNCHANGED <<succeeded, outbox>>
  BY <1>1, Zenon DEF RowsInv
<1>2. ASSUME NEW w \in Workers, MarkSucceeded(w) PROVE RowsInv'
  <2>1. DurableOutbox => \A u \in succeeded' : {u} \X Links[u] \subseteq outbox'
    BY <1>2, Zenon DEF MarkSucceeded, RowsInv
  <2>2. \A r \in outbox' : r[1] \in succeeded'
    <3>1. succeeded \subseteq succeeded'
      BY <1>2, Zenon DEF MarkSucceeded
    <3>2. \A r \in outbox' \ outbox : r \in {job[w]} \X Links[job[w]] /\ job[w] \in succeeded'
      BY <1>2, Zenon DEF MarkSucceeded
    <3>3. \A r \in {job[w]} \X Links[job[w]] : r[1] = job[w]
      BY SMT
    <3>4. QED
      BY <3>1, <3>2, <3>3, Zenon DEF RowsInv
  <2>3. QED
    BY <2>1, <2>2, Zenon DEF RowsInv
<1>3. QED
  BY <1>1, <1>2, Zenon
     DEF Next, Work, Publish, Seed, Lapse, Claim, Allow, Disallow, CircuitOpen, CheckFails,
         MarkAttempting, Fetch, MarkFailed, MarkPermanentlyFailed, StoreWrite, SkipChildren,
         DirectDispatch, AckLease, AckPayload, Crash, SelectRows, Ship, CommitRows, vars

\* Submitting precedes publishing, and the seen-set never forgets.
LEMMA ShippedNext == TypeOK /\ ShippedInv /\ [Next]_vars => ShippedInv'
<1> SUFFICES ASSUME TypeOK, ShippedInv, [Next]_vars PROVE ShippedInv'
  BY Zenon
<1> USE DEF ledger, publishers
<1>1. ASSUME NEW R, Reached(R) PROVE \A r \in R : r[2] \in known' \cup Capped
  BY <1>1, KnownGrows, Zenon DEF Reached
<1>2. CASE UNCHANGED <<published, phase, locked>>
  BY <1>1, <1>2, Zenon DEF ShippedInv, Reached
<1>3. ASSUME NEW p \in Publishers, SelectRows(p) PROVE ShippedInv'
  BY <1>1, <1>3, Zenon DEF SelectRows, ShippedInv, Reached, TypeOK
<1>4. ASSUME NEW p \in Publishers, Ship(p) PROVE ShippedInv'
  <2>1. Children(locked[p]) \in SUBSET Urls
    BY DEF Children, TypeOK, Rows
  <2>2. CASE Submitted(Children(locked[p])) /\ UNCHANGED locked
    <3>1. Children(locked[p]) \subseteq known' \cup Capped
      BY <2>1, <2>2, SubmitEffect, Zenon
    <3>2. \A r \in locked[p] : r[2] \in Children(locked[p])
      BY Zenon DEF Children
    <3>3. \A r \in locked[p] : r[2] \in known' \cup Capped
      BY <3>1, <3>2, Zenon
    <3>4. QED
      BY <1>1, <1>4, <2>2, <3>3 DEF Ship, ShippedInv, Reached, TypeOK, Rollback
  <2>3. CASE Rollback(p)
    <3>1. published' = published /\ Reached(published)
      BY <1>4, Zenon DEF Ship, ShippedInv
    <3>2. /\ phase'[p] = "idle"
          /\ \A q \in Publishers : q # p => phase'[q] = phase[q] /\ locked'[q] = locked[q]
      BY <2>3, Zenon DEF Rollback, TypeOK
    <3>3. \A q \in Publishers :
            phase'[q] = "shipped" => locked'[q] = locked[q] /\ Reached(locked[q])
      BY <3>2, Zenon DEF ShippedInv
    <3>4. QED
      BY <1>1, <3>1, <3>3, Zenon DEF ShippedInv, Reached
  <2>4. QED
    BY <1>4, <2>2, <2>3, Zenon DEF Ship
<1>5. ASSUME NEW p \in Publishers, CommitRows(p) PROVE ShippedInv'
  <2>1. Reached(published \cup locked[p])
    BY <1>5, Zenon DEF CommitRows, ShippedInv, Reached
  <2>2. published' \subseteq published \cup locked[p]
    BY <1>5, Zenon DEF CommitRows
  <2>3. \A q \in Publishers : phase'[q] = "shipped" => phase[q] = "shipped" /\ locked'[q] = locked[q]
    BY <1>5, Zenon DEF CommitRows, Rollback, TypeOK
  <2>4. QED
    BY <1>1, <2>1, <2>2, <2>3, Zenon DEF ShippedInv, Reached
<1>6. QED
  BY <1>2, <1>3, <1>4, <1>5, Zenon
     DEF Next, Work, Publish, Seed, Lapse, Claim, Allow, Disallow, CircuitOpen, CheckFails,
         MarkAttempting, Fetch, MarkFailed, MarkPermanentlyFailed, StoreWrite, MarkSucceeded,
         SkipChildren, DirectDispatch, AckLease, AckPayload, Crash, vars

\* Under DurableOutbox no outbound link of a recorded success is lost, and no
\* row is of another page, for any number of workers, publishers, crashes and
\* failed calls.
THEOREM LinksCorrect == Spec => []NoLinkLost
<1>1. Init => RowsInv /\ ShippedInv
  BY Zenon DEF Init, RowsInv, ShippedInv, Reached
<1>2. RowsInv /\ ShippedInv => NoLinkLost
  <2> SUFFICES ASSUME RowsInv, ShippedInv, DurableOutbox, NEW u \in succeeded, NEW c \in Links[u],
                      c \notin known \cup Capped
               PROVE  <<u, c>> \in outbox \ published
    BY Zenon DEF NoLinkLost, RowsInv
  <2>1. <<u, c>> \in outbox
    BY Zenon DEF RowsInv
  <2>2. <<u, c>> \notin published
    BY Zenon DEF ShippedInv, Reached
  <2>3. QED
    BY <2>1, <2>2, Zenon
<1>3. QED
  BY <1>1, <1>2, RowsNext, ShippedNext, TypeCorrect, PTL DEF Spec

-----------------------------------------------------------------------------
(* A URL that always fails is given up                                     *)

Budget == IF MaxRetries = 0 THEN 1 ELSE MaxRetries

\* The workers that may still count a failure of u, and those past that point.
Early == {"check", "attempt", "fetch", "failing"}
Late == {"dlq", "store", "commit", "children", "dispatch", "ack", "forget"}
Active(u) == {w \in Workers : job[w] = u /\ pc[w] \in Early}
Spent(u) == {w \in Workers : job[w] = u /\ pc[w] \in Late}

\* While u can be claimed, each failure beyond the budget is of a worker that
\* is on its way to acknowledge u, or that a fault took off it.  Once the
\* payload is gone nobody claims u any more, and only the workers that have
\* it can count another failure.
RetryInv ==
  \A u \in Urls :
    /\ u \in payload => retry[u] <= Budget - 1 + Cardinality(Spent(u)) + faults
    /\ u \notin payload =>
         retry[u] + Cardinality(Active(u)) <= Budget - 1 + Cardinality(Workers) + faults

\* What can be claimed, is worked on or has failed was submitted: a URL whose
\* payload was deleted is never queued again.
KnownInv ==
  /\ payload \subseteq known
  /\ \A w \in Workers : pc[w] # "idle" => job[w] \in known
  /\ \A u \in Urls : u \notin known => retry[u] = 0

\* What a step may do to the failures of u and to the workers that have it.
Keeps(u) ==
  /\ retry'[u] = retry[u] \/ retry'[u] = 0
  /\ Spent(u) \subseteq Spent(u)' /\ Active(u)' \subseteq Active(u)
  /\ u \in payload' <=> u \in payload
  /\ faults <= faults'

\* A fault takes a worker off u.
Drops(u) ==
  /\ \E w \in Workers : Spent(u) \ {w} \subseteq Spent(u)'
  /\ Active(u)' \subseteq Active(u) /\ retry'[u] = retry[u]
  /\ u \in payload' <=> u \in payload
  /\ faults' = faults + 1

\* mark_failed: within the budget the URL is left to its lease, beyond it the
\* worker goes on to the DLQ.
Counts(u) ==
  /\ \E w \in Active(u) :
       /\ w \notin Active(u)'
       /\ retry'[u] < MaxRetries \/ w \in Spent(u)'
  /\ Spent(u) \subseteq Spent(u)' /\ Active(u)' \subseteq Active(u)
  /\ retry'[u] = retry[u] + 1
  /\ u \in payload' <=> u \in payload
  /\ faults' = faults

Claimed(u) ==
  /\ u \in payload /\ u \in payload' /\ Spent(u)' = Spent(u)
  /\ retry'[u] = retry[u] /\ faults' = faults

Forgets(u) ==
  /\ u \notin payload' /\ Active(u)' \subseteq Active(u)
  /\ retry'[u] = retry[u] /\ faults' = faults

Arrives(u) ==
  u \notin known /\ u \in payload' /\ retry'[u] = retry[u] /\ faults <= faults'

\* Where a worker goes decides how the sets of workers of a URL change.
LEMMA GotoSets ==
  ASSUME TypeOK, NEW w \in Workers, NEW l, Goto(w, l), NEW u \in Urls
  PROVE  /\ (pc[w] \in Late /\ l \in Late) \/ (pc[w] \in Early /\ l \in Early) =>
              Active(u)' = Active(u) /\ Spent(u)' = Spent(u)
         /\ pc[w] \in Early /\ l \in Late =>
              /\ Active(u)' = Active(u) \ {w} /\ Spent(u) \subseteq Spent(u)'
              /\ job[w] = u => w \in Active(u) /\ w \in Spent(u)'
BY Zenon DEF TypeOK, Goto, Active, Spent, Early, Late

LEMMA DoneSets ==
  ASSUME TypeOK, NEW w \in Workers, Done(w), NEW u \in Urls
  PROVE  /\ Active(u)' = Active(u) \ {w} /\ Spent(u)' = Spent(u) \ {w}
         /\ pc[w] \in Early => Spent(u)' = Spent(u)
         /\ pc[w] \in Early /\ job[w] = u => w \in Active(u)
         /\ job[w] # u => Spent(u)' = Spent(u)
BY Zenon DEF TypeOK, Done, Active, Spent, Early, Late

\* A submit adds payloads only for URLs the seen-set did not know.
LEMMA SubmitPayload ==
  ASSUME TypeOK, NEW S \in SUBSET Urls, Submitted(S) \/ SubmittedPartly(S)
  PROVE  /\ payload \subseteq payload' /\ payload' \subseteq payload \cup known'
         /\ (payload' \ payload) \cap known = {}
         /\ faults <= faults'
<1>1. \E T \in SUBSET Urls : \E R : SubmitAll(T, R)
  BY Zenon DEF Submitted, SubmittedPartly
<1>2. faults <= faults'
  BY DEF Submitted, SubmittedPartly, Fault, TypeOK
<1>3. QED
  BY <1>1, <1>2, Zenon DEF SubmitAll

\* The workers' steps: the ones that stay with their URL, the ones that end.
LEMMA RetryWork ==
  ASSUME TypeOK, NEW w \in Workers, Work(w) \/ Crash(w), NEW u \in Urls
  PROVE  Keeps(u) \/ Drops(u) \/ Counts(u) \/ Forgets(u) \/ Arrives(u)
<1> USE DEF ledger
<1>0. /\ faults \in Nat /\ retry \in [Urls -> Nat] /\ MaxRetries \in Nat
      /\ pc[w] # "idle" => job[w] \in Urls
  BY PipelineAssumption DEF TypeOK
<1>1. ASSUME NEW l, Goto(w, l), l \in Early \cup Late, pc[w] \in Early \cup Late,
             pc[w] \in Late => l \in Late, UNCHANGED payload, faults <= faults',
             retry'[u] = retry[u] \/ retry'[u] = 0
      PROVE  Keeps(u)
  BY <1>1, GotoSets DEF Keeps
<1>2. ASSUME Done(w), Fault, UNCHANGED <<delivery, retry>> PROVE Drops(u)
  BY <1>2, DoneSets, Zenon DEF Fault, Drops, delivery
<1>3. CASE Allow(w) \/ Disallow(w) \/ CircuitOpen(w) \/ MarkAttempting(w) \/ Fetch(w)
  <2>1. /\ \E l \in Early \cup Late : Goto(w, l)
        /\ pc[w] \in Early /\ UNCHANGED <<payload, retry>> /\ faults <= faults'
    BY <1>0, <1>3 DEF Allow, Disallow, CircuitOpen, MarkAttempting, Fetch, Fault, Early, Late, delivery
  <2>2. pc[w] \notin Late
    BY <2>1, Zenon DEF Early, Late
  <2>3. QED
    BY <1>1, <2>1, <2>2, Zenon
<1>4. CASE MarkPermanentlyFailed(w) \/ StoreWrite(w) \/ SkipChildren(w) \/ MarkSucceeded(w)
  <2>1. /\ \E l \in Late : Goto(w, l)
        /\ pc[w] \in Late /\ UNCHANGED payload /\ faults <= faults'
    BY <1>0, <1>4
       DEF MarkPermanentlyFailed, StoreWrite, SkipChildren, MarkSucceeded, Fault, Late, delivery
  <2>2. retry'[u] = retry[u] \/ retry'[u] = 0
    BY <1>0, <1>4, Zenon DEF MarkPermanentlyFailed, StoreWrite, SkipChildren, MarkSucceeded, ResetRetry
  <2>3. QED
    BY <1>1, <2>1, <2>2, Zenon
<1>5. CASE CheckFails(w) \/ Crash(w)
  BY <1>2, <1>5, Zenon DEF CheckFails, Crash
<1>6. CASE MarkFailed(w)
  <2>1. pc[w] \in Early /\ job[w] \in Urls /\ UNCHANGED payload
    BY <1>0, <1>6, Zenon DEF MarkFailed, Early, delivery
  <2>2. CASE Done(w) /\ UNCHANGED <<retry, faults>>
    BY <1>0, <2>1, <2>2, DoneSets DEF Keeps
  <2>3. CASE Fault /\ Done(w) /\ UNCHANGED retry
    BY <1>2, <1>6, <2>3, Zenon DEF MarkFailed
  <2>4. CASE /\ retry' = [retry EXCEPT ![job[w]] = @ + 1] /\ UNCHANGED faults
             /\ BudgetExhausted(retry[job[w]] + 1) /\ Goto(w, "dlq")
    <3>1. "dlq" \in Late
      BY Zenon DEF Late
    <3>2. CASE job[w] = u
      BY <1>0, <2>1, <2>4, <3>1, <3>2, GotoSets DEF Counts
    <3>3. CASE job[w] # u
      BY <1>0, <2>1, <2>4, <3>1, <3>3, GotoSets DEF Keeps
    <3>4. QED
      BY <3>2, <3>3, Zenon
  <2>5. CASE /\ retry' = [retry EXCEPT ![job[w]] = @ + 1] /\ UNCHANGED faults
             /\ ~BudgetExhausted(retry[job[w]] + 1) /\ Done(w)
    <3>1. CASE job[w] = u
      BY <1>0, <2>1, <2>5, <3>1, DoneSets DEF Counts, BudgetExhausted
    <3>2. CASE job[w] # u
      BY <1>0, <2>1, <2>5, <3>2, DoneSets DEF Keeps
    <3>3. QED
      BY <3>1, <3>2, Zenon
  <2>6. QED
    BY <1>6, <2>2, <2>3, <2>4, <2>5, Zenon DEF MarkFailed
<1>7. CASE DirectDispatch(w)
  <2>1. /\ Goto(w, "ack") /\ pc[w] \in Late /\ "ack" \in Late /\ UNCHANGED retry
        /\ job[w] \in Urls
    BY <1>0, <1>7, Zenon DEF DirectDispatch, Late
  <2>2. Links[job[w]] \in SUBSET Urls
    BY <2>1, LinkAssumption, Zenon
  <2>3. /\ payload \subseteq payload' /\ (payload' \ payload) \cap known = {}
        /\ faults <= faults'
    BY <1>7, <2>2, SubmitPayload, Zenon DEF DirectDispatch
  <2>4. Active(u)' = Active(u) /\ Spent(u)' = Spent(u)
    BY <2>1, GotoSets, Zenon
  <2>5. QED
    BY <2>1, <2>3, <2>4, Zenon DEF Keeps, Arrives
<1>8. CASE AckLease(w)
  <2>1. CASE Release(job[w]) /\ Goto(w, "forget") /\ UNCHANGED faults
    <3>1. payload' = payload
      BY <2>1, Zenon DEF Release
    <3>2. retry' = retry /\ pc[w] \in Late /\ "forget" \in Late
      BY <1>8, Zenon DEF AckLease, Late
    <3>3. faults <= faults'
      BY <1>0, <2>1
    <3>4. QED
      BY <1>1, <2>1, <3>1, <3>2, <3>3, Zenon
  <2>2. QED
    BY <1>2, <1>8, <2>1, Zenon DEF AckLease
<1>9. CASE AckPayload(w)
  <2>1. CASE Forget(job[w]) /\ UNCHANGED faults
    <3>1. Done(w) /\ UNCHANGED retry /\ payload' = payload \ {job[w]}
      BY <1>9, <2>1, Zenon DEF AckPayload, Forget
    <3>2. CASE job[w] = u
      BY <2>1, <3>1, <3>2, DoneSets, Zenon DEF Forgets
    <3>3. CASE job[w] # u
      BY <1>0, <2>1, <3>1, <3>3, DoneSets DEF Keeps
    <3>4. QED
      BY <3>2, <3>3, Zenon
  <2>2. QED
    BY <1>2, <1>9, <2>1, Zenon DEF AckPayload
<1>10. QED
  BY <1>3, <1>4, <1>5, <1>6, <1>7, <1>8, <1>9, Zenon DEF Work

\* Every step has one of these effects on every URL.
LEMMA RetryStep ==
  ASSUME TypeOK, [Next]_vars, NEW u \in Urls
  PROVE  Keeps(u) \/ Drops(u) \/ Counts(u) \/ Claimed(u) \/ Forgets(u) \/ Arrives(u)
<1> USE DEF ledger, workers
<1>0. faults \in Nat /\ retry \in [Urls -> Nat]
  BY DEF TypeOK
<1>1. ASSUME UNCHANGED <<workers, retry>>, payload \subseteq payload', faults <= faults',
             (payload' \ payload) \cap known = {}
      PROVE  Keeps(u) \/ Arrives(u)
  <2>1. Active(u)' = Active(u) /\ Spent(u)' = Spent(u)
    BY <1>1, Zenon DEF Active, Spent
  <2>2. QED
    BY <1>1, <2>1, Zenon DEF Keeps, Arrives
<1>2. ASSUME NEW v \in Urls, Seed(v) \/ Lapse(v) PROVE Keeps(u) \/ Arrives(u)
  BY <1>0, <1>1, <1>2 DEF Seed, Lapse, Accept, Suppress, Redeliver
<1>3. ASSUME NEW w \in Workers, NEW v \in Urls, Claim(w, v) PROVE Keeps(u) \/ Claimed(u)
  <2>1. payload' = payload /\ retry' = retry /\ faults' = faults
    BY <1>3, Zenon DEF Claim, Deliver
  <2>2. Spent(u)' = Spent(u)
    BY <1>3, Zenon DEF Claim, TypeOK, Spent, Late
  <2>3. (u = v /\ u \in payload) \/ Active(u)' = Active(u)
    BY <1>3, Zenon DEF Claim, TypeOK, Active, Early
  <2>4. QED
    BY <1>0, <2>1, <2>2, <2>3 DEF Keeps, Claimed
<1>4. ASSUME NEW p \in Publishers, Publish(p) PROVE Keeps(u) \/ Arrives(u)
  <2>1. CASE SelectRows(p) \/ CommitRows(p)
    BY <1>0, <1>1, <2>1 DEF SelectRows, CommitRows, Fault, delivery
  <2>2. CASE Ship(p)
    <3>1. Children(locked[p]) \in SUBSET Urls
      BY DEF Children, TypeOK, Rows
    <3>2. QED
      BY <1>1, <2>2, <3>1, SubmitPayload, Zenon DEF Ship
  <2>3. QED
    BY <1>4, <2>1, <2>2, Zenon DEF Publish
<1>5. CASE UNCHANGED vars
  BY <1>0, <1>1, <1>5 DEF vars, delivery
<1>6. QED
  BY <1>2, <1>3, <1>4, <1>5, RetryWork, Zenon DEF Next

\* What is claimed or worked on stays submitted.
LEMMA KnownNext == TypeOK /\ KnownInv /\ [Next]_vars => KnownInv'
<1> SUFFICES ASSUME TypeOK, KnownInv, [Next]_vars PROVE KnownInv'
  BY Zenon
<1> USE DEF workers
<1>1. known \subseteq known'
  BY KnownGrows, Zenon
<1>2. payload' \subseteq payload \cup known'
  <2>1. ASSUME NEW S \in SUBSET Urls, Submitted(S) \/ SubmittedPartly(S)
        PROVE  payload' \subseteq payload \cup known'
    BY <2>1, SubmitPayload, Zenon
  <2>2. ASSUME NEW w \in Workers, DirectDispatch(w) PROVE payload' \subseteq payload \cup known'
    <3>1. Links[job[w]] \in SUBSET Urls
      BY <2>2, LinkAssumption, Zenon DEF DirectDispatch, TypeOK
    <3>2. QED
      BY <2>1, <2>2, <3>1, Zenon DEF DirectDispatch
  <2>3. ASSUME NEW p \in Publishers, Ship(p) PROVE payload' \subseteq payload \cup known'
    <3>1. Children(locked[p]) \in SUBSET Urls
      BY DEF Children, TypeOK, Rows
    <3>2. QED
      BY <2>1, <2>3, <3>1, Zenon DEF Ship
  <2>4. ASSUME NEW v, Accept(v) \/ Suppress(v) \/ Deliver(v) \/ Redeliver(v) \/ Release(v) \/ Forget(v)
        PROVE  payload' \subseteq payload \cup known'
    BY <2>4, Zenon DEF Accept, Suppress, Deliver, Redeliver, Release, Forget
  <2>5. UNCHANGED delivery => payload' = payload
    BY Zenon DEF delivery
  <2>6. QED
    BY <2>2, <2>3, <2>4, <2>5, Zenon
       DEF Next, Work, Publish, Seed, Lapse, Claim, Allow, Disallow, CircuitOpen, CheckFails,
           MarkAttempting, Fetch, MarkFailed, MarkPermanentlyFailed, StoreWrite, MarkSucceeded,
           SkipChildren, AckLease, AckPayload, Crash, SelectRows, CommitRows, vars
<1>3. ASSUME NEW w \in Workers, pc'[w] # "idle"
      PROVE  job'[w] \in known
  <2>1. CASE UNCHANGED workers
    BY <1>3, <2>1, Zenon DEF KnownInv
  <2>2. ASSUME NEW v \in Workers, Done(v) PROVE job'[w] \in known
    BY <1>3, <2>2, Zenon DEF Done, TypeOK, KnownInv
  <2>3. ASSUME NEW v \in Workers, pc[v] # "idle", NEW l, Goto(v, l) PROVE job'[w] \in known
    BY <1>3, <2>3, Zenon DEF Goto, TypeOK, KnownInv
  <2>4. ASSUME NEW v \in Workers, NEW u \in Urls, Claim(v, u) PROVE job'[w] \in known
    BY <1>3, <2>4, Zenon DEF Claim, TypeOK, KnownInv
  <2>5. ASSUME NEW v \in Workers, Work(v) \/ Crash(v) PROVE job'[w] \in known
    <3>1. pc[v] # "idle" /\ (Done(v) \/ \E l : Goto(v, l))
      BY <2>5, Zenon DEF Work, Allow, Disallow, CircuitOpen, CheckFails, MarkAttempting, Fetch,
                  MarkFailed, MarkPermanentlyFailed, StoreWrite, MarkSucceeded, SkipChildren,
                  DirectDispatch, AckLease, AckPayload, Crash
    <3>2. QED
      BY <2>2, <2>3, <3>1, Zenon
  <2>6. QED
    BY <2>1, <2>4, <2>5, Zenon DEF Next, Publish, Seed, Lapse, SelectRows, Ship, CommitRows, vars
<1>4. ASSUME NEW u \in Urls, u \notin known' PROVE retry'[u] = 0
  <2>1. u \notin known /\ retry[u] = 0
    BY <1>1, <1>4, Zenon DEF KnownInv
  <2>2. Active(u) = {}
    BY <2>1, Zenon DEF Active, KnownInv, Early
  <2>3. QED
    BY <1>1, <1>2, <1>4, <2>1, <2>2, RetryStep, Zenon
       DEF Keeps, Drops, Counts, Claimed, Forgets, Arrives, KnownInv
<1>5. QED
  BY <1>1, <1>2, <1>3, <1>4, Zenon DEF KnownInv

\* The two sets of workers are finite and disjoint.
LEMMA Sizes ==
  ASSUME NEW A, NEW S, A \subseteq Workers, S \subseteq Workers
  PROVE  /\ IsFiniteSet(A) /\ Cardinality(A) \in Nat
         /\ A \subseteq S => Cardinality(A) <= Cardinality(S)
         /\ A \cap S = {} => Cardinality(A) + Cardinality(S) <= Cardinality(Workers)
         /\ \A w \in A : w \notin S /\ S \subseteq A => Cardinality(S) + 1 <= Cardinality(A)
         /\ \A w : A \ {w} \subseteq S => Cardinality(A) <= Cardinality(S) + 1
<1>1. /\ IsFiniteSet(A) /\ IsFiniteSet(S) /\ IsFiniteSet(A \cup S)
      /\ Cardinality(A) \in Nat /\ Cardinality(S) \in Nat
      /\ Cardinality(A \cup S) \in Nat /\ Cardinality(A \cup S) <= Cardinality(Workers)
      /\ Cardinality(Workers) \in Nat
  <2>1. IsFiniteSet(Workers) /\ A \cup S \subseteq Workers
    BY PipelineAssumption, Zenon
  <2>2. QED
    BY <2>1, FS_Subset, FS_CardinalityType, Zenon
<1>2. A \subseteq S => Cardinality(A) <= Cardinality(S)
  BY <1>1, FS_Subset, Zenon
<1>3. A \cap S = {} => Cardinality(A) + Cardinality(S) <= Cardinality(Workers)
  <2>1. Cardinality(A \cup S) = Cardinality(A) + Cardinality(S) - Cardinality(A \cap S)
    BY <1>1, FS_Union, Zenon
  <2>2. Cardinality({}) = 0
    BY FS_EmptySet, Zenon
  <2>3. QED
    BY <1>1, <2>1, <2>2
<1>4. ASSUME NEW w \in A, w \notin S, S \subseteq A PROVE Cardinality(S) + 1 <= Cardinality(A)
  <2>1. S \subseteq A \ {w}
    BY <1>4, Zenon
  <2>2. IsFiniteSet(A \ {w}) /\ Cardinality(A \ {w}) = Cardinality(A) - 1
    BY <1>1, FS_RemoveElement, Zenon
  <2>3. Cardinality(S) <= Cardinality(A \ {w})
    BY <2>1, <2>2, FS_Subset, Zenon
  <2>4. QED
    BY <1>1, <2>2, <2>3
<1>5. ASSUME NEW w, A \ {w} \subseteq S PROVE Cardinality(A) <= Cardinality(S) + 1
  <2>1. IsFiniteSet(S \cup {w}) /\ Cardinality(S \cup {w}) <= Cardinality(S) + 1
    BY <1>1, FS_AddElement
  <2>2. A \subseteq S \cup {w}
    BY <1>5, Zenon
  <2>3. Cardinality(A) <= Cardinality(S \cup {w}) /\ Cardinality(S \cup {w}) \in Nat
    BY <2>1, <2>2, FS_Subset, FS_CardinalityType, Zenon
  <2>4. QED
    BY <1>1, <2>1, <2>3
<1>6. QED
  BY <1>1, <1>2, <1>3, <1>4, <1>5, Zenon

\* The budget is kept by every step.
LEMMA RetryNext == TypeOK /\ KnownInv /\ RetryInv /\ [Next]_vars => RetryInv'
<1> SUFFICES ASSUME TypeOK, TypeOK', KnownInv, RetryInv, [Next]_vars, NEW u \in Urls
             PROVE  /\ u \in payload' =>
                         retry'[u] <= Budget - 1 + Cardinality(Spent(u)') + faults'
                    /\ u \notin payload' =>
                         retry'[u] + Cardinality(Active(u)')
                           <= Budget - 1 + Cardinality(Workers) + faults'
  BY TypeNext, Zenon DEF RetryInv, Spent, Active
<1> DEFINE s == Cardinality(Spent(u))
           a == Cardinality(Active(u))
           t == Cardinality(Spent(u)')
           b == Cardinality(Active(u)')
           W == Cardinality(Workers)
<1>1. /\ s \in Nat /\ a \in Nat /\ t \in Nat /\ b \in Nat /\ W \in Nat
      /\ Spent(u) \subseteq Spent(u)' => s <= t
      /\ Active(u)' \subseteq Active(u) => b <= a
      /\ a + s <= W /\ b <= W
      /\ \A w \in Active(u) : w \notin Active(u)' /\ Active(u)' \subseteq Active(u) => b + 1 <= a
      /\ \A w \in Spent(u)' : w \notin Spent(u) /\ Spent(u) \subseteq Spent(u)' => s + 1 <= t
      /\ \A w : Spent(u) \ {w} \subseteq Spent(u)' => s <= t + 1
  <2>1. /\ Spent(u) \subseteq Workers /\ Active(u) \subseteq Workers
        /\ Spent(u)' \subseteq Workers /\ Active(u)' \subseteq Workers
        /\ Workers \subseteq Workers /\ Active(u) \cap Spent(u) = {}
    BY Zenon DEF Spent, Active, Early, Late
  <2> HIDE DEF s, a, t, b, W
  <2>2. s \in Nat /\ a \in Nat /\ t \in Nat /\ b \in Nat /\ W \in Nat /\ b <= W
    BY <2>1, Sizes, Zenon DEF s, a, t, b, W
  <2>3. /\ Spent(u) \subseteq Spent(u)' => s <= t
        /\ Active(u)' \subseteq Active(u) => b <= a
        /\ a + s <= W
    BY <2>1, Sizes, Zenon DEF s, a, t, b, W
  <2>4. /\ \A w \in Active(u) :
             w \notin Active(u)' /\ Active(u)' \subseteq Active(u) => b + 1 <= a
        /\ \A w \in Spent(u)' :
             w \notin Spent(u) /\ Spent(u) \subseteq Spent(u)' => s + 1 <= t
        /\ \A w : Spent(u) \ {w} \subseteq Spent(u)' => s <= t + 1
    BY <2>1, Sizes, Zenon DEF s, a, t, b
  <2>5. QED
    BY <2>2, <2>3, <2>4, Zenon
<1>2. /\ u \in payload => retry[u] <= Budget - 1 + s + faults
      /\ u \notin payload => retry[u] + a <= Budget - 1 + W + faults
  BY Zenon DEF RetryInv
<1>3. /\ retry[u] \in Nat /\ retry'[u] \in Nat /\ faults \in Nat /\ faults' \in Nat
      /\ Budget \in Nat /\ Budget >= 1 /\ MaxRetries <= Budget /\ MaxRetries \in Nat
  BY PipelineAssumption DEF TypeOK, Budget
<1> HIDE DEF s, a, t, b, W
<1> SUFFICES /\ u \in payload' => retry'[u] <= Budget - 1 + t + faults'
             /\ u \notin payload' => retry'[u] + b <= Budget - 1 + W + faults'
  BY Zenon DEF t, b, W
<1>4. CASE Keeps(u)
  BY <1>1, <1>2, <1>3, <1>4 DEF Keeps
<1>5. CASE Drops(u)
  BY <1>1, <1>2, <1>3, <1>5 DEF Drops
<1>6. CASE Counts(u)
  <2>1. \A w \in Active(u) : w \notin Spent(u)
    BY Zenon DEF Active, Spent, Early, Late
  <2>2. b + 1 <= a /\ s <= t /\ (retry'[u] < MaxRetries \/ s + 1 <= t)
    BY <1>1, <1>6, <2>1, Zenon DEF Counts
  <2>3. QED
    BY <1>1, <1>2, <1>3, <1>6, <2>2 DEF Counts
<1>7. CASE Claimed(u)
  BY <1>1, <1>2, <1>3, <1>7 DEF Claimed
<1>8. CASE Forgets(u)
  BY <1>1, <1>2, <1>3, <1>8 DEF Forgets
<1>9. CASE Arrives(u)
  BY <1>1, <1>3, <1>9 DEF Arrives, KnownInv
<1>10. QED
  BY <1>4, <1>5, <1>6, <1>7, <1>8, <1>9, RetryStep, Zenon

\* A URL that always fails is not fetched for ever: retry_count passes
\* max_retries at most once per worker and once per crash or failed call.
THEOREM RetriesCorrect == Spec => []RetriesBounded
<1>1. Init => KnownInv /\ RetryInv
  <2> SUFFICES ASSUME Init PROVE KnownInv /\ RetryInv
    BY Zenon
  <2>1. KnownInv
    BY Zenon DEF Init, DeliveryInit, KnownInv
  <2>2. \A u \in Urls : Active(u) = {} /\ Spent(u) = {} /\ u \notin payload
    BY Zenon DEF Init, DeliveryInit, Active, Spent, Early, Late
  <2>3. Cardinality({}) = 0 /\ Cardinality(Workers) \in Nat
    BY PipelineAssumption, FS_EmptySet, FS_CardinalityType, Zenon
  <2>4. Budget \in Nat /\ Budget >= 1 /\ faults = 0 /\ retry = [u \in Urls |-> 0]
    BY PipelineAssumption DEF Budget, Init
  <2>5. \A u \in Urls : retry[u] = 0 /\ Cardinality(Active(u)) = 0
    BY <2>2, <2>3, <2>4, Zenon
  <2>6. 0 + 0 <= Budget - 1 + Cardinality(Workers) + faults
    BY <2>3, <2>4
  <2>7. QED
    BY <2>1, <2>2, <2>5, <2>6, Zenon DEF RetryInv
<1>2. TypeOK /\ RetryInv => RetriesBounded
  <2> SUFFICES ASSUME TypeOK, RetryInv, NEW u \in Urls
               PROVE  retry[u] <= Budget + Cardinality(Workers) - 1 + faults
    BY Zenon DEF RetriesBounded, Budget
  <2>1. Active(u) \subseteq Workers /\ Spent(u) \subseteq Workers /\ Workers \subseteq Workers
    BY Zenon DEF Active, Spent
  <2>2. /\ Cardinality(Active(u)) \in Nat /\ Cardinality(Spent(u)) \in Nat
        /\ Cardinality(Workers) \in Nat /\ Cardinality(Spent(u)) <= Cardinality(Workers)
    BY <2>1, Sizes, Zenon
  <2>3. retry[u] \in Nat /\ faults \in Nat /\ Budget \in Nat
    BY PipelineAssumption DEF TypeOK, Budget
  <2>4. QED
    BY <2>2, <2>3 DEF RetryInv
<1>3. QED
  BY <1>1, <1>2, KnownNext, RetryNext, TypeCorrect, PTL DEF Spec

=============================================================================
