--------------------------- MODULE RequestsProofs ---------------------------
(***************************************************************************)
(* Proofs about Requests and Links for any hosts' caps, any statuses the   *)
(* server may answer, any body cap and any length of documents and chains. *)
(***************************************************************************)
EXTENDS Requests, UrlsProofs, TLAPS

\* Zenon, unless a leaf asks for another prover.
USE ZenonT(40)

-----------------------------------------------------------------------------
(* One report, and the whole body                                          *)

Untried == status = 0 /\ error = NoError /\ reports = <<>> /\ advertised = NoCap
Answered == status \in Statuses /\ error = NoError /\ reports = <<>>

\* fetch, exit by exit.
VerdictInv ==
  /\ Len(reports) = IF proxy = "proxy" /\ (status # 0 \/ error.type = "typed") THEN 1 ELSE 0
  /\ (error = NoError \/ advertised = MaxBody + 1) /\ reports # <<>> =>
       (reports[1] = "Banned" <=> status \in {403, 429}) /\ reports[1] \in {"Success", "Banned"}
  /\ error = NoError => advertised = NoCap \/ body = advertised

\* What the variables of a request are at each point of its way.
FetchInv ==
  /\ body \in 0 .. MaxBody
  /\ pc \notin {"outbound", "follow"} => doc = NoDoc
  /\ pc # "done" => recorded = NoFailure
  /\ pc \in {"seed", "gate", "resolve", "send"} => Untried
  /\ pc \in {"seed", "gate", "resolve"} => proxy = "unset"
  /\ pc \in {"headers", "body"} =>
       Answered /\ advertised \in 0 .. MaxBody + 1 \cup {NoCap}
  /\ pc = "body" => advertised = NoCap \/ advertised <= MaxBody
  /\ error = NoError \/ error.type = "text" \/ (error.type = "typed" /\ error.kind \in WreqKinds)
  /\ pc = "verdict" => VerdictInv
  /\ pc \in {"extract", "outbound", "follow"} => error = NoError /\ status \in 200 .. 399

\* An error is told from none by its type.
LEMMA ErrorTypes ==
  /\ NoError.type = "none"
  /\ \A x : LET e == [type |-> "typed", kind |-> x] IN e.type = "typed" /\ e.kind = x /\ e # NoError
  /\ TextError.type = "text" /\ TextError # NoError
<1>1. NoError.type = "none" /\ TextError.type = "text"
  BY DEF NoError, TextError
<1>2. ASSUME NEW x
      PROVE  [type |-> "typed", kind |-> x].type = "typed" /\ [type |-> "typed", kind |-> x].kind = x
  OBVIOUS
<1>3. QED
  BY <1>1, <1>2

\* A success is a response without error, with a status from 200 to 399.
LEMMA SuccessKind ==
  ASSUME error = NoError \/ error.type = "text" \/ (error.type = "typed" /\ error.kind \in WreqKinds),
         FailureKinds = {}
  PROVE  error = NoError /\ status \in 200 .. 399
<1>1. CASE error.type = "typed" /\ error.kind \in WreqKinds
  BY <1>1 DEF FailureKinds
<1>2. CASE error.type = "text"
  BY <1>2 DEF FailureKinds, TextKinds
<1>3. CASE error = NoError
  <2>1. ClassifyStatus(status) = "none"
    BY <1>3, ErrorTypes DEF FailureKinds
  <2>2. QED
    BY SMT, <1>3, <2>1 DEF ClassifyStatus
<1>4. QED
  BY <1>1, <1>2, <1>3

\* Report adds to a list that was empty, and only for a request with a proxy.
LEMMA FirstReport ==
  ASSUME NEW outcome, Report(outcome), reports = <<>>
  PROVE  reports' = IF proxy = "proxy" THEN <<outcome>> ELSE <<>>
BY SMT DEF Report

\* Every step of fetch, and of what follows it, keeps FetchInv.
LEMMA FetchNext == ASSUME FetchInv, [Next]_vars PROVE FetchInv'
<1> USE DEF FetchInv, request, response, verdict, document
<1>0. NoCap \notin Nat /\ 0 \notin Statuses /\ MaxBody \in Nat /\ MaxChunk \in Nat /\ Statuses \subseteq Nat
  BY SMTT(60), RequestAssumption DEF NoCap
<1>1. CASE UNCHANGED vars
  BY SMT, <1>1 DEF vars, Untried, Answered, VerdictInv
<1>2. CASE SeedRejected \/ Seed
  BY <1>2 DEF SeedRejected, Seed, Untried
<1>3. CASE Follow
  BY SMT, <1>0, <1>3 DEF Follow, Untried
<1>4. CASE Block \/ Disallow \/ Pass
  <2>1. CASE Block
    BY <2>1 DEF Block, Untried
  <2>2. CASE Disallow
    BY <2>2 DEF Disallow, Untried
  <2>3. CASE Pass
    BY <2>3 DEF Pass, Untried
  <2>4. QED
    BY <1>4, <2>1, <2>2, <2>3
<1>5. CASE ResolveProxy
  BY <1>5 DEF ResolveProxy, Untried
<1>6. CASE ResolveFails
  <2>1. error'.type = "text" /\ error' # NoError
    BY <1>6, ErrorTypes DEF ResolveFails
  <2>2. reports' = <<>> /\ status' = 0 /\ advertised' = NoCap
    BY <1>6 DEF ResolveFails, Untried
  <2>3. VerdictInv'
    BY SMT, <1>0, <2>1, <2>2 DEF VerdictInv, NoError
  <2>4. QED
    BY <1>6, <2>1, <2>3 DEF ResolveFails
<1>7. ASSUME NEW kind \in WreqKinds, SendFails(kind) PROVE FetchInv'
  <2>1. error'.type = "typed" /\ error'.kind = kind /\ error' # NoError
    BY <1>7, ErrorTypes DEF SendFails
  <2>2. reports = <<>> /\ status' = 0 /\ advertised' = NoCap
    BY <1>7 DEF SendFails, Untried
  <2>3. PICK outcome : reports' = IF proxy = "proxy" THEN <<outcome>> ELSE <<>>
    BY SMT, <1>7, <2>2, FirstReport DEF SendFails
  <2>4. VerdictInv'
    BY SMT, <1>0, <1>7, <2>1, <2>2, <2>3 DEF VerdictInv, SendFails
  <2>5. QED
    BY SMT, <1>7, <2>1, <2>4 DEF SendFails
<1>8. CASE Send
  BY <1>8 DEF Send, Untried, Answered
<1>9. CASE CapExceeded
  <2>1. error'.type = "text" /\ error' # NoError
    BY <1>9, ErrorTypes DEF CapExceeded
  <2>2. reports' = IF proxy = "proxy" THEN <<ClassifyOutcome(status)>> ELSE <<>>
    BY <1>9, FirstReport DEF CapExceeded, Answered
  <2>3. VerdictInv'
    BY SMT, <1>0, <1>9, <2>1, <2>2 DEF VerdictInv, CapExceeded, Answered, ClassifyOutcome
  <2>4. QED
    BY <1>9, <2>1, <2>3 DEF CapExceeded
<1>10. CASE Headers
  BY SMT, <1>0, <1>10 DEF Headers, Answered
<1>11. ASSUME NEW n \in 1 .. MaxChunk, Chunk(n) PROVE FetchInv'
  BY SMT, <1>0, <1>11 DEF Chunk, Answered
<1>12. ASSUME NEW n \in 1 .. MaxChunk, ChunkTooLarge(n) PROVE FetchInv'
  <2>1. error'.type = "text" /\ error' # NoError
    BY <1>12, ErrorTypes DEF ChunkTooLarge
  <2>2. reports' = IF proxy = "proxy" THEN <<"NetworkError">> ELSE <<>>
    BY SMT, <1>12, FirstReport DEF ChunkTooLarge, Answered
  <2>3. advertised' # MaxBody + 1
    BY SMT, <1>0, <1>12 DEF ChunkTooLarge
  <2>4. VerdictInv'
    BY <1>0, <1>12, <2>1, <2>2, <2>3 DEF VerdictInv, ChunkTooLarge, Answered
  <2>5. QED
    BY <1>12, <2>1, <2>4 DEF ChunkTooLarge
<1>13. ASSUME NEW kind \in WreqKinds, BodyFails(kind) PROVE FetchInv'
  <2>1. error'.type = "typed" /\ error'.kind = kind /\ error' # NoError
    BY <1>13, ErrorTypes DEF BodyFails
  <2>2. reports' = IF proxy = "proxy" THEN <<"NetworkError">> ELSE <<>>
    BY <1>13, FirstReport DEF BodyFails, Answered
  <2>3. advertised' # MaxBody + 1
    BY SMT, <1>0, <1>13 DEF BodyFails
  <2>4. VerdictInv'
    BY <1>0, <1>13, <2>1, <2>2, <2>3 DEF VerdictInv, BodyFails, Answered
  <2>5. QED
    BY <1>13, <2>1, <2>4 DEF BodyFails
<1>14. CASE BodyEnds
  <2>1. reports' = IF proxy = "proxy" THEN <<ClassifyOutcome(status)>> ELSE <<>>
    BY <1>14, FirstReport DEF BodyEnds, Answered
  <2>2. VerdictInv'
    BY SMT, <1>0, <1>14, <2>1 DEF VerdictInv, BodyEnds, Answered, ClassifyOutcome, NoError
  <2>3. QED
    BY <1>14, <2>2 DEF BodyEnds, Answered
<1>15. CASE RecordFailure
  BY <1>15 DEF RecordFailure
<1>16. CASE RecordFetch
  <2>1. error = NoError /\ status \in 200 .. 399
    BY <1>16, SuccessKind DEF RecordFetch
  <2>2. QED
    BY <1>16, <2>1 DEF RecordFetch
<1>17. CASE Adapt \/ ParseDocument \/ ParseFails \/ Outbound
  <2>1. CASE Adapt
    BY <2>1 DEF Adapt
  <2>2. CASE ParseDocument
    BY <2>2 DEF ParseDocument
  <2>3. CASE ParseFails
    BY <2>3 DEF ParseFails
  <2>4. CASE Outbound
    BY <2>4 DEF Outbound
  <2>5. QED
    BY <1>17, <2>1, <2>2, <2>3, <2>4
<1>18. QED
  BY <1>1, <1>2, <1>3, <1>4, <1>5, <1>6, <1>7, <1>8, <1>9, <1>10, <1>11, <1>12, <1>13, <1>14,
     <1>15, <1>16, <1>17 DEF Next

\* FetchInv holds throughout.
LEMMA FetchCorrect == Spec => []FetchInv
<1>1. Init => FetchInv
  BY SMT, RequestAssumption DEF Init, FetchInv, Untried
<1>2. QED
  BY <1>1, FetchNext, PTL DEF Spec

\* A proxy hears of each request sent through it, once, from whichever of its
\* exits fetch leaves by, and is called banned for a 403 or a 429 alone; for
\* every set of statuses and every body cap.
THEOREM OneReportCorrect == Spec => []OneReport
<1>1. FetchInv => OneReport
  BY DEF FetchInv, VerdictInv, OneReport
<1>2. QED
  BY <1>1, FetchCorrect, PTL

\* However the body is cut into chunks, no more than the cap is held, a body
\* that fetch returns is all of what was announced, and only a response
\* without error and with a status from 200 to 399 is read for links.
THEOREM BodyCorrect == Spec => []BodyWhole
<1>1. FetchInv => BodyWhole
  BY SMT, RequestAssumption DEF FetchInv, VerdictInv, BodyWhole
<1>2. QED
  BY <1>1, FetchCorrect, PTL

-----------------------------------------------------------------------------
(* compute_outbound                                                        *)

\* What Parted(links, depth, deep) has put in its list after i links.
Takes(link, depth, deep) == IsHttp(link) /\ (TooDeep(link, depth) <=> deep)
PartedBody(links, depth, deep, out, i) ==
  IF i = 0 THEN <<>>
  ELSE IF Takes(links[i], depth, deep) THEN Append(out[i - 1], links[i]) ELSE out[i - 1]
IsPartedFn(links, depth, deep, out) ==
  out = [i \in 0 .. Len(links) |-> PartedBody(links, depth, deep, out, i)]
PartedFn(links, depth, deep) == CHOOSE out : IsPartedFn(links, depth, deep, out)

\* Parted is the last state of its loop, whose function exists.
LEMMA PartedDef ==
  ASSUME NEW S, NEW links \in Seq(S), NEW depth, NEW deep
  PROVE  /\ Parted(links, depth, deep) = PartedFn(links, depth, deep)[Len(links)]
         /\ IsPartedFn(links, depth, deep, PartedFn(links, depth, deep))
<1> DEFINE n == Len(links)
           step == [p \in (1 .. n) \X Seq(S) |->
                      IF Takes(links[p[1]], depth, deep) THEN Append(p[2], links[p[1]]) ELSE p[2]]
<1>1. Parted(links, depth, deep) = PartedFn(links, depth, deep)[n]
  BY DEF Parted, PartedFn, IsPartedFn, PartedBody, Takes
<1>2. n \in Nat /\ <<>> \in Seq(S)
  BY SMT
<1>3. step \in [(1 .. n) \X Seq(S) -> Seq(S)]
  BY SMT
<1>4. \A i \in 1 .. n : \A q \in Seq(S) :
        step[<<i, q>>] = IF Takes(links[i], depth, deep) THEN Append(q, links[i]) ELSE q
  OBVIOUS
<1> HIDE DEF step
<1>5. PICK F \in [0 .. n -> Seq(S)] : Runs(F, n, <<>>, step)
  BY <1>2, <1>3, LoopExists
<1>6. ASSUME NEW i \in 0 .. n PROVE F[i] = PartedBody(links, depth, deep, F, i)
  <2>1. F[i] = IF i = 0 THEN <<>> ELSE step[<<i, F[i - 1]>>]
    BY <1>5 DEF Runs
  <2>2. CASE i = 0
    BY <2>1, <2>2 DEF PartedBody
  <2>3. CASE i # 0
    <3>1. i \in 1 .. n /\ F[i - 1] \in Seq(S)
      BY SMT, <1>2, <1>5, <2>3
    <3>2. QED
      BY <1>4, <2>1, <2>3, <3>1 DEF PartedBody
  <2>4. QED
    BY <2>2, <2>3
<1>7. IsPartedFn(links, depth, deep, F)
  BY <1>5, <1>6 DEF IsPartedFn
<1>8. QED
  BY <1>1, <1>7 DEF PartedFn

\* The history of the loop, one round at a time.
PartedRounds(P, links, depth, deep) ==
  /\ P[0] = <<>>
  /\ \A i \in 1 .. Len(links) :
       P[i] = IF Takes(links[i], depth, deep) THEN Append(P[i - 1], links[i]) ELSE P[i - 1]

\* The states of Parted's loop, round by round.
LEMMA PartedLoop ==
  ASSUME NEW S, NEW links \in Seq(S), NEW depth, NEW deep
  PROVE  /\ Parted(links, depth, deep) = PartedFn(links, depth, deep)[Len(links)]
         /\ PartedRounds(PartedFn(links, depth, deep), links, depth, deep)
<1> DEFINE P == PartedFn(links, depth, deep)
<1>1. Parted(links, depth, deep) = P[Len(links)] /\ IsPartedFn(links, depth, deep, P)
  BY PartedDef
<1> HIDE DEF P
<1>2. \A i \in 0 .. Len(links) : P[i] = PartedBody(links, depth, deep, P, i)
  <2>1. P = [i \in 0 .. Len(links) |-> PartedBody(links, depth, deep, P, i)]
    BY <1>1 DEF IsPartedFn
  <2>2. QED
    BY <2>1
<1>3. P[0] = <<>>
  BY SMT, <1>2 DEF PartedBody
<1>4. \A i \in 1 .. Len(links) : P[i] = IF Takes(links[i], depth, deep) THEN Append(P[i - 1], links[i]) ELSE P[i - 1]
  BY SMT, <1>2 DEF PartedBody
<1>5. QED
  BY <1>1, <1>3, <1>4 DEF P, PartedRounds

\* The list holds links of the page, each of which passed the test.
LEMMA PartedTakes ==
  ASSUME NEW S, NEW links \in Seq(S), NEW depth, NEW deep
  PROVE  /\ Parted(links, depth, deep) \in Seq(S)
         /\ \A k \in 1 .. Len(Parted(links, depth, deep)) :
              Takes(Parted(links, depth, deep)[k], depth, deep)
<1> DEFINE P == PartedFn(links, depth, deep)
           Good(i) == P[i] \in Seq(S) /\ \A k \in 1 .. Len(P[i]) : Takes(P[i][k], depth, deep)
<1>1. Parted(links, depth, deep) = P[Len(links)] /\ PartedRounds(P, links, depth, deep)
  BY PartedLoop
<1> HIDE DEF P
<1>2. Good(0)
  BY SMT, <1>1 DEF PartedRounds
<1>3. ASSUME NEW i \in 1 .. Len(links), Good(i - 1) PROVE Good(i)
  <2>1. P[i] = IF Takes(links[i], depth, deep) THEN Append(P[i - 1], links[i]) ELSE P[i - 1]
    BY <1>1 DEF PartedRounds
  <2>2. links[i] \in S
    BY SMT
  <2>3. QED
    BY SMT, <1>3, <2>1, <2>2
<1>4. Good(Len(links))
  <2> DEFINE G == {i \in 0 .. Len(links) : Good(i)}
  <2> HIDE DEF Good
  <2>1. Len(links) \in Nat /\ 0 \in G /\ \A i \in 1 .. Len(links) : i - 1 \in G => i \in G
    BY SMT, <1>2, <1>3
  <2>2. Len(links) \in G
    BY <2>1, Rounds
  <2>3. QED
    BY <2>2
<1>5. QED
  BY <1>1, <1>4

-----------------------------------------------------------------------------
(* resolve_links                                                           *)

\* What ResolveLinks(hrefs, base) has found after i hrefs.
Crawlable(base, href) == Joins(base, href) /\ IsHttp(Join(base, href)) /\ ~Denies(Join(base, href))
ResolveBody(hrefs, base, out, i) ==
  IF i = 0 THEN <<>>
  ELSE IF Crawlable(base, hrefs[i]) /\ ~Contains(out[i - 1], Join(base, hrefs[i]))
    THEN Append(out[i - 1], Join(base, hrefs[i])) ELSE out[i - 1]
IsResolveFn(hrefs, base, out) ==
  out = [i \in 0 .. Len(hrefs) |-> ResolveBody(hrefs, base, out, i)]
ResolveFn(hrefs, base) == CHOOSE out : IsResolveFn(hrefs, base, out)
Joined(base, S) == {Join(base, href) : href \in S}

\* ResolveLinks is the last state of its loop, whose function exists.
LEMMA ResolveDef ==
  ASSUME NEW S, NEW hrefs \in Seq(S), NEW base
  PROVE  /\ ResolveLinks(hrefs, base) = ResolveFn(hrefs, base)[Len(hrefs)]
         /\ IsResolveFn(hrefs, base, ResolveFn(hrefs, base))
<1> DEFINE n == Len(hrefs)
           L == Joined(base, S)
           step == [p \in (1 .. n) \X Seq(L) |->
                      IF Crawlable(base, hrefs[p[1]]) /\ ~Contains(p[2], Join(base, hrefs[p[1]]))
                      THEN Append(p[2], Join(base, hrefs[p[1]])) ELSE p[2]]
<1>1. ResolveLinks(hrefs, base) = ResolveFn(hrefs, base)[n]
  BY DEF ResolveLinks, ResolveFn, IsResolveFn, ResolveBody, Crawlable
<1>2. n \in Nat /\ <<>> \in Seq(L) /\ \A i \in 1 .. n : Join(base, hrefs[i]) \in L
  BY SMT DEF Joined
<1> HIDE DEF L
<1>3. step \in [(1 .. n) \X Seq(L) -> Seq(L)]
  BY SMT, <1>2
<1>4. \A i \in 1 .. n : \A q \in Seq(L) :
        step[<<i, q>>] = IF Crawlable(base, hrefs[i]) /\ ~Contains(q, Join(base, hrefs[i]))
                         THEN Append(q, Join(base, hrefs[i])) ELSE q
  OBVIOUS
<1> HIDE DEF step
<1>5. PICK F \in [0 .. n -> Seq(L)] : Runs(F, n, <<>>, step)
  BY <1>2, <1>3, LoopExists
<1>6. ASSUME NEW i \in 0 .. n PROVE F[i] = ResolveBody(hrefs, base, F, i)
  <2>1. F[i] = IF i = 0 THEN <<>> ELSE step[<<i, F[i - 1]>>]
    BY <1>5 DEF Runs
  <2>2. CASE i = 0
    BY SMT, <2>1, <2>2 DEF ResolveBody
  <2>3. CASE i # 0
    <3>1. i \in 1 .. n /\ F[i - 1] \in Seq(L)
      BY SMT, <1>2, <1>5, <2>3
    <3>2. QED
      BY SMT, <1>4, <2>1, <2>3, <3>1 DEF ResolveBody
  <2>4. QED
    BY SMT, <2>2, <2>3
<1>7. IsResolveFn(hrefs, base, F)
  BY <1>5, <1>6 DEF IsResolveFn
<1>8. QED
  BY <1>1, <1>7 DEF ResolveFn

ResolveRounds(R, hrefs, base) ==
  /\ R[0] = <<>>
  /\ \A i \in 1 .. Len(hrefs) :
       R[i] = IF Crawlable(base, hrefs[i]) /\ ~Contains(R[i - 1], Join(base, hrefs[i]))
              THEN Append(R[i - 1], Join(base, hrefs[i])) ELSE R[i - 1]

\* The states of resolve_links' loop, round by round.
LEMMA ResolveLoop ==
  ASSUME NEW S, NEW hrefs \in Seq(S), NEW base
  PROVE  /\ ResolveLinks(hrefs, base) = ResolveFn(hrefs, base)[Len(hrefs)]
         /\ ResolveRounds(ResolveFn(hrefs, base), hrefs, base)
<1> DEFINE R == ResolveFn(hrefs, base)
<1>1. ResolveLinks(hrefs, base) = R[Len(hrefs)] /\ IsResolveFn(hrefs, base, R)
  BY ResolveDef
<1> HIDE DEF R
<1>2. \A i \in 0 .. Len(hrefs) : R[i] = ResolveBody(hrefs, base, R, i)
  <2>1. R = [i \in 0 .. Len(hrefs) |-> ResolveBody(hrefs, base, R, i)]
    BY <1>1 DEF IsResolveFn
  <2>2. QED
    BY <2>1
<1>3. R[0] = <<>>
  BY SMT, <1>2 DEF ResolveBody
<1>4. \A i \in 1 .. Len(hrefs) :
        R[i] = IF Crawlable(base, hrefs[i]) /\ ~Contains(R[i - 1], Join(base, hrefs[i]))
               THEN Append(R[i - 1], Join(base, hrefs[i])) ELSE R[i - 1]
  BY SMT, <1>2 DEF ResolveBody
<1>5. QED
  BY <1>1, <1>3, <1>4 DEF R, ResolveRounds

\* After i hrefs the list holds exactly the crawlable links among them.
Finds(out, hrefs, base, i) ==
  \A x : Contains(out, x) <=> \E j \in 1 .. i : Crawlable(base, hrefs[j]) /\ Join(base, hrefs[j]) = x

\* After i rounds the list holds what the first i hrefs lead to.
LEMMA ResolveFinds ==
  ASSUME NEW S, NEW hrefs \in Seq(S), NEW base, NEW i \in 0 .. Len(hrefs)
  PROVE  /\ ResolveFn(hrefs, base)[i] \in Seq(Joined(base, S))
         /\ Finds(ResolveFn(hrefs, base)[i], hrefs, base, i)
<1> DEFINE R == ResolveFn(hrefs, base)
           L == Joined(base, S)
           Good(k) == /\ R[k] \in Seq(L)
                      /\ \A x : Contains(R[k], x)
                           <=> \E j \in 1 .. k : Crawlable(base, hrefs[j]) /\ Join(base, hrefs[j]) = x
<1>1. ResolveRounds(R, hrefs, base)
  BY ResolveLoop
<1>2. \A k \in 1 .. Len(hrefs) : Join(base, hrefs[k]) \in L
  BY SMT DEF Joined
<1> HIDE DEF R, L
<1>3. Good(0)
  BY SMT, <1>1 DEF ResolveRounds, Contains
<1>4. ASSUME NEW k \in 1 .. Len(hrefs), Good(k - 1) PROVE Good(k)
  <2> DEFINE new == Join(base, hrefs[k])
  <2>1. R[k] = IF Crawlable(base, hrefs[k]) /\ ~Contains(R[k - 1], new) THEN Append(R[k - 1], new) ELSE R[k - 1]
    BY <1>1 DEF ResolveRounds
  <2>2. \A x : (\E j \in 1 .. k : Crawlable(base, hrefs[j]) /\ Join(base, hrefs[j]) = x)
                 <=> \/ \E j \in 1 .. k - 1 : Crawlable(base, hrefs[j]) /\ Join(base, hrefs[j]) = x
                     \/ Crawlable(base, hrefs[k]) /\ x = new
    BY SMT
  <2>3. new \in L /\ R[k - 1] \in Seq(L)
    BY <1>2, <1>4
  <2> HIDE DEF new
  <2>4. CASE Crawlable(base, hrefs[k]) /\ ~Contains(R[k - 1], new)
    <3>1. R[k] = Append(R[k - 1], new)
      BY <2>1, <2>4
    <3>2. R[k] \in Seq(L) /\ \A x : Contains(R[k], x) <=> Contains(R[k - 1], x) \/ x = new
      BY SMT, <2>3, <3>1 DEF Contains
    <3>3. QED
      BY <1>4, <2>2, <2>4, <3>2
  <2>5. CASE ~(Crawlable(base, hrefs[k]) /\ ~Contains(R[k - 1], new))
    <3>1. R[k] = R[k - 1]
      BY <2>1, <2>5
    <3>2. \A x : Crawlable(base, hrefs[k]) /\ x = new => Contains(R[k - 1], x)
      BY <2>5
    <3>3. QED
      BY <1>4, <2>2, <3>1, <3>2
  <2>6. QED
    BY <2>4, <2>5
<1>5. Good(i)
  <2> DEFINE G == {k \in 0 .. Len(hrefs) : Good(k)}
  <2> HIDE DEF Good
  <2>1. i \in Nat /\ 0 \in G /\ \A k \in 1 .. i : k - 1 \in G => k \in G
    BY SMT, <1>3, <1>4
  <2>2. i \in G
    BY <2>1, Rounds
  <2>3. QED
    BY <2>2
<1>6. QED
  BY <1>5 DEF R, L, Finds

-----------------------------------------------------------------------------
(* Depth                                                                   *)

\* What extract hands over.
DocInv ==
  pc \in {"outbound", "follow"} =>
    /\ doc.hrefs \in Seq(Hrefs) /\ doc.base \in Bases
    /\ doc.via = "adapter" => doc.hrefs \in Seq(Absolute)

\* A URL is within its host's cap, and so are the links it leads to.
DepthInv ==
  /\ url.depth \in Nat /\ DepthHeld
  /\ pc = "follow" => \A i \in DOMAIN outbound.kept : ~TooDeep(outbound.kept[i], url.depth)

\* The documents of a bounded length are sequences.
LEMMA BoundedSequences == \A S : BoundedSeq(S, MaxHrefs) \subseteq Seq(S)
BY SMT, RequestAssumption DEF BoundedSeq

\* Only an adapter or the parser makes a document.
LEMMA DocNext == ASSUME DocInv, [Next]_vars PROVE DocInv'
<1> USE DEF DocInv, document
<1>1. CASE Adapt
  <2>1. PICK hrefs \in Adapted : doc' = [via |-> "adapter", hrefs |-> hrefs, base |-> "none"]
    BY <1>1 DEF Adapt
  <2>2. hrefs \in Seq(Absolute)
    BY BoundedSequences DEF Adapted
  <2>3. Absolute \subseteq Hrefs /\ "none" \in Bases
    BY DEF Hrefs, Bases
  <2>4. doc'.hrefs = hrefs /\ doc'.base = "none"
    BY <2>1
  <2> HIDE DEF DocInv
  <2>5. hrefs \in Seq(Hrefs)
    BY SMT, <2>2, <2>3
  <2>6. QED
    BY <2>2, <2>3, <2>4, <2>5 DEF DocInv
<1>2. CASE ParseDocument
  <2>1. PICK hrefs \in Documents, base \in Bases :
          doc' = [via |-> "parser", hrefs |-> hrefs, base |-> base]
    BY <1>2 DEF ParseDocument
  <2>2. hrefs \in Seq(Hrefs)
    BY BoundedSequences DEF Documents
  <2>3. doc'.hrefs = hrefs /\ doc'.base = base /\ doc'.via # "adapter"
    BY <2>1
  <2>4. QED
    BY <2>2, <2>3
<1>3. CASE Outbound
  BY <1>3 DEF Outbound
<1>4. CASE UNCHANGED vars
  BY <1>4 DEF vars
<1>5. CASE \/ SeedRejected \/ Seed \/ Follow \/ Block \/ Disallow \/ Pass \/ ResolveProxy \/ ResolveFails
           \/ Send \/ CapExceeded \/ Headers \/ BodyEnds
           \/ \E kind \in WreqKinds : SendFails(kind) \/ BodyFails(kind)
           \/ \E n \in 1 .. MaxChunk : Chunk(n) \/ ChunkTooLarge(n)
           \/ RecordFailure \/ RecordFetch \/ ParseFails
  <2>1. pc' \notin {"outbound", "follow"}
    BY <1>5
       DEF SeedRejected, Seed, Follow, Block, Disallow, Pass, ResolveProxy, ResolveFails, Send,
           CapExceeded, Headers, BodyEnds, SendFails, BodyFails, Chunk, ChunkTooLarge,
           RecordFailure, RecordFetch, ParseFails
  <2>2. QED
    BY <2>1
<1>6. QED
  BY <1>1, <1>2, <1>3, <1>4, <1>5 DEF Next

\* The steps that neither take a new URL nor part the links of the page.
LEMMA OtherSteps ==
  ASSUME [Next]_vars
  PROVE  \/ Seed \/ Follow \/ Outbound
         \/ url' = url /\ outbound' = outbound /\ (pc' = "follow" => UNCHANGED vars)
<1>1. CASE \/ SeedRejected \/ Block \/ Disallow \/ Pass \/ ResolveProxy \/ ResolveFails
           \/ Send \/ CapExceeded \/ Headers \/ BodyEnds
           \/ \E kind \in WreqKinds : SendFails(kind) \/ BodyFails(kind)
           \/ \E n \in 1 .. MaxChunk : Chunk(n) \/ ChunkTooLarge(n)
           \/ RecordFailure \/ RecordFetch \/ Adapt \/ ParseDocument \/ ParseFails
  BY <1>1
     DEF SeedRejected, Block, Disallow, Pass, ResolveProxy, ResolveFails, Send, CapExceeded, Headers,
         BodyEnds, SendFails, BodyFails, Chunk, ChunkTooLarge, RecordFailure, RecordFetch, Adapt,
         ParseDocument, ParseFails, request, document
<1>2. CASE UNCHANGED vars
  BY <1>2 DEF vars, request, document
<1>3. QED
  BY <1>1, <1>2 DEF Next

\* A URL that is followed was kept, so it is within its host's cap.
LEMMA DepthNext == ASSUME DocInv, DepthInv, [Next]_vars PROVE DepthInv'
<1> USE DEF DepthInv
<1>1. CASE Seed
  <2>1. url'.depth = 0 /\ pc' # "follow"
    BY <1>1 DEF Seed
  <2>2. QED
    BY SMT, <2>1 DEF DepthHeld
<1>2. CASE Follow
  <2>1. PICK i \in DOMAIN outbound.kept :
          url' = [host |-> outbound.kept[i].host, depth |-> url.depth + 1]
    BY <1>2 DEF Follow
  <2>2. ~TooDeep(outbound.kept[i], url.depth)
    BY <1>2 DEF Follow
  <2>3. url'.host = outbound.kept[i].host /\ url'.depth = url.depth + 1 /\ pc' # "follow"
    BY <1>2, <2>1 DEF Follow
  <2>4. DepthCap(url'.host) \in Nat \cup {NoCap}
    BY DepthAssumption DEF DepthCap
  <2>5. DepthCap(url'.host) # NoCap => url'.depth <= DepthCap(url'.host)
    BY SMT, <2>2, <2>3, <2>4 DEF TooDeep
  <2>6. QED
    BY SMT, <2>3, <2>5 DEF DepthHeld
<1>3. CASE Outbound
  <2>1. \E S : OutboundLinks \in Seq(S)
    <3>1. doc.hrefs \in Seq(Hrefs)
      BY <1>3 DEF Outbound, DocInv
    <3>2. ResolveLinks(doc.hrefs, EffectiveBase(final, doc.base))
            \in Seq(Joined(EffectiveBase(final, doc.base), Hrefs))
      <4>1. Len(doc.hrefs) \in 0 .. Len(doc.hrefs)
        BY SMT, <3>1
      <4>2. QED
        BY SMT, <3>1, <4>1, ResolveLoop, ResolveFinds
    <3>3. QED
      BY <3>1, <3>2 DEF OutboundLinks
  <2>2. PICK S : OutboundLinks \in Seq(S)
    BY <2>1
  <2> DEFINE kept == Parted(OutboundLinks, url.depth, FALSE)
  <2>3. kept \in Seq(S) /\ \A k \in 1 .. Len(kept) : Takes(kept[k], url.depth, FALSE)
    BY <2>2, PartedTakes
  <2>4. outbound'.kept = kept /\ url' = url
    BY <1>3 DEF Outbound, ComputeOutbound, request
  <2> HIDE DEF kept
  <2>5. \A k \in DOMAIN kept : ~TooDeep(kept[k], url.depth)
    BY SMT, <2>3 DEF Takes
  <2>6. QED
    BY <2>4, <2>5 DEF DepthHeld
<1>4. CASE url' = url /\ outbound' = outbound /\ (pc' = "follow" => UNCHANGED vars)
  BY <1>4 DEF DepthHeld, vars
<1>5. QED
  BY SMT, <1>1, <1>2, <1>3, <1>4, OtherSteps

\* However long a chain of links and whatever hosts it crosses, no URL is
\* requested deeper than its own host's cap: compute_outbound compares the
\* depth of each link with the cap of the host the link is on.
THEOREM DepthCorrect == Spec => []DepthHeld
<1>1. Init => DocInv /\ DepthInv
  BY SMT DEF Init, DocInv, DepthInv, DepthHeld
<1>2. DepthInv => DepthHeld
  BY DEF DepthInv
<1>3. QED
  BY <1>1, <1>2, DocNext, DepthNext, PTL DEF Spec

-----------------------------------------------------------------------------
(* The links of a document                                                 *)

\* Listing the members of a set in their order, a greatest one comes last.
LEMMA ListedLast ==
  ASSUME NEW hrefs, NEW base, NEW S \in SUBSET Nat, IsFiniteSet(S), NEW m \in Nat, \A j \in S : j < m
  PROVE  Listed(hrefs, base, S \cup {m}) = Append(Listed(hrefs, base, S), Join(base, hrefs[m]))
<1> DEFINE T == S \cup {m}
           c == Cardinality(S)
           Rank(U, i) == Cardinality({j \in U : j <= i})
           Nth(U, k) == CHOOSE i \in U : Rank(U, i) = k
<1>1. m \notin S /\ c \in Nat /\ Cardinality(T) = c + 1
  <2>1. m \notin S
    BY SMT
  <2>2. QED
    BY SMT, <2>1, FS_AddElement, FS_CardinalityType
<1>2. ASSUME NEW i \in S PROVE Rank(T, i) = Rank(S, i) /\ Rank(S, i) \in Nat /\ Rank(S, i) <= c
  <2>1. {j \in T : j <= i} = {j \in S : j <= i}
    BY SMT
  <2>2. {j \in S : j <= i} \subseteq S
    BY SMT
  <2>3. QED
    BY SMT, <2>1, <2>2, FS_Subset, FS_CardinalityType
<1>3. Rank(T, m) = c + 1
  <2>1. \A j \in T : j <= m
    BY SMT
  <2>2. {j \in T : j <= m} = T
    BY <2>1
  <2>3. QED
    BY <1>1, <2>2
<1>4. \A k \in 1 .. c : Nth(T, k) = Nth(S, k)
  <2> SUFFICES ASSUME NEW k \in 1 .. c PROVE Nth(T, k) = Nth(S, k)
    OBVIOUS
  <2>1. k # c + 1
    BY SMT, <1>1
  <2> HIDE DEF Rank, c
  <2>2. \A i : i \in T /\ Rank(T, i) = k <=> i \in S /\ Rank(S, i) = k
    BY <1>2, <1>3, <2>1
  <2>3. QED
    BY <2>2
<1>5. Nth(T, c + 1) = m
  <2> HIDE DEF Rank
  <2> HIDE DEF c
  <2>0. \A i \in S : Rank(T, i) # c + 1
    <3> SUFFICES ASSUME NEW i \in S PROVE Rank(T, i) # c + 1
      OBVIOUS
    <3>1. Rank(T, i) = Rank(S, i) /\ Rank(S, i) \in Nat /\ Rank(S, i) <= c
      BY <1>2
    <3>2. QED
      BY SMT, <1>1, <3>1
  <2>1. \A i \in T : Rank(T, i) = c + 1 => i = m
    BY <2>0
  <2>2. QED
    BY <1>3, <2>1
<1>6. QED
  <2> DEFINE LS == Listed(hrefs, base, S)
             LT == Listed(hrefs, base, T)
  <2>1. LS = [k \in 1 .. c |-> Join(base, hrefs[Nth(S, k)])]
    BY DEF Listed
  <2>2. LT = [k \in 1 .. c + 1 |-> Join(base, hrefs[Nth(T, k)])]
    BY <1>1 DEF Listed
  <2> HIDE DEF LS, LT, Nth, c
  <2>3. Len(LS) = c
    BY SMT, <1>1, <2>1
  <2>4. Append(LS, Join(base, hrefs[m])) =
          [k \in 1 .. c + 1 |-> IF k = c + 1 THEN Join(base, hrefs[m]) ELSE LS[k]]
    BY SMT, <1>1, <2>1, <2>3
  <2>5. \A k \in 1 .. c + 1 :
          LT[k] = IF k = c + 1 THEN Join(base, hrefs[m]) ELSE LS[k]
    <3>1. LT[c + 1] = Join(base, hrefs[m])
      BY SMT, <1>1, <1>5, <2>2
    <3>2. ASSUME NEW k \in 1 .. c PROVE LT[k] = LS[k] /\ k # c + 1
      <4>1. k \in 1 .. c + 1 /\ k # c + 1
        BY SMT, <1>1
      <4>2. LT[k] = Join(base, hrefs[Nth(T, k)]) /\ LS[k] = Join(base, hrefs[Nth(S, k)])
        BY <2>1, <2>2, <4>1
      <4>3. QED
        BY <1>4, <4>1, <4>2
    <3>3. \A k \in 1 .. c + 1 : k \in 1 .. c \/ k = c + 1
      BY SMT, <1>1
    <3>4. QED
      BY <3>1, <3>2, <3>3
  <2>6. LT = Append(LS, Join(base, hrefs[m]))
    BY <2>2, <2>4, <2>5
  <2>7. QED
    BY <2>6 DEF LS, LT

\* There is nothing to list in the empty set.
LEMMA ListedNone == \A hrefs, base : Listed(hrefs, base, {}) = <<>>
BY SMT, FS_EmptySet DEF Listed

\* A loop that appends the hrefs of a set, as it meets them, lists the set.
Collects(F, n, hrefs, base, U) ==
  /\ F[0] = <<>>
  /\ \A i \in 1 .. n : F[i] = IF i \in U THEN Append(F[i - 1], Join(base, hrefs[i])) ELSE F[i - 1]

\* A loop that appends the joins of the members of U ends with U listed.
LEMMA ListedLoop ==
  ASSUME NEW hrefs, NEW base, NEW n \in Nat, NEW U \in SUBSET (1 .. n), NEW F,
         Collects(F, n, hrefs, base, U)
  PROVE  F[n] = Listed(hrefs, base, U)
<1> DEFINE Upto(i) == {j \in U : j <= i}
           Good(i) == F[i] = Listed(hrefs, base, Upto(i))
<1>1. Good(0)
  <2>1. \A j \in U : ~(j <= 0)
    BY SMT
  <2>2. Upto(0) = {}
    BY <2>1
  <2>3. QED
    BY <2>2, ListedNone DEF Collects
<1>2. ASSUME NEW i \in 1 .. n, Good(i - 1) PROVE Good(i)
  <2>1. F[i] = IF i \in U THEN Append(F[i - 1], Join(base, hrefs[i])) ELSE F[i - 1]
    BY DEF Collects
  <2>2. i \in Nat /\ \A j \in U : j \in Nat /\ (j <= i - 1 => j < i) /\ (j <= i <=> j <= i - 1 \/ j = i)
    BY SMT
  <2>3. CASE i \in U
    <3> DEFINE V == Upto(i - 1)
    <3>1. Upto(i) = V \cup {i}
      BY <2>2, <2>3
    <3>2. V \in SUBSET Nat /\ (\A j \in V : j < i) /\ V \subseteq 1 .. n
      BY <2>2
    <3>3. IsFiniteSet(V)
      <4>1. IsFiniteSet(1 .. n)
        BY SMT, FS_Interval
      <4>2. QED
        BY <3>2, <4>1, FS_Subset
    <3>4. F[i - 1] = Listed(hrefs, base, V)
      BY <1>2
    <3> HIDE DEF V
    <3>5. Listed(hrefs, base, V \cup {i}) = Append(Listed(hrefs, base, V), Join(base, hrefs[i]))
      BY ONLY <2>2, <3>2, <3>3, ListedLast, Zenon
    <3>6. QED
      BY <2>1, <2>3, <3>1, <3>4, <3>5
  <2>4. CASE i \notin U
    <3>1. Upto(i) = Upto(i - 1)
      BY <2>2, <2>4
    <3>2. QED
      BY <1>2, <2>1, <2>4, <3>1
  <2>5. QED
    BY <2>3, <2>4
<1>3. Good(n)
  <2> DEFINE G == {i \in 0 .. n : Good(i)}
  <2> HIDE DEF Good
  <2>1. 0 \in G /\ \A i \in 1 .. n : i - 1 \in G => i \in G
    BY SMT, <1>1, <1>2
  <2>2. n \in G
    BY <2>1, Rounds
  <2>3. QED
    BY <2>2
<1>4. QED
  <2>1. \A j \in U : j <= n
    BY SMT
  <2>2. Upto(n) = U
    BY <2>1
  <2>3. QED
    BY <1>3, <2>2

\* The first rounds of a loop over a longer list are those over the shorter.
LEMMA PartedAppend ==
  ASSUME NEW S, NEW links \in Seq(S), NEW x \in S, NEW depth, NEW deep
  PROVE  Parted(Append(links, x), depth, deep) =
           IF Takes(x, depth, deep) THEN Append(Parted(links, depth, deep), x) ELSE Parted(links, depth, deep)
<1> DEFINE more == Append(links, x)
           n == Len(links)
           P == PartedFn(links, depth, deep)
           Q == PartedFn(more, depth, deep)
           Good(i) == Q[i] = P[i]
<1>1. more \in Seq(S) /\ n \in Nat /\ Len(more) = n + 1 /\ more[n + 1] = x
      /\ \A i \in 1 .. n : more[i] = links[i] /\ i \in 1 .. n + 1
  BY SMT
<1> HIDE DEF more
<1>2. Parted(links, depth, deep) = P[n] /\ PartedRounds(P, links, depth, deep)
  BY PartedLoop
<1>3. Parted(more, depth, deep) = Q[n + 1] /\ PartedRounds(Q, more, depth, deep)
  BY SMT, <1>1, PartedLoop
<1> HIDE DEF P, Q, n
<1>4. ASSUME NEW i \in 1 .. n, Good(i - 1) PROVE Good(i)
  <2>1. P[i] = IF Takes(links[i], depth, deep) THEN Append(P[i - 1], links[i]) ELSE P[i - 1]
    BY <1>2 DEF PartedRounds, n
  <2>2. Q[i] = IF Takes(links[i], depth, deep) THEN Append(Q[i - 1], links[i]) ELSE Q[i - 1]
    BY <1>1, <1>3 DEF PartedRounds
  <2>3. QED
    BY SMT, <1>4, <2>1, <2>2
<1>5. Q[n] = P[n]
  <2> DEFINE G == {i \in 0 .. n : Good(i)}
  <2>1. Good(0)
    BY <1>2, <1>3 DEF PartedRounds
  <2> HIDE DEF Good
  <2>2. 0 \in G /\ \A i \in 1 .. n : i - 1 \in G => i \in G
    BY SMT, <1>1, <1>4, <2>1
  <2>3. n \in G
    BY <1>1, <2>2, Rounds
  <2>4. QED
    BY <2>3 DEF Good
<1>6. Q[n + 1] = IF Takes(x, depth, deep) THEN Append(Q[n], x) ELSE Q[n]
  <2>1. n + 1 \in 1 .. n + 1 /\ (n + 1) - 1 = n
    BY SMT, <1>1
  <2>2. QED
    BY SMT, <1>1, <1>3, <2>1 DEF PartedRounds
<1>7. QED
  BY <1>2, <1>3, <1>5, <1>6 DEF more

\* Whether the link that href i leads to goes with the skipped or the kept.
Side(hrefs, base, depth, deep, i) == TooDeep(Join(base, hrefs[i]), depth) <=> deep

\* A link goes with the kept if it is within the cap of its host.
LEMMA SideWithin ==
  ASSUME NEW link, NEW depth \in Nat
  PROVE  TooDeep(link, depth) <=> ~(DepthCap(link.host) = NoCap \/ depth < DepthCap(link.host))
<1>1. DepthCap(link.host) \in Nat \cup {NoCap}
  BY DepthAssumption DEF DepthCap
<1>2. QED
  BY SMT, <1>1 DEF TooDeep, NoCap

\* A join changes the host alone.
LEMMA JoinKeeps ==
  ASSUME NEW href \in Hrefs, NEW base
  PROVE  /\ Join(base, href).to = href.to
         /\ href.to = "page" => Join(base, href).file = href.file /\ href.file \in {"html", "mp4"}
         /\ href \in Absolute => Join(base, href) = href
<1>1. CASE href \in Page(Hosts)
  BY <1>1 DEF Page, Hosts, Join
<1>2. CASE href \in Page({"base"})
  <2>1. href = [to |-> "page", host |-> "base", file |-> href.file] /\ href.file \in {"html", "mp4"}
    BY <1>2 DEF Page
  <2>2. Join(base, href) = [href EXCEPT !.host = base]
    BY SMT, <2>1 DEF Join
  <2>3. href \notin Absolute
    <3>1. href \notin Page(Hosts)
      BY SMT, <2>1 DEF Page, Hosts
    <3>2. href.to # "mail"
      BY SMT, <2>1
    <3>3. QED
      BY SMT, <3>1, <3>2 DEF Absolute
  <2>4. QED
    BY SMT, <2>1, <2>2, <2>3
<1>3. CASE href \in {[to |-> "mail"], [to |-> "blank"], [to |-> "invalid"]}
  BY SMT, <1>3 DEF Join
<1>4. QED
  BY <1>1, <1>2, <1>3 DEF Hrefs, Absolute

\* The links of an adapter are parted as they are.
LEMMA AdapterExact ==
  ASSUME NEW hrefs \in Seq(Absolute), NEW base, NEW depth, NEW deep
  PROVE  Parted(hrefs, depth, deep) =
           Listed(hrefs, base, {i \in DOMAIN hrefs : hrefs[i].to = "page" /\ Side(hrefs, base, depth, deep, i)})
<1> DEFINE n == Len(hrefs)
           P == PartedFn(hrefs, depth, deep)
           U == {i \in DOMAIN hrefs : hrefs[i].to = "page" /\ Side(hrefs, base, depth, deep, i)}
<1>1. Parted(hrefs, depth, deep) = P[n] /\ PartedRounds(P, hrefs, depth, deep)
  BY PartedLoop
<1>2. n \in Nat /\ DOMAIN hrefs = 1 .. n
  BY SMT
<1>3. ASSUME NEW i \in 1 .. n
      PROVE  Join(base, hrefs[i]) = hrefs[i] /\ (Takes(hrefs[i], depth, deep) <=> i \in U)
  <2>1. hrefs[i] \in Absolute
    BY SMT
  <2>2. hrefs[i] \in Hrefs
    BY <2>1 DEF Hrefs
  <2>3. Join(base, hrefs[i]) = hrefs[i]
    BY <2>1, <2>2, JoinKeeps
  <2>4. QED
    BY <1>2, <2>3 DEF Takes, IsHttp, Side
<1>4. U \in SUBSET (1 .. n)
  BY <1>2
<1> HIDE DEF P, U
<1>5. P[0] = <<>>
  BY <1>1 DEF PartedRounds
<1>6. ASSUME NEW i \in 1 .. n
      PROVE  P[i] = IF i \in U THEN Append(P[i - 1], Join(base, hrefs[i])) ELSE P[i - 1]
  <2>1. P[i] = IF Takes(hrefs[i], depth, deep) THEN Append(P[i - 1], hrefs[i]) ELSE P[i - 1]
    BY <1>1 DEF PartedRounds
  <2>2. QED
    BY <1>3, <2>1
<1> HIDE DEF n
<1>7. P[n] = Listed(hrefs, base, U)
  <2>1. Collects(P, n, hrefs, base, U)
    BY <1>5, <1>6 DEF Collects
  <2>2. QED
    BY ONLY <1>2, <1>4, <2>1, ListedLoop
<1>8. QED
  BY <1>1, <1>7 DEF U

\* The links of a document are parted as they are found.
LEMMA ParserExact ==
  ASSUME NEW hrefs \in Seq(Hrefs), NEW base, NEW depth, NEW deep
  PROVE  Parted(ResolveLinks(hrefs, base), depth, deep) =
           Listed(hrefs, base, {i \in FirstsOf(hrefs, base) : Side(hrefs, base, depth, deep, i)})
<1> DEFINE n == Len(hrefs)
           L == Joined(base, Hrefs)
           R == ResolveFn(hrefs, base)
           F == [i \in 0 .. n |-> Parted(R[i], depth, deep)]
           first == FirstsOf(hrefs, base)
           U == {i \in first : Side(hrefs, base, depth, deep, i)}
<1>1. ResolveLinks(hrefs, base) = R[n] /\ ResolveRounds(R, hrefs, base)
  BY ResolveLoop
<1>2. n \in Nat /\ DOMAIN hrefs = 1 .. n /\ \A i \in 1 .. n : hrefs[i] \in Hrefs
  BY SMT
<1>3. \A i \in 0 .. n : R[i] \in Seq(L) /\ Finds(R[i], hrefs, base, i)
  BY ResolveFinds
<1>4. \A i \in 1 .. n : Join(base, hrefs[i]) \in L
  BY <1>2 DEF Joined
<1>5. U \in SUBSET (1 .. n)
  BY <1>2 DEF FirstsOf
<1>6. ASSUME NEW i \in 1 .. n
      PROVE  i \in first <=> Crawlable(base, hrefs[i]) /\ ~Contains(R[i - 1], Join(base, hrefs[i]))
  <2>1. Crawlable(base, hrefs[i]) <=> Joins(base, hrefs[i]) /\ hrefs[i].to = "page" /\ hrefs[i].file = "html"
    <3>1. hrefs[i] \in Hrefs
      BY <1>2
    <3>2. /\ Join(base, hrefs[i]).to = hrefs[i].to
          /\ hrefs[i].to = "page" => /\ Join(base, hrefs[i]).file = hrefs[i].file
                                     /\ hrefs[i].file \in {"html", "mp4"}
      BY <3>1, JoinKeeps
    <3>3. QED
      BY <3>2 DEF Crawlable, IsHttp, Denies
  <2>2. i - 1 \in 0 .. n
    BY SMT, <1>2
  <2>3. Contains(R[i - 1], Join(base, hrefs[i]))
          <=> \E j \in 1 .. i - 1 : Crawlable(base, hrefs[j]) /\ Join(base, hrefs[j]) = Join(base, hrefs[i])
    BY <1>3, <2>2 DEF Finds
  <2>4. \A j : Crawlable(base, hrefs[i]) /\ Joins(base, hrefs[j]) /\ Join(base, hrefs[j]) = Join(base, hrefs[i])
                 => Crawlable(base, hrefs[j])
    BY DEF Crawlable
  <2>5. \A j : Crawlable(base, hrefs[j]) => Joins(base, hrefs[j])
    BY DEF Crawlable
  <2>6. i \in first <=> /\ Crawlable(base, hrefs[i])
                        /\ \A j \in 1 .. i - 1 : Joins(base, hrefs[j]) => Join(base, hrefs[j]) # Join(base, hrefs[i])
    BY <1>2, <2>1 DEF FirstsOf
  <2>7. QED
    BY <2>3, <2>4, <2>5, <2>6
<1>7. \A i \in 0 .. n : F[i] = Parted(R[i], depth, deep)
  OBVIOUS
<1> HIDE DEF R, F, first, L
<1>8. F[0] = <<>>
  <2>1. R[0] = <<>> /\ 0 \in 0 .. n
    BY SMT, <1>1, <1>2 DEF ResolveRounds
  <2>2. <<>> \in Seq(L) /\ Len(<<>>) = 0
    BY SMT
  <2>3. Parted(<<>>, depth, deep) = <<>>
    <3>1. /\ Parted(<<>>, depth, deep) = PartedFn(<<>>, depth, deep)[Len(<<>>)]
          /\ PartedRounds(PartedFn(<<>>, depth, deep), <<>>, depth, deep)
      BY ONLY <2>2, PartedLoop, Zenon
    <3>2. QED
      BY <2>2, <3>1 DEF PartedRounds
  <2>4. QED
    BY SMT, <1>7, <2>1, <2>3
<1>9. ASSUME NEW i \in 1 .. n
      PROVE  F[i] = IF i \in U THEN Append(F[i - 1], Join(base, hrefs[i])) ELSE F[i - 1]
  <2> DEFINE link == Join(base, hrefs[i])
             was == R[i - 1]
  <2>1. i - 1 \in 0 .. n /\ i \in 0 .. n
    BY SMT, <1>2
  <2>2. was \in Seq(L) /\ link \in L
    BY <1>3, <1>4, <2>1
  <2>3. F[i] = Parted(R[i], depth, deep) /\ F[i - 1] = Parted(was, depth, deep)
    BY <1>7, <2>1
  <2>4. R[i] = IF Crawlable(base, hrefs[i]) /\ ~Contains(was, link) THEN Append(was, link) ELSE was
    BY <1>1 DEF ResolveRounds
  <2>5. CASE i \in first
    <3>1. Crawlable(base, hrefs[i]) /\ R[i] = Append(was, link)
      BY SMT, <1>6, <2>4, <2>5
    <3>2. Takes(link, depth, deep) <=> i \in U
      BY <2>5, <3>1 DEF Takes, Crawlable, Side
    <3> HIDE DEF link, was, U
    <3>3. Parted(Append(was, link), depth, deep) =
            IF Takes(link, depth, deep) THEN Append(Parted(was, depth, deep), link) ELSE Parted(was, depth, deep)
      BY ONLY <2>2, PartedAppend
    <3>4. F[i] = IF i \in U THEN Append(F[i - 1], link) ELSE F[i - 1]
      BY <2>3, <3>1, <3>2, <3>3
    <3>5. QED
      BY <3>4 DEF link
  <2>6. CASE i \notin first
    <3>1. R[i] = was /\ i \notin U
      BY SMT, <1>6, <2>4, <2>6
    <3>2. QED
      BY SMT, <2>3, <3>1
  <2>7. QED
    BY SMT, <2>5, <2>6
<1> HIDE DEF n, U
<1>10. F[n] = Listed(hrefs, base, U)
  <2>1. Collects(F, n, hrefs, base, U)
    BY <1>8, <1>9 DEF Collects
  <2>2. QED
    BY ONLY <1>2, <1>5, <2>1, ListedLoop
<1>11. F[n] = Parted(R[n], depth, deep)
  BY SMT, <1>2, <1>7
<1>12. QED
  BY <1>1, <1>10, <1>11 DEF U, first

\* The two loops of one page give what OutboundExact says of it.
LEMMA OutboundNext == ASSUME DocInv, DepthInv, OutboundExact, [Next]_vars PROVE OutboundExact'
<1>1. CASE Seed
  BY <1>1 DEF Seed, OutboundExact
<1>2. CASE Follow
  BY <1>2 DEF Follow, OutboundExact
<1>3. CASE Outbound
  <2> DEFINE base == IF doc.base \in Hosts \cup {"mail"} THEN doc.base ELSE final
             hrefs == doc.hrefs
             said == IF doc.via = "adapter" THEN {i \in DOMAIN hrefs : hrefs[i].to = "page"}
                     ELSE FirstsOf(hrefs, base)
             within(i) == LET cap == DepthCap(Join(base, hrefs[i]).host) IN cap = NoCap \/ url.depth < cap
  <2>1. hrefs \in Seq(Hrefs) /\ doc.base \in Bases /\ (doc.via = "adapter" => hrefs \in Seq(Absolute))
    BY <1>3 DEF Outbound, DocInv
  <2>2. EffectiveBase(final, doc.base) = base
    BY <2>1 DEF EffectiveBase, Bases, Hosts
  <2>3. url.depth \in Nat
    BY DEF DepthInv
  <2>4. ASSUME NEW deep
        PROVE  Parted(OutboundLinks, url.depth, deep) =
                 Listed(hrefs, base, {i \in said : Side(hrefs, base, url.depth, deep, i)})
    <3>1. CASE doc.via = "adapter"
      <4>1. Parted(hrefs, url.depth, deep) =
              Listed(hrefs, base,
                     {i \in DOMAIN hrefs : hrefs[i].to = "page" /\ Side(hrefs, base, url.depth, deep, i)})
        BY SMT, <2>1, <3>1, AdapterExact
      <4>2. {i \in DOMAIN hrefs : hrefs[i].to = "page" /\ Side(hrefs, base, url.depth, deep, i)} =
              {i \in said : Side(hrefs, base, url.depth, deep, i)}
        BY <3>1
      <4>3. QED
        BY <3>1, <4>1, <4>2 DEF OutboundLinks
    <3>2. CASE doc.via # "adapter"
      BY SMT, <2>1, <2>2, <3>2, ParserExact DEF OutboundLinks
    <3>3. QED
      BY <3>1, <3>2
  <2>5. \A i : (Side(hrefs, base, url.depth, FALSE, i) <=> within(i))
               /\ (Side(hrefs, base, url.depth, TRUE, i) <=> ~within(i))
    BY SMT, <2>3, SideWithin DEF Side
  <2>6. UNCHANGED <<doc, url, final>>
    BY SMT, <1>3 DEF Outbound, request, response
  <2>7. /\ outbound'.kept = Parted(OutboundLinks, url.depth, FALSE)
        /\ outbound'.skipped = Parted(OutboundLinks, url.depth, TRUE)
    BY <1>3 DEF Outbound, ComputeOutbound
  <2>8. /\ outbound'.kept = Listed(hrefs, base, {i \in said : within(i)})
        /\ outbound'.skipped = Listed(hrefs, base, {i \in said : ~within(i)})
    <3> HIDE DEF base, hrefs, said, within
    <3>1. /\ {i \in said : Side(hrefs, base, url.depth, FALSE, i)} = {i \in said : within(i)}
          /\ {i \in said : Side(hrefs, base, url.depth, TRUE, i)} = {i \in said : ~within(i)}
      BY <2>5
    <3>2. QED
      BY <2>4, <2>7, <3>1
  <2>9. QED
    BY <2>6, <2>8 DEF OutboundExact
<1>4. CASE url' = url /\ outbound' = outbound /\ (pc' = "follow" => UNCHANGED vars)
  BY <1>4 DEF vars, request, response, document, OutboundExact
<1>5. QED
  BY SMT, <1>1, <1>2, <1>3, <1>4, OtherSteps

\* What a document of any length leads to is what it says: each crawlable
\* link once, in the order of its first appearance, kept or skipped by the
\* cap of its own host; and an adapter's links as they are.  The proof goes
\* through resolve_links and compute_outbound round by round.
THEOREM OutboundCorrect == Spec => []OutboundExact
<1>1. Init => DocInv /\ DepthInv /\ OutboundExact
  <2> SUFFICES ASSUME Init PROVE DocInv /\ DepthInv /\ OutboundExact
    BY SMT
  <2>1. pc = "seed" /\ url.depth = 0
    BY SMT DEF Init
  <2>2. DepthInv
    BY SMT, <2>1 DEF DepthInv, DepthHeld
  <2>3. DocInv
    BY SMT, <2>1 DEF DocInv
  <2>4. pc # "follow"
    BY SMT, <2>1
  <2>5. OutboundExact
    BY <2>4 DEF OutboundExact
  <2>6. QED
    BY <2>2, <2>3, <2>5
<1>2. QED
  BY <1>1, DocNext, DepthNext, OutboundNext, PTL DEF Spec

-----------------------------------------------------------------------------
(* Canonical URLs                                                          *)

\* As long as a seed has not been parsed, it is one of the texts.
AtSeed == pc = "seed" => text \in Addresses
THEOREM SeedTexts == Spec => []AtSeed
<1>1. Init => AtSeed
  BY RequestAssumption DEF Init, AtSeed, Addresses, Queries
<1>2. AtSeed /\ [Next]_vars => AtSeed'
  <2> SUFFICES ASSUME AtSeed, [Next]_vars PROVE AtSeed'
    BY SMT
  <2>1. CASE UNCHANGED vars
    BY <2>1 DEF AtSeed, vars, request
  <2>2. CASE Next
    <3>1. CASE SeedRejected \/ Seed \/ Follow \/ Block \/ Disallow \/ Pass \/ ResolveProxy \/ ResolveFails
      BY <3>1 DEF AtSeed, SeedRejected, Seed, Follow, Block, Disallow, Pass, ResolveProxy, ResolveFails
    <3>2. CASE Send \/ CapExceeded \/ Headers \/ BodyEnds
      BY <3>2 DEF AtSeed, Send, CapExceeded, Headers, BodyEnds
    <3>3. CASE \E kind \in WreqKinds : SendFails(kind) \/ BodyFails(kind)
      BY <3>3 DEF AtSeed, SendFails, BodyFails
    <3>4. CASE \E n \in 1 .. MaxChunk : Chunk(n) \/ ChunkTooLarge(n)
      BY <3>4 DEF AtSeed, Chunk, ChunkTooLarge
    <3>5. CASE RecordFailure \/ RecordFetch \/ Adapt \/ ParseDocument \/ ParseFails \/ Outbound
      BY <3>5 DEF AtSeed, RecordFailure, RecordFetch, Adapt, ParseDocument, ParseFails, Outbound
    <3>6. QED
      BY <2>2, <3>1, <3>2, <3>3, <3>4, <3>5 DEF Next
  <2>3. QED
    BY <2>1, <2>2
<1>3. QED
  BY <1>1, <1>2, PTL DEF Spec

\* Canonicalisation is idempotent on URLs no escape of which is broken by
\* another, and collapse_path_slashes keeps the embedded schemes and every
\* segment that is not empty.
THEOREM CanonicalStays == Spec => []CanonicalStable
<1>1. ASSUME AtSeed PROVE CanonicalStable
  <2> DEFINE path == FromText(text).path
             collapsed == CollapsePathSlashes(path)
  <2> SUFFICES ASSUME pc = "seed"
               PROVE  LET canonical == Canonicalize(FromText(text))
                      IN  /\ WellEscaped(text.path) => Canonicalize(FromText(canonical)) = canonical
                          /\ Cardinality(Schemes(collapsed)) = Cardinality(Schemes(path))
                          /\ Solid(collapsed) = Solid(path)
    BY DEF CanonicalStable
  <2>1. text \in Addresses /\ text.path \in Paths
    BY <1>1, CanonicalIs DEF AtSeed
  <2>2. WellEscaped(text.path) => Canonicalize(FromText(Canonicalize(FromText(text)))) = Canonicalize(FromText(text))
    BY <2>1, CanonicalFixed
  <2>3. path = SetPath(text.path)
    BY SMT, <2>1 DEF FromText, Addresses
  <2>4. path \in Seq(Segments) /\ path # <<>>
    BY <2>1, <2>3, SetPathIs
  <2> HIDE DEF path
  <2>5. Cardinality(Schemes(collapsed)) = Cardinality(Schemes(path)) /\ Solid(collapsed) = Solid(path)
    BY <2>4, CollapseKeeps
  <2>6. QED
    BY <2>2, <2>5
<1>2. QED
  BY <1>1, SeedTexts, PTL

\* A link that parse_relative returned parses again to itself.
THEOREM LinksStay == Spec => []LinksReparse
<1>1. ASSUME AtSeed PROVE LinksReparse
  <2> DEFINE c == Canonicalize(FromText(text))
  <2> SUFFICES ASSUME pc = "seed", WellEscaped(text.path), ParseRelative(text) # Rejected
               PROVE  Parse(ParseRelative(text)) = ParseRelative(text)
    BY DEF LinksReparse
  <2>1. text \in Addresses
    BY <1>1 DEF AtSeed
  <2>2. Canonicalize(FromText(c)) = c
    BY <2>1, CanonicalFixed
  <2>3. ParseRelative(text) = c /\ ~(Length(c) > MaxUrlLen)
    BY DEF ParseRelative
  <2> HIDE DEF c
  <2>4. QED
    BY <2>2, <2>3 DEF Parse
<1>2. QED
  BY <1>1, SeedTexts, PTL

\* A segment written with one escape more or less, or with a raw character,
\* is a segment.
LEMMA Unescaped ==
  ASSUME NEW s \in Wells, ~Empty(s)
  PROVE  LET t == [s EXCEPT !.escapes = 1 - @] IN t \in Wells /\ t.name = s.name /\ t.quote = s.quote
<1> DEFINE t == [s EXCEPT !.escapes = 1 - @]
<1>1. s \in Segments /\ s.escapes <= 1 /\ s.escapes \in Nat
  BY SegmentIs DEF Wells
<1>2. 1 - s.escapes \in Nat /\ 1 - s.escapes <= 1
  BY SMT, <1>1
<1>3. s \in [name : Names, escapes : Nat, quote : {"none", "raw", "encoded"}]
  BY <1>1 DEF Segments
<1>4. t \in [name : Names, escapes : Nat, quote : {"none", "raw", "encoded"}]
  BY <1>2, <1>3
<1>5. t.name = s.name /\ t.quote = s.quote /\ t.escapes = 1 - s.escapes
  BY <1>3
<1> HIDE DEF t
<1>6. t \in Segments
  BY <1>1, <1>4, <1>5 DEF Segments, Empty
<1>7. QED
  BY <1>2, <1>5, <1>6 DEF t, Wells

LEMMA Unquoted ==
  ASSUME NEW s \in Wells, s.quote = "encoded"
  PROVE  LET t == [s EXCEPT !.quote = "raw"] IN t \in Wells /\ t.name = s.name /\ t.quote = "raw"
<1> DEFINE t == [s EXCEPT !.quote = "raw"]
<1>1. s \in Segments /\ s.escapes <= 1 /\ "encoded" # "none"
  BY DEF Wells
<1>2. s \in [name : Names, escapes : Nat, quote : {"none", "raw", "encoded"}]
  BY <1>1 DEF Segments
<1>3. t \in [name : Names, escapes : Nat, quote : {"none", "raw", "encoded"}]
  BY <1>2
<1>4. t.name = s.name /\ t.escapes = s.escapes /\ t.quote = "raw"
  BY <1>2
<1> HIDE DEF t
<1>5. t \in Segments
  BY <1>1, <1>3, <1>4 DEF Segments
<1>6. QED
  BY <1>1, <1>4, <1>5 DEF t, Wells

\* The spellings of a URL that the rules of url.rs hold for one have one
\* canonical URL.
THEOREM VariantsMeet == Spec => []VariantsAgree
<1>1. ASSUME AtSeed PROVE VariantsAgree
  <2> DEFINE same(other) == Canonicalize(FromText(other)) = Canonicalize(FromText(text))
             p == text.path
             q == text.query
  <2> SUFFICES ASSUME pc = "seed", WellEscaped(text.path)
               PROVE  /\ same([text EXCEPT !.extra = ~@])
                      /\ same([text EXCEPT !.query = Reverse(@)])
                      /\ \A n \in Tracking : same([text EXCEPT !.query = <<n>> \o @])
                      /\ \A i \in DOMAIN text.path :
                           /\ ~Empty(text.path[i]) => same([text EXCEPT !.path[i].escapes = 1 - @])
                           /\ text.path[i].quote = "encoded" => same([text EXCEPT !.path[i].quote = "raw"])
                      /\ Dotless(text.path) =>
                           \A i \in Doublable(text.path) : same([text EXCEPT !.path = InsertAt(@, i, EmptySegment)])
    BY DEF VariantsAgree
  <2>1. text \in Addresses /\ p \in Paths /\ q \in Queries
    BY <1>1, CanonicalIs DEF AtSeed
  <2>2. ASSUME NEW o \in Addresses, Canonical(o.path) = Canonical(p), CanonicalQuery(o.query) = CanonicalQuery(q)
        PROVE  same(o)
    BY <2>1, <2>2, CanonicalIs
  <2> HIDE DEF same
  <2>3. same([text EXCEPT !.extra = ~@])
    <3> DEFINE o == [text EXCEPT !.extra = ~@]
    <3>1. o \in Addresses /\ o.path = p /\ o.query = q
      BY <2>1 DEF Addresses
    <3> HIDE DEF o
    <3>2. same(o)
      BY <2>2, <3>1
    <3>3. QED
      BY <3>2 DEF o
  <2>4. same([text EXCEPT !.query = Reverse(@)])
    <3> DEFINE r == Reverse(q)
               o == [text EXCEPT !.query = r]
    <3>1. r \in Queries /\ CanonicalQuery(r) = CanonicalQuery(q)
      BY <2>1, QueryIsCanonical
    <3> HIDE DEF r
    <3>2. o \in Addresses /\ o.path = p /\ o.query = r
      BY SMT, <2>1, <3>1 DEF Addresses
    <3> HIDE DEF o
    <3>3. same(o)
      BY <2>2, <3>1, <3>2
    <3>4. QED
      BY <3>3 DEF o, r
  <2>5. ASSUME NEW n \in Tracking PROVE same([text EXCEPT !.query = <<n>> \o @])
    <3> DEFINE r == <<n>> \o q
               o == [text EXCEPT !.query = r]
    <3>1. r \in Queries /\ CanonicalQuery(r) = CanonicalQuery(q)
      BY <2>1, QueryIsCanonical
    <3> HIDE DEF r
    <3>2. o \in Addresses /\ o.path = p /\ o.query = r
      BY SMT, <2>1, <3>1 DEF Addresses
    <3> HIDE DEF o
    <3>3. same(o)
      BY <2>2, <3>1, <3>2
    <3>4. QED
      BY <3>3 DEF o, r
  <2>6. p \in Seq(Wells) /\ p # <<>> /\ \A i \in DOMAIN p : p[i] \in Wells
    <3>1. p \in Seq(Wells) /\ p # <<>>
      BY <2>1, WellPaths
    <3> HIDE DEF p
    <3>2. \A S : \A s \in Seq(S) : \A i \in DOMAIN s : s[i] \in S
      BY SMT
    <3>3. QED
      BY <3>1, <3>2
  <2>7. ASSUME NEW v \in Seq(Wells), v # <<>>, Canonical(v) = Canonical(p)
        PROVE  same([text EXCEPT !.path = v])
    <3> DEFINE o == [text EXCEPT !.path = v]
    <3>1. v \in Paths
      <4>1. Wells \subseteq Segments
        BY DEF Wells
      <4>2. \A S, T : S \subseteq T => Seq(S) \subseteq Seq(T)
        BY SMT
      <4>3. QED
        BY <2>7, <4>1, <4>2 DEF Paths
    <3>2. o \in Addresses /\ o.path = v /\ o.query = q
      BY SMT, <2>1, <3>1 DEF Addresses
    <3> HIDE DEF o
    <3>3. same(o)
      BY <2>2, <2>7, <3>2
    <3>4. QED
      BY <3>3 DEF o
  <2>8. ASSUME NEW i \in DOMAIN p, ~Empty(p[i]) PROVE same([text EXCEPT !.path[i].escapes = 1 - @])
    <3> DEFINE t == [p[i] EXCEPT !.escapes = 1 - @]
               v == [p EXCEPT ![i] = t]
    <3>1. t \in Wells /\ t.name = p[i].name /\ t.quote = p[i].quote
      BY <2>6, <2>8, Unescaped
    <3> HIDE DEF t
    <3>2. t.quote = "none" <=> p[i].quote = "none"
      BY <3>1
    <3>3. v \in Seq(Wells) /\ v # <<>> /\ Canonical(v) = Canonical(p)
      BY <2>6, <3>1, <3>2, SpellingAgrees
    <3> HIDE DEF v
    <3>4. same([text EXCEPT !.path = v])
      BY <2>7, <3>3
    <3>5. QED
      BY <3>4 DEF t, v
  <2>9. ASSUME NEW i \in DOMAIN p, p[i].quote = "encoded" PROVE same([text EXCEPT !.path[i].quote = "raw"])
    <3> DEFINE t == [p[i] EXCEPT !.quote = "raw"]
               v == [p EXCEPT ![i] = t]
    <3>1. t \in Wells /\ t.name = p[i].name /\ t.quote = "raw"
      BY <2>6, <2>9, Unquoted
    <3>2. "raw" # "none" /\ "encoded" # "none"
      BY SMT
    <3> HIDE DEF t
    <3>3. v \in Seq(Wells) /\ v # <<>> /\ Canonical(v) = Canonical(p)
      BY <2>6, <2>9, <3>1, <3>2, SpellingAgrees
    <3> HIDE DEF v
    <3>4. same([text EXCEPT !.path = v])
      BY <2>7, <3>3
    <3>5. QED
      BY <3>4 DEF t, v
  <2>10. ASSUME Dotless(p), NEW i \in Doublable(p) PROVE same([text EXCEPT !.path = InsertAt(@, i, EmptySegment)])
    <3> DEFINE v == InsertAt(p, i, EmptySegment)
    <3>1. v \in Seq(Wells) /\ v # <<>> /\ Canonical(v) = Canonical(p)
      BY <2>6, <2>10, DoublesAgree
    <3> HIDE DEF v
    <3>2. same([text EXCEPT !.path = v])
      BY <2>7, <3>1
    <3>3. QED
      BY <3>2 DEF v
  <2>11. QED
    BY <2>3, <2>4, <2>5, <2>8, <2>9, <2>10
<1>2. QED
  BY <1>1, SeedTexts, PTL

=============================================================================
