------------------------------ MODULE Requests ------------------------------
(***************************************************************************)
(* One URL from its text to its links: the seed that is parsed, the gate   *)
(* of the blocklist, the request through a proxy (crates/crawlrs-fetch),   *)
(* the verdict on the response and the wake plan of its host               *)
(* (crates/crawlrs-runtime: worker.rs, failure.rs), and the links of the   *)
(* document (module Links).  What becomes of the verdict in the ledger and *)
(* in the frontier is in modules Pipeline and HostBackoff.                 *)
(***************************************************************************)
EXTENDS Links, Functions

CONSTANTS
  Texts,        \* seed texts
  Statuses,     \* HTTP statuses the server may answer
  Blocked,      \* hosts on the blocklist
  HostDelay,    \* politeness.host_delay
  DelayOf,      \* hosts with a host_delay of their own, and its value
  Enabled,      \* politeness.enabled
  Backoffs,     \* windows the backoff tracker may return
  RetryAfters,  \* numbers a Retry-After header may hold
  MaxBody,      \* max_body_bytes
  MaxChunk,     \* bound: bytes of one chunk
  MaxHrefs,     \* bound: hrefs of a document
  MaxDepth      \* bound: depth to which links are followed

ASSUME RequestAssumption ==
  /\ Statuses \subseteq Nat \ {0} /\ MaxBody \in Nat /\ MaxChunk \in Nat
  /\ MaxHrefs \in Nat /\ MaxDepth \in Nat
  /\ Texts \subseteq [path : Paths, query : Seq(Nat), extra : BOOLEAN]

VARIABLES
  pc,
  text,         \* the seed's text
  url,          \* the request: its host and its depth
  proxy,        \* "unset", "direct" or "proxy"
  reports,      \* outcomes reported to the proxy resolver
  status,       \* the response's status, 0 before there is one
  advertised,   \* its Content-Length, NoCap without the header
  body,         \* bytes of the body read so far
  error,        \* the fetch error: typed with a kind, or a text
  final,        \* the host the redirects ended at
  recorded,     \* the failure the politeness layer was told of
  wake,         \* the host and the delay of the wake plan applied
  doc,          \* the document: who read it, its hrefs and its <base href>
  outbound      \* its links, kept and skipped

request == <<text, url>>
response == <<status, advertised, body, error, final>>
verdict == <<recorded, wake>>
document == <<doc, outbound>>
vars == <<pc, request, proxy, reports, response, verdict, document>>

NoText == Rejected
NoError == [type |-> "none"]
TextError == [type |-> "text"]
NoFailure == [kind |-> "none", hint |-> NoCap]
NoWake == [host |-> "none", delay |-> 0]
NoDoc == [via |-> "none", hrefs |-> <<>>, base |-> "none"]
NoLinks == [kept |-> <<>>, skipped |-> <<>>]

\* classify_wreq_error: the kinds of an error of the transport.  And
\* classify_transport_error: those a text may be taken for, by the words it
\* contains, be it in the URL it quotes.
WreqKinds == {"Timeout", "TlsError", "ConnectReset", "Other"}
TextKinds ==
  {"ResourceExhausted", "TlsError", "DnsFailure", "Unreachable", "Timeout", "ConnectReset", "Other"}
Outcomes == {"Success", "Banned", "Timeout", "NetworkError"}
Depths == 0 .. MaxDepth
Documents == BoundedSeq(Hrefs, MaxHrefs)
Adapted == BoundedSeq(Absolute, MaxHrefs)

TypeOK ==
  /\ pc \in {"seed", "gate", "resolve", "send", "headers", "body", "verdict", "extract",
             "outbound", "follow", "done"}
  /\ text = NoText \/ text \in Texts
  /\ url \in [host : Hosts, depth : Depths]
  /\ proxy \in {"unset", "direct", "proxy"} /\ reports \in Seq(Outcomes)
  /\ status \in Statuses \cup {0} /\ advertised \in 0 .. MaxBody + 1 \cup {NoCap}
  /\ body \in Nat
  /\ error \in {NoError, TextError} \/ (error.type = "typed" /\ error.kind \in WreqKinds)
  /\ wake \in [host : Hosts, delay : Nat] \cup {NoWake}
  /\ final \in Hosts
  /\ Range(doc.hrefs) \subseteq Hrefs /\ doc.base \in Bases
  /\ Range(outbound.kept) \cup Range(outbound.skipped) \subseteq Page(Hosts)

Init ==
  /\ pc = "seed" /\ text \in Texts
  /\ url = [host |-> "a", depth |-> 0]
  /\ proxy = "unset" /\ reports = <<>>
  /\ status = 0 /\ advertised = NoCap /\ body = 0 /\ error = NoError /\ final = "a"
  /\ recorded = NoFailure /\ wake = NoWake
  /\ doc = NoDoc /\ outbound = NoLinks

-----------------------------------------------------------------------------
(* The seed and the gates                                                  *)

\* read_seeds: a seed that does not parse is passed over.
SeedRejected ==
  /\ pc = "seed" /\ Parse(text) = Rejected
  /\ pc' = "done" /\ text' = NoText
  /\ UNCHANGED <<url, proxy, reports, response, verdict, document>>

\* UrlEntry::seed: a seed that parses is at depth 0, and is claimed.
Seed ==
  /\ pc = "seed" /\ Parse(text) # Rejected
  /\ url' \in [host : Hosts, depth : {0}]
  /\ final' = url'.host /\ pc' = "gate" /\ text' = NoText
  /\ UNCHANGED <<proxy, reports, status, advertised, body, error, verdict, document>>

\* One of the links the page led to is claimed in its turn.
Follow ==
  /\ pc = "follow" /\ url.depth < MaxDepth
  /\ \E i \in DOMAIN outbound.kept : url' = [host |-> outbound.kept[i].host, depth |-> url.depth + 1]
  /\ final' = url'.host /\ pc' = "gate"
  /\ proxy' = "unset" /\ reports' = <<>>
  /\ status' = 0 /\ advertised' = NoCap /\ body' = 0 /\ error' = NoError
  /\ recorded' = NoFailure /\ wake' = NoWake /\ doc' = NoDoc /\ outbound' = NoLinks
  /\ UNCHANGED text

\* politeness_allows: the blocklist is looked at first, and then the
\* politeness layer, which modules RobotsCache and HostBackoff model.
Block ==
  /\ pc = "gate" /\ url.host \in Blocked /\ pc' = "done"
  /\ UNCHANGED <<request, proxy, reports, response, verdict, document>>
Disallow ==
  /\ pc = "gate" /\ url.host \notin Blocked /\ Enabled /\ pc' = "done"
  /\ UNCHANGED <<request, proxy, reports, response, verdict, document>>
Pass ==
  /\ pc = "gate" /\ url.host \notin Blocked /\ pc' = "resolve"
  /\ UNCHANGED <<request, proxy, reports, response, verdict, document>>

-----------------------------------------------------------------------------
(* WreqFetcher::fetch                                                      *)

Report(outcome) == reports' = IF proxy = "proxy" THEN Append(reports, outcome) ELSE reports

\* classify_outcome: the proxy is banned, or has done its work.
ClassifyOutcome(s) == IF s \in {403, 429} THEN "Banned" ELSE "Success"

\* ProxyResolver::resolve.
ResolveProxy ==
  /\ pc = "resolve" /\ proxy' \in {"direct", "proxy"} /\ pc' = "send"
  /\ UNCHANGED <<request, reports, response, verdict, document>>
\* The resolver fails, or names a proxy URL that cannot be used.
ResolveFails ==
  /\ pc = "resolve" /\ proxy' \in {"unset", "proxy"}
  /\ error' = TextError /\ pc' = "verdict"
  /\ UNCHANGED <<request, reports, status, advertised, body, final, verdict, document>>

SendFails(kind) ==
  /\ pc = "send" /\ error' = [type |-> "typed", kind |-> kind]
  /\ Report(IF kind = "Timeout" THEN "Timeout" ELSE "NetworkError")
  /\ pc' = "verdict"
  /\ UNCHANGED <<request, proxy, status, advertised, body, final, verdict, document>>

\* The response, after any redirects, on whatever host they ended.
Send ==
  /\ pc = "send" /\ status' \in Statuses /\ final' \in Hosts
  /\ advertised' \in 0 .. MaxBody + 1 \cup {NoCap}
  /\ pc' = "headers"
  /\ UNCHANGED <<request, proxy, reports, body, error, verdict, document>>

\* A Content-Length above the cap ends it: the proxy is not to blame.
CapExceeded ==
  /\ pc = "headers" /\ advertised # NoCap /\ advertised > MaxBody
  /\ Report(ClassifyOutcome(status))
  /\ error' = TextError /\ pc' = "verdict"
  /\ UNCHANGED <<request, proxy, status, advertised, body, final, verdict, document>>
Headers ==
  /\ pc = "headers" /\ ~(advertised # NoCap /\ advertised > MaxBody) /\ pc' = "body"
  /\ UNCHANGED <<request, proxy, reports, response, verdict, document>>

\* read_body: a chunk that fits, or the one that does not.
LateCheck(n) ==
  /\ pc = "body" /\ body <= MaxBody /\ (advertised # NoCap => body + n <= advertised)
  /\ body' = body + n
  /\ UNCHANGED <<pc, request, proxy, reports, status, advertised, error, final, verdict, document>>
Chunk(n) ==
  /\ pc = "body" /\ body + n <= MaxBody /\ (advertised # NoCap => body + n <= advertised)
  /\ body' = body + n
  /\ UNCHANGED <<pc, request, proxy, reports, status, advertised, error, final, verdict, document>>
ChunkTooLarge(n) ==
  /\ pc = "body" /\ body + n > MaxBody /\ (advertised # NoCap => body + n <= advertised)
  /\ Report("NetworkError")
  /\ error' = TextError /\ pc' = "verdict"
  /\ UNCHANGED <<request, proxy, status, advertised, body, final, verdict, document>>
BodyFails(kind) ==
  /\ pc = "body" /\ Report("NetworkError")
  /\ error' = [type |-> "typed", kind |-> kind] /\ pc' = "verdict"
  /\ UNCHANGED <<request, proxy, status, advertised, body, final, verdict, document>>
\* The stream ends: with a Content-Length, where it said.
ReportTwice ==
  /\ pc = "body" /\ (advertised # NoCap => body = advertised)
  /\ reports' = IF proxy = "proxy" THEN reports \o <<"Success", ClassifyOutcome(status)>> ELSE reports
  /\ pc' = "verdict"
  /\ UNCHANGED <<request, proxy, response, verdict, document>>
BodyEnds ==
  /\ pc = "body" /\ (advertised # NoCap => body = advertised)
  /\ Report(ClassifyOutcome(status)) /\ pc' = "verdict"
  /\ UNCHANGED <<request, proxy, response, verdict, document>>

-----------------------------------------------------------------------------
(* The verdict                                                             *)

\* classify_status, "none" for a success.
ClassifyStatus(s) ==
  CASE s \in 200 .. 399 -> "none"
    [] s \in {404, 410} -> "NotFound"
    [] s = 429 -> "TooManyRequests"
    [] s \in 400 .. 499 \ {404, 410, 429} -> "ClientError"
    [] s = 503 -> "ServiceUnavailable"
    [] s \in 500 .. 599 \ {503} -> "ServerError"
    [] OTHER -> "Other"

\* What the failure of a request may be classified as: nothing, if it has not
\* failed.
FailureKinds ==
  CASE error.type = "typed" -> {error.kind}
    [] error.type = "text"  -> TextKinds
    [] error.type = "none"  -> {ClassifyStatus(status)} \ {"none"}

\* parse_retry_after: a number of seconds, a date, which may have passed, or
\* nothing of use.  Only a response has the header.
HeaderForms(forms, secs) == [form : forms, secs : secs]
RetryHeaders ==
  IF error = NoError
  THEN HeaderForms({"malformed", "past"}, {0}) \cup HeaderForms({"seconds"}, RetryAfters) \cup HeaderForms({"absent"}, {0})
  ELSE HeaderForms({"absent"}, {0})
ParseRetryAfter(header) ==
  CASE header.form \in {"absent", "malformed"} -> NoCap
    [] header.form = "past" -> 0
    [] header.form = "seconds" -> header.secs

\* apply_wake_plan: a plan that is not in the future is not written, and an
\* error of the politeness layer or of the frontier leaves the host alone.
Apply(host, delay) ==
  \/ delay > 0 /\ wake' = [host |-> host, delay |-> delay]
  \/ UNCHANGED wake

\* What a failure may put the host off by: nothing without politeness.
FailureDelays == IF Enabled THEN Backoffs ELSE {0}

\* fetch: record_failure, then handle_failure (module Pipeline).
RecordFailure ==
  /\ pc = "verdict"
  /\ \E kind \in FailureKinds, header \in RetryHeaders :
       recorded' = [kind |-> kind, hint |-> ParseRetryAfter(header)]
  /\ \E delay \in FailureDelays : Apply(url.host, delay)
  /\ pc' = "done"
  /\ UNCHANGED <<request, proxy, reports, response, document>>

\* RedisWakePlanner::effective_host_delay.
EffectiveHostDelay(host) == IF host \in DOMAIN DelayOf THEN DelayOf[host] ELSE HostDelay
PlannedDelay(host) == IF Enabled THEN EffectiveHostDelay(host) ELSE 0

\* fetch: record_fetch, for the URL that was asked for.  What only the
\* fetcher knew of the exchange has gone with its return.
RecordFetch ==
  /\ pc = "verdict" /\ FailureKinds = {}
  /\ Apply(url.host, PlannedDelay(url.host))
  /\ pc' = "extract" /\ proxy' = "unset" /\ reports' = <<>> /\ advertised' = NoCap
  /\ UNCHANGED <<request, status, body, error, final, recorded, document>>

-----------------------------------------------------------------------------
(* The document                                                            *)

\* extract: a site adapter returns links of its own making.
Adapt ==
  /\ pc = "extract" /\ pc' = "outbound"
  /\ \E hrefs \in Adapted :
       doc' = [via |-> "adapter", hrefs |-> hrefs, base |-> "none"]
  /\ UNCHANGED <<request, proxy, reports, response, verdict, outbound>>

\* There is none, or it passes: the parser finds the hrefs of the document.
\* One whose content type is binary, or that is no UTF-8, has none.
ParseDocument ==
  /\ pc = "extract" /\ pc' = "outbound"
  /\ \E hrefs \in Documents, base \in Bases :
       doc' = [via |-> "parser", hrefs |-> hrefs, base |-> base]
  /\ UNCHANGED <<request, proxy, reports, response, verdict, outbound>>

\* The adapter or the parser fails: fail_parse (module Stores).
ParseFails ==
  /\ pc = "extract" /\ pc' = "done"
  /\ UNCHANGED <<request, proxy, reports, response, verdict, document>>

\* run: the document's links are parted by depth, and go their ways.
OutboundLinks ==
  IF doc.via = "adapter" THEN doc.hrefs
  ELSE ResolveLinks(doc.hrefs, EffectiveBase(final, doc.base))
Outbound ==
  /\ pc = "outbound" /\ pc' = "follow"
  /\ outbound' = ComputeOutbound(OutboundLinks, url.depth)
  /\ UNCHANGED <<request, proxy, reports, response, verdict, doc>>

Next ==
  \/ SeedRejected \/ Seed \/ Follow \/ Block \/ Disallow \/ Pass \/ ResolveProxy \/ ResolveFails
  \/ Send \/ CapExceeded \/ Headers \/ BodyEnds
  \/ \E kind \in WreqKinds : SendFails(kind) \/ BodyFails(kind)
  \/ \E n \in 1 .. MaxChunk : Chunk(n) \/ ChunkTooLarge(n)
  \/ RecordFailure \/ RecordFetch \/ Adapt \/ ParseDocument \/ ParseFails \/ Outbound

Spec == Init /\ [][Next]_vars

-----------------------------------------------------------------------------
(* Properties                                                              *)

\* When fetch has returned, the proxy has been told of the request exactly
\* once if one was sent through it, and not at all otherwise; and a response
\* that was read to its end, or refused for its advertised length, is blamed
\* on the proxy only when its status is 403 or 429.  (WreqFetcher::fetch has
\* five exits, each with a report of its own.)
OneReport ==
  pc = "verdict" =>
    /\ Len(reports) = IF proxy = "proxy" /\ (status # 0 \/ error.type = "typed") THEN 1 ELSE 0
    /\ (error = NoError \/ advertised = MaxBody + 1) /\ reports # <<>> =>
         (reports[1] = "Banned" <=> status \in {403, 429}) /\ reports[1] \in {"Success", "Banned"}

\* No more than the cap is ever held in memory, a body that fetch returns is
\* the whole of what the server announced, and only the document of a response
\* without error, with a status from 200 to 399, is read for links.  (read_body, classify_status.)
BodyWhole ==
  /\ body <= MaxBody
  /\ pc = "verdict" /\ error = NoError => advertised = NoCap \/ body = advertised
  /\ doc # NoDoc => error = NoError /\ status \in 200 .. 399 /\ recorded = NoFailure

\* What a document leads to is what it says: a crawlable link of a parsed
\* document, resolved against the base that is in force, is kept or skipped,
\* exactly once, and in the order of its first appearance; the links of an
\* adapter are taken as they are, but for those that are not http.
\* (resolve_links, compute_outbound.)
FirstsOf(hrefs, base) ==
  {i \in DOMAIN hrefs :
     /\ Joins(base, hrefs[i]) /\ hrefs[i].to = "page" /\ hrefs[i].file = "html"
     /\ \A j \in 1 .. i - 1 : Joins(base, hrefs[j]) => Join(base, hrefs[j]) # Join(base, hrefs[i])}
Listed(hrefs, base, S) ==
  [k \in 1 .. Cardinality(S) |->
     Join(base, hrefs[CHOOSE i \in S : Cardinality({j \in S : j <= i}) = k])]
OutboundExact ==
  pc = "follow" =>
    LET base  == IF doc.base \in Hosts \cup {"mail"} THEN doc.base ELSE final
        pages == {i \in DOMAIN doc.hrefs : doc.hrefs[i].to = "page"}
        said  == IF doc.via = "adapter" THEN pages ELSE FirstsOf(doc.hrefs, base)
        within(i) == LET cap == DepthCap(Join(base, doc.hrefs[i]).host) IN cap = NoCap \/ url.depth < cap
    IN  /\ outbound.kept = Listed(doc.hrefs, base, {i \in said : within(i)})
        /\ outbound.skipped = Listed(doc.hrefs, base, {i \in said : ~within(i)})

\* However long the chain of links, and whatever hosts it crosses, no URL is
\* requested deeper than its own host's cap.  (compute_outbound: the cap is
\* that of the link's host, for the depth of the link.)
DepthHeld ==
  DepthCap(url.host) # NoCap => url.depth = 0 \/ url.depth <= DepthCap(url.host)

-----------------------------------------------------------------------------
(* Canonical URLs                                                          *)

\* A canonical URL is a fixed point, as long as no escape is broken by
\* another: what was stored under it is found again when it is read back.  And
\* a URL embedded in a path keeps its scheme: as many "://" come out of the
\* collapse as went in, and the segments that are not empty stay, in their
\* order.  (canonicalize, collapse_path_slashes; the outbox and the ledger
\* store the text.)
CanonicalStable ==
  pc = "seed" =>
    LET canonical == Canonicalize(FromText(text))
        path      == FromText(text).path
        collapsed == CollapsePathSlashes(path)
    IN  /\ WellEscaped(text.path) => Canonicalize(FromText(canonical)) = canonical
        /\ Cardinality(Schemes(collapsed)) = Cardinality(Schemes(path))
        /\ Solid(collapsed) = Solid(path)

\* Two spellings of a URL that differ in a fragment, user information or the
\* dot after the host, in tracking parameters, in the order of the
\* parameters, in an escape of an unreserved character, in a character
\* percent-encoded or not, or, where there are no dot segments, in doubled
\* slashes, are one URL to the seen-set.  (The rules at the head of url.rs.)
VariantsAgree ==
  pc = "seed" /\ WellEscaped(text.path) =>
    LET same(other) == Canonicalize(FromText(other)) = Canonicalize(FromText(text))
    IN  /\ same([text EXCEPT !.extra = ~@])
        /\ same([text EXCEPT !.query = Reverse(@)])
        /\ \A n \in Tracking : same([text EXCEPT !.query = <<n>> \o @])
        /\ \A i \in DOMAIN text.path :
             /\ ~Empty(text.path[i]) => same([text EXCEPT !.path[i].escapes = 1 - @])
             /\ text.path[i].quote = "encoded" => same([text EXCEPT !.path[i].quote = "raw"])
        /\ Dotless(text.path) =>
             \A i \in Doublable(text.path) : same([text EXCEPT !.path = InsertAt(@, i, EmptySegment)])

\* A link that parse_relative returned parses again to itself, as the
\* publisher does with a row of the outbox: its length is measured after the
\* canonicalisation, not before.
LinksReparse ==
  pc = "seed" /\ WellEscaped(text.path) =>
    LET link == ParseRelative(text) IN link # Rejected => Parse(link) = link
=============================================================================
