-------------------------------- MODULE Links -------------------------------
(***************************************************************************)
(* The pure functions that decide which URLs a page leads to: the links of *)
(* a document (crates/crawlrs-parse: parser.rs, extensions.rs), and the    *)
(* crawl scope that parts them (crawl_scope.rs, worker.rs).                *)
(***************************************************************************)
EXTENDS Urls

CONSTANTS
  GlobalDepth,  \* crawl.max_depth, NoCap when it is unset
  DepthOf       \* hosts with a max_depth of their own, and its value

NoCap == -1

ASSUME DepthAssumption ==
  GlobalDepth \in Nat \cup {NoCap} /\ \A h \in DOMAIN DepthOf : DepthOf[h] \in Nat

-----------------------------------------------------------------------------
(* The links of a document                                                 *)

\* An href is blank or an anchor, does not parse, has another scheme, or
\* names a page: on a host of its own, or relative to the base.
Hosts == {"a", "b", "c"}
Page(hosts) == [to : {"page"}, host : hosts, file : {"html", "mp4"}]
Absolute == Page(Hosts) \cup {[to |-> "mail"]}
Hrefs == Absolute \cup Page({"base"}) \cup {[to |-> "blank"], [to |-> "invalid"]}

\* What <base href> may hold, and the base the links resolve against: the
\* final URL unless it parses.  A mailto: URL parses.
Bases == {"none", "invalid", "mail"} \cup Hosts
EffectiveBase(final, href) == IF href \in {"none", "invalid"} THEN final ELSE href

\* CanonicalUrl::parse_relative on an href: nothing joins a mailto: base.
Joins(base, href) ==
  href.to \notin {"blank", "invalid"} /\ ~(base = "mail" /\ href.to = "page" /\ href.host = "base")
Join(base, href) == IF href.to = "page" /\ href.host = "base" THEN [href EXCEPT !.host = base] ELSE href
IsHttp(link) == link.to = "page"
Denies(link) == link.file = "mp4"

\* resolve_links: the crawlable links in the order of their first appearance.
ResolveTwice(hrefs, base) ==
  LET link(i) == Join(base, hrefs[i])
      crawled == {i \in DOMAIN hrefs : Joins(base, hrefs[i]) /\ IsHttp(link(i)) /\ ~Denies(link(i))}
  IN  Keep([i \in DOMAIN hrefs |-> link(i)], crawled)
ResolveLinks(hrefs, base) ==
  LET out[i \in 0 .. Len(hrefs)] ==
        IF i = 0 THEN <<>>
        ELSE LET link == Join(base, hrefs[i])
             IN  IF Joins(base, hrefs[i]) /\ IsHttp(link) /\ ~Denies(link) /\ ~Contains(out[i - 1], link)
                 THEN Append(out[i - 1], link) ELSE out[i - 1]
  IN  out[Len(hrefs)]

\* CrawlScope::depth_cap.
DepthCap(host) == IF host \in DOMAIN DepthOf THEN DepthOf[host] ELSE GlobalDepth

\* compute_outbound, for a page at a depth.
ParentTooDeep(link, depth) == DepthCap(link.host) # NoCap /\ depth > DepthCap(link.host)
TooDeep(link, depth) == DepthCap(link.host) # NoCap /\ depth + 1 > DepthCap(link.host)
Parted(links, depth, deep) ==
  LET out[i \in 0 .. Len(links)] ==
        IF i = 0 THEN <<>>
        ELSE IF IsHttp(links[i]) /\ (TooDeep(links[i], depth) <=> deep)
          THEN Append(out[i - 1], links[i]) ELSE out[i - 1]
  IN  out[Len(links)]
ComputeOutbound(links, depth) ==
  [kept |-> Parted(links, depth, FALSE), skipped |-> Parted(links, depth, TRUE)]
=============================================================================
