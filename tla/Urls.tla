-------------------------------- MODULE Urls --------------------------------
(***************************************************************************)
(* The canonical form of a URL (crates/crawlrs-core/src/url.rs).           *)
(*                                                                         *)
(* The path of a URL is a sequence of segments, each with the slash before *)
(* it; its query is a sequence of decoded parameters, which are numbers.   *)
(* A segment has a name, what it says once its escapes of unreserved       *)
(* characters are decoded; how often that takes, which is more than once   *)
(* only if an escape is broken by another (%2%65); and possibly a          *)
(* character the url crate percent-encodes, raw or encoded.                *)
(***************************************************************************)
EXTENDS LinkSeqs, FiniteSets

CONSTANTS
  Names,        \* the names of segments
  Colons,       \* those that end in a colon
  Tracking,     \* query parameters that are tracking parameters
  MaxUrlLen     \* MAX_URL_LEN

ASSUME TrackingAssumption == Tracking \subseteq Nat

ASSUME NameAssumption == {"", ".", ".."} \subseteq Names /\ Colons \subseteq Names \ {"", ".", ".."}

Segments ==
  {s \in [name : Names, escapes : Nat, quote : {"none", "raw", "encoded"}] :
     /\ s.name = "" => s.escapes = 0
     /\ s.name \in {"", ".", ".."} => s.quote = "none"}
Paths == Seq(Segments) \ {<<>>}

EmptySegment == [name |-> "", escapes |-> 0, quote |-> "none"]
Empty(s) == s.name = ""
Colon(s) == s.name \in Colons

Rejected == [path |-> <<>>, query |-> <<>>, extra |-> FALSE]

-----------------------------------------------------------------------------
(* The url crate                                                           *)

\* A dot segment may be written with escapes (%2e), but not with broken ones.
Dot(s) == s.name = "." /\ s.escapes <= 1
DotDot(s) == s.name = ".." /\ s.escapes <= 1

\* Url::parse and Url::set_path: a dot segment goes, with the segment before
\* it if there are two dots, and at the end of the path leaves an empty one.
RemoveDots(path) ==
  LET stack[i \in 0 .. Len(path)] ==
        IF i = 0 THEN <<>>
        ELSE IF Dot(path[i]) THEN stack[i - 1]
        ELSE IF DotDot(path[i]) THEN SubSeq(stack[i - 1], 1, Len(stack[i - 1]) - 1)
        ELSE Append(stack[i - 1], path[i])
      last == path[Len(path)]
  IN  stack[Len(path)] \o (IF Dot(last) \/ DotDot(last) THEN <<EmptySegment>> ELSE <<>>)
Encoded(path) ==
  [i \in DOMAIN path |-> [path[i] EXCEPT !.quote = IF @ = "raw" THEN "encoded" ELSE @]]
SetPath(path) == Encoded(RemoveDots(path))

-----------------------------------------------------------------------------
(* Canonical URLs                                                          *)

\* collapse_path_slashes: the slashes of an embedded "://" are left alone, and
\* so is the first one behind it.
Scheme(path, k) == k \in 2 .. Len(path) - 1 /\ Colon(path[k - 1]) /\ Empty(path[k])
Drops(path, k) ==
  k \in 1 .. Len(path) - 1 /\ Empty(path[k]) /\ ~Scheme(path, k) /\ ~Scheme(path, k - 1)
ReplacePairs(path) ==
  LET first[k \in 0 .. Len(path)] == k > 0 /\ Drops(path, k) /\ ~first[k - 1]
  IN  Keep(path, {k \in DOMAIN path : ~first[k]})
CollapsePathSlashes(path) == Keep(path, {k \in DOMAIN path : ~Drops(path, k)})

\* decode_unreserved_percent_octets: one pass over the path.
DecodeUnreserved(path) ==
  [i \in DOMAIN path |-> [path[i] EXCEPT !.escapes = IF @ = 0 THEN 0 ELSE @ - 1]]

\* canonicalize: "extra" is a fragment, user information or a dot after the
\* host.  The path is set anew when a pass has changed it; setting it to what
\* it is changes nothing.
Tracked(name) == name \in Tracking
KeepOrder(query) == SelectSeq(query, LAMBDA n : ~Tracked(n))
CanonicalQuery(query) ==
  LET kept    == {j \in DOMAIN query : ~Tracked(query[j])}
      less(v) == {j \in kept : query[j] < v}
      upto(v) == {j \in kept : query[j] <= v}
  IN  [k \in 1 .. Cardinality(kept) |->
        CHOOSE v \in {query[j] : j \in kept} : Cardinality(less(v)) < k /\ k <= Cardinality(upto(v))]
Canonicalize(url) ==
  [path  |-> SetPath(DecodeUnreserved(SetPath(CollapsePathSlashes(url.path)))),
   query |-> CanonicalQuery(url.query),
   extra |-> FALSE]

\* The bytes of a URL: its slashes, a byte for a name or a parameter, and two
\* more for an escape.
Width(s) ==
  (IF Empty(s) THEN 1 ELSE 2) + 2 * s.escapes
    + (CASE s.quote = "none" -> 0 [] s.quote = "raw" -> 1 [] s.quote = "encoded" -> 3)
Length(url) ==
  LET width[i \in 0 .. Len(url.path)] == IF i = 0 THEN 0 ELSE width[i - 1] + Width(url.path[i])
  IN  width[Len(url.path)] + Len(url.query) + (IF url.extra THEN 1 ELSE 0)
FromText(text) == [text EXCEPT !.path = SetPath(@)]

\* CanonicalUrl::parse measures what it is given, parse_relative what it
\* returns.
Parse(text) == IF Length(text) > MaxUrlLen THEN Rejected ELSE Canonicalize(FromText(text))
MeasureFirst(text) == IF Length(text) > MaxUrlLen THEN Rejected ELSE Canonicalize(FromText(text))
ParseRelative(text) ==
  LET url == Canonicalize(FromText(text))
  IN  IF Length(url) > MaxUrlLen THEN Rejected ELSE url

-----------------------------------------------------------------------------
(* What is said of canonical URLs                                          *)

\* No escape is broken by another, and no segment is a dot segment.
WellEscaped(path) == \A i \in DOMAIN path : path[i].escapes <= 1
Dotless(path) == \A i \in DOMAIN path : path[i].name \notin {".", ".."}

\* The schemes embedded in a path, and the segments that are not empty.
Schemes(path) == {k \in DOMAIN path : Scheme(path, k)}
Solid(path) == Keep(path, {k \in DOMAIN path : ~Empty(path[k])})

\* The segments whose slash can be doubled: it is no part of an embedded
\* "://", and does not follow one.
Doublable(path) ==
  {k \in DOMAIN path : ~(k > 1 /\ Colon(path[k - 1])) /\ ~Scheme(path, k - 1)}
=============================================================================
