----------------------------- MODULE MCRequests -----------------------------
\* Small seeds, and a host with a depth and a delay of its own.
EXTENDS Requests, TLC

Segment(name, escapes, quote) == [name |-> name, escapes |-> escapes, quote |-> quote]
MCPlain == {EmptySegment, Segment("x", 0, "none"), Segment("x:", 0, "none"), Segment("..", 0, "none")}
MCSpelt ==
  {Segment("x", 1, "none"), Segment("x", 2, "none"), Segment("x", 0, "raw"), Segment("x:", 1, "encoded"),
   Segment(".", 0, "none"), Segment(".", 1, "none"), Segment(".", 2, "none"), Segment("..", 1, "none"),
   Segment("..", 3, "none")}
MCPaths == (BoundedSeq(MCPlain, 5) \cup BoundedSeq(MCPlain \cup MCSpelt, 3)) \ {<<>>}
MCTexts ==
  [path : MCPaths, query : {<<>>}, extra : {FALSE}]
    \cup [path : {<<EmptySegment>>, <<Segment("x", 1, "none")>>}, query : BoundedSeq(0 .. 2, 3), extra : BOOLEAN]
MCDepthOf == "b" :> 2
MCDelayOf == "b" :> 2
=============================================================================
