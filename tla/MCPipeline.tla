----------------------------- MODULE MCPipeline -----------------------------
(* Constants for model-checking Pipeline.                                  *)
EXTENDS Pipeline, TLC

CONSTANTS s, c

\* The seed links to a page that links back to it; found there, the seed is
\* beyond the depth cap.
MCLinks == (s :> {c}) @@ (c :> {})
MCTooDeep == (s :> {}) @@ (c :> {s})

\* The seed links to itself and to the page: two outbox rows.
MCTwoLinks == (s :> {s, c}) @@ (c :> {})

\* Workers are interchangeable.
MCSymmetry == Permutations(Workers)
=============================================================================
