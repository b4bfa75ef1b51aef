----------------------------- MODULE MCFrontier -----------------------------
(* Constants for model-checking Frontier.                                  *)
EXTENDS FrontierRefinement, TLC

CONSTANTS a1, a2, A

\* Two URLs of one host, with a quota that a batch exceeds, or that it fills.
MCHostOfA == (a1 :> A) @@ (a2 :> A)
MCQuotaOneA == (A :> 1)
MCQuotaA == (A :> 2)

\* Workers are interchangeable.
MCSymmetry == Permutations(Workers)
=============================================================================
