---------------------------- MODULE MCRobotsCache ---------------------------
(* Constants for model-checking RobotsCache.                               *)
EXTENDS RobotsCache, TLC

CONSTANTS p, q, v, w

\* One worker in each of two pods.
MCPodOf == (v :> p) @@ (w :> q)
=============================================================================
