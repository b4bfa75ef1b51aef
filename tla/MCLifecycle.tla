---------------------------- MODULE MCLifecycle -----------------------------
(* Model-checking Lifecycle.                                               *)
EXTENDS Lifecycle
=============================================================================
