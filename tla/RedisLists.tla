----------------------------- MODULE RedisLists -----------------------------
(* Redis LIST commands on sequences.  RPUSH is Append, LPOP is Head and     *)
(* Tail.                                                                   *)
EXTENDS Integers, Sequences, Functions

\* x is an element of the list.
Contains(s, x) == \E i \in 1 .. Len(s) : s[i] = x

\* LREM key 0 x: every occurrence goes, the others keep their order.
LRem(s, x) ==
  LET F[i \in 0 .. Len(s)] ==
        IF i = 0 THEN << >>
        ELSE IF s[i] = x THEN F[i - 1] ELSE Append(F[i - 1], s[i])
  IN  F[Len(s)]
=============================================================================
