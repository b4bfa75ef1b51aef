------------------------------ MODULE LinkSeqs ------------------------------
(* Operators on sequences, as in SequencesExt.  That module extends Bags,  *)
(* whose definitions would be part of every obligation of the proofs.      *)
EXTENDS Integers, Sequences

Contains(s, x) == \E i \in 1 .. Len(s) : s[i] = x

Reverse(s) == [i \in 1 .. Len(s) |-> s[(Len(s) - i) + 1]]

\* s with x at position i, and what was there behind it.
InsertAt(s, i, x) == SubSeq(s, 1, i - 1) \o <<x>> \o SubSeq(s, i, Len(s))

\* What s has at the positions in K, in order.
Keep(s, K) ==
  LET out[i \in 0 .. Len(s)] ==
        IF i = 0 THEN <<>> ELSE IF i \in K THEN Append(out[i - 1], s[i]) ELSE out[i - 1]
  IN  out[Len(s)]

\* The sequences over S of at most n elements.
BoundedSeq(S, n) == UNION {[1 .. m -> S] : m \in 0 .. n}
=============================================================================
