--------------------------- MODULE SequenceParts ---------------------------
(***************************************************************************)
(* A part of a sequence, and the whole of several: what loops over fields, *)
(* items and operations leave behind.  Written out, because the definition *)
(* of SelectSeq and that of FlattenSeq say nothing to a prover.            *)
(***************************************************************************)
EXTENDS Integers, Sequences, FiniteSets

\* The elements of s at the positions in I, in order.
PartAt(s, I) ==
    LET nth(i) == CHOOSE n \in I : Cardinality(I \cap 1 .. n) = i
    IN  [i \in 1 .. Cardinality(I) |-> s[nth(i)]]

\* The sequences of ss one after the other.
Joined(ss) ==
    LET upto[n \in 0 .. Len(ss)] == IF n = 0 THEN <<>> ELSE upto[n - 1] \o ss[n]
    IN  upto[Len(ss)]

=============================================================================
