------------------------------- MODULE Pieces -------------------------------
(***************************************************************************)
(* A sequence cut at its separators, by counting those before a place: what *)
(* the lines of a stream and the labels of a host name are.                *)
(***************************************************************************)
EXTENDS Integers, Sequences, FiniteSets

\* How many of the first n places of s hold the separator d.
Seps(s, d, n) == Cardinality({i \in 1..n : s[i] = d})

\* The place of the k-th separator, 0 for k = 0; the end of s counts as one
\* more separator, behind the last place.
Cut(s, d, k) ==
    IF k = 0 THEN 0
    ELSE CHOOSE i \in 1..(Len(s) + 1) :
             /\ i <= Len(s) => s[i] = d
             /\ Seps(s, d, i - 1) = k - 1

\* The k-th piece of s, without the separators at its ends.
Piece(s, d, k) == SubSeq(s, Cut(s, d, k - 1) + 1, Cut(s, d, k) - 1)

\* All pieces: one more than there are separators.
Split(s, d) == [k \in 1..(Seps(s, d, Len(s)) + 1) |-> Piece(s, d, k)]
=============================================================================
