------------------------------- MODULE Slices -------------------------------
(***************************************************************************)
(* Ranges of lines as the patch appliers cut and paste them: lines count   *)
(* from 1, the end of a range is exclusive, and as in a Python slice a     *)
(* range may reach past the last line.                                     *)
(***************************************************************************)
EXTENDS Integers, Sequences, FiniteSets

Smaller(a, b) == IF a <= b THEN a ELSE b
Take(ls, n)   == SubSeq(ls, 1, Smaller(n, Len(ls)))
Drop(ls, n)   == SubSeq(ls, n + 1, Len(ls))

\* ls[from:to], and ls with that range replaced.
Slice(ls, from, to)       == Drop(Take(ls, to - 1), from - 1)
Splice(ls, from, to, new) == Take(ls, from - 1) \o new \o Drop(ls, to - 1)

\* The first of a set of line numbers, 0 for none.
First(found) ==
  IF found = {} THEN 0 ELSE CHOOSE i \in found : \A j \in found : i <= j

\* How often a line is there.
Times(ls, l)  == Cardinality({i \in DOMAIN ls : ls[i] = l})
LinesOf(ls)   == {ls[i] : i \in DOMAIN ls}
=============================================================================
