------------------------------- MODULE Lists -------------------------------
(***************************************************************************)
(* Sequences, for the modules that have proofs: prefixes of paths and      *)
(* names, reversal, and a listing of a set.  The definitions are those of  *)
(* SequencesExt, which these modules do not extend: it extends Bags, and   *)
(* with Bags in its context TLAPS takes several times as long on every     *)
(* obligation.                                                             *)
(***************************************************************************)
EXTENDS Naturals, Sequences, FiniteSets, Functions

\* s is the beginning of t.
Begins(s, t) == Len(s) <= Len(t) /\ SubSeq(s, 1, Len(s)) = SubSeq(t, 1, Len(s))

\* s is the beginning of t, and shorter.
Precedes(s, t) == Begins(s, t) /\ s # t

\* The beginnings of s.
Beginnings(s) == {SubSeq(s, 1, n) : n \in 0..Len(s)}

Backwards(s) == [i \in 1..Len(s) |-> s[Len(s) - i + 1]]

ButLast(s) == SubSeq(s, 1, Len(s) - 1)

\* The elements of a finite set, in some order.
Listing(S) == CHOOSE f \in [1..Cardinality(S) -> S] : IsInjective(f)
=============================================================================
