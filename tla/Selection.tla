------------------------------ MODULE Selection ------------------------------
(***************************************************************************)
(* Parts of a sequence in the order of the sequence, as its filters yield  *)
(* them: a part is a function on those positions that are in it.           *)
(***************************************************************************)
EXTENDS Integers, Sequences, FiniteSets

\* The positions in S up to i.
UpTo(S, i) == {j \in S : j <= i}

\* Sequence t lists the part f: what comes n-th in t is at the n-th position.
Lists(t, f) == /\ Len(t) = Cardinality(DOMAIN f)
               /\ \A i \in DOMAIN f : t[Cardinality(UpTo(DOMAIN f, i))] = f[i]
=============================================================================
