-------------------------------- MODULE Lists --------------------------------
(* The list operations the stores share: sort.Strings of a set of ids, the   *)
(* removal of one queue entry, and the loop that keeps some of them.         *)
EXTENDS Naturals, Sequences, FiniteSets

\* The sequences that list the set R of ids as sort.Strings orders it; ids are
\* numbered in that order.
Ascending(R) ==
    {s \in [1..Cardinality(R) -> R] :
        /\ s \in Seq(R)
        /\ \A t \in R : \E i \in DOMAIN s : s[i] = t
        /\ \A i, j \in DOMAIN s : i < j => s[i] < s[j]}

\* Mutant of Without: the entry after the claimed one is taken out.
WithoutNext(q, i) == [j \in 1..(Len(q) - 1) |-> IF j <= i THEN q[j] ELSE q[j + 1]]

\* q without its entry i.
Without(q, i) == [j \in 1..(Len(q) - 1) |-> IF j < i THEN q[j] ELSE q[j + 1]]

\* The sequences of the entries of q that are in S, in the order of q.
Filtered(q, S) ==
    {[j \in 1..Len(at) |-> q[at[j]]] : at \in Ascending({i \in 1..Len(q) : q[i] \in S})}
=============================================================================
