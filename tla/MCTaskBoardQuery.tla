--------------------------- MODULE MCTaskBoardQuery ---------------------------
(* Two concurrent queries of the task board. *)
EXTENDS TaskBoardQuery, TLC

AllNormal == [t \in Tasks |-> "normal"]

QuerySymmetry == Permutations(Queries)
=============================================================================
