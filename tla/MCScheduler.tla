----------------------------- MODULE MCScheduler -----------------------------
(* Scheduler with two tasks, one urgent and one not, and the claims counted. *)
EXTENDS ClaimFairness

HighLow == [t \in Tasks |-> IF t = 1 THEN "high" ELSE "low"]
=============================================================================
