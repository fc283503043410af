--------------------------- MODULE MCSchedulerLive ---------------------------
(* Scheduler with fairness, first-in first-out claims and the reconcile cycle. *)
EXTENDS Scheduler

AllNormal == [t \in Tasks |-> "normal"]
=============================================================================
