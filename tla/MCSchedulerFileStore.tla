------------------------- MODULE MCSchedulerFileStore -------------------------
(* Two tasks on the file backend. *)
EXTENDS SchedulerFileStore

AllNormal == [t \in Tasks |-> "normal"]
=============================================================================
