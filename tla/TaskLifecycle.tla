---------------------------- MODULE TaskLifecycle ----------------------------
(***************************************************************************)
(* What the scheduler promises about each task, without queue, leases,     *)
(* timers or policies.  An open task is granted to one worker at a time.   *)
(* A grant is settled once, with a verdict that is never rewritten.  A     *)
(* success ends the task for good; a dead task lives again only when it is *)
(* reopened.  One step may move several tasks: a claim of the scheduler    *)
(* expires other leases in the same critical section.                      *)
(***************************************************************************)
EXTENDS Integers, Sequences

CONSTANT Tasks

VARIABLE life   \* per task: its phase and the verdicts of its grants

Phases == {"absent", "open", "granted", "done", "dead"}
Verdicts == {"running", "succeeded", "failed", "expired"}

TypeInvariant ==
    life \in [Tasks -> [phase : Phases, grants : Seq(Verdicts)]]

Close(grants, v) == [grants EXCEPT ![Len(grants)] = v]

Admit(l, m) ==
    l.phase = "absent" /\ m = [phase |-> "open", grants |-> <<>>]

Grant(l, m) ==
    /\ l.phase = "open"
    /\ m = [phase |-> "granted", grants |-> Append(l.grants, "running")]

\* A success closes the task; only an expired grant leaves it open.
Settle(l, m) ==
    /\ l.phase = "granted"
    /\ \/ m = [phase |-> "done", grants |-> Close(l.grants, "succeeded")]
       \/ m = [phase |-> "open", grants |-> Close(l.grants, "expired")]
       \/ \E v \in {"failed", "expired"} :
             m = [phase |-> "dead", grants |-> Close(l.grants, v)]

\* A grant expires and the task is granted anew in one step.
Regrant(l, m) ==
    /\ l.phase = "granted"
    /\ m = [phase |-> "granted",
            grants |-> Append(Close(l.grants, "expired"), "running")]

Withdraw(l, m) == l.phase = "open" /\ m = [l EXCEPT !.phase = "dead"]

Reopen(l, m) == l.phase = "dead" /\ m = [l EXCEPT !.phase = "open"]

Move(l, m) ==
    \/ Admit(l, m)
    \/ Grant(l, m)
    \/ Settle(l, m)
    \/ Regrant(l, m)
    \/ Withdraw(l, m)
    \/ Reopen(l, m)

Init == life = [t \in Tasks |-> [phase |-> "absent", grants |-> <<>>]]

Next ==
    /\ DOMAIN life' = Tasks
    /\ \A t \in Tasks : life'[t] = life[t] \/ Move(life[t], life'[t])

Spec == Init /\ [][Next]_life
=============================================================================
