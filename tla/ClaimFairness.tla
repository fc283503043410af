--------------------------- MODULE ClaimFairness ---------------------------
(***************************************************************************)
(* The scheduler with a count of the claims that pass a task by, for the   *)
(* fairness window of nextClaimableIndex.                                  *)
(***************************************************************************)
EXTENDS Scheduler

VARIABLE passed   \* per task and priority: claims of that priority in a row, as
                  \* long as the task has been claimable

fairVars == <<vars, passed>>

NonePassed == [p \in Priorities |-> 0]

\* The priorities of the tasks that the step claims.
Served == {PriorityOf[t] : t \in {u \in Tasks : Len(tasks'[u].attempts) > Len(tasks[u].attempts)}}

CountPassed ==
    passed' = [t \in Tasks |->
                 IF ~IsClaimable(tasks[t]) \/ ~IsClaimable(tasks'[t]) THEN NonePassed
                 ELSE IF Served = {} THEN passed[t]
                 ELSE [p \in Priorities |-> IF p \in Served THEN passed[t][p] + 1 ELSE 0]]

FairInit == Init /\ passed = [t \in Tasks |-> NonePassed]

FairNext == Next /\ CountPassed

FairSpec == FairInit /\ [][FairNext]_fairVars

-----------------------------------------------------------------------------
(* Property *)

\* The fairness window of the claim order (nextClaimableIndex in priority mode):
\* while a task of another priority waits, no priority is served more than
\* FairnessMax times in a row, however expiries, requeues and manual retries
\* bring its tasks back.
FairnessWindow ==
    QoSPriority =>
        \A t \in Tasks : \A p \in Priorities \ {PriorityOf[t]} : passed[t][p] <= FairnessMax
=============================================================================
