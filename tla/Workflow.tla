------------------------------- MODULE Workflow -------------------------------
(***************************************************************************)
(* The workflow engine: orchestration/workflow/engine.go, with the         *)
(* checkpoint store of legacy_checkpoint.go.  A definition is a graph of   *)
(* steps with conditions.  A caller asks for its plan or for its run, and  *)
(* either is refused when hasCycle, a depth-first search, meets a step it  *)
(* is inside of.  Plan lists the steps, each after those it depends on.    *)
(* execute takes the ready steps round by round in the order of their ids, *)
(* skips those whose condition is not met, tries the others with retries,  *)
(* and saves a checkpoint after each; a run that is interrupted, paused or *)
(* over may be resumed from what was saved.                                *)
(*                                                                         *)
(* Steps are 1..StepCount in the order of their ids.  The step adapter is  *)
(* external: an attempt succeeds, fails (a step timeout included) or asks  *)
(* to pause.  The checkpoint file is written in place, so a crash in the   *)
(* middle leaves it undecodable.                                           *)
(***************************************************************************)
EXTENDS Naturals, Sequences, FiniteSets

CONSTANTS
    StepCount,          \* steps of a definition
    Conditionings,      \* the conditions of the steps, as functions
    StepRetries,        \* Retry.MaxAttempts
    MaxWorkflowResumes, \* bound on resumed runs
    MaxWorkflowFaults   \* bound on crashes, failed saves and canceled contexts

ASSUME WorkflowAssumption ==
    /\ StepCount \in Nat
    /\ Conditionings \subseteq [1..StepCount -> {"always", "on_success", "on_failure"}]
    /\ StepRetries \in Nat

VARIABLES
    dependsOn,       \* per step: DependsOn
    condition,       \* per step: Condition
    request,         \* what the caller asked for, "plan" or "run"
    visited, path, unfollowed,  \* hasCycle: the marks, the calls of dfs that are open, and
                                \* per step the dependencies its call has still to follow
    planReady, order,           \* Plan: the ready steps, and those listed so far
    engine,          \* what the engine is doing
    stepStatus, stepAttempts,   \* results of the run
    round,           \* the ready steps still to be taken, in the order of their ids
    canceled,        \* the context of the run is done
    checkpoint,      \* the saved statuses, if any
    continuation,    \* the statuses a paused run was left with
    sourced,         \* the run was resumed from a continuation, and saves no checkpoint
    workflowResumes, workflowFaults,
    reopened         \* ghost: steps that had failed and were made pending by a resume

definitionVars == <<dependsOn, condition, request>>
planVars == <<visited, path, unfollowed, planReady, order>>
runVars == <<stepStatus, stepAttempts, round, canceled, checkpoint, continuation, sourced,
             workflowResumes, workflowFaults, reopened>>
workflowVars == <<definitionVars, planVars, engine, runVars>>

Steps == 1..StepCount
TerminalSteps == {"succeeded", "failed", "skipped", "canceled"}

IsLeast(s, S) == s \in S /\ \A t \in S : s <= t

-----------------------------------------------------------------------------
(* ValidateDefinition and hasCycle *)

\* A plan or a run is requested: a step that depends on itself is a violation,
\* and the graph is not searched.
SubmitWorkflow(deps, conds, call) ==
    /\ engine = "idle"
    /\ dependsOn' = deps
    /\ condition' = conds
    /\ request' = call
    /\ engine' = IF \E s \in Steps : s \in deps[s] THEN "refused" ELSE "validating"
    /\ UNCHANGED <<planVars, runVars>>

\* dfs(s) is entered: s is marked 1, and all it depends on is to be followed.
Enter(s, from) ==
    /\ visited' = [visited EXCEPT ![s] = 1]
    /\ path' = Append(path, s)
    /\ unfollowed' = [from EXCEPT ![s] = dependsOn[s]]

\* The loop over the ids: the first one without a mark.
VisitNext(s) ==
    /\ engine = "validating"
    /\ path = <<>>
    /\ IsLeast(s, {t \in Steps : visited[t] = 0})
    /\ Enter(s, unfollowed)
    /\ UNCHANGED <<definitionVars, planReady, order, engine, runVars>>

\* The loop of dfs, in the order the definition lists them: a dependency that is
\* marked 1 is a cycle, and every open call returns true.
FollowDependency(d) ==
    LET s == path[Len(path)]
        rest == [unfollowed EXCEPT ![s] = @ \ {d}]
    IN
    /\ engine = "validating"
    /\ path # <<>>
    /\ d \in unfollowed[s]
    /\ \/ visited[d] = 0 /\ Enter(d, rest) /\ UNCHANGED engine
       \/ visited[d] = 1 /\ engine' = "refused" /\ UNCHANGED <<visited, path, unfollowed>>
       \/ visited[d] = 2 /\ unfollowed' = rest /\ UNCHANGED <<visited, path, engine>>
    /\ UNCHANGED <<definitionVars, planReady, order, runVars>>

\* All dependencies are followed: the step is marked 2, and dfs returns false.
LeaveStep ==
    LET s == path[Len(path)] IN
    /\ engine = "validating"
    /\ path # <<>>
    /\ unfollowed[s] = {}
    /\ visited' = [visited EXCEPT ![s] = 2]
    /\ path' = SubSeq(path, 1, Len(path) - 1)
    /\ UNCHANGED <<definitionVars, unfollowed, planReady, order, engine, runVars>>

\* The search met no cycle, and the request is served.
Validated ==
    /\ engine = "validating"
    /\ path = <<>>
    /\ \A s \in Steps : visited[s] = 2
    /\ engine' = IF request = "plan" THEN "planning" ELSE "running"
    /\ planReady' = IF request = "plan" THEN {s \in Steps : dependsOn[s] = {}} ELSE {}
    /\ UNCHANGED <<definitionVars, visited, path, unfollowed, order, runVars>>

-----------------------------------------------------------------------------
(* Plan *)

Listed(list) == {list[k] : k \in 1..Len(list)}

\* Mutant of Released: a step is ready when one of its dependencies is listed.
ReleasedEarly(s, listed) == {t \in Steps : s \in dependsOn[t]}

\* The steps whose inDegree drops to 0 when s is listed.
Released(s, listed) == {t \in Steps : s \in dependsOn[t] /\ dependsOn[t] \subseteq listed}

\* The least ready step is listed, and those it releases become ready.
ListStep(s) ==
    /\ engine = "planning"
    /\ IsLeast(s, planReady)
    /\ order' = Append(order, s)
    /\ planReady' = (planReady \ {s}) \cup Released(s, Listed(order) \cup {s})
    /\ UNCHANGED <<definitionVars, visited, path, unfollowed, engine, runVars>>

\* A list that is too short is an error as well.
FinishPlan ==
    /\ engine = "planning"
    /\ planReady = {}
    /\ engine' = IF Len(order) = StepCount THEN "planned" ELSE "refused"
    /\ UNCHANGED <<definitionVars, planVars, runVars>>

-----------------------------------------------------------------------------
(* execute *)

\* Mutant of Ready: a dependency that runs is enough.
ReadyEarly(status) == {s \in Steps : status[s] = "pending"}

\* Mutant of Ready: steps that are over are taken again.
ReadyAgain(status) ==
    {s \in Steps : \A d \in dependsOn[s] : status[d] \in TerminalSteps}

\* readySteps
Ready(status) ==
    {s \in Steps : status[s] = "pending" /\ \A d \in dependsOn[s] : status[d] \in TerminalSteps}

\* conditionMatched
Matched(s, status) ==
    CASE condition[s] = "on_success" -> \A d \in dependsOn[s] : status[d] = "succeeded"
      [] condition[s] = "on_failure" -> \E d \in dependsOn[s] : status[d] \in {"failed", "canceled"}
      [] OTHER -> TRUE

AllPending == [s \in Steps |-> "pending"]
NoCheckpoint == [s \in Steps |-> "none"]
TornCheckpoint == [s \in Steps |-> "torn"]

\* saveCheckpoint: a failed save ends the run with an error, a crash in the
\* middle of it leaves a torn file.
SavesOr(status, then) ==
    \/ /\ checkpoint' = IF sourced THEN checkpoint ELSE status
       /\ engine' = then
       /\ UNCHANGED workflowFaults
    \/ /\ ~sourced
       /\ workflowFaults < MaxWorkflowFaults
       /\ workflowFaults' = workflowFaults + 1
       /\ engine' = "stopped"
       /\ checkpoint' \in {checkpoint, TornCheckpoint}

StartRound ==
    /\ engine = "running"
    /\ round = {}
    /\ Ready(stepStatus) # {}
    /\ round' = Ready(stepStatus)
    /\ UNCHANGED <<definitionVars, planVars, engine, stepStatus, stepAttempts, canceled, checkpoint,
                   continuation, sourced, workflowResumes, workflowFaults, reopened>>

\* No step is ready: the result is built and saved.
FinishRun ==
    /\ engine = "running"
    /\ round = {}
    /\ Ready(stepStatus) = {}
    /\ SavesOr(stepStatus, "ended")
    /\ UNCHANGED <<definitionVars, planVars, stepStatus, stepAttempts, round, canceled, continuation,
                   sourced, workflowResumes, reopened>>

\* The turn of s in the round.
Turn(s) == engine = "running" /\ IsLeast(s, round)

\* The step is over: its result is saved and the next one of the round taken.
StepEnds(s, status) ==
    /\ stepStatus' = [stepStatus EXCEPT ![s] = status]
    /\ round' = round \ {s}
    /\ SavesOr(stepStatus', "running")
    /\ UNCHANGED <<definitionVars, planVars, stepAttempts, canceled, continuation, sourced,
                   workflowResumes, reopened>>

SkipStep(s) ==
    /\ Turn(s)
    /\ stepStatus[s] = "pending"
    /\ ~Matched(s, stepStatus)
    /\ StepEnds(s, "skipped")

DispatchStep(s) ==
    /\ Turn(s)
    /\ stepStatus[s] = "pending"
    /\ Matched(s, stepStatus)
    /\ stepStatus' = [stepStatus EXCEPT ![s] = "running"]
    /\ stepAttempts' = [stepAttempts EXCEPT ![s] = @ + 1]
    /\ UNCHANGED <<definitionVars, planVars, engine, round, canceled, checkpoint, continuation,
                   sourced, workflowResumes, workflowFaults, reopened>>

Attempting(s) == Turn(s) /\ stepStatus[s] = "running"

StepSucceeds(s) == Attempting(s) /\ StepEnds(s, "succeeded")

\* The last attempt fails, or the context of the run is done.
StepFails(s) ==
    /\ Attempting(s)
    /\ \/ canceled /\ StepEnds(s, "canceled")
       \/ ~canceled /\ stepAttempts[s] > StepRetries /\ StepEnds(s, "failed")

\* Another attempt is left; it is made even if the context is done during the
\* backoff.
RetryStep(s) ==
    /\ Attempting(s)
    /\ ~canceled
    /\ stepAttempts[s] <= StepRetries
    /\ stepAttempts' = [stepAttempts EXCEPT ![s] = @ + 1]
    /\ UNCHANGED <<definitionVars, planVars, engine, stepStatus, round, canceled, checkpoint,
                   continuation, sourced, workflowResumes, workflowFaults, reopened>>

\* The pause controller or the adapter asks to pause: persistContinuation keeps
\* the statuses with the step pending again.
PauseRun(s) ==
    /\ Attempting(s)
    /\ stepStatus' = [stepStatus EXCEPT ![s] = "pending"]
    /\ stepAttempts' = [stepAttempts EXCEPT ![s] = @ - 1]
    /\ continuation' = stepStatus'
    /\ engine' = "paused"
    /\ round' = {}
    /\ UNCHANGED <<definitionVars, planVars, canceled, checkpoint, sourced, workflowResumes,
                   workflowFaults, reopened>>

CancelRun ==
    /\ engine = "running"
    /\ ~canceled
    /\ workflowFaults < MaxWorkflowFaults
    /\ workflowFaults' = workflowFaults + 1
    /\ canceled' = TRUE
    /\ UNCHANGED <<definitionVars, planVars, engine, stepStatus, stepAttempts, round, checkpoint,
                   continuation, sourced, workflowResumes, reopened>>

\* The process dies, or a pause controller or an event handler returns an error,
\* which ends the run where it is.
CrashRun ==
    /\ engine = "running"
    /\ workflowFaults < MaxWorkflowFaults
    /\ workflowFaults' = workflowFaults + 1
    /\ engine' = "stopped"
    /\ UNCHANGED <<definitionVars, planVars, stepStatus, stepAttempts, round, canceled, checkpoint,
                   continuation, sourced, workflowResumes, reopened>>

\* Mutant of Restored: every step starts over.
RestoredNone(saved) == AllPending

\* What a resumed run starts from: succeeded and skipped steps are kept.
Restored(saved) ==
    [s \in Steps |-> IF saved[s] \in {"succeeded", "skipped"} THEN saved[s] ELSE "pending"]

Resumes(saved, source) ==
    /\ workflowResumes < MaxWorkflowResumes
    /\ workflowResumes' = workflowResumes + 1
    /\ engine' = "running"
    /\ stepStatus' = Restored(saved)
    /\ stepAttempts' = [s \in Steps |-> 0]
    /\ round' = {}
    /\ canceled' = FALSE
    /\ sourced' = source
    /\ reopened' = reopened \cup {s \in Steps : saved[s] \in {"failed", "canceled"}}
    /\ UNCHANGED <<definitionVars, planVars, checkpoint, continuation, workflowFaults>>

\* Run with Resume: a checkpoint that cannot be decoded refuses it.
ResumeRun ==
    /\ engine \in {"stopped", "ended"}
    /\ ~sourced
    /\ checkpoint # TornCheckpoint
    /\ Resumes(checkpoint, FALSE)

\* ResumeContinuation: a continuation is resumed once (Continuation).
ResumePaused ==
    /\ engine = "paused"
    /\ Resumes(continuation, TRUE)

-----------------------------------------------------------------------------
WorkflowInit ==
    /\ dependsOn = [s \in Steps |-> {}]
    /\ condition = [s \in Steps |-> "always"]
    /\ request = "plan"
    /\ visited = [s \in Steps |-> 0]
    /\ path = <<>>
    /\ unfollowed = [s \in Steps |-> {}]
    /\ planReady = {}
    /\ order = <<>>
    /\ engine = "idle"
    /\ stepStatus = AllPending
    /\ stepAttempts = [s \in Steps |-> 0]
    /\ round = {}
    /\ canceled = FALSE
    /\ checkpoint = NoCheckpoint
    /\ continuation = AllPending
    /\ sourced = FALSE
    /\ workflowResumes = 0
    /\ workflowFaults = 0
    /\ reopened = {}

EngineStep ==
    \/ \E s \in Steps : VisitNext(s) \/ FollowDependency(s) \/ ListStep(s)
    \/ LeaveStep \/ Validated \/ FinishPlan \/ StartRound \/ FinishRun
    \/ \E s \in Steps : SkipStep(s) \/ DispatchStep(s) \/ StepSucceeds(s) \/ StepFails(s) \/ RetryStep(s)

WorkflowNext ==
    \/ /\ engine = "idle"
       /\ \E deps \in [Steps -> SUBSET Steps], conds \in Conditionings, call \in {"plan", "run"} :
            SubmitWorkflow(deps, conds, call)
    \/ EngineStep
    \/ \E s \in Steps : PauseRun(s)
    \/ CancelRun \/ CrashRun \/ ResumeRun \/ ResumePaused

WorkflowSpec == WorkflowInit /\ [][WorkflowNext]_workflowVars

\* The engine runs on and step timeouts make every attempt return.
WorkflowFairness == WF_workflowVars(EngineStep)

-----------------------------------------------------------------------------
(* Properties *)

\* The steps of a set can be put in an order in which each comes after those it
\* depends on: no part of the set has a dependency within it at every step.
Grounded(S) == \A T \in SUBSET S : T # {} => \E s \in T : dependsOn[s] \cap T = {}

(***************************************************************************)
(* A definition is refused exactly when its dependencies go in a circle,   *)
(* and otherwise Plan lists every step once, after all it depends on:      *)
(* hasCycle and Plan agree on every graph.                                 *)
(***************************************************************************)
PlansAreOrders ==
    engine \notin {"idle", "validating"} =>
        /\ (engine = "refused") = ~Grounded(Steps)
        /\ engine = "planned" =>
            /\ Len(order) = StepCount
            /\ \A s \in Steps : \E k \in 1..StepCount :
                    order[k] = s /\ dependsOn[s] \subseteq {order[j] : j \in 1..(k - 1)}

(***************************************************************************)
(* When a run is over, every step is, and a step was skipped exactly when  *)
(* its condition does not hold of what became of its dependencies; the     *)
(* exception is a step with a dependency that had failed and was tried     *)
(* again by a resume, since resuming keeps skipped and succeeded steps     *)
(* without looking at their conditions again.                              *)
(***************************************************************************)
ResultsFollowConditions ==
    engine = "ended" =>
        \A s \in Steps :
            /\ stepStatus[s] \in TerminalSteps
            /\ dependsOn[s] \cap reopened = {} =>
                (stepStatus[s] = "skipped") = ~Matched(s, stepStatus)

(***************************************************************************)
(* A step whose success is saved, in the checkpoint or in a continuation   *)
(* the run was resumed from, is not dispatched again.                      *)
(***************************************************************************)
SavedWorkIsKept ==
    [][\A s \in Steps :
        stepStatus[s] = "pending" /\ stepStatus'[s] = "running" =>
            (IF sourced THEN continuation ELSE checkpoint)[s] # "succeeded"]_workflowVars

(***************************************************************************)
(* A request that is being served comes to an end, is paused or stops with *)
(* an error: the search and the plan, rounds, retries and the steps after  *)
(* a cancellation are finite.                                              *)
(***************************************************************************)
Serving == engine \in {"validating", "planning", "running"}
RunsEnd == Serving ~> ~Serving
=============================================================================
