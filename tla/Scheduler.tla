------------------------------ MODULE Scheduler ------------------------------
(***************************************************************************)
(* The task scheduler's in-memory state machine: orchestration/scheduler,  *)
(* state.go, with the API calls of scheduler.go and the reconcile cycle of *)
(* async_reconcile.go.  Every store operation runs under one mutex, so it  *)
(* is one action.  Workers, remote agents, operators and the reconcile     *)
(* loop are callers: a call may be made for any attempt that was ever      *)
(* handed out, which covers delayed, repeated and stale calls.             *)
(*                                                                         *)
(* Time.  A deadline is kept as the time that is left to it.  Tick is one  *)
(* unit of time for every deadline.  lease and report stop at -1 because   *)
(* the code tells "deadline = now" (0) from "deadline < now" (-1); the     *)
(* eligibility timers stop at 0.  A timer that its state does not use is 0.*)
(***************************************************************************)
EXTENDS Integers, Sequences, FiniteSets, Lists

CONSTANTS
    Tasks,             \* task ids, numbered in the order sort.Strings gives
    PriorityOf,        \* Task.Priority
    BoundTasks,        \* tasks that carry a WorkspaceProvenance
    MaxNotBefore,      \* bound on the delay of Task.NotBefore at enqueue
    MaxAttempts,       \* Task.MaxAttempts
    QoSPriority,       \* GovernanceConfig.QoS = priority (else fifo)
    FairnessMax,       \* MaxConsecutiveClaimsPerPriority
    DLQEnabled,        \* GovernanceConfig.DLQ.Enabled
    BackoffEnabled, BackoffInitial, BackoffMultiplier, BackoffMax,
    JitterPercent,     \* Backoff.JitterRatio, in percent
    ReentryBudget,     \* TimeoutReentryMaxPerTask; 0: recovery boundary off
    LeaseTimeout,
    ReportTimeout,
    TimeoutTerminal,   \* AsyncAwaitConfig.TimeoutTerminal
    ReconcileBatch,    \* Reconcile.BatchSize; 0: Reconcile.Enabled = false
    OpIDs,             \* operation ids of control requests; {}: disabled
    MaxManualRetry,    \* MaxManualRetryPerTask
    OutcomeKeys,       \* what tells two outcomes of one status apart
    TimeoutKey         \* the outcome fields expireAwaitingReports writes

Priorities == {"high", "normal", "low"}
Terminal == {"succeeded", "failed", "dead_letter"}
TaskStates == {"absent", "queued", "running", "awaiting_report"} \cup Terminal
AttemptStatuses == {"running", "succeeded", "failed", "expired"}
AsyncSources == {"callback", "reconcile_poll"}
Sources == {"", "timeout", "manual_cancel"} \cup AsyncSources
ControlActions == {"cancel", "retry_terminal"}

ASSUME TasksAssumption == Tasks \subseteq Nat /\ IsFiniteSet(Tasks)
ASSUME PolicyAssumption ==
    /\ PriorityOf \in [Tasks -> Priorities]
    /\ BoundTasks \subseteq Tasks
    /\ QoSPriority \in BOOLEAN /\ DLQEnabled \in BOOLEAN
    /\ TimeoutTerminal \in {"failed", "dead_letter"}
ASSUME BoundAssumption ==
    /\ MaxNotBefore \in Nat /\ ReentryBudget \in Nat
    /\ ReconcileBatch \in Nat /\ MaxManualRetry \in Nat
    /\ MaxAttempts \in Nat \ {0} /\ FairnessMax \in Nat \ {0}
    /\ LeaseTimeout \in Nat \ {0} /\ ReportTimeout \in Nat \ {0}
ASSUME BackoffAssumption ==
    /\ BackoffEnabled \in BOOLEAN /\ JitterPercent \in 0..100
    /\ BackoffInitial \in Nat \ {0} /\ BackoffMultiplier \in Nat \ {0}
    /\ BackoffMax \in Nat /\ BackoffInitial <= BackoffMax
ASSUME OutcomeAssumption == TimeoutKey \notin OutcomeKeys

VARIABLES
    tasks,            \* schedulerState.Tasks
    queue,            \* schedulerState.Queue
    commits,          \* schedulerState.TerminalCommits, by <<task, attempt>>
    controlOps,       \* schedulerState.ControlOps, by operation id
    lastPriority,     \* priority of the last claim, "" before the first
    lastConsecutive,  \* claims of that priority in a row, up to FairnessMax
    polls             \* what the running reconcile cycle has still to poll

state == <<tasks, queue, commits, controlOps, lastPriority, lastConsecutive>>
vars == <<state, polls>>

-----------------------------------------------------------------------------
(* Records *)

\* A TaskRecord.  attempts holds the status of every attempt; the attempt id
\* "<task>-attempt-<n>" is the index n; current is CurrentAttempt, 0 for "".
TaskRecord ==
    [state : TaskStates, attempts : Seq(AttemptStatuses), current : Nat,
     lease : -1..LeaseTimeout, report : -1..ReportTimeout,
     eligible : 0..BackoffMax, notBefore : 0..MaxNotBefore,
     source : Sources, conflict : BOOLEAN, retries : 0..MaxManualRetry]

NewRecord(nb) ==
    [state |-> "queued", attempts |-> <<>>, current |-> 0,
     lease |-> 0, report |-> 0, eligible |-> 0, notBefore |-> nb,
     source |-> "", conflict |-> FALSE, retries |-> 0]

Absent == [NewRecord(0) EXCEPT !.state = "absent"]

\* A TerminalCommit: key stands for OutcomeKey and the error fields.
Commit ==
    [status : {"succeeded", "failed"}, key : OutcomeKeys \cup {TimeoutKey},
     source : Sources]

TimeoutCommit == [status |-> "failed", key |-> TimeoutKey, source |-> "timeout"]

Issued(t) == 1..Len(tasks[t].attempts)

-----------------------------------------------------------------------------
(* Retry *)

\* The exponential backoff of attempt n with its jitter: the hash that picks
\* the jitter is any value of its range.
RetryDelay(n) ==
    LET raw   == BackoffInitial * BackoffMultiplier ^ (n - 1)
        delay == IF raw > BackoffMax THEN BackoffMax ELSE raw
        range == (delay * JitterPercent) \div 100
    IN  IF BackoffEnabled
        THEN {d \in 0..BackoffMax : delay - range <= d /\ d <= delay + range}
        ELSE {0}

\* Where the end of attempt n without a result takes the task.
RetryState(n) ==
    LET reentryExhausted == ReentryBudget > 0 /\ n - 1 >= ReentryBudget
    IN  CASE reentryExhausted -> "failed"
          [] ~reentryExhausted /\ n < MaxAttempts -> "queued"
          [] ~reentryExhausted /\ n >= MaxAttempts ->
                IF DLQEnabled THEN "dead_letter" ELSE "failed"

\* Mutant of HandleRetryTransition: the attempt is not closed.
RetryLeavesAttempt(rec, delay) ==
    LET next == RetryState(Len(rec.attempts))
    IN  [rec EXCEPT !.current = 0, !.lease = 0, !.state = next,
                    !.eligible = IF next = "queued" THEN delay ELSE 0]

HandleRetryTransition(rec, delay) ==
    LET next == RetryState(Len(rec.attempts))
    IN  [rec EXCEPT !.attempts[rec.current] = "expired", !.current = 0,
                    !.lease = 0, !.state = next,
                    !.eligible = IF next = "queued" THEN delay ELSE 0]

LeaseExpired(rec) ==
    /\ rec.state = "running"
    /\ rec.attempts[rec.current] = "running"
    /\ rec.lease <= 0

ExpiredLeases == {t \in Tasks : LeaseExpired(tasks[t])}

\* One delay for every task whose lease has run out.
ExpiryDelays ==
    {delay \in [ExpiredLeases -> 0..BackoffMax] :
        \A t \in ExpiredLeases : delay[t] \in RetryDelay(tasks[t].current)}

\* What expireLeases makes of the tasks, and what it appends to the queue.
ExpireLeases(delay) ==
    [t \in Tasks |-> IF t \in ExpiredLeases
                     THEN HandleRetryTransition(tasks[t], delay[t])
                     ELSE tasks[t]]

\* Mutant of ExpiryRequeues: expired tasks do not go back to the queue.
ExpiryRequeuesNothing == {<<>>}

ExpiryRequeues ==
    Ascending({t \in ExpiredLeases : RetryState(Len(tasks[t].attempts)) = "queued"})

-----------------------------------------------------------------------------
(* Claim *)

IsClaimable(rec) ==
    rec.state = "queued" /\ rec.notBefore = 0 /\ rec.eligible = 0

Eligible(tk, q) == {i \in 1..Len(q) : IsClaimable(tk[q[i]])}

PriorityOrder == [high |-> 1, normal |-> 2, low |-> 3]

\* The priorities with an eligible queue entry.
Waiting(tk, q) == {PriorityOf[q[i]] : i \in Eligible(tk, q)}

MostUrgent(P) == CHOOSE p \in P : \A o \in P : PriorityOrder[p] <= PriorityOrder[o]

\* Mutant of SelectedPriority: the turn is given up one claim too late.
SelectedPriorityLate(tk, q) ==
    LET w     == Waiting(tk, q)
        first == MostUrgent(w)
    IN  IF w # {first} /\ lastPriority = first /\ lastConsecutive > FairnessMax
        THEN MostUrgent(w \ {first}) ELSE first

\* The priority the next claim serves: the most urgent one, or the one after
\* it once the last FairnessMax claims in a row were of the most urgent.
SelectedPriority(tk, q) ==
    LET w     == Waiting(tk, q)
        first == MostUrgent(w)
    IN  IF w # {first} /\ lastPriority = first /\ lastConsecutive >= FairnessMax
        THEN MostUrgent(w \ {first}) ELSE first

\* i is the queue entry that nextClaimableIndex picks.
NextClaimableIndex(tk, q, i) ==
    LET class == {j \in Eligible(tk, q) :
                     QoSPriority => PriorityOf[q[j]] = SelectedPriority(tk, q)}
    IN  i \in class /\ \A j \in class : i <= j

StartAttempt(rec) ==
    [rec EXCEPT !.attempts = Append(@, "running"),
                !.current = Len(rec.attempts) + 1,
                !.lease = LeaseTimeout, !.eligible = 0, !.state = "running"]

CountClaim(p) ==
    /\ lastPriority' = p
    /\ lastConsecutive' = IF p # lastPriority THEN 1
                          ELSE IF lastConsecutive < FairnessMax THEN lastConsecutive + 1
                          ELSE lastConsecutive

\* Scheduler.Enqueue, and SpawnChild once its guardrails have let the child
\* through.  A task id that is already known changes nothing.
Enqueue(t, nb) ==
    /\ tasks[t].state = "absent"
    /\ tasks' = [tasks EXCEPT ![t] = NewRecord(nb)]
    /\ queue' = Append(queue, t)
    /\ UNCHANGED <<commits, controlOps, lastPriority, lastConsecutive, polls>>

\* Scheduler.Claim when the queue has a claimable task.  The call first
\* expires the leases that have run out, and may claim one of those tasks.
ClaimTask ==
    \E delay \in ExpiryDelays, requeued \in ExpiryRequeues :
        LET tk == ExpireLeases(delay)
            q  == queue \o requeued
        IN  \E i \in 1..Len(q) :
               /\ NextClaimableIndex(tk, q, i)
               /\ queue' = Without(q, i)
               /\ tasks' = [tk EXCEPT ![q[i]] = StartAttempt(@)]
               /\ CountClaim(PriorityOf[q[i]])
               /\ UNCHANGED <<commits, controlOps, polls>>

\* Scheduler.Claim that returns ok = false: it has expired leases all the same.
ClaimNone ==
    \E delay \in ExpiryDelays, requeued \in ExpiryRequeues :
        LET tk == ExpireLeases(delay)
            q  == queue \o requeued
        IN  /\ Eligible(tk, q) = {}
            /\ tasks' = tk
            /\ queue' = q
            /\ UNCHANGED <<commits, controlOps, lastPriority, lastConsecutive, polls>>

\* The first store call of Scheduler.ExpireLeases.
ExpireLeasesCall ==
    /\ ExpiredLeases # {}
    /\ \E delay \in ExpiryDelays, requeued \in ExpiryRequeues :
          tasks' = ExpireLeases(delay) /\ queue' = queue \o requeued
    /\ UNCHANGED <<commits, controlOps, lastPriority, lastConsecutive, polls>>

\* Heartbeat with the token of attempt a: refused once the lease is overdue.
Heartbeat(t, a) ==
    /\ tasks[t].state = "running"
    /\ tasks[t].current = a
    /\ tasks[t].lease >= 0
    /\ tasks' = [tasks EXCEPT ![t].lease = LeaseTimeout]
    /\ UNCHANGED <<queue, commits, controlOps, lastPriority, lastConsecutive, polls>>

\* Mutant of Requeue: the task does not go back to the queue.
RequeueWithoutAppend(t) ==
    /\ tasks[t].state = "running"
    /\ \E delay \in RetryDelay(tasks[t].current) :
          tasks' = [tasks EXCEPT ![t] = HandleRetryTransition(@, delay)]
    /\ UNCHANGED <<queue, commits, controlOps, lastPriority, lastConsecutive, polls>>

\* Requeue names the task only: it ends whichever attempt is current.
Requeue(t) ==
    /\ tasks[t].state = "running"
    /\ \E delay \in RetryDelay(tasks[t].current) :
          tasks' = [tasks EXCEPT ![t] = HandleRetryTransition(@, delay)]
    /\ queue' = IF RetryState(Len(tasks[t].attempts)) = "queued"
                THEN Append(queue, t) ELSE queue
    /\ UNCHANGED <<commits, controlOps, lastPriority, lastConsecutive, polls>>

-----------------------------------------------------------------------------
(* Terminal commits *)

\* The commit a caller brings for attempt a of t has the task's workspace
\* binding: bound says whether it carries the WorkspaceProvenance.
BindingEqual(t, bound) == bound = (t \in BoundTasks)

\* Mutant of Decided: the source is taken to be the callback.
DecidedByCallback(rec, c) ==
    [rec EXCEPT !.attempts[rec.current] = c.status, !.current = 0,
                !.state = c.status, !.lease = 0, !.report = 0, !.eligible = 0,
                !.source = IF c.source = "" THEN @ ELSE "callback"]

\* What the commit c makes of a task: it closes the current attempt.
Decided(rec, c) ==
    [rec EXCEPT !.attempts[rec.current] = c.status, !.current = 0,
                !.state = c.status, !.lease = 0, !.report = 0, !.eligible = 0,
                !.source = IF c.source = "" THEN @ ELSE c.source]

\* applyTerminalCommit for the current attempt a.
ApplyTerminalCommit(t, a, c) ==
    /\ tasks' = [tasks EXCEPT ![t] = Decided(@, c)]
    /\ commits' = [k \in DOMAIN commits \cup {<<t, a>>} |->
                      IF k = <<t, a>> THEN c ELSE commits[k]]
    /\ UNCHANGED <<queue, controlOps, lastPriority, lastConsecutive>>

\* Mutant of CommitTerminal: the attempt is not compared with the current one.
CommitTerminalAnyAttempt(t, a, c, bound) ==
    /\ c.source = ""
    /\ <<t, a>> \notin DOMAIN commits
    /\ tasks[t].state = "running"
    /\ BindingEqual(t, bound)
    /\ ApplyTerminalCommit(t, a, c)
    /\ UNCHANGED polls

\* Complete and Fail.  Neither the lease nor its token is looked at.
CommitTerminal(t, a, c, bound) ==
    /\ c.source = ""
    /\ <<t, a>> \notin DOMAIN commits
    /\ tasks[t].state = "running"
    /\ BindingEqual(t, bound)
    /\ tasks[t].current = a
    /\ ApplyTerminalCommit(t, a, c)
    /\ UNCHANGED polls

\* Mutant of AsyncReportAnswer: a report of an older attempt is applied.
AsyncReportAnswerAnyAttempt(t, a, bound) ==
    IF <<t, a>> \in DOMAIN commits THEN "duplicate"
    ELSE IF tasks[t].state = "running" THEN "not_awaiting_report"
    ELSE IF tasks[t].current = 0 \/ ~BindingEqual(t, bound) THEN "binding_mismatch"
    ELSE IF tasks[t].state # "awaiting_report" THEN "late"
    ELSE "applied"

\* How commitAsyncReportTerminal answers a report for attempt a of t.
AsyncReportAnswer(t, a, bound) ==
    IF <<t, a>> \in DOMAIN commits THEN "duplicate"
    ELSE IF tasks[t].state = "running" THEN "not_awaiting_report"
    ELSE IF tasks[t].current = 0 \/ ~BindingEqual(t, bound) THEN "binding_mismatch"
    ELSE IF tasks[t].state # "awaiting_report" THEN "late"
    ELSE IF tasks[t].current # a THEN "stale_attempt"
    ELSE "applied"

TerminalCommitConflict(existing, c) ==
    existing.status # c.status \/ existing.key # c.key

\* Mutant of RecordDuplicateReport: the last report wins.
RecordLastReport(t, a, c) ==
    /\ commits' = [commits EXCEPT ![<<t, a>>] = c]
    /\ UNCHANGED <<tasks, queue, controlOps, lastPriority, lastConsecutive>>

\* A report for an attempt with a commit: at most the conflict is recorded.
RecordDuplicateReport(t, a, c) ==
    /\ tasks' = [tasks EXCEPT ![t].conflict =
                                 @ \/ TerminalCommitConflict(commits[<<t, a>>], c)]
    /\ UNCHANGED <<queue, commits, controlOps, lastPriority, lastConsecutive>>

\* A report the call refuses, with any other answer, changes nothing.
CommitAsyncReportTerminal(t, a, c, bound) ==
    /\ c.source \in AsyncSources
    /\ \/ /\ AsyncReportAnswer(t, a, bound) = "applied"
          /\ ApplyTerminalCommit(t, a, c)
       \/ /\ AsyncReportAnswer(t, a, bound) = "duplicate"
          /\ RecordDuplicateReport(t, a, c)

\* A callback delivers the report of a remote agent.
AsyncReport(t, a, c, bound) ==
    /\ c.source = "callback"
    /\ CommitAsyncReportTerminal(t, a, c, bound)
    /\ UNCHANGED polls

-----------------------------------------------------------------------------
(* Waiting for an asynchronous report *)

AwaitingReport(rec) ==
    [rec EXCEPT !.state = "awaiting_report", !.lease = 0,
                !.report = ReportTimeout, !.source = "", !.conflict = FALSE,
                !.eligible = 0]

\* The lease ends and the report timeout starts.  A repeated call finds the
\* task awaiting_report and changes nothing that is modelled.
MarkAwaitingReport(t, a) ==
    /\ tasks[t].current = a
    /\ tasks[t].state = "running"
    /\ tasks' = [tasks EXCEPT ![t] = AwaitingReport(@)]
    /\ UNCHANGED <<queue, commits, controlOps, lastPriority, lastConsecutive, polls>>

ReportTimedOut(rec) == rec.state = "awaiting_report" /\ rec.report <= 0

ExpiredReports == {t \in Tasks : ReportTimedOut(tasks[t])}

TimeoutState == IF DLQEnabled THEN TimeoutTerminal ELSE "failed"

TimedOut(rec) ==
    [rec EXCEPT !.attempts[rec.current] = "failed", !.current = 0,
                !.state = TimeoutState, !.report = 0, !.eligible = 0,
                !.source = "timeout"]

\* The second store call of Scheduler.ExpireLeases.
ExpireAwaitingReports ==
    LET E    == ExpiredReports
        keys == {<<t, tasks[t].current>> : t \in E}
    IN  /\ E # {}
        /\ tasks' = [t \in Tasks |-> IF t \in E THEN TimedOut(tasks[t]) ELSE tasks[t]]
        /\ commits' = [k \in DOMAIN commits \cup keys |->
                          IF k \in DOMAIN commits THEN commits[k] ELSE TimeoutCommit]
        /\ UNCHANGED <<queue, controlOps, lastPriority, lastConsecutive, polls>>

-----------------------------------------------------------------------------
(* The reconcile cycle: ReconcileAwaitingReports *)

\* listAwaitingReport: the tasks whose report timeout is not overdue.
Awaited == {t \in Tasks : tasks[t].state = "awaiting_report" /\ tasks[t].report >= 0}

\* The cycle takes a copy of the records that await a report...
ReconcileList ==
    /\ polls = <<>>
    /\ ReconcileBatch > 0
    /\ Awaited # {}
    /\ \E list \in Ascending(Awaited) :
          LET n == IF Len(list) < ReconcileBatch THEN Len(list) ELSE ReconcileBatch
          IN  polls' = [i \in 1..n |-> <<list[i], tasks[list[i]].current>>]
    /\ UNCHANGED state

\* ... and polls the remote agent for each, outside the lock.  The poll is
\* pending, not found or failed, or the record has no remote task id, or its
\* commit is refused,
ReconcileSkip ==
    /\ polls # <<>>
    /\ polls' = Tail(polls)
    /\ UNCHANGED state

\* or it brings a terminal outcome, which is committed for the attempt of the
\* copy.  ReconcileTerminalCommitFromRecord sets no WorkspaceProvenance.
ReconcileCommit(c) ==
    /\ polls # <<>>
    /\ c.source = "reconcile_poll"
    /\ CommitAsyncReportTerminal(Head(polls)[1], Head(polls)[2], c, FALSE)
    /\ polls' = Tail(polls)

-----------------------------------------------------------------------------
(* Task board control *)

\* controlTask: an operation id that is known is answered from ControlOps.
ControlTask(op, t, action) ==
    /\ op \notin DOMAIN controlOps
    /\ tasks[t].state # "absent"
    /\ controlOps' = [o \in DOMAIN controlOps \cup {op} |->
                         IF o = op THEN <<t, action>> ELSE controlOps[o]]

Cancelled(rec) ==
    [rec EXCEPT !.attempts = IF rec.current = 0 THEN @
                             ELSE [@ EXCEPT ![rec.current] = "failed"],
                !.state = "failed", !.current = 0, !.report = 0, !.eligible = 0,
                !.source = "manual_cancel", !.conflict = FALSE]

\* applyManualCancel.  The id of a queued task stays in the queue.
ManualCancel(op, t) ==
    /\ ControlTask(op, t, "cancel")
    /\ tasks[t].state \in {"queued", "awaiting_report"}
    /\ tasks' = [tasks EXCEPT ![t] = Cancelled(@)]
    /\ UNCHANGED <<queue, commits, lastPriority, lastConsecutive, polls>>

\* Mutant of Retried: the resolution source is not reset.
RetriedKeepsSource(rec) ==
    [rec EXCEPT !.retries = @ + 1, !.state = "queued", !.current = 0,
                !.report = 0, !.eligible = 0, !.conflict = FALSE]

Retried(rec) ==
    [rec EXCEPT !.retries = @ + 1, !.state = "queued", !.current = 0,
                !.report = 0, !.eligible = 0, !.source = "", !.conflict = FALSE]

\* Mutant of ManualRetry: any terminal task is retried.
ManualRetryOfSuccess(op, t) ==
    /\ ControlTask(op, t, "retry_terminal")
    /\ tasks[t].state \in Terminal
    /\ tasks[t].retries < MaxManualRetry
    /\ tasks' = [tasks EXCEPT ![t] = Retried(@)]
    /\ queue' = Append(queue, t)
    /\ UNCHANGED <<commits, lastPriority, lastConsecutive, polls>>

\* applyManualRetry.
ManualRetry(op, t) ==
    /\ ControlTask(op, t, "retry_terminal")
    /\ tasks[t].state \in {"failed", "dead_letter"}
    /\ tasks[t].retries < MaxManualRetry
    /\ tasks' = [tasks EXCEPT ![t] = Retried(@)]
    /\ queue' = Append(queue, t)
    /\ UNCHANGED <<commits, lastPriority, lastConsecutive, polls>>

-----------------------------------------------------------------------------
(* Time *)

Down(timer, floor) == IF timer > floor THEN timer - 1 ELSE timer

Elapse(rec) ==
    [rec EXCEPT !.lease = IF rec.state = "running" THEN Down(@, -1) ELSE @,
                !.report = IF rec.state = "awaiting_report" THEN Down(@, -1) ELSE @,
                !.eligible = Down(@, 0), !.notBefore = Down(@, 0)]

Tick ==
    /\ tasks' = [t \in Tasks |-> Elapse(tasks[t])]
    /\ UNCHANGED <<queue, commits, controlOps, lastPriority, lastConsecutive, polls>>

-----------------------------------------------------------------------------
Init ==
    /\ tasks = [t \in Tasks |-> Absent]
    /\ queue = <<>>
    /\ commits = <<>>
    /\ controlOps = <<>>
    /\ lastPriority = ""
    /\ lastConsecutive = 0
    /\ polls = <<>>

Outcome(source) ==
    [status : {"succeeded", "failed"}, key : OutcomeKeys, source : {source}]

WorkerCall(t) ==
    \E a \in Issued(t) :
        \/ Heartbeat(t, a)
        \/ MarkAwaitingReport(t, a)
        \/ \E c \in Outcome(""), bound \in BOOLEAN : CommitTerminal(t, a, c, bound)

RemoteCall(t) ==
    \E a \in Issued(t), c \in Outcome("callback"), bound \in BOOLEAN :
        AsyncReport(t, a, c, bound)

ControlCall(t) ==
    \E op \in OpIDs : ManualCancel(op, t) \/ ManualRetry(op, t)

\* The store operations that changed something.
Operation ==
    \/ \E t \in Tasks :
          \/ \E nb \in 0..MaxNotBefore : Enqueue(t, nb)
          \/ WorkerCall(t)
          \/ RemoteCall(t)
          \/ ControlCall(t)
          \/ Requeue(t)
    \/ ClaimTask
    \/ ExpireLeasesCall
    \/ ExpireAwaitingReports
    \/ \E c \in Outcome("reconcile_poll") : ReconcileCommit(c)

Next ==
    \/ Operation
    \/ ClaimNone
    \/ ReconcileList
    \/ ReconcileSkip
    \/ Tick

Spec == Init /\ [][Next]_vars

\* Time passes, workers keep polling for work, a worker does not renew its
\* lease for ever without reporting a result (one that crashes stops renewing
\* it), and the host keeps calling ExpireLeases.
Fairness ==
    /\ WF_vars(Tick)
    /\ WF_vars(ClaimTask \/ ClaimNone)
    /\ WF_vars(ExpireAwaitingReports)
    /\ \A t \in Tasks :
          WF_vars(\E a \in Issued(t), c \in Outcome(""), bound \in BOOLEAN :
                      CommitTerminal(t, a, c, bound))

LiveSpec == Spec /\ Fairness

-----------------------------------------------------------------------------
(* Properties *)

\* The fields of schedulerState keep their types and their ranges.
TypeOK ==
    /\ tasks \in [Tasks -> TaskRecord]
    /\ queue \in Seq(Tasks)
    /\ DOMAIN commits \subseteq Tasks \X Nat
    /\ \A k \in DOMAIN commits : commits[k] \in Commit
    /\ DOMAIN controlOps \subseteq OpIDs
    /\ \A o \in DOMAIN controlOps : controlOps[o] \in Tasks \X ControlActions
    /\ lastPriority \in Priorities \cup {""}
    /\ lastConsecutive \in 0..FairnessMax
    /\ polls \in Seq(Tasks \X Nat)

OneLive(rec) ==
    /\ (rec.state \in {"running", "awaiting_report"}) <=> (rec.current # 0)
    /\ rec.current \in {0, Len(rec.attempts)}
    /\ \A a \in 1..Len(rec.attempts) :
          (rec.attempts[a] = "running") <=> (a = rec.current)

\* A task has a live attempt exactly while it is running or awaits a report;
\* it is the newest attempt, it is the one CurrentAttempt names, and every
\* older attempt is closed: no expiry, requeue, cancel or stale commit leaves
\* two workers entitled to one task, or a terminal task with a live attempt.
OneLiveAttempt == \A t \in Tasks : OneLive(tasks[t])

\* A queued task is in the queue: whichever way it came back (lease expiry
\* inside a claim, requeue, manual retry), a claim can find it again.
NoLostTask ==
    \A t \in Tasks : tasks[t].state = "queued" => \E i \in 1..Len(queue) : queue[i] = t

\* The terminal commits and the attempt history tell the same story: a commit
\* belongs to an attempt that was handed out and closed with the commit's
\* status, only a commit makes an attempt succeed, and a task succeeded
\* exactly when its newest attempt did.
CommitsMatchAttempts ==
    /\ \A k \in DOMAIN commits :
          k[2] \in Issued(k[1]) /\ tasks[k[1]].attempts[k[2]] = commits[k].status
    /\ \A t \in Tasks : \A a \in Issued(t) :
          tasks[t].attempts[a] = "succeeded" =>
             <<t, a>> \in DOMAIN commits /\ a = Len(tasks[t].attempts)
                                         /\ tasks[t].state = "succeeded"
    /\ \A t \in Tasks : tasks[t].state = "succeeded" =>
          <<t, Len(tasks[t].attempts)>> \in DOMAIN commits

\* ResolutionSource is set on terminal tasks only and names the commit of the
\* newest attempt that decided the task (callback, poll or timeout, whichever
\* of the racing ones was first), or the operator who cancelled it.
SourceTellsTheTruth ==
    \A t \in Tasks :
        LET last == <<t, Len(tasks[t].attempts)>>
        IN  /\ tasks[t].source # "" => tasks[t].state \in Terminal
            /\ tasks[t].source \in AsyncSources \cup {"timeout"} =>
                  last \in DOMAIN commits /\ commits[last].source = tasks[t].source
            /\ tasks[t].source = "manual_cancel" => tasks[t].state = "failed"

WithinBudget(rec) ==
    /\ Len(rec.attempts) <= MaxAttempts + rec.retries
    /\ rec.state = "queued" => Len(rec.attempts) < MaxAttempts + rec.retries

\* Attempts are bounded: MaxAttempts, and one more for each manual retry, no
\* matter how expiries, requeues and retries alternate.
RetryBudget == \A t \in Tasks : WithinBudget(tasks[t])

\* first_terminal_wins: a recorded commit is never replaced or dropped, by a
\* late worker, a second report, the poll or the timeout.
FirstTerminalWins ==
    [][\A k \in DOMAIN commits : k \in DOMAIN commits' /\ commits'[k] = commits[k]]_vars

\* Every task that was admitted reaches a terminal state, although workers
\* crash, reports are lost or late and the remote poll never answers.
EveryTaskEnds ==
    \A t \in Tasks : tasks[t].state # "absent" ~> tasks[t].state \in Terminal

\* openspec/specs/multi-agent-async-reporting/spec.md:63: a report that comes
\* after the task has reached a terminal state is recorded as late or as a
\* duplicate.  Stated for the attempt that awaited its report when an operator
\* cancelled the task: the callback of the remote agent is still to come.
LateReportIsRecorded ==
    \A t \in Tasks \ BoundTasks :
        LET a == Len(tasks[t].attempts)
        IN  (tasks[t].source = "manual_cancel" /\ a > 0 /\ tasks[t].attempts[a] = "failed")
               => AsyncReportAnswer(t, a, FALSE) \in {"late", "duplicate"}

-----------------------------------------------------------------------------
(* What the scheduler promises of a task: TaskLifecycle *)

Phase(s) ==
    CASE s = "absent" -> "absent"
      [] s = "queued" -> "open"
      [] s \in {"running", "awaiting_report"} -> "granted"
      [] s = "succeeded" -> "done"
      [] s \in {"failed", "dead_letter"} -> "dead"

Life(rec) == [phase |-> Phase(rec.state), grants |-> rec.attempts]

lifeBar == [t \in Tasks |-> Life(tasks[t])]

Lifecycle == INSTANCE TaskLifecycle WITH life <- lifeBar

\* The scheduler implements TaskLifecycle.
ImplementsLifecycle == Lifecycle!Spec
=============================================================================
