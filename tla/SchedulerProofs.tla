--------------------------- MODULE SchedulerProofs ---------------------------
(***************************************************************************)
(* Theorems about Scheduler, for any set of tasks, policy and bounds.      *)
(*                                                                         *)
(* A step may touch several tasks, but it treats each of them in one of a  *)
(* few ways.  QuietStep and DecideStep list what becomes of a record,      *)
(* TaskStep adds the commits, and StepByTask shows that Next does nothing  *)
(* else.  Queue, commits and the other variables are followed action by    *)
(* action.                                                                 *)
(*                                                                         *)
(* What holds of one record at a time (the live attempt, the budget, the   *)
(* life cycle) is then proved of RecordStep; what ties a record to its     *)
(* commits is proved of TaskStep.  IInv is the inductive invariant.        *)
(* The fairness window of ClaimFairness comes last.                        *)
(***************************************************************************)
EXTENDS ClaimFairness, TLAPS

USE SMTT(30)

-----------------------------------------------------------------------------
(* Lists *)

\* The first entry of a list, and the rest.
LEMMA FirstOut ==
    ASSUME NEW S, NEW s \in Seq(S), s # <<>>
    PROVE  /\ Head(s) \in S /\ Tail(s) \in Seq(S) /\ Len(Tail(s)) = Len(s) - 1
           /\ \A i \in 1..Len(Tail(s)) : Tail(s)[i] = s[i + 1]
OBVIOUS

\* A list with one more entry.
LEMMA LastIn ==
    ASSUME NEW S, NEW s \in Seq(S), NEW e \in S
    PROVE  /\ Append(s, e) \in Seq(S) /\ Append(s, e) # <<>> /\ Len(Append(s, e)) = Len(s) + 1
           /\ \A i \in 1..Len(s) : Append(s, e)[i] = s[i]
           /\ Append(s, e)[Len(s) + 1] = e
OBVIOUS

\* One list behind another.
LEMMA Joined ==
    ASSUME NEW S, NEW s \in Seq(S), NEW t \in Seq(S)
    PROVE  /\ s \o t \in Seq(S) /\ Len(s \o t) = Len(s) + Len(t)
           /\ \A i \in 1..(Len(s) + Len(t)) :
                 (s \o t)[i] = IF i <= Len(s) THEN s[i] ELSE t[i - Len(s)]
OBVIOUS

-----------------------------------------------------------------------------
(* One record at a time *)

Delays == 0..BackoffMax

\* What a step that does not decide the current attempt may make of a record.
QuietStep(r, s) ==
    \/ s = r
    \/ r.state = "absent" /\ \E nb \in 0..MaxNotBefore : s = NewRecord(nb)
    \/ s = Elapse(r)
    \/ r.state = "running" /\ \E d \in Delays : s = HandleRetryTransition(r, d)
    \/ IsClaimable(r) /\ s = StartAttempt(r)
    \/ /\ r.state = "running"
       /\ \E d \in Delays : /\ IsClaimable(HandleRetryTransition(r, d))
                            /\ s = StartAttempt(HandleRetryTransition(r, d))
    \/ s = [r EXCEPT !.lease = LeaseTimeout]
    \/ r.state = "running" /\ s = AwaitingReport(r)
    \/ \E b \in BOOLEAN : s = [r EXCEPT !.conflict = b]
    \/ r.state \in {"queued", "awaiting_report"} /\ s = Cancelled(r)
    \/ /\ r.state \in {"failed", "dead_letter"}
       /\ r.retries < MaxManualRetry
       /\ s = Retried(r)

\* What a terminal commit makes of it.
DecideStep(r, s, c) ==
    \/ /\ r.state \in {"running", "awaiting_report"}
       /\ c.source \in AsyncSources \cup {""}
       /\ s = Decided(r, c)
    \/ r.state = "awaiting_report" /\ c = TimeoutCommit /\ s = TimedOut(r)

RecordStep(r, s) == QuietStep(r, s) \/ \E c \in Commit : DecideStep(r, s, c)

\* What one step may make of a task and its commits.
TaskStep(t) ==
    LET new == DOMAIN commits' \ DOMAIN commits
        cur == <<t, tasks[t].current>>
    IN  \/ QuietStep(tasks[t], tasks'[t]) /\ \A k \in new : k[1] # t
        \/ \E c \in Commit :
              /\ DecideStep(tasks[t], tasks'[t], c)
              /\ cur \in DOMAIN commits'
              /\ cur \in new => commits'[cur] = c
              /\ \A k \in new : k[1] = t => k = cur

\* The values the code stores in the timers and counters are in range.
LEMMA Ranges ==
    /\ 0 \in -1..LeaseTimeout /\ LeaseTimeout \in -1..LeaseTimeout
    /\ 0 \in -1..ReportTimeout /\ ReportTimeout \in -1..ReportTimeout
    /\ 0 \in Delays /\ 0 \in 0..MaxNotBefore /\ 0 \in 0..MaxManualRetry
  BY BoundAssumption, BackoffAssumption DEF Delays

\* A timer that comes down by one unit of time stays in range.
LEMMA DownInRange ==
    /\ \A d \in -1..LeaseTimeout : Down(d, -1) \in -1..LeaseTimeout
    /\ \A d \in -1..ReportTimeout : Down(d, -1) \in -1..ReportTimeout
    /\ \A d \in 0..BackoffMax : Down(d, 0) \in 0..BackoffMax
    /\ \A d \in 0..MaxNotBefore : Down(d, 0) \in 0..MaxNotBefore
  BY BoundAssumption, BackoffAssumption DEF Down

\* Closing an attempt keeps a sequence of statuses one, with its length.
LEMMA CloseSeq ==
    ASSUME NEW S, NEW q \in Seq(S), NEW i, NEW v \in S
    PROVE  /\ [q EXCEPT ![i] = v] \in Seq(S)
           /\ Len([q EXCEPT ![i] = v]) = Len(q)
  <1>1. q \in [1..Len(q) -> S] /\ Len(q) \in Nat
    OBVIOUS
  <1>2. [q EXCEPT ![i] = v] \in [1..Len(q) -> S]
    BY <1>1, Zenon
  <1>. QED  BY <1>1, <1>2

\* handleRetryTransition ends in one of three states.
LEMMA RetryStates ==
    ASSUME NEW n \in Nat
    PROVE  /\ RetryState(n) \in {"queued", "failed", "dead_letter"}
           /\ RetryState(n) = "queued" => n < MaxAttempts
  BY BoundAssumption, PolicyAssumption DEF RetryState

\* An expired or requeued record is a record.
LEMMA RetryTyped ==
    ASSUME NEW r \in TaskRecord, NEW d \in Delays
    PROVE  HandleRetryTransition(r, d) \in TaskRecord
  <1>1. RetryState(Len(r.attempts)) \in TaskStates
    BY RetryStates DEF TaskRecord, TaskStates, Terminal
  <1>2. [r.attempts EXCEPT ![r.current] = "expired"] \in Seq(AttemptStatuses)
    BY Zenon, CloseSeq DEF TaskRecord, AttemptStatuses
  <1>. QED  BY Zenon, <1>1, <1>2, Ranges DEF TaskRecord, HandleRetryTransition, Delays

\* A claimed record is a record.
LEMMA StartTyped ==
    ASSUME NEW r \in TaskRecord
    PROVE  StartAttempt(r) \in TaskRecord
  <1>1. /\ Append(r.attempts, "running") \in Seq(AttemptStatuses)
        /\ Len(r.attempts) + 1 \in Nat
    BY DEF TaskRecord, AttemptStatuses
  <1>. QED  BY Zenon, <1>1, Ranges DEF TaskRecord, StartAttempt, TaskStates, Delays

\* A record that was enqueued is a record, and so is the one of an unknown task.
LEMMA NewTyped ==
    /\ \A nb \in 0..MaxNotBefore : NewRecord(nb) \in TaskRecord
    /\ Absent \in TaskRecord
  <1>1. \A nb \in 0..MaxNotBefore : NewRecord(nb) \in TaskRecord
    <2>1. <<>> \in Seq(AttemptStatuses) /\ 0 \in Nat
      OBVIOUS
    <2>2. "queued" \in TaskStates /\ "" \in Sources /\ FALSE \in BOOLEAN
      BY DEF TaskStates, Sources
    <2>. QED  BY Zenon, <2>1, <2>2, Ranges DEF TaskRecord, NewRecord, Delays
  <1>2. Absent \in TaskRecord
    BY <1>1, Ranges DEF Absent, TaskRecord, TaskStates
  <1>. QED  BY <1>1, <1>2

\* Whatever a step makes of a record is a record.
LEMMA RecordTyped ==
    ASSUME NEW r \in TaskRecord, NEW s, RecordStep(r, s)
    PROVE  s \in TaskRecord
  <1>1. ASSUME NEW nb \in 0..MaxNotBefore, s = NewRecord(nb) PROVE s \in TaskRecord
    BY <1>1, NewTyped
  <1>2. CASE s = Elapse(r)
    <2>1. /\ (IF r.state = "running" THEN Down(r.lease, -1) ELSE r.lease) \in -1..LeaseTimeout
          /\ (IF r.state = "awaiting_report" THEN Down(r.report, -1) ELSE r.report)
                \in -1..ReportTimeout
          /\ Down(r.eligible, 0) \in 0..BackoffMax
          /\ Down(r.notBefore, 0) \in 0..MaxNotBefore
      BY DownInRange DEF TaskRecord
    <2>. QED  BY Zenon, <1>2, <2>1 DEF TaskRecord, Elapse
  <1>3. ASSUME NEW d \in Delays, s = HandleRetryTransition(r, d) PROVE s \in TaskRecord
    BY <1>3, RetryTyped
  <1>4. CASE s = StartAttempt(r)
    BY <1>4, StartTyped
  <1>5. ASSUME NEW d \in Delays, s = StartAttempt(HandleRetryTransition(r, d))
        PROVE  s \in TaskRecord
    BY <1>5, RetryTyped, StartTyped
  <1>6. CASE s = [r EXCEPT !.lease = LeaseTimeout]
    BY Zenon, <1>6, Ranges DEF TaskRecord
  <1>7. CASE s = AwaitingReport(r)
    BY Zenon, <1>7, Ranges DEF TaskRecord, AwaitingReport, TaskStates, Sources, Delays
  <1>8. ASSUME NEW c \in Commit, s = Decided(r, c) PROVE s \in TaskRecord
    <2>1. [r.attempts EXCEPT ![r.current] = c.status] \in Seq(AttemptStatuses)
      BY Zenon, CloseSeq DEF TaskRecord, Commit, AttemptStatuses
    <2>2. c.status \in TaskStates /\ c.source \in Sources
      BY DEF Commit, TaskStates, Terminal
    <2>. QED  BY Zenon, <1>8, <2>1, <2>2, Ranges DEF TaskRecord, Decided, Delays
  <1>9. CASE s = TimedOut(r)
    <2>1. [r.attempts EXCEPT ![r.current] = "failed"] \in Seq(AttemptStatuses)
      BY Zenon, CloseSeq DEF TaskRecord, AttemptStatuses
    <2>2. TimeoutState \in TaskStates /\ "timeout" \in Sources
      BY PolicyAssumption DEF TimeoutState, TaskStates, Terminal, Sources
    <2>. QED  BY Zenon, <1>9, <2>1, <2>2, Ranges DEF TaskRecord, TimedOut, Delays
  <1>10. ASSUME NEW b \in BOOLEAN, s = [r EXCEPT !.conflict = b] PROVE s \in TaskRecord
    BY Zenon, <1>10 DEF TaskRecord
  <1>11. CASE s = Cancelled(r)
    <2>1. [r.attempts EXCEPT ![r.current] = "failed"] \in Seq(AttemptStatuses)
      BY Zenon, CloseSeq DEF TaskRecord, AttemptStatuses
    <2>. QED  BY Zenon, <1>11, <2>1, Ranges
              DEF TaskRecord, Cancelled, TaskStates, Terminal, Sources, Delays
  <1>12. CASE r.retries < MaxManualRetry /\ s = Retried(r)
    <2>1. r.retries + 1 \in 0..MaxManualRetry
      BY <1>12, BoundAssumption DEF TaskRecord
    <2>. QED  BY Zenon, <1>12, <2>1, Ranges DEF TaskRecord, Retried, TaskStates, Sources, Delays
  <1>. QED  BY Zenon, <1>1, <1>2, <1>3, <1>4, <1>5, <1>6, <1>7, <1>8, <1>9, <1>10, <1>11, <1>12
            DEF RecordStep, QuietStep, DecideStep

-----------------------------------------------------------------------------
(* The scheduler, record by record *)

\* The sorted list of a set of tasks lists exactly its members.
LEMMA AscendingLists ==
    ASSUME NEW R \in SUBSET Tasks, NEW s \in Ascending(R)
    PROVE  /\ s \in Seq(Tasks)
           /\ \A t \in R : \E i \in 1..Len(s) : s[i] = t
  <1>1. s \in Seq(R) /\ \A t \in R : \E i \in DOMAIN s : s[i] = t
    BY Zenon DEF Ascending
  <1>2. s \in Seq(Tasks) /\ DOMAIN s = 1..Len(s)
    BY <1>1
  <1>. QED  BY Zenon, <1>1, <1>2

\* What expireLeases makes of the tasks and appends to the queue.
LEMMA ExpiryByRecord ==
    ASSUME TypeOK, NEW delay \in ExpiryDelays, NEW requeued \in ExpiryRequeues
    PROVE  /\ DOMAIN ExpireLeases(delay) = Tasks
           /\ requeued \in Seq(Tasks)
           /\ \A t \in Tasks :
                 LET u == ExpireLeases(delay)[t]
                 IN  \/ u = tasks[t]
                     \/ /\ tasks[t].state = "running"
                        /\ \E d \in Delays : u = HandleRetryTransition(tasks[t], d)
                        /\ u.state = "queued" => \E i \in 1..Len(requeued) : requeued[i] = t
  <1>1. requeued \in Seq(Tasks)
    BY AscendingLists DEF ExpiryRequeues, ExpiredLeases
  <1>2. ASSUME NEW t \in ExpiredLeases
        PROVE  /\ tasks[t].state = "running"
               /\ delay[t] \in Delays
               /\ ExpireLeases(delay)[t] = HandleRetryTransition(tasks[t], delay[t])
    BY Zenon DEF ExpiryDelays, ExpiredLeases, LeaseExpired, ExpireLeases, Delays
  <1>3. ASSUME NEW t \in ExpiredLeases, ExpireLeases(delay)[t].state = "queued"
        PROVE  \E i \in 1..Len(requeued) : requeued[i] = t
    <2>1. RetryState(Len(tasks[t].attempts)) = "queued"
      BY ZenonT(60), <1>2, <1>3 DEF HandleRetryTransition, TypeOK, TaskRecord, ExpiredLeases
    <2>. DEFINE R == {v \in ExpiredLeases : RetryState(Len(tasks[v].attempts)) = "queued"}
    <2>2. R \in SUBSET Tasks /\ t \in R
      BY <2>1 DEF ExpiredLeases
    <2>3. requeued \in Ascending(R)
      BY DEF ExpiryRequeues
    <2>. HIDE DEF R
    <2>. QED  BY AscendingLists, <2>2, <2>3
  <1>4. ASSUME NEW t \in Tasks \ ExpiredLeases PROVE ExpireLeases(delay)[t] = tasks[t]
    BY DEF ExpireLeases
  <1>5. DOMAIN ExpireLeases(delay) = Tasks
    BY DEF ExpireLeases
  <1>. QED  BY <1>1, <1>2, <1>3, <1>4, <1>5

\* Each step treats every task in one of the ways of TaskStep.
LEMMA StepByTask ==
    ASSUME TypeOK, Next
    PROVE  DOMAIN tasks' = Tasks /\ \A t \in Tasks : TaskStep(t)
  <1>. DEFINE Goal == DOMAIN tasks' = Tasks /\ \A t \in Tasks : TaskStep(t)
              Quiet == /\ DOMAIN tasks' = Tasks
                       /\ \A t \in Tasks : QuietStep(tasks[t], tasks'[t])
                       /\ commits' = commits
  <1>0. DOMAIN tasks = Tasks
    BY Zenon DEF TypeOK
  <1>q. Quiet => Goal
    BY DEF TaskStep
  <1>d. ASSUME NEW u \in Tasks, NEW c \in Commit, ApplyTerminalCommit(u, tasks[u].current, c),
               c.source \in AsyncSources \cup {""},
               tasks[u].state \in {"running", "awaiting_report"}
        PROVE  Goal
    <2>. DEFINE cur == <<u, tasks[u].current>>
    <2>1. DOMAIN tasks' = Tasks /\ tasks'[u] = Decided(tasks[u], c)
      BY Zenon, <1>0, <1>d DEF ApplyTerminalCommit
    <2>2. \A t \in Tasks \ {u} : tasks'[t] = tasks[t]
      BY Zenon, <1>0, <1>d DEF ApplyTerminalCommit
    <2>3. DOMAIN commits' = DOMAIN commits \cup {cur} /\ commits'[cur] = c
      BY Zenon, <1>d DEF ApplyTerminalCommit
    <2>4. TaskStep(u)
      BY Zenon, <1>d, <2>1, <2>3 DEF TaskStep, DecideStep
    <2>5. \A t \in Tasks \ {u} : TaskStep(t)
      BY <2>2, <2>3 DEF TaskStep, QuietStep
    <2>. QED  BY <2>1, <2>4, <2>5
  <1>1. ASSUME NEW u \in Tasks, NEW nb \in 0..MaxNotBefore, Enqueue(u, nb) PROVE Goal
    BY <1>0, <1>1, <1>q DEF Enqueue, QuietStep
  <1>2. ASSUME NEW u \in Tasks, WorkerCall(u) PROVE Goal
    <2>1. ASSUME NEW a, Heartbeat(u, a) PROVE Goal
      BY <1>0, <1>q, <2>1 DEF Heartbeat, QuietStep
    <2>2. ASSUME NEW a, MarkAwaitingReport(u, a) PROVE Goal
      BY <1>0, <1>q, <2>2 DEF MarkAwaitingReport, QuietStep
    <2>3. ASSUME NEW a, NEW c \in Outcome(""), NEW bound, CommitTerminal(u, a, c, bound)
          PROVE  Goal
      <3>1. c \in Commit
        BY Zenon DEF Outcome, Commit, Sources
      <3>. QED  BY Zenon, <1>d, <2>3, <3>1 DEF CommitTerminal
    <2>. QED  BY Zenon, <1>2, <2>1, <2>2, <2>3 DEF WorkerCall
  <1>3. ASSUME NEW u \in Tasks, NEW a, NEW c \in Commit, NEW bound,
               CommitAsyncReportTerminal(u, a, c, bound)
        PROVE  Goal
    <2>1. CASE AsyncReportAnswer(u, a, bound) = "applied" /\ ApplyTerminalCommit(u, a, c)
      BY Zenon, <1>3, <1>d, <2>1 DEF AsyncReportAnswer, CommitAsyncReportTerminal
    <2>2. CASE RecordDuplicateReport(u, a, c)
      <3>. DEFINE b == tasks[u].conflict \/ TerminalCommitConflict(commits[<<u, a>>], c)
      <3>1. tasks' = [tasks EXCEPT ![u] = [tasks[u] EXCEPT !.conflict = b]]
        BY <2>2 DEF RecordDuplicateReport
      <3>2. b \in BOOLEAN
        OBVIOUS
      <3>3. commits' = commits
        BY <2>2 DEF RecordDuplicateReport
      <3>. HIDE DEF b
      <3>. QED  BY <1>0, <1>q, <3>1, <3>2, <3>3 DEF QuietStep
    <2>. QED  BY <1>3, <2>1, <2>2 DEF CommitAsyncReportTerminal
  <1>4. ASSUME NEW u \in Tasks, RemoteCall(u) PROVE Goal
    <2>1. Outcome("callback") \subseteq Commit
      BY Zenon DEF Outcome, Commit, Sources, AsyncSources
    <2>. QED  BY <1>3, <1>4, <2>1 DEF RemoteCall, AsyncReport
  <1>5. ASSUME NEW u \in Tasks, ControlCall(u) PROVE Goal
    BY <1>0, <1>5, <1>q DEF ControlCall, ManualCancel, ManualRetry, QuietStep
  <1>6. ASSUME NEW u \in Tasks, Requeue(u) PROVE Goal
    <2>1. PICK d \in RetryDelay(tasks[u].current) :
             tasks' = [tasks EXCEPT ![u] = HandleRetryTransition(@, d)]
      BY Zenon, <1>6 DEF Requeue
    <2>2. d \in Delays
      BY SMTT(30), Ranges DEF RetryDelay, Delays
    <2>. QED  BY <1>0, <1>6, <1>q, <2>1, <2>2 DEF Requeue, QuietStep
  <1>7. CASE ClaimTask
    <2>1. PICK delay \in ExpiryDelays, requeued \in ExpiryRequeues :
             /\ commits' = commits
             /\ \E i \in 1..Len(queue \o requeued) :
                   /\ NextClaimableIndex(ExpireLeases(delay), queue \o requeued, i)
                   /\ tasks' = [ExpireLeases(delay) EXCEPT
                                  ![(queue \o requeued)[i]] = StartAttempt(@)]
      BY Zenon, <1>7 DEF ClaimTask
    <2>. DEFINE tk == ExpireLeases(delay)
                q  == queue \o requeued
    <2>2. PICK i \in 1..Len(q) :
             NextClaimableIndex(tk, q, i) /\ tasks' = [tk EXCEPT ![q[i]] = StartAttempt(@)]
      BY Zenon, <2>1
    <2>3. q \in Seq(Tasks)
      <3>1. requeued \in Seq(Tasks)
        BY ExpiryByRecord
      <3>. QED  BY Zenon, <3>1, Joined DEF TypeOK
    <2>4. q[i] \in Tasks /\ IsClaimable(tk[q[i]])
      BY <2>2, <2>3 DEF NextClaimableIndex, Eligible
    <2>5. \A t \in Tasks :
             \/ tk[t] = tasks[t]
             \/ /\ tasks[t].state = "running"
                /\ \E d \in Delays : tk[t] = HandleRetryTransition(tasks[t], d)
      BY ExpiryByRecord
    <2>6. DOMAIN tk = Tasks
      BY ExpiryByRecord
    <2>. HIDE DEF tk, q
    <2>. QED  BY <1>q, <2>1, <2>2, <2>4, <2>5, <2>6 DEF QuietStep
  <1>8. CASE ClaimNone \/ ExpireLeasesCall
    <2>1. PICK delay \in ExpiryDelays, requeued \in ExpiryRequeues :
             tasks' = ExpireLeases(delay) /\ commits' = commits
      BY <1>8 DEF ClaimNone, ExpireLeasesCall
    <2>. QED  BY <1>q, <2>1, ExpiryByRecord DEF QuietStep
  <1>9. CASE ExpireAwaitingReports
    <2>1. DOMAIN tasks' = Tasks
      BY <1>9 DEF ExpireAwaitingReports
    <2>2. TimeoutCommit \in Commit
      BY DEF TimeoutCommit, Commit, Sources
    <2>3. ASSUME NEW t \in ExpiredReports PROVE TaskStep(t)
      <3>. DEFINE keys == {<<u, tasks[u].current>> : u \in ExpiredReports}
                  cur  == <<t, tasks[t].current>>
      <3>1. t \in Tasks /\ tasks[t].state = "awaiting_report" /\ tasks'[t] = TimedOut(tasks[t])
        BY <1>9 DEF ExpireAwaitingReports, ExpiredReports, ReportTimedOut
      <3>2. commits' = [k \in DOMAIN commits \cup keys |->
                           IF k \in DOMAIN commits THEN commits[k] ELSE TimeoutCommit]
        BY <1>9 DEF ExpireAwaitingReports
      <3>3. cur \in keys /\ \A k \in keys : k[1] = t => k = cur
        OBVIOUS
      <3>4. DecideStep(tasks[t], tasks'[t], TimeoutCommit)
        BY <3>1 DEF DecideStep
      <3>. HIDE DEF keys
      <3>. QED  BY <2>2, <3>2, <3>3, <3>4 DEF TaskStep
    <2>4. ASSUME NEW t \in Tasks \ ExpiredReports PROVE TaskStep(t)
      BY <1>9 DEF ExpireAwaitingReports, ExpiredReports, TaskStep, QuietStep
    <2>. QED  BY <2>1, <2>3, <2>4
  <1>10. ASSUME NEW c \in Outcome("reconcile_poll"), ReconcileCommit(c) PROVE Goal
    <2>1. c \in Commit
      BY Zenon DEF Outcome, Commit, Sources, AsyncSources
    <2>2. Head(polls)[1] \in Tasks
      <3>1. Head(polls) \in Tasks \X Nat
        BY Zenon, <1>10, FirstOut DEF ReconcileCommit, TypeOK
      <3>. QED  BY <3>1
    <2>. QED  BY Zenon, <1>3, <1>10, <2>1, <2>2 DEF ReconcileCommit
  <1>11. CASE ReconcileList \/ ReconcileSkip
    BY <1>0, <1>11, <1>q DEF ReconcileList, ReconcileSkip, state, QuietStep
  <1>12. CASE Tick
    BY <1>12, <1>q DEF Tick, QuietStep
  <1>. QED  BY <1>1, <1>2, <1>4, <1>5, <1>6, <1>7, <1>8, <1>9, <1>10, <1>11, <1>12
            DEF Next, Operation

-----------------------------------------------------------------------------
(* Queue and commits *)

InQueue(t, q) == \E i \in 1..Len(q) : q[i] = t

\* A task that joins the queue, at its end, is in it with all that were.
LEMMA AppendQueue ==
    ASSUME NEW q \in Seq(Tasks), NEW u \in Tasks
    PROVE  /\ Append(q, u) \in Seq(Tasks)
           /\ InQueue(u, Append(q, u))
           /\ \A t \in Tasks : InQueue(t, q) => InQueue(t, Append(q, u))
  <1>1. /\ Append(q, u) \in Seq(Tasks)
        /\ Len(Append(q, u)) = Len(q) + 1
        /\ \A i \in 1..Len(q) : Append(q, u)[i] = q[i]
        /\ Append(q, u)[Len(q) + 1] = u
    BY LastIn
  <1>2. 1..Len(q) \subseteq 1..(Len(q) + 1) /\ Len(q) + 1 \in 1..(Len(q) + 1)
    OBVIOUS
  <1>. QED  BY <1>1, <1>2 DEF InQueue

\* The tasks that expireLeases appends join the queue behind all that were in it.
LEMMA ConcatQueue ==
    ASSUME NEW q \in Seq(Tasks), NEW r \in Seq(Tasks)
    PROVE  /\ q \o r \in Seq(Tasks)
           /\ \A t \in Tasks : InQueue(t, q) \/ InQueue(t, r) => InQueue(t, q \o r)
  <1>1. /\ q \o r \in Seq(Tasks)
        /\ Len(q \o r) = Len(q) + Len(r)
        /\ \A i \in 1..(Len(q) + Len(r)) :
              (q \o r)[i] = IF i <= Len(q) THEN q[i] ELSE r[i - Len(q)]
    BY Joined
  <1>2. Len(q) \in Nat /\ Len(r) \in Nat
    OBVIOUS
  <1>3. ASSUME NEW i \in 1..Len(q) PROVE i \in 1..Len(q \o r) /\ (q \o r)[i] = q[i]
    BY <1>1, <1>2
  <1>4. ASSUME NEW i \in 1..Len(r)
        PROVE  Len(q) + i \in 1..Len(q \o r) /\ (q \o r)[Len(q) + i] = r[i]
    BY <1>1, <1>2
  <1>. QED  BY <1>1, <1>3, <1>4 DEF InQueue

\* Taking the entry i out of the queue loses no other task.
LEMMA WithoutQueue ==
    ASSUME NEW q \in Seq(Tasks), NEW i \in 1..Len(q)
    PROVE  /\ Without(q, i) \in Seq(Tasks)
           /\ \A t \in Tasks : InQueue(t, q) /\ t # q[i] => InQueue(t, Without(q, i))
  <1>1. Len(q) - 1 \in Nat
    OBVIOUS
  <1>2. \A j \in 1..(Len(q) - 1) : (IF j < i THEN q[j] ELSE q[j + 1]) \in Tasks
    OBVIOUS
  <1>3. Without(q, i) \in Seq(Tasks) /\ Len(Without(q, i)) = Len(q) - 1
    BY <1>1, <1>2 DEF Without
  <1>4. ASSUME NEW j \in 1..Len(q), j # i
        PROVE  \E k \in 1..(Len(q) - 1) : Without(q, i)[k] = q[j]
    <2>1. CASE j < i
      <3>1. j \in 1..(Len(q) - 1) /\ Without(q, i)[j] = q[j]
        BY <2>1 DEF Without
      <3>. QED  BY <3>1
    <2>2. CASE j > i
      <3>1. j - 1 \in 1..(Len(q) - 1) /\ ~(j - 1 < i) /\ (j - 1) + 1 = j
        BY <2>2
      <3>2. Without(q, i)[j - 1] = q[j]
        BY <3>1 DEF Without
      <3>. QED  BY <3>1, <3>2
    <2>. QED  BY <1>4, <2>1, <2>2
  <1>. QED  BY Zenon, <1>3, <1>4 DEF InQueue

\* A step keeps the types of the commits, and the commits themselves: one is
\* added only for an attempt that has none.
LEMMA CommitsStep ==
    ASSUME TypeOK, Next
    PROVE  /\ DOMAIN commits' \subseteq Tasks \X Nat
           /\ \A k \in DOMAIN commits' : commits'[k] \in Commit
           /\ \A k \in DOMAIN commits : k \in DOMAIN commits' /\ commits'[k] = commits[k]
  <1>. DEFINE Goal == /\ DOMAIN commits' \subseteq Tasks \X Nat
                      /\ \A k \in DOMAIN commits' : commits'[k] \in Commit
                      /\ \A k \in DOMAIN commits :
                            k \in DOMAIN commits' /\ commits'[k] = commits[k]
  <1>q. commits' = commits => Goal
    BY Zenon DEF TypeOK
  <1>i. ASSUME NEW t \in Tasks PROVE tasks[t].current \in Nat /\ Issued(t) \subseteq Nat
    <2>1. tasks[t].current \in Nat /\ tasks[t].attempts \in Seq(AttemptStatuses)
      BY Zenon DEF TypeOK, TaskRecord
    <2>2. Len(tasks[t].attempts) \in Nat
      BY <2>1
    <2>. QED  BY <2>1, <2>2 DEF Issued
  <1>d. ASSUME NEW u \in Tasks, NEW a \in Nat, NEW c \in Commit,
               <<u, a>> \notin DOMAIN commits, ApplyTerminalCommit(u, a, c)
        PROVE  Goal
    <2>1. commits' = [k \in DOMAIN commits \cup {<<u, a>>} |->
                         IF k = <<u, a>> THEN c ELSE commits[k]]
      BY <1>d DEF ApplyTerminalCommit
    <2>2. <<u, a>> \in Tasks \X Nat
      OBVIOUS
    <2>. QED  BY Zenon, <1>d, <2>1, <2>2 DEF TypeOK
  <1>1. ASSUME NEW u \in Tasks, NEW a \in Nat, NEW c \in Commit, NEW bound,
               CommitAsyncReportTerminal(u, a, c, bound)
        PROVE  Goal
    BY <1>1, <1>d, <1>q DEF CommitAsyncReportTerminal, AsyncReportAnswer, RecordDuplicateReport
  <1>2. ASSUME NEW u \in Tasks, WorkerCall(u) PROVE Goal
    <2>1. Outcome("") \subseteq Commit
      BY Zenon DEF Outcome, Commit, Sources
    <2>. QED  BY Zenon, <1>2, <1>d, <1>i, <1>q, <2>1
              DEF WorkerCall, Heartbeat, MarkAwaitingReport, CommitTerminal
  <1>3. ASSUME NEW u \in Tasks, RemoteCall(u) PROVE Goal
    <2>1. Outcome("callback") \subseteq Commit
      BY Zenon DEF Outcome, Commit, Sources, AsyncSources
    <2>. QED  BY <1>1, <1>3, <1>i, <2>1 DEF RemoteCall, AsyncReport
  <1>4. CASE ExpireAwaitingReports
    <2>. DEFINE keys == {<<t, tasks[t].current>> : t \in ExpiredReports}
    <2>1. keys \subseteq Tasks \X Nat
      BY <1>i DEF ExpiredReports
    <2>2. TimeoutCommit \in Commit
      BY DEF TimeoutCommit, Commit, Sources
    <2>3. commits' = [k \in DOMAIN commits \cup keys |->
                         IF k \in DOMAIN commits THEN commits[k] ELSE TimeoutCommit]
      BY <1>4 DEF ExpireAwaitingReports
    <2>. HIDE DEF keys
    <2>. QED  BY Zenon, <2>1, <2>2, <2>3 DEF TypeOK
  <1>5. ASSUME NEW c \in Outcome("reconcile_poll"), ReconcileCommit(c) PROVE Goal
    <2>1. c \in Commit
      BY Zenon DEF Outcome, Commit, Sources, AsyncSources
    <2>2. Head(polls) \in Tasks \X Nat
      BY Zenon, <1>5, FirstOut DEF ReconcileCommit, TypeOK
    <2>3. Head(polls)[1] \in Tasks /\ Head(polls)[2] \in Nat
      BY <2>2
    <2>. QED  BY Zenon, <1>1, <1>5, <2>1, <2>3 DEF ReconcileCommit
  <1>6. CASE \/ \E t \in Tasks : \/ \E nb \in 0..MaxNotBefore : Enqueue(t, nb)
                                 \/ ControlCall(t) \/ Requeue(t)
             \/ ClaimTask \/ ExpireLeasesCall \/ ClaimNone
             \/ ReconcileList \/ ReconcileSkip \/ Tick
    BY Zenon, <1>6, <1>q DEF Enqueue, ControlCall, ManualCancel, ManualRetry, Requeue, ClaimTask,
       ExpireLeasesCall, ClaimNone, ReconcileList, ReconcileSkip, Tick, state
  <1>. QED  BY <1>2, <1>3, <1>4, <1>5, <1>6 DEF Next, Operation

\* A step keeps the type of the queue, and no queued task drops out of it.
LEMMA QueueStep ==
    ASSUME TypeOK, NoLostTask, Next
    PROVE  queue' \in Seq(Tasks) /\ NoLostTask'
  <1>. DEFINE Goal == queue' \in Seq(Tasks) /\ NoLostTask'
  <1>0. /\ queue \in Seq(Tasks)
        /\ DOMAIN tasks = Tasks
        /\ \A t \in Tasks : tasks[t].state = "queued" => InQueue(t, queue)
    BY Zenon DEF TypeOK, NoLostTask, InQueue
  \* Steps that leave the queue alone bring no task to it.
  <1>q. ASSUME queue' = queue,
               \A t \in Tasks : tasks'[t].state = "queued" => tasks[t].state = "queued"
        PROVE  Goal
    BY <1>0, <1>q DEF NoLostTask, InQueue
  <1>a. ASSUME NEW u \in Tasks, queue' = Append(queue, u),
               \A t \in Tasks \ {u} : tasks'[t].state = "queued" => tasks[t].state = "queued"
        PROVE  Goal
    BY <1>0, <1>a, AppendQueue DEF NoLostTask, InQueue
  <1>r. \A t \in Tasks : tasks[t] \in TaskRecord
    BY Zenon DEF TypeOK
  <1>d. ASSUME NEW u \in Tasks, NEW a, NEW c \in Commit, ApplyTerminalCommit(u, a, c) PROVE Goal
    <2>1. Decided(tasks[u], c).state # "queued"
      BY <1>r DEF Decided, Commit, TaskRecord
    <2>. QED  BY <1>0, <1>d, <1>q, <2>1 DEF ApplyTerminalCommit
  <1>1. ASSUME NEW u \in Tasks, NEW nb \in 0..MaxNotBefore, Enqueue(u, nb) PROVE Goal
    BY <1>0, <1>1, <1>a DEF Enqueue
  <1>2. ASSUME NEW u \in Tasks, WorkerCall(u) PROVE Goal
    <2>1. ASSUME NEW a, Heartbeat(u, a) PROVE Goal
      BY <1>0, <1>q, <1>r, <2>1 DEF Heartbeat, TaskRecord
    <2>2. ASSUME NEW a, MarkAwaitingReport(u, a) PROVE Goal
      <3>1. AwaitingReport(tasks[u]).state # "queued"
        BY <1>r DEF AwaitingReport, TaskRecord
      <3>. QED  BY <1>0, <1>q, <2>2, <3>1 DEF MarkAwaitingReport
    <2>3. Outcome("") \subseteq Commit
      BY Zenon DEF Outcome, Commit, Sources
    <2>. QED  BY Zenon, <1>2, <1>d, <2>1, <2>2, <2>3 DEF WorkerCall, CommitTerminal
  <1>3. ASSUME NEW u \in Tasks, NEW a, NEW c \in Commit, NEW bound,
               CommitAsyncReportTerminal(u, a, c, bound)
        PROVE  Goal
    <2>1. CASE RecordDuplicateReport(u, a, c)
      BY <1>0, <1>q, <1>r, <2>1 DEF RecordDuplicateReport, TaskRecord
    <2>. QED  BY <1>3, <1>d, <2>1 DEF CommitAsyncReportTerminal
  <1>4. ASSUME NEW u \in Tasks, RemoteCall(u) PROVE Goal
    <2>1. Outcome("callback") \subseteq Commit
      BY Zenon DEF Outcome, Commit, Sources, AsyncSources
    <2>. QED  BY <1>3, <1>4, <2>1 DEF RemoteCall, AsyncReport
  <1>5. ASSUME NEW u \in Tasks, ControlCall(u) PROVE Goal
    <2>1. Cancelled(tasks[u]).state # "queued"
      BY <1>r DEF Cancelled, TaskRecord
    <2>2. ASSUME NEW op, ManualCancel(op, u) PROVE Goal
      BY <1>0, <1>q, <2>1, <2>2 DEF ManualCancel
    <2>3. ASSUME NEW op, ManualRetry(op, u) PROVE Goal
      BY <1>0, <1>a, <2>3 DEF ManualRetry
    <2>. QED  BY <1>5, <2>2, <2>3 DEF ControlCall
  <1>6. ASSUME NEW u \in Tasks, Requeue(u) PROVE Goal
    <2>1. PICK d : tasks' = [tasks EXCEPT ![u] = HandleRetryTransition(@, d)]
      BY Zenon, <1>6 DEF Requeue
    <2>2. HandleRetryTransition(tasks[u], d).state = RetryState(Len(tasks[u].attempts))
      BY <1>r DEF HandleRetryTransition, TaskRecord
    <2>. QED  BY <1>0, <1>6, <1>a, <1>q, <2>1, <2>2 DEF Requeue
  <1>e. ASSUME NEW delay \in ExpiryDelays, NEW requeued \in ExpiryRequeues
        PROVE  /\ queue \o requeued \in Seq(Tasks)
               /\ \A t \in Tasks : ExpireLeases(delay)[t].state = "queued" =>
                     InQueue(t, queue \o requeued)
    <2>1. requeued \in Seq(Tasks)
      BY ExpiryByRecord
    <2>2. \A t \in Tasks : ExpireLeases(delay)[t].state = "queued" =>
             InQueue(t, queue) \/ InQueue(t, requeued)
      BY <1>0, ExpiryByRecord DEF InQueue
    <2>. QED  BY <1>0, <2>1, <2>2, ConcatQueue
  <1>7. CASE ClaimTask
    <2>1. PICK delay \in ExpiryDelays, requeued \in ExpiryRequeues :
             \E i \in 1..Len(queue \o requeued) :
                /\ queue' = Without(queue \o requeued, i)
                /\ tasks' = [ExpireLeases(delay) EXCEPT
                               ![(queue \o requeued)[i]] = StartAttempt(@)]
      BY Zenon, <1>7 DEF ClaimTask
    <2>. DEFINE tk == ExpireLeases(delay)
                q  == queue \o requeued
    <2>2. PICK i \in 1..Len(q) :
             queue' = Without(q, i) /\ tasks' = [tk EXCEPT ![q[i]] = StartAttempt(@)]
      BY Zenon, <2>1
    <2>3. q \in Seq(Tasks) /\ \A t \in Tasks : tk[t].state = "queued" => InQueue(t, q)
      BY <1>e
    <2>4. DOMAIN tk = Tasks /\ q[i] \in Tasks
      BY <2>3, ExpiryByRecord
    <2>5. StartAttempt(tk[q[i]]).state # "queued"
      <3>1. tk[q[i]] \in TaskRecord
        BY <1>r, <2>4, ExpiryByRecord, RetryTyped
      <3>. HIDE DEF tk, q
      <3>. QED  BY <3>1 DEF StartAttempt, TaskRecord
    <2>. HIDE DEF tk, q
    <2>6. \A t \in Tasks : tasks'[t].state = "queued" => t # q[i] /\ tk[t].state = "queued"
      BY Zenon, <2>2, <2>4, <2>5
    <2>7. /\ queue' \in Seq(Tasks)
          /\ \A t \in Tasks : tasks'[t].state = "queued" => InQueue(t, queue')
      BY <2>2, <2>3, <2>6, WithoutQueue
    <2>. QED  BY <2>7 DEF NoLostTask, InQueue
  <1>8. CASE ClaimNone \/ ExpireLeasesCall
    <2>1. PICK delay \in ExpiryDelays, requeued \in ExpiryRequeues :
             tasks' = ExpireLeases(delay) /\ queue' = queue \o requeued
      BY <1>8 DEF ClaimNone, ExpireLeasesCall
    <2>. QED  BY <1>e, <2>1 DEF NoLostTask, InQueue
  <1>9. CASE ExpireAwaitingReports
    <2>1. \A t \in Tasks : TimedOut(tasks[t]).state # "queued"
      BY <1>r, PolicyAssumption DEF TimedOut, TimeoutState, TaskRecord
    <2>. QED  BY <1>9, <1>q, <2>1 DEF ExpireAwaitingReports
  <1>10. ASSUME NEW c \in Outcome("reconcile_poll"), ReconcileCommit(c) PROVE Goal
    <2>1. c \in Commit
      BY Zenon DEF Outcome, Commit, Sources, AsyncSources
    <2>2. Head(polls) \in Tasks \X Nat
      BY Zenon, <1>10, FirstOut DEF ReconcileCommit, TypeOK
    <2>3. Head(polls)[1] \in Tasks
      BY <2>2
    <2>. QED  BY Zenon, <1>3, <1>10, <2>1, <2>3 DEF ReconcileCommit
  <1>11. CASE ReconcileList \/ ReconcileSkip
    BY <1>11, <1>q DEF ReconcileList, ReconcileSkip, state
  <1>12. CASE Tick
    <2>1. \A t \in Tasks : Elapse(tasks[t]).state = tasks[t].state
      BY <1>r DEF Elapse, TaskRecord
    <2>. QED  BY <1>12, <1>q, <2>1 DEF Tick
  <1>. QED  BY <1>1, <1>2, <1>4, <1>5, <1>6, <1>7, <1>8, <1>9, <1>10, <1>11, <1>12
            DEF Next, Operation

-----------------------------------------------------------------------------
(* Types *)

\* Which calls touch the control operations, the claim counters and the polls.
LEMMA Frame ==
    ASSUME Next
    PROVE  /\ \/ UNCHANGED controlOps
              \/ \E u \in Tasks, op \in OpIDs, act \in ControlActions : ControlTask(op, u, act)
           /\ UNCHANGED <<lastPriority, lastConsecutive>> \/ ClaimTask
           /\ \/ UNCHANGED polls
              \/ polls # <<>> /\ polls' = Tail(polls)
              \/ ReconcileList
  <1>. DEFINE Goal ==
         /\ \/ UNCHANGED controlOps
            \/ \E u \in Tasks, op \in OpIDs, act \in ControlActions : ControlTask(op, u, act)
         /\ UNCHANGED <<lastPriority, lastConsecutive>> \/ ClaimTask
         /\ \/ UNCHANGED polls
            \/ polls # <<>> /\ polls' = Tail(polls)
            \/ ReconcileList
  <1>1. ASSUME NEW t \in Tasks, NEW nb, Enqueue(t, nb) PROVE Goal
    BY <1>1 DEF Enqueue
  <1>2. ASSUME NEW t \in Tasks, WorkerCall(t) PROVE Goal
    BY Zenon, <1>2 DEF WorkerCall, Heartbeat, MarkAwaitingReport, CommitTerminal, ApplyTerminalCommit
  <1>3. ASSUME NEW t, NEW a, NEW c, NEW bound, CommitAsyncReportTerminal(t, a, c, bound)
        PROVE  UNCHANGED <<controlOps, lastPriority, lastConsecutive>>
    BY <1>3 DEF CommitAsyncReportTerminal, ApplyTerminalCommit, RecordDuplicateReport
  <1>4. ASSUME NEW t \in Tasks, RemoteCall(t) PROVE Goal
    BY <1>3, <1>4 DEF RemoteCall, AsyncReport
  <1>5. ASSUME NEW t \in Tasks, ControlCall(t) PROVE Goal
    BY <1>5 DEF ControlCall, ManualCancel, ManualRetry, ControlActions
  <1>6. ASSUME NEW t \in Tasks, Requeue(t) PROVE Goal
    BY <1>6 DEF Requeue
  <1>7. CASE ClaimTask
    BY Zenon, <1>7 DEF ClaimTask
  <1>8. CASE ClaimNone \/ ExpireLeasesCall
    BY <1>8 DEF ClaimNone, ExpireLeasesCall
  <1>9. CASE ExpireAwaitingReports
    BY <1>9 DEF ExpireAwaitingReports
  <1>10. ASSUME NEW c, ReconcileCommit(c) PROVE Goal
    BY Zenon, <1>3, <1>10 DEF ReconcileCommit
  <1>11. CASE ReconcileList \/ ReconcileSkip \/ Tick
    BY <1>11 DEF ReconcileList, ReconcileSkip, Tick, state
  <1>. QED  BY Zenon, <1>1, <1>2, <1>4, <1>5, <1>6, <1>7, <1>8, <1>9, <1>10, <1>11
            DEF Next, Operation

\* The other variables keep their types.
LEMMA OthersStep ==
    ASSUME TypeOK, Next
    PROVE  /\ DOMAIN controlOps' \subseteq OpIDs
           /\ \A o \in DOMAIN controlOps' : controlOps'[o] \in Tasks \X ControlActions
           /\ lastPriority' \in Priorities \cup {""}
           /\ lastConsecutive' \in 0..FairnessMax
           /\ polls' \in Seq(Tasks \X Nat)
  <1>1. /\ DOMAIN controlOps' \subseteq OpIDs
        /\ \A o \in DOMAIN controlOps' : controlOps'[o] \in Tasks \X ControlActions
    <2>1. CASE controlOps' = controlOps
      BY Zenon, <2>1 DEF TypeOK
    <2>2. ASSUME NEW u \in Tasks, NEW op \in OpIDs, NEW act \in ControlActions,
                 ControlTask(op, u, act)
          PROVE  /\ DOMAIN controlOps' \subseteq OpIDs
                 /\ \A o \in DOMAIN controlOps' : controlOps'[o] \in Tasks \X ControlActions
      <3>1. controlOps' = [o \in DOMAIN controlOps \cup {op} |->
                              IF o = op THEN <<u, act>> ELSE controlOps[o]]
        BY <2>2 DEF ControlTask
      <3>2. <<u, act>> \in Tasks \X ControlActions
        OBVIOUS
      <3>. QED  BY Zenon, <3>1, <3>2 DEF TypeOK
    <2>. QED  BY <2>1, <2>2, Frame
  <1>2. lastPriority' \in Priorities \cup {""} /\ lastConsecutive' \in 0..FairnessMax
    <2>0. lastPriority \in Priorities \cup {""}
      BY Zenon DEF TypeOK
    <2>1. /\ FairnessMax \in Nat /\ 1 <= FairnessMax
          /\ lastConsecutive \in 0..FairnessMax
      <3>1. FairnessMax \in Nat /\ 1 <= FairnessMax
        BY BoundAssumption
      <3>. QED  BY Zenon, <3>1 DEF TypeOK
    <2>2. ASSUME NEW p \in Priorities, CountClaim(p)
          PROVE  lastPriority' \in Priorities \cup {""} /\ lastConsecutive' \in 0..FairnessMax
      <3>1. lastConsecutive' \in 0..FairnessMax
        BY <2>1, <2>2 DEF CountClaim
      <3>. QED  BY Zenon, <2>2, <3>1 DEF CountClaim
    <2>3. ASSUME ClaimTask PROVE \E p \in Priorities : CountClaim(p)
      <3>1. PICK delay \in ExpiryDelays, requeued \in ExpiryRequeues :
               \E i \in 1..Len(queue \o requeued) : CountClaim(PriorityOf[(queue \o requeued)[i]])
        BY <2>3 DEF ClaimTask
      <3>2. requeued \in Seq(Tasks)
        BY ExpiryByRecord
      <3>3. queue \o requeued \in Seq(Tasks)
        BY Zenon, <3>2, Joined DEF TypeOK
      <3>. QED  BY <3>1, <3>3, PolicyAssumption
    <2>. QED  BY Zenon, <2>0, <2>1, <2>2, <2>3, Frame
  <1>3. polls' \in Seq(Tasks \X Nat)
    <2>1. CASE polls' = polls
      BY Zenon, <2>1 DEF TypeOK
    <2>2. CASE polls # <<>> /\ polls' = Tail(polls)
      BY Zenon, <2>2, FirstOut DEF TypeOK
    <2>3. CASE ReconcileList
      <3>1. PICK list \in Ascending(Awaited) :
               polls' = [i \in 1..(IF Len(list) < ReconcileBatch THEN Len(list) ELSE ReconcileBatch)
                           |-> <<list[i], tasks[list[i]].current>>]
        BY <2>3 DEF ReconcileList
      <3>. DEFINE n == IF Len(list) < ReconcileBatch THEN Len(list) ELSE ReconcileBatch
      <3>2. list \in Seq(Tasks)
        BY AscendingLists DEF Awaited
      <3>3. n \in Nat /\ n <= Len(list)
        BY <3>2, BoundAssumption
      <3>4. ASSUME NEW i \in 1..n PROVE <<list[i], tasks[list[i]].current>> \in Tasks \X Nat
        <4>1. list[i] \in Tasks
          BY <3>2, <3>3
        <4>. QED  BY Zenon, <4>1 DEF TypeOK, TaskRecord
      <3>. HIDE DEF n
      <3>5. polls' = [i \in 1..n |-> <<list[i], tasks[list[i]].current>>]
        BY <3>1 DEF n
      <3>. QED  BY <3>3, <3>4, <3>5
    <2>. QED  BY <2>1, <2>2, <2>3, Frame
  <1>. QED  BY Zenon, <1>1, <1>2, <1>3

\* tasks is a function after every step.
LEMMA TasksStayFunction ==
    ASSUME TypeOK, Next
    PROVE  tasks' = [t \in DOMAIN tasks' |-> tasks'[t]]
  <1>. DEFINE Goal == tasks' = [t \in DOMAIN tasks' |-> tasks'[t]]
  <1>1. ASSUME NEW u, NEW v, tasks' = [tasks EXCEPT ![u] = v] PROVE Goal
    BY Zenon, <1>1
  <1>2. ASSUME NEW delay, tasks' = ExpireLeases(delay) PROVE Goal
    BY <1>2 DEF ExpireLeases
  <1>3. ASSUME NEW delay, NEW u, tasks' = [ExpireLeases(delay) EXCEPT ![u] = StartAttempt(@)]
        PROVE  Goal
    BY <1>3 DEF ExpireLeases
  <1>4. CASE ExpireAwaitingReports \/ Tick
    BY <1>4 DEF ExpireAwaitingReports, Tick
  <1>5. CASE UNCHANGED tasks
    BY Zenon, <1>5 DEF TypeOK
  <1>6. CASE ClaimTask \/ ClaimNone \/ ExpireLeasesCall
    BY <1>2, <1>3, <1>6 DEF ClaimTask, ClaimNone, ExpireLeasesCall
  <1>7. ASSUME NEW t, NEW a, NEW c, NEW bound, CommitAsyncReportTerminal(t, a, c, bound)
        PROVE  Goal
    BY <1>1, <1>7 DEF CommitAsyncReportTerminal, ApplyTerminalCommit, RecordDuplicateReport
  <1>8. ASSUME NEW t \in Tasks, WorkerCall(t) PROVE Goal
    BY Zenon, <1>1, <1>8 DEF WorkerCall, Heartbeat, MarkAwaitingReport, CommitTerminal,
       ApplyTerminalCommit
  <1>9. ASSUME NEW t \in Tasks,
               (\E nb \in 0..MaxNotBefore : Enqueue(t, nb)) \/ ControlCall(t) \/ Requeue(t)
        PROVE  Goal
    BY <1>1, <1>9 DEF Enqueue, ControlCall, ManualCancel, ManualRetry, Requeue
  <1>. QED  BY Zenon, <1>4, <1>5, <1>6, <1>7, <1>8, <1>9
            DEF Next, Operation, ReconcileList, ReconcileSkip, state, RemoteCall, AsyncReport,
                ReconcileCommit

\* The scheduler's state keeps its types, and every queued task its place.
LEMMA TypeStep ==
    TypeOK /\ NoLostTask /\ [Next]_vars => (TypeOK /\ NoLostTask)'
  <1>. SUFFICES ASSUME TypeOK, NoLostTask, [Next]_vars PROVE (TypeOK /\ NoLostTask)'
    OBVIOUS
  <1>1. CASE Next
    <2>1. tasks' \in [Tasks -> TaskRecord]
      <3>1. \A t \in Tasks : tasks[t] \in TaskRecord /\ RecordStep(tasks[t], tasks'[t])
        BY Zenon, <1>1, StepByTask DEF TypeOK, TaskStep, RecordStep
      <3>2. \A t \in Tasks : tasks'[t] \in TaskRecord
        BY <3>1, RecordTyped
      <3>3. tasks' = [t \in DOMAIN tasks' |-> tasks'[t]]
        BY <1>1, TasksStayFunction
      <3>. QED  BY <1>1, <3>2, <3>3, StepByTask
    <2>. QED  BY Zenon, <1>1, <2>1, CommitsStep, QueueStep, OthersStep DEF TypeOK
  <1>2. CASE UNCHANGED vars
    BY Zenon, <1>2 DEF vars, state, TypeOK, NoLostTask
  <1>. QED  BY <1>1, <1>2

-----------------------------------------------------------------------------
(* The live attempt and the retry budget *)

Live == {"running", "awaiting_report"}

\* A record that is live has its newest attempt as the current one.
LEMMA LiveCurrent ==
    ASSUME NEW r \in TaskRecord, OneLive(r), r.state \in Live
    PROVE  /\ r.attempts \in Seq(AttemptStatuses)
           /\ Len(r.attempts) \in Nat
           /\ r.current = Len(r.attempts)
           /\ r.current \in 1..Len(r.attempts)
  <1>1. r.attempts \in Seq(AttemptStatuses) /\ r.current \in Nat
    BY DEF TaskRecord
  <1>2. Len(r.attempts) \in Nat
    BY <1>1
  <1>3. r.current = Len(r.attempts) /\ r.current # 0
    BY DEF OneLive, Live
  <1>. QED  BY <1>1, <1>2, <1>3

\* Closing the current attempt of a live record leaves no live attempt.
LEMMA ClosedLive ==
    ASSUME NEW r \in TaskRecord, OneLive(r), r.state \in Live,
           NEW s \in TaskRecord, NEW v \in AttemptStatuses \ {"running"},
           s.attempts = [r.attempts EXCEPT ![r.current] = v],
           s.current = 0, s.state \notin Live
    PROVE  OneLive(s)
  <1>1. /\ r.attempts \in Seq(AttemptStatuses)
        /\ Len(r.attempts) \in Nat
        /\ r.current \in 1..Len(r.attempts)
    BY LiveCurrent
  <1>2. Len(s.attempts) = Len(r.attempts)
    BY <1>1, CloseSeq
  <1>3. \A a \in 1..Len(r.attempts) :
           s.attempts[a] = IF a = r.current THEN v ELSE r.attempts[a]
    BY <1>1
  <1>4. ASSUME NEW a \in 1..Len(s.attempts) PROVE s.attempts[a] # "running" /\ a # 0
    BY <1>1, <1>2, <1>3 DEF OneLive
  <1>. QED  BY <1>2, <1>4 DEF OneLive, Live

\* A claim gives a record without a live attempt a new one.
LEMMA StartLive ==
    ASSUME NEW r \in TaskRecord, OneLive(r), r.state = "queued"
    PROVE  OneLive(StartAttempt(r))
  <1>. DEFINE s == StartAttempt(r)
  <1>1. r.attempts \in Seq(AttemptStatuses) /\ Len(r.attempts) \in Nat
    BY DEF TaskRecord
  <1>2. /\ s.attempts = Append(r.attempts, "running")
        /\ s.current = Len(r.attempts) + 1
        /\ s.state = "running"
    BY DEF StartAttempt, TaskRecord
  <1>3. /\ Len(s.attempts) = Len(r.attempts) + 1
        /\ s.attempts[Len(r.attempts) + 1] = "running"
        /\ \A a \in 1..Len(r.attempts) : s.attempts[a] = r.attempts[a]
    BY <1>1, <1>2, LastIn DEF AttemptStatuses
  <1>4. \A a \in 1..Len(r.attempts) : r.attempts[a] # "running"
    BY <1>1 DEF OneLive
  <1>. HIDE DEF s
  <1>5. ASSUME NEW a \in 1..Len(s.attempts)
        PROVE  (s.attempts[a] = "running") <=> (a = s.current)
    <2>1. CASE a = Len(r.attempts) + 1
      BY <1>2, <1>3, <2>1
    <2>2. CASE a # Len(r.attempts) + 1
      <3>1. a \in 1..Len(r.attempts)
        BY <1>1, <1>3, <2>2
      <3>. QED  BY <1>2, <1>3, <1>4, <2>2, <3>1
    <2>. QED  BY <2>1, <2>2
  <1>6. s.current # 0
    BY <1>1, <1>2
  <1>. QED  BY <1>2, <1>3, <1>5, <1>6 DEF OneLive, s

\* An expired or requeued record has no live attempt.
LEMMA RetryLive ==
    ASSUME NEW r \in TaskRecord, OneLive(r), r.state = "running", NEW d \in Delays
    PROVE  OneLive(HandleRetryTransition(r, d))
  <1>. DEFINE s == HandleRetryTransition(r, d)
  <1>1. s \in TaskRecord
    BY RetryTyped
  <1>2. /\ s.attempts = [r.attempts EXCEPT ![r.current] = "expired"]
        /\ s.current = 0
        /\ s.state = RetryState(Len(r.attempts))
    BY DEF HandleRetryTransition, TaskRecord
  <1>3. Len(r.attempts) \in Nat
    BY DEF TaskRecord
  <1>4. s.state \notin Live
    BY <1>2, <1>3, RetryStates DEF Live
  <1>. HIDE DEF s
  <1>5. OneLive(s)
    BY <1>1, <1>2, <1>4, ClosedLive DEF AttemptStatuses, Live
  <1>. QED  BY <1>5 DEF s

\* Whatever a step makes of a record, it has one live attempt or none.
LEMMA RecordLive ==
    ASSUME NEW r \in TaskRecord, OneLive(r), NEW s, RecordStep(r, s)
    PROVE  OneLive(s)
  <1>0. s \in TaskRecord
    BY RecordTyped
  <1>s. ASSUME s.attempts = r.attempts, s.current = r.current,
               (s.state \in Live) <=> (r.state \in Live)
        PROVE  OneLive(s)
    BY <1>s DEF OneLive, Live
  <1>1. ASSUME NEW nb, s = NewRecord(nb) PROVE OneLive(s)
    <2>1. s.attempts = <<>> /\ s.current = 0 /\ s.state = "queued"
      BY Zenon, <1>1 DEF NewRecord
    <2>2. Len(<<>>) = 0 /\ 1..0 = {}
      OBVIOUS
    <2>. QED  BY <2>1, <2>2 DEF OneLive
  <1>2. CASE s = Elapse(r)
    <2>1. s.attempts = r.attempts /\ s.current = r.current /\ s.state = r.state
      BY <1>2 DEF Elapse, TaskRecord
    <2>. QED  BY <1>s, <2>1
  <1>3. ASSUME NEW d \in Delays, r.state = "running", s = HandleRetryTransition(r, d)
        PROVE  OneLive(s)
    BY <1>3, RetryLive
  <1>4. CASE IsClaimable(r) /\ s = StartAttempt(r)
    BY <1>4, StartLive DEF IsClaimable
  <1>5. ASSUME NEW d \in Delays, r.state = "running",
               IsClaimable(HandleRetryTransition(r, d)),
               s = StartAttempt(HandleRetryTransition(r, d))
        PROVE  OneLive(s)
    BY <1>5, RetryLive, RetryTyped, StartLive DEF IsClaimable
  <1>6. CASE s = [r EXCEPT !.lease = LeaseTimeout]
    <2>1. s.attempts = r.attempts /\ s.current = r.current /\ s.state = r.state
      BY <1>6 DEF TaskRecord
    <2>. QED  BY <1>s, <2>1
  <1>7. CASE r.state = "running" /\ s = AwaitingReport(r)
    <2>1. s.attempts = r.attempts /\ s.current = r.current /\ s.state = "awaiting_report"
      BY <1>7 DEF AwaitingReport, TaskRecord
    <2>. QED  BY <1>7, <1>s, <2>1 DEF Live
  <1>8. ASSUME NEW c \in Commit, r.state \in Live, s = Decided(r, c) PROVE OneLive(s)
    <2>1. /\ s.attempts = [r.attempts EXCEPT ![r.current] = c.status]
          /\ s.current = 0 /\ s.state = c.status
      BY <1>8 DEF Decided, TaskRecord
    <2>2. c.status \in AttemptStatuses \ {"running"} /\ c.status \notin Live
      BY DEF Commit, AttemptStatuses, Live
    <2>. QED  BY Zenon, <1>0, <1>8, <2>1, <2>2, ClosedLive
  <1>9. CASE r.state = "awaiting_report" /\ s = TimedOut(r)
    <2>1. /\ s.attempts = [r.attempts EXCEPT ![r.current] = "failed"]
          /\ s.current = 0 /\ s.state = TimeoutState
      BY <1>9 DEF TimedOut, TaskRecord
    <2>2. "failed" \in AttemptStatuses \ {"running"} /\ TimeoutState \notin Live
      BY PolicyAssumption DEF AttemptStatuses, Live, TimeoutState
    <2>3. r.state \in Live
      BY <1>9 DEF Live
    <2>. QED  BY <1>0, <2>1, <2>2, <2>3, ClosedLive
  <1>10. ASSUME NEW b, s = [r EXCEPT !.conflict = b] PROVE OneLive(s)
    <2>1. s.attempts = r.attempts /\ s.current = r.current /\ s.state = r.state
      BY <1>10 DEF TaskRecord
    <2>. QED  BY <1>s, <2>1
  <1>11. CASE r.state = "queued" /\ s = Cancelled(r)
    <2>1. r.current = 0
      BY <1>11 DEF OneLive
    <2>2. s.attempts = r.attempts /\ s.current = 0 /\ s.state = "failed"
      BY <1>11, <2>1 DEF Cancelled, TaskRecord
    <2>. QED  BY <1>11, <1>s, <2>1, <2>2 DEF Live
  <1>12. CASE r.state = "awaiting_report" /\ s = Cancelled(r)
    <2>1. r.current # 0 /\ r.state \in Live
      BY <1>12 DEF OneLive, Live
    <2>2. /\ s.attempts = [r.attempts EXCEPT ![r.current] = "failed"]
          /\ s.current = 0 /\ s.state = "failed"
      BY <1>12, <2>1 DEF Cancelled, TaskRecord
    <2>3. "failed" \in AttemptStatuses \ {"running"} /\ "failed" \notin Live
      BY DEF AttemptStatuses, Live
    <2>. QED  BY <1>0, <2>1, <2>2, <2>3, ClosedLive
  <1>13. CASE r.state \in {"failed", "dead_letter"} /\ s = Retried(r)
    <2>1. r.current = 0
      BY <1>13 DEF OneLive
    <2>2. s.attempts = r.attempts /\ s.current = 0 /\ s.state = "queued"
      BY <1>13 DEF Retried, TaskRecord
    <2>. QED  BY <1>13, <1>s, <2>1, <2>2 DEF Live
  <1>. QED  BY Zenon, <1>1, <1>2, <1>3, <1>4, <1>5, <1>6, <1>7, <1>8, <1>9, <1>10, <1>11, <1>12, <1>13
            DEF RecordStep, QuietStep, DecideStep, Live

\* What a step does to the number of attempts and of manual retries.
LEMMA RecordCounts ==
    ASSUME NEW r \in TaskRecord, OneLive(r), NEW s, RecordStep(r, s)
    PROVE  LET n == Len(r.attempts)
               m == Len(s.attempts)
           IN  \/ m = n /\ s.retries = r.retries /\ (s.state = "queued" => r.state = "queued")
               \/ m = 0 /\ s.retries = 0
               \/ m = n /\ s.retries = r.retries /\ n < MaxAttempts
               \/ m = n + 1 /\ s.retries = r.retries /\ r.state = "queued" /\ s.state = "running"
               \/ m = n + 1 /\ s.retries = r.retries /\ n < MaxAttempts /\ s.state = "running"
               \/ m = n /\ s.retries = r.retries + 1 /\ s.state = "queued"
  <1>. DEFINE n == Len(r.attempts)
              m == Len(s.attempts)
              Goal == \/ m = n /\ s.retries = r.retries /\ (s.state = "queued" => r.state = "queued")
                      \/ m = 0 /\ s.retries = 0
                      \/ m = n /\ s.retries = r.retries /\ n < MaxAttempts
                      \/ m = n + 1 /\ s.retries = r.retries /\ r.state = "queued" /\ s.state = "running"
                      \/ m = n + 1 /\ s.retries = r.retries /\ n < MaxAttempts /\ s.state = "running"
                      \/ m = n /\ s.retries = r.retries + 1 /\ s.state = "queued"
  <1>0. r.attempts \in Seq(AttemptStatuses) /\ n \in Nat
    BY DEF TaskRecord
  <1>r. ASSUME NEW d \in Delays
        PROVE  LET u == HandleRetryTransition(r, d)
               IN  /\ u \in TaskRecord
                   /\ Len(u.attempts) = n /\ u.retries = r.retries
                   /\ u.state = "queued" => n < MaxAttempts
    <2>1. /\ HandleRetryTransition(r, d).attempts = [r.attempts EXCEPT ![r.current] = "expired"]
          /\ HandleRetryTransition(r, d).retries = r.retries
          /\ HandleRetryTransition(r, d).state = RetryState(n)
      BY DEF HandleRetryTransition, TaskRecord
    <2>2. Len([r.attempts EXCEPT ![r.current] = "expired"]) = n
      BY <1>0, CloseSeq DEF AttemptStatuses
    <2>. QED  BY Zenon, <1>0, <2>1, <2>2, RetryStates, RetryTyped
  <1>c. ASSUME NEW u \in TaskRecord
        PROVE  /\ Len(StartAttempt(u).attempts) = Len(u.attempts) + 1
               /\ StartAttempt(u).retries = u.retries
               /\ StartAttempt(u).state = "running"
    BY LastIn DEF StartAttempt, TaskRecord, AttemptStatuses
  <1>1. ASSUME NEW nb, s = NewRecord(nb) PROVE Goal
    BY Zenon, <1>1 DEF NewRecord
  <1>2. CASE \/ s = r \/ s = Elapse(r) \/ s = [r EXCEPT !.lease = LeaseTimeout]
             \/ s = AwaitingReport(r) \/ \E b \in BOOLEAN : s = [r EXCEPT !.conflict = b]
    <2>1. /\ s.attempts = r.attempts /\ s.retries = r.retries
          /\ s.state = r.state \/ s.state = "awaiting_report"
      BY ZenonT(60), <1>2 DEF Elapse, AwaitingReport, TaskRecord
    <2>. QED  BY <2>1
  <1>3. ASSUME NEW d \in Delays, s = HandleRetryTransition(r, d) PROVE Goal
    <2>1. m = n /\ s.retries = r.retries /\ (s.state = "queued" => n < MaxAttempts)
      BY <1>3, <1>r
    <2>. QED  BY <2>1
  <1>4. CASE IsClaimable(r) /\ s = StartAttempt(r)
    BY <1>4, <1>c DEF IsClaimable
  <1>5. ASSUME NEW d \in Delays, IsClaimable(HandleRetryTransition(r, d)),
               s = StartAttempt(HandleRetryTransition(r, d))
        PROVE  Goal
    <2>. DEFINE u == HandleRetryTransition(r, d)
    <2>1. u \in TaskRecord /\ Len(u.attempts) = n /\ u.retries = r.retries /\ n < MaxAttempts
      BY <1>5, <1>r DEF IsClaimable
    <2>. HIDE DEF u
    <2>2. s = StartAttempt(u)
      BY <1>5 DEF u
    <2>. QED  BY <1>c, <2>1, <2>2
  <1>6. ASSUME NEW c \in Commit, s = Decided(r, c) PROVE Goal
    <2>1. /\ s.attempts = [r.attempts EXCEPT ![r.current] = c.status]
          /\ s.retries = r.retries /\ s.state # "queued"
      BY <1>6 DEF Decided, TaskRecord, Commit
    <2>2. Len([r.attempts EXCEPT ![r.current] = c.status]) = n
      BY <1>0, CloseSeq DEF AttemptStatuses, Commit
    <2>. QED  BY <2>1, <2>2
  <1>7. CASE s = TimedOut(r) \/ s = Cancelled(r)
    <2>1. /\ s.attempts = [r.attempts EXCEPT ![r.current] = "failed"] \/ s.attempts = r.attempts
          /\ s.retries = r.retries
      BY Zenon, <1>7 DEF TimedOut, Cancelled, TaskRecord
    <2>2. s.state # "queued"
      BY Zenon, <1>7, PolicyAssumption DEF TimedOut, TimeoutState, Cancelled, TaskRecord
    <2>3. Len([r.attempts EXCEPT ![r.current] = "failed"]) = n
      BY <1>0, CloseSeq DEF AttemptStatuses
    <2>. QED  BY <2>1, <2>2, <2>3
  <1>8. CASE s = Retried(r)
    BY <1>8 DEF Retried, TaskRecord
  <1>. QED  BY Zenon, <1>1, <1>2, <1>3, <1>4, <1>5, <1>6, <1>7, <1>8
            DEF RecordStep, QuietStep, DecideStep

\* No step takes a record over its retry budget.
LEMMA RecordBudget ==
    ASSUME NEW r \in TaskRecord, OneLive(r), WithinBudget(r), NEW s, RecordStep(r, s)
    PROVE  WithinBudget(s)
  <1>1. s \in TaskRecord
    BY RecordTyped
  <1>2. /\ Len(r.attempts) \in Nat /\ Len(s.attempts) \in Nat
        /\ r.retries \in Nat /\ s.retries \in Nat
    <2>1. ASSUME NEW u \in TaskRecord PROVE Len(u.attempts) \in Nat /\ u.retries \in Nat
      <3>1. u.attempts \in Seq(AttemptStatuses) /\ u.retries \in 0..MaxManualRetry
        BY DEF TaskRecord
      <3>. QED  BY <3>1, BoundAssumption
    <2>. QED  BY <1>1, <2>1
  <1>3. MaxAttempts \in Nat /\ 1 <= MaxAttempts
    BY BoundAssumption
  <1>. DEFINE n == Len(r.attempts)
              m == Len(s.attempts)
  <1>4. /\ n <= MaxAttempts + r.retries
        /\ r.state = "queued" => n < MaxAttempts + r.retries
    BY DEF WithinBudget
  <1>5. SUFFICES /\ m <= MaxAttempts + s.retries
                 /\ s.state = "queued" => m < MaxAttempts + s.retries
    BY DEF WithinBudget
  <1>6. \/ m = n /\ s.retries = r.retries /\ (s.state = "queued" => r.state = "queued")
        \/ m = 0 /\ s.retries = 0
        \/ m = n /\ s.retries = r.retries /\ n < MaxAttempts
        \/ m = n + 1 /\ s.retries = r.retries /\ r.state = "queued" /\ s.state = "running"
        \/ m = n + 1 /\ s.retries = r.retries /\ n < MaxAttempts /\ s.state = "running"
        \/ m = n /\ s.retries = r.retries + 1 /\ s.state = "queued"
    BY RecordCounts
  <1>. HIDE DEF n, m
  <1>7. n \in Nat /\ m \in Nat
    BY <1>2 DEF n, m
  <1>. QED  BY <1>2, <1>3, <1>4, <1>6, <1>7

-----------------------------------------------------------------------------
(* The attempt history and the commits *)

\* A task that is not known yet has no attempts.
Fresh(r) == r.state = "absent" => r.attempts = <<>>

\* The attempts from p to q: closed attempts stay as they are, and no attempt
\* has succeeded that had not before.
Extends(p, q) ==
    /\ \A a \in 1..Len(p) : a \in 1..Len(q) /\ (p[a] # "running" => q[a] = p[a])
    /\ \A a \in 1..Len(q) : q[a] = "succeeded" => a \in 1..Len(p) /\ p[a] = "succeeded"

\* Closing the running attempt without success extends the history.
LEMMA ExtendsClose ==
    ASSUME NEW p \in Seq(AttemptStatuses), NEW i \in Nat, NEW v \in {"expired", "failed"},
           \A a \in 1..Len(p) : p[a] = "running" <=> a = i
    PROVE  Extends(p, [p EXCEPT ![i] = v])
  <1>. DEFINE q == [p EXCEPT ![i] = v]
  <1>1. Len(q) = Len(p)
    BY CloseSeq DEF AttemptStatuses
  <1>2. \A a \in 1..Len(p) : q[a] = IF a = i THEN v ELSE p[a]
    OBVIOUS
  <1>. HIDE DEF q
  <1>3. Extends(p, q)
    BY <1>1, <1>2 DEF Extends
  <1>. QED  BY <1>3 DEF q

\* A claim extends the history.
LEMMA ExtendsAppend ==
    ASSUME NEW p \in Seq(AttemptStatuses)
    PROVE  Extends(p, Append(p, "running"))
  <1>. DEFINE q == Append(p, "running")
  <1>1. /\ Len(p) \in Nat /\ Len(q) = Len(p) + 1
        /\ \A a \in 1..Len(p) : q[a] = p[a]
        /\ q[Len(p) + 1] = "running"
    BY LastIn DEF AttemptStatuses
  <1>. HIDE DEF q
  <1>2. \A a \in 1..Len(q) : a \in 1..Len(p) \/ a = Len(p) + 1
    BY <1>1
  <1>3. \A a \in 1..Len(p) : a \in 1..Len(q)
    BY <1>1
  <1>4. Extends(p, q)
    BY <1>1, <1>2, <1>3 DEF Extends
  <1>. QED  BY <1>4 DEF q

\* Histories that extend each other chain, when no closed attempt runs again.
LEMMA ExtendsTrans ==
    ASSUME NEW p, NEW q, NEW u, Extends(p, q), Extends(q, u),
           \A a \in 1..Len(p) : q[a] # "running" \/ p[a] = "running"
    PROVE  Extends(p, u)
  BY DEF Extends

\* What a step that decides nothing does to the history of a task.
LEMMA QuietHistory ==
    ASSUME NEW r \in TaskRecord, OneLive(r), Fresh(r), NEW s, QuietStep(r, s)
    PROVE  /\ Fresh(s)
           /\ Extends(r.attempts, s.attempts)
           /\ s.state = "succeeded" => r.state = "succeeded"
           /\ r.state = "succeeded" => s.state = "succeeded" /\ s.attempts = r.attempts
  <1>. DEFINE Goal == /\ Fresh(s)
                      /\ Extends(r.attempts, s.attempts)
                      /\ s.state = "succeeded" => r.state = "succeeded"
                      /\ r.state = "succeeded" => s.state = "succeeded" /\ s.attempts = r.attempts
  <1>0. /\ r.attempts \in Seq(AttemptStatuses) /\ r.current \in Nat
        /\ \A a \in 1..Len(r.attempts) : r.attempts[a] = "running" <=> a = r.current
    BY DEF TaskRecord, OneLive
  <1>x. Extends(r.attempts, r.attempts)
    BY Zenon DEF Extends
  <1>s. ASSUME s.attempts = r.attempts, s.state = r.state PROVE Goal
    BY <1>s, <1>x DEF Fresh
  <1>n. ASSUME Extends(r.attempts, s.attempts), r.state # "succeeded", s.state # "succeeded",
               s.state # "absent"
        PROVE  Goal
    BY <1>n DEF Fresh
  <1>1. ASSUME NEW nb, r.state = "absent", s = NewRecord(nb) PROVE Goal
    <2>1. s.attempts = r.attempts /\ s.state = "queued"
      BY Zenon, <1>1 DEF NewRecord, Fresh
    <2>. QED  BY <1>1, <1>n, <1>x, <2>1
  <1>2. CASE \/ s = r \/ s = Elapse(r) \/ s = [r EXCEPT !.lease = LeaseTimeout]
             \/ \E b \in BOOLEAN : s = [r EXCEPT !.conflict = b]
    <2>1. s.attempts = r.attempts /\ s.state = r.state
      BY Zenon, <1>2 DEF Elapse, TaskRecord
    <2>. QED  BY <1>s, <2>1
  <1>r. ASSUME NEW d \in Delays
        PROVE  LET u == HandleRetryTransition(r, d)
               IN  /\ u.attempts = [r.attempts EXCEPT ![r.current] = "expired"]
                   /\ u.attempts \in Seq(AttemptStatuses)
                   /\ Extends(r.attempts, u.attempts)
                   /\ u.state \in {"queued", "failed", "dead_letter"}
    <2>1. /\ HandleRetryTransition(r, d).attempts = [r.attempts EXCEPT ![r.current] = "expired"]
          /\ HandleRetryTransition(r, d).state = RetryState(Len(r.attempts))
      BY DEF HandleRetryTransition, TaskRecord
    <2>2. Extends(r.attempts, [r.attempts EXCEPT ![r.current] = "expired"])
      BY Zenon, <1>0, ExtendsClose
    <2>3. [r.attempts EXCEPT ![r.current] = "expired"] \in Seq(AttemptStatuses)
      BY <1>0, CloseSeq DEF AttemptStatuses
    <2>4. Len(r.attempts) \in Nat
      BY <1>0
    <2>. QED  BY Zenon, <2>1, <2>2, <2>3, <2>4, RetryStates
  <1>3. ASSUME NEW d \in Delays, r.state = "running", s = HandleRetryTransition(r, d) PROVE Goal
    <2>1. Extends(r.attempts, s.attempts) /\ s.state \in {"queued", "failed", "dead_letter"}
      BY Zenon, <1>3, <1>r
    <2>. QED  BY Zenon, <1>3, <1>n, <2>1
  <1>4. CASE IsClaimable(r) /\ s = StartAttempt(r)
    <2>1. s.attempts = Append(r.attempts, "running") /\ s.state = "running"
      BY <1>4 DEF StartAttempt, TaskRecord
    <2>. QED  BY Zenon, <1>0, <1>4, <1>n, <2>1, ExtendsAppend DEF IsClaimable
  <1>5. ASSUME NEW d \in Delays, r.state = "running",
               s = StartAttempt(HandleRetryTransition(r, d))
        PROVE  Goal
    <2>. DEFINE u == HandleRetryTransition(r, d)
    <2>1. u \in TaskRecord
      BY RetryTyped
    <2>2. /\ u.attempts = [r.attempts EXCEPT ![r.current] = "expired"]
          /\ u.attempts \in Seq(AttemptStatuses)
          /\ Extends(r.attempts, u.attempts)
      BY Zenon, <1>r
    <2>. HIDE DEF u
    <2>3. s.attempts = Append(u.attempts, "running") /\ s.state = "running"
      BY <1>5, <2>1 DEF StartAttempt, TaskRecord, u
    <2>4. Extends(u.attempts, s.attempts)
      BY Zenon, <2>2, <2>3, ExtendsAppend
    <2>5. \A a \in 1..Len(r.attempts) : u.attempts[a] # "running"
      BY <1>0, <2>2
    <2>6. Extends(r.attempts, s.attempts)
      BY Zenon, <2>2, <2>4, <2>5, ExtendsTrans
    <2>. QED  BY <1>5, <1>n, <2>3, <2>6
  <1>6. CASE r.state = "running" /\ s = AwaitingReport(r)
    <2>1. s.attempts = r.attempts /\ s.state = "awaiting_report"
      BY <1>6 DEF AwaitingReport, TaskRecord
    <2>. QED  BY <1>6, <1>n, <1>x, <2>1
  <1>7. CASE r.state \in {"queued", "awaiting_report"} /\ s = Cancelled(r)
    <2>1. /\ s.attempts = r.attempts \/ s.attempts = [r.attempts EXCEPT ![r.current] = "failed"]
          /\ s.state = "failed"
      BY <1>7 DEF Cancelled, TaskRecord
    <2>2. Extends(r.attempts, s.attempts)
      BY Zenon, <1>0, <1>x, <2>1, ExtendsClose
    <2>. QED  BY Zenon, <1>7, <1>n, <2>1, <2>2
  <1>8. CASE r.state \in {"failed", "dead_letter"} /\ s = Retried(r)
    <2>1. s.attempts = r.attempts /\ s.state = "queued"
      BY <1>8 DEF Retried, TaskRecord
    <2>. QED  BY <1>8, <1>n, <1>x, <2>1
  <1>. QED  BY <1>1, <1>2, <1>3, <1>4, <1>5, <1>6, <1>7, <1>8 DEF QuietStep

\* What a commit does to the history of a task.
LEMMA DecideHistory ==
    ASSUME NEW r \in TaskRecord, OneLive(r), NEW s, NEW c \in Commit, DecideStep(r, s, c)
    PROVE  /\ r.state \in Live
           /\ s.attempts = [r.attempts EXCEPT ![r.current] = c.status]
           /\ (s.state = "succeeded") <=> (c.status = "succeeded")
           /\ s.state \in Terminal
  <1>1. CASE r.state \in {"running", "awaiting_report"} /\ s = Decided(r, c)
    BY <1>1 DEF Decided, TaskRecord, Live, Commit, Terminal
  <1>2. CASE r.state = "awaiting_report" /\ c = TimeoutCommit /\ s = TimedOut(r)
    <2>1. s.attempts = [r.attempts EXCEPT ![r.current] = "failed"] /\ s.state = TimeoutState
      BY <1>2 DEF TimedOut, TaskRecord
    <2>2. c.status = "failed" /\ TimeoutState \in {"failed", "dead_letter"}
      BY <1>2, PolicyAssumption DEF TimeoutCommit, TimeoutState
    <2>. QED  BY <1>2, <2>1, <2>2 DEF Live, Terminal
  <1>. QED  BY Zenon, <1>1, <1>2 DEF DecideStep

\* CommitsMatchAttempts, of one task.
Matches(t, r, cm) ==
    /\ \A a \in Nat : <<t, a>> \in DOMAIN cm =>
          a \in 1..Len(r.attempts) /\ r.attempts[a] = cm[<<t, a>>].status
    /\ \A a \in 1..Len(r.attempts) : r.attempts[a] = "succeeded" =>
          <<t, a>> \in DOMAIN cm /\ a = Len(r.attempts) /\ r.state = "succeeded"
    /\ r.state = "succeeded" => <<t, Len(r.attempts)>> \in DOMAIN cm

\* CommitsMatchAttempts holds when every task and its commits match.
LEMMA MatchesByTask ==
    ASSUME DOMAIN commits \subseteq Tasks \X Nat
    PROVE  CommitsMatchAttempts <=> \A t \in Tasks : Matches(t, tasks[t], commits)
  <1>1. ASSUME CommitsMatchAttempts, NEW t \in Tasks PROVE Matches(t, tasks[t], commits)
    <2>1. ASSUME NEW a \in Nat, <<t, a>> \in DOMAIN commits
          PROVE  a \in 1..Len(tasks[t].attempts) /\ tasks[t].attempts[a] = commits[<<t, a>>].status
      <3>1. <<t, a>>[1] = t /\ <<t, a>>[2] = a
        OBVIOUS
      <3>. QED  BY <1>1, <2>1, <3>1 DEF CommitsMatchAttempts, Issued
    <2>. QED  BY <1>1, <2>1 DEF CommitsMatchAttempts, Matches, Issued
  <1>2. ASSUME \A t \in Tasks : Matches(t, tasks[t], commits) PROVE CommitsMatchAttempts
    <2>1. ASSUME NEW k \in DOMAIN commits
          PROVE  k[2] \in Issued(k[1]) /\ tasks[k[1]].attempts[k[2]] = commits[k].status
      <3>1. k = <<k[1], k[2]>> /\ k[1] \in Tasks /\ k[2] \in Nat
        OBVIOUS
      <3>. QED  BY Zenon, <1>2, <3>1 DEF Matches, Issued
    <2>. QED  BY Zenon, <1>2, <2>1 DEF CommitsMatchAttempts, Matches, Issued
  <1>. QED  BY Zenon, <1>1, <1>2

\* A step keeps the attempts of a task and its commits in agreement.
LEMMA MatchesStep ==
    ASSUME TypeOK, Next, NEW t \in Tasks, OneLive(tasks[t]), Fresh(tasks[t]),
           Matches(t, tasks[t], commits)
    PROVE  Matches(t, tasks'[t], commits')
  <1>. DEFINE r == tasks[t]
              s == tasks'[t]
              new == DOMAIN commits' \ DOMAIN commits
              cur == <<t, r.current>>
  <1>1. /\ \A k \in DOMAIN commits : /\ k \in DOMAIN commits'
                                     /\ commits'[k] = commits[k]
                                     /\ commits[k].status \in {"succeeded", "failed"}
        /\ \A k \in DOMAIN commits' : k \in DOMAIN commits \/ k \in new
    BY Zenon, CommitsStep DEF TypeOK, Commit
  <1>2. r \in TaskRecord /\ r.attempts \in Seq(AttemptStatuses) /\ Len(r.attempts) \in Nat
    <2>1. r \in TaskRecord /\ r.attempts \in Seq(AttemptStatuses)
      BY Zenon DEF TypeOK, TaskRecord
    <2>. QED  BY <2>1
  <1>3. \A a \in Nat : <<t, a>> \in DOMAIN commits =>
           a \in 1..Len(r.attempts) /\ r.attempts[a] = commits[<<t, a>>].status
    BY Zenon DEF Matches
  <1>4. CASE QuietStep(r, s) /\ \A k \in new : k[1] # t
    <2>1. /\ Extends(r.attempts, s.attempts)
          /\ s.state = "succeeded" => r.state = "succeeded"
          /\ r.state = "succeeded" => s.state = "succeeded" /\ s.attempts = r.attempts
      BY Zenon, <1>2, <1>4, QuietHistory
    <2>2. ASSUME NEW a \in Nat, <<t, a>> \in DOMAIN commits'
          PROVE  a \in 1..Len(s.attempts) /\ s.attempts[a] = commits'[<<t, a>>].status
      <3>1. <<t, a>> \in DOMAIN commits
        BY Zenon, <1>1, <1>4, <2>2
      <3>2. /\ a \in 1..Len(r.attempts) /\ r.attempts[a] = commits[<<t, a>>].status
            /\ commits'[<<t, a>>] = commits[<<t, a>>]
            /\ r.attempts[a] # "running"
        BY Zenon, <1>1, <1>3, <3>1
      <3>. HIDE DEF r, s
      <3>. QED  BY Zenon, <2>1, <3>2 DEF Extends
    <2>3. ASSUME NEW a \in 1..Len(s.attempts), s.attempts[a] = "succeeded"
          PROVE  <<t, a>> \in DOMAIN commits' /\ a = Len(s.attempts) /\ s.state = "succeeded"
      <3>1. a \in 1..Len(r.attempts) /\ r.attempts[a] = "succeeded"
        BY Zenon, <2>1, <2>3 DEF Extends
      <3>2. <<t, a>> \in DOMAIN commits /\ a = Len(r.attempts) /\ r.state = "succeeded"
        BY Zenon, <3>1 DEF Matches
      <3>. QED  BY Zenon, <1>1, <2>1, <3>2
    <2>4. s.state = "succeeded" => <<t, Len(s.attempts)>> \in DOMAIN commits'
      BY Zenon, <1>1, <2>1 DEF Matches
    <2>. QED  BY Zenon, <2>2, <2>3, <2>4 DEF Matches
  <1>5. ASSUME NEW c \in Commit, DecideStep(r, s, c), cur \in DOMAIN commits',
               cur \in new => commits'[cur] = c, \A k \in new : k[1] = t => k = cur
        PROVE  Matches(t, s, commits')
    <2>1. /\ r.state \in Live
          /\ s.attempts = [r.attempts EXCEPT ![r.current] = c.status]
          /\ (s.state = "succeeded") <=> (c.status = "succeeded")
      BY ZenonT(60), <1>2, <1>5, DecideHistory
    <2>2. /\ r.current = Len(r.attempts) /\ r.current \in 1..Len(r.attempts)
          /\ r.attempts[r.current] = "running"
      <3>1. r.current = Len(r.attempts) /\ r.current \in 1..Len(r.attempts)
        BY Zenon, <1>2, <2>1, LiveCurrent
      <3>. QED  BY Zenon, <3>1 DEF OneLive
    <2>3. /\ Len(s.attempts) = Len(r.attempts)
          /\ \A a \in 1..Len(r.attempts) :
                s.attempts[a] = IF a = r.current THEN c.status ELSE r.attempts[a]
      <3>1. c.status \in AttemptStatuses
        BY Zenon DEF Commit, AttemptStatuses
      <3>2. Len([r.attempts EXCEPT ![r.current] = c.status]) = Len(r.attempts)
        BY <1>2, <3>1, CloseSeq
      <3>. QED  BY <1>2, <2>1, <3>2
    <2>4. cur \notin DOMAIN commits
      BY Zenon, <1>1, <1>2, <1>3, <2>2
    <2>5. commits'[cur] = c
      BY Zenon, <1>5, <2>4
    <2>6. r.state # "succeeded" /\ \A a \in 1..Len(r.attempts) : r.attempts[a] # "succeeded"
      BY Zenon, <2>1 DEF Matches, Live
    <2>. HIDE DEF r, s
    <2>7. ASSUME NEW a \in Nat, <<t, a>> \in DOMAIN commits'
          PROVE  a \in 1..Len(s.attempts) /\ s.attempts[a] = commits'[<<t, a>>].status
      <3>1. CASE <<t, a>> = cur
        BY Zenon, <2>2, <2>3, <2>5, <3>1
      <3>2. CASE <<t, a>> \in DOMAIN commits
        BY Zenon, <1>1, <1>3, <2>2, <2>3, <2>4, <3>2
      <3>. QED  BY Zenon, <1>1, <1>5, <2>7, <3>1, <3>2
    <2>8. ASSUME NEW a \in 1..Len(s.attempts), s.attempts[a] = "succeeded"
          PROVE  <<t, a>> \in DOMAIN commits' /\ a = Len(s.attempts) /\ s.state = "succeeded"
      BY Zenon, <1>5, <2>1, <2>2, <2>3, <2>6, <2>8
    <2>9. s.state = "succeeded" => <<t, Len(s.attempts)>> \in DOMAIN commits'
      BY Zenon, <1>5, <2>2, <2>3
    <2>. QED  BY Zenon, <2>7, <2>8, <2>9 DEF Matches
  <1>6. TaskStep(t)
    BY StepByTask
  <1>. QED  BY Zenon, <1>4, <1>5, <1>6 DEF TaskStep

-----------------------------------------------------------------------------
(* The resolution source *)

\* SourceTellsTheTruth, of one task.
Truthful(t, r, cm) ==
    LET last == <<t, Len(r.attempts)>>
    IN  /\ r.source # "" => r.state \in Terminal
        /\ r.source \in AsyncSources \cup {"timeout"} =>
              last \in DOMAIN cm /\ cm[last].source = r.source
        /\ r.source = "manual_cancel" => r.state = "failed"

\* What a step that decides nothing does to the resolution source.
LEMMA QuietSource ==
    ASSUME NEW r \in TaskRecord, r.source # "" => r.state \in Terminal,
           NEW s, QuietStep(r, s)
    PROVE  \/ s.source = ""
           \/ s.source = r.source /\ s.state = r.state /\ s.attempts = r.attempts
           \/ s.source = "manual_cancel" /\ s.state = "failed"
  <1>. DEFINE Goal == \/ s.source = ""
                      \/ s.source = r.source /\ s.state = r.state /\ s.attempts = r.attempts
                      \/ s.source = "manual_cancel" /\ s.state = "failed"
  <1>1. ASSUME NEW nb, s = NewRecord(nb) PROVE Goal
    BY Zenon, <1>1 DEF NewRecord
  <1>2. CASE \/ s = r \/ s = Elapse(r) \/ s = [r EXCEPT !.lease = LeaseTimeout]
             \/ \E b \in BOOLEAN : s = [r EXCEPT !.conflict = b]
    BY Zenon, <1>2 DEF Elapse, TaskRecord
  <1>3. ASSUME NEW d, r.state = "running", s = HandleRetryTransition(r, d) PROVE Goal
    BY Zenon, <1>3 DEF HandleRetryTransition, TaskRecord, Terminal
  <1>4. CASE IsClaimable(r) /\ s = StartAttempt(r)
    BY Zenon, <1>4 DEF StartAttempt, IsClaimable, TaskRecord, Terminal
  <1>5. ASSUME NEW d \in Delays, r.state = "running",
               s = StartAttempt(HandleRetryTransition(r, d))
        PROVE  Goal
    <2>. DEFINE u == HandleRetryTransition(r, d)
    <2>1. u \in TaskRecord
      BY Zenon, RetryTyped
    <2>2. u.source = ""
      BY Zenon, <1>5 DEF HandleRetryTransition, TaskRecord, Terminal
    <2>. HIDE DEF u
    <2>3. s = StartAttempt(u)
      BY Zenon, <1>5 DEF u
    <2>. QED  BY Zenon, <2>1, <2>2, <2>3 DEF StartAttempt, TaskRecord
  <1>6. CASE s = AwaitingReport(r) \/ s = Cancelled(r) \/ s = Retried(r)
    BY Zenon, <1>6 DEF AwaitingReport, Cancelled, Retried, TaskRecord
  <1>. QED  BY Zenon, <1>1, <1>2, <1>3, <1>4, <1>5, <1>6 DEF QuietStep

\* A step keeps the resolution source of a task truthful.
LEMMA TruthfulStep ==
    ASSUME TypeOK, Next, NEW t \in Tasks, OneLive(tasks[t]), Matches(t, tasks[t], commits),
           Truthful(t, tasks[t], commits)
    PROVE  Truthful(t, tasks'[t], commits')
  <1>. DEFINE r == tasks[t]
              s == tasks'[t]
              new == DOMAIN commits' \ DOMAIN commits
              cur == <<t, r.current>>
  <1>1. r \in TaskRecord
    BY Zenon DEF TypeOK
  <1>2. CASE QuietStep(r, s)
    <2>1. \A k \in DOMAIN commits : k \in DOMAIN commits' /\ commits'[k] = commits[k]
      BY Zenon, CommitsStep
    <2>2. \/ s.source = ""
          \/ s.source = r.source /\ s.state = r.state /\ s.attempts = r.attempts
          \/ s.source = "manual_cancel" /\ s.state = "failed"
      BY Zenon, <1>1, <1>2, QuietSource DEF Truthful
    <2>. QED  BY Zenon, <2>1, <2>2 DEF Truthful, AsyncSources, Terminal
  <1>3. ASSUME NEW c \in Commit, DecideStep(r, s, c), cur \in DOMAIN commits',
               cur \in new => commits'[cur] = c
        PROVE  Truthful(t, s, commits')
    <2>1. /\ r.state \in Live
          /\ s.attempts = [r.attempts EXCEPT ![r.current] = c.status]
          /\ s.state \in Terminal
      BY Zenon, <1>1, <1>3, DecideHistory
    <2>2. /\ r.attempts \in Seq(AttemptStatuses)
          /\ r.current = Len(r.attempts) /\ r.current \in 1..Len(r.attempts)
      BY Zenon, <1>1, <2>1, LiveCurrent
    <2>3. r.attempts[r.current] = "running" /\ r.current \in Nat
      BY <2>2 DEF OneLive
    <2>4. cur \notin DOMAIN commits
      <3>1. ASSUME cur \in DOMAIN commits PROVE FALSE
        <4>1. commits[cur].status = "running"
          BY Zenon, <2>3, <3>1 DEF Matches
        <4>. QED  BY Zenon, <3>1, <4>1 DEF TypeOK, Commit
      <3>. QED  BY <3>1
    <2>5. commits'[cur] = c
      BY Zenon, <1>3, <2>4
    <2>6. <<t, Len(s.attempts)>> = cur
      <3>1. c.status \in AttemptStatuses
        BY DEF Commit, AttemptStatuses
      <3>. QED  BY <2>1, <2>2, <3>1, CloseSeq
    <2>7. r.source = ""
      BY Zenon, <2>1 DEF Truthful, Live, Terminal
    <2>8. s.source = c.source /\ c.source # "manual_cancel"
      <3>1. CASE s = Decided(r, c) /\ c.source \in AsyncSources \cup {""}
        BY Zenon, <1>1, <2>7, <3>1 DEF Decided, TaskRecord, AsyncSources
      <3>2. CASE c = TimeoutCommit /\ s = TimedOut(r)
        BY Zenon, <1>1, <3>2 DEF TimedOut, TimeoutCommit, TaskRecord
      <3>. QED  BY Zenon, <1>3, <3>1, <3>2 DEF DecideStep
    <2>. HIDE DEF r, s, cur
    <2>. QED  BY Zenon, <1>3, <2>1, <2>5, <2>6, <2>8 DEF Truthful
  <1>4. TaskStep(t)
    BY StepByTask
  <1>. QED  BY Zenon, <1>2, <1>3, <1>4 DEF TaskStep

-----------------------------------------------------------------------------
(* The invariant *)

\* Each conjunct is needed by the ones after it: the steps of records are
\* known for typed ones, the place of a live attempt settles what a commit may
\* rewrite, and the sources rest on the commits.
IInv ==
    /\ TypeOK
    /\ NoLostTask
    /\ OneLiveAttempt
    /\ RetryBudget
    /\ \A t \in Tasks : Fresh(tasks[t])
    /\ CommitsMatchAttempts
    /\ SourceTellsTheTruth

\* A scheduler that newSchedulerState made satisfies the invariant.
LEMMA InitInv == Init => IInv
  <1>. SUFFICES ASSUME Init PROVE IInv
    OBVIOUS
  <1>1. \A t \in Tasks : tasks[t] = Absent
    BY Zenon DEF Init
  <1>2. /\ Absent.state = "absent" /\ Absent.attempts = <<>> /\ Absent.current = 0
        /\ Absent.source = "" /\ Absent.retries = 0
    BY DEF Absent, NewRecord
  <1>3. Len(<<>>) = 0 /\ 1..0 = {}
    OBVIOUS
  <1>4. TypeOK
    <2>1. tasks \in [Tasks -> TaskRecord]
      BY Zenon, NewTyped DEF Init
    <2>2. 0 \in 0..FairnessMax
      BY BoundAssumption
    <2>3. <<>> \in Seq(Tasks) /\ <<>> \in Seq(Tasks \X Nat) /\ DOMAIN <<>> = {}
      BY <1>3
    <2>. QED  BY Zenon, <2>1, <2>2, <2>3 DEF Init, TypeOK
  <1>5. NoLostTask
    BY Zenon, <1>1, <1>2 DEF NoLostTask
  <1>6. OneLiveAttempt
    BY Zenon, <1>1, <1>2, <1>3 DEF OneLiveAttempt, OneLive
  <1>7. RetryBudget
    <2>1. 0 <= MaxAttempts + 0
      BY BoundAssumption
    <2>2. WithinBudget(Absent)
      BY <1>2, <1>3, <2>1, Zenon DEF WithinBudget
    <2>. QED  BY <1>1, <2>2 DEF RetryBudget
  <1>8. \A t \in Tasks : Fresh(tasks[t])
    BY Zenon, <1>1, <1>2 DEF Fresh
  <1>9. CommitsMatchAttempts
    <2>1. DOMAIN <<>> = {}
      OBVIOUS
    <2>. QED  BY Zenon, <1>1, <1>2, <1>3, <2>1 DEF Init, CommitsMatchAttempts, Issued
  <1>10. SourceTellsTheTruth
    BY Zenon, <1>1, <1>2 DEF SourceTellsTheTruth, AsyncSources
  <1>. QED  BY <1>4, <1>5, <1>6, <1>7, <1>8, <1>9, <1>10 DEF IInv

\* Every operation, reconcile step and unit of time preserves the invariant.
LEMMA NextInv == IInv /\ [Next]_vars => IInv'
  <1>. SUFFICES ASSUME IInv, [Next]_vars PROVE IInv'
    OBVIOUS
  <1>1. (TypeOK /\ NoLostTask)'
    BY TypeStep DEF IInv
  <1>2. CASE Next
    <2>1. ASSUME NEW t \in Tasks
          PROVE  /\ tasks[t] \in TaskRecord /\ OneLive(tasks[t]) /\ Fresh(tasks[t])
                 /\ WithinBudget(tasks[t])
                 /\ Matches(t, tasks[t], commits) /\ Truthful(t, tasks[t], commits)
                 /\ RecordStep(tasks[t], tasks'[t])
      <3>1. Matches(t, tasks[t], commits)
        BY Zenon, MatchesByTask DEF IInv, TypeOK
      <3>2. Truthful(t, tasks[t], commits)
        BY Zenon DEF IInv, SourceTellsTheTruth, Truthful
      <3>3. RecordStep(tasks[t], tasks'[t])
        BY Zenon, <1>2, StepByTask DEF IInv, TaskStep, RecordStep
      <3>. QED  BY Zenon, <3>1, <3>2, <3>3 DEF IInv, TypeOK, OneLiveAttempt, RetryBudget
    <2>2. OneLiveAttempt'
      BY Zenon, <2>1, RecordLive DEF OneLiveAttempt
    <2>3. RetryBudget'
      BY Zenon, <2>1, RecordBudget DEF RetryBudget
    <2>4. ASSUME NEW t \in Tasks PROVE Fresh(tasks'[t])
      <3>1. CASE QuietStep(tasks[t], tasks'[t])
        BY Zenon, <2>1, <3>1, QuietHistory
      <3>2. ASSUME NEW c \in Commit, DecideStep(tasks[t], tasks'[t], c) PROVE Fresh(tasks'[t])
        BY Zenon, <2>1, <3>2, DecideHistory DEF Fresh, Terminal
      <3>. QED  BY Zenon, <2>1, <3>1, <3>2 DEF RecordStep
    <2>5. CommitsMatchAttempts'
      <3>1. \A t \in Tasks : Matches(t, tasks'[t], commits')
        BY Zenon, <1>2, <2>1, MatchesStep DEF IInv
      <3>2. (DOMAIN commits \subseteq Tasks \X Nat)'
        BY Zenon, <1>1 DEF TypeOK
      <3>3. (\A t \in Tasks : Matches(t, tasks[t], commits))' => CommitsMatchAttempts'
        BY <3>2, MatchesByTask, PTL
      <3>. QED  BY Zenon, <3>1, <3>3
    <2>6. SourceTellsTheTruth'
      <3>1. \A t \in Tasks : Truthful(t, tasks'[t], commits')
        BY Zenon, <1>2, <2>1, TruthfulStep DEF IInv
      <3>. QED  BY Zenon, <3>1 DEF SourceTellsTheTruth, Truthful
    <2>. QED  BY <1>1, <2>2, <2>3, <2>4, <2>5, <2>6 DEF IInv
  <1>3. CASE UNCHANGED vars
    <2>1. tasks' = tasks /\ commits' = commits
      BY <1>3 DEF vars, state
    <2>. QED  BY Zenon, <1>1, <2>1
              DEF IInv, OneLiveAttempt, RetryBudget, CommitsMatchAttempts, Issued,
                  SourceTellsTheTruth
  <1>. QED  BY <1>2, <1>3

\* The invariant holds in every state the scheduler reaches.
LEMMA Invariance == Spec => []IInv
  BY InitInv, NextInv, PTL DEF Spec

\* The state keeps its types, for any tasks, policy and bounds.
THEOREM TypeCorrect == Spec => []TypeOK
  BY Invariance, PTL DEF IInv

\* At any time a task has at most one live attempt, the newest.
THEOREM OneWorkerPerTask == Spec => []OneLiveAttempt
  BY Invariance, PTL DEF IInv

\* A queued task never drops out of the queue.
THEOREM QueuedTasksAreFound == Spec => []NoLostTask
  BY Invariance, PTL DEF IInv

\* Attempts stay within MaxAttempts and the manual retries.
THEOREM AttemptsAreBounded == Spec => []RetryBudget
  BY Invariance, PTL DEF IInv

\* Commits and attempt histories agree.
THEOREM HistoryIsTrue == Spec => []CommitsMatchAttempts
  BY Invariance, PTL DEF IInv

\* The resolution source names the call that decided the task.
THEOREM SourceIsTrue == Spec => []SourceTellsTheTruth
  BY Invariance, PTL DEF IInv

\* A terminal commit, once recorded, is never replaced or dropped.
THEOREM FirstCommitStands == Spec => FirstTerminalWins
  <1>1. IInv /\ [Next]_vars =>
          [\A k \in DOMAIN commits : k \in DOMAIN commits' /\ commits'[k] = commits[k]]_vars
    BY Zenon, CommitsStep DEF IInv
  <1>. QED  BY <1>1, Invariance, PTL DEF Spec, FirstTerminalWins

-----------------------------------------------------------------------------
(* Refinement *)

\* Every way to treat a record is a move of TaskLifecycle, or none.
LEMMA RecordMoves ==
    ASSUME NEW r \in TaskRecord, OneLive(r), Fresh(r), NEW s, RecordStep(r, s)
    PROVE  Life(s) = Life(r) \/ Lifecycle!Move(Life(r), Life(s))
  <1>. DEFINE Goal == Life(s) = Life(r) \/ Lifecycle!Move(Life(r), Life(s))
  <1>s. ASSUME s.attempts = r.attempts, Phase(s.state) = Phase(r.state) PROVE Goal
    BY Zenon, <1>s DEF Life
  <1>p. /\ Phase("absent") = "absent" /\ Phase("queued") = "open"
        /\ Phase("running") = "granted" /\ Phase("awaiting_report") = "granted"
        /\ Phase("succeeded") = "done" /\ Phase("failed") = "dead" /\ Phase("dead_letter") = "dead"
    BY DEF Phase
  <1>c. ASSUME r.state \in Live
        PROVE  /\ Phase(r.state) = "granted"
               /\ \A v : [r.attempts EXCEPT ![r.current] = v] = Lifecycle!Close(r.attempts, v)
    <2>1. r.current = Len(r.attempts)
      BY Zenon, SMTT(30), <1>c, LiveCurrent
    <2>. QED  BY Zenon, <1>c, <1>p, <2>1 DEF Live, Lifecycle!Close
  <1>e. ASSUME r.state \in Live, NEW v \in {"failed", "expired"},
               s.attempts = Lifecycle!Close(r.attempts, v), Phase(s.state) = "dead"
        PROVE  Goal
    BY Zenon, SMTT(30), <1>c, <1>e DEF Life, Lifecycle!Move, Lifecycle!Settle
  <1>1. ASSUME NEW nb, r.state = "absent", s = NewRecord(nb) PROVE Goal
    <2>1. s.attempts = <<>> /\ s.state = "queued"
      BY Zenon, <1>1 DEF NewRecord
    <2>. QED  BY Zenon, <1>1, <1>p, <2>1 DEF Life, Lifecycle!Move, Lifecycle!Admit
  <1>2. CASE \/ s = r \/ s = Elapse(r) \/ s = [r EXCEPT !.lease = LeaseTimeout]
             \/ \E b \in BOOLEAN : s = [r EXCEPT !.conflict = b]
    <2>1. s.attempts = r.attempts /\ s.state = r.state
      BY Zenon, <1>2 DEF Elapse, TaskRecord
    <2>. QED  BY Zenon, SMTT(30), <1>s, <2>1
  <1>r. ASSUME NEW d \in Delays, r.state = "running"
        PROVE  LET u == HandleRetryTransition(r, d)
               IN  /\ u.attempts = Lifecycle!Close(r.attempts, "expired")
                   /\ Phase(u.state) \in {"open", "dead"}
    <2>1. /\ HandleRetryTransition(r, d).attempts = [r.attempts EXCEPT ![r.current] = "expired"]
          /\ HandleRetryTransition(r, d).state = RetryState(Len(r.attempts))
      BY Zenon DEF HandleRetryTransition, TaskRecord
    <2>2. Len(r.attempts) \in Nat
      BY DEF TaskRecord
    <2>3. Phase(RetryState(Len(r.attempts))) \in {"open", "dead"}
      BY <1>p, <2>2, RetryStates
    <2>. QED  BY <1>c, <1>r, <2>1, <2>3 DEF Live
  <1>3. ASSUME NEW d \in Delays, r.state = "running", s = HandleRetryTransition(r, d) PROVE Goal
    <2>1. s.attempts = Lifecycle!Close(r.attempts, "expired") /\ Phase(s.state) \in {"open", "dead"}
      BY Zenon, SMTT(30), <1>3, <1>r
    <2>. QED  BY Zenon, <1>3, <1>p, <2>1 DEF Life, Lifecycle!Move, Lifecycle!Settle
  <1>4. CASE IsClaimable(r) /\ s = StartAttempt(r)
    <2>1. s.attempts = Append(r.attempts, "running") /\ s.state = "running" /\ r.state = "queued"
      BY <1>4 DEF StartAttempt, IsClaimable, TaskRecord
    <2>. QED  BY Zenon, <1>p, <2>1 DEF Life, Lifecycle!Move, Lifecycle!Grant
  <1>5. ASSUME NEW d \in Delays, r.state = "running",
               s = StartAttempt(HandleRetryTransition(r, d))
        PROVE  Goal
    <2>. DEFINE u == HandleRetryTransition(r, d)
    <2>1. u \in TaskRecord /\ u.attempts = Lifecycle!Close(r.attempts, "expired")
      BY Zenon, <1>5, <1>r, RetryTyped
    <2>. HIDE DEF u
    <2>2. s.attempts = Append(u.attempts, "running") /\ s.state = "running"
      BY <1>5, <2>1 DEF StartAttempt, TaskRecord, u
    <2>. QED  BY Zenon, <1>5, <1>p, <2>1, <2>2 DEF Life, Lifecycle!Move, Lifecycle!Regrant
  <1>6. CASE r.state = "running" /\ s = AwaitingReport(r)
    <2>1. s.attempts = r.attempts /\ s.state = "awaiting_report"
      BY <1>6 DEF AwaitingReport, TaskRecord
    <2>. QED  BY Zenon, <1>6, <1>p, <1>s, <2>1
  <1>7. CASE r.state = "queued" /\ s = Cancelled(r)
    <2>1. r.current = 0
      BY Zenon, <1>7 DEF OneLive
    <2>2. s.attempts = r.attempts /\ s.state = "failed"
      BY Zenon, <1>7, <2>1 DEF Cancelled, TaskRecord
    <2>. QED  BY <1>7, <1>p, <2>2 DEF Life, Lifecycle!Move, Lifecycle!Withdraw
  <1>8. CASE r.state = "awaiting_report" /\ s = Cancelled(r)
    <2>1. r.current # 0
      BY <1>8 DEF OneLive
    <2>2. s.attempts = [r.attempts EXCEPT ![r.current] = "failed"] /\ s.state = "failed"
      BY <1>8, <2>1 DEF Cancelled, TaskRecord
    <2>. QED  BY Zenon, <1>8, <1>c, <1>e, <1>p, <2>2 DEF Live
  <1>9. CASE r.state \in {"failed", "dead_letter"} /\ s = Retried(r)
    <2>1. s.attempts = r.attempts /\ s.state = "queued"
      BY <1>9 DEF Retried, TaskRecord
    <2>. QED  BY <1>9, <1>p, <2>1 DEF Life, Lifecycle!Move, Lifecycle!Reopen
  <1>10. ASSUME NEW c \in Commit, DecideStep(r, s, c) PROVE Goal
    <2>1. /\ r.state \in Live
          /\ s.attempts = Lifecycle!Close(r.attempts, c.status)
          /\ (s.state = "succeeded") <=> (c.status = "succeeded")
          /\ s.state \in Terminal
      BY Zenon, <1>10, <1>c, DecideHistory
    <2>2. CASE c.status = "succeeded"
      BY Zenon, <1>c, <1>p, <2>1, <2>2 DEF Life, Lifecycle!Move, Lifecycle!Settle
    <2>3. CASE c.status = "failed"
      BY Zenon, <1>e, <1>p, <2>1, <2>3 DEF Terminal
    <2>. QED  BY <2>2, <2>3 DEF Commit
  <1>. QED  BY Zenon, <1>1, <1>2, <1>3, <1>4, <1>5, <1>6, <1>7, <1>8, <1>9, <1>10
            DEF RecordStep, QuietStep

\* Every behaviour of the scheduler is one that TaskLifecycle allows.
THEOREM SchedulerRefines == Spec => ImplementsLifecycle
  <1>1. Init => Lifecycle!Init
    <2>1. Life(Absent) = [phase |-> "absent", grants |-> <<>>]
      BY DEF Life, Absent, NewRecord, Phase
    <2>. QED  BY Zenon, <2>1 DEF Init, Lifecycle!Init, lifeBar
  <1>2. IInv /\ [Next]_vars => [Lifecycle!Next]_lifeBar
    <2>. SUFFICES ASSUME IInv, [Next]_vars PROVE [Lifecycle!Next]_lifeBar
      BY Zenon
    <2>1. CASE Next
      <3>1. ASSUME NEW t \in Tasks
            PROVE  Life(tasks'[t]) = Life(tasks[t]) \/ Lifecycle!Move(Life(tasks[t]), Life(tasks'[t]))
        <4>1. RecordStep(tasks[t], tasks'[t])
          BY Zenon, <2>1, StepByTask DEF IInv, TaskStep, RecordStep
        <4>. QED  BY Zenon, <4>1, RecordMoves DEF IInv, TypeOK, OneLiveAttempt
      <3>. QED  BY Zenon, <3>1 DEF Lifecycle!Next, lifeBar
    <2>2. CASE UNCHANGED vars
      BY <2>2 DEF vars, state, lifeBar
    <2>. QED  BY <2>1, <2>2
  <1>. QED  BY <1>1, <1>2, Invariance, PTL DEF Spec, ImplementsLifecycle, Lifecycle!Spec

-----------------------------------------------------------------------------
(* The fairness window of the claim order *)

\* Among priorities that wait there is a most urgent one.
LEMMA MostUrgentWaits ==
    ASSUME NEW P \in SUBSET Priorities, P # {}
    PROVE  MostUrgent(P) \in P
  <1>1. PriorityOrder["high"] = 1 /\ PriorityOrder["normal"] = 2 /\ PriorityOrder["low"] = 3
    BY DEF PriorityOrder
  <1>2. \E p \in P : \A o \in P : PriorityOrder[p] <= PriorityOrder[o]
    <2>1. CASE "high" \in P
      BY <1>1, <2>1 DEF Priorities
    <2>2. CASE "high" \notin P /\ "normal" \in P
      BY <1>1, <2>2 DEF Priorities
    <2>3. CASE "high" \notin P /\ "normal" \notin P
      <3>1. \A p \in P : p = "low"
        BY Zenon, <2>3 DEF Priorities
      <3>2. "low" \in P
        BY Zenon, <3>1
      <3>. QED  BY <1>1, <3>1, <3>2
    <2>. QED  BY Zenon, <2>1, <2>2, <2>3
  <1>. QED  BY <1>2 DEF MostUrgent

\* A priority that has had FairnessMax claims in a row is not selected while
\* an entry of another one can be claimed.
LEMMA TurnIsGivenUp ==
    ASSUME NEW tk, NEW q \in Seq(Tasks), NEW o \in Waiting(tk, q),
           o # lastPriority, lastConsecutive >= FairnessMax
    PROVE  SelectedPriority(tk, q) # lastPriority
  <1>. DEFINE w     == Waiting(tk, q)
              first == MostUrgent(w)
  <1>1. w \in SUBSET Priorities /\ w # {}
    <2>1. ASSUME NEW i \in Eligible(tk, q) PROVE PriorityOf[q[i]] \in Priorities
      BY PolicyAssumption DEF Eligible
    <2>. QED  BY Zenon, <2>1 DEF Waiting
  <1>2. SelectedPriority(tk, q) =
           IF w # {first} /\ lastPriority = first /\ lastConsecutive >= FairnessMax
           THEN MostUrgent(w \ {first}) ELSE first
    BY Zenon DEF SelectedPriority
  <1>3. o \in w
    OBVIOUS
  <1>. HIDE DEF w
  <1>4. CASE lastPriority = first
    <2>1. w \ {first} \in SUBSET Priorities /\ w \ {first} # {} /\ w # {first}
      <3>1. o # first
        BY Zenon, <1>4
      <3>. HIDE DEF first
      <3>. QED  BY <1>1, <1>3, <3>1
    <2>2. MostUrgent(w \ {first}) \in w \ {first}
      BY Zenon, <2>1, MostUrgentWaits
    <2>. QED  BY Zenon, <1>2, <1>4, <2>1, <2>2
  <1>5. CASE lastPriority # first
    BY Zenon, <1>2, <1>5
  <1>. QED  BY Zenon, <1>4, <1>5

\* An expired or requeued record has as many attempts as before, a claimed one
\* has one more.
LEMMA AttemptsAfter ==
    ASSUME NEW r \in TaskRecord
    PROVE  /\ \A d \in Delays : Len(HandleRetryTransition(r, d).attempts) = Len(r.attempts)
           /\ Len(StartAttempt(r).attempts) = Len(r.attempts) + 1
  <1>1. r.attempts \in Seq(AttemptStatuses)
    BY DEF TaskRecord
  <1>2. ASSUME NEW d \in Delays PROVE Len(HandleRetryTransition(r, d).attempts) = Len(r.attempts)
    <2>1. HandleRetryTransition(r, d).attempts = [r.attempts EXCEPT ![r.current] = "expired"]
      BY Zenon DEF HandleRetryTransition, TaskRecord
    <2>. QED  BY <1>1, <2>1, CloseSeq DEF AttemptStatuses
  <1>3. StartAttempt(r).attempts = Append(r.attempts, "running")
    BY Zenon DEF StartAttempt, TaskRecord
  <1>. QED  BY <1>1, <1>2, <1>3, LastIn DEF AttemptStatuses

\* Only a claim starts an attempt: any other step that leaves a task running
\* leaves its attempts alone.
LEMMA OnlyClaimsStart ==
    ASSUME TypeOK, Next, ~ClaimTask, NEW t \in Tasks, tasks'[t].state = "running"
    PROVE  tasks'[t].attempts = tasks[t].attempts
  <1>. DEFINE Goal == tasks'[t].attempts = tasks[t].attempts
  <1>0. DOMAIN tasks = Tasks /\ \A u \in Tasks : tasks[u] \in TaskRecord
    BY Zenon DEF TypeOK
  <1>d. ASSUME NEW u \in Tasks, NEW a, NEW c \in Commit, ApplyTerminalCommit(u, a, c) PROVE Goal
    <2>1. Decided(tasks[u], c).state # "running"
      BY <1>0 DEF Decided, Commit, TaskRecord
    <2>. QED  BY Zenon, <1>0, <1>d, <2>1 DEF ApplyTerminalCommit
  <1>1. ASSUME NEW u \in Tasks, NEW nb, Enqueue(u, nb) PROVE Goal
    <2>1. NewRecord(nb).state # "running"
      BY DEF NewRecord
    <2>. QED  BY Zenon, <1>0, <1>1, <2>1 DEF Enqueue
  <1>2. ASSUME NEW u \in Tasks, WorkerCall(u) PROVE Goal
    <2>1. ASSUME NEW a, Heartbeat(u, a) PROVE Goal
      BY <1>0, <2>1 DEF Heartbeat, TaskRecord
    <2>2. ASSUME NEW a, MarkAwaitingReport(u, a) PROVE Goal
      <3>1. AwaitingReport(tasks[u]).state # "running"
        BY <1>0 DEF AwaitingReport, TaskRecord
      <3>. QED  BY Zenon, <1>0, <2>2, <3>1 DEF MarkAwaitingReport
    <2>3. Outcome("") \subseteq Commit
      BY Zenon DEF Outcome, Commit, Sources
    <2>. QED  BY Zenon, <1>2, <1>d, <2>1, <2>2, <2>3 DEF WorkerCall, CommitTerminal
  <1>3. ASSUME NEW u \in Tasks, NEW a, NEW c \in Commit, NEW bound,
               CommitAsyncReportTerminal(u, a, c, bound)
        PROVE  Goal
    <2>1. CASE RecordDuplicateReport(u, a, c)
      BY <1>0, <2>1 DEF RecordDuplicateReport, TaskRecord
    <2>. QED  BY Zenon, <1>3, <1>d, <2>1 DEF CommitAsyncReportTerminal
  <1>4. ASSUME NEW u \in Tasks, RemoteCall(u) PROVE Goal
    <2>1. Outcome("callback") \subseteq Commit
      BY Zenon DEF Outcome, Commit, Sources, AsyncSources
    <2>. QED  BY Zenon, <1>3, <1>4, <2>1 DEF RemoteCall, AsyncReport
  <1>5. ASSUME NEW u \in Tasks, ControlCall(u) PROVE Goal
    <2>1. Cancelled(tasks[u]).state # "running" /\ Retried(tasks[u]).state # "running"
      BY <1>0 DEF Cancelled, Retried, TaskRecord
    <2>. QED  BY Zenon, <1>0, <1>5, <2>1 DEF ControlCall, ManualCancel, ManualRetry
  <1>r. ASSUME NEW u \in Tasks, NEW d PROVE HandleRetryTransition(tasks[u], d).state # "running"
    <2>1. RetryState(Len(tasks[u].attempts)) # "running"
      <3>1. tasks[u].attempts \in Seq(AttemptStatuses)
        BY Zenon, <1>0 DEF TaskRecord
      <3>2. Len(tasks[u].attempts) \in Nat
        BY <3>1
      <3>. QED  BY <3>2, RetryStates
    <2>2. HandleRetryTransition(tasks[u], d).state = RetryState(Len(tasks[u].attempts))
      BY Zenon, <1>0 DEF HandleRetryTransition, TaskRecord
    <2>. QED  BY Zenon, <2>1, <2>2
  <1>6. ASSUME NEW u \in Tasks, Requeue(u) PROVE Goal
    BY Zenon, <1>0, <1>6, <1>r DEF Requeue
  <1>7. CASE ClaimNone \/ ExpireLeasesCall
    <2>1. PICK delay \in ExpiryDelays, requeued \in ExpiryRequeues : tasks' = ExpireLeases(delay)
      BY Zenon, <1>7 DEF ClaimNone, ExpireLeasesCall
    <2>2. \/ tasks'[t] = tasks[t]
          \/ \E d \in Delays : tasks'[t] = HandleRetryTransition(tasks[t], d)
      BY Zenon, <2>1, ExpiryByRecord
    <2>. QED  BY Zenon, <1>r, <2>2
  <1>8. CASE ExpireAwaitingReports
    <2>1. TimedOut(tasks[t]).state # "running"
      BY <1>0, PolicyAssumption DEF TimedOut, TimeoutState, TaskRecord
    <2>. QED  BY Zenon, <1>8, <2>1 DEF ExpireAwaitingReports
  <1>9. ASSUME NEW c \in Outcome("reconcile_poll"), ReconcileCommit(c) PROVE Goal
    <2>1. c \in Commit
      BY Zenon DEF Outcome, Commit, Sources, AsyncSources
    <2>2. Head(polls)[1] \in Tasks
      <3>1. Head(polls) \in Tasks \X Nat
        BY Zenon, <1>9, FirstOut DEF ReconcileCommit, TypeOK
      <3>. QED  BY <3>1
    <2>. QED  BY Zenon, <1>3, <1>9, <2>1, <2>2 DEF ReconcileCommit
  <1>10. CASE ReconcileList \/ ReconcileSkip
    BY Zenon, <1>10 DEF ReconcileList, ReconcileSkip, state
  <1>11. CASE Tick
    BY Zenon, <1>0, <1>11 DEF Tick, Elapse, TaskRecord
  <1>. QED  BY Zenon, <1>1, <1>2, <1>4, <1>5, <1>6, <1>7, <1>8, <1>9, <1>10, <1>11
            DEF Next, Operation

\* The counter of claims in a row is a number.
LEMMA CounterTyped ==
    ASSUME TypeOK PROVE lastConsecutive \in Nat /\ FairnessMax \in Nat
  <1>1. lastConsecutive \in 0..FairnessMax
    BY Zenon DEF TypeOK
  <1>. QED  BY <1>1, BoundAssumption

\* A claim serves one priority, and counts it.  It does not serve a priority a
\* FairnessMax + 1st time in a row past a task of another one that waited.
LEMMA ClaimServes ==
    ASSUME TypeOK, NoLostTask, ClaimTask
    PROVE  \E p \in Priorities :
              /\ Served = {p}
              /\ CountClaim(p)
              /\ \A t \in Tasks :
                    QoSPriority /\ IsClaimable(tasks[t]) /\ PriorityOf[t] # p /\ lastPriority = p
                       => lastConsecutive < FairnessMax
  <1>1. PICK delay \in ExpiryDelays, requeued \in ExpiryRequeues :
           \E i \in 1..Len(queue \o requeued) :
              /\ NextClaimableIndex(ExpireLeases(delay), queue \o requeued, i)
              /\ tasks' = [ExpireLeases(delay) EXCEPT
                             ![(queue \o requeued)[i]] = StartAttempt(@)]
              /\ CountClaim(PriorityOf[(queue \o requeued)[i]])
    BY Zenon DEF ClaimTask
  <1>. DEFINE tk == ExpireLeases(delay)
              q  == queue \o requeued
  <1>2. PICK i \in 1..Len(q) :
           /\ NextClaimableIndex(tk, q, i)
           /\ tasks' = [tk EXCEPT ![q[i]] = StartAttempt(@)]
           /\ CountClaim(PriorityOf[q[i]])
    BY Zenon, <1>1
  <1>3. DOMAIN tk = Tasks /\ requeued \in Seq(Tasks)
    BY Zenon, ExpiryByRecord
  <1>4. \A t \in Tasks :
           \/ tk[t] = tasks[t]
           \/ tasks[t].state = "running" /\ \E d \in Delays : tk[t] = HandleRetryTransition(tasks[t], d)
    BY Zenon, ExpiryByRecord
  <1>5. queue \in Seq(Tasks) /\ \A t \in Tasks : tasks[t] \in TaskRecord
    BY Zenon DEF TypeOK
  <1>6. q \in Seq(Tasks) /\ \A j \in 1..Len(queue) : j \in 1..Len(q) /\ q[j] = queue[j]
    BY <1>3, <1>5, Joined
  <1>. HIDE DEF tk, q
  <1>7. q[i] \in Tasks
    BY <1>6
  <1>. DEFINE c == q[i]
              p == PriorityOf[c]
  <1>8. p \in Priorities
    BY Zenon, <1>7, PolicyAssumption
  <1>9. Served = {p}
    <2>1. ASSUME NEW u \in Tasks
          PROVE  /\ tk[u] \in TaskRecord
                 /\ Len(tk[u].attempts) = Len(tasks[u].attempts) /\ Len(tasks[u].attempts) \in Nat
      <3>1. tasks[u].attempts \in Seq(AttemptStatuses)
        BY Zenon, <1>5 DEF TaskRecord
      <3>2. Len(tasks[u].attempts) \in Nat
        BY <3>1
      <3>. QED  BY Zenon, <1>4, <1>5, <3>2, RetryTyped, AttemptsAfter
    <2>2. Len(tasks'[c].attempts) > Len(tasks[c].attempts)
      <3>1. tasks'[c] = StartAttempt(tk[c])
        BY Zenon, <1>2, <1>3, <1>7
      <3>. QED  BY <1>7, <2>1, <3>1, AttemptsAfter
    <2>3. ASSUME NEW u \in Tasks, u # c PROVE ~(Len(tasks'[u].attempts) > Len(tasks[u].attempts))
      <3>1. tasks'[u] = tk[u]
        BY Zenon, <1>2, <1>3, <2>3
      <3>. QED  BY <2>1, <3>1
    <2>4. {u \in Tasks : Len(tasks'[u].attempts) > Len(tasks[u].attempts)} = {c}
      BY Zenon, <1>7, <2>2, <2>3
    <2>. QED  BY Zenon, <2>4 DEF Served
  <1>10. ASSUME NEW t \in Tasks, QoSPriority, IsClaimable(tasks[t]), PriorityOf[t] # p,
                lastPriority = p
         PROVE  lastConsecutive < FairnessMax
    <2>1. tk[t] = tasks[t]
      BY Zenon, <1>4, <1>10 DEF IsClaimable
    <2>2. PICK j \in 1..Len(queue) : queue[j] = t
      BY Zenon, <1>10 DEF NoLostTask, IsClaimable
    <2>3. j \in Eligible(tk, q) /\ q[j] = t
      BY Zenon, <1>6, <1>10, <2>1, <2>2 DEF Eligible
    <2>4. PriorityOf[t] \in Waiting(tk, q)
      BY Zenon, <2>3 DEF Waiting
    <2>5. SelectedPriority(tk, q) = p
      BY Zenon, <1>2, <1>10 DEF NextClaimableIndex
    <2>6. ~(lastConsecutive >= FairnessMax)
      BY Zenon, <1>6, <1>10, <2>4, <2>5, TurnIsGivenUp
    <2>7. lastConsecutive \in Nat /\ FairnessMax \in Nat
      BY Zenon, CounterTyped
    <2>. QED  BY <2>6, <2>7
  <1>. HIDE DEF c
  <1>. QED  BY Zenon, <1>2, <1>8, <1>9, <1>10 DEF c

\* A step that is no claim serves no priority.
LEMMA NothingServed ==
    ASSUME TypeOK, OneLiveAttempt, Next, ~ClaimTask
    PROVE  Served = {}
  <1>1. ASSUME NEW u \in Tasks PROVE ~(Len(tasks'[u].attempts) > Len(tasks[u].attempts))
    <2>1. tasks[u] \in TaskRecord /\ OneLive(tasks[u]) /\ RecordStep(tasks[u], tasks'[u])
      BY Zenon, StepByTask DEF TypeOK, OneLiveAttempt, TaskStep, RecordStep
    <2>2. tasks[u].attempts \in Seq(AttemptStatuses)
      BY Zenon, <2>1 DEF TaskRecord
    <2>3. Len(tasks[u].attempts) \in Nat
      BY <2>2
    <2>4. \/ Len(tasks'[u].attempts) = Len(tasks[u].attempts)
          \/ Len(tasks'[u].attempts) = 0
          \/ tasks'[u].state = "running"
      BY Zenon, <2>1, RecordCounts
    <2>5. Len(tasks'[u].attempts) = Len(tasks[u].attempts) \/ Len(tasks'[u].attempts) = 0
      BY Zenon, <2>4, OnlyClaimsStart
    <2>. QED  BY <2>3, <2>5
  <1>. QED  BY Zenon, <1>1 DEF Served

\* The claims of one priority that a waiting task has seen go by are the last
\* ones there were: the scheduler's own counter has counted them.
Counted(t, p) ==
    passed[t][p] > 0 => lastPriority = p /\ passed[t][p] <= lastConsecutive

FairInv ==
    /\ IInv
    /\ passed \in [Tasks -> [Priorities -> Nat]]
    /\ QoSPriority => \A t \in Tasks : \A p \in Priorities \ {PriorityOf[t]} : Counted(t, p)

\* Every step of the scheduler keeps the two counts together.
LEMMA FairNextInv == FairInv /\ [FairNext]_fairVars => FairInv'
  <1>. SUFFICES ASSUME FairInv, [FairNext]_fairVars PROVE FairInv'
    OBVIOUS
  <1>0. /\ TypeOK /\ NoLostTask /\ OneLiveAttempt
        /\ lastConsecutive \in Nat /\ FairnessMax \in Nat
        /\ \A t \in Tasks : \A p \in Priorities : passed[t][p] \in Nat
    <2>1. TypeOK /\ NoLostTask /\ OneLiveAttempt
      BY DEF FairInv, IInv
    <2>2. lastConsecutive \in Nat /\ FairnessMax \in Nat
      BY Zenon, <2>1, CounterTyped
    <2>. QED  BY Zenon, <2>1, <2>2 DEF FairInv
  <1>1. IInv'
    <2>1. [Next]_vars
      BY Zenon DEF FairNext, fairVars
    <2>. QED  BY Zenon, <2>1, NextInv DEF FairInv
  <1>2. CASE FairNext
    <2>1. Next /\ CountPassed
      BY <1>2 DEF FairNext
    <2>2. ASSUME NEW t \in Tasks, ~IsClaimable(tasks[t]) \/ ~IsClaimable(tasks'[t])
          PROVE  passed'[t] = NonePassed
      BY Zenon, <2>1, <2>2 DEF CountPassed
    <2>3. ASSUME NEW t \in Tasks, IsClaimable(tasks[t]), IsClaimable(tasks'[t])
          PROVE  passed'[t] = IF Served = {} THEN passed[t]
                              ELSE [p \in Priorities |-> IF p \in Served THEN passed[t][p] + 1 ELSE 0]
      BY Zenon, <2>1, <2>3 DEF CountPassed
    <2>4. passed' \in [Tasks -> [Priorities -> Nat]]
      <3>1. ASSUME NEW t \in Tasks PROVE passed'[t] \in [Priorities -> Nat]
        <4>1. NonePassed \in [Priorities -> Nat]
          BY DEF NonePassed
        <4>2. [p \in Priorities |-> IF p \in Served THEN passed[t][p] + 1 ELSE 0]
                 \in [Priorities -> Nat]
          BY <1>0
        <4>3. passed[t] \in [Priorities -> Nat]
          BY Zenon DEF FairInv
        <4>. QED  BY Zenon, <2>2, <2>3, <4>1, <4>2, <4>3
      <3>2. passed' = [t \in Tasks |-> passed'[t]]
        BY Zenon, <2>1 DEF CountPassed
      <3>. QED  BY Zenon, <3>1, <3>2
    <2>5. ASSUME QoSPriority, NEW t \in Tasks, NEW p \in Priorities \ {PriorityOf[t]}
          PROVE  Counted(t, p)'
      <3>0. Counted(t, p)
        BY Zenon, <2>5 DEF FairInv
      <3>1. CASE ~IsClaimable(tasks[t]) \/ ~IsClaimable(tasks'[t])
        <4>1. passed'[t][p] = 0
          BY <2>2, <3>1 DEF NonePassed
        <4>. QED  BY <4>1 DEF Counted
      <3>2. CASE IsClaimable(tasks[t]) /\ IsClaimable(tasks'[t]) /\ ~ClaimTask
        <4>1. passed'[t] = passed[t]
          BY Zenon, <1>0, <2>1, <2>3, <3>2, NothingServed
        <4>2. lastPriority' = lastPriority /\ lastConsecutive' = lastConsecutive
          BY Zenon, <2>1, <3>2, Frame
        <4>. QED  BY Zenon, <3>0, <4>1, <4>2 DEF Counted
      <3>3. CASE IsClaimable(tasks[t]) /\ IsClaimable(tasks'[t]) /\ ClaimTask
        <4>1. PICK r \in Priorities :
                 /\ Served = {r}
                 /\ CountClaim(r)
                 /\ PriorityOf[t] # r /\ lastPriority = r => lastConsecutive < FairnessMax
          BY Zenon, <1>0, <2>5, <3>3, ClaimServes
        <4>2. passed'[t][p] = IF p = r THEN passed[t][p] + 1 ELSE 0
          BY ZenonT(60), <2>3, <3>3, <4>1
        <4>3. CASE p # r
          BY <4>2, <4>3 DEF Counted
        <4>4. CASE p = r
          BY <1>0, <3>0, <4>1, <4>2, <4>4 DEF Counted, CountClaim
        <4>. QED  BY Zenon, <4>3, <4>4
      <3>. QED  BY Zenon, <3>1, <3>2, <3>3
    <2>. QED  BY Zenon, <1>1, <2>4, <2>5 DEF FairInv
  <1>3. CASE UNCHANGED fairVars
    <2>1. passed' = passed /\ lastPriority' = lastPriority /\ lastConsecutive' = lastConsecutive
      BY <1>3 DEF fairVars, vars, state
    <2>. QED  BY Zenon, <1>1, <2>1 DEF FairInv, Counted
  <1>. QED  BY Zenon, <1>2, <1>3

\* While a task waits, no other priority is served more than
\* MaxConsecutiveClaimsPerPriority times in a row (nextClaimableIndex), for any
\* number of tasks of the three priorities.
THEOREM ClaimsAreFair == FairSpec => []FairnessWindow
  <1>1. FairInit => FairInv
    <2>. SUFFICES ASSUME FairInit PROVE FairInv
      OBVIOUS
    <2>1. IInv
      BY Zenon, InitInv DEF FairInit
    <2>2. \A t \in Tasks : \A p \in Priorities : passed[t][p] = 0
      BY Zenon DEF FairInit, NonePassed
    <2>3. passed \in [Tasks -> [Priorities -> Nat]]
      BY DEF FairInit, NonePassed
    <2>4. \A t \in Tasks : \A p \in Priorities : Counted(t, p)
      BY <2>2 DEF Counted
    <2>. QED  BY Zenon, <2>1, <2>3, <2>4 DEF FairInv
  <1>2. FairInv => FairnessWindow
    <2>. SUFFICES ASSUME FairInv, QoSPriority, NEW t \in Tasks, NEW p \in Priorities \ {PriorityOf[t]}
                  PROVE  passed[t][p] <= FairnessMax
      BY Zenon DEF FairnessWindow
    <2>1. Counted(t, p) /\ passed[t][p] \in Nat
      BY Zenon DEF FairInv
    <2>2. lastConsecutive \in 0..FairnessMax
      BY Zenon DEF FairInv, IInv, TypeOK
    <2>. QED  BY <2>1, <2>2, BoundAssumption DEF Counted
  <1>. QED  BY <1>1, <1>2, FairNextInv, PTL DEF FairSpec
=============================================================================
