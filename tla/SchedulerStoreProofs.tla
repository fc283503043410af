------------------------- MODULE SchedulerStoreProofs -------------------------
(***************************************************************************)
(* Theorems about the two layers on the scheduler's state: the cache of    *)
(* QueryTasks (TaskBoardQuery) and the file backend (SchedulerFileStore),  *)
(* for any set of tasks, policy and bounds.                                *)
(***************************************************************************)
EXTENDS SchedulerProofs, TaskBoardQuery, SchedulerFileStore

USE SMTT(30)

-----------------------------------------------------------------------------
(* The query cache *)

\* What a query shows, and what one keeps of its progress.
Views ==
    [Tasks -> [state : TaskStates, attempts : Seq(AttemptStatuses), current : Nat,
               source : Sources, conflict : BOOLEAN]]

QueryRecord ==
    [pc : {"idle", "cache", "snapshot", "write"}, current : BOOLEAN, snapshot : Views \cup {None}]

\* A query that may still write to the cache has the tasks as they are, unless
\* an operation owes its invalidation or a change went by without one.
SnapshotIsCurrent(r) ==
    r.pc = "write" /\ r.current /\ owed = 0 /\ ~blind => r.snapshot = View

QueryInv ==
    /\ TypeOK /\ NoLostTask
    /\ owed \in Nat /\ blind \in BOOLEAN
    /\ query \in [Queries -> QueryRecord]
    /\ CacheIsCurrentBarBlindSpots
    /\ \A q \in Queries : SnapshotIsCurrent(query[q])

\* Time passing shows nothing to a query.
LEMMA TickHidden == ASSUME TypeOK, Tick PROVE View' = View
  <1>1. ASSUME NEW t \in Tasks
        PROVE  /\ tasks'[t].state = tasks[t].state /\ tasks'[t].attempts = tasks[t].attempts
               /\ tasks'[t].current = tasks[t].current /\ tasks'[t].source = tasks[t].source
               /\ tasks'[t].conflict = tasks[t].conflict
    <2>1. tasks[t] \in TaskRecord /\ tasks'[t] = Elapse(tasks[t])
      BY Zenon DEF TypeOK, Tick
    <2>. QED  BY <2>1 DEF Elapse, TaskRecord
  <1>. QED  BY Zenon, <1>1 DEF View

\* A query sees the fields of a record.
LEMMA ViewTyped == ASSUME TypeOK PROVE View \in Views
  <1>1. ASSUME NEW t \in Tasks
        PROVE  /\ tasks[t].state \in TaskStates /\ tasks[t].attempts \in Seq(AttemptStatuses)
               /\ tasks[t].current \in Nat /\ tasks[t].source \in Sources
               /\ tasks[t].conflict \in BOOLEAN
    BY Zenon DEF TypeOK, TaskRecord
  <1>. QED  BY Zenon, <1>1 DEF View, Views

\* What the steps of a query make of its record.
LEMMA QueryRecords ==
    ASSUME NEW r \in QueryRecord, NEW v \in Views
    PROVE  /\ [r EXCEPT !.pc = "snapshot"] \in QueryRecord
           /\ [[r EXCEPT !.pc = "cache"] EXCEPT !.current = TRUE] \in QueryRecord
           /\ [[r EXCEPT !.pc = "write"] EXCEPT !.snapshot = v] \in QueryRecord
           /\ [[r EXCEPT !.pc = "write"] EXCEPT !.snapshot = v].snapshot = v
           /\ [r EXCEPT !.pc = "snapshot"].pc = "snapshot"
           /\ [[r EXCEPT !.pc = "cache"] EXCEPT !.current = TRUE].pc = "cache"
           /\ Idle \in QueryRecord /\ Idle.pc = "idle"
  BY Zenon DEF QueryRecord, Idle

\* Every step of the scheduler and of a query preserves the invariant.
LEMMA QueryNextInv == QueryInv /\ [QueryNext]_queryVars => QueryInv'
  <1>. SUFFICES ASSUME QueryInv, [QueryNext]_queryVars PROVE QueryInv'
    OBVIOUS
  <1>. DEFINE Steps == \E q \in Queries : ReadEpoch(q) \/ ReadCache(q) \/ ReadSnapshot(q) \/ WriteCache(q)
  <1>1. [Next]_vars
    <2>1. CASE QueryOperation \/ SilentOperation \/ ReconcileList \/ ReconcileSkip \/ Tick
      BY Zenon, <2>1 DEF QueryOperation, SilentOperation, Next
    <2>2. CASE Invalidate \/ Steps
      BY Zenon, <2>2 DEF Invalidate, ReadEpoch, ReadCache, ReadSnapshot, WriteCache
    <2>3. CASE UNCHANGED queryVars
      BY Zenon, <2>3 DEF queryVars
    <2>. QED  BY Zenon, <2>1, <2>2, <2>3 DEF QueryNext
  <1>2. (TypeOK /\ NoLostTask)'
    BY <1>1, TypeStep DEF QueryInv
  \* A step that leaves cache and queries alone and what they show.
  <1>3. ASSUME UNCHANGED <<cache, query, owed>>, blind' \in BOOLEAN,
               blind' \/ (View' = View /\ blind' = blind)
        PROVE  QueryInv'
    <2>1. CASE blind'
      BY Zenon, <1>2, <1>3, <2>1 DEF QueryInv, CacheIsCurrentBarBlindSpots, SnapshotIsCurrent
    <2>2. CASE View' = View /\ blind' = blind
      BY <1>2, <1>3, <2>2 DEF QueryInv, CacheIsCurrentBarBlindSpots, SnapshotIsCurrent
    <2>. QED  BY <1>3, <2>1, <2>2
  \* A step of one query.
  <1>s. ASSUME UNCHANGED <<vars, owed, blind>>, NEW q \in Queries, NEW r \in QueryRecord,
               query' = [query EXCEPT ![q] = r], SnapshotIsCurrent(r),
               CacheIsCurrentBarBlindSpots => CacheIsCurrentBarBlindSpots'
        PROVE  QueryInv'
    <2>1. View' = View
      BY Zenon, <1>s DEF View, vars, state
    <2>2. \A p \in Queries : query'[p] = IF p = q THEN r ELSE query[p]
      BY Zenon, <1>s DEF QueryInv
    <2>3. query' \in [Queries -> QueryRecord]
      BY Zenon, <1>s DEF QueryInv
    <2>4. \A p \in Queries : SnapshotIsCurrent(query[p])'
      BY Zenon, <1>s, <2>1, <2>2 DEF QueryInv, SnapshotIsCurrent
    <2>. QED  BY Zenon, <1>2, <1>s, <2>3, <2>4 DEF QueryInv
  <1>4. CASE QueryOperation
    <2>1. owed' \in Nat /\ owed' # 0 /\ query' = query /\ blind' = blind
      BY <1>4 DEF QueryOperation, QueryInv
    <2>. QED  BY Zenon, <1>2, <2>1 DEF QueryInv, CacheIsCurrentBarBlindSpots, SnapshotIsCurrent
  <1>5. CASE SilentOperation
    <2>1. CASE tasks' = tasks
      <3>1. View' = View
        BY <2>1 DEF View
      <3>2. blind' = blind /\ blind' \in BOOLEAN
        BY <1>5, <2>1 DEF SilentOperation, QueryInv
      <3>. QED  BY Zenon, <1>3, <1>5, <3>1, <3>2 DEF SilentOperation
    <2>2. CASE tasks' # tasks
      <3>1. blind' = TRUE
        BY Zenon, <1>5, <2>2 DEF SilentOperation, QueryInv
      <3>. QED  BY Zenon, <1>3, <1>5, <3>1 DEF SilentOperation
    <2>. QED  BY <2>1, <2>2
  <1>6. CASE Invalidate
    <2>1. owed' \in Nat
      BY <1>6 DEF Invalidate, QueryInv
    <2>2. \A q \in Queries : query'[q] = [query[q] EXCEPT !.current = FALSE] /\ query[q] \in QueryRecord
      BY Zenon, <1>6 DEF Invalidate, QueryInv
    <2>3. \A q \in Queries : query'[q] \in QueryRecord /\ query'[q].current = FALSE
      BY Zenon, <2>2 DEF QueryRecord
    <2>4. query' \in [Queries -> QueryRecord]
      BY Zenon, <1>6, <2>3 DEF Invalidate
    <2>. QED  BY Zenon, <1>2, <1>6, <2>1, <2>3, <2>4
              DEF Invalidate, QueryInv, CacheIsCurrentBarBlindSpots, SnapshotIsCurrent
  <1>7. ASSUME NEW q \in Queries, ReadEpoch(q) \/ ReadCache(q) \/ ReadSnapshot(q) \/ WriteCache(q)
        PROVE  QueryInv'
    <2>1. query[q] \in QueryRecord /\ View \in Views
      BY Zenon, ViewTyped DEF QueryInv
    <2>u. ASSUME UNCHANGED <<vars, cache, owed, blind>>
          PROVE  CacheIsCurrentBarBlindSpots => CacheIsCurrentBarBlindSpots'
      BY Zenon, <2>u DEF CacheIsCurrentBarBlindSpots, View, vars, state
    <2>2. CASE ReadEpoch(q)
      <3>1. query' = [query EXCEPT ![q] = [[query[q] EXCEPT !.pc = "cache"] EXCEPT !.current = TRUE]]
        BY Zenon, <2>2 DEF ReadEpoch, QueryInv
      <3>. QED  BY ZenonT(60), <1>s, <2>1, <2>2, <2>u, <3>1, QueryRecords DEF ReadEpoch, SnapshotIsCurrent
    <2>3. CASE ReadCache(q)
      <3>1. \/ query' = [query EXCEPT ![q] = Idle]
            \/ query' = [query EXCEPT ![q] = [query[q] EXCEPT !.pc = "snapshot"]]
        BY Zenon, <2>3 DEF ReadCache, QueryInv
      <3>. QED  BY Zenon, <1>s, <2>1, <2>3, <2>u, <3>1, QueryRecords DEF ReadCache, SnapshotIsCurrent
    <2>4. CASE ReadSnapshot(q)
      <3>1. query' = [query EXCEPT ![q] = [[query[q] EXCEPT !.pc = "write"] EXCEPT !.snapshot = View]]
        BY Zenon, <2>4 DEF ReadSnapshot, QueryInv
      <3>. QED  BY ZenonT(60), <1>s, <2>1, <2>4, <2>u, <3>1, QueryRecords DEF ReadSnapshot, SnapshotIsCurrent
    <2>5. CASE WriteCache(q)
      <3>1. SnapshotIsCurrent(query[q])
        BY Zenon DEF QueryInv
      <3>2. CacheIsCurrentBarBlindSpots => CacheIsCurrentBarBlindSpots'
        <4>1. View' = View /\ owed' = owed /\ blind' = blind
          BY Zenon, <2>5 DEF WriteCache, View, vars, state
        <4>2. cache' = cache \/ (query[q].current /\ cache' = query[q].snapshot)
          BY Zenon, <2>5 DEF WriteCache
        <4>. QED  BY <2>5, <3>1, <4>1, <4>2
                  DEF WriteCache, SnapshotIsCurrent, CacheIsCurrentBarBlindSpots
      <3>. QED  BY Zenon, <1>s, <2>1, <2>5, <3>2, QueryRecords DEF WriteCache, SnapshotIsCurrent
    <2>. QED  BY <1>7, <2>2, <2>3, <2>4, <2>5
  <1>8. CASE (ReconcileList \/ ReconcileSkip \/ Tick) /\ UNCHANGED <<cache, query, owed, blind>>
    <2>1. View' = View
      <3>1. CASE Tick
        BY <3>1, TickHidden DEF QueryInv
      <3>2. CASE ReconcileList \/ ReconcileSkip
        BY Zenon, <3>2 DEF ReconcileList, ReconcileSkip, state, View
      <3>. QED  BY <1>8, <3>1, <3>2
    <2>. QED  BY Zenon, <1>3, <1>8, <2>1 DEF QueryInv
  <1>9. CASE UNCHANGED queryVars
    <2>1. UNCHANGED <<cache, query, owed, blind>> /\ View' = View
      BY Zenon, <1>9 DEF queryVars, vars, state, View
    <2>. QED  BY Zenon, <1>3, <2>1 DEF QueryInv
  <1>. QED  BY Zenon, <1>4, <1>5, <1>6, <1>7, <1>8, <1>9 DEF QueryNext

\* An entry of the cache shows the tasks as they are once the operations that
\* ran have invalidated it, whatever queries were on their way meanwhile.
THEOREM CacheIsCurrent == QuerySpec => []CacheIsCurrentBarBlindSpots
  <1>1. QueryInit => QueryInv
    <2>. SUFFICES ASSUME QueryInit PROVE QueryInv
      OBVIOUS
    <2>1. TypeOK /\ NoLostTask
      BY InitInv DEF QueryInit, IInv
    <2>2. Idle \in QueryRecord /\ Idle.pc = "idle"
      BY DEF QueryRecord, Idle
    <2>3. query \in [Queries -> QueryRecord] /\ \A q \in Queries : query[q] = Idle
      BY Zenon, <2>2 DEF QueryInit
    <2>. QED  BY Zenon, <2>1, <2>2, <2>3 DEF QueryInit, QueryInv, CacheIsCurrentBarBlindSpots, SnapshotIsCurrent
  <1>2. QueryInv => CacheIsCurrentBarBlindSpots
    BY DEF QueryInv
  <1>. QED  BY <1>1, <1>2, QueryNextInv, PTL DEF QuerySpec

-----------------------------------------------------------------------------
(* The state in memory and in the file *)

\* IInv of the fields that the file holds.
Sound(tk, q, cm, ops) ==
    /\ tk \in [Tasks -> TaskRecord]
    /\ q \in Seq(Tasks)
    /\ DOMAIN cm \subseteq Tasks \X Nat
    /\ \A k \in DOMAIN cm : cm[k] \in Commit
    /\ DOMAIN ops \subseteq OpIDs
    /\ \A o \in DOMAIN ops : ops[o] \in Tasks \X ControlActions
    /\ \A t \in Tasks : /\ tk[t].state = "queued" => InQueue(t, q)
                        /\ OneLive(tk[t]) /\ WithinBudget(tk[t]) /\ Fresh(tk[t])
                        /\ Matches(t, tk[t], cm) /\ Truthful(t, tk[t], cm)

\* What the process keeps besides.
Counters ==
    /\ lastPriority \in Priorities \cup {""}
    /\ lastConsecutive \in 0..FairnessMax
    /\ polls \in Seq(Tasks \X Nat)

LEMMA SoundIsInv == IInv <=> Sound(tasks, queue, commits, controlOps) /\ Counters
  <1>1. ASSUME IInv PROVE Sound(tasks, queue, commits, controlOps) /\ Counters
    <2>1. \A t \in Tasks : Matches(t, tasks[t], commits)
      BY Zenon, <1>1, MatchesByTask DEF IInv, TypeOK
    <2>2. \A t \in Tasks : Truthful(t, tasks[t], commits)
      BY Zenon, <1>1 DEF IInv, SourceTellsTheTruth, Truthful
    <2>3. \A t \in Tasks : tasks[t].state = "queued" => InQueue(t, queue)
      BY Zenon, <1>1 DEF IInv, NoLostTask, InQueue
    <2>. QED  BY Zenon, <1>1, <2>1, <2>2, <2>3
              DEF IInv, TypeOK, OneLiveAttempt, RetryBudget, Sound, Counters
  <1>2. ASSUME Sound(tasks, queue, commits, controlOps), Counters PROVE IInv
    <2>1. TypeOK
      BY Zenon, <1>2 DEF Sound, Counters, TypeOK
    <2>2. CommitsMatchAttempts
      BY Zenon, <1>2, MatchesByTask DEF Sound
    <2>3. SourceTellsTheTruth
      BY Zenon, <1>2 DEF Sound, SourceTellsTheTruth, Truthful
    <2>4. NoLostTask
      BY Zenon, <1>2 DEF Sound, NoLostTask, InQueue
    <2>. QED  BY Zenon, <1>2, <2>1, <2>2, <2>3, <2>4 DEF IInv, OneLiveAttempt, RetryBudget, Sound
  <1>. QED  BY <1>1, <1>2

\* Records that differ in their timers, or have lost their source, are as sound.
SameHistory(r, s) ==
    /\ s.state = r.state /\ s.attempts = r.attempts /\ s.current = r.current
    /\ s.retries = r.retries /\ s.source \in {r.source, ""}

LEMMA SoundKept ==
    ASSUME NEW tk, NEW q, NEW cm, NEW ops, Sound(tk, q, cm, ops), NEW tl \in [Tasks -> TaskRecord],
           \A t \in Tasks : SameHistory(tk[t], tl[t])
    PROVE  Sound(tl, q, cm, ops)
  <1>1. ASSUME NEW t \in Tasks
        PROVE  /\ tl[t].state = "queued" => InQueue(t, q)
               /\ OneLive(tl[t]) /\ WithinBudget(tl[t]) /\ Fresh(tl[t])
               /\ Matches(t, tl[t], cm) /\ Truthful(t, tl[t], cm)
    <2>. DEFINE r == tk[t]
                s == tl[t]
    <2>1. /\ r.state = "queued" => InQueue(t, q)
          /\ OneLive(r) /\ WithinBudget(r) /\ Fresh(r) /\ Matches(t, r, cm) /\ Truthful(t, r, cm)
      BY Zenon DEF Sound
    <2>2. /\ s.state = r.state /\ s.attempts = r.attempts /\ s.current = r.current
          /\ s.retries = r.retries /\ s.source \in {r.source, ""}
      BY Zenon DEF SameHistory
    <2>. HIDE DEF r, s
    <2>3. OneLive(s) /\ WithinBudget(s) /\ Fresh(s) /\ Matches(t, s, cm)
      BY Zenon, <2>1, <2>2 DEF OneLive, WithinBudget, Fresh, Matches
    <2>4. Truthful(t, s, cm)
      <3>1. CASE s.source = r.source
        BY Zenon, <2>1, <2>2, <3>1 DEF Truthful
      <3>2. CASE s.source = ""
        BY Zenon, <3>2 DEF Truthful, AsyncSources
      <3>. QED  BY Zenon, <2>2, <3>1, <3>2
    <2>. QED  BY Zenon, <2>1, <2>2, <2>3, <2>4 DEF r, s
  <1>. QED  BY Zenon, <1>1 DEF Sound

\* Time passes for the deadlines in the file.
LEMMA ElapseHistory ==
    ASSUME NEW r \in TaskRecord
    PROVE  Elapse(r) \in TaskRecord /\ SameHistory(r, Elapse(r))
  <1>1. QuietStep(r, Elapse(r))
    BY DEF QuietStep
  <1>2. Elapse(r) \in TaskRecord
    BY <1>1, RecordTyped DEF RecordStep
  <1>. QED  BY <1>2 DEF Elapse, TaskRecord, SameHistory

\* What restore makes of a record.
LEMMA RestoredHistory ==
    ASSUME NEW r \in TaskRecord
    PROVE  RestoredRecord(r) \in TaskRecord /\ SameHistory(r, RestoredRecord(r))
  <1>1. /\ (IF r.state = "queued" THEN r.eligible ELSE 0) \in 0..BackoffMax
        /\ (IF r.state = "awaiting_report" THEN r.report ELSE 0) \in -1..ReportTimeout
        /\ (IF r.state \in Terminal THEN r.source ELSE "") \in Sources
    BY Zenon, Ranges DEF TaskRecord, Sources, Delays
  <1>b. (r.conflict /\ r.state \in Terminal) \in BOOLEAN
    BY Zenon
  <1>2. RestoredRecord(r) \in TaskRecord
    BY Zenon, <1>1, <1>b DEF TaskRecord, RestoredRecord
  <1>. QED  BY <1>2 DEF RestoredRecord, TaskRecord, SameHistory

-----------------------------------------------------------------------------
(* Facts told to callers *)

Facts ==
    [kind : {"grant"}, task : Tasks, attempt : Nat]
    \cup [kind : {"commit"}, task : Tasks, attempt : Nat, commit : Commit]

\* What holds of a state holds of one with as many attempts and those commits.
LEMMA HoldsKept ==
    ASSUME NEW tk, NEW cm, NEW tl, NEW cn, NEW f \in Facts, Holds(f, tk, cm),
           \A t \in Tasks : /\ Len(tk[t].attempts) \in Nat /\ Len(tl[t].attempts) \in Nat
                            /\ Len(tk[t].attempts) <= Len(tl[t].attempts),
           \A k \in DOMAIN cm : k \in DOMAIN cn /\ cn[k] = cm[k]
    PROVE  Holds(f, tl, cn)
  <1>1. CASE f \in [kind : {"grant"}, task : Tasks, attempt : Nat]
    <2>1. f.kind = "grant" /\ f.task \in Tasks /\ f.attempt \in Nat
      BY <1>1
    <2>2. Len(tk[f.task].attempts) >= f.attempt
      BY Zenon, <2>1 DEF Holds
    <2>3. Len(tl[f.task].attempts) >= f.attempt
      BY <2>1, <2>2
    <2>. QED  BY Zenon, <2>1, <2>3 DEF Holds
  <1>2. CASE f \in [kind : {"commit"}, task : Tasks, attempt : Nat, commit : Commit]
    <2>1. f.kind = "commit" /\ f.kind # "grant"
      BY <1>2
    <2>. QED  BY Zenon, <2>1 DEF Holds
  <1>. QED  BY <1>1, <1>2 DEF Facts

\* No step takes an attempt or a commit back.
LEMMA NothingTakenBack ==
    ASSUME IInv, [Next]_vars
    PROVE  /\ \A t \in Tasks : /\ Len(tasks[t].attempts) \in Nat /\ Len(tasks'[t].attempts) \in Nat
                               /\ Len(tasks[t].attempts) <= Len(tasks'[t].attempts)
           /\ \A k \in DOMAIN commits : k \in DOMAIN commits' /\ commits'[k] = commits[k]
  <1>1. IInv'
    BY NextInv
  <1>2. ASSUME NEW t \in Tasks
        PROVE  /\ tasks[t] \in TaskRecord /\ OneLive(tasks[t]) /\ Fresh(tasks[t])
               /\ tasks'[t] \in TaskRecord
               /\ Len(tasks[t].attempts) \in Nat /\ Len(tasks'[t].attempts) \in Nat
    <2>1. tasks[t] \in TaskRecord /\ OneLive(tasks[t]) /\ Fresh(tasks[t]) /\ tasks'[t] \in TaskRecord
      BY Zenon, <1>1 DEF IInv, TypeOK, OneLiveAttempt
    <2>2. \A r \in TaskRecord : Len(r.attempts) \in Nat
      BY DEF TaskRecord
    <2>. QED  BY Zenon, <2>1, <2>2
  <1>3. CASE Next
    <2>1. ASSUME NEW t \in Tasks PROVE Len(tasks[t].attempts) <= Len(tasks'[t].attempts)
      <3>. DEFINE p == tasks[t].attempts
                  q == tasks'[t].attempts
      <3>1. Len(p) \in Nat /\ Len(q) \in Nat
        BY <1>2
      <3>2. \/ QuietStep(tasks[t], tasks'[t])
            \/ \E c \in Commit : DecideStep(tasks[t], tasks'[t], c)
        BY Zenon, <1>3, StepByTask DEF IInv, TaskStep
      <3>3. CASE QuietStep(tasks[t], tasks'[t])
        <4>1. \A a \in 1..Len(p) : a \in 1..Len(q)
          BY <1>2, <3>3, QuietHistory DEF Extends
        <4>. HIDE DEF p, q
        <4>. QED  BY <3>1, <4>1 DEF p, q
      <3>4. ASSUME NEW c \in Commit, DecideStep(tasks[t], tasks'[t], c)
            PROVE  Len(q) = Len(p)
        <4>1. p \in Seq(AttemptStatuses) /\ c.status \in AttemptStatuses
          BY <1>2 DEF TaskRecord, Commit, AttemptStatuses
        <4>2. q = [p EXCEPT ![tasks[t].current] = c.status]
          BY <1>2, <3>4, DecideHistory
        <4>. QED  BY <4>1, <4>2, CloseSeq
      <3>. QED  BY <3>1, <3>2, <3>3, <3>4
    <2>. QED  BY <1>2, <1>3, <2>1, CommitsStep DEF IInv
  <1>4. CASE UNCHANGED vars
    <2>1. tasks' = tasks /\ commits' = commits
      BY Zenon, <1>4 DEF vars, state
    <2>. QED  BY <1>2, <2>1
  <1>. QED  BY <1>3, <1>4

\* What an operation tells its caller holds of the state it leaves.
LEMMA NewFactsHold ==
    ASSUME IInv, IInv'
    PROVE  NewFacts \subseteq Facts /\ \A f \in NewFacts : Holds(f, tasks', commits')
  <1>. SUFFICES ASSUME NEW f \in NewFacts PROVE f \in Facts /\ Holds(f, tasks', commits')
    OBVIOUS
  <1>1. \A t \in Tasks : Len(tasks'[t].attempts) \in Nat
    <2>1. \A t \in Tasks : tasks'[t] \in TaskRecord
      BY Zenon DEF IInv, TypeOK
    <2>. QED  BY <2>1 DEF TaskRecord
  <1>2. ASSUME NEW t \in Tasks, f = Grant(t, Len(tasks'[t].attempts))
        PROVE  f \in Facts /\ Holds(f, tasks', commits')
    <2>1. f.kind = "grant" /\ f.task = t /\ f.attempt = Len(tasks'[t].attempts)
      BY <1>2 DEF Grant
    <2>2. Len(tasks'[f.task].attempts) >= f.attempt
      BY <1>1, <2>1
    <2>3. f \in Facts
      BY <1>1, <1>2 DEF Grant, Facts
    <2>. QED  BY Zenon, <2>1, <2>2, <2>3 DEF Holds
  <1>3. ASSUME NEW k \in DOMAIN commits', f = Decision(k[1], k[2], commits'[k])
        PROVE  f \in Facts /\ Holds(f, tasks', commits')
    <2>1. k \in Tasks \X Nat /\ commits'[k] \in Commit
      BY Zenon DEF IInv, TypeOK
    <2>2. k = <<k[1], k[2]>> /\ k[1] \in Tasks /\ k[2] \in Nat
      BY <2>1
    <2>3. /\ f.kind = "commit" /\ f.kind # "grant" /\ f.task = k[1] /\ f.attempt = k[2]
          /\ f.commit = commits'[k]
      BY <1>3 DEF Decision
    <2>4. f \in Facts
      BY <1>3, <2>1, <2>2 DEF Decision, Facts
    <2>. QED  BY Zenon, <2>2, <2>3, <2>4 DEF Holds
  <1>. QED  BY Zenon, <1>2, <1>3 DEF NewFacts

-----------------------------------------------------------------------------
(* The file backend *)

StoreInv ==
    /\ IInv
    /\ Sound(disk.tasks, disk.queue, disk.commits, disk.controlOps)
    /\ disk = [tasks |-> disk.tasks, queue |-> disk.queue, commits |-> disk.commits,
               controlOps |-> disk.controlOps]
    /\ told \subseteq Facts /\ kept \subseteq Facts
    /\ \A f \in kept : Holds(f, disk.tasks, disk.commits)
    /\ up => \A f \in told \cup kept : Holds(f, tasks, commits)
    /\ ~up => told = {}

\* A step of the scheduler, written to the file at once, later or not at all.
LEMMA PersistedStep ==
    ASSUME StoreInv, up, up' = up, [Next]_vars, NEW facts \in SUBSET Facts,
           \A f \in facts : Holds(f, tasks', commits'),
           \/ Persist(facts)
           \/ UNCHANGED <<disk, told, kept>>
           \/ UNCHANGED <<disk, kept>> /\ told' = told \cup facts
    PROVE  StoreInv'
  <1>1. IInv'
    BY NextInv DEF StoreInv
  <1>2. \A f \in told \cup kept : Holds(f, tasks', commits')
    <2>. TAKE f \in told \cup kept
    <2>1. f \in Facts /\ Holds(f, tasks, commits)
      BY Zenon DEF StoreInv
    <2>2. IInv
      BY DEF StoreInv
    <2>. HIDE DEF StoreInv
    <2>. QED  BY <2>1, <2>2, NothingTakenBack, HoldsKept
  <1>3. CASE Persist(facts)
    <2>1. disk' = [tasks |-> tasks', queue |-> queue', commits |-> commits', controlOps |-> controlOps']
      BY <1>3 DEF Persist
    <2>2. /\ disk'.tasks = tasks' /\ disk'.queue = queue' /\ disk'.commits = commits'
          /\ disk'.controlOps = controlOps'
      BY <2>1
    <2>3. Sound(tasks', queue', commits', controlOps')
      <3>1. IInv' => Sound(tasks, queue, commits, controlOps)'
        BY SoundIsInv, PTL
      <3>. QED  BY <1>1, <3>1
    <2>4. Sound(disk'.tasks, disk'.queue, disk'.commits, disk'.controlOps)
      BY Zenon, <2>2, <2>3
    <2>5. told' = {} /\ kept' = kept \cup told \cup facts
      BY <1>3 DEF Persist
    <2>6. \A f \in kept' : f \in Facts /\ Holds(f, tasks', commits')
      BY Zenon, <1>2, <2>5 DEF StoreInv
    <2>7. \A f \in kept' : Holds(f, disk'.tasks, disk'.commits)
      BY Zenon, <2>2, <2>6
    <2>. QED  BY ZenonT(60), <1>1, <2>1, <2>2, <2>4, <2>5, <2>6, <2>7 DEF StoreInv
  <1>4. CASE UNCHANGED <<disk, kept>> /\ (told' = told \/ told' = told \cup facts)
    <2>1. \A f \in told' \cup kept' : f \in Facts /\ Holds(f, tasks', commits')
      BY Zenon, <1>2, <1>4 DEF StoreInv
    <2>. QED  BY Zenon, <1>1, <1>4, <2>1 DEF StoreInv
  <1>. QED  BY <1>3, <1>4

\* maybePersistLocked after an operation.
LEMMA MaybePersistStep ==
    ASSUME StoreInv, up, [Next]_vars, NEW facts \in SUBSET Facts,
           \A f \in facts : Holds(f, tasks', commits'), MaybePersist(facts)
    PROVE  StoreInv'
  <1>1. \/ Persist(facts)
        \/ UNCHANGED <<disk, told, kept>>
        \/ UNCHANGED <<disk, kept>> /\ told' = told \cup facts
    BY Zenon DEF MaybePersist, PersistFails, PersistLater
  <1>2. up' = up
    BY Zenon DEF MaybePersist
  <1>. QED  BY <1>1, <1>2, PersistedStep

\* The state of a scheduler that starts is sound.
LEMMA StartSound ==
    ASSUME tasks' = [t \in Tasks |-> Absent], queue' = <<>>, commits' = <<>>, controlOps' = <<>>,
           lastPriority' = "", lastConsecutive' = 0, polls' = <<>>
    PROVE  IInv'
  <1>1. Init'
    BY Zenon DEF Init
  <1>. QED  BY <1>1, InitInv, PTL

\* NewFileStore: what it restores is as sound as the file.
LEMMA ReopenStep == ASSUME StoreInv, Reopen PROVE StoreInv'
  <1>. DEFINE tk == disk.tasks
  <1>1. /\ Sound(tk, disk.queue, disk.commits, disk.controlOps) /\ tk \in [Tasks -> TaskRecord]
        /\ \A f \in kept : Holds(f, tk, disk.commits)
    BY Zenon DEF StoreInv, Sound
  <1>2. /\ tasks' = [t \in Tasks |-> RestoredRecord(tk[t])] /\ queue' = disk.queue
        /\ commits' = disk.commits /\ controlOps' = disk.controlOps
        /\ UNCHANGED <<lastPriority, lastConsecutive, polls>>
        /\ UNCHANGED <<disk, told, kept>>
    BY Zenon DEF Reopen
  <1>3. \A t \in Tasks : /\ tasks'[t] = RestoredRecord(tk[t]) /\ tasks'[t] \in TaskRecord
                         /\ SameHistory(tk[t], tasks'[t])
    BY Zenon, <1>1, <1>2, RestoredHistory
  <1>4. tasks' \in [Tasks -> TaskRecord]
    BY Zenon, <1>2, <1>3
  <1>5. Sound(tasks', queue', commits', controlOps')
    <2>1. Sound(tasks', disk.queue, disk.commits, disk.controlOps)
      BY <1>1, <1>3, <1>4, SoundKept
    <2>. QED  BY Zenon, <1>2, <2>1
  <1>6. IInv'
    <2>1. Counters
      BY SoundIsInv DEF StoreInv
    <2>2. Counters'
      BY Zenon, <1>2, <2>1 DEF Counters
    <2>3. Sound(tasks, queue, commits, controlOps)' /\ Counters' => IInv'
      BY SoundIsInv, PTL
    <2>. QED  BY <1>5, <2>2, <2>3
  <1>7. \A f \in kept : f \in Facts /\ Holds(f, tasks', commits')
    <2>. TAKE f \in kept
    <2>1. f \in Facts /\ Holds(f, tk, disk.commits)
      BY Zenon, <1>1 DEF StoreInv
    <2>2. \A t \in Tasks : /\ Len(tk[t].attempts) \in Nat /\ Len(tasks'[t].attempts) \in Nat
                           /\ Len(tk[t].attempts) <= Len(tasks'[t].attempts)
      <3>. TAKE t \in Tasks
      <3>1. tk[t] \in TaskRecord /\ tasks'[t].attempts = tk[t].attempts
        BY Zenon, <1>1, <1>3 DEF SameHistory
      <3>2. Len(tk[t].attempts) \in Nat
        BY <3>1 DEF TaskRecord
      <3>. QED  BY <3>1, <3>2
    <2>. HIDE DEF tk
    <2>. QED  BY <1>2, <2>1, <2>2, HoldsKept
  <1>8. \A f \in told' \cup kept' : Holds(f, tasks', commits')
    BY Zenon, <1>2, <1>7 DEF StoreInv, Reopen
  <1>. QED  BY Zenon, <1>1, <1>2, <1>6, <1>8 DEF StoreInv, Reopen

\* Time passes in memory and for the deadlines in the file.
LEMMA StoreTickStep == ASSUME StoreInv, StoreTick PROVE StoreInv'
  <1>. DEFINE tk == disk.tasks
  <1>1. /\ Sound(tk, disk.queue, disk.commits, disk.controlOps) /\ tk \in [Tasks -> TaskRecord]
        /\ \A f \in kept : Holds(f, tk, disk.commits)
    BY Zenon DEF StoreInv, Sound
  <1>2. Tick /\ UNCHANGED <<up, told, kept>>
    BY Zenon DEF StoreTick
  <1>3. /\ disk' = [tasks |-> disk'.tasks, queue |-> disk'.queue, commits |-> disk'.commits,
                    controlOps |-> disk'.controlOps]
        /\ disk'.tasks = [t \in Tasks |-> Elapse(tk[t])]
        /\ disk'.queue = disk.queue /\ disk'.commits = disk.commits
        /\ disk'.controlOps = disk.controlOps
    <2>. DEFINE later == [t \in Tasks |-> Elapse(tk[t])]
    <2>1. disk' = [disk EXCEPT !.tasks = later]
      BY Zenon DEF StoreTick
    <2>2. disk = [tasks |-> disk.tasks, queue |-> disk.queue, commits |-> disk.commits,
                  controlOps |-> disk.controlOps]
      BY Zenon DEF StoreInv
    <2>. HIDE DEF later
    <2>3. disk' = [tasks |-> later, queue |-> disk.queue, commits |-> disk.commits,
                   controlOps |-> disk.controlOps]
      BY <2>1, <2>2
    <2>. QED  BY <2>3 DEF later
  <1>4. \A t \in Tasks : /\ disk'.tasks[t] \in TaskRecord
                         /\ SameHistory(tk[t], disk'.tasks[t])
    BY Zenon, <1>1, <1>3, ElapseHistory
  <1>5. disk'.tasks \in [Tasks -> TaskRecord]
    BY Zenon, <1>3, <1>4
  <1>6. Sound(disk'.tasks, disk'.queue, disk'.commits, disk'.controlOps)
    <2>1. Sound(disk'.tasks, disk.queue, disk.commits, disk.controlOps)
      BY Zenon, <1>1, <1>4, <1>5, SoundKept
    <2>. QED  BY Zenon, <1>3, <2>1
  <1>7. [Next]_vars /\ IInv /\ IInv'
    BY <1>2, NextInv DEF StoreInv, Next
  <1>8. \A f \in kept : Holds(f, disk'.tasks, disk'.commits)
    <2>. TAKE f \in kept
    <2>1. f \in Facts /\ Holds(f, tk, disk.commits)
      BY Zenon, <1>1 DEF StoreInv
    <2>2. \A t \in Tasks : /\ Len(tk[t].attempts) \in Nat /\ Len(disk'.tasks[t].attempts) \in Nat
                           /\ Len(tk[t].attempts) <= Len(disk'.tasks[t].attempts)
      <3>. TAKE t \in Tasks
      <3>1. tk[t] \in TaskRecord /\ disk'.tasks[t].attempts = tk[t].attempts
        BY Zenon, <1>1, <1>4 DEF SameHistory
      <3>2. Len(tk[t].attempts) \in Nat
        BY <3>1 DEF TaskRecord
      <3>. QED  BY <3>1, <3>2
    <2>. HIDE DEF tk
    <2>. QED  BY <1>3, <2>1, <2>2, HoldsKept
  <1>9. up => \A f \in told' \cup kept' : Holds(f, tasks', commits')
    <2>. SUFFICES ASSUME up, NEW f \in told \cup kept PROVE Holds(f, tasks', commits')
      BY Zenon, <1>2
    <2>1. f \in Facts /\ Holds(f, tasks, commits)
      BY Zenon DEF StoreInv
    <2>. QED  BY <1>7, <2>1, NothingTakenBack, HoldsKept
  <1>. QED  BY Zenon, <1>2, <1>3, <1>6, <1>7, <1>8, <1>9 DEF StoreInv

\* Every step of the store preserves the invariant.
LEMMA StoreNextInv == StoreInv /\ [StoreNext]_storeVars => StoreInv'
  <1>. SUFFICES ASSUME StoreInv, [StoreNext]_storeVars PROVE StoreInv'
    OBVIOUS
  <1>0. IInv
    BY DEF StoreInv
  <1>1. CASE StoreOperation
    <2>1. up /\ [Next]_vars /\ MaybePersist(NewFacts)
      BY Zenon, <1>1 DEF StoreOperation, Next
    <2>2. IInv'
      BY <1>0, <2>1, NextInv
    <2>3. NewFacts \subseteq Facts /\ \A f \in NewFacts : Holds(f, tasks', commits')
      BY <1>0, <2>2, NewFactsHold
    <2>. QED  BY <2>1, <2>3, MaybePersistStep
  <1>2. CASE StoreClaimNone
    <2>1. up /\ up' = up /\ [Next]_vars /\ UNCHANGED <<disk, told, kept>>
      BY Zenon, <1>2 DEF StoreClaimNone, Next
    <2>2. {} \in SUBSET Facts /\ \A f \in {} : Holds(f, tasks', commits')
      BY Zenon
    <2>. QED  BY Zenon, <2>1, <2>2, PersistedStep
  <1>3. CASE Repeat
    <2>1. up /\ UNCHANGED vars /\ tasks' = tasks /\ commits' = commits
      BY Zenon, <1>3 DEF Repeat, vars, state
    <2>2. CASE MaybePersist({})
      <3>1. {} \in SUBSET Facts /\ \A f \in {} : Holds(f, tasks', commits')
        BY Zenon
      <3>. QED  BY <2>1, <2>2, <3>1, MaybePersistStep
    <2>3. ASSUME NEW k \in DOMAIN commits, MaybePersist({Decision(k[1], k[2], commits[k])})
          PROVE  StoreInv'
      <3>. DEFINE f == Decision(k[1], k[2], commits[k])
      <3>1. k \in Tasks \X Nat /\ commits[k] \in Commit
        BY Zenon, <1>0 DEF IInv, TypeOK
      <3>2. k = <<k[1], k[2]>> /\ k[1] \in Tasks /\ k[2] \in Nat
        BY <3>1
      <3>3. /\ f.kind = "commit" /\ f.kind # "grant" /\ f.task = k[1] /\ f.attempt = k[2]
            /\ f.commit = commits[k]
        BY DEF Decision
      <3>4. f \in Facts
        BY <3>1, <3>2 DEF Decision, Facts
      <3>. HIDE DEF f
      <3>5. Holds(f, tasks', commits')
        BY Zenon, <2>1, <3>2, <3>3 DEF Holds
      <3>6. {f} \in SUBSET Facts /\ \A g \in {f} : Holds(g, tasks', commits')
        BY Zenon, <3>4, <3>5
      <3>7. MaybePersist({f})
        BY <2>3 DEF f
      <3>. QED  BY <2>1, <3>6, <3>7, MaybePersistStep
    <2>. QED  BY Zenon, <1>3, <2>2, <2>3 DEF Repeat
  <1>4. CASE Flush
    <2>1. /\ up /\ up' = up /\ UNCHANGED vars
          /\ Persist({}) \/ UNCHANGED <<disk, told, kept>>
      BY Zenon, <1>4 DEF Flush, PersistFails
    <2>2. {} \in SUBSET Facts /\ \A f \in {} : Holds(f, tasks', commits')
      BY Zenon
    <2>. QED  BY <2>1, <2>2, PersistedStep
  <1>5. CASE Crash
    <2>1. IInv'
      BY Zenon, <1>5, StartSound DEF Crash
    <2>. QED  BY Zenon, <1>5, <2>1 DEF Crash, StoreInv
  <1>6. CASE Reopen
    BY <1>6, ReopenStep
  <1>7. CASE StoreTick
    BY <1>7, StoreTickStep
  <1>8. CASE UNCHANGED storeVars
    <2>1. UNCHANGED vars /\ UNCHANGED <<tasks, commits, disk, up, told, kept>>
      BY Zenon, <1>8 DEF storeVars, vars, state
    <2>2. IInv'
      BY <1>0, <2>1, NextInv
    <2>. QED  BY Zenon, <2>1, <2>2 DEF StoreInv
  <1>. QED  BY Zenon, <1>1, <1>2, <1>3, <1>4, <1>5, <1>6, <1>7, <1>8 DEF StoreNext

\* A store that starts on an empty file satisfies the invariant.
LEMMA StoreStart == StoreInit => StoreInv
  <1>. SUFFICES ASSUME StoreInit PROVE StoreInv
    OBVIOUS
  <1>1. IInv
    BY InitInv DEF StoreInit
  <1>2. disk = [tasks |-> tasks, queue |-> queue, commits |-> commits, controlOps |-> controlOps]
    BY DEF StoreInit
  <1>3. /\ disk.tasks = tasks /\ disk.queue = queue /\ disk.commits = commits
        /\ disk.controlOps = controlOps
    BY <1>2
  <1>4. Sound(disk.tasks, disk.queue, disk.commits, disk.controlOps)
    BY Zenon, <1>1, <1>3, SoundIsInv
  <1>. QED  BY Zenon, <1>1, <1>2, <1>3, <1>4 DEF StoreInv, StoreInit

\* The invariant holds in every state the store reaches.
LEMMA StoreInvariance == StoreSpec => []StoreInv
  BY StoreStart, StoreNextInv, PTL DEF StoreSpec

\* What a caller was told and a write covers is in the file and in every
\* process that runs on it, through crashes, failed writes and restarts.
THEOREM WrittenFactsStand == StoreSpec => []WrittenFactsSurvive
  <1>1. StoreInv => WrittenFactsSurvive
    BY Zenon DEF StoreInv, WrittenFactsSurvive
  <1>. QED  BY <1>1, StoreInvariance, PTL

\* What a restart brings back has one live attempt per task, loses no queued
\* task and agrees with its commits.
THEOREM RestartIsSound == StoreSpec => []RestartedStateIsSound
  <1>1. StoreInv => RestartedStateIsSound
    BY Zenon DEF StoreInv, RestartedStateIsSound, IInv
  <1>. QED  BY <1>1, StoreInvariance, PTL

-----------------------------------------------------------------------------
(* Whether the file can be opened again *)

\* A queue of queued tasks only, each in it once.
ExactQueue(tk, q) ==
    /\ \A i \in 1..Len(q) : tk[q[i]].state = "queued"
    /\ \A i, j \in 1..Len(q) : q[i] = q[j] => i = j

LEMMA ExactAppend ==
    ASSUME NEW q \in Seq(Tasks), NEW tk, NEW tl, NEW u \in Tasks, ExactQueue(tk, q),
           tk[u].state # "queued", tl[u].state = "queued",
           \A t \in Tasks \ {u} : tk[t].state = "queued" => tl[t].state = "queued"
    PROVE  ExactQueue(tl, Append(q, u))
  <1>. DEFINE l == Append(q, u)
  <1>1. /\ Len(q) \in Nat /\ Len(l) = Len(q) + 1 /\ l[Len(q) + 1] = u
        /\ \A i \in 1..Len(q) : l[i] = q[i] /\ q[i] \in Tasks
    OBVIOUS
  <1>2. \A i \in 1..Len(q) : q[i] # u /\ tl[q[i]].state = "queued"
    BY Zenon, <1>1 DEF ExactQueue
  <1>. HIDE DEF l
  <1>3. \A i \in 1..Len(l) : i \in 1..Len(q) \/ i = Len(q) + 1
    BY <1>1
  <1>4. \A i \in 1..Len(l) : tl[l[i]].state = "queued"
    BY Zenon, <1>1, <1>2, <1>3
  <1>5. \A i, j \in 1..Len(l) : l[i] = l[j] => i = j
    BY <1>1, <1>2, <1>3 DEF ExactQueue
  <1>. QED  BY Zenon, <1>4, <1>5 DEF ExactQueue, l

LEMMA ExactConcat ==
    ASSUME NEW q \in Seq(Tasks), NEW r \in Seq(Tasks), NEW tk, NEW tl, ExactQueue(tk, q),
           ExactQueue(tl, r), \A i \in 1..Len(r) : tk[r[i]].state # "queued",
           \A t \in Tasks : tk[t].state = "queued" => tl[t].state = "queued"
    PROVE  ExactQueue(tl, q \o r)
  <1>. DEFINE l == q \o r
  <1>1. /\ Len(q) \in Nat /\ Len(r) \in Nat /\ Len(l) = Len(q) + Len(r)
        /\ \A i \in 1..Len(l) : l[i] = IF i <= Len(q) THEN q[i] ELSE r[i - Len(q)]
    BY Joined
  <1>2. /\ \A i \in 1..Len(q) : q[i] \in Tasks /\ tk[q[i]].state = "queued" /\ tl[q[i]].state = "queued"
        /\ \A i, j \in 1..Len(q) : q[i] = q[j] => i = j
        /\ \A i \in 1..Len(r) : r[i] \in Tasks /\ tk[r[i]].state # "queued" /\ tl[r[i]].state = "queued"
        /\ \A i, j \in 1..Len(r) : r[i] = r[j] => i = j
    BY DEF ExactQueue
  <1>. HIDE DEF l
  <1>3. ASSUME NEW i \in 1..Len(l)
        PROVE  \/ i \in 1..Len(q) /\ l[i] = q[i]
               \/ i - Len(q) \in 1..Len(r) /\ l[i] = r[i - Len(q)]
    BY <1>1
  <1>4. ASSUME NEW i \in 1..Len(l) PROVE tl[l[i]].state = "queued"
    <2>1. CASE i \in 1..Len(q) /\ l[i] = q[i]
      BY Zenon, <1>2, <2>1
    <2>2. CASE i - Len(q) \in 1..Len(r) /\ l[i] = r[i - Len(q)]
      BY Zenon, <1>2, <2>2
    <2>. QED  BY <1>3, <2>1, <2>2
  <1>5. ASSUME NEW i \in 1..Len(l), NEW j \in 1..Len(l), l[i] = l[j] PROVE i = j
    <2>1. CASE i \in 1..Len(q) /\ l[i] = q[i] /\ j \in 1..Len(q) /\ l[j] = q[j]
      BY Zenon, <1>2, <1>5, <2>1
    <2>2. CASE i - Len(q) \in 1..Len(r) /\ l[i] = r[i - Len(q)]
               /\ j - Len(q) \in 1..Len(r) /\ l[j] = r[j - Len(q)]
      <3>1. i - Len(q) = j - Len(q)
        BY Zenon, <1>2, <1>5, <2>2
      <3>. QED  BY <1>1, <3>1
    <2>3. ASSUME NEW m \in 1..Len(q), NEW n \in 1..Len(r), q[m] = r[n] PROVE FALSE
      BY Zenon, <1>2, <2>3
    <2>4. CASE i \in 1..Len(q) /\ l[i] = q[i] /\ j - Len(q) \in 1..Len(r) /\ l[j] = r[j - Len(q)]
      BY Zenon, <1>5, <2>3, <2>4
    <2>5. CASE j \in 1..Len(q) /\ l[j] = q[j] /\ i - Len(q) \in 1..Len(r) /\ l[i] = r[i - Len(q)]
      BY Zenon, <1>5, <2>3, <2>5
    <2>. QED  BY Zenon, <1>3, <2>1, <2>2, <2>4, <2>5
  <1>. QED  BY Zenon, <1>4, <1>5 DEF ExactQueue, l

LEMMA ExactWithout ==
    ASSUME NEW q \in Seq(Tasks), NEW k \in 1..Len(q), NEW tk, NEW tl, ExactQueue(tk, q),
           \A t \in Tasks \ {q[k]} : tk[t].state = "queued" => tl[t].state = "queued"
    PROVE  ExactQueue(tl, Without(q, k))
  <1>. DEFINE l == Without(q, k)
              at(j) == IF j < k THEN j ELSE j + 1
  <1>1. Len(q) \in Nat /\ k \in Nat /\ \A i \in 1..Len(q) : q[i] \in Tasks
    OBVIOUS
  <1>2. Len(l) = Len(q) - 1 /\ \A j \in 1..(Len(q) - 1) : l[j] = q[at(j)]
    BY <1>1 DEF Without
  <1>3. /\ \A j \in 1..Len(l) : at(j) \in 1..Len(q) /\ at(j) # k
        /\ \A i, j \in 1..Len(l) : at(i) = at(j) => i = j
    BY <1>1, <1>2
  <1>4. \A j \in 1..Len(l) : l[j] = q[at(j)]
    BY Zenon, <1>2
  <1>. HIDE DEF l, at
  <1>5. \A j \in 1..Len(l) : tl[l[j]].state = "queued"
    BY <1>1, <1>3, <1>4 DEF ExactQueue
  <1>6. \A i, j \in 1..Len(l) : l[i] = l[j] => i = j
    BY <1>3, <1>4 DEF ExactQueue
  <1>. QED  BY Zenon, <1>5, <1>6 DEF ExactQueue, l

\* The tasks whose leases ran out go back to the queue once each.
LEMMA ExactExpiry ==
    ASSUME TypeOK, NEW delay \in ExpiryDelays, NEW requeued \in ExpiryRequeues,
           ExactQueue(tasks, queue)
    PROVE  ExactQueue(ExpireLeases(delay), queue \o requeued)
  <1>. DEFINE R == {t \in ExpiredLeases : RetryState(Len(tasks[t].attempts)) = "queued"}
              tk == ExpireLeases(delay)
  <1>1. queue \in Seq(Tasks) /\ requeued \in Seq(Tasks)
    BY Zenon, ExpiryByRecord DEF TypeOK
  <1>2. ASSUME NEW t \in R
        PROVE  t \in Tasks /\ tasks[t].state = "running" /\ tk[t].state = "queued"
    <2>1. t \in ExpiredLeases /\ t \in Tasks /\ tasks[t] \in TaskRecord /\ tasks[t].state = "running"
      BY Zenon DEF ExpiredLeases, LeaseExpired, TypeOK
    <2>2. tk[t] = HandleRetryTransition(tasks[t], delay[t])
      BY Zenon, <2>1 DEF ExpireLeases
    <2>3. HandleRetryTransition(tasks[t], delay[t]).state = RetryState(Len(tasks[t].attempts))
      BY Zenon, <2>1 DEF HandleRetryTransition, TaskRecord
    <2>. QED  BY Zenon, <2>1, <2>2, <2>3
  <1>3. \A t \in Tasks : tasks[t].state = "queued" => tk[t].state = "queued"
    BY Zenon DEF ExpireLeases, ExpiredLeases, LeaseExpired
  <1>4. requeued \in Ascending(R) /\ R \in SUBSET Nat
    <2>1. R \in SUBSET Tasks
      BY DEF ExpiredLeases
    <2>2. requeued \in Ascending(R)
      BY Zenon DEF ExpiryRequeues
    <2>. QED  BY Zenon, <2>1, <2>2, TasksAssumption
  <1>. HIDE DEF R, tk
  <1>5. /\ DOMAIN requeued = 1..Len(requeued)
        /\ \A i \in 1..Len(requeued) : requeued[i] \in R
        /\ \A i, j \in 1..Len(requeued) : i < j => requeued[i] < requeued[j]
    <2>1. requeued \in Seq(R)
      BY Zenon, <1>4 DEF Ascending
    <2>2. DOMAIN requeued = 1..Len(requeued) /\ \A i \in 1..Len(requeued) : requeued[i] \in R
      BY <2>1
    <2>. QED  BY Zenon, <1>4, <2>2 DEF Ascending
  <1>6. \A i, j \in 1..Len(requeued) : requeued[i] = requeued[j] => i = j
    <2>. TAKE i, j \in 1..Len(requeued)
    <2>1. i \in Int /\ j \in Int
      BY <1>1
    <2>2. requeued[i] \in Nat /\ requeued[j] \in Nat
      BY Zenon, <1>4, <1>5
    <2>. QED  BY <1>5, <2>1, <2>2
  <1>7. \A i \in 1..Len(requeued) : tasks[requeued[i]].state = "running" /\ tk[requeued[i]].state = "queued"
    BY Zenon, <1>2, <1>5
  <1>8. ExactQueue(tk, requeued) /\ \A i \in 1..Len(requeued) : tasks[requeued[i]].state # "queued"
    BY Zenon, <1>6, <1>7 DEF ExactQueue
  <1>9. ExactQueue(tk, queue \o requeued)
    BY Zenon, <1>1, <1>3, <1>8, ExactConcat
  <1>. QED  BY <1>9 DEF tk

\* Without control operations the queue has the queued tasks, each once: only
\* a cancel leaves the id of a task that is not queued behind.
LEMMA ExactStep ==
    ASSUME OpIDs = {}, TypeOK, Next, ExactQueue(tasks, queue)
    PROVE  ExactQueue(tasks', queue')
  <1>. DEFINE Goal == ExactQueue(tasks', queue')
  <1>0. queue \in Seq(Tasks) /\ DOMAIN tasks = Tasks /\ \A t \in Tasks : tasks[t] \in TaskRecord
    BY Zenon DEF TypeOK
  <1>k. ASSUME queue' = queue,
               \A t \in Tasks : tasks[t].state = "queued" => tasks'[t].state = "queued"
        PROVE  Goal
    <2>1. \A i \in 1..Len(queue) : queue[i] \in Tasks
      BY <1>0
    <2>. QED  BY Zenon, <1>k, <2>1 DEF ExactQueue
  \* A step of one task, which was not queued.
  <1>o. ASSUME NEW u \in Tasks, NEW s, tasks[u].state # "queued", tasks' = [tasks EXCEPT ![u] = s]
        PROVE  /\ queue' = queue => Goal
               /\ queue' = Append(queue, u) /\ s.state = "queued" => Goal
    <2>1. tasks'[u] = s /\ \A t \in Tasks \ {u} : tasks'[t] = tasks[t]
      BY Zenon, <1>0, <1>o
    <2>2. queue' = queue => Goal
      BY <1>k, <1>o, <2>1
    <2>3. ASSUME queue' = Append(queue, u), s.state = "queued" PROVE Goal
      <3>1. tasks'[u].state = "queued"
        BY <2>1, <2>3
      <3>2. \A t \in Tasks \ {u} : tasks[t].state = "queued" => tasks'[t].state = "queued"
        BY Zenon, <2>1
      <3>3. ExactQueue(tasks', Append(queue, u))
        BY Zenon, <1>0, <1>o, <3>1, <3>2, ExactAppend
      <3>. QED  BY Zenon, <2>3, <3>3
    <2>. QED  BY <2>2, <2>3
  <1>1. ASSUME NEW u \in Tasks, NEW nb, Enqueue(u, nb) PROVE Goal
    <2>1. NewRecord(nb).state = "queued"
      BY Zenon DEF NewRecord
    <2>. QED  BY Zenon, <1>1, <1>o, <2>1 DEF Enqueue
  <1>2. ASSUME NEW u \in Tasks, WorkerCall(u) PROVE Goal
    <2>1. ASSUME NEW a, Heartbeat(u, a) PROVE Goal
      <3>1. tasks[u].state # "queued" /\ queue' = queue
            /\ tasks' = [tasks EXCEPT ![u] = [tasks[u] EXCEPT !.lease = LeaseTimeout]]
        BY <1>0, <2>1 DEF Heartbeat
      <3>. QED  BY Zenon, <1>o, <3>1
    <2>2. ASSUME NEW a, MarkAwaitingReport(u, a) PROVE Goal
      <3>1. tasks[u].state # "queued" /\ queue' = queue
            /\ tasks' = [tasks EXCEPT ![u] = AwaitingReport(tasks[u])]
        BY <1>0, <2>2 DEF MarkAwaitingReport
      <3>. QED  BY Zenon, <1>o, <3>1
    <2>3. ASSUME NEW a, NEW c, NEW bound, CommitTerminal(u, a, c, bound) PROVE Goal
      <3>1. tasks[u].state # "queued" /\ queue' = queue
            /\ tasks' = [tasks EXCEPT ![u] = Decided(tasks[u], c)]
        BY Zenon, <1>0, <2>3 DEF CommitTerminal, ApplyTerminalCommit
      <3>. QED  BY Zenon, <1>o, <3>1
    <2>. QED  BY Zenon, <1>2, <2>1, <2>2, <2>3 DEF WorkerCall
  <1>3. ASSUME NEW u \in Tasks, NEW a, NEW c, NEW bound, CommitAsyncReportTerminal(u, a, c, bound)
        PROVE  Goal
    <2>1. CASE AsyncReportAnswer(u, a, bound) = "applied" /\ ApplyTerminalCommit(u, a, c)
      <3>1. tasks[u].state = "awaiting_report"
        BY Zenon, <2>1 DEF AsyncReportAnswer
      <3>2. tasks[u].state # "queued" /\ queue' = queue
            /\ tasks' = [tasks EXCEPT ![u] = Decided(tasks[u], c)]
        BY <1>0, <2>1, <3>1 DEF ApplyTerminalCommit
      <3>. QED  BY Zenon, <1>o, <3>2
    <2>2. CASE RecordDuplicateReport(u, a, c)
      <3>1. PICK b : tasks' = [tasks EXCEPT ![u] = [tasks[u] EXCEPT !.conflict = b]]
        BY Zenon, <1>0, <2>2 DEF RecordDuplicateReport
      <3>2. tasks'[u].state = tasks[u].state /\ \A t \in Tasks \ {u} : tasks'[t] = tasks[t]
        BY Zenon, <1>0, <3>1 DEF TaskRecord
      <3>. QED  BY Zenon, <1>k, <2>2, <3>2 DEF RecordDuplicateReport
    <2>. QED  BY Zenon, <1>3, <2>1, <2>2 DEF CommitAsyncReportTerminal
  <1>4. ASSUME NEW u \in Tasks, RemoteCall(u) PROVE Goal
    BY Zenon, <1>3, <1>4 DEF RemoteCall, AsyncReport
  <1>5. ASSUME NEW u \in Tasks, ControlCall(u) PROVE Goal
    BY Zenon, <1>5 DEF ControlCall
  <1>6. ASSUME NEW u \in Tasks, Requeue(u) PROVE Goal
    <2>1. PICK d : tasks' = [tasks EXCEPT ![u] = HandleRetryTransition(tasks[u], d)]
      BY Zenon, <1>0, <1>6 DEF Requeue
    <2>2. HandleRetryTransition(tasks[u], d).state = RetryState(Len(tasks[u].attempts))
      BY Zenon, <1>0 DEF HandleRetryTransition, TaskRecord
    <2>3. tasks[u].state # "queued"
      BY Zenon, <1>6 DEF Requeue
    <2>. QED  BY Zenon, <1>6, <1>o, <2>1, <2>2, <2>3 DEF Requeue
  <1>7. CASE ClaimTask
    <2>1. PICK delay \in ExpiryDelays, requeued \in ExpiryRequeues :
             \E i \in 1..Len(queue \o requeued) :
                /\ queue' = Without(queue \o requeued, i)
                /\ tasks' = [ExpireLeases(delay) EXCEPT
                               ![(queue \o requeued)[i]] = StartAttempt(@)]
      BY Zenon, <1>7 DEF ClaimTask
    <2>. DEFINE tk == ExpireLeases(delay)
                q  == queue \o requeued
    <2>2. PICK i \in 1..Len(q) :
             queue' = Without(q, i) /\ tasks' = [tk EXCEPT ![q[i]] = StartAttempt(@)]
      BY Zenon, <2>1
    <2>3. q \in Seq(Tasks) /\ DOMAIN tk = Tasks
      BY Zenon, <1>0, ExpiryByRecord, Joined
    <2>4. ExactQueue(tk, q)
      BY ExactExpiry
    <2>. HIDE DEF tk, q
    <2>5. \A t \in Tasks \ {q[i]} : tasks'[t] = tk[t]
      BY Zenon, <2>2, <2>3
    <2>6. \A t \in Tasks \ {q[i]} : tk[t].state = "queued" => tasks'[t].state = "queued"
      BY Zenon, <2>5
    <2>7. ExactQueue(tasks', Without(q, i))
      BY Zenon, <2>3, <2>4, <2>6, ExactWithout
    <2>. QED  BY Zenon, <2>2, <2>7
  <1>8. CASE ClaimNone \/ ExpireLeasesCall
    <2>1. PICK delay \in ExpiryDelays, requeued \in ExpiryRequeues :
             tasks' = ExpireLeases(delay) /\ queue' = queue \o requeued
      BY Zenon, <1>8 DEF ClaimNone, ExpireLeasesCall
    <2>. QED  BY <2>1, ExactExpiry
  <1>9. CASE ExpireAwaitingReports
    <2>1. queue' = queue /\ \A t \in Tasks : tasks[t].state = "queued" => tasks'[t] = tasks[t]
      BY Zenon, <1>9 DEF ExpireAwaitingReports, ExpiredReports, ReportTimedOut
    <2>. QED  BY Zenon, <1>k, <2>1
  <1>10. ASSUME NEW c \in Outcome("reconcile_poll"), ReconcileCommit(c) PROVE Goal
    <2>1. Head(polls) \in Tasks \X Nat
      BY Zenon, <1>10, FirstOut DEF ReconcileCommit, TypeOK
    <2>2. Head(polls)[1] \in Tasks
      BY <2>1
    <2>. QED  BY Zenon, <1>3, <1>10, <2>2 DEF ReconcileCommit
  <1>11. CASE ReconcileList \/ ReconcileSkip
    BY Zenon, <1>11 DEF ReconcileList, ReconcileSkip, state
  <1>12. CASE Tick
    <2>1. \A t \in Tasks : Elapse(tasks[t]).state = tasks[t].state
      BY <1>0 DEF Elapse, TaskRecord
    <2>2. queue' = queue /\ \A t \in Tasks : tasks'[t] = Elapse(tasks[t])
      BY Zenon, <1>12 DEF Tick
    <2>. QED  BY Zenon, <1>k, <2>1, <2>2
  <1>. QED  BY ZenonT(60), <1>1, <1>2, <1>4, <1>5, <1>6, <1>7, <1>8, <1>9, <1>10, <1>11, <1>12
            DEF Next, Operation

ReopenInv ==
    /\ StoreInv
    /\ ExactQueue(tasks, queue)
    /\ ExactQueue(disk.tasks, disk.queue)

\* Timers do not matter to the queue.
LEMMA ExactKept ==
    ASSUME NEW tk, NEW tl, NEW q \in Seq(Tasks), ExactQueue(tk, q),
           \A t \in Tasks : tl[t].state = tk[t].state
    PROVE  ExactQueue(tl, q)
  <1>1. \A i \in 1..Len(q) : q[i] \in Tasks
    OBVIOUS
  <1>. QED  BY Zenon, <1>1 DEF ExactQueue

LEMMA ReopenNextInv ==
    ASSUME OpIDs = {} PROVE ReopenInv /\ [StoreNext]_storeVars => ReopenInv'
  <1>. SUFFICES ASSUME ReopenInv, [StoreNext]_storeVars PROVE ReopenInv'
    OBVIOUS
  <1>1. StoreInv /\ StoreInv' /\ TypeOK
    BY Zenon, StoreNextInv DEF ReopenInv, StoreInv, IInv
  <1>2. /\ ExactQueue(tasks, queue) /\ ExactQueue(disk.tasks, disk.queue)
        /\ disk.queue \in Seq(Tasks) /\ disk.tasks \in [Tasks -> TaskRecord]
    BY Zenon, <1>1 DEF ReopenInv, StoreInv, Sound
  <1>3. ASSUME [Next]_vars PROVE ExactQueue(tasks', queue')
    <2>1. CASE Next
      BY Zenon, <1>1, <1>2, <2>1, ExactStep
    <2>2. CASE UNCHANGED vars
      BY Zenon, <1>2, <2>2 DEF vars, state
    <2>. QED  BY <1>3, <2>1, <2>2
  <1>4. ASSUME [Next]_vars, NEW facts, disk' = disk \/ Persist(facts) PROVE ReopenInv'
    <2>1. CASE disk' = disk
      BY Zenon, <1>1, <1>2, <1>3, <1>4, <2>1 DEF ReopenInv
    <2>2. CASE Persist(facts)
      <3>1. disk'.tasks = tasks' /\ disk'.queue = queue'
        BY Zenon, <2>2 DEF Persist
      <3>. QED  BY Zenon, <1>1, <1>3, <1>4, <3>1 DEF ReopenInv
    <2>. QED  BY <1>4, <2>1, <2>2
  <1>5. ASSUME NEW facts, MaybePersist(facts) PROVE disk' = disk \/ Persist(facts)
    BY Zenon, <1>5 DEF MaybePersist, PersistFails, PersistLater
  <1>6. CASE StoreOperation \/ StoreClaimNone
    <2>1. [Next]_vars /\ (disk' = disk \/ MaybePersist(NewFacts))
      BY Zenon, <1>6 DEF StoreOperation, StoreClaimNone, Next
    <2>. QED  BY Zenon, <1>4, <1>5, <2>1
  <1>7. CASE Repeat \/ Flush
    <2>1. UNCHANGED vars /\ \E facts : disk' = disk \/ Persist(facts)
      <3>1. CASE Repeat
        BY Zenon, <1>5, <3>1 DEF Repeat
      <3>2. CASE Flush
        BY Zenon, <3>2 DEF Flush, PersistFails
      <3>. QED  BY <1>7, <3>1, <3>2
    <2>. QED  BY Zenon, <1>4, <2>1
  <1>8. CASE Crash
    <2>1. queue' = <<>> /\ disk' = disk
      BY Zenon, <1>8 DEF Crash
    <2>2. ExactQueue(tasks', queue')
      BY <2>1 DEF ExactQueue
    <2>. QED  BY Zenon, <1>1, <1>2, <2>1, <2>2 DEF ReopenInv
  <1>9. CASE Reopen
    <2>1. /\ disk' = disk /\ queue' = disk.queue
          /\ \A t \in Tasks : tasks'[t] = RestoredRecord(disk.tasks[t]) /\ disk.tasks[t] \in TaskRecord
      BY Zenon, <1>2, <1>9 DEF Reopen
    <2>2. \A t \in Tasks : tasks'[t].state = disk.tasks[t].state
      BY Zenon, <2>1, RestoredHistory DEF SameHistory
    <2>3. ExactQueue(tasks', disk.queue)
      BY <1>2, <2>2, ExactKept
    <2>. QED  BY Zenon, <1>1, <1>2, <2>1, <2>3 DEF ReopenInv
  <1>10. CASE StoreTick
    <2>1. [Next]_vars
      BY Zenon, <1>10 DEF StoreTick, Next
    <2>2. /\ disk' = [disk EXCEPT !.tasks = [t \in Tasks |-> Elapse(disk.tasks[t])]]
          /\ disk = [tasks |-> disk.tasks, queue |-> disk.queue, commits |-> disk.commits,
                     controlOps |-> disk.controlOps]
      BY Zenon, <1>1, <1>10 DEF StoreTick, StoreInv
    <2>3. disk'.queue = disk.queue /\ disk'.tasks = [t \in Tasks |-> Elapse(disk.tasks[t])]
      BY <2>2
    <2>4. \A t \in Tasks : disk'.tasks[t].state = disk.tasks[t].state
      BY Zenon, <1>2, <2>3, ElapseHistory DEF SameHistory
    <2>5. ExactQueue(disk'.tasks, disk.queue)
      BY <1>2, <2>4, ExactKept
    <2>. QED  BY Zenon, <1>1, <1>3, <2>1, <2>3, <2>5 DEF ReopenInv
  <1>11. CASE UNCHANGED storeVars
    <2>1. UNCHANGED vars /\ disk' = disk
      BY Zenon, <1>11 DEF storeVars
    <2>. QED  BY Zenon, <1>4, <2>1
  <1>. QED  BY Zenon, <1>6, <1>7, <1>8, <1>9, <1>10, <1>11 DEF StoreNext

\* restore accepts every file the store writes, as long as no task board
\* control request is made: a cancelled task stays in the queue, and the file
\* that says so is refused.
THEOREM FileReopens == ASSUME OpIDs = {} PROVE StoreSpec => []Reopenable
  <1>1. StoreInit => ReopenInv
    <2>. SUFFICES ASSUME StoreInit PROVE ReopenInv
      OBVIOUS
    <2>1. StoreInv
      BY StoreStart
    <2>2. queue = <<>> /\ disk.queue = <<>>
      <3>1. /\ queue = <<>>
            /\ disk = [tasks |-> tasks, queue |-> queue, commits |-> commits, controlOps |-> controlOps]
        BY Zenon DEF StoreInit, Init
      <3>. QED  BY Zenon, <3>1
    <2>3. \A tk : ExactQueue(tk, <<>>)
      BY DEF ExactQueue
    <2>. QED  BY Zenon, <2>1, <2>2, <2>3 DEF ReopenInv
  <1>2. ReopenInv => Reopenable
    <2>. SUFFICES ASSUME ReopenInv PROVE RestoreAccepts(disk)
      BY DEF Reopenable
    <2>. DEFINE tk == disk.tasks
                cm == disk.commits
    <2>0. Sound(tk, disk.queue, cm, disk.controlOps)
      BY Zenon DEF ReopenInv, StoreInv
    <2>1. ASSUME NEW t \in Tasks
          PROVE  IF tk[t].state \in {"running", "awaiting_report"}
                 THEN tk[t].current \in 1..Len(tk[t].attempts)
                 ELSE tk[t].current = 0
      <3>1. tk[t] \in TaskRecord /\ OneLive(tk[t])
        BY Zenon, <2>0 DEF Sound
      <3>2. tk[t].state \in Live => tk[t].current \in 1..Len(tk[t].attempts)
        BY Zenon, <3>1, LiveCurrent
      <3>. QED  BY Zenon, <3>1, <3>2 DEF OneLive, Live
    <2>2. ASSUME NEW k \in DOMAIN cm PROVE k[2] \in 1..Len(tk[k[1]].attempts)
      <3>1. k \in Tasks \X Nat
        BY Zenon, <2>0 DEF Sound
      <3>2. k = <<k[1], k[2]>> /\ k[1] \in Tasks /\ k[2] \in Nat
        BY <3>1
      <3>3. Matches(k[1], tk[k[1]], cm)
        BY Zenon, <2>0, <3>2 DEF Sound
      <3>. QED  BY Zenon, <3>2, <3>3 DEF Matches
    <2>3. ExactQueue(tk, disk.queue)
      BY DEF ReopenInv
    <2>. QED  BY Zenon, <2>1, <2>2, <2>3 DEF RestoreAccepts, ExactQueue
  <1>3. ReopenInv /\ [StoreNext]_storeVars => ReopenInv'
    BY ReopenNextInv
  <1>. QED  BY <1>1, <1>2, <1>3, PTL DEF StoreSpec
=============================================================================
