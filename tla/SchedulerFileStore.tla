-------------------------- MODULE SchedulerFileStore --------------------------
(***************************************************************************)
(* The scheduler on its file backend: orchestration/scheduler,             *)
(* store_file.go with restore of state.go.  Every operation changes the    *)
(* state in memory and then writes the whole state to one file (tmp file   *)
(* and rename, so a write happens or does not), at once or in batches.     *)
(* The process may crash between any two operations and open the file      *)
(* again; workers and remote agents outlive it and keep calling.  The      *)
(* reconcile cycle is left out: it changes the store by the same operation *)
(* as the reports of remote agents.                                        *)
(***************************************************************************)
EXTENDS Scheduler

CONSTANTS
    BatchSize,     \* PersistBatchSize; batching is off when it is 1
    Debounce,      \* PersistDebounce > 0
    WriteFails,    \* how many writes of the file may fail
    Crashes        \* how many times the process may crash

ASSUME StoreAssumption ==
    /\ BatchSize \in Nat \ {0} /\ Debounce \in BOOLEAN
    /\ WriteFails \in Nat /\ Crashes \in Nat

VARIABLES
    disk,          \* the content of the file
    pending,       \* pendingPersist, up to BatchSize
    up,            \* the process is running
    failures,      \* failed writes so far
    crashes,       \* crashes so far
    told,          \* ghost: facts acknowledged to a caller, not yet written
    kept           \* ghost: facts acknowledged and covered by a write

storeVars == <<vars, disk, pending, up, failures, crashes, told, kept>>

Batching == Debounce \/ BatchSize > 1

-----------------------------------------------------------------------------
(* Facts a caller relies on *)

Grant(t, a) == [kind |-> "grant", task |-> t, attempt |-> a]
Decision(t, a, c) == [kind |-> "commit", task |-> t, attempt |-> a, commit |-> c]

\* What the operation that is taking place tells its caller.
NewFacts ==
    {Grant(t, Len(tasks'[t].attempts)) :
        t \in {u \in Tasks : Len(tasks'[u].attempts) > Len(tasks[u].attempts)}}
    \cup {Decision(k[1], k[2], commits'[k]) : k \in DOMAIN commits' \ DOMAIN commits}

\* The fact is part of the state with tasks tk and commits cm.
Holds(f, tk, cm) ==
    CASE f.kind = "grant" -> Len(tk[f.task].attempts) >= f.attempt
      [] f.kind = "commit" -> /\ <<f.task, f.attempt>> \in DOMAIN cm
                              /\ cm[<<f.task, f.attempt>>] = f.commit

-----------------------------------------------------------------------------
(* Writing the file *)

\* maybePersistLocked writes at once, when the batch is full or the debounce
\* time is over (here: at any time).
PersistDue == ~Batching \/ Debounce \/ pending + 1 >= BatchSize

\* Mutant of Persist: the file gets the state before the operation.
PersistStale(facts) ==
    /\ disk' = [tasks |-> tasks, queue |-> queue, commits |-> commits,
                controlOps |-> controlOps]
    /\ pending' = 0
    /\ told' = {}
    /\ kept' = kept \cup told \cup facts
    /\ UNCHANGED failures

\* The file gets the fields of schedulerState that are exported: the claim
\* counters are not.  facts is what the caller is told.
Persist(facts) ==
    /\ disk' = [tasks |-> tasks', queue |-> queue', commits |-> commits',
                controlOps |-> controlOps']
    /\ pending' = 0
    /\ told' = {}
    /\ kept' = kept \cup told \cup facts
    /\ UNCHANGED failures

\* The write fails: memory keeps the change, the caller gets the error.
PersistFails ==
    /\ failures < WriteFails
    /\ failures' = failures + 1
    /\ UNCHANGED <<disk, told, kept>>

\* The write is put off to a later operation or Flush.
PersistLater(facts) ==
    /\ Batching
    /\ pending + 1 < BatchSize
    /\ pending' = pending + 1
    /\ told' = told \cup facts
    /\ UNCHANGED <<disk, failures, kept>>

MaybePersist(facts) ==
    /\ \/ PersistDue /\ Persist(facts)
       \/ /\ PersistDue
          /\ PersistFails
          /\ pending' = IF Batching /\ pending < BatchSize THEN pending + 1 ELSE pending
       \/ PersistLater(facts)
    /\ UNCHANGED <<up, crashes>>

-----------------------------------------------------------------------------
(* Operations *)

StoreOperation == up /\ Operation /\ MaybePersist(NewFacts)

\* FileStore.Claim returns before it persists when there was nothing to claim,
\* although claim may have expired leases.
StoreClaimNone ==
    /\ up
    /\ ClaimNone
    /\ UNCHANGED <<disk, pending, up, failures, crashes, told, kept>>

\* An operation that succeeds without a change: a known task is enqueued, a
\* commit or control request repeated, the statistics of a cycle recorded.
Repeat ==
    /\ up
    /\ UNCHANGED vars
    /\ \/ (\E t \in Tasks : tasks[t].state # "absent") /\ MaybePersist({})
       \/ \E k \in DOMAIN commits : MaybePersist({Decision(k[1], k[2], commits[k])})

\* Flush, when pendingPersist # 0 or batching is off.
Flush ==
    /\ up
    /\ ~Batching \/ pending > 0
    /\ UNCHANGED <<vars, up, crashes>>
    /\ Persist({}) \/ (PersistFails /\ UNCHANGED pending)

-----------------------------------------------------------------------------
(* Crash and restart *)

\* What restore demands of a snapshot.
RestoreAccepts(d) ==
    /\ \A t \in Tasks :
          IF d.tasks[t].state \in {"running", "awaiting_report"}
          THEN d.tasks[t].current \in 1..Len(d.tasks[t].attempts)
          ELSE d.tasks[t].current = 0
    /\ \A i \in 1..Len(d.queue) : d.tasks[d.queue[i]].state = "queued"
    /\ \A i, j \in 1..Len(d.queue) : d.queue[i] = d.queue[j] => i = j
    /\ \A k \in DOMAIN d.commits : k[2] \in 1..Len(d.tasks[k[1]].attempts)

\* Mutant of RestoredRecord: a running task is put back without its attempt.
RestoredAsQueued(rec) ==
    [rec EXCEPT !.state = IF rec.state = "running" THEN "queued" ELSE @,
                !.current = IF rec.state = "running" THEN 0 ELSE @]

RestoredRecord(rec) ==
    [rec EXCEPT !.eligible = IF rec.state = "queued" THEN @ ELSE 0,
                !.report = IF rec.state = "awaiting_report" THEN @ ELSE 0,
                !.source = IF rec.state \in Terminal THEN @ ELSE "",
                !.conflict = @ /\ rec.state \in Terminal]

\* The process dies; what was told but not written is lost with its memory.
Crash ==
    /\ up
    /\ crashes < Crashes
    /\ up' = FALSE
    /\ crashes' = crashes + 1
    /\ tasks' = [t \in Tasks |-> Absent]
    /\ queue' = <<>>
    /\ commits' = <<>>
    /\ controlOps' = <<>>
    /\ lastPriority' = ""
    /\ lastConsecutive' = 0
    /\ polls' = <<>>
    /\ pending' = 0
    /\ told' = {}
    /\ UNCHANGED <<disk, failures, kept>>

\* NewFileStore loads the file, or refuses it.
Reopen ==
    /\ ~up
    /\ RestoreAccepts(disk)
    /\ up' = TRUE
    /\ tasks' = [t \in Tasks |-> RestoredRecord(disk.tasks[t])]
    /\ queue' = disk.queue
    /\ commits' = disk.commits
    /\ controlOps' = disk.controlOps
    /\ UNCHANGED <<lastPriority, lastConsecutive, polls>>
    /\ UNCHANGED <<disk, pending, failures, crashes, told, kept>>

\* Deadlines in the file are points in time: they come closer there too.
StoreTick ==
    /\ Tick
    /\ disk' = [disk EXCEPT !.tasks = [t \in Tasks |-> Elapse(@[t])]]
    /\ UNCHANGED <<pending, up, failures, crashes, told, kept>>

StoreInit ==
    /\ Init
    /\ disk = [tasks |-> tasks, queue |-> queue, commits |-> commits,
               controlOps |-> controlOps]
    /\ pending = 0
    /\ up = TRUE
    /\ failures = 0
    /\ crashes = 0
    /\ told = {}
    /\ kept = {}

StoreNext ==
    \/ StoreOperation
    \/ StoreClaimNone
    \/ Repeat
    \/ Flush
    \/ Crash
    \/ Reopen
    \/ StoreTick

StoreSpec == StoreInit /\ [][StoreNext]_storeVars

-----------------------------------------------------------------------------
(* Properties *)

\* The file can be opened again whenever the process dies: what operations
\* write is accepted by restore's own checks.
Reopenable == RestoreAccepts(disk)

\* A claim or a terminal commit that was acknowledged and then covered by a
\* write (at once without batching, by Flush or a full batch with it) is in
\* the file for ever, and in memory whenever the process runs: no crash, failed
\* write or restart hands the attempt out again or decides it differently.
WrittenFactsSurvive ==
    \A f \in kept : /\ Holds(f, disk.tasks, disk.commits)
                    /\ up => Holds(f, tasks, commits)

\* A restart neither loses a pending task nor leaves one with two live
\* attempts, and no task that succeeded comes back to the queue.
RestartedStateIsSound == up => OneLiveAttempt /\ NoLostTask /\ CommitsMatchAttempts
=============================================================================
