--------------------------- MODULE MailboxWorkers ---------------------------
(***************************************************************************)
(* The mailbox on its file backend, with the workers that run on it:       *)
(* orchestration/mailbox, store_file.go and worker.go.  An operation       *)
(* changes the state in memory and then writes the whole state to one file *)
(* (tmp file and rename), at once or in batches.  A change of a            *)
(* continuation is written at once and is undone when the write fails.     *)
(* Workers and resume calls live in the process of the mailbox and die     *)
(* with it.                                                                *)
(*                                                                         *)
(* Query answers from a cache that an operation empties only when it       *)
(* succeeds: after a failed write the answer may be the one of before.     *)
(*                                                                         *)
(* A worker that RunOnce returns an error to ends its Run; the host is     *)
(* assumed to run it again.                                                *)
(***************************************************************************)
EXTENDS Mailbox

CONSTANTS
    BatchSize,     \* PersistBatchSize; batching is off when it is 1
    WriteFails,    \* how many writes of the file may fail
    Crashes        \* how many times the process may crash

ASSUME MailboxStoreAssumption ==
    BatchSize \in Nat \ {0} /\ WriteFails \in Nat /\ Crashes \in Nat

VARIABLES
    disk,          \* the content of the file
    pending,       \* pendingPersist, up to BatchSize
    committed,     \* historyCommitted: the file has been written
    persistFailed, \* historyPersistFailed: the last write failed
    cached,        \* what Query may have in its cache about each message
    up,            \* the process is running
    failures,      \* failed writes so far
    crashes,       \* crashes so far
    workers,       \* what each worker is at
    resumes,       \* what each resume call is at
    started        \* ghost: resumed handlers that have been entered, by delivery

storeState == <<disk, pending, committed, persistFailed, cached, failures>>
process == <<up, crashes>>
allVars == <<mailboxState, storeState, process, workers, resumes, started>>

Idle == [phase |-> "idle"]
Handling(c) == [phase |-> "handling", delivery |-> c, lost |-> FALSE]
At(phase, c) == [phase |-> phase, delivery |-> c]

\* What a resume call looks at in the answer of Query.
View(recs) ==
    [m \in Messages |-> [state |-> recs[m].state, attempt |-> recs[m].attempt,
                         consumer |-> recs[m].consumer]]

\* The answers that Query may give about m.
QueryAnswers(m) == {View(records)[m], cached[m]}

-----------------------------------------------------------------------------
(* Writing the file *)

Batching == BatchSize > 1

Persist ==
    /\ disk' = mailboxState'
    /\ pending' = 0
    /\ committed' = TRUE
    /\ persistFailed' = FALSE
    /\ UNCHANGED failures

\* The write fails.
PersistFails ==
    /\ failures < WriteFails
    /\ failures' = failures + 1
    /\ pending' = IF Batching /\ pending < BatchSize THEN pending + 1 ELSE pending
    /\ persistFailed' = TRUE
    /\ UNCHANGED <<disk, committed>>

\* Mutant of PersistLater: the change is not counted.
PersistLaterUncounted ==
    /\ pending + 1 < BatchSize
    /\ UNCHANGED <<disk, pending, committed, persistFailed, failures>>

\* The write is put off to a later operation or Flush.
PersistLater ==
    /\ pending + 1 < BatchSize
    /\ pending' = pending + 1
    /\ UNCHANGED <<disk, committed, persistFailed, failures>>

PersistDue == pending + 1 >= BatchSize

\* maybePersistLocked(false) that succeeds, or fails: memory keeps the change.
PersistOK == ((PersistDue /\ Persist) \/ PersistLater) /\ cached' = View(records')
PersistError == PersistDue /\ PersistFails /\ UNCHANGED cached

\* maybePersistLocked(true) of a change of a continuation, by continuationMutate.
ContinuationWritten == Persist /\ UNCHANGED cached

\* The write of a change of a continuation failed: continuationMutate has put
\* the state of before back.
ContinuationUndone == PersistFails /\ UNCHANGED <<mailboxState, cached>>

-----------------------------------------------------------------------------
(* Workers *)

\* Publish by the host; a duplicate changes nothing but is written too.
HostPublish(m, k) ==
    /\ up
    /\ \/ Publish(m, k)
       \/ (records[m].state # "absent" \/ k \in DOMAIN idempotency) /\ UNCHANGED mailboxState
    /\ PersistOK \/ PersistError
    /\ UNCHANGED <<process, workers, resumes, started>>

\* Requeue by the host, of a nacked message or of one it takes back.
HostRequeue(m) ==
    /\ up
    /\ Requeue(m, NoOne)
    /\ PersistOK \/ PersistError
    /\ UNCHANGED <<process, workers, resumes, started>>

\* ConsumeWithLease of RunOnce.  After a failed write the message is in flight
\* in memory, but the worker has an error instead of it.
WorkerConsume(w, m) ==
    /\ up
    /\ workers[w] = Idle
    /\ Consume(w, m)
    /\ \/ PersistOK /\ workers' = [workers EXCEPT ![w] = Handling(<<m, records'[m].attempt>>)]
       \/ PersistError /\ UNCHANGED workers
    /\ UNCHANGED <<process, resumes, started>>

WorkerConsumeNone(w) ==
    /\ up
    /\ workers[w] = Idle
    /\ ConsumeNone
    /\ PersistOK \/ PersistError
    /\ UNCHANGED <<process, workers, resumes, started>>

\* The heartbeat goroutine of a handler: it stops at the first error.
HandlerHeartbeat(m, w) ==
    \/ Heartbeat(m, w) /\ PersistOK
    \/ Heartbeat(m, w) /\ PersistError
    \/ ~RequireInflight(m, w) /\ UNCHANGED <<mailboxState, storeState>>

WorkerHeartbeat(w) ==
    /\ up
    /\ workers[w].phase = "handling"
    /\ ~workers[w].lost
    /\ HandlerHeartbeat(workers[w].delivery[1], w)
    /\ workers' = [workers EXCEPT
                      ![w].lost = ~RequireInflight(workers[w].delivery[1], w)
                                  \/ failures' > failures]
    /\ UNCHANGED <<process, resumes, started>>

\* The end of a handler that succeeded (ok) or failed, for the consumer w.
Settle(m, w, ok) ==
    IF ok THEN Ack(m, w) ELSE IF w \in NackOnError THEN Nack(m, w) ELSE Requeue(m, w)

\* Settle answers as if it had taken place: the message has been settled so.
AlreadySettled(m, w, ok) ==
    /\ ~RequireInflight(m, w)
    /\ \/ ok /\ records[m].state = "acked"
       \/ ~ok /\ w \in NackOnError /\ records[m].state \in {"nacked", "dead_letter", "expired"}

\* Settle answers with an error.
SettleRefused(m, w, ok) ==
    /\ ~RequireInflight(m, w)
    /\ ~AlreadySettled(m, w, ok)
    /\ ~(~ok /\ w \notin NackOnError /\ records[m].state = "nacked")
    /\ UNCHANGED mailboxState

\* RunOnce after the handler: a lost heartbeat turns success into failure.
WorkerSettle(w, ok) ==
    LET m == workers[w].delivery[1]
    IN  /\ up
        /\ workers[w].phase = "handling"
        /\ ok => ~workers[w].lost
        /\ \/ Settle(m, w, ok) /\ (PersistOK \/ PersistError)
           \/ AlreadySettled(m, w, ok) /\ UNCHANGED mailboxState /\ (PersistOK \/ PersistError)
           \/ SettleRefused(m, w, ok) /\ UNCHANGED storeState
        /\ workers' = [workers EXCEPT ![w] = Idle]
        /\ UNCHANGED <<process, resumes, started>>

\* RunOnce with a handler that pauses: pauseHandler.
WorkerPause(w) ==
    LET c == workers[w].delivery
    IN  /\ up
        /\ workers[w].phase = "handling"
        /\ ~workers[w].lost
        /\ \/ SaveContinuation(c, w) /\ ContinuationWritten
           \/ CanSave(c, w) /\ ContinuationUndone
           \/ ~CanSave(c, w) /\ UNCHANGED <<mailboxState, storeState>>
        /\ workers' = [workers EXCEPT ![w] = Idle]
        /\ UNCHANGED <<process, resumes, started>>

-----------------------------------------------------------------------------
(* Resuming: ResumeHandlerContinuation, or ResumeHostPlanContinuation, which *)
(* goes from running straight to the reading of the outcome.                 *)

\* LoadHostPlanContinuation and ClaimHostPlanResume
ResumeClaim(r, c) ==
    /\ up
    /\ resumes[r] = Idle
    /\ \/ /\ ClaimResume(c, r)
          /\ ContinuationWritten
          /\ resumes' = [resumes EXCEPT ![r] = At("claimed", c)]
       \/ CanClaim(c) /\ ContinuationUndone /\ UNCHANGED resumes
    /\ UNCHANGED <<process, workers, started>>

ResumeRunning(r) ==
    LET c == resumes[r].delivery
    IN  /\ up
        /\ resumes[r].phase = "claimed"
        /\ \/ /\ MarkRunning(c, r)
              /\ ContinuationWritten
              /\ resumes' = [resumes EXCEPT ![r] = At("running", c)]
           \/ ContinuationUndone /\ resumes' = [resumes EXCEPT ![r] = Idle]
        /\ UNCHANGED <<process, workers, started>>

\* Query: the delivery must still be there, and with the consumer that paused.
ResumeCheck(r) ==
    LET c == resumes[r].delivery
    IN  /\ up
        /\ resumes[r].phase = "running"
        /\ \E answer \in QueryAnswers(c[1]) :
              resumes' = [resumes EXCEPT ![r] =
                  IF answer = [state |-> "in_flight", attempt |-> c[2],
                               consumer |-> continuations[c].consumer]
                  THEN At("checked", c) ELSE Idle]
        /\ UNCHANGED <<mailboxState, storeState, process, workers, started>>

\* The first heartbeat, then the handler is entered.
ResumeEnter(r) ==
    LET c == resumes[r].delivery
        w == continuations[c].consumer
    IN  /\ up
        /\ resumes[r].phase = "checked"
        /\ \/ /\ Heartbeat(c[1], w)
              /\ PersistOK
              /\ resumes' = [resumes EXCEPT ![r] = Handling(c)]
              /\ started' = [started EXCEPT ![c] = @ + 1]
           \/ /\ Heartbeat(c[1], w)
              /\ PersistError
              /\ resumes' = [resumes EXCEPT ![r] = Idle]
              /\ UNCHANGED started
           \/ /\ ~RequireInflight(c[1], w)
              /\ resumes' = [resumes EXCEPT ![r] = Idle]
              /\ UNCHANGED <<mailboxState, storeState, started>>
        /\ UNCHANGED <<process, workers>>

ResumeHeartbeat(r) ==
    LET c == resumes[r].delivery
        w == continuations[c].consumer
    IN  /\ up
        /\ resumes[r].phase = "handling"
        /\ ~resumes[r].lost
        /\ HandlerHeartbeat(c[1], w)
        /\ resumes' = [resumes EXCEPT
                          ![r].lost = ~RequireInflight(c[1], w) \/ failures' > failures]
        /\ UNCHANGED <<process, workers, started>>

\* The end of the resumed handler; an error of the mailbox ends the call.
ResumeSettle(r, ok) ==
    LET c == resumes[r].delivery
        w == continuations[c].consumer
    IN  /\ up
        /\ resumes[r].phase = "handling"
        /\ ok => ~resumes[r].lost
        /\ \/ /\ \/ Settle(c[1], w, ok)
                 \/ AlreadySettled(c[1], w, ok) /\ UNCHANGED mailboxState
              /\ \/ PersistOK /\ resumes' = [resumes EXCEPT ![r] = At("settled", c)]
                 \/ PersistError /\ resumes' = [resumes EXCEPT ![r] = Idle]
           \/ /\ SettleRefused(c[1], w, ok)
              /\ resumes' = [resumes EXCEPT ![r] = Idle]
              /\ UNCHANGED storeState
        /\ UNCHANGED <<process, workers, started>>

\* A resumed handler that pauses again ends the call: recovery is required.
ResumePause(r) ==
    /\ up
    /\ resumes[r].phase = "handling"
    /\ ~resumes[r].lost
    /\ resumes' = [resumes EXCEPT ![r] = Idle]
    /\ UNCHANGED <<mailboxState, storeState, process, workers, started>>

\* Mutant of ResumeRead: the outcome is taken for granted.
ResumeReadAcked(r) ==
    /\ up
    /\ resumes[r].phase \in {"settled", "running"}
    /\ resumes' = [resumes EXCEPT ![r] = [phase |-> "read", delivery |-> @.delivery,
                                          outcome |-> "acked"]]
    /\ UNCHANGED <<mailboxState, storeState, process, workers, started>>

\* Query and HostPlanOutcomeFromRecord
ResumeRead(r) ==
    /\ up
    /\ resumes[r].phase \in {"settled", "running"}
    /\ \E answer \in QueryAnswers(resumes[r].delivery[1]) :
          resumes' = [resumes EXCEPT ![r] = [phase |-> "read", delivery |-> @.delivery,
                                             outcome |-> answer.state]]
    /\ UNCHANGED <<mailboxState, storeState, process, workers, started>>

\* CommitHostPlanResumeResult
ResumeCommit(r) ==
    /\ up
    /\ resumes[r].phase = "read"
    /\ \/ CommitResult(resumes[r].delivery, r, resumes[r].outcome) /\ ContinuationWritten
       \/ ContinuationUndone
    /\ resumes' = [resumes EXCEPT ![r] = Idle]
    /\ UNCHANGED <<process, workers, started>>

-----------------------------------------------------------------------------
(* Flush, crash, restart, time *)

\* Flush, or the debounce time is over.
Flush ==
    /\ up
    /\ pending > 0
    /\ UNCHANGED <<mailboxState, cached, process, workers, resumes, started>>
    /\ Persist \/ PersistFails

NothingRunning ==
    /\ workers' = [w \in Workers |-> Idle]
    /\ resumes' = [r \in Resumers |-> Idle]

Crash ==
    /\ up
    /\ crashes < Crashes
    /\ crashes' = crashes + 1
    /\ up' = FALSE
    /\ records' = [m \in Messages |-> Absent(m)]
    /\ queue' = <<>>
    /\ idempotency' = <<>>
    /\ history' = NoHistory
    /\ continuations' = <<>>
    /\ pending' = 0
    /\ persistFailed' = FALSE
    /\ cached' = View(records')
    /\ NothingRunning
    /\ UNCHANGED <<disk, committed, failures, started>>

\* What normalizeSnapshot and HistoryJournal.validate demand of the file.
SnapshotAccepted(s) ==
    LET recs == s[1]
        q    == s[2]
        h    == s[4]
    IN  /\ \A i \in 1..Len(q) : recs[q[i]].state = "queued"
        /\ \A i, j \in 1..Len(q) : q[i] = q[j] => i = j
        /\ \A k \in DOMAIN s[3] : recs[s[3][k]].state # "absent"
        /\ h.floor <= h.sequence /\ Len(h.entries) <= Retention
        /\ \A i \in 1..Len(h.entries) :
              /\ h.entries[i].sequence <= h.sequence
              /\ (IF i = 1 THEN h.floor ELSE h.entries[i - 1].sequence) < h.entries[i].sequence

\* Mutant of Reopen: a delivery that was in flight is marked as queued.
ReopenAsQueued ==
    /\ ~up
    /\ SnapshotAccepted(disk)
    /\ up' = TRUE
    /\ records' = [m \in Messages |->
                      IF disk[1][m].state = "in_flight"
                      THEN [disk[1][m] EXCEPT !.state = "queued", !.lease = 0]
                      ELSE disk[1][m]]
    /\ queue' = disk[2]
    /\ idempotency' = disk[3]
    /\ history' = disk[4]
    /\ continuations' = disk[5]
    /\ cached' = View(records')
    /\ UNCHANGED <<disk, pending, committed, persistFailed, failures, crashes, workers, resumes,
                   started>>

\* NewFileStore: load and restore.
Reopen ==
    /\ ~up
    /\ SnapshotAccepted(disk)
    /\ up' = TRUE
    /\ records' = disk[1]
    /\ queue' = disk[2]
    /\ idempotency' = disk[3]
    /\ history' = disk[4]
    /\ continuations' = disk[5]
    /\ cached' = View(records')
    /\ UNCHANGED <<disk, pending, committed, persistFailed, failures, crashes, workers, resumes,
                   started>>

\* Deadlines in the file are points in time: they come closer there too.
WorkersTick ==
    /\ Tick
    /\ disk' = [disk EXCEPT ![1] = [m \in Messages |-> ElapseRecord(@[m])],
                            ![5] = [c \in DOMAIN @ |-> ElapseContinuation(@[c])]]
    /\ UNCHANGED <<pending, committed, persistFailed, cached, failures, process, workers, resumes,
                   started>>

WorkersInit ==
    /\ Init
    /\ disk = mailboxState
    /\ pending = 0
    /\ committed = FALSE
    /\ persistFailed = FALSE
    /\ cached = View(records)
    /\ up = TRUE
    /\ failures = 0
    /\ crashes = 0
    /\ workers = [w \in Workers |-> Idle]
    /\ resumes = [r \in Resumers |-> Idle]
    /\ started = [c \in Deliveries |-> 0]

WorkersNext ==
    \/ \E m \in Messages :
          \/ \E k \in Keys : HostPublish(m, k)
          \/ HostRequeue(m)
          \/ \E w \in Workers : WorkerConsume(w, m)
    \/ \E w \in Workers :
          \/ WorkerConsumeNone(w)
          \/ WorkerHeartbeat(w)
          \/ \E ok \in BOOLEAN : WorkerSettle(w, ok)
          \/ w \in ContinuationWorkers /\ WorkerPause(w)
    \/ \E r \in Resumers :
          \/ \E c \in Deliveries : ResumeClaim(r, c)
          \/ ResumeRunning(r)
          \/ ResumeCheck(r)
          \/ ResumeEnter(r)
          \/ ResumeHeartbeat(r)
          \/ \E ok \in BOOLEAN : ResumeSettle(r, ok)
          \/ ResumePause(r)
          \/ ResumeRead(r)
          \/ ResumeCommit(r)
    \/ Flush
    \/ Crash
    \/ Reopen
    \/ WorkersTick

\* Time passes, the mailbox is opened again after a crash, some worker polls,
\* and handlers, of workers or resumed, do not go on for ever.
WorkersFairness ==
    /\ WF_allVars(WorkersTick)
    /\ WF_allVars(Reopen)
    /\ WF_allVars(\E w \in Workers :
                     WorkerConsumeNone(w) \/ \E m \in Messages : WorkerConsume(w, m))
    /\ WF_allVars(\E w \in Workers :
                     \/ \E ok \in BOOLEAN : WorkerSettle(w, ok)
                     \/ w \in ContinuationWorkers /\ WorkerPause(w))
    /\ WF_allVars(\E r \in Resumers :
                     (\E ok \in BOOLEAN : ResumeSettle(r, ok)) \/ ResumePause(r))

WorkersSpec == WorkersInit /\ [][WorkersNext]_allVars /\ WorkersFairness

-----------------------------------------------------------------------------
(* Properties *)

\* Whatever moment the process dies at, NewFileStore accepts the file, and the
\* mailbox that it opens, like every other, has each queued message in its
\* queue and within its deliveries.
SurvivesRestart == SnapshotAccepted(disk) /\ (up => QueueIsTheQueued /\ DeliveriesBounded)

\* A history that ReadAfter serves (historySnapshot does not call it
\* unavailable) is the one in the file: no crash takes back a page, and its
\* sequence numbers are never given to other events.
ReadableHistoryIsDurable ==
    up /\ pending = 0 /\ ~persistFailed /\ committed => HistoryIsFaithful /\ history = disk[4]

\* A worker that may settle its message (requireInflightRecord compares only
\* consumer ids) still has the delivery that it was given: it never settles
\* the delivery of somebody else.
WorkerOwnsDelivery ==
    \A w \in Workers :
        LET c == workers[w].delivery
        IN  up /\ workers[w].phase = "handling" /\ RequireInflight(c[1], w)
               => records[c[1]].attempt = c[2]

\* The handler of a paused delivery is entered at most once by all resume
\* calls together, across crashes, failed writes and repeated requests.
ResumedOnce == \A c \in Deliveries : started[c] <= 1

\* A committed result that says the message is settled is true, and stays so
\* through crashes: an equivalent request may be answered from it for ever.
ResultIsTrue ==
    \A c \in DOMAIN continuations :
        continuations[c].result \in Settled => records[c[1]].state = continuations[c].result

\* A message in the mailbox is settled in the end, or it waits nacked for the
\* host, unless a crash takes it with what was not yet written: neither a
\* pause, a lost lease, a failed write nor a restart leaves it in flight or
\* queued for ever.
EveryMessageSettles ==
    \A m \in Messages :
        records[m].state # "absent" ~> records[m].state \in Settled \cup {"nacked", "absent"}

\* What ResumeHandlerContinuation's comment says: a resumed handler that may
\* settle the message has the delivery that paused.
ResumedDeliveryIsLive ==
    \A r \in Resumers :
        LET c == resumes[r].delivery
        IN  resumes[r].phase = "handling" /\ RequireInflight(c[1], continuations[c].consumer)
               => records[c[1]].attempt = c[2]
=============================================================================
