---------------------------- MODULE MemoryEngine ----------------------------
(***************************************************************************)
(* The builtin file engine of memory, filesystem_engine.go: the records of *)
(* one namespace in memory, a write-ahead log, a snapshot that compaction  *)
(* replaces through snapshot.next and snapshot.bak, and an index file.     *)
(*                                                                         *)
(* An operation holds the lock of the engine from its first change to its  *)
(* return.  Its change of the records is one step; its steps on the files  *)
(* follow one by one (agenda), and the process may die before each of      *)
(* them, or the step may fail and end the operation with an error.         *)
(*                                                                         *)
(* A file is NoFile, Torn (cut off while it was written: it does not       *)
(* decode) or its content.  The content of a record is the sequence number *)
(* of the operation that wrote it.  A power loss keeps what was synced and *)
(* the order of renames; of the log it may lose what was not synced.       *)
(***************************************************************************)
EXTENDS Naturals, Sequences, FiniteSets, Functions

CONSTANTS
    MemIds,          \* record ids, numbered in the order of their names
    MemUpserts,      \* the lists of ids that Upsert is called with
    MemDeletes,      \* the sets of ids that Delete is called with
    BlankId,         \* an id that is empty
    MemRetention,    \* Lifecycle.RetentionDays: the number of records to keep
    MemTTL,          \* Lifecycle.TTL in steps of the clock, 0 when shorter than one
    FsyncBatch,      \* Compaction.FsyncBatchSize
    CompactMinOps,   \* Compaction.MinOps
    CompactMaxLog,   \* Compaction.MaxWALBytes, in entries
    MaxMemSeq,       \* bound on the sequence numbers
    MaxMemClock,     \* bound on time
    MaxMemFaults,    \* bound on crashes, power losses and failed steps
    NoFile, Torn, NoRecord, Unsure

ASSUME MemoryAssumption ==
    /\ MemIds \subseteq Nat
    /\ {MemRetention, FsyncBatch, CompactMinOps, CompactMaxLog} \subseteq Nat \ {0}
    /\ MemTTL \in Nat
    /\ BlankId \notin MemIds /\ MemUpserts \subseteq Seq(MemIds \cup {BlankId})
    /\ MemDeletes \subseteq SUBSET MemIds

\* Records, the content of a snapshot or an index, the entries of the log.
MemRecord == [by : Nat, at : Nat]
Contents == [seq : Nat, records : [MemIds -> MemRecord \cup {NoRecord}]]
LogEntries == [seq : Nat, ids : SUBSET MemIds, record : MemRecord \cup {NoRecord}]

\* The marks are none of these.
ASSUME MemoryMarksAssumption ==
    /\ NoFile # Torn /\ NoFile \notin Contents /\ Torn \notin Contents \cup LogEntries
    /\ NoRecord # Unsure /\ NoRecord \notin MemRecord /\ Unsure \notin MemRecord

VARIABLES
    memRecords,   \* records
    memSeq,       \* lastSeq
    memPending,   \* pendingFsyncOps
    memOps,       \* opsSinceCompaction
    memDrift,     \* recoveryDrift
    memLog,       \* walFile: "open" or "closed"
    memFiles,     \* the files, and how many entries of the log are synced
    memPhase,     \* "down", "up", or "refused" when the engine did not open
    agenda,       \* the file steps the current operation still has to take
    memClock,     \* the time
    memFaults,    \* faults so far
    touched,      \* ghost: ids the current operation has changed
    acked,        \* ghost: per id, what its last operation that returned without
                  \* an error left, or Unsure when another one came after it
    unlogged      \* ghost: records have changed since the last snapshot in a way
                  \* the log does not say, or an operation was cut short

memVolatile == <<memRecords, memSeq, memPending, memOps, memDrift, memLog>>
memGhosts == <<touched, acked, unlogged>>
memVars == <<memVolatile, memFiles, memPhase, agenda, memClock, memFaults, memGhosts>>

Record(seq) == [by |-> seq, at |-> memClock]

\* isExpiredRecord
Expired(r) == r # NoRecord /\ r.at + MemTTL < memClock

\* applyTTLLocked: expired records leave the memory; the log is not told.
Purged(recs) == [i \in MemIds |-> IF Expired(recs[i]) THEN NoRecord ELSE recs[i]]

\* What Query answers.
Visible(recs) == Purged(recs)

Held(recs) == {i \in MemIds : recs[i] # NoRecord}

\* The order of applyRetentionLocked: the newest first, then by id.
Newer(recs, i, j) ==
    \/ recs[i].at > recs[j].at
    \/ recs[i].at = recs[j].at /\ i < j

\* applyRetentionLocked: the ids that are not among the first MemRetention.
Trimmed(recs) ==
    {i \in Held(recs) :
        Cardinality({j \in Held(recs) \ {i} : Newer(recs, j, i)}) >= MemRetention}

Removed(recs, ids) == [i \in MemIds |-> IF i \in ids THEN NoRecord ELSE recs[i]]

-----------------------------------------------------------------------------
(* Operations *)

MemIdle == memPhase = "up" /\ agenda = <<>>

Do(step) == [do |-> step]
UpsertEntry(seq, ids) == [seq |-> seq, ids |-> ids, record |-> Record(seq)]
DeleteEntry(seq, ids) == [seq |-> seq, ids |-> ids, record |-> NoRecord]
LogEntry(entry) == [do |-> "append", entry |-> entry]

\* maintainIndexLocked and maybeCompactLocked, which end an operation.
Finish == <<Do("open_index"), Do("write_index"), Do("maybe_compact")>>

Doubt(ids) ==
    /\ touched' = ids
    /\ acked' = [i \in MemIds |-> IF i \in ids THEN Unsure ELSE acked[i]]

\* Mutant of Upsert: the index is written before retention trims the records.
UpsertIndexesEarly(list) ==
    LET ids == Range(list)
        base == Purged(memRecords)
    IN
    /\ MemIdle
    /\ memSeq < MaxMemSeq
    /\ BlankId \notin ids
    /\ memRecords' = [i \in MemIds |-> IF i \in ids THEN Record(memSeq + 1) ELSE base[i]]
    /\ memSeq' = memSeq + 1
    /\ agenda' = <<LogEntry(UpsertEntry(memSeq + 1, ids)), Do("open_index"), Do("write_index"),
                   Do("trim"), Do("maybe_compact")>>
    /\ Doubt(ids)
    /\ unlogged' = (unlogged \/ base # memRecords)
    /\ UNCHANGED <<memPending, memOps, memDrift, memLog, memFiles, memPhase, memClock, memFaults>>

\* Upsert: the records are changed, then the entry is appended.
Upsert(list) ==
    LET ids == Range(list)
        base == Purged(memRecords)
    IN
    /\ MemIdle
    /\ memSeq < MaxMemSeq
    /\ BlankId \notin ids
    /\ memRecords' = [i \in MemIds |-> IF i \in ids THEN Record(memSeq + 1) ELSE base[i]]
    /\ memSeq' = memSeq + 1
    /\ agenda' = <<LogEntry(UpsertEntry(memSeq + 1, ids)), Do("trim")>> \o Finish
    /\ Doubt(ids)
    /\ unlogged' = (unlogged \/ base # memRecords)
    /\ UNCHANGED <<memPending, memOps, memDrift, memLog, memFiles, memPhase, memClock, memFaults>>

\* Upsert with an empty id in the list: an error, but the records before it
\* have been changed and nothing is logged.
UpsertRefused(list) ==
    LET blank == CHOOSE k \in DOMAIN list : list[k] = BlankId
        ids == Range(SubSeq(list, 1, blank - 1))
        base == Purged(memRecords)
    IN
    /\ MemIdle
    /\ BlankId \in Range(list)
    /\ memRecords' = [i \in MemIds |-> IF i \in ids THEN Record(memSeq + 1) ELSE base[i]]
    /\ acked' = [i \in MemIds |-> IF i \in ids THEN Unsure ELSE acked[i]]
    /\ unlogged' = (unlogged \/ memRecords' # memRecords)
    /\ UNCHANGED <<memSeq, memPending, memOps, memDrift, memLog, memFiles, memPhase, agenda,
                   memClock, memFaults, touched>>

Delete(ids) ==
    LET base == Purged(memRecords) IN
    /\ MemIdle
    /\ memSeq < MaxMemSeq
    /\ memRecords' = Removed(base, ids)
    /\ memSeq' = memSeq + 1
    /\ agenda' = <<LogEntry(DeleteEntry(memSeq + 1, ids))>> \o Finish
    /\ Doubt(ids)
    /\ unlogged' = (unlogged \/ base # memRecords)
    /\ UNCHANGED <<memPending, memOps, memDrift, memLog, memFiles, memPhase, memClock, memFaults>>

\* compactLocked
Compaction ==
    <<Do("create_next"), Do("write_next"), Do("rotate"), Do("promote"), Do("drop_bak"),
      Do("truncate_log"), Do("open_index"), Do("write_index")>>

Compact ==
    /\ MemIdle
    /\ agenda' = Compaction
    /\ touched' = {}
    /\ UNCHANGED <<memVolatile, memFiles, memPhase, memClock, memFaults, acked, unlogged>>

\* Close: what is pending is synced.
CloseEngine ==
    /\ MemIdle
    /\ memLog = "open"
    /\ memLog' = "closed"
    /\ memPending' = 0
    /\ memFiles' = IF memPending > 0 THEN [memFiles EXCEPT !.synced = Len(memFiles.log)] ELSE memFiles
    /\ UNCHANGED <<memRecords, memSeq, memOps, memDrift, memPhase, agenda, memClock, memFaults, memGhosts>>

-----------------------------------------------------------------------------
(* The steps on the files *)

At(step) == agenda # <<>> /\ Head(agenda).do = step

\* The operation goes on with rest; with nothing left it returns.
Continue(rest) ==
    /\ agenda' = rest
    /\ memPhase' = IF rest = <<>> THEN "up" ELSE memPhase
    /\ IF rest = <<>>
       THEN /\ acked' = [i \in MemIds |-> IF i \in touched THEN memRecords[i] ELSE acked[i]]
            /\ touched' = {}
       ELSE UNCHANGED <<acked, touched>>
    /\ UNCHANGED <<memClock, memFaults>>

\* appendWALEntryLocked, with the sync of a full batch.
Logged(entry) ==
    LET log == Append(memFiles.log, entry)
        full == memPending + 1 >= FsyncBatch
    IN
    /\ memLog = "open"
    /\ memFiles' = [memFiles EXCEPT !.log = log, !.synced = IF full THEN Len(log) ELSE @]
    /\ memPending' = IF full THEN 0 ELSE memPending + 1
    /\ memOps' = memOps + 1

AppendEntry ==
    /\ At("append")
    /\ Logged(Head(agenda).entry)
    /\ Continue(Tail(agenda))
    /\ UNCHANGED <<memRecords, memSeq, memDrift, memLog, unlogged>>

\* Mutant of TrimRecords: the entry has the number of the one before it.
TrimRecordsUnderOldSeq ==
    LET ids == Trimmed(memRecords) IN
    /\ At("trim")
    /\ ids # {}
    /\ memSeq' = memSeq
    /\ Logged(DeleteEntry(memSeq, ids))
    /\ memRecords' = Removed(memRecords, ids)
    /\ agenda' = Tail(agenda)
    /\ touched' = touched \cup ids
    /\ acked' = [i \in MemIds |-> IF i \in ids THEN Unsure ELSE acked[i]]
    /\ UNCHANGED <<memDrift, memLog, memPhase, memClock, memFaults, unlogged>>

\* Retention: the records are trimmed and the log is told in an entry of its own.
TrimRecords ==
    LET ids == Trimmed(memRecords) IN
    /\ At("trim")
    /\ ids # {}
    /\ memSeq' = memSeq + 1
    /\ Logged(DeleteEntry(memSeq + 1, ids))
    /\ memRecords' = Removed(memRecords, ids)
    /\ agenda' = Tail(agenda)
    /\ touched' = touched \cup ids
    /\ acked' = [i \in MemIds |-> IF i \in ids THEN Unsure ELSE acked[i]]
    /\ UNCHANGED <<memDrift, memLog, memPhase, memClock, memFaults, unlogged>>

NothingToTrim ==
    /\ At("trim")
    /\ Trimmed(memRecords) = {}
    /\ Continue(Tail(agenda))
    /\ UNCHANGED <<memVolatile, memFiles, unlogged>>

MaybeCompact ==
    /\ At("maybe_compact")
    /\ Continue(IF memOps >= CompactMinOps \/ Len(memFiles.log) >= CompactMaxLog
                THEN Compaction ELSE <<>>)
    /\ UNCHANGED <<memVolatile, memFiles, unlogged>>

Content == [seq |-> memSeq, records |-> memRecords]

\* A step that changes one or two files and nothing else.
FileStep(step, files) ==
    /\ At(step)
    /\ memFiles' = files
    /\ Continue(Tail(agenda))
    /\ UNCHANGED <<memVolatile, unlogged>>

\* writeIndexState truncates the file and then writes it.
OpenIndex == FileStep("open_index", [memFiles EXCEPT !.index = Torn])
WriteIndex == FileStep("write_index", [memFiles EXCEPT !.index = Content])

\* writeSnapshotNextLocked truncates the file, then writes and syncs it.
CreateNext == FileStep("create_next", [memFiles EXCEPT !.next = Torn])
WriteNext == FileStep("write_next", [memFiles EXCEPT !.next = Content])

Rotate ==
    FileStep("rotate", IF memFiles.snapshot = NoFile THEN memFiles
                       ELSE [memFiles EXCEPT !.bak = memFiles.snapshot, !.snapshot = NoFile])

Promote ==
    /\ At("promote")
    /\ memFiles' = [memFiles EXCEPT !.snapshot = memFiles.next, !.next = NoFile]
    /\ Continue(Tail(agenda))
    /\ unlogged' = FALSE
    /\ UNCHANGED memVolatile

DropBackup == FileStep("drop_bak", [memFiles EXCEPT !.bak = NoFile])

\* The log is closed, emptied and opened again.
TruncateLog ==
    /\ At("truncate_log")
    /\ memFiles' = [memFiles EXCEPT !.log = <<>>, !.synced = 0]
    /\ memLog' = "open"
    /\ memPending' = 0
    /\ memOps' = 0
    /\ Continue(Tail(agenda))
    /\ UNCHANGED <<memRecords, memSeq, memDrift, unlogged>>

FileSteps ==
    \/ AppendEntry \/ TrimRecords \/ NothingToTrim \/ MaybeCompact
    \/ OpenIndex \/ WriteIndex \/ CreateNext \/ WriteNext
    \/ Rotate \/ Promote \/ DropBackup \/ TruncateLog

-----------------------------------------------------------------------------
(* Errors, crashes and recovery *)

\* The operation returns an error.  While the engine is being opened there is
\* then no engine.
GiveUp ==
    /\ agenda' = <<>>
    /\ memPhase' = IF memPhase = "opening" THEN "down" ELSE memPhase
    /\ touched' = {}
    /\ unlogged' = TRUE
    /\ UNCHANGED <<memDrift, memClock>>

\* An append finds the log closed.
AppendToClosedLog ==
    /\ memLog = "closed"
    /\ At("append")
    /\ GiveUp
    /\ UNCHANGED <<memRecords, memSeq, memPending, memOps, memLog, memFiles, memFaults, acked>>

\* A failed append leaves nothing or a part of its line, and the whole of it
\* when the sync of a full batch fails.
LoggedInVain(entry) ==
    \/ /\ memFiles' \in {memFiles, [memFiles EXCEPT !.log = Append(@, Torn)]}
       /\ UNCHANGED <<memPending, memOps>>
    \/ /\ memPending + 1 >= FsyncBatch
       /\ memFiles' = [memFiles EXCEPT !.log = Append(@, entry)]
       /\ memPending' = memPending + 1
       /\ memOps' = memOps + 1

AppendFails ==
    /\ At("append")
    /\ memLog = "open"
    /\ LoggedInVain(Head(agenda).entry)
    /\ UNCHANGED <<memRecords, memSeq, memLog, acked>>

TrimFails ==
    LET ids == Trimmed(memRecords) IN
    /\ At("trim")
    /\ ids # {}
    /\ memRecords' = Removed(memRecords, ids)
    /\ memSeq' = memSeq + 1
    /\ LoggedInVain(DeleteEntry(memSeq + 1, ids))
    /\ acked' = [i \in MemIds |-> IF i \in ids THEN Unsure ELSE acked[i]]
    /\ UNCHANGED memLog

\* A step of a compaction or of the index that fails; what the steps before it
\* did to the files stays.  A file whose sync fails has been written.
FileStepFails ==
    /\ \/ /\ \E step \in {"maybe_compact", "open_index", "write_index", "create_next",
                          "write_next", "rotate", "promote"} : At(step)
          /\ UNCHANGED memFiles
       \/ At("write_index") /\ memFiles' = [memFiles EXCEPT !.index = Content]
       \/ At("write_next") /\ memFiles' = [memFiles EXCEPT !.next = Content]
    /\ UNCHANGED <<memRecords, memSeq, memPending, memOps, memLog, acked>>

\* The log has been closed when emptying it or opening it fails.
TruncateLogFails ==
    /\ At("truncate_log")
    /\ memLog' = "closed"
    /\ memFiles' \in {memFiles, [memFiles EXCEPT !.log = <<>>, !.synced = 0]}
    /\ UNCHANGED <<memRecords, memSeq, memPending, memOps, acked>>

StepFails ==
    /\ memFaults < MaxMemFaults
    /\ AppendFails \/ TrimFails \/ FileStepFails \/ TruncateLogFails
    /\ GiveUp
    /\ memFaults' = memFaults + 1

NoRecords == [i \in MemIds |-> NoRecord]

Stopped ==
    /\ memPhase' = "down"
    /\ agenda' = <<>>
    /\ memRecords' = NoRecords
    /\ memSeq' = 0
    /\ memPending' = 0
    /\ memOps' = 0
    /\ memDrift' = FALSE
    /\ memLog' = "closed"
    /\ touched' = {}
    /\ memFaults' = memFaults + 1
    /\ UNCHANGED memClock

Crash ==
    /\ memPhase \in {"up", "opening"}
    /\ memFaults < MaxMemFaults
    /\ Stopped
    /\ unlogged' = (unlogged \/ agenda # <<>>)
    /\ UNCHANGED <<memFiles, acked>>

\* Of the entries that were not synced the first ones are kept, and perhaps a
\* part of the next.
PowerLoss ==
    /\ memPhase \in {"up", "opening"}
    /\ memFaults < MaxMemFaults
    /\ \E n \in memFiles.synced..(Len(memFiles.log) - 1), torn \in BOOLEAN :
        LET kept == SubSeq(memFiles.log, 1, n)
            lost == SubSeq(memFiles.log, n + 1, Len(memFiles.log))
        IN
        /\ memFiles' = [memFiles EXCEPT !.log = IF torn THEN Append(kept, Torn) ELSE kept]
        /\ acked' = [i \in MemIds |->
                        IF \E k \in DOMAIN lost : lost[k] # Torn /\ i \in lost[k].ids
                        THEN Unsure ELSE acked[i]]
    /\ Stopped
    /\ unlogged' = TRUE

\* prepareSnapshotFiles
Prepared(files) ==
    CASE files.snapshot # NoFile -> [files EXCEPT !.next = NoFile, !.bak = NoFile]
      [] files.snapshot = NoFile /\ files.next # NoFile ->
            [files EXCEPT !.snapshot = files.next, !.next = NoFile]
      [] files.snapshot = NoFile /\ files.next = NoFile ->
            [files EXCEPT !.snapshot = files.bak, !.bak = NoFile]

\* applyWALEntry, for an entry the snapshot or an entry before it does not cover.
Replay(content, entry) ==
    IF entry.seq <= content.seq THEN content
    ELSE [seq |-> entry.seq,
          records |-> [i \in MemIds |-> IF i \in entry.ids THEN entry.record
                                                          ELSE content.records[i]]]

\* recoverSnapshot
Base(files) ==
    IF files.snapshot = NoFile THEN [seq |-> 0, records |-> NoRecords] ELSE files.snapshot

\* recoverWAL: what the first entries of the log make of the snapshot.
Replayed(content, log) ==
    LET after[n \in 0..Len(log)] == IF n = 0 THEN content ELSE Replay(after[n - 1], log[n])
    IN  after

Recovered(files) == Replayed(Base(files), files.log)[Len(files.log)]

Undecodable(files) ==
    files.snapshot = Torn \/ Torn \in Range(files.log) \/ files.index = Torn

OpenRefused ==
    /\ memPhase = "down"
    /\ Undecodable(Prepared(memFiles))
    /\ memFiles' = Prepared(memFiles)
    /\ memPhase' = "refused"
    /\ UNCHANGED <<memVolatile, agenda, memClock, memFaults, memGhosts>>

\* NewFilesystemEngine: recover, with the index rewritten when it is missing or
\* its checksum, that of the records and the sequence number, is another.
Open ==
    LET files == Prepared(memFiles)
        content == Recovered(files)
        drift == files.index # NoFile /\ files.index # content
        rewrite == files.index # content
    IN
    /\ memPhase = "down"
    /\ ~Undecodable(files)
    /\ memFiles' = files
    /\ memRecords' = content.records
    /\ memSeq' = content.seq
    /\ memDrift' = drift
    /\ memLog' = "open"
    /\ agenda' = IF rewrite THEN <<Do("open_index"), Do("write_index")>> ELSE <<>>
    /\ memPhase' = IF rewrite THEN "opening" ELSE "up"
    /\ unlogged' = FALSE
    /\ UNCHANGED <<memPending, memOps, memClock, memFaults, touched, acked>>

\* An operation takes the time once, so time need not pass while one runs.
MemTick ==
    /\ agenda = <<>>
    /\ memClock < MaxMemClock
    /\ memClock' = memClock + 1
    /\ UNCHANGED <<memVolatile, memFiles, memPhase, agenda, memFaults, memGhosts>>

MemInit ==
    /\ memRecords = NoRecords
    /\ memSeq = 0 /\ memPending = 0 /\ memOps = 0
    /\ memDrift = FALSE
    /\ memLog = "closed"
    /\ memFiles = [snapshot |-> NoFile, next |-> NoFile, bak |-> NoFile, index |-> NoFile,
                   log |-> <<>>, synced |-> 0]
    /\ memPhase = "down"
    /\ agenda = <<>>
    /\ memClock = 0 /\ memFaults = 0
    /\ touched = {}
    /\ acked = NoRecords
    /\ unlogged = FALSE

MemNext ==
    \/ \E list \in MemUpserts : Upsert(list) \/ UpsertRefused(list)
    \/ \E ids \in MemDeletes : Delete(ids)
    \/ Compact \/ CloseEngine
    \/ FileSteps
    \/ AppendToClosedLog \/ StepFails
    \/ Crash \/ PowerLoss \/ Open \/ OpenRefused
    \/ MemTick

MemSpec == MemInit /\ [][MemNext]_memVars

-----------------------------------------------------------------------------
(* Properties *)

\* What Upsert, Delete and retention left of a record when they returned
\* without an error is what Query shows of it, whatever crashes, power losses
\* and failed writes came since, and wherever in a compaction they came: the
\* snapshot that recovery picks and the log together have every entry once.
AcknowledgedRecordsSurvive ==
    memPhase = "up" =>
        \A i \in MemIds :
            acked[i] # Unsure => Visible(memRecords)[i] = Visible(acked)[i]

\* recoverIndex reports drift only when an operation was cut short or failed,
\* or when the records changed without a log entry (an expired record was
\* dropped, an Upsert was refused half way) since the last snapshot.
DriftIsExplained ==
    [][Open /\ memDrift' => unlogged]_memVars
=============================================================================
