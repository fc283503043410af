---------------------------- MODULE HistoryLedger ----------------------------
(***************************************************************************)
(* A source's history journal bound to a projection ledger, both on files: *)
(* core/history, journal.go and projection_ledger.go.  Append writes the   *)
(* journal and then the ledger, under the lock of the journal but with a   *)
(* crash possible in between; ReconcileProjection repairs the ledger from  *)
(* an event of the journal in three steps, of which the middle one holds   *)
(* only the lock of the ledger; consumers acknowledge records.             *)
(*                                                                         *)
(* A write goes to a temporary file that is renamed, and what it changed   *)
(* in memory is undone when it fails: between operations a store and its   *)
(* file are equal, and one variable stands for both.  An entry is its      *)
(* sequence number and its content (event body, digest and cursor, which   *)
(* the number and the body determine).                                     *)
(***************************************************************************)
EXTENDS Naturals, Sequences, Functions

CONSTANTS
    Bodies,             \* contents of events
    References,         \* what a consumer acknowledges a record with
    JournalRetention,
    LedgerRetention,
    MaxHistorySeq,      \* bound on the sequence
    MaxHistoryFaults,   \* bound on failed writes
    MaxHistoryCrashes   \* bound on crashes

ASSUME HistoryAssumption ==
    /\ JournalRetention \in Nat \ {0}
    /\ LedgerRetention \in Nat \ {0}

VARIABLES
    journal,      \* sequence, floor and events of the journal
    ledger,       \* sequence, floor, records and acknowledgements of the ledger
    ledgerErr,    \* Journal.ledgerErr is ErrProjectionRecoveryRequired
    appending,    \* the entry Append has written to the journal only, or none
    repairing,    \* where ReconcileProjection is, and its event
    historyPhase, \* "up", "down", or "refused" when the ledger did not open
    historyFaults,
    historyCrashes,
    forgotten     \* ghost: how often the journal stopped knowing that the ledger
                  \* is behind, by a restart or by a repair of another event

historyVars == <<journal, ledger, ledgerErr, appending, repairing, historyPhase,
                 historyFaults, historyCrashes, forgotten>>

Entry(n, body) == [seq |-> n, body |-> body]
NoEntry == [seq |-> 0]
NotRepairing == [at |-> "idle"]

\* Mutant of Retained: the floor is the first entry that is kept.
RetainedFromFloor(store, list, entry, retention) ==
    LET longer == Append(list, entry) IN
    IF Len(longer) > retention
    THEN [floor |-> longer[2].seq, list |-> Tail(longer)]
    ELSE [floor |-> store.floor, list |-> longer]

\* The list with an entry added, and the oldest one gone when it was full.
Retained(store, list, entry, retention) ==
    LET longer == Append(list, entry) IN
    IF Len(longer) > retention
    THEN [floor |-> Head(longer).seq, list |-> Tail(longer)]
    ELSE [floor |-> store.floor, list |-> longer]

JournalWith(entry) ==
    LET kept == Retained(journal, journal.events, entry, JournalRetention) IN
    [seq |-> entry.seq, floor |-> kept.floor, events |-> kept.list]

LedgerWith(entry) ==
    LET kept == Retained(ledger, ledger.records, entry, LedgerRetention) IN
    [seq |-> entry.seq, floor |-> kept.floor, records |-> kept.list, acks |-> ledger.acks]

\* The journal's lock is free.
Unlocked == historyPhase = "up" /\ appending = NoEntry

Behind == ledger.seq < journal.seq

-----------------------------------------------------------------------------
(* Append *)

\* Mutant of AppendEvent: a journal whose ledger is behind takes events.
AppendEventRegardless(body) ==
    /\ Unlocked
    /\ journal.seq < MaxHistorySeq
    /\ journal' = JournalWith(Entry(journal.seq + 1, body))
    /\ appending' = Entry(journal.seq + 1, body)
    /\ UNCHANGED <<ledger, ledgerErr, repairing, historyPhase, historyFaults, historyCrashes, forgotten>>

\* The first half: the event is in the journal and on file.
AppendEvent(body) ==
    /\ Unlocked
    /\ ~ledgerErr
    /\ journal.seq < MaxHistorySeq
    /\ journal' = JournalWith(Entry(journal.seq + 1, body))
    /\ appending' = Entry(journal.seq + 1, body)
    /\ UNCHANGED <<ledger, ledgerErr, repairing, historyPhase, historyFaults, historyCrashes, forgotten>>

\* The journal could not be written, and Append returns with nothing changed.
AppendEventFails ==
    /\ Unlocked
    /\ ~ledgerErr
    /\ historyFaults < MaxHistoryFaults
    /\ historyFaults' = historyFaults + 1
    /\ UNCHANGED <<journal, ledger, ledgerErr, appending, repairing, historyPhase, historyCrashes, forgotten>>

\* Mutant of NextRecord: a record may come after a missing one.
AnyLaterRecord(entry) == entry.seq > ledger.seq

\* commitRetained and reconcileSourceEvent take the next record only.
NextRecord(entry) == entry.seq = ledger.seq + 1

\* The second half: commitRetained.
CommitRetained ==
    /\ historyPhase = "up"
    /\ appending # NoEntry
    /\ NextRecord(appending)
    /\ ledger' = LedgerWith(appending)
    /\ appending' = NoEntry
    /\ UNCHANGED <<journal, ledgerErr, repairing, historyPhase, historyFaults, historyCrashes, forgotten>>

\* commitRetained fails: the journal keeps the event, and Append is refused
\* from now on.
CommitRetainedFails ==
    /\ historyPhase = "up"
    /\ appending # NoEntry
    /\ \/ ~NextRecord(appending) /\ UNCHANGED historyFaults
       \/ historyFaults < MaxHistoryFaults /\ historyFaults' = historyFaults + 1
    /\ ledgerErr' = TRUE
    /\ appending' = NoEntry
    /\ UNCHANGED <<journal, ledger, repairing, historyPhase, historyCrashes, forgotten>>

-----------------------------------------------------------------------------
(* ReconcileProjection and AcknowledgeProjection *)

\* The event must be one the journal has.
CheckRepair(entry) ==
    /\ Unlocked
    /\ repairing = NotRepairing
    /\ entry \in Range(journal.events)
    /\ repairing' = [at |-> "checked", entry |-> entry]
    /\ UNCHANGED <<journal, ledger, ledgerErr, appending, historyPhase, historyFaults, historyCrashes, forgotten>>

Recorded(entry) == entry \in Range(ledger.records)

\* reconcileSourceEvent: a record the ledger has is a duplicate, the next one
\* is written, any other is refused (expired, conflict or gap).
Repair ==
    /\ historyPhase = "up"
    /\ repairing.at = "checked"
    /\ LET entry == repairing.entry IN
       \/ /\ Recorded(entry)
          /\ repairing' = [repairing EXCEPT !.at = "repaired"]
          /\ UNCHANGED <<ledger, historyFaults>>
       \/ /\ ~Recorded(entry) /\ NextRecord(entry)
          /\ ledger' = LedgerWith(entry)
          /\ repairing' = [repairing EXCEPT !.at = "repaired"]
          /\ UNCHANGED historyFaults
       \/ /\ ~Recorded(entry) /\ ~NextRecord(entry)
          /\ repairing' = NotRepairing
          /\ UNCHANGED <<ledger, historyFaults>>
       \/ /\ ~Recorded(entry) /\ NextRecord(entry)
          /\ historyFaults < MaxHistoryFaults
          /\ historyFaults' = historyFaults + 1
          /\ repairing' = NotRepairing
          /\ UNCHANGED ledger
    /\ UNCHANGED <<journal, ledgerErr, appending, historyPhase, historyCrashes, forgotten>>

\* A repair without an error, of whichever event, clears ledgerErr.
ClearError ==
    /\ Unlocked
    /\ repairing.at = "repaired"
    /\ repairing' = NotRepairing
    /\ ledgerErr' = FALSE
    /\ forgotten' = IF ledgerErr /\ Behind THEN forgotten + 1 ELSE forgotten
    /\ UNCHANGED <<journal, ledger, appending, historyPhase, historyFaults, historyCrashes>>

\* The first acknowledgement of a record is kept; another one is a duplicate
\* or a conflict and changes nothing.
Acknowledge(entry, reference) ==
    /\ historyPhase = "up"
    /\ Recorded(entry)
    /\ ~\E ack \in ledger.acks : ack.seq = entry.seq
    /\ ledger' = [ledger EXCEPT !.acks = ledger.acks \cup {[seq |-> entry.seq, reference |-> reference]}]
    /\ UNCHANGED <<journal, ledgerErr, appending, repairing, historyPhase, historyFaults, historyCrashes, forgotten>>

-----------------------------------------------------------------------------
(* Crash and reopen *)

CrashHistory ==
    /\ historyPhase = "up"
    /\ historyCrashes < MaxHistoryCrashes
    /\ historyCrashes' = historyCrashes + 1
    /\ historyPhase' = "down"
    /\ ledgerErr' = FALSE
    /\ appending' = NoEntry
    /\ repairing' = NotRepairing
    /\ forgotten' = IF Behind THEN forgotten + 1 ELSE forgotten
    /\ UNCHANGED <<journal, ledger, historyFaults>>

\* Whether the entries follow each other from the floor to the sequence.
Contiguous(store, list) ==
    /\ \A k \in DOMAIN list : list[k].seq = store.floor + k
    /\ store.seq = store.floor + Len(list)

\* validateLocked of the ledger: every acknowledgement has its record.
ValidLedger ==
    /\ Contiguous(ledger, ledger.records)
    /\ \A ack \in ledger.acks : \E k \in DOMAIN ledger.records : ledger.records[k].seq = ack.seq

\* OpenProjectionLedger, then OpenFile.
Reopen ==
    /\ historyPhase = "down"
    /\ historyPhase' = IF ValidLedger /\ Contiguous(journal, journal.events) THEN "up" ELSE "refused"
    /\ UNCHANGED <<journal, ledger, ledgerErr, appending, repairing, historyFaults, historyCrashes, forgotten>>

HistoryInit ==
    /\ journal = [seq |-> 0, floor |-> 0, events |-> <<>>]
    /\ ledger = [seq |-> 0, floor |-> 0, records |-> <<>>, acks |-> {}]
    /\ ledgerErr = FALSE
    /\ appending = NoEntry
    /\ repairing = NotRepairing
    /\ historyPhase = "up"
    /\ historyFaults = 0 /\ historyCrashes = 0
    /\ forgotten = 0

HistoryNext ==
    \/ \E body \in Bodies : AppendEvent(body)
    \/ AppendEventFails \/ CommitRetained \/ CommitRetainedFails
    \/ \E entry \in Range(journal.events) : CheckRepair(entry)
    \/ Repair \/ ClearError
    \/ \E entry \in Range(ledger.records), reference \in References : Acknowledge(entry, reference)
    \/ CrashHistory \/ Reopen

HistorySpec == HistoryInit /\ [][HistoryNext]_historyVars

-----------------------------------------------------------------------------
(* Properties *)

\* The ledger is a stretch of the journal: its records follow each other
\* without a hole, none is ahead of the journal, and a record says what the
\* journal says under the same number, across failed writes, crashes between
\* the two writes and repairs that race with Append.
LedgerFollowsJournal ==
    /\ Contiguous(ledger, ledger.records)
    /\ ledger.seq <= journal.seq
    /\ \A record \in Range(ledger.records), event \in Range(journal.events) :
        record.seq = event.seq => record = event

\* The event the ledger misses next is still in the journal, unless the
\* journal has forgotten as often as it retains events that the ledger is
\* behind: each time lets Append add one more event before it is refused.
RepairStaysPossible ==
    forgotten < JournalRetention => ledger.seq >= journal.floor

\* The stores open again after a crash, unless the ledger has trimmed a record
\* that a consumer had acknowledged (OpenProjectionLedger then refuses it).
ReopensUnlessAckTrimmed ==
    historyPhase = "refused" => \E ack \in ledger.acks : ack.seq <= ledger.floor
=============================================================================
