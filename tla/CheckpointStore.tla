--------------------------- MODULE CheckpointStore ---------------------------
(***************************************************************************)
(* The store of run checkpoints that several processes share through the   *)
(* file coordinator: core/checkpoint/store.go and core/sourcecoordination, *)
(* coordinator.go and file.go.  Opening a store acquires the lease of the  *)
(* source, whoever holds it.  An operation of a store first reads the      *)
(* coordinator (syncCoordinatorLocked) and then, if it changes something,  *)
(* publishes all its records with a compare-and-swap that checks the lease *)
(* and the revision; another process may acquire the lease or publish in   *)
(* between.  A store whose publication failed is poisoned.                 *)
(*                                                                         *)
(* The coordinator's file is replaced by a rename, so a crash leaves the   *)
(* old state or the new one.  Request validation, sizes and the budget     *)
(* fields of requests are left out: requests are well formed.  A request   *)
(* with another identity than the claim's is refused and changes nothing.  *)
(***************************************************************************)
EXTENDS Naturals, FiniteSets

CONSTANTS
    Writers,         \* processes with a store on the coordinator
    Checkpoints,     \* ids of checkpoints
    Outcomes,        \* results of resumed runs
    CheckpointRoom,  \* Options.Capacity
    MaxLeases,       \* bound on acquired leases
    MaxAdmissions,   \* bound on attempt ids
    MaxPublications, \* bound on the coordinator's revision
    MaxWriteFaults   \* bound on failed writes, lapsed leases and expired checkpoints

ASSUME CheckpointAssumption ==
    /\ CheckpointRoom \in Nat
    /\ MaxLeases \in Nat
    /\ MaxAdmissions \in Nat
    /\ MaxPublications \in Nat

VARIABLES
    coordinator,   \* the coordinator's file
    store,         \* per process: its store
    publishing,    \* per process: the records it is about to publish
    claims,        \* per process: the claim its host holds
    admissions,    \* attempt ids drawn so far
    writeFaults,   \* faults so far
    expired,       \* checkpoints past ExpiresAt
    admitted,      \* ghost: the claims callers have been given
    promised       \* ghost: per checkpoint, the latest record a caller has been told of

checkpointVars == <<coordinator, store, publishing, claims, admissions, writeFaults, expired, admitted, promised>>

NotSaved == [state |-> "absent", generation |-> 0, attempt |-> 0]
Saved == [state |-> "persisted", generation |-> 0, attempt |-> 0]
NoCheckpoints == [c \in Checkpoints |-> NotSaved]
NotPublishing == [to |-> "nothing"]
NoClaim == [on |-> "nothing"]
ClosedStore == [open |-> FALSE, poisoned |-> FALSE, lease |-> 0, revision |-> 0,
                records |-> NoCheckpoints, recovered |-> {}]

\* The claims of a snapshot that have no result.
Unresolved(records) == {c \in Checkpoints : records[c].state \in {"claimed", "running"}}
Stored(records) == {c \in Checkpoints : records[c].state # "absent"}

-----------------------------------------------------------------------------
(* The lease *)

\* OpenFileStore: the lease is taken, whoever has it, and the state is read.
AcquireLease(p) ==
    /\ ~store[p].open
    /\ coordinator.fence < MaxLeases
    /\ coordinator' = [coordinator EXCEPT !.fence = @ + 1, !.live = TRUE]
    /\ store' = [store EXCEPT ![p] =
                    [open |-> TRUE, poisoned |-> FALSE, lease |-> coordinator.fence + 1,
                     revision |-> coordinator.revision, records |-> coordinator.records,
                     recovered |-> Unresolved(coordinator.records)]]
    /\ UNCHANGED <<publishing, claims, admissions, writeFaults, expired, admitted, promised>>

LapseLease ==
    /\ coordinator.live
    /\ writeFaults < MaxWriteFaults
    /\ coordinator' = [coordinator EXCEPT !.live = FALSE]
    /\ writeFaults' = writeFaults + 1
    /\ UNCHANGED <<store, publishing, claims, admissions, expired, admitted, promised>>

\* The host of a closed store keeps its claim; a crash loses it.
CloseStore(p) ==
    /\ store[p].open
    /\ publishing[p] = NotPublishing
    /\ store' = [store EXCEPT ![p] = ClosedStore]
    /\ UNCHANGED <<coordinator, publishing, claims, admissions, writeFaults, expired, admitted, promised>>

ExpireCheckpoint(c) ==
    /\ coordinator.records[c].state # "absent"
    /\ writeFaults < MaxWriteFaults
    /\ writeFaults' = writeFaults + 1
    /\ expired' = expired \cup {c}
    /\ UNCHANGED <<coordinator, store, publishing, claims, admissions, admitted, promised>>

-----------------------------------------------------------------------------
(* Operations *)

\* syncCoordinatorLocked: another revision replaces the records, and every
\* claim without a result in it needs recovery.
Synced(p) ==
    IF coordinator.revision = store[p].revision THEN store[p]
    ELSE [store[p] EXCEPT !.revision = coordinator.revision, !.records = coordinator.records,
                          !.recovered = Unresolved(coordinator.records)]

\* An operation starts: it synchronises and returns an answer, from which
\* the caller learns the record of a checkpoint ...
Answers(p, c) ==
    /\ store' = [store EXCEPT ![p] = Synced(p)]
    /\ promised' = [promised EXCEPT ![c] = IF store[p].poisoned THEN @ ELSE Synced(p).records[c]]
    /\ UNCHANGED <<coordinator, publishing, claims, admissions, writeFaults, expired, admitted>>

\* ... or goes on to publish records in which that of c is new.
Publishes(p, c, records, what) ==
    /\ store' = [store EXCEPT ![p] = Synced(p)]
    /\ publishing' = [publishing EXCEPT ![p] =
                        [to |-> what, checkpoint |-> c, records |-> records]]
    /\ UNCHANGED <<coordinator, claims, writeFaults, expired, admitted, promised>>

Begins(p) == store[p].open /\ publishing[p] = NotPublishing
Usable(p) == Begins(p) /\ ~store[p].poisoned

SaveCheckpoint(p, c) ==
    LET s == Synced(p) IN
    /\ Usable(p)
    /\ IF s.records[c].state = "absent" /\ Cardinality(Stored(s.records)) < CheckpointRoom
       THEN /\ Publishes(p, c, [s.records EXCEPT ![c] = Saved], "save")
            /\ UNCHANGED admissions
       ELSE Answers(p, c)

\* Load, ReadResumeClaim, and every operation of a poisoned store.
ReadCheckpoint(p, c) == Begins(p) /\ Answers(p, c)

\* Mutant of ClaimResume: a claim that needs recovery is claimed again.
ClaimResumeRecovered(p, c) ==
    LET s == Synced(p) IN
    /\ Usable(p)
    /\ IF (s.records[c].state = "persisted" \/ c \in s.recovered) /\ c \notin expired
       THEN /\ admissions < MaxAdmissions
            /\ admissions' = admissions + 1
            /\ Publishes(p, c, [s.records EXCEPT ![c] =
                    [state |-> "claimed", generation |-> s.records[c].generation + 1,
                     attempt |-> admissions + 1]], "claim")
       ELSE Answers(p, c)

\* ClaimResume: a checkpoint without a claim gets one under a new attempt id; a
\* repeated request is answered with the claim there is, another one refused.
ClaimResume(p, c) ==
    LET s == Synced(p) IN
    /\ Usable(p)
    /\ IF s.records[c].state = "persisted" /\ c \notin expired
       THEN /\ admissions < MaxAdmissions
            /\ admissions' = admissions + 1
            /\ Publishes(p, c, [s.records EXCEPT ![c] =
                    [state |-> "claimed", generation |-> s.records[c].generation + 1,
                     attempt |-> admissions + 1]], "claim")
       ELSE Answers(p, c)

\* mutateClaim: the claim is the one the record has.
Owns(s, claim) ==
    LET r == s.records[claim.on] IN
    /\ r.state \in {"claimed", "running", "completed"}
    /\ r.attempt = claim.attempt
    /\ r.generation = claim.generation

MarkRunning(p) ==
    LET s == Synced(p)
        claim == claims[p]
        r == s.records[claim.on]
        running == IF r.state = "running" THEN r
                   ELSE [state |-> "running", generation |-> r.generation + 1, attempt |-> r.attempt]
    IN
    /\ Usable(p)
    /\ claim # NoClaim
    /\ IF Owns(s, claim) /\ claim.on \notin s.recovered /\ r.state # "completed"
       THEN /\ Publishes(p, claim.on, [s.records EXCEPT ![claim.on] = running], "run")
            /\ UNCHANGED admissions
       ELSE Answers(p, claim.on)

\* The record of a run that ended with a result, or paused at a successor.
Completed(r, result, next) ==
    [state |-> "completed", generation |-> r.generation + 1, attempt |-> r.attempt,
     result |-> result, successor |-> next]

\* CommitResumeResult: the same result once more is published again.
CommitResumeResult(p, result, next) ==
    LET s == Synced(p)
        claim == claims[p]
        r == s.records[claim.on]
        again == r.state = "completed" /\ r.result = result /\ r.successor = next
        first == /\ r.state \in {"claimed", "running"}
                 /\ claim.on \notin s.recovered
                 /\ \A c \in next : /\ s.records[c].state = "absent"
                                     /\ Cardinality(Stored(s.records)) < CheckpointRoom
    IN
    /\ Usable(p)
    /\ claim # NoClaim
    /\ claim.on \notin next
    /\ IF Owns(s, claim) /\ (again \/ first)
       THEN /\ Publishes(p, claim.on,
                  IF again THEN s.records
                  ELSE [c \in Checkpoints |->
                          IF c = claim.on THEN Completed(r, result, next)
                          ELSE IF c \in next THEN Saved ELSE s.records[c]], "commit")
            /\ UNCHANGED admissions
       ELSE Answers(p, claim.on)

\* Control: a checkpoint without a claim is canceled.
CancelCheckpoint(p, c) ==
    LET s == Synced(p) IN
    /\ Usable(p)
    /\ IF s.records[c].state \in {"persisted", "canceled"} /\ c \notin expired
       THEN /\ Publishes(p, c, [s.records EXCEPT ![c] = [s.records[c] EXCEPT !.state = "canceled"]], "cancel")
            /\ UNCHANGED admissions
       ELSE Answers(p, c)

-----------------------------------------------------------------------------
(* publish *)

\* Mutant of Fenced: the last writer wins.
FencedByNothing(p) == TRUE

\* CompareAndSwap: the lease is the current one and has not expired, and the
\* revision is the one that was read.
Fenced(p) ==
    /\ coordinator.fence = store[p].lease
    /\ coordinator.live
    /\ coordinator.revision = store[p].revision

PublishedBy(p) ==
    coordinator' = [coordinator EXCEPT !.revision = coordinator.revision + 1, !.records = publishing[p].records]

\* The caller is told: what it has been told of a checkpoint is its record.
PublishSucceeds(p) ==
    LET op == publishing[p]
        c == op.checkpoint
    IN
    /\ op # NotPublishing
    /\ Fenced(p)
    /\ coordinator.revision < MaxPublications
    /\ PublishedBy(p)
    /\ store' = [store EXCEPT ![p] =
                    [store[p] EXCEPT !.records = op.records, !.revision = coordinator.revision + 1,
                                     !.recovered = store[p].recovered \cap Unresolved(op.records)]]
    /\ publishing' = [publishing EXCEPT ![p] = NotPublishing]
    /\ claims' = [claims EXCEPT ![p] =
                    IF op.to \in {"claim", "run", "commit"}
                    THEN [on |-> c, attempt |-> op.records[c].attempt, generation |-> op.records[c].generation]
                    ELSE @]
    /\ promised' = [promised EXCEPT ![c] = op.records[c]]
    /\ admitted' = IF op.to = "claim" THEN admitted \cup {<<c, op.records[c].attempt>>} ELSE admitted
    /\ UNCHANGED <<admissions, writeFaults, expired>>

\* The compare-and-swap is refused or its write fails: the store is poisoned.
PublishFails(p) ==
    LET op == publishing[p] IN
    /\ op # NotPublishing
    /\ \/ ~Fenced(p) /\ UNCHANGED writeFaults
       \/ writeFaults < MaxWriteFaults /\ writeFaults' = writeFaults + 1
    /\ store' = [store EXCEPT ![p] =
                    [store[p] EXCEPT !.poisoned = TRUE,
                                     !.records = IF op.to = "save" THEN store[p].records ELSE op.records]]
    /\ publishing' = [publishing EXCEPT ![p] = NotPublishing]
    /\ UNCHANGED <<coordinator, claims, admissions, expired, admitted, promised>>

\* The process dies; what it was publishing has reached the file or not.
CrashWriter(p) ==
    /\ store[p].open
    /\ \/ UNCHANGED coordinator
       \/ /\ publishing[p] # NotPublishing
          /\ Fenced(p)
          /\ coordinator.revision < MaxPublications
          /\ PublishedBy(p)
    /\ store' = [store EXCEPT ![p] = ClosedStore]
    /\ publishing' = [publishing EXCEPT ![p] = NotPublishing]
    /\ claims' = [claims EXCEPT ![p] = NoClaim]
    /\ UNCHANGED <<admissions, writeFaults, expired, admitted, promised>>

-----------------------------------------------------------------------------
CheckpointInit ==
    /\ coordinator = [fence |-> 0, live |-> FALSE, revision |-> 0, records |-> NoCheckpoints]
    /\ store = [p \in Writers |-> ClosedStore]
    /\ publishing = [p \in Writers |-> NotPublishing]
    /\ claims = [p \in Writers |-> NoClaim]
    /\ admissions = 0
    /\ writeFaults = 0
    /\ expired = {}
    /\ admitted = {}
    /\ promised = NoCheckpoints

CheckpointNext ==
    \/ LapseLease
    \/ \E c \in Checkpoints : ExpireCheckpoint(c)
    \/ \E p \in Writers :
        \/ AcquireLease(p) \/ CloseStore(p) \/ MarkRunning(p)
        \/ PublishSucceeds(p) \/ PublishFails(p) \/ CrashWriter(p)
        \/ \E result \in Outcomes : CommitResumeResult(p, result, {})
        \/ \E c \in Checkpoints :
            \/ SaveCheckpoint(p, c) \/ CancelCheckpoint(p, c) \/ ClaimResume(p, c)
            \/ ReadCheckpoint(p, c) \/ CommitResumeResult(p, "paused", {c})

CheckpointSpec == CheckpointInit /\ [][CheckpointNext]_checkpointVars

-----------------------------------------------------------------------------
(* Properties *)

(***************************************************************************)
(* Of all processes that ask to resume a checkpoint, and all restarts of   *)
(* theirs, one is ever given a claim: ClaimResume, the compare-and-swap    *)
(* behind publish and the recovery mark of syncCoordinatorLocked.          *)
(***************************************************************************)
OneAttemptPerCheckpoint ==
    \A x, y \in admitted : x[1] = y[1] => x = y

\* q is r or a later record of the same checkpoint.
Follows(q, r) ==
    \/ q = r
    \/ r.state = "absent"
    \/ r.state = "persisted" /\ q.state # "absent"
    \/ r.state = "claimed" /\ q.state \in {"running", "completed"} /\ q.attempt = r.attempt
    \/ r.state = "running" /\ q.state = "completed" /\ q.attempt = r.attempt

(***************************************************************************)
(* What a caller has been told of a checkpoint (that it is saved, claimed, *)
(* running, canceled, or ended with a result) is in the coordinator's file *)
(* and stays there: no writer that lost its lease or read an older         *)
(* revision undoes it.                                                     *)
(***************************************************************************)
AcknowledgedIsDurable ==
    \A c \in Checkpoints : Follows(coordinator.records[c], promised[c])
=============================================================================
