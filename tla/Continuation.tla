----------------------------- MODULE Continuation -----------------------------
(***************************************************************************)
(* Resuming a paused workflow from its file store:                         *)
(* orchestration/workflow/continuation.go, Engine.ResumeContinuation with  *)
(* FileWorkflowContinuationStore.  A resume loads the continuation, claims *)
(* it, marks the claim running, executes the rest of the graph and commits *)
(* the result; the store's lock is taken for each of those calls and not   *)
(* across them, so resumes of one continuation interleave.  A run that     *)
(* pauses again commits its successor in the record of its predecessor.    *)
(*                                                                         *)
(* A continuation is its generation: the successor of g is g + 1.  A       *)
(* record is what the claim says; in memory and on disk.  A failed write   *)
(* restores the record but not the claim the record points to, so what a   *)
(* call did to an existing claim stays in memory.  Bindings, digests and   *)
(* expiry are those of a valid request.                                    *)
(***************************************************************************)
EXTENDS Naturals

CONSTANTS
    Resumers,              \* concurrent calls of ResumeContinuation
    ResumeIdentities,      \* identities of resume requests
    MaxGeneration,         \* bound on successors
    MaxResumeFaults,       \* bound on failed writes
    MaxResumeCrashes       \* bound on restarts of the process

ASSUME ContinuationAssumption == MaxGeneration \in Nat \ {0}

VARIABLES
    onDisk,        \* per generation: the record in the file of the store
    inMemory,      \* per generation: the record in the store's memory
    resume,        \* per resumer: the call
    resumeFaults, resumeCrashes,
    executions     \* ghost: per generation, how often the graph was executed

continuationVars == <<onDisk, inMemory, resume, resumeFaults, resumeCrashes, executions>>

Generations == 1..MaxGeneration
NotStored == [claim |-> "absent"]
Unclaimed == [claim |-> "none"]
NoResume == [at |-> "idle"]

\* loadRecord: a continuation without a file is found in its predecessor.
Found(g) ==
    IF onDisk[g] # NotStored THEN onDisk[g]
    ELSE IF g > 1 /\ onDisk[g - 1].claim = "completed" /\ onDisk[g - 1].result = "paused" THEN Unclaimed
    ELSE NotStored

\* A claim that is read without a result needs recovery.
Reread(r) == IF r.claim \in {"claimed", "running"} THEN [r EXCEPT !.claim = "recovery_required"] ELSE r

\* persistRecord writes the record of g or fails.
Persists(g, record) ==
    /\ onDisk' = [onDisk EXCEPT ![g] = record]
    /\ UNCHANGED resumeFaults

PersistFails ==
    /\ resumeFaults < MaxResumeFaults
    /\ resumeFaults' = resumeFaults + 1
    /\ UNCHANGED onDisk

Remembers(g, record) == inMemory' = [inMemory EXCEPT ![g] = record]
Goes(c, to) == resume' = [resume EXCEPT ![c] = to]

-----------------------------------------------------------------------------
\* A run of the graph pauses: its first continuation is saved.
SaveContinuation ==
    /\ onDisk[1] = NotStored
    /\ inMemory[1] = NotStored
    /\ \/ Persists(1, Unclaimed) /\ Remembers(1, Unclaimed)
       \/ PersistFails /\ UNCHANGED inMemory
    /\ UNCHANGED <<resume, resumeCrashes, executions>>

LoadContinuation(c, g, i) ==
    /\ resume[c] = NoResume
    /\ Found(g) # NotStored
    /\ Remembers(g, Reread(Found(g)))
    /\ Goes(c, [at |-> "loaded", on |-> g, identity |-> i])
    /\ UNCHANGED <<onDisk, resumeFaults, resumeCrashes, executions>>

\* Mutant of ClaimContinuation: the claim is kept in memory only.
ClaimContinuationUnwritten(c) ==
    LET g == resume[c].on
        r == inMemory[g]
    IN
    /\ resume[c].at = "loaded"
    /\ r = Unclaimed
    /\ Remembers(g, [claim |-> "claimed", identity |-> resume[c].identity])
    /\ Goes(c, [resume[c] EXCEPT !.at = "claimed"])
    /\ UNCHANGED <<onDisk, resumeFaults, resumeCrashes, executions>>

\* ClaimResume of a continuation that has no claim.
ClaimContinuation(c) ==
    LET g == resume[c].on
        claim == [claim |-> "claimed", identity |-> resume[c].identity]
    IN
    /\ resume[c].at = "loaded"
    /\ inMemory[g] = Unclaimed
    /\ \/ Persists(g, claim) /\ Remembers(g, claim) /\ Goes(c, [resume[c] EXCEPT !.at = "claimed"])
       \/ PersistFails /\ UNCHANGED inMemory /\ Goes(c, NoResume)
    /\ UNCHANGED <<resumeCrashes, executions>>

\* ClaimResume of a claimed one: the same request gets the result if there is
\* one; it writes that the claim needs recovery; every other is refused.
RepeatClaim(c) ==
    LET g == resume[c].on
        r == inMemory[g]
    IN
    /\ resume[c].at = "loaded"
    /\ r # Unclaimed
    /\ \/ /\ r.identity = resume[c].identity
          /\ r.claim = "recovery_required"
          /\ Persists(g, r) \/ PersistFails
       \/ /\ r.identity # resume[c].identity \/ r.claim # "recovery_required"
          /\ UNCHANGED <<onDisk, resumeFaults>>
    /\ Goes(c, NoResume)
    /\ UNCHANGED <<inMemory, resumeCrashes, executions>>

\* MarkResumeRunning: the claim in memory is marked even if the write fails.
MarkResumeRunning(c) ==
    LET g == resume[c].on
        running == [inMemory[g] EXCEPT !.claim = "running"]
    IN
    /\ resume[c].at = "claimed"
    /\ \/ /\ inMemory[g].claim \in {"claimed", "running"}
          /\ Remembers(g, running)
          /\ \/ Persists(g, running) /\ Goes(c, [resume[c] EXCEPT !.at = "running"])
             \/ PersistFails /\ Goes(c, NoResume)
       \/ /\ inMemory[g].claim \notin {"claimed", "running"}
          /\ Goes(c, NoResume)
          /\ UNCHANGED <<onDisk, inMemory, resumeFaults>>
    /\ UNCHANGED <<resumeCrashes, executions>>

\* executeFromContinuation: the graph ends, pauses again, or gives up.
ExecuteContinuation(c) ==
    LET g == resume[c].on IN
    /\ resume[c].at = "running"
    /\ executions' = [executions EXCEPT ![g] = @ + 1]
    /\ \/ Goes(c, NoResume)
       \/ \E result \in {"done"} \cup (IF g < MaxGeneration THEN {"paused"} ELSE {}) :
            Goes(c, [at |-> "executed", on |-> g, identity |-> resume[c].identity, result |-> result])
    /\ UNCHANGED <<onDisk, inMemory, resumeFaults, resumeCrashes>>

Completion(c) == [claim |-> "completed", identity |-> resume[c].identity, result |-> resume[c].result]

\* CommitResumeResultWithSuccessor: the result is set on the claim in memory
\* even if the write fails; the successor is then taken back.  No other call
\* can have completed the claim (ExecutedOnce).
CommitResume(c) ==
    LET g == resume[c].on
        withSuccessor == resume[c].result = "paused"
    IN
    /\ resume[c].at = "executed"
    /\ inMemory[g].claim # "completed"
    /\ \/ /\ Persists(g, Completion(c))
          /\ inMemory' = [h \in Generations |->
                            IF h = g THEN Completion(c)
                            ELSE IF withSuccessor /\ h = g + 1 THEN Unclaimed
                            ELSE inMemory[h]]
       \/ /\ PersistFails
          /\ inMemory' = [h \in Generations |->
                            IF h = g THEN Completion(c)
                            ELSE IF withSuccessor /\ h = g + 1 THEN NotStored
                            ELSE inMemory[h]]
    /\ Goes(c, NoResume)
    /\ UNCHANGED <<resumeCrashes, executions>>

\* The process ends, with every call in it, and the store is opened again.
RestartEngine ==
    /\ resumeCrashes < MaxResumeCrashes
    /\ resumeCrashes' = resumeCrashes + 1
    /\ inMemory' = [g \in Generations |-> NotStored]
    /\ resume' = [c \in Resumers |-> NoResume]
    /\ UNCHANGED <<onDisk, resumeFaults, executions>>

-----------------------------------------------------------------------------
ContinuationInit ==
    /\ onDisk = [g \in Generations |-> NotStored]
    /\ inMemory = [g \in Generations |-> NotStored]
    /\ resume = [c \in Resumers |-> NoResume]
    /\ resumeFaults = 0
    /\ resumeCrashes = 0
    /\ executions = [g \in Generations |-> 0]

ResumeStep(c) ==
    ClaimContinuation(c) \/ RepeatClaim(c) \/ MarkResumeRunning(c) \/ ExecuteContinuation(c) \/ CommitResume(c)

ContinuationNext ==
    \/ SaveContinuation
    \/ \E c \in Resumers :
        \/ \E g \in Generations, i \in ResumeIdentities : LoadContinuation(c, g, i)
        \/ ResumeStep(c)
    \/ RestartEngine

ContinuationSpec == ContinuationInit /\ [][ContinuationNext]_continuationVars

-----------------------------------------------------------------------------
(* Properties *)

(***************************************************************************)
(* A continuation is executed at most once, whatever resumes of it         *)
(* interleave, whichever writes fail and however often the process         *)
(* restarts: no effect of the graph is run again by a resume (claims are   *)
(* on disk before ClaimResume returns).                                    *)
(***************************************************************************)
ExecutedOnce == \A g \in Generations : executions[g] <= 1
=============================================================================
