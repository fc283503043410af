---------------------------- MODULE TaskBoardQuery ----------------------------
(***************************************************************************)
(* QueryTasks of orchestration/scheduler, query.go, and the cache of its   *)
(* results in scheduler.go.  The store and the cache have a lock each: an  *)
(* operation changes the store first and invalidates the cache later, and  *)
(* a query takes its snapshot and writes it to the cache in two steps.     *)
(* One query key stands for all: their entries do not interact.  The cache *)
(* epoch is only compared with an epoch read before, so each query keeps   *)
(* the result of that comparison (current) in place of the number.         *)
(***************************************************************************)
EXTENDS Scheduler

CONSTANTS Queries,   \* concurrent calls of QueryTasks
          MaxOwed,   \* bound on operations between store and invalidation
          None       \* no entry

ASSUME QueryAssumption == MaxOwed \in Nat \ {0}

VARIABLES
    cache,    \* queryCache[key]
    query,    \* per query: its step, epoch comparison and snapshot
    owed,     \* operations that have yet to invalidate the cache
    blind     \* ghost: a change since the last invalidation that none will follow

queryVars == <<vars, cache, query, owed, blind>>

\* What a query shows of the tasks.
View ==
    [t \in Tasks |-> [state |-> tasks[t].state, attempts |-> tasks[t].attempts,
                      current |-> tasks[t].current, source |-> tasks[t].source,
                      conflict |-> tasks[t].conflict]]

\* Of the operations that succeed, only the report that is a duplicate does
\* not invalidate the cache; it is the one that records a conflict.
ConflictRecorded == \E t \in Tasks : tasks'[t].conflict /\ ~tasks[t].conflict

QueryOperation ==
    /\ owed < MaxOwed
    /\ Operation
    /\ ~ConflictRecorded
    /\ owed' = owed + 1
    /\ UNCHANGED <<cache, query, blind>>

\* Claim without a task to hand out returns before the invalidation as well.
SilentOperation ==
    /\ ClaimNone \/ (Operation /\ ConflictRecorded)
    /\ blind' = (blind \/ tasks' # tasks)
    /\ UNCHANGED <<cache, query, owed>>

\* invalidateTaskBoardQueryCache
Invalidate ==
    /\ owed > 0
    /\ owed' = owed - 1
    /\ cache' = None
    /\ query' = [q \in Queries |-> [query[q] EXCEPT !.current = FALSE]]
    /\ blind' = FALSE
    /\ UNCHANGED vars

-----------------------------------------------------------------------------
(* QueryTasks *)

Idle == [pc |-> "idle", current |-> FALSE, snapshot |-> None]

\* taskBoardQueryEpoch
ReadEpoch(q) ==
    /\ query[q].pc = "idle"
    /\ query' = [query EXCEPT ![q].pc = "cache", ![q].current = TRUE]
    /\ UNCHANGED <<vars, cache, owed, blind>>

\* readTaskBoardQueryCache: a hit answers the query.
ReadCache(q) ==
    /\ query[q].pc = "cache"
    /\ query' = [query EXCEPT ![q] = IF @.current /\ cache # None THEN Idle
                                     ELSE [@ EXCEPT !.pc = "snapshot"]]
    /\ UNCHANGED <<vars, cache, owed, blind>>

ReadSnapshot(q) ==
    /\ query[q].pc = "snapshot"
    /\ query' = [query EXCEPT ![q].pc = "write", ![q].snapshot = View]
    /\ UNCHANGED <<vars, cache, owed, blind>>

\* Mutant of WriteCache: the epoch is not compared.
WriteCacheAlways(q) ==
    /\ query[q].pc = "write"
    /\ cache' = query[q].snapshot
    /\ query' = [query EXCEPT ![q] = Idle]
    /\ UNCHANGED <<vars, owed, blind>>

\* writeTaskBoardQueryCache: dropped when the epoch has moved on.
WriteCache(q) ==
    /\ query[q].pc = "write"
    /\ cache' = IF query[q].current THEN query[q].snapshot ELSE cache
    /\ query' = [query EXCEPT ![q] = Idle]
    /\ UNCHANGED <<vars, owed, blind>>

QueryInit ==
    /\ Init
    /\ cache = None
    /\ query = [q \in Queries |-> Idle]
    /\ owed = 0
    /\ blind = FALSE

QueryNext ==
    \/ QueryOperation
    \/ SilentOperation
    \/ Invalidate
    \/ \E q \in Queries : ReadEpoch(q) \/ ReadCache(q) \/ ReadSnapshot(q) \/ WriteCache(q)
    \/ (ReconcileList \/ ReconcileSkip \/ Tick) /\ UNCHANGED <<cache, query, owed, blind>>

QuerySpec == QueryInit /\ [][QueryNext]_queryVars

-----------------------------------------------------------------------------
(* Properties *)

\* Once the operations that ran have invalidated the cache, an entry shows the
\* tasks as they are: no query that took its snapshot before a change can put
\* it into the cache behind the invalidation.  Left out are the changes the
\* code makes without invalidating (blind).
CacheIsCurrentBarBlindSpots ==
    owed = 0 /\ ~blind => cache \in {None, View}

\* openspec/specs/distributed-subagent-scheduler/spec.md:188 "query returns
\* current snapshot-derived task records": once the operations that ran have
\* returned, an entry shows the state each task is in.
CacheShowsTaskStates ==
    owed = 0 => cache = None \/ \A t \in Tasks : cache[t].state = tasks[t].state
=============================================================================
