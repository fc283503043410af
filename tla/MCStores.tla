------------------------------- MODULE MCStores -------------------------------
(***************************************************************************)
(* The parts that keep state for others, and the two circuit breakers, do  *)
(* not interact; each is checked by itself in one run: a behaviour is a    *)
(* behaviour of one of them, its subject, while the others stay in their   *)
(* initial states.                                                         *)
(***************************************************************************)
EXTENDS TaskBoardQuery, MemoryEngine, HistoryLedger, SourceAdapter,
        CheckpointStore, Continuation, AlertDelivery, HealthProbe

VARIABLE subject

AllNormal == [t \in Tasks |-> "normal"]

\* Batches of upserts: one record, two, and one with a blank id at its end.
Batches == {<<1>>, <<1, 2>>, <<2, 0>>}

\* Both kinds of governance, one of them, none.
Governances == [circuit : BOOLEAN, backoff : BOOLEAN]

storeVars ==
    <<subject, queryVars, memVars, historyVars, adapterVars, checkpointVars, continuationVars,
      alertVars, healthVars>>

StoresInit ==
    /\ subject \in {"query", "memory", "history", "adapter", "checkpoint", "continuation",
                   "alert", "health"}
    /\ QueryInit /\ MemInit /\ HistoryInit /\ AdapterInit /\ CheckpointInit /\ ContinuationInit
    /\ AlertInit /\ HealthInit

StoresNext ==
    /\ UNCHANGED subject
    /\ \/ /\ subject = "query" /\ QueryNext
          /\ UNCHANGED <<memVars, historyVars, adapterVars, checkpointVars, continuationVars,
                         alertVars, healthVars>>
       \/ /\ subject = "memory" /\ MemNext
          /\ UNCHANGED <<queryVars, historyVars, adapterVars, checkpointVars, continuationVars,
                         alertVars, healthVars>>
       \/ /\ subject = "history" /\ HistoryNext
          /\ UNCHANGED <<queryVars, memVars, adapterVars, checkpointVars, continuationVars,
                         alertVars, healthVars>>
       \/ /\ subject = "adapter" /\ AdapterNext
          /\ UNCHANGED <<queryVars, memVars, historyVars, checkpointVars, continuationVars,
                         alertVars, healthVars>>
       \/ /\ subject = "checkpoint" /\ CheckpointNext
          /\ UNCHANGED <<queryVars, memVars, historyVars, adapterVars, continuationVars,
                         alertVars, healthVars>>
       \/ /\ subject = "continuation" /\ ContinuationNext
          /\ UNCHANGED <<queryVars, memVars, historyVars, adapterVars, checkpointVars,
                         alertVars, healthVars>>
       \/ /\ subject = "alert" /\ AlertNext
          /\ UNCHANGED <<queryVars, memVars, historyVars, adapterVars, checkpointVars,
                         continuationVars, healthVars>>
       \/ /\ subject = "health" /\ HealthNext
          /\ UNCHANGED <<queryVars, memVars, historyVars, adapterVars, checkpointVars,
                         continuationVars, alertVars>>

StoresSpec == StoresInit /\ [][StoresNext]_storeVars
=============================================================================
