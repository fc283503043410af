--------------------------- MODULE RuntimeExporter ---------------------------
(***************************************************************************)
(* Export of runtime events: observability/event/runtime_exporter.go, as   *)
(* the recorder drives it.  Callers hand over one event each; they read    *)
(* the configuration first, so callers with an old and a new configuration *)
(* may be on the way at the same time.  A change of configuration swaps in *)
(* a new exporter with a queue and a worker goroutine and cancels the one  *)
(* before, after the lock is released.  A critical section of the mutex is *)
(* one action, as is each turn of a worker's select.                       *)
(***************************************************************************)
EXTENDS Naturals, Sequences, FiniteSets

CONSTANTS
    ExportedEvents,       \* calls of HandleEvent, each with its event
    ExportConfigs,        \* records: on (enabled, with a profile), failFast (OnError), endpoint
    ExportQueueCapacity,  \* QueueCapacity
    ExportBatchSize,      \* MaxBatchSize
    MaxExportWorkers      \* bound on the exporters started

ASSUME ExporterAssumption ==
    /\ ExportConfigs \subseteq [on : BOOLEAN, failFast : BOOLEAN, endpoint : Nat \ {0}]
    /\ ExportQueueCapacity \in Nat \ {0} /\ ExportBatchSize \in Nat \ {0}
    /\ MaxExportWorkers \in Nat

VARIABLES
    exporter,       \* runtimeExporterRuntime: config (signature and onError); current, the
                    \* worker whose queue is in use, 0 if not active; closing, see Close
    exportWorkers,  \* the worker goroutines, in the order of their start
    exported        \* per event: where its call, and then the event, is

exporterVars == <<exporter, exportWorkers, exported>>

\* The signature before the first event.
Unset == [on |-> FALSE, failFast |-> FALSE, endpoint |-> 0]

ExporterInit ==
    /\ exporter = [config |-> Unset, current |-> 0, closing |-> 0]
    /\ exportWorkers = <<>>
    /\ exported = [e \in ExportedEvents |-> [at |-> "none", config |-> Unset, worker |-> 0]]

-----------------------------------------------------------------------------
(* HandleEvent *)

\* The recorder reads the configuration in effect, which may change at any time.
ReadsConfig(e) ==
    /\ exported[e].at = "none"
    /\ \E config \in ExportConfigs :
        exported' = [exported EXCEPT ![e] = [at |-> "configures", config |-> config, worker |-> 0]]
    /\ UNCHANGED <<exporter, exportWorkers>>

\* The call of e goes on as at, with worker the one it cancels or has queued its event with.
Call(e, at, worker) ==
    exported' = [exported EXCEPT ![e] = [at |-> at, config |-> Unset, worker |-> worker]]

NewWorker == [at |-> "waiting", queue |-> <<>>, batch |-> <<>>, canceled |-> FALSE, cancels |-> 0]

SameConfig(e) ==
    /\ exported[e].at = "configures" /\ exported[e].config = exporter.config
    /\ Call(e, "enqueues", 0)
    /\ UNCHANGED <<exporter, exportWorkers>>

\* configureIfNeeded with another signature; Resolve may fail.
Configure(e) ==
    LET config == exported[e].config IN
    /\ exported[e].at = "configures" /\ config # exporter.config
    /\ \/ /\ config.on /\ Len(exportWorkers) < MaxExportWorkers
          /\ exportWorkers' = Append(exportWorkers, NewWorker)
          /\ exporter' = [exporter EXCEPT !.config = config, !.current = Len(exportWorkers) + 1]
       \/ /\ exporter' = [exporter EXCEPT !.config = config, !.current = 0]
          /\ UNCHANGED exportWorkers
    /\ Call(e, "replaces", exporter.current)

Canceled(workers, w) == IF w = 0 THEN workers ELSE [workers EXCEPT ![w].canceled = TRUE]

\* HandleEvent and enqueue cancel what they took out of use once the lock is released.
CallCancels(e) ==
    /\ exported[e].at \in {"replaces", "overflows"}
    /\ exportWorkers' = Canceled(exportWorkers, exported[e].worker)
    /\ Call(e, IF exported[e].at = "replaces" THEN "enqueues" ELSE "dropped", 0)
    /\ UNCHANGED exporter

Enqueue(e) ==
    LET w == exporter.current IN
    /\ exported[e].at = "enqueues"
    /\ \/ /\ w = 0
          /\ Call(e, "dropped", 0)
          /\ UNCHANGED <<exporter, exportWorkers>>
       \/ /\ w # 0 /\ Len(exportWorkers[w].queue) < ExportQueueCapacity
          /\ exportWorkers' = [exportWorkers EXCEPT ![w].queue = Append(@, e)]
          /\ Call(e, "queued", w)
          /\ UNCHANGED exporter
       \/ /\ w # 0 /\ Len(exportWorkers[w].queue) >= ExportQueueCapacity
          /\ exporter.config.failFast
          /\ exporter' = [exporter EXCEPT !.current = 0]
          /\ Call(e, "overflows", w)
          /\ UNCHANGED exportWorkers
       \/ /\ w # 0 /\ Len(exportWorkers[w].queue) >= ExportQueueCapacity
          /\ ~exporter.config.failFast
          /\ Call(e, "dropped", 0)
          /\ UNCHANGED <<exporter, exportWorkers>>

\* Mutant of CloseExporter: the queue stays in use.
CloseKeepingQueue ==
    /\ exporter.current # 0 /\ exporter.closing = 0
    /\ exporter' = [exporter EXCEPT !.closing = exporter.current]
    /\ UNCHANGED <<exportWorkers, exported>>

\* Close; closing is the worker it is about to cancel.
CloseExporter ==
    /\ exporter.current # 0 /\ exporter.closing = 0
    /\ exporter' = [exporter EXCEPT !.current = 0, !.closing = exporter.current]
    /\ UNCHANGED <<exportWorkers, exported>>

CloseCancels ==
    /\ exporter.closing # 0
    /\ exportWorkers' = Canceled(exportWorkers, exporter.closing)
    /\ exporter' = [exporter EXCEPT !.closing = 0]
    /\ UNCHANGED exported

-----------------------------------------------------------------------------
(* The worker: at is waiting in its select, draining after its context was
   canceled, the one of these it returns to from an export, stopping when it
   cancels after a failed export, stopped or ended                          *)

Becomes(w, worker) == exportWorkers' = [exportWorkers EXCEPT ![w] = worker]

Events(s) == {s[i] : i \in DOMAIN s}

\* flushBatch hands the batch to the exporter.
Flushing(w, worker) ==
    /\ Becomes(w, [worker EXCEPT !.batch = <<>>,
                                 !.at = IF worker.at = "waiting" THEN "exporting" ELSE "exporting_last"])
    /\ exported' = [e \in ExportedEvents |->
                      IF e \in Events(worker.batch) THEN [exported[e] EXCEPT !.at = "exported"]
                      ELSE exported[e]]

\* A turn of the select, or of the drain, that receives an event.
Receives(w) ==
    LET me == exportWorkers[w]
        taken == [me EXCEPT !.queue = Tail(@), !.batch = Append(@, Head(me.queue))] IN
    /\ me.at \in {"waiting", "draining"} /\ me.queue # <<>>
    /\ \/ /\ Len(taken.batch) >= ExportBatchSize
          /\ Flushing(w, taken)
       \/ /\ Len(taken.batch) < ExportBatchSize
          /\ Becomes(w, taken) /\ UNCHANGED exported
    /\ UNCHANGED exporter

\* The flush timer runs while the batch is not empty.
FlushTimerFires(w) ==
    /\ exportWorkers[w].at = "waiting" /\ exportWorkers[w].batch # <<>>
    /\ Flushing(w, exportWorkers[w])
    /\ UNCHANGED exporter

ContextDone(w) ==
    /\ exportWorkers[w].at = "waiting" /\ exportWorkers[w].canceled
    /\ Becomes(w, [exportWorkers[w] EXCEPT !.at = "draining"])
    /\ UNCHANGED <<exporter, exported>>

\* The drain ends with the queue empty: drainQueueAndFlush flushes what it has.
Drained(w) ==
    LET me == exportWorkers[w] IN
    /\ me.at = "draining" /\ me.queue = <<>>
    /\ \/ me.batch # <<>> /\ Flushing(w, me)
       \/ me.batch = <<>> /\ Becomes(w, [me EXCEPT !.at = "ended"]) /\ UNCHANGED exported
    /\ UNCHANGED exporter

Resumed(me) == [me EXCEPT !.at = IF @ = "exporting" THEN "waiting" ELSE "draining"]

\* ExportEvents returns.  Under fail_fast an error takes the exporter in use out
\* of use, which need not be the one whose export failed.
ExportReturns(w) ==
    LET me == exportWorkers[w] IN
    /\ me.at \in {"exporting", "exporting_last"}
    /\ \/ /\ Becomes(w, Resumed(me)) /\ UNCHANGED exporter
       \/ /\ exporter.config.failFast /\ exporter.current # 0
          /\ Becomes(w, [me EXCEPT !.at = "stopping", !.cancels = exporter.current])
          /\ exporter' = [exporter EXCEPT !.current = 0]
    /\ UNCHANGED exported

WorkerCancels(w) ==
    /\ exportWorkers[w].at = "stopping"
    /\ exportWorkers' = [Canceled(exportWorkers, exportWorkers[w].cancels) EXCEPT ![w].at = "stopped"]
    /\ UNCHANGED <<exporter, exported>>

-----------------------------------------------------------------------------
ExporterGoesOn ==
    \/ CloseCancels
    \/ \E e \in ExportedEvents : CallCancels(e)
    \/ \E w \in DOMAIN exportWorkers :
        \/ Receives(w) \/ FlushTimerFires(w) \/ ContextDone(w) \/ Drained(w)
        \/ ExportReturns(w) \/ WorkerCancels(w)

ExporterNext ==
    \/ ExporterGoesOn \/ CloseExporter
    \/ \E e \in ExportedEvents : ReadsConfig(e) \/ SameConfig(e) \/ Configure(e) \/ Enqueue(e)

ExporterSpec == ExporterInit /\ [][ExporterNext]_exporterVars

\* Goroutines that can go on do, the flush timer fires, and ExportEvents returns.
ExporterFairness == WF_exporterVars(ExporterGoesOn)

-----------------------------------------------------------------------------
(* Properties *)

(***************************************************************************)
(* Every event that enqueue accepted is in the end handed to the exporter, *)
(* whatever reconfigurations, closes and overflows come between, unless    *)
(* the worker that has it was itself stopped by a failed export under      *)
(* fail_fast.  An event that was handed over stays so, and the calls are   *)
(* finitely many: in the end none waits.  This rests on the order in       *)
(* configureIfNeeded, Close and enqueue: the queue is taken out of use     *)
(* under the lock, its worker canceled after.                              *)
(***************************************************************************)
AcceptedEventsAreExported ==
    <>[](\A e \in ExportedEvents :
            exported[e].at = "queued" => exportWorkers[exported[e].worker].at = "stopped")

\* Some call, Close or another worker is about to cancel w.
ToBeCanceled(w) ==
    \/ exporter.closing = w
    \/ \E e \in ExportedEvents : exported[e].at \in {"replaces", "overflows"} /\ exported[e].worker = w
    \/ \E v \in DOMAIN exportWorkers : exportWorkers[v].at = "stopping" /\ exportWorkers[v].cancels = w

(***************************************************************************)
(* No worker is left behind: one that runs and was not canceled is in use, *)
(* or about to be canceled (configureIfNeeded, enqueue, Close, worker).    *)
(***************************************************************************)
WorkersAreStopped ==
    \A w \in DOMAIN exportWorkers :
        \/ exportWorkers[w].canceled \/ exportWorkers[w].at = "stopped"
        \/ exporter.current = w \/ ToBeCanceled(w)
=============================================================================
