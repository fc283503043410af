------------------------------- MODULE MCFlows -------------------------------
(***************************************************************************)
(* The runs of the workflow engine, the asynchronous calls between agents  *)
(* and the export of events: all must come to an end.  They do not         *)
(* interact here; a behaviour is a behaviour of one of them, its subject,  *)
(* under the fairness of that part.  In the initial states of the others   *)
(* no fair action is enabled, so their fairness asks nothing.              *)
(***************************************************************************)
EXTENDS Workflow, A2A, RuntimeExporter

VARIABLE subject

\* What the three steps of a workflow wait for.
StepConditions ==
    {<<"always", "on_success", "on_failure">>,
     <<"on_failure", "on_success", "on_success">>}

\* Exports to one endpoint under either reaction to errors, and none.
ExportSettings ==
    {[on |-> TRUE, failFast |-> FALSE, endpoint |-> 1],
     [on |-> TRUE, failFast |-> TRUE, endpoint |-> 1],
     [on |-> FALSE, failFast |-> FALSE, endpoint |-> 1]}

flowVars == <<subject, workflowVars, a2aVars, exporterVars>>

FlowsInit ==
    /\ subject \in {"workflow", "a2a", "exporter"}
    /\ WorkflowInit /\ A2AInit /\ ExporterInit

FlowsNext ==
    /\ UNCHANGED subject
    /\ \/ subject = "workflow" /\ WorkflowNext /\ UNCHANGED <<a2aVars, exporterVars>>
       \/ subject = "a2a" /\ A2ANext /\ UNCHANGED <<workflowVars, exporterVars>>
       \/ subject = "exporter" /\ ExporterNext /\ UNCHANGED <<workflowVars, a2aVars>>

FlowsSpec ==
    FlowsInit /\ [][FlowsNext]_flowVars /\ WorkflowFairness /\ A2AFairness /\ ExporterFairness
=============================================================================
