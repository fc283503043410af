--------------------------------- MODULE A2A ---------------------------------
(***************************************************************************)
(* Asynchronous calls of one agent by another: a2a, interop.go and         *)
(* async_reporting.go.  SubmitAsync submits a task to a Server, retries a  *)
(* transport error, and leaves a goroutine that waits for the task's end   *)
(* and hands a report of it to a ReportSink.  The server is the one of the *)
(* package, InMemoryServer, behind a transport that may lose a request or  *)
(* its answer (the Server interface hides the transport; it is external).  *)
(* A critical section of the server's mutex is one action, and no call     *)
(* gives up waiting for that mutex.  Routing and the negotiation of        *)
(* version and delivery mode change no state and come before the first     *)
(* request: a call that fails there is one that was never made.            *)
(***************************************************************************)
EXTENDS Naturals

CONSTANTS
    Calls,                \* calls of SubmitAsync
    RemoteTasks,          \* TaskRequest.TaskID
    RequestMaxAttempts,   \* ClientPolicy.RequestMaxAttempts
    SSEReconnects,        \* Delivery.SSEReconnect.MaxAttempts
    ReportMaxAttempts,    \* AsyncReporting.Retry.MaxAttempts
    MaxTransportFaults    \* bound on requests and answers lost

ASSUME A2AAssumption ==
    /\ RequestMaxAttempts \in Nat \ {0} /\ ReportMaxAttempts \in Nat \ {0}
    /\ SSEReconnects \in Nat /\ MaxTransportFaults \in Nat

VARIABLES
    remote,            \* InMemoryServer.tasks: the status of each task
    serverLocked,      \* InMemoryServer.mu is held by a call that has returned
    call,              \* per call of SubmitAsync: its goroutine
    asyncDelivered,    \* Client.asyncDelivered, by report key
    reported,          \* external: the reports the sink has taken
    transportFaults

a2aVars == <<remote, serverLocked, call, asyncDelivered, reported, transportFaults>>

Final == {"succeeded", "failed", "canceled"}

NotCalled ==
    [at |-> "idle", task |-> "none", sse |-> FALSE, agent |-> TRUE,
     tries |-> 0, report |-> "none"]

A2AInit ==
    /\ remote = [t \in RemoteTasks |-> "absent"]
    /\ serverLocked = FALSE
    /\ call = [c \in Calls |-> NotCalled]
    /\ asyncDelivered = {} /\ reported = {} /\ transportFaults = 0

-----------------------------------------------------------------------------
(* The server *)

\* execute: the goroutine of a task that Submit starts, up to the handler.
ServerStarts(t) ==
    /\ ~serverLocked
    /\ remote[t] = "submitted"
    /\ remote' = [remote EXCEPT ![t] = "running"]
    /\ UNCHANGED <<serverLocked, call, asyncDelivered, reported, transportFaults>>

\* ... and after it.  The handler is external: it succeeds or fails.
ServerEnds(t) ==
    /\ ~serverLocked
    /\ remote[t] = "running"
    /\ \E status \in {"succeeded", "failed"} : remote' = [remote EXCEPT ![t] = status]
    /\ UNCHANGED <<serverLocked, call, asyncDelivered, reported, transportFaults>>

-----------------------------------------------------------------------------
(* Submit of the client, and of the server inside it *)

SubmitAsync(c) ==
    /\ call[c].at = "idle"
    /\ \E t \in RemoteTasks, sse, agent \in BOOLEAN :
          call' = [call EXCEPT ![c] =
                      [at |-> "submitting", task |-> t, sse |-> sse, agent |-> agent,
                       tries |-> 1, report |-> "none"]]
    /\ UNCHANGED <<remote, serverLocked, asyncDelivered, reported, transportFaults>>

\* A transport error of a request: it is made again, or the call fails.
Resends(c) ==
    IF call[c].tries < RequestMaxAttempts
    THEN call' = [call EXCEPT ![c].tries = @ + 1]
    ELSE call' = [call EXCEPT ![c].at = "failed"]

\* Mutant of Accept: a known task id is taken once more.
AcceptAgain(t) ==
    remote' = [remote EXCEPT ![t] = "submitted"]

\* The server registers the task and starts it.
Accept(t) ==
    /\ remote[t] = "absent"
    /\ remote' = [remote EXCEPT ![t] = "submitted"]

\* The answer arrives: the goroutine starts to wait, its counter at zero.
Accepted(c) ==
    /\ call[c].at = "submitting" /\ call[c].agent
    /\ ~serverLocked
    /\ Accept(call[c].task)
    /\ call' = [call EXCEPT ![c].at = "waiting", ![c].tries = 0]
    /\ UNCHANGED <<serverLocked, asyncDelivered, reported, transportFaults>>

\* The answer is lost: the task runs, and a second request will find it there.
AcceptedUnheard(c) ==
    /\ call[c].at = "submitting" /\ call[c].agent
    /\ ~serverLocked /\ transportFaults < MaxTransportFaults
    /\ Accept(call[c].task)
    /\ Resends(c)
    /\ transportFaults' = transportFaults + 1
    /\ UNCHANGED <<serverLocked, asyncDelivered, reported>>

RequestLost(c) ==
    /\ call[c].at = "submitting"
    /\ transportFaults < MaxTransportFaults
    /\ Resends(c)
    /\ transportFaults' = transportFaults + 1
    /\ UNCHANGED <<remote, serverLocked, asyncDelivered, reported>>

\* "already exists": no transport error, so not retried.
Duplicate(c) ==
    /\ call[c].at = "submitting" /\ call[c].agent
    /\ ~serverLocked /\ remote[call[c].task] # "absent"
    /\ call' = [call EXCEPT ![c].at = "failed"]
    /\ UNCHANGED <<remote, serverLocked, asyncDelivered, reported, transportFaults>>

\* "requires agent_id": the server returns the error and keeps its mutex.
RefusedWithoutAgent(c) ==
    /\ call[c].at = "submitting" /\ ~call[c].agent
    /\ ~serverLocked
    /\ serverLocked' = TRUE
    /\ call' = [call EXCEPT ![c].at = "failed"]
    /\ UNCHANGED <<remote, asyncDelivered, reported, transportFaults>>

-----------------------------------------------------------------------------
(* WaitResult.  A poll that finds the task unfinished changes nothing. *)

\* Status finds the end of the task; Result is asked next.
PollFindsEnd(c) ==
    /\ call[c].at = "waiting"
    /\ ~serverLocked /\ remote[call[c].task] \in Final
    /\ call' = [call EXCEPT ![c].at = "resolving"]
    /\ UNCHANGED <<remote, serverLocked, asyncDelivered, reported, transportFaults>>

\* A lost Status: in mode sse it is asked again, SSEReconnects times in all.
Reconnects(c) ==
    /\ call[c].at = "waiting"
    /\ transportFaults < MaxTransportFaults
    /\ call[c].sse /\ call[c].tries < SSEReconnects
    /\ call' = [call EXCEPT ![c].tries = @ + 1]
    /\ transportFaults' = transportFaults + 1
    /\ UNCHANGED <<remote, serverLocked, asyncDelivered, reported>>

\* awaitAndDeliverAsyncReport takes the report of a task, or makes one up
\* that says it failed when WaitResult returns an error.
Reports(c, report) ==
    call' = [call EXCEPT ![c].at = "reporting", ![c].tries = 1, ![c].report = report]

\* Mutant of WaitFails: a failed wait ends the goroutine without a report.
WaitFailsSilently(c) ==
    /\ \/ call[c].at = "resolving"
       \/ call[c].at = "waiting" /\ ~(call[c].sse /\ call[c].tries < SSEReconnects)
    /\ transportFaults < MaxTransportFaults
    /\ call' = [call EXCEPT ![c].at = "failed"]
    /\ transportFaults' = transportFaults + 1
    /\ UNCHANGED <<remote, serverLocked, asyncDelivered, reported>>

\* The other errors of Status, and any error of Result, end the wait.
WaitFails(c) ==
    /\ \/ call[c].at = "resolving"
       \/ call[c].at = "waiting" /\ ~(call[c].sse /\ call[c].tries < SSEReconnects)
    /\ transportFaults < MaxTransportFaults
    /\ Reports(c, "unreachable")
    /\ transportFaults' = transportFaults + 1
    /\ UNCHANGED <<remote, serverLocked, asyncDelivered, reported>>

Resolves(c) ==
    /\ call[c].at = "resolving"
    /\ ~serverLocked
    /\ Reports(c, remote[call[c].task])
    /\ UNCHANGED <<remote, serverLocked, asyncDelivered, reported, transportFaults>>

-----------------------------------------------------------------------------
(* deliverAsyncReport *)

\* BuildAsyncReportKey: the error of a made-up report is part of its key.
ReportKey(c) == <<call[c].task, call[c].report>>

Delivers(c) ==
    /\ call[c].at = "reporting"
    /\ IF call[c].tries = 1 /\ ReportKey(c) \in asyncDelivered
       THEN /\ call' = [call EXCEPT ![c].at = "deduplicated"]
            /\ UNCHANGED <<asyncDelivered, reported>>
       ELSE /\ call' = [call EXCEPT ![c].at = "delivered"]
            /\ asyncDelivered' = asyncDelivered \cup {ReportKey(c)}
            /\ reported' = reported \cup {ReportKey(c)}
    /\ UNCHANGED <<remote, serverLocked, transportFaults>>

\* The sink returns an error, retryable or not, having taken the report or not.
DeliveryFails(c) ==
    /\ call[c].at = "reporting"
    /\ call[c].tries > 1 \/ ReportKey(c) \notin asyncDelivered
    /\ \E retryable \in BOOLEAN :
          IF retryable /\ call[c].tries < ReportMaxAttempts
          THEN call' = [call EXCEPT ![c].tries = @ + 1]
          ELSE call' = [call EXCEPT ![c].at = "dropped"]
    /\ reported' \in {reported, reported \cup {ReportKey(c)}}
    /\ UNCHANGED <<remote, serverLocked, asyncDelivered, transportFaults>>

-----------------------------------------------------------------------------
ServerStep(t) == ServerStarts(t) \/ ServerEnds(t)

CallStep(c) ==
    \/ Accepted(c) \/ AcceptedUnheard(c) \/ RequestLost(c) \/ Duplicate(c)
    \/ RefusedWithoutAgent(c) \/ PollFindsEnd(c) \/ Reconnects(c) \/ WaitFails(c)
    \/ Resolves(c) \/ Delivers(c) \/ DeliveryFails(c)

A2ANext ==
    \/ \E t \in RemoteTasks : ServerStep(t)
    \/ \E c \in Calls : SubmitAsync(c) \/ CallStep(c)

\* A started goroutine, of the server or of a call, goes on as far as it can;
\* that the handler returns is the one thing asked of the outside.
A2AFairness ==
    /\ \A t \in RemoteTasks : WF_a2aVars(ServerStep(t))
    /\ \A c \in Calls : WF_a2aVars(CallStep(c))

A2ASpec == A2AInit /\ [][A2ANext]_a2aVars /\ A2AFairness

-----------------------------------------------------------------------------
(* Properties *)

\* What the sink is told of a task (deliverAsyncReport) is one thing, however
\* often a submission was lost, repeated or made by a second caller: all its
\* reports agree, and one that gives the task's status gives the status the
\* server holds for good.  It rests on the server's refusal of a known task id.
OneStoryPerTask ==
    \A r \in reported :
        /\ \A other \in reported : other[1] = r[1] => other = r
        /\ r[2] # "unreachable" => remote[r[1]] = r[2]

Answered(c) == call[c].at \in {"delivered", "deduplicated", "dropped"}

\* A submission that SubmitAsync acknowledged is answered in the end: its
\* report is delivered, or dropped after the attempts the policy allows,
\* whatever requests and polls are lost, unless the server's mutex is gone.
AcknowledgedCallsAreAnswered ==
    \A c \in Calls : call[c].at = "waiting" ~> Answered(c) \/ serverLocked

\* openspec/specs/a2a-minimal-interoperability: the status of a task "MUST be
\* queryable until terminal state": a task the server has taken gets there.
\* It does not once another submission, without an agent_id, has been refused:
\* the refusal leaves the server's mutex locked and every goroutine waiting.
TakenTasksEnd ==
    \A t \in RemoteTasks : remote[t] = "submitted" ~> remote[t] \in Final
=============================================================================
