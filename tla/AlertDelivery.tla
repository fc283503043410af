---------------------------- MODULE AlertDelivery ----------------------------
(***************************************************************************)
(* Delivery of security alerts to the host's callback:                     *)
(* core/runner/security_delivery.go.  Runs dispatch alerts in the sync     *)
(* mode, in which the run itself calls the callback, or in the async mode, *)
(* in which a bounded queue feeds the one worker.  All deliveries share    *)
(* the circuit breaker; a critical section of its mutex is one action.     *)
(* currentStateLocked turns an open circuit half open when its window has  *)
(* passed: Seen, which every section applies first.  The snapshots taken   *)
(* after an attempt do only that.                                          *)
(***************************************************************************)
EXTENDS Naturals, Sequences, FiniteSets

CONSTANTS
    Alerts,             \* calls of dispatch
    AlertQueueSize,     \* Queue.Size
    AlertMaxAttempts,   \* Retry.MaxAttempts
    AlertThreshold,     \* CircuitBreaker.FailureThreshold
    AlertOpenWindow,    \* CircuitBreaker.OpenWindow
    AlertProbes         \* CircuitBreaker.HalfOpenProbes

ASSUME AlertAssumption ==
    /\ IsFiniteSet(Alerts)
    /\ AlertQueueSize \in Nat \ {0} /\ AlertMaxAttempts \in 1..3
    /\ AlertThreshold \in Nat \ {0} /\ AlertOpenWindow \in Nat \ {0}
    /\ AlertProbes \in Nat \ {0}

VARIABLES
    alert,        \* per alert: where its delivery is, its mode and its attempts
    alertQueue,   \* securityAlertDeliveryExecutor.queue
    breaker       \* securityAlertCircuitBreaker; age: time since openedAt

alertVars == <<alert, alertQueue, breaker>>

AlertInit ==
    /\ alert = [a \in Alerts |-> [at |-> "none", sync |-> FALSE, tries |-> 0]]
    /\ alertQueue = <<>>
    /\ breaker = [state |-> "closed", failures |-> 0, age |-> AlertOpenWindow, inFlight |-> 0]

-----------------------------------------------------------------------------
(* The circuit breaker *)

Seen(b) ==
    IF b.state = "open" /\ b.age >= AlertOpenWindow THEN [b EXCEPT !.state = "half_open"] ELSE b

\* The circuit lets no further attempt through: shouldFastFail, startAttempt.
Blocks(b) ==
    \/ b.state = "open"
    \/ b.state = "half_open" /\ b.inFlight >= AlertProbes

Started(b) == IF b.state = "half_open" THEN [b EXCEPT !.inFlight = @ + 1] ELSE b

Opened(b) == [state |-> "open", failures |-> 0, age |-> 0, inFlight |-> b.inFlight]
Closed(b) == [state |-> "closed", failures |-> 0, age |-> b.age, inFlight |-> b.inFlight]

\* Mutant of FinishedHalfOpen: a failed probe keeps the slots of the others.
FinishedKeepingSlots(b, success) ==
    LET left == IF b.inFlight > 0 THEN b.inFlight - 1 ELSE 0 IN
    IF ~success THEN Opened([b EXCEPT !.inFlight = left])
    ELSE IF left = 0 THEN Closed([b EXCEPT !.inFlight = 0])
    ELSE [b EXCEPT !.inFlight = left]

FinishedHalfOpen(b, success) ==
    LET left == IF b.inFlight > 0 THEN b.inFlight - 1 ELSE 0 IN
    IF ~success THEN Opened([b EXCEPT !.inFlight = 0])
    ELSE IF left = 0 THEN Closed([b EXCEPT !.inFlight = 0])
    ELSE [b EXCEPT !.inFlight = left]

\* finishAttempt: an attempt may end in another state than it was started in.
Finished(b, success) ==
    IF b.state = "half_open" THEN FinishedHalfOpen(b, success)
    ELSE IF b.state = "open" THEN IF success THEN Closed(b) ELSE b
    ELSE IF success THEN [b EXCEPT !.failures = 0]
    ELSE IF b.failures + 1 >= AlertThreshold THEN Opened(b)
    ELSE [b EXCEPT !.failures = @ + 1]

-----------------------------------------------------------------------------
(* Dispatch *)

Goto(a, where) == alert' = [alert EXCEPT ![a].at = where]

DispatchSync(a) ==
    /\ alert[a].at = "none"
    /\ alert' = [alert EXCEPT ![a] = [at |-> "starting", sync |-> TRUE, tries |-> 1]]
    /\ UNCHANGED <<alertQueue, breaker>>

\* dispatchAsync looks at the circuit ...
DispatchAsync(a) ==
    /\ alert[a].at = "none"
    /\ breaker' = Seen(breaker)
    /\ Goto(a, IF Blocks(Seen(breaker)) THEN "failed" ELSE "admitted")
    /\ UNCHANGED alertQueue

\* ... and then queues the alert, in place of the oldest if the queue is full.
EnqueueAlert(a) ==
    LET full == Len(alertQueue) >= AlertQueueSize IN
    /\ alert[a].at = "admitted"
    /\ alertQueue' = Append(IF full THEN Tail(alertQueue) ELSE alertQueue, a)
    /\ alert' = [b \in Alerts |->
                   IF b = a THEN [alert[a] EXCEPT !.at = "queued"]
                   ELSE IF full /\ b = Head(alertQueue) THEN [alert[b] EXCEPT !.at = "dropped"]
                   ELSE alert[b]]
    /\ breaker' = Seen(breaker)

-----------------------------------------------------------------------------
(* executeManagedDelivery *)

Delivering(a) == alert[a].at \in {"starting", "calling", "backoff"}

\* workerLoop takes the next alert once it is done with the one before.
WorkerTakes ==
    /\ alertQueue # <<>>
    /\ \A a \in Alerts : Delivering(a) => alert[a].sync
    /\ alertQueue' = Tail(alertQueue)
    /\ alert' = [alert EXCEPT ![Head(alertQueue)] = [at |-> "starting", sync |-> FALSE, tries |-> 1]]
    /\ UNCHANGED breaker

StartAlertAttempt(a) ==
    LET seen == Seen(breaker) IN
    /\ alert[a].at = "starting"
    /\ \/ /\ Blocks(seen)
          /\ breaker' = seen /\ Goto(a, "failed")
       \/ /\ ~Blocks(seen)
          /\ breaker' = Started(seen) /\ Goto(a, "calling")
    /\ UNCHANGED alertQueue

CallbackReturns(a) ==
    /\ alert[a].at = "calling"
    /\ \E success \in BOOLEAN :
        /\ breaker' = Finished(Seen(breaker), success)
        /\ Goto(a, IF success THEN "delivered"
                   ELSE IF alert[a].tries < AlertMaxAttempts THEN "backoff" ELSE "failed")
    /\ UNCHANGED alertQueue

BackoffEnds(a) ==
    /\ alert[a].at = "backoff"
    /\ alert' = [alert EXCEPT ![a].at = "starting", ![a].tries = @ + 1]
    /\ UNCHANGED <<alertQueue, breaker>>

\* The context of the run ends; that of the worker never does.
BackoffCanceled(a) ==
    /\ alert[a].at = "backoff" /\ alert[a].sync
    /\ Goto(a, "failed")
    /\ breaker' = Seen(breaker)
    /\ UNCHANGED alertQueue

AlertTick ==
    /\ breaker.age < AlertOpenWindow
    /\ breaker' = [breaker EXCEPT !.age = @ + 1]
    /\ UNCHANGED <<alert, alertQueue>>

-----------------------------------------------------------------------------
AlertNext ==
    \/ \E a \in Alerts :
        \/ DispatchSync(a) \/ DispatchAsync(a) \/ EnqueueAlert(a) \/ StartAlertAttempt(a)
        \/ CallbackReturns(a) \/ BackoffEnds(a) \/ BackoffCanceled(a)
    \/ WorkerTakes \/ AlertTick

AlertSpec == AlertInit /\ [][AlertNext]_alertVars

-----------------------------------------------------------------------------
(* Properties *)

(***************************************************************************)
(* Every slot of the half-open circuit is held by a call that is still     *)
(* running: though attempts end in another state of the circuit than they  *)
(* began in, no slot is left behind, so a half-open circuit cannot refuse  *)
(* all alerts for ever (startAttempt, finishAttempt).                      *)
(***************************************************************************)
AlertSlotsInUse ==
    breaker.inFlight <= Cardinality({a \in Alerts : alert[a].at = "calling"})
=============================================================================
