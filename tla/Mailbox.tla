------------------------------- MODULE Mailbox -------------------------------
(***************************************************************************)
(* The mailbox's state machine: orchestration/mailbox, state.go with the   *)
(* history journal of history.go and the continuations of continuation.go. *)
(* A store operation runs under the store's mutex and is one action.       *)
(* Callers are arbitrary here: any consumer makes any call for any message *)
(* at any time.  MailboxWorkers has the workers and the file.              *)
(*                                                                         *)
(* Time.  A deadline is kept as the time left to it and stops at 0, which  *)
(* is where the code takes it to be over.  A delivery is identified by its *)
(* number: DeliveryID, LeaseID and AttemptCausation are made from it.  A   *)
(* consumer without a lease (inflightTimeout 0) is reclaimed by the time of*)
(* its last heartbeat, which is the deadline its lease would have.         *)
(***************************************************************************)
EXTENDS Integers, Sequences, FiniteSets, Lists

CONSTANTS
    Messages,         \* message ids, numbered in the order sort.Strings gives
    Keys,             \* idempotency keys
    Workers,          \* consumer ids
    ContinuationWorkers,  \* those made by NewContinuationWorker: they may pause
    Resumers,         \* identities of resume requests
    NoOne,            \* the empty consumer id
    TTLOf,            \* time to the ExpireAt of a message; 0: it has none
    NotBeforeOf,      \* time to the NotBefore of a message
    MaxAttempts, DLQEnabled, BackoffInitial, BackoffMax,
    JitterPercent,    \* Policy.JitterRatio, in percent
    InflightTimeout,  \* WorkerConfig.InflightTimeout
    NackOnError,      \* workers with HandlerErrorPolicy nack (others: requeue)
    PauseTime,        \* time from a pause to its HandlerPause.ExpiresAt
    Retention         \* HistoryRetentionEntries

ASSUME MailboxIdsAssumption ==
    /\ Messages \subseteq Nat /\ IsFiniteSet(Messages)
    /\ NoOne \notin Workers /\ NackOnError \subseteq Workers
    /\ ContinuationWorkers \subseteq Workers
ASSUME MailboxPolicyAssumption ==
    /\ TTLOf \in [Messages -> Nat] /\ NotBeforeOf \in [Messages -> Nat]
    /\ MaxAttempts \in Nat \ {0} /\ DLQEnabled \in BOOLEAN
    /\ BackoffInitial \in Nat \ {0} /\ BackoffMax \in Nat
    /\ BackoffInitial <= BackoffMax /\ JitterPercent \in 0..100
    /\ InflightTimeout \in Nat \ {0} /\ PauseTime \in Nat \ {0}
    /\ Retention \in Nat \ {0}

VARIABLES
    records,        \* mailboxState.Records
    queue,          \* mailboxState.Queue
    idempotency,    \* mailboxState.Idempotency
    history,        \* mailboxState.History
    continuations   \* mailboxState.Continuations, by <<message, delivery>>

mailboxState == <<records, queue, idempotency, history, continuations>>

Settled == {"acked", "dead_letter", "expired"}

NewRecord(m) ==
    [state |-> "queued", consumer |-> NoOne, attempt |-> 0, lease |-> 0,
     eligible |-> 0, notBefore |-> NotBeforeOf[m], ttl |-> TTLOf[m]]

Absent(m) == [NewRecord(m) EXCEPT !.state = "absent", !.notBefore = 0, !.ttl = 0]

-----------------------------------------------------------------------------
(* The history journal: one entry for each lifecycle transition, with the   *)
(* state the record then had.  Only the last Retention entries are kept.    *)

NoHistory == [sequence |-> 0, floor |-> 0, entries |-> <<>>]

\* Mutant of AppendHistory: the floor stays when entries are dropped.
AppendKeepsFloor(h, events) ==
    LET numbered == [i \in 1..Len(events) |->
                        [sequence |-> h.sequence + i, message |-> events[i][1],
                         state |-> events[i][2]]]
        all  == h.entries \o numbered
        drop == IF Len(all) > Retention THEN Len(all) - Retention ELSE 0
    IN  [sequence |-> h.sequence + Len(events), floor |-> h.floor,
         entries |-> SubSeq(all, drop + 1, Len(all))]

\* appendHistory for each of the events <<message, state>>, in order.
AppendHistory(h, events) ==
    LET numbered == [i \in 1..Len(events) |->
                        [sequence |-> h.sequence + i, message |-> events[i][1],
                         state |-> events[i][2]]]
        all  == h.entries \o numbered
        drop == IF Len(all) > Retention THEN Len(all) - Retention ELSE 0
    IN  [sequence |-> h.sequence + Len(events),
         floor |-> IF drop > 0 THEN all[drop].sequence ELSE h.floor,
         entries |-> SubSeq(all, drop + 1, Len(all))]

-----------------------------------------------------------------------------
(* Requeue and expiry *)

\* The delay of a redelivery after attempt n: the first has no jitter, and the
\* hash that picks the jitter of the others is any value of its range.
RetryDelay(n) ==
    LET raw    == BackoffInitial * 2 ^ (n - 1)
        delay  == IF raw > BackoffMax THEN BackoffMax ELSE raw
        window == IF n <= 1 THEN 0 ELSE (delay * JitterPercent) \div 100
    IN  {d \in 0..BackoffMax : delay - window <= d /\ d <= delay + window}

GivenUp == IF DLQEnabled THEN "dead_letter" ELSE "expired"

\* Mutant of RequeueState: one delivery too many.
RequeueStateLate(rec) == IF rec.attempt > MaxAttempts THEN GivenUp ELSE "queued"

RequeueState(rec) == IF rec.attempt >= MaxAttempts THEN GivenUp ELSE "queued"

\* What requeue makes of a record that is in flight or nacked.
Requeued(rec, delay) ==
    IF RequeueState(rec) = "queued"
    THEN [rec EXCEPT !.state = "queued", !.consumer = NoOne, !.lease = 0,
                     !.eligible = delay]
    ELSE [rec EXCEPT !.state = GivenUp, !.lease = 0]

\* A record in flight is nacked first.
RequeueEvents(m) ==
    LET final == <<m, RequeueState(records[m])>>
    IN  IF records[m].state = "in_flight" THEN <<<<m, "nacked">>, final>> ELSE <<final>>

\* requeue(m) by a caller that the code lets through.
RequeueRecord(m) ==
    /\ \E delay \in RetryDelay(records[m].attempt) :
          records' = [records EXCEPT ![m] = Requeued(@, delay)]
    /\ queue' = IF RequeueState(records[m]) = "queued" THEN Append(queue, m) ELSE queue
    /\ history' = AppendHistory(history, RequeueEvents(m))
    /\ UNCHANGED <<idempotency, continuations>>

RecordExpired(m) == TTLOf[m] > 0 /\ records[m].ttl = 0

\* The messages that expireQueued takes out of the queue, and those that it leaves.
InQueue(m) == records[m].state = "queued" /\ \E i \in 1..Len(queue) : queue[i] = m
Lapsed == {m \in Messages : InQueue(m) /\ RecordExpired(m)}
Unlapsed == {m \in Messages : InQueue(m) /\ ~RecordExpired(m)}

\* expireQueued emits two events for a dead letter.
ExpiryEvents(lapsed) ==
    LET n == IF DLQEnabled THEN 2 ELSE 1
    IN  [i \in 1..(n * Len(lapsed)) |-> <<lapsed[((i - 1) \div n) + 1], GivenUp>>]

\* Mutant of Stale: a paused delivery is never reclaimed.
StaleNotPaused ==
    {m \in Messages : /\ records[m].state = "in_flight" /\ records[m].lease = 0
                      /\ <<m, records[m].attempt>> \notin DOMAIN continuations}

\* The deliveries that reclaimStaleInFlight takes back.
Stale == {m \in Messages : records[m].state = "in_flight" /\ records[m].lease = 0}

\* The first queue entry that may be delivered.
FirstEligible(rs, q, i) ==
    LET eligible == {j \in 1..Len(q) : /\ rs[q[j]].state = "queued"
                                       /\ rs[q[j]].notBefore = 0
                                       /\ rs[q[j]].eligible = 0}
    IN  i \in eligible /\ \A j \in eligible : i <= j

Delivered(rec, w) ==
    [rec EXCEPT !.state = "in_flight", !.consumer = w, !.attempt = @ + 1,
                !.lease = InflightTimeout, !.eligible = 0]

-----------------------------------------------------------------------------
(* Operations *)

\* publish: a known key or message id is a duplicate and changes nothing.
Publish(m, k) ==
    /\ k \notin DOMAIN idempotency
    /\ records[m].state = "absent"
    /\ records' = [records EXCEPT ![m] = NewRecord(m)]
    /\ queue' = Append(queue, m)
    /\ idempotency' = [key \in DOMAIN idempotency \cup {k} |->
                          IF key = k THEN m ELSE idempotency[key]]
    /\ history' = AppendHistory(history, <<<<m, "queued">>>>)
    /\ UNCHANGED continuations

\* The state in which consume looks for a message: expireQueued has run, and
\* reclaimStaleInFlight has requeued the deliveries with a stale lease.
Swept(delay) ==
    [m \in Messages |->
        IF m \in Stale THEN Requeued(records[m], delay[m])
        ELSE IF m \in Lapsed
             THEN [records[m] EXCEPT !.state = GivenUp, !.lease = 0]
             ELSE records[m]]

ReclaimDelays ==
    {delay \in [Stale -> 0..BackoffMax] :
        \A m \in Stale : delay[m] \in RetryDelay(records[m].attempt)}

Reclaimed == {m \in Stale : RequeueState(records[m]) = "queued"}

SweptQueues ==
    {kept \o reclaimed : kept \in Filtered(queue, Unlapsed), reclaimed \in Ascending(Reclaimed)}

\* requeue of a delivery emits two events.
ReclaimEvents(order) ==
    [i \in 1..(2 * Len(order)) |->
        LET m == order[((i - 1) \div 2) + 1]
        IN  <<m, IF i % 2 = 1 THEN "nacked" ELSE RequeueState(records[m])>>]

SweepEvents ==
    {ExpiryEvents(lapsed) \o ReclaimEvents(order) :
        lapsed \in Filtered(queue, Lapsed), order \in Ascending(Stale)}

\* consume, with ReclaimOnConsume, that delivers m to w.
Consume(w, m) ==
    \E delay \in ReclaimDelays, q \in SweptQueues, events \in SweepEvents :
        LET rs == Swept(delay)
        IN  \E i \in 1..Len(q) :
               /\ FirstEligible(rs, q, i)
               /\ q[i] = m
               /\ records' = [rs EXCEPT ![m] = Delivered(@, w)]
               /\ queue' = Without(q, i)
               /\ history' = AppendHistory(history, Append(events, <<m, "in_flight">>))
               /\ UNCHANGED <<idempotency, continuations>>

\* consume that finds nothing to deliver, but something to expire or reclaim.
ConsumeNone ==
    /\ Stale \cup Lapsed # {}
    /\ \E delay \in ReclaimDelays, q \in SweptQueues, events \in SweepEvents :
          LET rs == Swept(delay)
          IN  /\ ~\E i \in 1..Len(q) : FirstEligible(rs, q, i)
              /\ records' = rs
              /\ queue' = q
              /\ history' = AppendHistory(history, events)
    /\ UNCHANGED <<idempotency, continuations>>

\* Mutant of RequireInflight: the consumer is not compared.
RequireInflightAnyone(m, w) == records[m].state = "in_flight"

\* requireInflightRecord: only the consumer id is compared, not the delivery.
RequireInflight(m, w) == records[m].state = "in_flight" /\ w \in {records[m].consumer, NoOne}

\* The lease is renewed even when it is overdue, if nobody has reclaimed it.
Heartbeat(m, w) ==
    /\ RequireInflight(m, w)
    /\ records' = [records EXCEPT ![m].lease = InflightTimeout]
    /\ UNCHANGED <<queue, idempotency, history, continuations>>

Ack(m, w) ==
    /\ RequireInflight(m, w)
    /\ records' = [records EXCEPT ![m].state = "acked", ![m].lease = 0]
    /\ history' = AppendHistory(history, <<<<m, "acked">>>>)
    /\ UNCHANGED <<queue, idempotency, continuations>>

\* Mutant of Nack: a message that has used up its deliveries is queued again.
NackRequeues(m, w) ==
    /\ RequireInflight(m, w)
    /\ records' = [records EXCEPT ![m].state = "queued", ![m].lease = 0]
    /\ history' = AppendHistory(history, <<<<m, "nacked">>>>)
    /\ UNCHANGED <<queue, idempotency, continuations>>

\* nack: without a dead-letter queue the message stays nacked.
Nack(m, w) ==
    LET dead == DLQEnabled /\ records[m].attempt >= MaxAttempts
    IN  /\ RequireInflight(m, w)
        /\ records' = [records EXCEPT ![m].state = IF dead THEN "dead_letter" ELSE "nacked",
                                      ![m].lease = 0]
        /\ history' = AppendHistory(history,
                         IF dead THEN <<<<m, "nacked">>, <<m, "dead_letter">>>>
                         ELSE <<<<m, "nacked">>>>)
        /\ UNCHANGED <<queue, idempotency, continuations>>

\* requeue: the consumer of a nacked message is not compared.
Requeue(m, w) ==
    /\ RequireInflight(m, w) \/ records[m].state = "nacked"
    /\ RequeueRecord(m)

-----------------------------------------------------------------------------
(* Handler continuations.  The checkpoint of a pause is identified by the   *)
(* delivery <<m, a>> that paused.                                           *)

\* Whether the delivery c is still the one that is in flight.
DeliveryLive(c) == records[c[1]].state = "in_flight" /\ records[c[1]].attempt = c[2]

\* What SaveHostPlanContinuation demands of a pause of w.
CanSave(c, w) ==
    /\ c \notin DOMAIN continuations
    /\ DeliveryLive(c)
    /\ records[c[1]].consumer = w
    /\ ~RecordExpired(c[1])
    /\ records[c[1]].lease > 0

\* The lease now lasts until the checkpoint expires.
SaveContinuation(c, w) ==
    /\ CanSave(c, w)
    /\ records' = [records EXCEPT ![c[1]].lease = PauseTime]
    /\ continuations' = [d \in DOMAIN continuations \cup {c} |->
                            IF d = c THEN [consumer |-> w, expires |-> PauseTime,
                                           claim |-> "none", identity |-> NoOne,
                                           result |-> ""]
                            ELSE continuations[d]]
    /\ UNCHANGED <<queue, idempotency, history>>

\* Mutant of CanClaim: a claim in progress is handed out again.
CanClaimAgain(c) ==
    /\ c \in DOMAIN continuations
    /\ continuations[c].claim # "completed"
    /\ continuations[c].expires > 0
    /\ DeliveryLive(c)

\* When ClaimHostPlanResume grants the claim.  Every other answer (expired,
\* conflict, in progress, the result that is there) changes nothing.
CanClaim(c) ==
    /\ c \in DOMAIN continuations
    /\ continuations[c].claim = "none"
    /\ continuations[c].expires > 0
    /\ DeliveryLive(c)

ClaimResume(c, r) ==
    /\ CanClaim(c)
    /\ continuations' = [continuations EXCEPT ![c].claim = "claimed", ![c].identity = r]
    /\ UNCHANGED <<records, queue, idempotency, history>>

\* The claim of r is there, as mutateHostPlanClaim demands, in one of the states.
ClaimIn(c, r, states) ==
    /\ c \in DOMAIN continuations
    /\ continuations[c].identity = r
    /\ continuations[c].claim \in states

\* MarkHostPlanResumeRunning
MarkRunning(c, r) ==
    /\ ClaimIn(c, r, {"claimed"})
    /\ continuations' = [continuations EXCEPT ![c].claim = "running"]
    /\ UNCHANGED <<records, queue, idempotency, history>>

\* CommitHostPlanResumeResult with the outcome that the caller has read.
CommitResult(c, r, outcome) ==
    /\ ClaimIn(c, r, {"claimed", "running"})
    /\ continuations' = [continuations EXCEPT ![c].claim = "completed", ![c].result = outcome]
    /\ UNCHANGED <<records, queue, idempotency, history>>

-----------------------------------------------------------------------------
Down(timer) == IF timer > 0 THEN timer - 1 ELSE 0

ElapseRecord(rec) ==
    [rec EXCEPT !.lease = Down(@), !.eligible = Down(@), !.notBefore = Down(@),
                !.ttl = Down(@)]

ElapseContinuation(k) == [k EXCEPT !.expires = Down(@)]

Tick ==
    /\ records' = [m \in Messages |-> ElapseRecord(records[m])]
    /\ continuations' = [c \in DOMAIN continuations |-> ElapseContinuation(continuations[c])]
    /\ UNCHANGED <<queue, idempotency, history>>

Init ==
    /\ records = [m \in Messages |-> Absent(m)]
    /\ queue = <<>>
    /\ idempotency = <<>>
    /\ history = NoHistory
    /\ continuations = <<>>

Deliveries == Messages \X (1..MaxAttempts)

Next ==
    \/ \E m \in Messages :
          \/ \E k \in Keys : Publish(m, k)
          \/ \E w \in Workers : Consume(w, m)
          \/ \E w \in Workers \cup {NoOne} :
                Heartbeat(m, w) \/ Ack(m, w) \/ Nack(m, w) \/ Requeue(m, w)
    \/ ConsumeNone
    \/ \E c \in Deliveries :
          \/ \E w \in ContinuationWorkers : SaveContinuation(c, w)
          \/ \E r \in Resumers : ClaimResume(c, r) \/ MarkRunning(c, r)
                                 \/ CommitResult(c, r, records[c[1]].state)
    \/ Tick

Spec == Init /\ [][Next]_mailboxState

-----------------------------------------------------------------------------
(* Properties *)

\* The queue lists every queued message exactly once and nothing else, after
\* any mix of reclaim, expiry, nack and requeue: a message is neither lost nor
\* delivered to two consumers, and a snapshot of the mailbox can be restored.
QueueIsTheQueued ==
    /\ \A m \in Messages : records[m].state = "queued" <=> \E i \in 1..Len(queue) : queue[i] = m
    /\ \A i, j \in 1..Len(queue) : queue[i] = queue[j] => i = j

\* A message is delivered at most MaxAttempts times, and it is settled, nacked
\* or in flight once it has been.
DeliveriesBounded ==
    \A m \in Messages :
        /\ records[m].attempt <= MaxAttempts
        /\ records[m].state = "queued" => records[m].attempt < MaxAttempts

\* The journal that ReadAfter serves has no gap between its floor and its
\* sequence, and its last word on a message is the state the message is in.
HistoryIsFaithful ==
    LET e == history.entries
    IN  /\ \A i \in 1..Len(e) : e[i].sequence = history.floor + i
        /\ history.sequence = history.floor + Len(e)
        /\ \A i \in 1..Len(e) :
              (\A j \in (i + 1)..Len(e) : e[j].message # e[i].message)
                 => e[i].state = records[e[i].message].state
=============================================================================
