------------------------ MODULE MailboxWorkersProofs ------------------------
(***************************************************************************)
(* The safety properties of MailboxWorkers, for any messages, workers,     *)
(* resume requests, policies, batch size, failed writes and crashes.       *)
(*                                                                         *)
(* The mailbox in memory and the one in the file both satisfy the          *)
(* invariant of the mailbox, though the file may be any number of          *)
(* operations behind; their continuations are the same, since a change of  *)
(* one is written at once or undone.  What a worker, a resume call and the *)
(* cache know of a message is then compared with what an operation may do  *)
(* to it: a settled message stays so, and nobody but consume makes a       *)
(* delivery.                                                               *)
(***************************************************************************)
EXTENDS MailboxProofs, MailboxWorkers

USE SMTT(30)

-----------------------------------------------------------------------------
(* The invariant *)

\* What MailboxInv says, of the records, the queue and the journal of the file.
Mailed(rs, q, h) ==
    /\ rs \in [Messages -> MailboxRecord]
    /\ h \in Histories
    /\ QueueOf(q, rs)
    /\ \A m \in Messages : BoundedIn(rs[m])
    /\ Told(h, rs)

\* An idempotency key is the key of a message that is there.
KeysKnown(ids, rs) ==
    \A k \in DOMAIN ids : ids[k] \in Messages /\ rs[ids[k]].state # "absent"

Handed == Messages \X Nat
Claims == {"none", "claimed", "running", "completed"}
ContinuationRecord ==
    [consumer : Workers, expires : Nat, claim : Claims, identity : Resumers \cup {NoOne},
     result : MessageStates \cup {""}]

\* The continuations of a mailbox with the records rs: a result that says the
\* message is settled is the state of the message.
ContinuationsTrue(ks, rs) ==
    /\ DOMAIN ks \subseteq Handed
    /\ ks \in [DOMAIN ks -> ContinuationRecord]
    /\ \A c \in DOMAIN ks : ks[c].result \in Settled => rs[c[1]].state = ks[c].result

\* A mailbox that NewFileStore accepts.
Kept(rs, q, ids, h, ks) ==
    /\ Mailed(rs, q, h)
    /\ KeysKnown(ids, rs)
    /\ ContinuationsTrue(ks, rs)

MemoryKept == Kept(records, queue, idempotency, history, continuations)
DiskKept ==
    /\ disk = <<disk[1], disk[2], disk[3], disk[4], disk[5]>>
    /\ Kept(disk[1], disk[2], disk[3], disk[4], disk[5])

\* The answer of the cache that a message is settled is not out of date.
CachedRecord == [state : MessageStates, attempt : Nat, consumer : Workers \cup {NoOne}]
CacheTrue ==
    /\ cached \in [Messages -> CachedRecord]
    /\ \A m \in Messages : cached[m].state \in Settled => records[m].state = cached[m].state

WrittenHistory == up /\ pending = 0 /\ ~persistFailed /\ committed => history = disk[4]

StoreInv ==
    /\ MemoryKept /\ DiskKept /\ CacheTrue /\ WrittenHistory
    /\ pending \in Nat
    /\ up \in BOOLEAN
    /\ up => continuations = disk[5]

\* A worker that is the consumer of its message has the delivery it was given.
HandlingRecord == [phase : {"handling"}, delivery : Handed, lost : BOOLEAN]
Owns(at, w, rs) ==
    at.phase = "handling" =>
        LET c == at.delivery
        IN  rs[c[1]].state = "in_flight" /\ rs[c[1]].consumer = w => rs[c[1]].attempt = c[2]

WorkerInv ==
    /\ workers \in [Workers -> {Idle} \cup HandlingRecord]
    /\ \A w \in Workers : Owns(workers[w], w, records)
    /\ ~up => \A w \in Workers : workers[w] = Idle

\* A resume call that is under way has the claim on its continuation, and what it
\* has read of a settled message is so.
ResumeRecord ==
    {Idle} \cup HandlingRecord
    \cup [phase : {"claimed", "running", "checked", "settled"}, delivery : Handed]
    \cup [phase : {"read"}, delivery : Handed, outcome : MessageStates]

Claimed(ks, c) == c \in DOMAIN ks /\ ks[c].claim # "none"

ResumeHolds(at, r, ks, rs) ==
    at.phase # "idle" =>
        /\ Claimed(ks, at.delivery) /\ ks[at.delivery].identity = r
        /\ at.phase = "read" /\ at.outcome \in Settled => rs[at.delivery[1]].state = at.outcome

\* A resume call that has yet to enter the handler of c.
OnTheWay(at, c) == at.phase \in {"claimed", "running", "checked"} /\ at.delivery = c

ResumeInv ==
    /\ resumes \in [Resumers -> ResumeRecord]
    /\ \A r \in Resumers : ResumeHolds(resumes[r], r, disk[5], records)
    /\ ~up => \A r \in Resumers : resumes[r] = Idle
    /\ started \in [Deliveries -> {0, 1}]
    /\ \A c \in Deliveries : started[c] = 1 =>
          Claimed(disk[5], c) /\ \A r \in Resumers : ~OnTheWay(resumes[r], c)

WorkersInv == StoreInv /\ WorkerInv /\ ResumeInv

LEMMA ToldFacts ==
    ASSUME NEW h \in Histories, NEW rs, Told(h, rs)
    PROVE  /\ h.floor \in Nat /\ h.sequence \in Nat /\ Len(h.entries) \in Nat
           /\ Len(h.entries) <= Retention
           /\ h.sequence = h.floor + Len(h.entries)
           /\ \A i \in 1..Len(h.entries) : h.entries[i].sequence = h.floor + i
BY DEF Told, Histories

-----------------------------------------------------------------------------
(* What an operation of the mailbox does to a message *)

SameDelivery(old, new) ==
    old.state = "in_flight" /\ new.attempt = old.attempt /\ new.consumer = old.consumer

\* A settled message stays so, a message that is there stays there, and the
\* deliveries that are new are the ones in given, to the consumer there.
Moves(old, new, given) ==
    \A x \in Messages :
        /\ old[x].state \in Settled => new[x].state = old[x].state
        /\ old[x].state # "absent" => new[x].state # "absent"
        /\ new[x].state = "in_flight" =>
              SameDelivery(old[x], new[x]) \/ <<x, new[x].consumer>> \in given

\* An operation that is not about a continuation.
Operates(given) ==
    /\ MailboxInv'
    /\ Moves(records, records', given)
    /\ KeysKnown(idempotency', records')
    /\ continuations' = continuations

\* MemoryKept is MailboxInv with the keys and the continuations.
LEMMA MemoryFacts ==
    MemoryKept <=> /\ MailboxInv
                   /\ KeysKnown(idempotency, records)
                   /\ ContinuationsTrue(continuations, records)
BY DEF MemoryKept, Kept, Mailed, MailboxInv

\* Nothing but timers changes.
LEMMA StillMoves ==
    ASSUME NEW old, NEW new,
           \A x \in Messages : /\ new[x].state = old[x].state /\ new[x].attempt = old[x].attempt
                               /\ new[x].consumer = old[x].consumer
    PROVE  Moves(old, new, {})
BY DEF Moves, SameDelivery

\* One message goes to a state in which nobody has it.
LEMMA OneMoves ==
    ASSUME NEW old, NEW new, NEW m \in Messages, old[m].state \notin Settled,
           new[m].state \notin {"absent", "in_flight"},
           \A x \in Messages : x # m => new[x] = old[x]
    PROVE  Moves(old, new, {})
BY Zenon DEF Moves, SameDelivery

\* Keys stay known.
LEMMA KeysStay ==
    ASSUME NEW ids, NEW old, NEW new, NEW given, KeysKnown(ids, old), Moves(old, new, given)
    PROVE  KeysKnown(ids, new)
BY Zenon DEF KeysKnown, Moves

\* The results of continuations stay true.
LEMMA ResultsStay ==
    ASSUME NEW ks, NEW old, NEW new, NEW given, ContinuationsTrue(ks, old), Moves(old, new, given)
    PROVE  ContinuationsTrue(ks, new)
<1>1. \A c \in DOMAIN ks : c[1] \in Messages
  BY DEF ContinuationsTrue, Handed
<1> QED BY Zenon, <1>1 DEF ContinuationsTrue, Moves

\* The sweep of consume takes deliveries back and gives messages up.
LEMMA SweepMoves ==
    ASSUME MailboxInv, NEW delay \in ReclaimDelays
    PROVE  Moves(records, Swept(delay), {})
<1> DEFINE rs == Swept(delay)
<1>1. /\ \A m \in Stale : rs[m].state = RequeueState(records[m])
      /\ \A m \in Lapsed : rs[m].state = GivenUp
      /\ \A m \in Messages \ (Stale \cup Lapsed) : rs[m] = records[m]
  BY SweptRecords
<1>2. /\ \A m \in Stale : records[m].state = "in_flight"
      /\ \A m \in Lapsed : records[m].state = "queued"
  BY DEF Stale, Lapsed, InQueue
<1>3. /\ GivenUp \notin {"absent", "in_flight"}
      /\ \A rec : RequeueState(rec) \notin {"absent", "in_flight"}
  BY DEF GivenUp, RequeueState
<1>4. "in_flight" \notin Settled /\ "queued" \notin Settled
  BY DEF Settled
<1> HIDE DEF rs
<1> SUFFICES ASSUME NEW x \in Messages
             PROVE  /\ records[x].state \in Settled => rs[x].state = records[x].state
                    /\ records[x].state # "absent" => rs[x].state # "absent"
                    /\ rs[x].state = "in_flight" => SameDelivery(records[x], rs[x])
  BY DEF Moves, rs
<1>5. CASE x \in Stale
  BY ZenonT(60), <1>1, <1>2, <1>3, <1>4, <1>5
<1>6. CASE x \in Lapsed
  BY Zenon, <1>1, <1>2, <1>3, <1>4, <1>6
<1>7. CASE x \notin Stale \cup Lapsed
  BY <1>1, <1>7 DEF SameDelivery
<1> QED BY <1>5, <1>6, <1>7

\* consume makes one delivery, to its caller.
LEMMA ConsumeOperates ==
    ASSUME MemoryKept, NEW w \in Workers, NEW m \in Messages, Consume(w, m)
    PROVE  Operates({<<m, w>>})
<1>1. MailboxInv /\ KeysKnown(idempotency, records)
  BY MemoryFacts
<1>2. MailboxInv'
  BY <1>1, ConsumeStep
<1>3. PICK delay \in ReclaimDelays, q \in SweptQueues :
        \E i \in 1..Len(q) :
           /\ q[i] = m
           /\ records' = [Swept(delay) EXCEPT ![m] = Delivered(@, w)]
           /\ UNCHANGED <<idempotency, continuations>>
  BY Zenon DEF Consume
<1> DEFINE rs == Swept(delay)
<1>4. rs \in [Messages -> MailboxRecord]
  BY <1>1, SweptRecords
<1>5. QueueOf(q, rs)
  BY <1>1, SweptQueue
<1>6. Moves(records, rs, {})
  BY <1>1, SweepMoves
<1> HIDE DEF rs
<1>7. /\ rs[m].state = "queued" /\ rs[m] \in MailboxRecord
      /\ records' = [rs EXCEPT ![m] = Delivered(rs[m], w)]
      /\ UNCHANGED <<idempotency, continuations>>
  BY Zenon, <1>3, <1>4, <1>5 DEF QueueOf, rs
<1>8. Delivered(rs[m], w).state = "in_flight" /\ Delivered(rs[m], w).consumer = w
  BY Zenon, <1>7 DEF Delivered, MailboxRecord
<1>9. /\ records'[m].state = "in_flight" /\ records'[m].consumer = w
      /\ \A x \in Messages : x # m => records'[x] = rs[x]
  BY <1>4, <1>7, <1>8
<1>10. records[m].state \notin Settled
  BY <1>6, <1>7 DEF Moves, Settled
<1>11. Moves(records, records', {<<m, w>>})
  BY <1>6, <1>9, <1>10 DEF Moves, SameDelivery
<1>12. KeysKnown(idempotency', records')
  BY <1>1, <1>7, <1>11, KeysStay
<1> QED BY <1>2, <1>7, <1>11, <1>12 DEF Operates

\* The sweep alone.
LEMMA ConsumeNoneOperates ==
    ASSUME MemoryKept, ConsumeNone
    PROVE  Operates({})
<1>1. MailboxInv /\ KeysKnown(idempotency, records)
  BY MemoryFacts
<1>2. MailboxInv'
  BY <1>1, ConsumeNoneStep
<1>3. Moves(records, records', {})
  BY <1>1, SweepMoves DEF ConsumeNone
<1>4. UNCHANGED <<idempotency, continuations>>
  BY DEF ConsumeNone
<1>5. KeysKnown(idempotency', records')
  BY <1>1, <1>3, <1>4, KeysStay
<1> QED BY <1>2, <1>3, <1>4, <1>5 DEF Operates

\* A message is published, or its key or id is known.
LEMMA PublishOperates ==
    ASSUME MemoryKept, NEW m \in Messages, NEW k \in Keys, Publish(m, k)
    PROVE  Operates({})
<1>1. MailboxInv /\ KeysKnown(idempotency, records) /\ records \in [Messages -> MailboxRecord]
  BY MemoryFacts DEF MailboxInv
<1>2. MailboxInv'
  BY <1>1, PublishStep
<1>3. /\ records[m].state = "absent" /\ records' = [records EXCEPT ![m] = NewRecord(m)]
      /\ idempotency' = [key \in DOMAIN idempotency \cup {k} |->
                            IF key = k THEN m ELSE idempotency[key]]
      /\ continuations' = continuations
  BY DEF Publish
<1>4. /\ records'[m].state = "queued" /\ \A x \in Messages : x # m => records'[x] = records[x]
  BY <1>1, <1>3 DEF NewRecord
<1>5. Moves(records, records', {})
  <2>1. records[m].state \notin Settled /\ records'[m].state \notin {"absent", "in_flight"}
    BY <1>3, <1>4 DEF Settled
  <2> QED BY Zenon, <1>4, <2>1, OneMoves
<1>6. KeysKnown(idempotency, records')
  BY <1>1, <1>5, KeysStay
<1>7. KeysKnown(idempotency', records')
  BY Zenon, <1>3, <1>4, <1>6 DEF KeysKnown
<1> QED BY <1>2, <1>3, <1>5, <1>7 DEF Operates

\* The mailbox is left alone.
LEMMA NothingOperates ==
    ASSUME MemoryKept, UNCHANGED mailboxState
    PROVE  Operates({})
<1>1. MailboxInv /\ KeysKnown(idempotency, records)
  BY MemoryFacts
<1>2. /\ records' = records /\ queue' = queue /\ idempotency' = idempotency
      /\ history' = history /\ continuations' = continuations
  BY DEF mailboxState
<1>3. MailboxInv'
  BY <1>1, <1>2 DEF MailboxInv
<1>4. Moves(records, records', {})
  BY Zenon, <1>2, StillMoves
<1> QED BY <1>1, <1>2, <1>3, <1>4 DEF Operates

\* Setting the lease of a record leaves its delivery alone.
LEMMA LeaseMoves ==
    ASSUME NEW rs \in [Messages -> MailboxRecord], NEW m \in Messages, NEW l \in Nat
    PROVE  Moves(rs, [rs EXCEPT ![m].lease = l], {})
<1>1. \A x \in Messages : /\ [rs EXCEPT ![m].lease = l][x].state = rs[x].state
                          /\ [rs EXCEPT ![m].lease = l][x].attempt = rs[x].attempt
                          /\ [rs EXCEPT ![m].lease = l][x].consumer = rs[x].consumer
  BY Zenon DEF MailboxRecord
<1> QED BY Zenon, <1>1, StillMoves

\* A heartbeat renews a lease.
LEMMA HeartbeatOperates ==
    ASSUME MemoryKept, NEW m \in Messages, NEW w, Heartbeat(m, w)
    PROVE  Operates({})
<1>1. MailboxInv /\ KeysKnown(idempotency, records) /\ records \in [Messages -> MailboxRecord]
  BY MemoryFacts DEF MailboxInv
<1>2. /\ records' = [records EXCEPT ![m].lease = InflightTimeout]
      /\ queue' = queue /\ history' = history
      /\ idempotency' = idempotency /\ continuations' = continuations
  BY Zenon DEF Heartbeat
<1>3. InflightTimeout \in Nat
  BY MailboxPolicyAssumption
<1>4. MailboxInv'
  BY <1>1, <1>2, <1>3, LeaseFacts, TimersStep
<1>5. Moves(records, records', {})
  BY Zenon, <1>1, <1>2, <1>3, LeaseMoves
<1>6. KeysKnown(idempotency', records')
  BY <1>1, <1>2, <1>5, KeysStay
<1> QED BY <1>2, <1>4, <1>5, <1>6 DEF Operates

\* ack, nack and requeue end a delivery, or take a nacked message back.
LEMMA SettleOperates ==
    ASSUME MemoryKept, NEW m \in Messages, NEW w, Ack(m, w) \/ Nack(m, w) \/ Requeue(m, w)
    PROVE  Operates({})
<1>1. MailboxInv /\ KeysKnown(idempotency, records) /\ records \in [Messages -> MailboxRecord]
  BY MemoryFacts DEF MailboxInv
<1>2. MailboxInv'
  BY <1>1, SettleStep, RequeueStep
<1>3. records[m].state \in {"in_flight", "nacked"} /\ records[m] \in MailboxRecord
  BY <1>1 DEF Ack, Nack, Requeue, RequireInflight
<1>4. UNCHANGED <<idempotency, continuations>>
  BY Zenon DEF Ack, Nack, Requeue, RequeueRecord
<1>5. ASSUME NEW s \in {"acked", "dead_letter", "nacked"},
             records' = [records EXCEPT ![m] = Ended(records[m], s)]
      PROVE  Moves(records, records', {})
  <2>1. Ended(records[m], s).state = s
    BY Zenon, <1>3, RecordUpdates DEF MessageStates, Settled
  <2>2. records'[m].state = s /\ \A x \in Messages : x # m => records'[x] = records[x]
    BY <1>1, <1>5, <2>1
  <2> QED BY <1>3, <2>2, OneMoves DEF Settled
<1>6. Moves(records, records', {})
  <2>1. CASE Ack(m, w)
    <3>1. records' = [records EXCEPT ![m] = Ended(records[m], "acked")]
      BY Zenon, <1>1, <2>1 DEF Ack, Ended
    <3> QED BY Zenon, <1>5, <3>1
  <2>2. CASE Nack(m, w)
    <3>1. \/ records' = [records EXCEPT ![m] = Ended(records[m], "dead_letter")]
          \/ records' = [records EXCEPT ![m] = Ended(records[m], "nacked")]
      BY Zenon, <1>1, <2>2 DEF Nack, Ended
    <3> QED BY Zenon, <1>5, <3>1
  <2>3. CASE Requeue(m, w)
    <3>1. PICK delay \in Nat : records' = [records EXCEPT ![m] = Requeued(@, delay)]
      <4>1. \A n : RetryDelay(n) \subseteq Nat
        BY MailboxPolicyAssumption DEF RetryDelay
      <4> QED BY Zenon, <2>3, <4>1 DEF Requeue, RequeueRecord
    <3>2. Requeued(records[m], delay).state = RequeueState(records[m])
      BY <1>1, <1>3, RequeuedFacts DEF MailboxInv, BoundedIn
    <3>3. RequeueState(records[m]) \notin {"absent", "in_flight"}
      BY DEF GivenUp, RequeueState
    <3>4. /\ records'[m].state = RequeueState(records[m])
          /\ \A x \in Messages : x # m => records'[x] = records[x]
      BY <1>1, <3>1, <3>2
    <3>5. records[m].state \notin Settled
      BY <1>3 DEF Settled
    <3> QED BY Zenon, <3>3, <3>4, <3>5, OneMoves
  <2> QED BY <2>1, <2>2, <2>3
<1>7. KeysKnown(idempotency', records')
  BY <1>1, <1>4, <1>6, KeysStay
<1> QED BY <1>2, <1>4, <1>6, <1>7 DEF Operates

-----------------------------------------------------------------------------
(* The file and the cache *)

\* What Query answers when its cache is fresh.
LEMMA ViewTrue ==
    ASSUME NEW rs \in [Messages -> MailboxRecord]
    PROVE  /\ View(rs) \in [Messages -> CachedRecord]
           /\ \A m \in Messages : View(rs)[m].state = rs[m].state
<1>1. \A m \in Messages : [state |-> rs[m].state, attempt |-> rs[m].attempt,
                           consumer |-> rs[m].consumer] \in CachedRecord
  BY Zenon DEF CachedRecord, MailboxRecord
<1> QED BY <1>1 DEF View

\* An answer that a message is settled is true for good.
LEMMA CacheStays ==
    ASSUME CacheTrue, NEW given, Moves(records, records', given), cached' = cached
    PROVE  CacheTrue'
BY Zenon DEF CacheTrue, Moves

LEMMA CacheRenewed ==
    ASSUME MemoryKept', cached' = View(records')
    PROVE  CacheTrue'
<1>1. records' \in [Messages -> MailboxRecord]
  BY DEF MemoryKept, Kept, Mailed
<1> QED BY <1>1, ViewTrue DEF CacheTrue

\* An operation that is not about a continuation keeps those that are there.
LEMMA OperatesKept ==
    ASSUME MemoryKept, NEW given, Operates(given)
    PROVE  MemoryKept'
<1>1. ContinuationsTrue(continuations, records')
  BY MemoryFacts, ResultsStay DEF Operates
<1>2. ContinuationsTrue(continuations', records') /\ MailboxInv' /\ KeysKnown(idempotency', records')
  BY <1>1 DEF Operates
<1> QED BY <1>2 DEF MemoryKept, Kept, Mailed, MailboxInv

\* The whole state is in the file.
LEMMA PersistWrites ==
    ASSUME MemoryKept', Persist
    PROVE  DiskKept' /\ disk'[5] = continuations' /\ disk'[4] = history' /\ pending' = 0
<1>1. disk' = <<records', queue', idempotency', history', continuations'>> /\ pending' = 0
  BY DEF Persist, mailboxState
<1>2. /\ disk'[1] = records' /\ disk'[2] = queue' /\ disk'[3] = idempotency'
      /\ disk'[4] = history' /\ disk'[5] = continuations'
  BY <1>1
<1>3. Kept(disk'[1], disk'[2], disk'[3], disk'[4], disk'[5])
  BY Zenon, <1>2 DEF MemoryKept
<1> QED BY <1>1, <1>2, <1>3 DEF DiskKept

\* The write of an operation takes place, fails or is put off: memory and file
\* both stay sound, and a history that may be read is in the file.
LEMMA OperationStored ==
    ASSUME StoreInv, up, up' = up, NEW given, Operates(given), PersistOK \/ PersistError
    PROVE  StoreInv' /\ disk'[5] = disk[5]
<1>1. /\ MemoryKept /\ DiskKept /\ CacheTrue /\ pending \in Nat /\ continuations = disk[5]
      /\ BatchSize \in Nat \ {0}
  BY MailboxStoreAssumption DEF StoreInv
<1>2. /\ MemoryKept' /\ continuations' = continuations /\ Moves(records, records', given)
  BY Zenon, <1>1, OperatesKept DEF Operates
<1>3. CASE Persist /\ cached' = View(records')
  <2>1. DiskKept' /\ disk'[5] = continuations' /\ disk'[4] = history' /\ pending' = 0
    BY <1>2, <1>3, PersistWrites
  <2>2. CacheTrue'
    BY <1>2, <1>3, CacheRenewed
  <2> QED BY <1>1, <1>2, <2>1, <2>2 DEF StoreInv, WrittenHistory
<1>4. CASE PersistLater /\ cached' = View(records')
  <2>1. disk' = disk /\ pending' = pending + 1
    BY <1>4 DEF PersistLater
  <2>2. CacheTrue'
    BY <1>2, <1>4, CacheRenewed
  <2>3. DiskKept'
    BY <1>1, <2>1 DEF DiskKept
  <2> QED BY <1>1, <1>2, <2>1, <2>2, <2>3 DEF StoreInv, WrittenHistory
<1>5. CASE PersistError
  <2>1. disk' = disk /\ persistFailed' = TRUE /\ pending' \in Nat /\ cached' = cached
    BY <1>1, <1>5 DEF PersistError, PersistFails
  <2>2. CacheTrue'
    BY <1>1, <1>2, <2>1, CacheStays
  <2>3. DiskKept'
    BY <1>1, <2>1 DEF DiskKept
  <2> QED BY <1>1, <1>2, <2>1, <2>2, <2>3 DEF StoreInv, WrittenHistory
<1> QED BY <1>3, <1>4, <1>5 DEF PersistOK

\* A change of a continuation is in the file at once.
LEMMA ContinuationStored ==
    ASSUME StoreInv, up, up' = up, MemoryKept', Moves(records, records', {}), ContinuationWritten
    PROVE  StoreInv' /\ disk'[5] = continuations'
<1>1. DiskKept' /\ disk'[5] = continuations' /\ disk'[4] = history' /\ pending' = 0
  BY PersistWrites DEF ContinuationWritten
<1>2. CacheTrue'
  BY CacheStays DEF StoreInv, ContinuationWritten
<1> QED BY <1>1, <1>2 DEF StoreInv, WrittenHistory

\* Memory is as it was: nothing is written, or the write fails.
LEMMA UntouchedStored ==
    ASSUME StoreInv, up' = up, UNCHANGED mailboxState, cached' = cached,
           PersistFails \/ UNCHANGED storeState
    PROVE  StoreInv' /\ disk'[5] = disk[5] /\ Moves(records, records', {})
<1>1. /\ records' = records /\ queue' = queue /\ idempotency' = idempotency
      /\ history' = history /\ continuations' = continuations
  BY DEF mailboxState
<1>2. disk' = disk
  BY DEF PersistFails, storeState
<1>3. MemoryKept' /\ DiskKept' /\ CacheTrue'
  BY <1>1, <1>2 DEF StoreInv, MemoryKept, DiskKept, CacheTrue
<1>4. pending' \in Nat /\ WrittenHistory'
  <2>1. CASE PersistFails
    BY <2>1, MailboxStoreAssumption DEF StoreInv, PersistFails, WrittenHistory
  <2>2. CASE UNCHANGED storeState
    BY <1>1, <2>2 DEF StoreInv, storeState, WrittenHistory
  <2> QED BY Zenon, <2>1, <2>2
<1>5. Moves(records, records', {})
  BY <1>1, StillMoves
<1> QED BY <1>1, <1>2, <1>3, <1>4, <1>5 DEF StoreInv

\* Time passes, in memory as in the file.
ElapsedRecords(rs) == [m \in Messages |-> ElapseRecord(rs[m])]
ElapsedContinuations(ks) == [c \in DOMAIN ks |-> ElapseContinuation(ks[c])]

LEMMA ElapsedContinuation ==
    ASSUME NEW k \in ContinuationRecord
    PROVE  /\ ElapseContinuation(k) \in ContinuationRecord
           /\ ElapseContinuation(k).claim = k.claim
           /\ ElapseContinuation(k).identity = k.identity
           /\ ElapseContinuation(k).result = k.result
<1>1. \A t \in Nat : Down(t) \in Nat
  BY DEF Down
<1> QED BY Zenon, <1>1 DEF ContinuationRecord, ElapseContinuation

LEMMA ElapsedKept ==
    ASSUME NEW rs, NEW q, NEW ids, NEW h, NEW ks, Kept(rs, q, ids, h, ks)
    PROVE  /\ Kept(ElapsedRecords(rs), q, ids, h, ElapsedContinuations(ks))
           /\ Moves(rs, ElapsedRecords(rs), {})
<1> DEFINE new == ElapsedRecords(rs)
           later == ElapsedContinuations(ks)
<1>1. rs \in [Messages -> MailboxRecord]
  BY DEF Kept, Mailed
<1>2. \A m \in Messages : /\ new[m] = ElapseRecord(rs[m]) /\ new[m] \in MailboxRecord
                          /\ new[m].state = rs[m].state /\ new[m].attempt = rs[m].attempt
  BY <1>1, ElapseFacts DEF ElapsedRecords
<1>3. \A m \in Messages : new[m].consumer = rs[m].consumer
  <2>1. \A rec \in MailboxRecord : ElapseRecord(rec).consumer = rec.consumer
    BY Zenon DEF MailboxRecord, ElapseRecord
  <2> QED BY Zenon, <1>1, <1>2, <2>1
<1>4. new \in [Messages -> MailboxRecord]
  BY Zenon, <1>2 DEF ElapsedRecords
<1> HIDE DEF new
<1>5. Moves(rs, new, {})
  BY Zenon, <1>2, <1>3, StillMoves
<1>6. Mailed(new, q, h)
  BY <1>2, <1>4, TimersKeep DEF Kept, Mailed
<1>7. KeysKnown(ids, new)
  BY <1>5, KeysStay DEF Kept
<1>8. ContinuationsTrue(ks, new)
  BY <1>5, ResultsStay DEF Kept
<1>9. ContinuationsTrue(later, new)
  <2>1. DOMAIN later = DOMAIN ks /\ \A c \in DOMAIN ks : later[c] = ElapseContinuation(ks[c])
    BY DEF ElapsedContinuations
  <2>2. \A c \in DOMAIN ks : ks[c] \in ContinuationRecord
    BY <1>8 DEF ContinuationsTrue
  <2>3. \A c \in DOMAIN ks : later[c] \in ContinuationRecord /\ later[c].result = ks[c].result
    BY Zenon, <2>1, <2>2, ElapsedContinuation
  <2>4. later \in [DOMAIN later -> ContinuationRecord]
    BY <2>1, <2>3 DEF ElapsedContinuations
  <2> HIDE DEF later
  <2> QED BY <1>8, <2>1, <2>3, <2>4 DEF ContinuationsTrue
<1> QED BY Zenon, <1>5, <1>6, <1>7, <1>9 DEF Kept, new

LEMMA TickStored ==
    ASSUME StoreInv, WorkersTick
    PROVE  /\ StoreInv' /\ up' = up
           /\ Moves(records, records', {})
           /\ disk'[5] = ElapsedContinuations(disk[5])
<1>1. /\ records' = ElapsedRecords(records) /\ continuations' = ElapsedContinuations(continuations)
      /\ queue' = queue /\ idempotency' = idempotency /\ history' = history
  BY DEF WorkersTick, Tick, ElapsedRecords, ElapsedContinuations
<1>2. /\ pending' = pending /\ committed' = committed /\ persistFailed' = persistFailed
      /\ cached' = cached /\ up' = up
      /\ disk' = [disk EXCEPT ![1] = ElapsedRecords(@), ![5] = ElapsedContinuations(@)]
  BY Zenon DEF WorkersTick, process, ElapsedRecords, ElapsedContinuations
<1>3. /\ disk'[1] = ElapsedRecords(disk[1]) /\ disk'[2] = disk[2] /\ disk'[3] = disk[3]
      /\ disk'[4] = disk[4] /\ disk'[5] = ElapsedContinuations(disk[5])
      /\ disk' = <<disk'[1], disk'[2], disk'[3], disk'[4], disk'[5]>>
  <2>1. ASSUME NEW s, NEW a, NEW b, NEW c, NEW d, NEW e, NEW f, NEW g, s = <<a, b, c, d, e>>
        PROVE  [s EXCEPT ![1] = f, ![5] = g] = <<f, b, c, d, g>>
    BY <2>1
  <2>2. PICK a, b, c, d, e : disk = <<a, b, c, d, e>>
    BY Zenon DEF StoreInv, DiskKept
  <2>3. disk' = [disk EXCEPT ![1] = ElapsedRecords(a), ![5] = ElapsedContinuations(e)]
    BY <1>2, <2>2
  <2>4. disk' = <<ElapsedRecords(a), b, c, d, ElapsedContinuations(e)>>
    BY <2>1, <2>2, <2>3
  <2> QED BY <2>2, <2>4
<1>4. MemoryKept' /\ Moves(records, records', {})
  BY <1>1, ElapsedKept DEF StoreInv, MemoryKept
<1>5. DiskKept'
  <2>1. Kept(disk'[1], disk'[2], disk'[3], disk'[4], disk'[5])
    BY <1>3, ElapsedKept DEF StoreInv, DiskKept
  <2> QED BY <1>3, <2>1 DEF DiskKept
<1>6. CacheTrue'
  BY <1>2, <1>4, CacheStays DEF StoreInv
<1> QED BY Zenon, <1>1, <1>2, <1>3, <1>4, <1>5, <1>6 DEF StoreInv, WrittenHistory

\* The process dies with what is not in the file.
LEMMA CrashStored ==
    ASSUME StoreInv, Crash
    PROVE  StoreInv' /\ disk' = disk
<1>1. Init' => MailboxInv'
  BY MailboxInitially, PTL
<1>2. /\ records' = [m \in Messages |-> Absent(m)] /\ queue' = <<>> /\ idempotency' = <<>>
      /\ history' = NoHistory /\ continuations' = <<>>
      /\ disk' = disk /\ up' = FALSE /\ pending' = 0 /\ cached' = View(records')
  BY DEF Crash
<1>3. MailboxInv'
  BY <1>1, <1>2 DEF Init
<1>4. KeysKnown(idempotency', records') /\ ContinuationsTrue(continuations', records')
  BY <1>2 DEF KeysKnown, ContinuationsTrue
<1>5. MemoryKept'
  BY <1>3, <1>4 DEF MemoryKept, Kept, Mailed, MailboxInv
<1>6. CacheTrue'
  BY <1>2, <1>5, CacheRenewed
<1>7. DiskKept'
  BY <1>2 DEF StoreInv, DiskKept
<1>8. ~up' /\ up' \in BOOLEAN
  BY Zenon, <1>2
<1>9. pending' \in Nat
  BY <1>2
<1> QED BY Zenon, <1>2, <1>5, <1>6, <1>7, <1>8, <1>9 DEF StoreInv, WrittenHistory

\* NewFileStore takes the file as it is.
LEMMA ReopenStored ==
    ASSUME StoreInv, Reopen
    PROVE  StoreInv' /\ disk' = disk
<1>1. /\ records' = disk[1] /\ queue' = disk[2] /\ idempotency' = disk[3]
      /\ history' = disk[4] /\ continuations' = disk[5]
      /\ disk' = disk /\ up' = TRUE /\ pending' = pending /\ cached' = View(records')
  BY DEF Reopen
<1>2. MemoryKept'
  BY Zenon, <1>1 DEF StoreInv, DiskKept, MemoryKept
<1>3. CacheTrue'
  BY Zenon, <1>1, <1>2, CacheRenewed
<1>4. DiskKept'
  BY <1>1 DEF StoreInv, DiskKept
<1> QED BY <1>1, <1>2, <1>3, <1>4 DEF StoreInv, WrittenHistory

\* Flush writes what is in memory, or fails.
LEMMA FlushStored ==
    ASSUME StoreInv, Flush
    PROVE  StoreInv' /\ up' = up /\ Moves(records, records', {}) /\ disk'[5] = disk[5]
<1>1. UNCHANGED mailboxState /\ cached' = cached /\ up' = up /\ up
  BY DEF Flush, process
<1>2. CASE PersistFails
  BY Zenon, <1>1, <1>2, UntouchedStored
<1>3. CASE Persist
  <2>1. Operates({})
    BY <1>1, NothingOperates DEF StoreInv
  <2>2. MemoryKept' /\ Moves(records, records', {}) /\ continuations' = continuations
    BY <2>1, OperatesKept DEF StoreInv, Operates
  <2>3. StoreInv' /\ disk'[5] = continuations'
    BY <1>1, <1>3, <2>2, ContinuationStored DEF ContinuationWritten
  <2> QED BY <1>1, <2>2, <2>3 DEF StoreInv
<1> QED BY Zenon, <1>2, <1>3 DEF Flush

\* An empty mailbox and its file.
LEMMA StoreInitially ==
    ASSUME WorkersInit
    PROVE  StoreInv
<1>1. MailboxInv /\ KeysKnown(idempotency, records) /\ ContinuationsTrue(continuations, records)
  BY MailboxInitially DEF WorkersInit, Init, KeysKnown, ContinuationsTrue
<1>2. MemoryKept
  BY <1>1, MemoryFacts
<1>3. disk = <<records, queue, idempotency, history, continuations>>
  BY DEF WorkersInit, mailboxState
<1>4. DiskKept /\ disk[5] = continuations /\ disk[4] = history
  BY Zenon, <1>2, <1>3 DEF DiskKept, MemoryKept
<1>5. CacheTrue
  BY Zenon, <1>1, ViewTrue DEF WorkersInit, MailboxInv, CacheTrue
<1> QED BY <1>2, <1>4, <1>5 DEF StoreInv, WrittenHistory, WorkersInit

-----------------------------------------------------------------------------
(* Continuations *)

\* A claim is not taken back, nor given to somebody else.
Grows(old, new) ==
    \A c : Claimed(old, c) => Claimed(new, c) /\ new[c].identity = old[c].identity

LEMMA ElapsedGrows ==
    ASSUME NEW ks, NEW rs, ContinuationsTrue(ks, rs)
    PROVE  Grows(ks, ElapsedContinuations(ks))
<1>1. \A c \in DOMAIN ks : ks[c] \in ContinuationRecord
  BY DEF ContinuationsTrue
<1>2. /\ DOMAIN ElapsedContinuations(ks) = DOMAIN ks
      /\ \A c \in DOMAIN ks : ElapsedContinuations(ks)[c] = ElapseContinuation(ks[c])
  BY DEF ElapsedContinuations
<1> QED BY Zenon, <1>1, <1>2, ElapsedContinuation DEF Grows, Claimed

\* One continuation becomes k.
Put(ks, c, k) == [ks EXCEPT ![c] = k]

LEMMA OneContinuation ==
    ASSUME NEW ks, NEW rs, ContinuationsTrue(ks, rs), NEW c \in DOMAIN ks,
           NEW k \in ContinuationRecord, k.claim # "none",
           ks[c].claim # "none" => k.identity = ks[c].identity,
           k.result \in Settled => rs[c[1]].state = k.result
    PROVE  /\ ContinuationsTrue(Put(ks, c, k), rs) /\ Grows(ks, Put(ks, c, k))
           /\ Claimed(Put(ks, c, k), c) /\ Put(ks, c, k)[c].identity = k.identity
<1> DEFINE new == Put(ks, c, k)
<1>1. /\ DOMAIN new = DOMAIN ks /\ new[c] = k
      /\ \A d \in DOMAIN ks : d # c => new[d] = ks[d]
      /\ DOMAIN ks \subseteq Handed
      /\ \A d \in DOMAIN ks : ks[d] \in ContinuationRecord
      /\ \A d \in DOMAIN ks : ks[d].result \in Settled => rs[d[1]].state = ks[d].result
  BY DEF ContinuationsTrue, Put
<1>2. new \in [DOMAIN ks -> ContinuationRecord]
  BY DEF ContinuationsTrue, Put
<1> HIDE DEF new
<1>3. ContinuationsTrue(new, rs)
  BY Zenon, <1>1, <1>2 DEF ContinuationsTrue
<1>4. Grows(ks, new) /\ Claimed(new, c) /\ new[c].identity = k.identity
  BY Zenon, <1>1 DEF Grows, Claimed
<1> QED BY Zenon, <1>3, <1>4 DEF new

\* The assignments to a continuation that is claimed, run and completed.
Granted(k, r) == [k EXCEPT !.claim = "claimed", !.identity = r]
Running(k) == [k EXCEPT !.claim = "running"]
Completed(k, outcome) == [k EXCEPT !.claim = "completed", !.result = outcome]

LEMMA GrantedFacts ==
    ASSUME NEW k \in ContinuationRecord, NEW r \in Resumers
    PROVE  /\ Granted(k, r) \in ContinuationRecord /\ Granted(k, r).claim = "claimed"
           /\ Granted(k, r).identity = r /\ Granted(k, r).result = k.result
BY Zenon DEF ContinuationRecord, Granted, Claims

LEMMA RunningFacts ==
    ASSUME NEW k \in ContinuationRecord
    PROVE  /\ Running(k) \in ContinuationRecord /\ Running(k).claim = "running"
           /\ Running(k).identity = k.identity /\ Running(k).result = k.result
BY Zenon DEF ContinuationRecord, Running, Claims

LEMMA CompletedFacts ==
    ASSUME NEW k \in ContinuationRecord, NEW outcome \in MessageStates
    PROVE  /\ Completed(k, outcome) \in ContinuationRecord
           /\ Completed(k, outcome).claim = "completed"
           /\ Completed(k, outcome).identity = k.identity /\ Completed(k, outcome).result = outcome
BY Zenon DEF ContinuationRecord, Completed, Claims

\* What changes of continuations have in common.
ContinuationMoves ==
    /\ MemoryKept'
    /\ Moves(records, records', {})
    /\ Grows(continuations, continuations')

\* The rest of the mailbox is left alone.
LEMMA OnlyContinuations ==
    ASSUME MemoryKept, UNCHANGED <<records, queue, idempotency, history>>,
           ContinuationsTrue(continuations', records), Grows(continuations, continuations')
    PROVE  ContinuationMoves
<1>1. MemoryKept'
  BY DEF MemoryKept, Kept
<1>2. Moves(records, records', {})
  BY StillMoves
<1> QED BY <1>1, <1>2 DEF ContinuationMoves

LEMMA ClaimMoves ==
    ASSUME MemoryKept, NEW c, NEW r \in Resumers, ClaimResume(c, r)
    PROVE  /\ ContinuationMoves /\ ~Claimed(continuations, c)
           /\ Claimed(continuations', c) /\ continuations'[c].identity = r
<1>1. /\ ContinuationsTrue(continuations, records)
      /\ c \in DOMAIN continuations /\ continuations[c].claim = "none"
      /\ continuations[c] \in ContinuationRecord
      /\ UNCHANGED <<records, queue, idempotency, history>>
  BY MemoryFacts DEF ClaimResume, CanClaim, ContinuationsTrue
<1> DEFINE k == Granted(continuations[c], r)
<1>2. continuations' = Put(continuations, c, k)
  BY Zenon, <1>1 DEF ClaimResume, Granted, Put
<1>3. /\ k \in ContinuationRecord /\ k.claim = "claimed" /\ k.identity = r
      /\ k.result = continuations[c].result
  BY Zenon, <1>1, GrantedFacts
<1> HIDE DEF k
<1>4. /\ k.claim # "none" /\ ~(continuations[c].claim # "none")
      /\ k.result \in Settled => records[c[1]].state = k.result
  BY <1>1, <1>3 DEF ContinuationsTrue
<1>5. /\ ContinuationsTrue(continuations', records) /\ Grows(continuations, continuations')
      /\ Claimed(continuations', c) /\ continuations'[c].identity = r
  <2>1. /\ ContinuationsTrue(Put(continuations, c, k), records)
        /\ Grows(continuations, Put(continuations, c, k))
        /\ Claimed(Put(continuations, c, k), c) /\ Put(continuations, c, k)[c].identity = k.identity
    BY ZenonT(60), <1>1, <1>3, <1>4, OneContinuation
  <2> QED BY Zenon, <1>2, <1>3, <2>1
<1> QED BY <1>1, <1>5, OnlyContinuations DEF Claimed

LEMMA RunningMoves ==
    ASSUME MemoryKept, NEW c, NEW r \in Resumers, MarkRunning(c, r)
    PROVE  ContinuationMoves
<1>1. /\ ContinuationsTrue(continuations, records)
      /\ c \in DOMAIN continuations /\ continuations[c] \in ContinuationRecord
      /\ UNCHANGED <<records, queue, idempotency, history>>
  BY MemoryFacts DEF MarkRunning, ClaimIn, ContinuationsTrue
<1> DEFINE k == Running(continuations[c])
<1>2. continuations' = Put(continuations, c, k)
  BY Zenon, <1>1 DEF MarkRunning, Running, Put
<1>3. /\ k \in ContinuationRecord /\ k.claim = "running"
      /\ k.identity = continuations[c].identity /\ k.result = continuations[c].result
  BY Zenon, <1>1, RunningFacts
<1> HIDE DEF k
<1>4. /\ k.claim # "none"
      /\ k.result \in Settled => records[c[1]].state = k.result
  BY <1>1, <1>3 DEF ContinuationsTrue
<1>5. ContinuationsTrue(continuations', records) /\ Grows(continuations, continuations')
  BY Zenon, <1>1, <1>2, <1>3, <1>4, OneContinuation
<1> QED BY <1>1, <1>5, OnlyContinuations

\* The result that is committed is true if it says that the message is settled.
LEMMA CommitMoves ==
    ASSUME MemoryKept, NEW c, NEW r \in Resumers, NEW outcome \in MessageStates,
           CommitResult(c, r, outcome),
           outcome \in Settled => records[c[1]].state = outcome
    PROVE  ContinuationMoves
<1>1. /\ ContinuationsTrue(continuations, records)
      /\ c \in DOMAIN continuations /\ continuations[c] \in ContinuationRecord
      /\ UNCHANGED <<records, queue, idempotency, history>>
  BY MemoryFacts DEF CommitResult, ClaimIn, ContinuationsTrue
<1> DEFINE k == Completed(continuations[c], outcome)
<1>2. continuations' = Put(continuations, c, k)
  BY Zenon, <1>1 DEF CommitResult, Completed, Put
<1>3. /\ k \in ContinuationRecord /\ k.claim = "completed"
      /\ k.identity = continuations[c].identity /\ k.result = outcome
  BY Zenon, <1>1, CompletedFacts
<1> HIDE DEF k
<1>4. k.claim # "none" /\ (k.result \in Settled => records[c[1]].state = k.result)
  BY Zenon, <1>3
<1>5. ContinuationsTrue(continuations', records) /\ Grows(continuations, continuations')
  BY ZenonT(60), <1>1, <1>2, <1>3, <1>4, OneContinuation
<1> QED BY Zenon, <1>1, <1>5, OnlyContinuations

\* A pause makes a continuation that nobody has claimed.
LEMMA SaveMoves ==
    ASSUME MemoryKept, NEW c \in Handed, NEW w \in Workers, SaveContinuation(c, w)
    PROVE  ContinuationMoves
<1> DEFINE k == [consumer |-> w, expires |-> PauseTime, claim |-> "none", identity |-> NoOne,
                 result |-> ""]
<1>1. /\ MailboxInv /\ KeysKnown(idempotency, records) /\ ContinuationsTrue(continuations, records)
      /\ records \in [Messages -> MailboxRecord]
  BY MemoryFacts DEF MailboxInv
<1>2. /\ c \notin DOMAIN continuations
      /\ records' = [records EXCEPT ![c[1]].lease = PauseTime]
      /\ continuations' = [d \in DOMAIN continuations \cup {c} |->
                              IF d = c THEN k ELSE continuations[d]]
      /\ queue' = queue /\ idempotency' = idempotency /\ history' = history
  BY Zenon DEF SaveContinuation, CanSave
<1>3. PauseTime \in Nat /\ c[1] \in Messages
  BY MailboxPolicyAssumption DEF Handed
<1>4. MailboxInv'
  <2>1. records' = [records EXCEPT ![c[1]].lease = PauseTime]
    BY Zenon, <1>2
  <2>2. /\ records' \in [Messages -> MailboxRecord]
        /\ \A x \in Messages : /\ records'[x].state = records[x].state
                               /\ records'[x].attempt = records[x].attempt
    BY <1>1, <1>3, <2>1, LeaseFacts
  <2> QED BY Zenon, <1>1, <1>2, <2>2, TimersStep
<1>5. Moves(records, records', {})
  BY Zenon, <1>1, <1>2, <1>3, LeaseMoves
<1>6. KeysKnown(idempotency', records')
  BY Zenon, <1>1, <1>2, <1>5, KeysStay
<1>7. k \in ContinuationRecord /\ k.result \notin Settled /\ k.claim = "none"
  BY Zenon, <1>3 DEF ContinuationRecord, Claims, Settled
<1> HIDE DEF k
<1>8. ContinuationsTrue(continuations, records')
  BY <1>1, <1>5, ResultsStay
<1>9. /\ DOMAIN continuations' = DOMAIN continuations \cup {c} /\ continuations'[c] = k
      /\ \A d \in DOMAIN continuations : continuations'[d] = continuations[d]
  BY <1>2
<1>10. continuations' \in [DOMAIN continuations' -> ContinuationRecord]
  BY <1>2, <1>7, <1>8 DEF ContinuationsTrue
<1>11. ContinuationsTrue(continuations', records')
  BY Zenon, <1>7, <1>8, <1>9, <1>10 DEF ContinuationsTrue
<1>12. Grows(continuations, continuations')
  BY Zenon, <1>9 DEF Grows, Claimed
<1>13. MemoryKept'
  BY <1>4, <1>6, <1>11 DEF MemoryKept, Kept, Mailed, MailboxInv
<1> QED BY <1>5, <1>12, <1>13 DEF ContinuationMoves

-----------------------------------------------------------------------------
(* Workers and resume calls *)

\* What a worker may do in a step that gives it no delivery, and a worker that
\* has one it owns.
StaysWorker(old, new, w, given) ==
    /\ new.phase = old.phase /\ new.delivery = old.delivery
    /\ \A x \in Messages : <<x, w>> \notin given

LEMMA WorkersKept ==
    ASSUME WorkerInv, NEW given, Moves(records, records', given), up',
           workers' \in [Workers -> {Idle} \cup HandlingRecord],
           \A w \in Workers : \/ workers'[w] = Idle
                              \/ StaysWorker(workers[w], workers'[w], w, given)
                              \/ Owns(workers'[w], w, records')
    PROVE  WorkerInv'
<1>1. ASSUME NEW w \in Workers PROVE Owns(workers'[w], w, records')
  <2>1. CASE workers'[w] = Idle
    BY <2>1 DEF Owns, Idle
  <2>2. CASE StaysWorker(workers[w], workers'[w], w, given)
    <3>1. SUFFICES ASSUME workers'[w].phase = "handling",
                          records'[workers'[w].delivery[1]].state = "in_flight",
                          records'[workers'[w].delivery[1]].consumer = w
                   PROVE  records'[workers'[w].delivery[1]].attempt = workers'[w].delivery[2]
      BY Zenon DEF Owns
    <3> DEFINE c == workers'[w].delivery
    <3>2. c[1] \in Messages /\ workers[w].phase = "handling" /\ workers[w].delivery = c
      <4>1. workers'[w] \in HandlingRecord
        BY <3>1 DEF Idle
      <4>2. c \in Handed
        BY <4>1 DEF HandlingRecord
      <4> QED BY ZenonT(60), <2>2, <3>1, <4>2 DEF StaysWorker, Handed
    <3>3. records'[c[1]].state = "in_flight" /\ records'[c[1]].consumer = w
      BY Zenon, <3>1
    <3> HIDE DEF c
    <3>4. SameDelivery(records[c[1]], records'[c[1]]) \/ <<c[1], w>> \in given
      BY Zenon, <3>2, <3>3 DEF Moves
    <3>5. SameDelivery(records[c[1]], records'[c[1]])
      BY Zenon, <2>2, <3>2, <3>4 DEF StaysWorker
    <3>6. records[c[1]].state = "in_flight" /\ records[c[1]].consumer = w
             => records[c[1]].attempt = c[2]
      BY Zenon, <3>2 DEF WorkerInv, Owns
    <3>7. /\ records[c[1]].state = "in_flight" /\ records[c[1]].consumer = w
          /\ records'[c[1]].attempt = records[c[1]].attempt
      BY Zenon, <3>3, <3>5 DEF SameDelivery
    <3> QED BY Zenon, <3>6, <3>7 DEF c
  <2> QED BY <2>1, <2>2
<1> QED BY <1>1 DEF WorkerInv

\* The usual cases: the workers are as they were, or one of them is done.
LEMMA WorkersSame ==
    ASSUME WorkerInv, Moves(records, records', {}), up', workers' = workers
    PROVE  WorkerInv'
<1>1. workers' \in [Workers -> {Idle} \cup HandlingRecord]
  BY DEF WorkerInv
<1>2. \A w \in Workers : StaysWorker(workers[w], workers'[w], w, {})
  BY DEF StaysWorker
<1> QED BY Zenon, <1>1, <1>2, WorkersKept

LEMMA WorkerDone ==
    ASSUME WorkerInv, Moves(records, records', {}), up', NEW w \in Workers,
           workers' = [workers EXCEPT ![w] = Idle]
    PROVE  WorkerInv'
<1>1. workers \in [Workers -> {Idle} \cup HandlingRecord]
  BY DEF WorkerInv
<1>2. /\ workers' \in [Workers -> {Idle} \cup HandlingRecord]
      /\ \A v \in Workers : workers'[v] = Idle \/ workers'[v] = workers[v]
  BY <1>1
<1> QED BY <1>2, WorkersKept DEF StaysWorker

\* The lost flag of a handler is set.
MarkedLost(at, b) == [at EXCEPT !.lost = b]

LEMMA MarkedLostFacts ==
    ASSUME NEW at \in HandlingRecord, NEW b \in BOOLEAN
    PROVE  /\ MarkedLost(at, b) \in HandlingRecord
           /\ MarkedLost(at, b).phase = at.phase /\ MarkedLost(at, b).delivery = at.delivery
BY Zenon DEF HandlingRecord, MarkedLost

LEMMA WorkerBeats ==
    ASSUME WorkerInv, Moves(records, records', {}), up', NEW w \in Workers, NEW b \in BOOLEAN,
           workers[w].phase = "handling", workers' = [workers EXCEPT ![w].lost = b]
    PROVE  WorkerInv'
<1>1. workers \in [Workers -> {Idle} \cup HandlingRecord]
  BY DEF WorkerInv
<1>2. workers[w] \in HandlingRecord
  BY <1>1 DEF Idle
<1> DEFINE at == MarkedLost(workers[w], b)
<1>3. workers' = [workers EXCEPT ![w] = at]
  BY Zenon, <1>1 DEF MarkedLost
<1>4. at \in HandlingRecord /\ at.phase = workers[w].phase /\ at.delivery = workers[w].delivery
  BY <1>2, MarkedLostFacts
<1> HIDE DEF at
<1>5. /\ workers' \in [Workers -> {Idle} \cup HandlingRecord]
      /\ \A v \in Workers : /\ workers'[v].phase = workers[v].phase
                            /\ workers'[v].delivery = workers[v].delivery
  BY Zenon, <1>1, <1>3, <1>4
<1> QED BY <1>5, WorkersKept DEF StaysWorker

\* What a resume call holds stays so.
LEMMA HoldsStay ==
    ASSUME NEW at \in ResumeRecord, NEW r, NEW ks, NEW more, NEW old, NEW new, NEW given,
           ResumeHolds(at, r, ks, old), Grows(ks, more), Moves(old, new, given)
    PROVE  ResumeHolds(at, r, more, new)
<1> SUFFICES ASSUME at.phase # "idle" PROVE ResumeHolds(at, r, more, new)
  BY Zenon DEF ResumeHolds
<1>1. Claimed(more, at.delivery) /\ more[at.delivery].identity = r
  BY Zenon DEF ResumeHolds, Grows
<1>2. at.delivery[1] \in Messages
  <2>1. at.delivery \in Handed
    BY DEF ResumeRecord, Idle, HandlingRecord
  <2> QED BY Zenon, <2>1 DEF Handed
<1>3. ASSUME at.phase = "read", at.outcome \in Settled PROVE new[at.delivery[1]].state = at.outcome
  <2>1. old[at.delivery[1]].state = at.outcome
    BY Zenon, <1>3 DEF ResumeHolds
  <2> QED BY Zenon, <1>2, <1>3, <2>1 DEF Moves
<1> QED BY Zenon, <1>1, <1>3 DEF ResumeHolds

\* What a resume call may do in a step that enters no handler: end, or go on
\* with its delivery, after its claim.
StaysResume(old, new, rs) ==
    /\ old.phase # "idle" /\ new.phase # "idle" /\ new.delivery = old.delivery
    /\ new.phase \in {"claimed", "running", "checked"}
          => old.phase \in {"claimed", "running", "checked"}
    /\ new.phase = "read" /\ new.outcome \in Settled => rs[new.delivery[1]].state = new.outcome

LEMMA StaysHolds ==
    ASSUME NEW old, NEW new, NEW r, NEW ks, NEW rs,
           StaysResume(old, new, rs), ResumeHolds(old, r, ks, rs)
    PROVE  ResumeHolds(new, r, ks, rs)
BY Zenon DEF StaysResume, ResumeHolds

LEMMA ResumesKept ==
    ASSUME ResumeInv, NEW given, Moves(records, records', given), Grows(disk[5], disk'[5]), up',
           resumes' \in [Resumers -> ResumeRecord], started' = started,
           \A r \in Resumers : \/ resumes'[r] = Idle \/ resumes'[r] = resumes[r]
                               \/ StaysResume(resumes[r], resumes'[r], records')
    PROVE  ResumeInv'
<1>1. ASSUME NEW r \in Resumers PROVE ResumeHolds(resumes'[r], r, disk'[5], records')
  <2>1. CASE resumes'[r] = Idle
    <3>1. Idle.phase = "idle"
      BY Zenon DEF Idle
    <3> QED BY Zenon, <2>1, <3>1 DEF ResumeHolds
  <2>2. ResumeHolds(resumes[r], r, disk'[5], records') /\ resumes[r] \in ResumeRecord
    <3>1. resumes[r] \in ResumeRecord /\ ResumeHolds(resumes[r], r, disk[5], records)
      BY Zenon DEF ResumeInv
    <3> QED BY Zenon, <3>1, HoldsStay
  <2>3. CASE StaysResume(resumes[r], resumes'[r], records')
    BY Zenon, <2>2, <2>3, StaysHolds
  <2> QED BY Zenon, <2>1, <2>2, <2>3
<1>2. ASSUME NEW c \in Deliveries, started'[c] = 1
      PROVE  Claimed(disk'[5], c) /\ \A r \in Resumers : ~OnTheWay(resumes'[r], c)
  <2>1. Claimed(disk[5], c) /\ \A r \in Resumers : ~OnTheWay(resumes[r], c)
    BY <1>2 DEF ResumeInv
  <2>2. Claimed(disk'[5], c)
    BY ZenonT(60), <2>1 DEF Grows
  <2>3. ASSUME NEW r \in Resumers PROVE ~OnTheWay(resumes'[r], c)
    BY <2>1 DEF OnTheWay, Idle, StaysResume
  <2> QED BY <2>2, <2>3
<1> QED BY Zenon, <1>1, <1>2 DEF ResumeInv

LEMMA ResumesSame ==
    ASSUME ResumeInv, NEW given, Moves(records, records', given), Grows(disk[5], disk'[5]), up',
           resumes' = resumes, started' = started
    PROVE  ResumeInv'
<1>1. resumes' \in [Resumers -> ResumeRecord]
  BY DEF ResumeInv
<1> QED BY <1>1, ResumesKept

\* The call r ends, or goes on as at.
LEMMA OneResume ==
    ASSUME ResumeInv, Moves(records, records', {}), Grows(disk[5], disk'[5]), up',
           started' = started, NEW r \in Resumers, NEW at \in ResumeRecord,
           resumes' = [resumes EXCEPT ![r] = at],
           at = Idle \/ StaysResume(resumes[r], at, records')
    PROVE  ResumeInv'
<1>1. resumes \in [Resumers -> ResumeRecord]
  BY DEF ResumeInv
<1>2. resumes' \in [Resumers -> ResumeRecord]
  BY <1>1
<1>3. \A q \in Resumers : resumes'[q] = IF q = r THEN at ELSE resumes[q]
  BY <1>1
<1>4. ASSUME NEW q \in Resumers
      PROVE  \/ resumes'[q] = Idle \/ resumes'[q] = resumes[q]
             \/ StaysResume(resumes[q], resumes'[q], records')
  BY Zenon, <1>3
<1> QED BY ZenonT(60), <1>2, <1>4, ResumesKept

\* Who has a delivery has one of a message.
LEMMA HandlerFacts ==
    ASSUME WorkerInv, NEW w \in Workers, workers[w].phase = "handling"
    PROVE  workers[w] \in HandlingRecord /\ workers[w].delivery \in Handed
           /\ workers[w].delivery[1] \in Messages
<1>1. workers[w] \in HandlingRecord
  BY DEF WorkerInv, Idle
<1>2. workers[w].delivery \in Handed
  BY <1>1 DEF HandlingRecord
<1> QED BY <1>1, <1>2 DEF Handed

LEMMA ResumerFacts ==
    ASSUME ResumeInv, NEW r \in Resumers, resumes[r].phase # "idle"
    PROVE  /\ resumes[r] \in ResumeRecord
           /\ resumes[r].delivery \in Handed /\ resumes[r].delivery[1] \in Messages
           /\ resumes[r].phase = "handling" => resumes[r] \in HandlingRecord
           /\ resumes[r].phase = "read" => resumes[r].outcome \in MessageStates
<1>1. resumes[r] \in ResumeRecord
  BY DEF ResumeInv
<1>2. resumes[r].delivery \in Handed
  BY <1>1 DEF ResumeRecord, Idle, HandlingRecord
<1>3. resumes[r].phase = "handling" => resumes[r] \in HandlingRecord
  BY <1>1 DEF ResumeRecord, Idle
<1>4. resumes[r].phase = "read" => resumes[r].outcome \in MessageStates
  BY <1>1 DEF ResumeRecord, Idle, HandlingRecord
<1>5. resumes[r].delivery[1] \in Messages
  BY <1>2 DEF Handed
<1> QED BY <1>1, <1>2, <1>3, <1>4, <1>5

\* The records of a resume call.
LEMMA ResumeRecords ==
    ASSUME NEW c \in Handed
    PROVE  /\ \A p \in {"claimed", "running", "checked", "settled"} :
                 At(p, c) \in ResumeRecord /\ At(p, c).phase = p /\ At(p, c).delivery = c
           /\ Handling(c) \in HandlingRecord /\ Handling(c) \in ResumeRecord
           /\ Handling(c).phase = "handling" /\ Handling(c).delivery = c
           /\ Idle \in ResumeRecord
<1>1. \A p \in {"claimed", "running", "checked", "settled"} :
         At(p, c) \in ResumeRecord /\ At(p, c).phase = p /\ At(p, c).delivery = c
  BY DEF At, ResumeRecord
<1>2. /\ Handling(c) \in HandlingRecord
      /\ Handling(c).phase = "handling" /\ Handling(c).delivery = c
  BY DEF Handling, HandlingRecord
<1> QED BY ZenonT(60), <1>1, <1>2 DEF ResumeRecord

-----------------------------------------------------------------------------
(* A step of the mailbox, with its write *)

Steady ==
    /\ StoreInv'
    /\ up'
    /\ Moves(records, records', {})
    /\ Grows(disk[5], disk'[5])

LEMMA OperationSteady ==
    ASSUME StoreInv, up, UNCHANGED process, Operates({}), PersistOK \/ PersistError
    PROVE  Steady
<1>1. up' = up
  BY DEF process
<1>2. StoreInv' /\ disk'[5] = disk[5]
  BY <1>1, OperationStored
<1>3. Grows(disk[5], disk'[5])
  BY <1>2 DEF Grows
<1> QED BY Zenon, <1>1, <1>2, <1>3 DEF Steady, Operates

LEMMA ContinuationSteady ==
    ASSUME StoreInv, up, UNCHANGED process, ContinuationMoves, ContinuationWritten
    PROVE  Steady /\ disk'[5] = continuations' /\ disk[5] = continuations
<1>1. up' = up
  BY DEF process
<1>2. StoreInv' /\ disk'[5] = continuations'
  BY <1>1, ContinuationStored DEF ContinuationMoves
<1>3. disk[5] = continuations
  BY DEF StoreInv
<1> QED BY <1>1, <1>2, <1>3 DEF Steady, ContinuationMoves

LEMMA UntouchedSteady ==
    ASSUME StoreInv, up, UNCHANGED process,
           ContinuationUndone \/ UNCHANGED <<mailboxState, storeState>>
    PROVE  Steady
<1>1. up' = up /\ UNCHANGED mailboxState /\ cached' = cached
  BY Zenon DEF process, ContinuationUndone, storeState
<1>2. PersistFails \/ UNCHANGED storeState
  BY Zenon DEF ContinuationUndone
<1>3. StoreInv' /\ disk'[5] = disk[5] /\ Moves(records, records', {})
  BY <1>1, <1>2, UntouchedStored
<1>4. Grows(disk[5], disk'[5])
  BY <1>3 DEF Grows
<1> QED BY <1>1, <1>3, <1>4 DEF Steady

\* The end of a handler, and its heartbeat.
LEMMA SettleSteady ==
    ASSUME StoreInv, up, UNCHANGED process, NEW m \in Messages, NEW w, NEW ok \in BOOLEAN,
           \/ (Settle(m, w, ok) \/ UNCHANGED mailboxState) /\ (PersistOK \/ PersistError)
           \/ SettleRefused(m, w, ok) /\ UNCHANGED storeState
    PROVE  Steady
<1>1. MemoryKept
  BY DEF StoreInv
<1>2. CASE Settle(m, w, ok) /\ (PersistOK \/ PersistError)
  <2>1. Ack(m, w) \/ Nack(m, w) \/ Requeue(m, w)
    BY Zenon, <1>2 DEF Settle
  <2> QED BY <1>1, <1>2, <2>1, SettleOperates, OperationSteady
<1>3. CASE UNCHANGED mailboxState /\ (PersistOK \/ PersistError)
  BY Zenon, <1>1, <1>3, NothingOperates, OperationSteady
<1>4. CASE SettleRefused(m, w, ok) /\ UNCHANGED storeState
  BY Zenon, <1>4, UntouchedSteady DEF SettleRefused
<1> QED BY Zenon, <1>2, <1>3, <1>4

LEMMA HeartbeatSteady ==
    ASSUME StoreInv, up, UNCHANGED process, NEW m \in Messages, NEW w, HandlerHeartbeat(m, w)
    PROVE  Steady
<1>1. MemoryKept
  BY DEF StoreInv
<1>2. CASE Heartbeat(m, w) /\ (PersistOK \/ PersistError)
  BY <1>1, <1>2, HeartbeatOperates, OperationSteady
<1>3. CASE UNCHANGED <<mailboxState, storeState>>
  BY <1>3, UntouchedSteady
<1> QED BY Zenon, <1>2, <1>3 DEF HandlerHeartbeat

-----------------------------------------------------------------------------
(* The actions of the host and the workers *)

\* Steps that change neither a worker nor a resume call.
LEMMA HostStep ==
    ASSUME WorkersInv, Steady, UNCHANGED <<workers, resumes, started>>
    PROVE  WorkersInv'
<1>1. WorkerInv'
  BY WorkersSame DEF WorkersInv, Steady
<1>2. ResumeInv'
  BY ResumesSame DEF WorkersInv, Steady
<1> QED BY <1>1, <1>2 DEF WorkersInv, Steady

LEMMA OperationInv ==
    ASSUME WorkersInv, up, UNCHANGED process, PersistOK \/ PersistError, Operates({}),
           UNCHANGED <<workers, resumes, started>>
    PROVE  WorkersInv'
BY OperationSteady, HostStep DEF WorkersInv

LEMMA PublishInv ==
    ASSUME WorkersInv, NEW m \in Messages, NEW k \in Keys, HostPublish(m, k)
    PROVE  WorkersInv'
<1>1. /\ up /\ UNCHANGED process /\ (PersistOK \/ PersistError)
      /\ UNCHANGED <<workers, resumes, started>>
      /\ Publish(m, k) \/ UNCHANGED mailboxState
  BY Zenon DEF HostPublish
<1>2. MemoryKept
  BY DEF WorkersInv, StoreInv
<1>3. Operates({})
  BY <1>1, <1>2, PublishOperates, NothingOperates
<1> QED BY <1>1, <1>3, OperationInv

LEMMA HostRequeueInv ==
    ASSUME WorkersInv, NEW m \in Messages, HostRequeue(m)
    PROVE  WorkersInv'
<1>1. /\ up /\ UNCHANGED process /\ (PersistOK \/ PersistError)
      /\ UNCHANGED <<workers, resumes, started>> /\ Requeue(m, NoOne)
  BY Zenon DEF HostRequeue
<1>2. MemoryKept
  BY DEF WorkersInv, StoreInv
<1>3. Operates({})
  BY <1>1, <1>2, SettleOperates
<1> QED BY <1>1, <1>3, OperationInv

LEMMA ConsumeNoneInv ==
    ASSUME WorkersInv, NEW w \in Workers, WorkerConsumeNone(w)
    PROVE  WorkersInv'
<1>1. /\ up /\ UNCHANGED process /\ (PersistOK \/ PersistError)
      /\ UNCHANGED <<workers, resumes, started>> /\ ConsumeNone
  BY Zenon DEF WorkerConsumeNone
<1>2. MemoryKept
  BY DEF WorkersInv, StoreInv
<1>3. Operates({})
  BY <1>1, <1>2, ConsumeNoneOperates
<1> QED BY <1>1, <1>3, OperationInv

\* The worker that gets the message owns it, and nobody else has that delivery.
LEMMA ConsumeInv ==
    ASSUME WorkersInv, NEW w \in Workers, NEW m \in Messages, WorkerConsume(w, m)
    PROVE  WorkersInv'
<1>1. StoreInv /\ MemoryKept /\ WorkerInv /\ ResumeInv
  BY DEF WorkersInv, StoreInv
<1>2. /\ up /\ up' = up /\ workers[w] = Idle /\ Consume(w, m) /\ (PersistOK \/ PersistError)
      /\ UNCHANGED <<resumes, started>>
  BY Zenon DEF WorkerConsume, process
<1>3. Operates({<<m, w>>})
  BY Zenon, <1>1, <1>2, ConsumeOperates
<1>4. StoreInv' /\ disk'[5] = disk[5]
  BY ZenonT(60), <1>1, <1>2, <1>3, OperationStored
<1>5. Moves(records, records', {<<m, w>>}) /\ MailboxInv'
  BY Zenon, <1>3 DEF Operates
<1>6. ResumeInv'
  BY Zenon, <1>1, <1>2, <1>4, <1>5, ResumesSame DEF Grows
<1> DEFINE c == <<m, records'[m].attempt>>
<1>7. Owns(Handling(c), w, records') /\ c \in Handed
  <2>1. records'[m].attempt \in Nat
    BY <1>5 DEF MailboxInv, MailboxRecord
  <2> QED BY Zenon, <2>1 DEF Owns, Handling, Handed
<1> HIDE DEF c
<1>8. workers' = workers \/ workers' = [workers EXCEPT ![w] = Handling(c)]
  BY Zenon DEF WorkerConsume, c
<1>9. /\ workers \in [Workers -> {Idle} \cup HandlingRecord] /\ Handling(c) \in HandlingRecord
  BY Zenon, <1>1, <1>7, ResumeRecords DEF WorkerInv
<1>10. workers' \in [Workers -> {Idle} \cup HandlingRecord]
  BY Zenon, <1>8, <1>9
<1>11. ASSUME NEW v \in Workers
       PROVE  \/ workers'[v] = Idle
              \/ StaysWorker(workers[v], workers'[v], v, {<<m, w>>})
              \/ Owns(workers'[v], v, records')
  <2>1. CASE v = w
    BY <1>2, <1>7, <1>8, <1>9, <2>1
  <2>2. CASE v # w
    BY <1>8, <1>9, <2>2 DEF StaysWorker
  <2> QED BY Zenon, <2>1, <2>2
<1>12. WorkerInv'
  BY <1>1, <1>2, <1>5, <1>10, <1>11, WorkersKept
<1> QED BY <1>4, <1>6, <1>12 DEF WorkersInv

\* A handler of a worker: its heartbeat, its end and its pause.
LEMMA WorkerHeartbeatInv ==
    ASSUME WorkersInv, NEW w \in Workers, WorkerHeartbeat(w)
    PROVE  WorkersInv'
<1>1. StoreInv /\ WorkerInv /\ ResumeInv
  BY DEF WorkersInv
<1> DEFINE b == ~RequireInflight(workers[w].delivery[1], w) \/ failures' > failures
<1>2. /\ up /\ UNCHANGED process /\ workers[w].phase = "handling"
      /\ HandlerHeartbeat(workers[w].delivery[1], w)
      /\ workers' = [workers EXCEPT ![w].lost = b]
      /\ UNCHANGED <<resumes, started>>
  BY Zenon DEF WorkerHeartbeat
<1>3. workers[w].delivery[1] \in Messages
  BY <1>1, <1>2, HandlerFacts
<1>4. b \in BOOLEAN
  OBVIOUS
<1> HIDE DEF b
<1>5. Steady
  BY ZenonT(60), <1>1, <1>2, <1>3, HeartbeatSteady
<1>6. WorkerInv'
  BY ZenonT(60), <1>1, <1>2, <1>4, <1>5, WorkerBeats DEF Steady
<1>7. ResumeInv'
  BY <1>1, <1>2, <1>5, ResumesSame DEF Steady
<1> QED BY <1>5, <1>6, <1>7 DEF WorkersInv, Steady

LEMMA WorkerEndInv ==
    ASSUME WorkersInv, NEW w \in Workers, NEW ok \in BOOLEAN,
           WorkerSettle(w, ok) \/ WorkerPause(w)
    PROVE  WorkersInv'
<1>1. StoreInv /\ MemoryKept /\ WorkerInv /\ ResumeInv
  BY DEF WorkersInv, StoreInv
<1>2. /\ up /\ UNCHANGED process /\ workers[w].phase = "handling"
      /\ workers' = [workers EXCEPT ![w] = Idle]
      /\ UNCHANGED <<resumes, started>>
  BY Zenon DEF WorkerSettle, WorkerPause
<1>3. workers[w].delivery \in Handed /\ workers[w].delivery[1] \in Messages
  BY Zenon, <1>1, <1>2, HandlerFacts
<1>4. Steady
  <2>1. CASE WorkerSettle(w, ok)
    <3> DEFINE m == workers[w].delivery[1]
    <3>1. \/ (Settle(m, w, ok) \/ UNCHANGED mailboxState) /\ (PersistOK \/ PersistError)
          \/ SettleRefused(m, w, ok) /\ UNCHANGED storeState
      BY Zenon, <2>1 DEF WorkerSettle
    <3> HIDE DEF m
    <3> QED BY ZenonT(60), <1>1, <1>2, <1>3, <3>1, SettleSteady DEF m
  <2>2. CASE WorkerPause(w)
    <3> DEFINE c == workers[w].delivery
    <3>1. \/ SaveContinuation(c, w) /\ ContinuationWritten
          \/ ContinuationUndone \/ UNCHANGED <<mailboxState, storeState>>
      BY Zenon, <2>2 DEF WorkerPause
    <3>2. c \in Handed
      BY <1>3
    <3> HIDE DEF c
    <3>3. CASE SaveContinuation(c, w) /\ ContinuationWritten
      BY <1>1, <1>2, <3>2, <3>3, SaveMoves, ContinuationSteady
    <3>4. CASE ContinuationUndone \/ UNCHANGED <<mailboxState, storeState>>
      BY <1>1, <1>2, <3>4, UntouchedSteady
    <3> QED BY <3>1, <3>3, <3>4
  <2> QED BY <2>1, <2>2
<1>5. WorkerInv'
  BY ZenonT(60), <1>1, <1>2, <1>4, WorkerDone DEF Steady
<1>6. ResumeInv'
  BY <1>1, <1>2, <1>4, ResumesSame DEF Steady
<1> QED BY <1>4, <1>5, <1>6 DEF WorkersInv, Steady

-----------------------------------------------------------------------------
(* The actions of resume calls *)

\* A step in which one resume call ends or goes on.
LEMMA ResumeStep ==
    ASSUME WorkersInv, Steady, UNCHANGED <<workers, started>>, NEW r \in Resumers,
           NEW at \in ResumeRecord, resumes' = [resumes EXCEPT ![r] = at],
           at = Idle \/ StaysResume(resumes[r], at, records')
    PROVE  WorkersInv'
<1>1. StoreInv' /\ up' /\ Moves(records, records', {}) /\ Grows(disk[5], disk'[5])
  BY DEF Steady
<1>2. WorkerInv'
  BY <1>1, WorkersSame DEF WorkersInv
<1>3. WorkerInv /\ ResumeInv
  BY DEF WorkersInv
<1>4. ResumeInv'
  BY Zenon, <1>1, <1>3, OneResume
<1> QED BY <1>1, <1>2, <1>4 DEF WorkersInv

\* The call that gets the claim is the only one on its way to the handler.
LEMMA ClaimInv ==
    ASSUME WorkersInv, NEW r \in Resumers, NEW c \in Deliveries, ResumeClaim(r, c)
    PROVE  WorkersInv'
<1>1. StoreInv /\ MemoryKept /\ WorkerInv /\ ResumeInv
  BY DEF WorkersInv, StoreInv
<1>2. up /\ UNCHANGED process /\ resumes[r] = Idle /\ UNCHANGED <<workers, started>>
  BY Zenon DEF ResumeClaim
<1>3. CASE ContinuationUndone /\ UNCHANGED resumes
  BY <1>1, <1>2, <1>3, UntouchedSteady, HostStep
<1>4. CASE /\ ClaimResume(c, r) /\ ContinuationWritten
           /\ resumes' = [resumes EXCEPT ![r] = At("claimed", c)]
  <2>1. /\ ContinuationMoves /\ ~Claimed(continuations, c)
        /\ Claimed(continuations', c) /\ continuations'[c].identity = r
    BY <1>1, <1>4, ClaimMoves
  <2>2. Steady /\ disk'[5] = continuations' /\ disk[5] = continuations
    BY ZenonT(60), <1>1, <1>2, <1>4, <2>1, ContinuationSteady
  <2>3. StoreInv' /\ up' /\ Moves(records, records', {}) /\ Grows(disk[5], disk'[5])
    BY <2>2 DEF Steady
  <2>4. WorkerInv'
    BY <1>1, <1>2, <2>3, WorkersSame
  <2>5. c \in Handed
    BY MailboxPolicyAssumption DEF Deliveries, Handed
  <2> DEFINE at == At("claimed", c)
  <2>6. at \in ResumeRecord /\ at.phase = "claimed" /\ at.delivery = c
    BY <2>5, ResumeRecords
  <2> HIDE DEF at
  <2>7. resumes \in [Resumers -> ResumeRecord]
    BY <1>1 DEF ResumeInv
  <2>8. /\ resumes' \in [Resumers -> ResumeRecord]
        /\ \A q \in Resumers : resumes'[q] = IF q = r THEN at ELSE resumes[q]
    BY <1>4, <2>6, <2>7 DEF at
  <2>9. ResumeHolds(at, r, disk'[5], records')
    BY Zenon, <2>1, <2>2, <2>6 DEF ResumeHolds
  <2>10. ASSUME NEW q \in Resumers PROVE ResumeHolds(resumes'[q], q, disk'[5], records')
    <3>1. resumes[q] \in ResumeRecord /\ ResumeHolds(resumes[q], q, disk[5], records)
      BY Zenon, <1>1, <2>7 DEF ResumeInv
    <3>2. ResumeHolds(resumes[q], q, disk'[5], records')
      BY Zenon, <2>3, <3>1, HoldsStay
    <3> QED BY Zenon, <2>8, <2>9, <3>2
  <2>11. ASSUME NEW d \in Deliveries, started[d] = 1
         PROVE  Claimed(disk'[5], d) /\ \A q \in Resumers : ~OnTheWay(resumes'[q], d)
    <3>1. Claimed(disk[5], d) /\ \A q \in Resumers : ~OnTheWay(resumes[q], d)
      BY Zenon, <1>1, <2>11 DEF ResumeInv
    <3>2. Claimed(disk'[5], d) /\ d # c
      BY ZenonT(60), <2>1, <2>2, <2>3, <3>1 DEF Grows
    <3>3. ~OnTheWay(at, d)
      BY Zenon, <2>6, <3>2 DEF OnTheWay
    <3> QED BY ZenonT(60), <2>8, <3>1, <3>2, <3>3
  <2>12. ResumeInv'
    BY ZenonT(60), <1>1, <1>2, <2>3, <2>8, <2>10, <2>11 DEF ResumeInv
  <2> QED BY <2>3, <2>4, <2>12 DEF WorkersInv
<1> QED BY Zenon, <1>3, <1>4 DEF ResumeClaim

LEMMA RunningInv ==
    ASSUME WorkersInv, NEW r \in Resumers, ResumeRunning(r)
    PROVE  WorkersInv'
<1>1. StoreInv /\ MemoryKept /\ WorkerInv /\ ResumeInv
  BY DEF WorkersInv, StoreInv
<1> DEFINE c == resumes[r].delivery
<1>2. /\ up /\ UNCHANGED process /\ resumes[r].phase = "claimed" /\ UNCHANGED <<workers, started>>
      /\ \/ /\ MarkRunning(c, r) /\ ContinuationWritten
            /\ resumes' = [resumes EXCEPT ![r] = At("running", c)]
         \/ ContinuationUndone /\ resumes' = [resumes EXCEPT ![r] = Idle]
  BY Zenon DEF ResumeRunning
<1>3. c \in Handed
  BY Zenon, <1>1, <1>2, ResumerFacts
<1>4. /\ At("running", c) \in ResumeRecord /\ Idle \in ResumeRecord
      /\ StaysResume(resumes[r], At("running", c), records')
  BY Zenon, <1>2, <1>3, ResumeRecords DEF StaysResume
<1> HIDE DEF c
<1>5. CASE /\ MarkRunning(c, r) /\ ContinuationWritten
           /\ resumes' = [resumes EXCEPT ![r] = At("running", c)]
  <2>1. Steady
    BY <1>1, <1>2, <1>5, RunningMoves, ContinuationSteady
  <2> QED BY ZenonT(60), <1>2, <1>4, <1>5, <2>1, ResumeStep
<1>6. CASE ContinuationUndone /\ resumes' = [resumes EXCEPT ![r] = Idle]
  <2>1. Steady
    BY <1>1, <1>2, <1>6, UntouchedSteady
  <2> QED BY ZenonT(60), <1>2, <1>4, <1>6, <2>1, ResumeStep
<1> QED BY ZenonT(60), <1>2, <1>5, <1>6

\* Query, a pause, and the reading of the outcome: the mailbox is left alone.
LEMMA ReadingInv ==
    ASSUME WorkersInv, NEW r \in Resumers, ResumeCheck(r) \/ ResumePause(r) \/ ResumeRead(r)
    PROVE  WorkersInv'
<1>1. StoreInv /\ MemoryKept /\ WorkerInv /\ ResumeInv
  BY DEF WorkersInv, StoreInv
<1> DEFINE c == resumes[r].delivery
<1>2. /\ up /\ UNCHANGED <<mailboxState, storeState, process, workers, started>>
      /\ resumes[r].phase \in {"running", "handling", "settled"}
  BY Zenon DEF ResumeCheck, ResumePause, ResumeRead
<1>3. Steady
  BY Zenon, <1>1, <1>2, UntouchedSteady
<1>4. c \in Handed /\ c[1] \in Messages
  BY Zenon, <1>1, <1>2, ResumerFacts
<1>5. /\ At("checked", c) \in ResumeRecord /\ Idle \in ResumeRecord
      /\ resumes[r].phase = "running" => StaysResume(resumes[r], At("checked", c), records')
  <2>1. /\ At("checked", c) \in ResumeRecord /\ Idle \in ResumeRecord
        /\ At("checked", c).phase = "checked" /\ At("checked", c).delivery = resumes[r].delivery
    BY Zenon, <1>4, ResumeRecords
  <2> HIDE DEF c
  <2> QED BY Zenon, <2>1 DEF StaysResume
<1>6. CASE ResumeCheck(r)
  <2>1. /\ resumes[r].phase = "running"
        /\ \/ resumes' = [resumes EXCEPT ![r] = At("checked", c)]
           \/ resumes' = [resumes EXCEPT ![r] = Idle]
    BY Zenon, <1>6 DEF ResumeCheck
  <2> HIDE DEF c
  <2> QED BY ZenonT(60), <1>2, <1>3, <1>5, <2>1, ResumeStep
<1>7. CASE ResumePause(r)
  <2>1. resumes' = [resumes EXCEPT ![r] = Idle]
    BY Zenon, <1>7 DEF ResumePause
  <2> QED BY ZenonT(60), <1>2, <1>3, <1>5, <2>1, ResumeStep
<1>8. CASE ResumeRead(r)
  <2>1. PICK answer \in QueryAnswers(c[1]) :
          resumes' = [resumes EXCEPT ![r] = [phase |-> "read", delivery |-> c,
                                             outcome |-> answer.state]]
    <3>1. resumes \in [Resumers -> ResumeRecord]
      BY Zenon, <1>1 DEF ResumeInv
    <3> QED BY Zenon, <1>8, <3>1 DEF ResumeRead
  <2> HIDE DEF c
  <2> DEFINE at == [phase |-> "read", delivery |-> c, outcome |-> answer.state]
  <2>2. /\ answer.state \in MessageStates
        /\ answer.state \in Settled => records[c[1]].state = answer.state
    <3>1. CASE answer = View(records)[c[1]]
      <4>1. records \in [Messages -> MailboxRecord]
        BY Zenon, <1>1 DEF MemoryKept, Kept, Mailed
      <4>2. answer.state = records[c[1]].state
        BY ZenonT(60), <1>4, <3>1, <4>1, ViewTrue
      <4> QED BY Zenon, <1>4, <4>1, <4>2 DEF MailboxRecord
    <3>2. CASE answer = cached[c[1]]
      BY Zenon, <1>1, <1>4, <3>2 DEF StoreInv, CacheTrue, CachedRecord
    <3> QED BY Zenon, <3>1, <3>2 DEF QueryAnswers
  <2>3. at \in ResumeRecord
    BY Zenon, <1>4, <2>2 DEF ResumeRecord
  <2>4. records' = records
    BY Zenon, <1>2 DEF mailboxState
  <2>5. StaysResume(resumes[r], at, records')
    BY ZenonT(60), <1>2, <2>2, <2>4 DEF StaysResume, c
  <2>6. resumes' = [resumes EXCEPT ![r] = at]
    BY Zenon, <2>1
  <2> HIDE DEF at
  <2> QED BY ZenonT(60), <1>2, <1>3, <2>3, <2>5, <2>6, ResumeStep
<1> QED BY <1>6, <1>7, <1>8

LEMMA ResumeHeartbeatInv ==
    ASSUME WorkersInv, NEW r \in Resumers, ResumeHeartbeat(r)
    PROVE  WorkersInv'
<1>1. StoreInv /\ WorkerInv /\ ResumeInv
  BY DEF WorkersInv
<1> DEFINE m == resumes[r].delivery[1]
           w == continuations[resumes[r].delivery].consumer
           b == ~RequireInflight(m, w) \/ failures' > failures
<1>2. /\ up /\ UNCHANGED process /\ resumes[r].phase = "handling" /\ HandlerHeartbeat(m, w)
      /\ resumes' = [resumes EXCEPT ![r].lost = b]
      /\ UNCHANGED <<workers, started>>
  BY Zenon DEF ResumeHeartbeat
<1>3. m \in Messages /\ resumes[r] \in HandlingRecord
  BY <1>1, <1>2, ResumerFacts
<1>4. b \in BOOLEAN
  BY Zenon
<1> HIDE DEF b, w, m
<1>5. Steady
  BY ZenonT(60), <1>1, <1>2, <1>3, HeartbeatSteady
<1> DEFINE at == MarkedLost(resumes[r], b)
<1>6. resumes \in [Resumers -> ResumeRecord]
  BY <1>1 DEF ResumeInv
<1>7. resumes' = [resumes EXCEPT ![r] = at]
  BY ZenonT(60), <1>2, <1>6 DEF MarkedLost
<1>8. at \in HandlingRecord /\ at.phase = resumes[r].phase /\ at.delivery = resumes[r].delivery
  BY <1>3, <1>4, MarkedLostFacts
<1> HIDE DEF at
<1>9. at \in ResumeRecord /\ StaysResume(resumes[r], at, records')
  BY <1>2, <1>8 DEF ResumeRecord, StaysResume
<1> QED BY ZenonT(60), <1>2, <1>5, <1>7, <1>9, ResumeStep

LEMMA ResumeSettleInv ==
    ASSUME WorkersInv, NEW r \in Resumers, NEW ok \in BOOLEAN, ResumeSettle(r, ok)
    PROVE  WorkersInv'
<1>1. StoreInv /\ WorkerInv /\ ResumeInv
  BY DEF WorkersInv
<1> DEFINE c == resumes[r].delivery
           w == continuations[c].consumer
<1>2. /\ up /\ UNCHANGED process /\ resumes[r].phase = "handling"
      /\ \/ (Settle(c[1], w, ok) \/ UNCHANGED mailboxState) /\ (PersistOK \/ PersistError)
         \/ SettleRefused(c[1], w, ok) /\ UNCHANGED storeState
      /\ \/ resumes' = [resumes EXCEPT ![r] = At("settled", c)]
         \/ resumes' = [resumes EXCEPT ![r] = Idle]
      /\ UNCHANGED <<workers, started>>
  BY Zenon DEF ResumeSettle
<1>3. c \in Handed /\ c[1] \in Messages
  BY ZenonT(60), <1>1, <1>2, ResumerFacts
<1>4. /\ At("settled", c) \in ResumeRecord /\ Idle \in ResumeRecord
      /\ StaysResume(resumes[r], At("settled", c), records')
  BY ZenonT(60), <1>2, <1>3, ResumeRecords DEF StaysResume
<1> HIDE DEF w, c
<1>5. Steady
  BY ZenonT(60), <1>1, <1>2, <1>3, SettleSteady
<1> QED BY ZenonT(60), <1>2, <1>4, <1>5, ResumeStep

LEMMA CommitInv ==
    ASSUME WorkersInv, NEW r \in Resumers, ResumeCommit(r)
    PROVE  WorkersInv'
<1>1. StoreInv /\ MemoryKept /\ WorkerInv /\ ResumeInv
  BY DEF WorkersInv, StoreInv
<1> DEFINE c == resumes[r].delivery
           o == resumes[r].outcome
<1>2. /\ up /\ UNCHANGED process /\ resumes[r].phase = "read"
      /\ (CommitResult(c, r, o) /\ ContinuationWritten) \/ ContinuationUndone
      /\ resumes' = [resumes EXCEPT ![r] = Idle]
      /\ UNCHANGED <<workers, started>>
  BY Zenon DEF ResumeCommit
<1>3. c \in Handed /\ o \in MessageStates /\ Idle \in ResumeRecord
  BY Zenon, <1>1, <1>2, ResumerFacts DEF ResumeRecord
<1>4. o \in Settled => records[c[1]].state = o
  BY Zenon, <1>1, <1>2 DEF ResumeInv, ResumeHolds
<1> HIDE DEF c, o
<1>5. Steady
  <2>1. CASE CommitResult(c, r, o) /\ ContinuationWritten
    BY ZenonT(60), <1>1, <1>2, <1>3, <1>4, <2>1, CommitMoves, ContinuationSteady
  <2>2. CASE ContinuationUndone
    BY ZenonT(60), <1>1, <1>2, <2>2, UntouchedSteady
  <2> QED BY Zenon, <1>2, <2>1, <2>2
<1> QED BY ZenonT(60), <1>2, <1>3, <1>5, ResumeStep

\* The handler is entered by the only call on its way to it, which is then not.
LEMMA EnterInv ==
    ASSUME WorkersInv, NEW r \in Resumers, ResumeEnter(r)
    PROVE  WorkersInv'
<1>1. StoreInv /\ MemoryKept /\ WorkerInv /\ ResumeInv
  BY Zenon DEF WorkersInv, StoreInv
<1> DEFINE c == resumes[r].delivery
           w == continuations[c].consumer
<1>2. /\ up /\ UNCHANGED <<process, workers>> /\ resumes[r].phase = "checked"
      /\ \/ Heartbeat(c[1], w) /\ (PersistOK \/ PersistError)
         \/ UNCHANGED <<mailboxState, storeState>>
      /\ \/ /\ resumes' = [resumes EXCEPT ![r] = Handling(c)]
            /\ started' = [started EXCEPT ![c] = @ + 1]
         \/ resumes' = [resumes EXCEPT ![r] = Idle] /\ UNCHANGED started
  BY Zenon DEF ResumeEnter
<1>3. c \in Handed /\ c[1] \in Messages /\ Idle \in ResumeRecord
  BY Zenon, <1>1, <1>2, ResumerFacts DEF ResumeRecord
<1>4. /\ Claimed(disk[5], c) /\ disk[5][c].identity = r
      /\ \A q \in Resumers : OnTheWay(resumes[q], c) => q = r
      /\ OnTheWay(resumes[r], c)
  <2>1. ResumeHolds(resumes[r], r, disk[5], records)
    BY Zenon, <1>1 DEF ResumeInv
  <2>2. Claimed(disk[5], c) /\ disk[5][c].identity = r
    <3>1. resumes[r].phase # "idle"
      BY Zenon, <1>2
    <3> QED BY Zenon, <2>1, <3>1 DEF ResumeHolds
  <2>3. OnTheWay(resumes[r], c)
    BY Zenon, <1>2 DEF OnTheWay
  <2>4. ASSUME NEW q \in Resumers, OnTheWay(resumes[q], c) PROVE q = r
    <3>1. ResumeHolds(resumes[q], q, disk[5], records)
      BY Zenon, <1>1 DEF ResumeInv
    <3>2. resumes[q].phase # "idle" /\ resumes[q].delivery = c
      BY Zenon, <2>4 DEF OnTheWay
    <3>3. disk[5][c].identity = q
      BY Zenon, <3>1, <3>2 DEF ResumeHolds
    <3> QED BY Zenon, <2>2, <3>3
  <2> QED BY Zenon, <2>2, <2>3, <2>4
<1> HIDE DEF w, c
<1>5. Steady
  <2>1. CASE Heartbeat(c[1], w) /\ (PersistOK \/ PersistError)
    BY ZenonT(60), <1>1, <1>2, <1>3, <2>1, HeartbeatOperates, OperationSteady
  <2>2. CASE UNCHANGED <<mailboxState, storeState>>
    BY <1>1, <1>2, <2>2, UntouchedSteady
  <2> QED BY Zenon, <1>2, <2>1, <2>2
<1>6. StoreInv' /\ up' /\ Moves(records, records', {}) /\ Grows(disk[5], disk'[5])
  BY <1>5 DEF Steady
<1>7. CASE resumes' = [resumes EXCEPT ![r] = Idle] /\ UNCHANGED started
  BY ZenonT(60), <1>2, <1>3, <1>5, <1>7, ResumeStep
<1>8. CASE /\ resumes' = [resumes EXCEPT ![r] = Handling(c)]
           /\ started' = [started EXCEPT ![c] = @ + 1]
  <2> DEFINE at == Handling(c)
  <2>1. at \in ResumeRecord /\ at.phase = "handling" /\ at.delivery = c
    BY ZenonT(60), <1>3, ResumeRecords
  <2> HIDE DEF at
  <2>2. resumes \in [Resumers -> ResumeRecord] /\ started \in [Deliveries -> {0, 1}]
    BY ZenonT(60), <1>1 DEF ResumeInv
  <2>3. /\ resumes' \in [Resumers -> ResumeRecord]
        /\ \A q \in Resumers : resumes'[q] = IF q = r THEN at ELSE resumes[q]
    BY <1>8, <2>1, <2>2 DEF at
  <2>4. Claimed(disk'[5], c) /\ disk'[5][c].identity = r
    BY ZenonT(60), <1>4, <1>6 DEF Grows
  <2>5. ResumeHolds(at, r, disk'[5], records')
    BY ZenonT(60), <2>1, <2>4 DEF ResumeHolds
  <2>6. ASSUME NEW q \in Resumers PROVE ResumeHolds(resumes'[q], q, disk'[5], records')
    <3>1. resumes[q] \in ResumeRecord /\ ResumeHolds(resumes[q], q, disk[5], records)
      BY ZenonT(60), <1>1, <2>2 DEF ResumeInv
    <3>2. ResumeHolds(resumes[q], q, disk'[5], records')
      BY ZenonT(60), <1>6, <3>1, HoldsStay
    <3> QED BY ZenonT(60), <2>3, <2>5, <3>2
  <2>7. c \in Deliveries => started[c] = 0
    BY ZenonT(60), <1>1, <1>4, <2>2 DEF ResumeInv
  <2>8. /\ started' \in [Deliveries -> {0, 1}]
        /\ \A d \in Deliveries : d # c => started'[d] = started[d]
    <3> DEFINE more == started[c] + 1
    <3>1. c \in Deliveries => more = 1
      BY <2>7
    <3>2. started' = [started EXCEPT ![c] = more]
      BY ZenonT(60), <1>8, <2>2
    <3> HIDE DEF more
    <3>3. \A d \in Deliveries : started'[d] = IF d = c THEN more ELSE started[d]
      BY ZenonT(60), <2>2, <3>2
    <3>4. \A d \in Deliveries : started'[d] \in {0, 1}
      <4>1. ASSUME NEW d \in Deliveries, d = c PROVE started'[d] \in {0, 1}
        BY Zenon, <3>1, <3>3, <4>1
      <4>2. ASSUME NEW d \in Deliveries, d # c PROVE started'[d] \in {0, 1}
        BY Zenon, <2>2, <3>3, <4>2
      <4> QED BY Zenon, <4>1, <4>2
    <3>5. started' = [d \in Deliveries |-> started'[d]]
      BY ZenonT(60), <2>2, <3>2
    <3> QED BY ZenonT(60), <3>3, <3>4, <3>5
  <2>9. ASSUME NEW q \in Resumers PROVE ~OnTheWay(resumes'[q], c)
    <3>1. ~OnTheWay(at, c)
      BY <2>1 DEF OnTheWay
    <3> QED BY ZenonT(60), <1>4, <2>3, <3>1
  <2>10. ASSUME NEW d \in Deliveries, started'[d] = 1
         PROVE  Claimed(disk'[5], d) /\ \A q \in Resumers : ~OnTheWay(resumes'[q], d)
    <3>1. CASE d = c
      BY Zenon, <2>4, <2>9, <3>1
    <3>2. CASE d # c
      <4>1. Claimed(disk[5], d) /\ \A q \in Resumers : ~OnTheWay(resumes[q], d)
        BY Zenon, <1>1, <2>8, <2>10, <3>2 DEF ResumeInv
      <4>2. Claimed(disk'[5], d) /\ ~OnTheWay(at, d)
        BY Zenon, <1>6, <2>1, <3>2, <4>1 DEF Grows, OnTheWay
      <4> QED BY ZenonT(60), <2>3, <4>1, <4>2
    <3> QED BY Zenon, <3>1, <3>2
  <2>11. ResumeInv'
    BY ZenonT(60), <1>6, <2>3, <2>6, <2>8, <2>10 DEF ResumeInv
  <2>12. WorkerInv'
    BY ZenonT(60), <1>1, <1>2, <1>6, WorkersSame
  <2> QED BY ZenonT(60), <1>6, <2>11, <2>12 DEF WorkersInv
<1> QED BY <1>2, <1>7, <1>8

-----------------------------------------------------------------------------
(* Flush, crash, restart, time *)

\* A state in which nobody runs.
LEMMA NobodyRuns ==
    ASSUME ResumeInv, StoreInv', workers' = [w \in Workers |-> Idle],
           resumes' = [r \in Resumers |-> Idle], started' = started, Grows(disk[5], disk'[5])
    PROVE  WorkersInv'
<1>1. /\ \A w \in Workers : workers'[w] = Idle
      /\ \A r \in Resumers : resumes'[r] = Idle
  OBVIOUS
<1>2. WorkerInv'
  BY Zenon, <1>1 DEF WorkerInv, Owns, Idle
<1>3. ASSUME NEW r \in Resumers
      PROVE  /\ ResumeHolds(resumes'[r], r, disk'[5], records')
             /\ \A c \in Deliveries : ~OnTheWay(resumes'[r], c)
  BY Zenon, <1>1, <1>3 DEF ResumeHolds, OnTheWay, Idle
<1>4. /\ started' \in [Deliveries -> {0, 1}]
      /\ \A c \in Deliveries : started'[c] = 1 => Claimed(disk'[5], c)
  <2>1. /\ started \in [Deliveries -> {0, 1}]
        /\ \A c \in Deliveries : started[c] = 1 => Claimed(disk[5], c)
    BY Zenon DEF ResumeInv
  <2>2. \A c \in Deliveries : Claimed(disk[5], c) => Claimed(disk'[5], c)
    BY Zenon DEF Grows
  <2> QED BY Zenon, <2>1, <2>2
<1>5. resumes' \in [Resumers -> ResumeRecord]
  BY Zenon DEF ResumeRecord
<1>6. ResumeInv'
  BY Zenon, <1>1, <1>3, <1>4, <1>5 DEF ResumeInv
<1> QED BY <1>2, <1>6 DEF WorkersInv

LEMMA NobodyRan ==
    ASSUME WorkerInv, ResumeInv, ~up
    PROVE  workers = [w \in Workers |-> Idle] /\ resumes = [r \in Resumers |-> Idle]
BY Zenon DEF WorkerInv, ResumeInv

LEMMA FlushInv ==
    ASSUME WorkersInv, Flush
    PROVE  WorkersInv'
<1>1. StoreInv' /\ up' = up /\ Moves(records, records', {}) /\ disk'[5] = disk[5]
  BY Zenon, FlushStored DEF WorkersInv
<1>2. up /\ UNCHANGED <<workers, resumes, started>>
  BY Zenon DEF Flush
<1>3. Steady
  BY Zenon, <1>1, <1>2 DEF Steady, Grows
<1> QED BY <1>2, <1>3, HostStep

LEMMA RestartInv ==
    ASSUME WorkersInv, Crash \/ Reopen
    PROVE  WorkersInv'
<1>1. StoreInv' /\ disk' = disk
  BY CrashStored, ReopenStored DEF WorkersInv
<1>2. Grows(disk[5], disk'[5])
  BY <1>1 DEF Grows
<1>3. started' = started
  BY Zenon DEF Crash, Reopen
<1>4. workers' = [w \in Workers |-> Idle] /\ resumes' = [r \in Resumers |-> Idle]
  <2>1. CASE Crash
    BY Zenon, <2>1 DEF Crash, NothingRunning
  <2>2. CASE Reopen
    <3>1. ~up /\ workers' = workers /\ resumes' = resumes
      BY Zenon, <2>2 DEF Reopen
    <3> QED BY <3>1, NobodyRan DEF WorkersInv
  <2> QED BY <2>1, <2>2
<1> QED BY ZenonT(60), <1>1, <1>2, <1>3, <1>4, NobodyRuns DEF WorkersInv

LEMMA TickInv ==
    ASSUME WorkersInv, WorkersTick
    PROVE  WorkersInv'
<1>1. /\ StoreInv' /\ up' = up /\ Moves(records, records', {})
      /\ disk'[5] = ElapsedContinuations(disk[5])
  BY Zenon, TickStored DEF WorkersInv
<1>2. ContinuationsTrue(disk[5], disk[1])
  BY Zenon DEF WorkersInv, StoreInv, DiskKept, Kept
<1>3. Grows(disk[5], disk'[5])
  BY ZenonT(60), <1>1, <1>2, ElapsedGrows
<1>4. UNCHANGED <<workers, resumes, started>>
  BY Zenon DEF WorkersTick
<1>5. CASE up
  BY ZenonT(60), <1>1, <1>3, <1>4, <1>5, HostStep DEF Steady
<1>6. CASE ~up
  <2>1. workers' = [w \in Workers |-> Idle] /\ resumes' = [r \in Resumers |-> Idle]
    BY <1>4, <1>6, NobodyRan DEF WorkersInv
  <2> QED BY ZenonT(60), <1>1, <1>3, <1>4, <2>1, NobodyRuns DEF WorkersInv
<1> QED BY <1>5, <1>6

LEMMA WorkersInitially == WorkersInit => WorkersInv
<1> SUFFICES ASSUME WorkersInit PROVE WorkersInv
  OBVIOUS
<1>1. StoreInv
  BY StoreInitially
<1>2. /\ workers = [w \in Workers |-> Idle] /\ resumes = [r \in Resumers |-> Idle]
      /\ started = [c \in Deliveries |-> 0] /\ up = TRUE
  BY Zenon DEF WorkersInit
<1>3. WorkerInv
  BY Zenon, <1>2 DEF WorkerInv, Owns, Idle
<1>4. \A r \in Resumers : resumes[r] = Idle /\ ResumeHolds(resumes[r], r, disk[5], records)
  BY Zenon, <1>2 DEF ResumeHolds, Idle
<1>5. ResumeInv
  <2>1. Idle \in ResumeRecord
    BY Zenon DEF ResumeRecord
  <2>2. resumes \in [Resumers -> ResumeRecord]
    BY Zenon, <1>2, <2>1
  <2>3. started \in [Deliveries -> {0, 1}] /\ \A c \in Deliveries : started[c] # 1
    BY <1>2
  <2> QED BY ZenonT(60), <1>2, <1>4, <2>2, <2>3 DEF ResumeInv
<1> QED BY <1>1, <1>3, <1>5 DEF WorkersInv

LEMMA WorkersStutter ==
    ASSUME WorkersInv, UNCHANGED allVars
    PROVE  WorkersInv'
<1>1. /\ UNCHANGED <<records, queue, idempotency, history, continuations>>
      /\ UNCHANGED <<disk, pending, committed, persistFailed, cached>>
      /\ UNCHANGED <<up, workers, resumes, started>>
  BY Zenon DEF allVars, mailboxState, storeState, process
<1>2. StoreInv'
  BY ZenonT(60), <1>1 DEF WorkersInv, StoreInv, MemoryKept, DiskKept, CacheTrue, WrittenHistory
<1>3. WorkerInv' /\ ResumeInv'
  BY Zenon, <1>1 DEF WorkersInv, WorkerInv, ResumeInv
<1> QED BY <1>2, <1>3 DEF WorkersInv

LEMMA WorkersStep == WorkersInv /\ [WorkersNext]_allVars => WorkersInv'
<1> SUFFICES ASSUME WorkersInv, [WorkersNext]_allVars PROVE WorkersInv'
  OBVIOUS
<1>1. CASE \E m \in Messages : \/ \E k \in Keys : HostPublish(m, k)
                               \/ HostRequeue(m)
                               \/ \E w \in Workers : WorkerConsume(w, m)
  BY ZenonT(60), <1>1, PublishInv, HostRequeueInv, ConsumeInv
<1>2. ASSUME NEW w \in Workers,
             \/ WorkerConsumeNone(w)
             \/ WorkerHeartbeat(w)
             \/ \E ok \in BOOLEAN : WorkerSettle(w, ok)
             \/ WorkerPause(w)
      PROVE  WorkersInv'
  BY ZenonT(60), <1>2, ConsumeNoneInv, WorkerHeartbeatInv, WorkerEndInv
<1>3. ASSUME NEW r \in Resumers,
             \/ \E c \in Deliveries : ResumeClaim(r, c)
             \/ ResumeRunning(r)
             \/ ResumeCheck(r) \/ ResumePause(r) \/ ResumeRead(r)
             \/ ResumeEnter(r)
             \/ ResumeHeartbeat(r)
             \/ \E ok \in BOOLEAN : ResumeSettle(r, ok)
             \/ ResumeCommit(r)
      PROVE  WorkersInv'
  BY ZenonT(60), <1>3, ClaimInv, RunningInv, ReadingInv, EnterInv, ResumeHeartbeatInv,
     ResumeSettleInv, CommitInv
<1>4. CASE Flush \/ Crash \/ Reopen \/ WorkersTick
  BY ZenonT(60), <1>4, FlushInv, RestartInv, TickInv
<1>5. CASE UNCHANGED allVars
  BY <1>5, WorkersStutter
<1> QED BY ZenonT(60), <1>1, <1>2, <1>3, <1>4, <1>5 DEF WorkersNext

LEMMA WorkersInvariant == WorkersSpec => []WorkersInv
BY WorkersInitially, WorkersStep, PTL DEF WorkersSpec

-----------------------------------------------------------------------------
(* Theorems *)

\* Whatever moment the process dies at, and however many operations the file is
\* behind, NewFileStore accepts it, and the mailbox it opens has each queued
\* message once in its queue and within its deliveries.
THEOREM MailboxSurvivesRestart == WorkersSpec => []SurvivesRestart
<1>1. ASSUME WorkersInv PROVE SurvivesRestart
  <2>1. MemoryKept /\ DiskKept
    BY Zenon, <1>1 DEF WorkersInv, StoreInv
  <2>2. QueueIsTheQueued /\ DeliveriesBounded
    <3>1. QueueOf(queue, records) /\ \A m \in Messages : BoundedIn(records[m])
      BY Zenon, <2>1 DEF MemoryKept, Kept, Mailed
    <3> QED BY Zenon, <3>1 DEF QueueOf, BoundedIn, QueueIsTheQueued, DeliveriesBounded
  <2>3. SnapshotAccepted(disk)
    <3>1. /\ disk[1] \in [Messages -> MailboxRecord] /\ disk[4] \in Histories
          /\ QueueOf(disk[2], disk[1]) /\ Told(disk[4], disk[1]) /\ KeysKnown(disk[3], disk[1])
      BY ZenonT(60), <2>1 DEF DiskKept, Kept, Mailed
    <3> DEFINE rs == disk[1]
               q  == disk[2]
               h  == disk[4]
    <3>2. /\ \A i \in 1..Len(q) : q[i] \in Messages /\ rs[q[i]].state = "queued"
          /\ \A i, j \in 1..Len(q) : q[i] = q[j] => i = j
      BY <3>1 DEF QueueOf
    <3>3. \A k \in DOMAIN disk[3] : rs[disk[3][k]].state # "absent"
      BY Zenon, <3>1 DEF KeysKnown
    <3>4. /\ h.floor \in Nat /\ h.sequence \in Nat /\ Len(h.entries) \in Nat
          /\ Len(h.entries) <= Retention
          /\ h.sequence = h.floor + Len(h.entries)
          /\ \A i \in 1..Len(h.entries) : h.entries[i].sequence = h.floor + i
      BY ZenonT(60), <3>1, ToldFacts
    <3> HIDE DEF rs, q, h
    <3>5. h.floor <= h.sequence
      BY <3>4
    <3>6. ASSUME NEW i \in 1..Len(h.entries)
          PROVE  /\ h.entries[i].sequence <= h.sequence
                 /\ (IF i = 1 THEN h.floor ELSE h.entries[i - 1].sequence) < h.entries[i].sequence
      <4> DEFINE before == h.entries[i - 1].sequence
      <4>1. h.entries[i].sequence = h.floor + i
        BY Zenon, <3>4
      <4>2. i # 1 => i - 1 \in 1..Len(h.entries)
        BY <3>4
      <4>3. i # 1 => before = h.floor + (i - 1)
        BY ZenonT(60), <3>4, <4>2
      <4> HIDE DEF before
      <4> QED BY <3>4, <4>1, <4>3 DEF before
    <3> QED BY ZenonT(60), <3>2, <3>3, <3>4, <3>5, <3>6 DEF SnapshotAccepted, rs, q, h
  <2> QED BY <2>2, <2>3 DEF SurvivesRestart
<1> QED BY <1>1, WorkersInvariant, PTL

\* A history that ReadAfter serves has no gap, agrees with the messages and is
\* in the file, whatever writes failed before.
THEOREM ServedHistoryIsDurable == WorkersSpec => []ReadableHistoryIsDurable
<1>1. ASSUME WorkersInv PROVE ReadableHistoryIsDurable
  <2>1. MemoryKept /\ WrittenHistory
    BY Zenon, <1>1 DEF WorkersInv, StoreInv
  <2>2. HistoryIsFaithful
    BY ZenonT(60), <2>1 DEF MemoryKept, Kept, Mailed, Told, HistoryIsFaithful
  <2> QED BY Zenon, <2>1, <2>2 DEF WrittenHistory, ReadableHistoryIsDurable
<1> QED BY <1>1, WorkersInvariant, PTL

\* A worker that requireInflightRecord lets settle its message has the delivery
\* that it was given, though only consumer ids are compared.
THEOREM WorkersOwnDeliveries == WorkersSpec => []WorkerOwnsDelivery
<1>1. ASSUME WorkersInv PROVE WorkerOwnsDelivery
  <2> SUFFICES ASSUME NEW w \in Workers, workers[w].phase = "handling",
                      RequireInflight(workers[w].delivery[1], w)
               PROVE  records[workers[w].delivery[1]].attempt = workers[w].delivery[2]
    BY Zenon DEF WorkerOwnsDelivery
  <2> DEFINE c == workers[w].delivery
  <2>1. records[c[1]].state = "in_flight" /\ records[c[1]].consumer = w
    BY ZenonT(60), MailboxIdsAssumption DEF RequireInflight
  <2>2. Owns(workers[w], w, records)
    BY <1>1 DEF WorkersInv, WorkerInv
  <2> QED BY Zenon, <2>1, <2>2 DEF Owns
<1> QED BY <1>1, WorkersInvariant, PTL

\* Claims make the resume calls of a delivery enter its handler at most once,
\* across crashes, failed writes and repeated requests.
THEOREM PausedOnceResumedOnce == WorkersSpec => []ResumedOnce
<1>1. ASSUME WorkersInv PROVE ResumedOnce
  <2>1. started \in [Deliveries -> {0, 1}]
    BY ZenonT(60), <1>1 DEF WorkersInv, ResumeInv
  <2> QED BY <2>1 DEF ResumedOnce
<1> QED BY <1>1, WorkersInvariant, PTL

\* A committed result that says the message is settled is the message's state,
\* in memory and after every restart.
THEOREM CommittedResultIsTrue == WorkersSpec => []ResultIsTrue
<1>1. ASSUME WorkersInv PROVE ResultIsTrue
  BY Zenon, <1>1 DEF WorkersInv, StoreInv, MemoryKept, Kept, ContinuationsTrue, ResultIsTrue
<1> QED BY <1>1, WorkersInvariant, PTL
=============================================================================
