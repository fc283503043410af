---------------------------- MODULE MailboxProofs ----------------------------
(***************************************************************************)
(* The properties of Mailbox, for any messages, consumers, policies and    *)
(* retention.                                                              *)
(*                                                                         *)
(* QueueIsTheQueued and HistoryIsFaithful are about every message at once, *)
(* and consume expires and takes back any number of them before it         *)
(* delivers one.  What the sweep does to the queue and to the journal is   *)
(* therefore shown first, from what sorting and filtering do to a list;    *)
(* the actions then differ only in the records they change and the events  *)
(* they append.                                                            *)
(*                                                                         *)
(* Last comes what no operation takes back, of a message, an idempotency   *)
(* key and a continuation.                                                 *)
(***************************************************************************)
EXTENDS Mailbox, TLAPS

USE SMTT(30)

MessageStates == {"absent", "queued", "in_flight", "nacked"} \cup Settled

MailboxRecord ==
    [state : MessageStates, consumer : Workers \cup {NoOne}, attempt : Nat,
     lease : Nat, eligible : Nat, notBefore : Nat, ttl : Nat]

Entries == [sequence : Nat, message : Messages, state : MessageStates]
Histories == [sequence : Nat, floor : Nat, entries : Seq(Entries)]
Events == Messages \X MessageStates

\* The queue lists the queued of the records rs, each once.
QueueOf(q, rs) ==
    /\ q \in Seq(Messages)
    /\ \A m \in Messages : rs[m].state = "queued" <=> \E i \in 1..Len(q) : q[i] = m
    /\ \A i, j \in 1..Len(q) : q[i] = q[j] => i = j

BoundedIn(rec) == rec.attempt <= MaxAttempts /\ (rec.state = "queued" => rec.attempt < MaxAttempts)

\* The journal h keeps the last events, and its last word on a message is the
\* state in rs.
Told(h, rs) ==
    /\ Len(h.entries) <= Retention
    /\ \A i \in 1..Len(h.entries) : h.entries[i].sequence = h.floor + i
    /\ h.sequence = h.floor + Len(h.entries)
    /\ \A i \in 1..Len(h.entries) :
          (\A j \in (i + 1)..Len(h.entries) : h.entries[j].message # h.entries[i].message)
             => h.entries[i].state = rs[h.entries[i].message].state

MailboxInv ==
    /\ records \in [Messages -> MailboxRecord]
    /\ history \in Histories
    /\ QueueOf(queue, records)
    /\ \A m \in Messages : BoundedIn(records[m])
    /\ Told(history, records)

-----------------------------------------------------------------------------
(* Sorting and filtering *)

\* A sorted list has each element of its set once.
LEMMA AscendingFacts ==
    ASSUME NEW R, R \subseteq Nat, NEW s \in Ascending(R)
    PROVE  /\ s \in Seq(R)
           /\ \A t \in R : \E i \in 1..Len(s) : s[i] = t
           /\ \A i, j \in 1..Len(s) : s[i] = s[j] => i = j
<1>1. s \in Seq(R)
  BY DEF Ascending
<1>3. Len(s) \in Nat /\ DOMAIN s = 1..Len(s)
  BY <1>1
<1>4. \A i, j \in 1..Len(s) : i < j => s[i] < s[j]
  BY Zenon, <1>3 DEF Ascending
<1>5. \A i \in 1..Len(s) : s[i] \in Nat
  <2>1. \A i \in 1..Len(s) : s[i] \in R
    BY <1>1
  <2> QED BY Zenon, <2>1
<1>6. ASSUME NEW i \in 1..Len(s), NEW j \in 1..Len(s), s[i] = s[j] PROVE i = j
  BY <1>3, <1>4, <1>5, <1>6
<1>7. \A t \in R : \E i \in 1..Len(s) : s[i] = t
  BY Zenon, <1>3 DEF Ascending
<1> QED BY <1>1, <1>6, <1>7

\* The loop that keeps the entries in S keeps each of them once.
LEMMA FilteredFacts ==
    ASSUME NEW M, NEW q \in Seq(M), NEW S, NEW f \in Filtered(q, S)
    PROVE  /\ f \in Seq(M)
           /\ \A j \in 1..Len(f) : f[j] \in S /\ \E i \in 1..Len(q) : f[j] = q[i]
           /\ \A i \in 1..Len(q) : q[i] \in S => \E j \in 1..Len(f) : f[j] = q[i]
           /\ (\A i, j \in 1..Len(q) : q[i] = q[j] => i = j)
                 => \A i, j \in 1..Len(f) : f[i] = f[j] => i = j
<1> DEFINE R == {i \in 1..Len(q) : q[i] \in S}
<1>1. PICK at \in Ascending(R) : f = [j \in 1..Len(at) |-> q[at[j]]]
  BY Zenon DEF Filtered
<1>2. Len(q) \in Nat /\ R \subseteq Nat
  OBVIOUS
<1>5. /\ at \in Seq(R)
      /\ \A t \in R : \E i \in 1..Len(at) : at[i] = t
      /\ \A i, j \in 1..Len(at) : at[i] = at[j] => i = j
  <2> HIDE DEF R
  <2> QED BY <1>1, <1>2, AscendingFacts, Zenon
<1>6. Len(at) \in Nat /\ \A j \in 1..Len(at) : at[j] \in 1..Len(q) /\ q[at[j]] \in S
  BY <1>5
<1>7. f \in Seq(M) /\ Len(f) = Len(at) /\ \A j \in 1..Len(f) : f[j] = q[at[j]]
  BY <1>1, <1>6
<1>8. \A i \in 1..Len(q) : q[i] \in S => \E j \in 1..Len(f) : f[j] = q[i]
  BY <1>5, <1>7
<1>9. ASSUME \A i, j \in 1..Len(q) : q[i] = q[j] => i = j,
             NEW i \in 1..Len(f), NEW j \in 1..Len(f), f[i] = f[j]
      PROVE  i = j
  <2>1. at[i] \in 1..Len(q) /\ at[j] \in 1..Len(q) /\ q[at[i]] = q[at[j]] /\ i \in 1..Len(at) /\ j \in 1..Len(at)
    BY Zenon, <1>6, <1>7, <1>9
  <2> QED BY Zenon, <1>5, <1>9, <2>1
<1> QED BY <1>6, <1>7, <1>8, <1>9

\* A queue without one of its entries.
LEMMA WithoutFacts ==
    ASSUME NEW M, NEW q \in Seq(M), NEW k \in 1..Len(q),
           \A i, j \in 1..Len(q) : q[i] = q[j] => i = j
    PROVE  /\ Without(q, k) \in Seq(M)
           /\ \A i \in 1..Len(Without(q, k)) :
                 \E j \in 1..Len(q) : j # k /\ Without(q, k)[i] = q[j]
           /\ \A j \in 1..Len(q) :
                 j # k => \E i \in 1..Len(Without(q, k)) : Without(q, k)[i] = q[j]
           /\ \A i, j \in 1..Len(Without(q, k)) : Without(q, k)[i] = Without(q, k)[j] => i = j
<1> DEFINE w == Without(q, k)
           from(i) == IF i < k THEN i ELSE i + 1
<1>1. Len(q) \in Nat /\ Len(q) - 1 \in Nat
  OBVIOUS
<1>2. w \in Seq(M) /\ Len(w) = Len(q) - 1
  BY <1>1 DEF Without
<1>3. \A i \in 1..Len(w) : w[i] = q[from(i)] /\ from(i) \in 1..Len(q) /\ from(i) # k
  BY <1>1, <1>2 DEF Without
<1>4. ASSUME NEW j \in 1..Len(q), j # k PROVE \E i \in 1..Len(w) : w[i] = q[j]
  <2>1. CASE j < k
    <3>1. j \in 1..Len(w) /\ from(j) = j
      BY <1>1, <1>2, <2>1
    <3> QED BY <1>3, <3>1
  <2>2. CASE j > k
    <3>1. j - 1 \in 1..Len(w) /\ from(j - 1) = j
      BY <1>1, <1>2, <2>2
    <3> QED BY <1>3, <3>1, Zenon
  <2> QED BY <1>4, <2>1, <2>2
<1>5. ASSUME NEW i \in 1..Len(w), NEW j \in 1..Len(w), w[i] = w[j] PROVE i = j
  <2>1. from(i) = from(j)
    <3> HIDE DEF from
    <3> QED BY ZenonT(60), <1>3, <1>5, SMTT(30)
  <2> QED BY <1>1, <1>2, <2>1
<1> HIDE DEF w, from
<1>6. \A i \in 1..Len(w) : \E j \in 1..Len(q) : j # k /\ w[i] = q[j]
  BY <1>3
<1> QED BY <1>2, <1>4, <1>5, <1>6, Zenon DEF w

-----------------------------------------------------------------------------
(* The journal *)

\* What is said of each message in events is, in the end, its state in rs.
LastWords(events, rs) ==
    \A i \in 1..Len(events) :
        (\A j \in (i + 1)..Len(events) : events[j][1] # events[i][1])
            => events[i][2] = rs[events[i][1]].state

\* The messages that are not in events have the state they had.
OthersKeep(events, old, new) ==
    \A m \in Messages : (\A i \in 1..Len(events) : events[i][1] # m) => new[m].state = old[m].state

\* Appending the events of a change keeps the journal true, whatever it drops.
LEMMA AppendHistoryTold ==
    ASSUME NEW h \in Histories, NEW events \in Seq(Events), NEW old, NEW new,
           Told(h, old), LastWords(events, new), OthersKeep(events, old, new)
    PROVE  AppendHistory(h, events) \in Histories /\ Told(AppendHistory(h, events), new)
<1> DEFINE L == Len(h.entries)
           E == Len(events)
           numbered == [i \in 1..E |-> [sequence |-> h.sequence + i, message |-> events[i][1],
                                        state |-> events[i][2]]]
           all  == h.entries \o numbered
           drop == IF Len(all) > Retention THEN Len(all) - Retention ELSE 0
           next == AppendHistory(h, events)
<1>1. /\ h.entries \in Seq(Entries) /\ h.floor \in Nat /\ h.sequence \in Nat
      /\ L \in Nat /\ E \in Nat /\ h.sequence = h.floor + L
  BY DEF Histories, Told
<1>2. \A i \in 1..E : events[i][1] \in Messages /\ events[i][2] \in MessageStates
  BY DEF Events
<1>3. numbered \in Seq(Entries) /\ Len(numbered) = E
  BY <1>1, <1>2 DEF Entries
<1>4. all \in Seq(Entries) /\ Len(all) = L + E
  BY <1>1, <1>3
<1>5. \A i \in 1..L : all[i] = h.entries[i]
  BY <1>1, <1>3
<1>6. \A i \in 1..E : /\ all[L + i].sequence = h.sequence + i
                      /\ all[L + i].message = events[i][1] /\ all[L + i].state = events[i][2]
  <2>1. \A i \in 1..E : all[L + i] = numbered[i]
    <3> HIDE DEF numbered
    <3> QED BY <1>1, <1>3, SMTT(30)
  <2> QED BY <2>1
<1>7. /\ next.entries = SubSeq(all, drop + 1, Len(all))
      /\ next.sequence = h.sequence + E
      /\ next.floor = IF drop > 0 THEN all[drop].sequence ELSE h.floor
      /\ next = [sequence |-> next.sequence, floor |-> next.floor, entries |-> next.entries]
  BY Zenon DEF AppendHistory
<1>8. drop \in 0..(L + E) /\ L + E - drop <= Retention
  BY <1>1, <1>4, MailboxPolicyAssumption
<1> HIDE DEF numbered, all, drop, next
<1>9. \A k \in 1..(L + E) : all[k].sequence = h.floor + k
  <2> TAKE k \in 1..(L + E)
  <2>1. CASE k <= L
    <3>1. k \in 1..L
      BY <1>1, <2>1
    <3>2. h.entries[k].sequence = h.floor + k
      BY <3>1 DEF Told
    <3> QED BY <1>5, <3>1, <3>2
  <2>2. CASE k > L
    <3>1. k - L \in 1..E /\ L + (k - L) = k
      BY <1>1, <2>2
    <3>2. all[k].sequence = h.sequence + (k - L)
      BY Zenon, <1>6, <3>1
    <3> QED BY <1>1, <3>2
  <2> QED BY <1>1, <2>1, <2>2
<1>10. next.floor = h.floor + drop
  BY <1>1, <1>7, <1>8, <1>9
<1>11. /\ next.entries \in Seq(Entries) /\ Len(next.entries) = L + E - drop
       /\ \A i \in 1..(L + E - drop) : next.entries[i] = all[drop + i]
  <2>1. \A i \in (drop + 1)..Len(all) : all[i] \in Entries
    BY <1>1, <1>4, <1>8
  <2>2. drop + 1 \in Int /\ Len(all) \in Int
    BY <1>1, <1>4, <1>8
  <2>3. /\ next.entries \in Seq(Entries)
        /\ Len(next.entries) = IF drop + 1 <= Len(all) THEN Len(all) - (drop + 1) + 1 ELSE 0
        /\ \A i \in 1..(Len(all) - (drop + 1) + 1) : next.entries[i] = all[drop + 1 + i - 1]
    <3> DEFINE s == SubSeq(all, drop + 1, Len(all))
    <3>1. /\ s \in Seq(Entries)
          /\ Len(s) = IF drop + 1 <= Len(all) THEN Len(all) - (drop + 1) + 1 ELSE 0
          /\ \A i \in 1..(Len(all) - (drop + 1) + 1) : s[i] = all[drop + 1 + i - 1]
      <4>1. ASSUME NEW a \in Int, NEW b \in Int, \A i \in a..b : all[i] \in Entries
            PROVE  /\ SubSeq(all, a, b) \in Seq(Entries)
                   /\ Len(SubSeq(all, a, b)) = IF a <= b THEN b - a + 1 ELSE 0
                   /\ \A i \in 1..(b - a + 1) : SubSeq(all, a, b)[i] = all[a + i - 1]
        BY <4>1
      <4> QED BY <2>1, <2>2, <4>1
    <3> QED BY <1>7, <3>1, Zenon
  <2>4. Len(next.entries) = L + E - drop
    <3>1. Len(next.entries) = IF drop + 1 <= Len(all) THEN Len(all) - (drop + 1) + 1 ELSE 0
      BY <2>3, Zenon
    <3> QED BY <1>1, <1>4, <1>8, <3>1
  <2>5. ASSUME NEW i \in 1..(L + E - drop) PROVE next.entries[i] = all[drop + i]
    <3>1. drop + 1 + i - 1 = drop + i /\ Len(all) - (drop + 1) + 1 = L + E - drop
      BY <1>1, <1>4, <1>8
    <3>2. next.entries[i] = all[drop + 1 + i - 1]
      BY Zenon, <2>3, <3>1
    <3> QED BY Zenon, <3>1, <3>2
  <2> QED BY <2>3, <2>4, <2>5
<1>12. next \in Histories
  <2>1. next.sequence \in Nat /\ next.floor \in Nat
    <3>1. next.sequence = h.sequence + E /\ next.floor = h.floor + drop /\ drop \in Nat
      BY <1>1, <1>7, <1>8, <1>10
    <3> QED BY <1>1, <3>1
  <2> QED BY <1>7, <1>11, <2>1, Zenon DEF Histories
<1>13. \A i \in 1..Len(next.entries) : next.entries[i].sequence = next.floor + i
  <2> TAKE i \in 1..Len(next.entries)
  <2>1. drop + i \in 1..(L + E) /\ next.entries[i] = all[drop + i]
    BY <1>1, <1>8, <1>11
  <2>2. all[drop + i].sequence = h.floor + (drop + i)
    BY <1>9, <2>1
  <2> QED BY <1>1, <1>8, <1>10, <2>1, <2>2
<1>14. next.sequence = next.floor + Len(next.entries)
  <2>1. Len(next.entries) = L + E - drop /\ next.sequence = h.sequence + E
    BY <1>7, <1>11
  <2> QED BY <1>1, <1>8, <1>10, <2>1
<1>15. ASSUME NEW i \in 1..Len(next.entries),
              \A j \in (i + 1)..Len(next.entries) : next.entries[j].message # next.entries[i].message
       PROVE  next.entries[i].state = new[next.entries[i].message].state
  <2> DEFINE k == drop + i
  <2>1. k \in 1..(L + E) /\ next.entries[i] = all[k]
    <3>1. i \in 1..(L + E - drop)
      BY <1>11
    <3>2. k \in 1..(L + E)
      BY <1>1, <1>8, <3>1
    <3> QED BY <1>11, <3>1, <3>2
  <2>2. \A j \in (k + 1)..(L + E) : all[j].message # all[k].message
    <3> TAKE j \in (k + 1)..(L + E)
    <3>1. j - drop \in (i + 1)..Len(next.entries) /\ drop + (j - drop) = j
      BY <1>1, <1>8, <1>11
    <3>2. next.entries[j - drop] = all[j]
      BY <1>1, <1>8, <1>11, <3>1
    <3> QED BY <1>15, <2>1, <3>1, <3>2
  <2> HIDE DEF k
  <2>3. CASE k > L
    <3> DEFINE e == k - L
    <3>1. e \in 1..E /\ L + e = k
      BY <1>1, <2>1, <2>3
    <3>2. all[k].message = events[e][1] /\ all[k].state = events[e][2]
      BY <1>6, <3>1
    <3>3. \A j \in (e + 1)..E : events[j][1] # events[e][1]
      <4> TAKE j \in (e + 1)..E
      <4>1. L + j \in (k + 1)..(L + E) /\ j \in 1..E
        BY <1>1, <3>1
      <4> QED BY <1>6, <2>2, <3>2, <4>1, Zenon
    <3> HIDE DEF e
    <3> QED BY Zenon, <2>1, <3>1, <3>2, <3>3 DEF LastWords
  <2>4. CASE k <= L
    <3>1. k \in 1..L
      BY <1>1, <2>1, <2>4
    <3>2. h.entries[k] \in Entries
      BY <1>1, <3>1
    <3>3. k \in 1..L /\ all[k] = h.entries[k] /\ all[k].message \in Messages
      BY <1>5, <3>1, <3>2 DEF Entries
    <3>4. \A j \in (k + 1)..L : h.entries[j].message # h.entries[k].message
      <4> TAKE j \in (k + 1)..L
      <4>1. j \in (k + 1)..(L + E) /\ j \in 1..L
        BY <1>1, <3>3
      <4> QED BY <1>5, <2>2, <3>3, <4>1
    <3>5. h.entries[k].state = old[h.entries[k].message].state
      BY <3>3, <3>4 DEF Told
    <3>6. \A j \in 1..E : events[j][1] # all[k].message
      <4> TAKE j \in 1..E
      <4>1. L + j \in (k + 1)..(L + E)
        BY <1>1, <3>3
      <4> QED BY Zenon, <1>6, <2>2, <4>1
    <3>7. new[all[k].message].state = old[all[k].message].state
      <4> DEFINE x == all[k].message
      <4>1. x \in Messages /\ \A j \in 1..E : events[j][1] # x
        BY <3>3, <3>6
      <4> HIDE DEF x
      <4> QED BY <4>1 DEF OthersKeep, x
    <3> QED BY <2>1, <3>3, <3>5, <3>7
  <2> QED BY <1>1, <2>1, <2>3, <2>4
<1>16. Told(next, new)
  BY <1>8, <1>11, <1>13, <1>14, <1>15 DEF Told
<1> QED BY <1>12, <1>16 DEF next

-----------------------------------------------------------------------------
(* The sweep *)

\* The assignments that put a record back into the queue, and those that end a delivery.
PutBack(rec, e) ==
    [rec EXCEPT !.state = "queued", !.consumer = NoOne, !.lease = 0, !.eligible = e]
Ended(rec, s) == [rec EXCEPT !.state = s, !.lease = 0]

\* Both keep the number of deliveries.
LEMMA RecordUpdates ==
    ASSUME NEW rec \in MailboxRecord
    PROVE  /\ \A e \in Nat : /\ PutBack(rec, e) \in MailboxRecord
                             /\ PutBack(rec, e).state = "queued"
                             /\ PutBack(rec, e).attempt = rec.attempt
           /\ \A s \in MessageStates : /\ Ended(rec, s) \in MailboxRecord
                                       /\ Ended(rec, s).state = s
                                       /\ Ended(rec, s).attempt = rec.attempt
<1>1. 0 \in Nat /\ NoOne \in Workers \cup {NoOne} /\ "queued" \in MessageStates
  BY DEF MessageStates
<1> QED BY <1>1, Zenon DEF MailboxRecord, PutBack, Ended

\* A delivery is counted.
LEMMA Delivery ==
    ASSUME NEW rec \in MailboxRecord, NEW w \in Workers
    PROVE  /\ Delivered(rec, w) \in MailboxRecord
           /\ Delivered(rec, w).state = "in_flight"
           /\ Delivered(rec, w).attempt = rec.attempt + 1
<1>1. /\ 0 \in Nat /\ w \in Workers \cup {NoOne} /\ "in_flight" \in MessageStates
      /\ InflightTimeout \in Nat
  BY MailboxPolicyAssumption DEF MessageStates
<1>2. rec.attempt + 1 \in Nat
  BY DEF MailboxRecord
<1> QED BY <1>1, <1>2, Zenon DEF MailboxRecord, Delivered

\* What requeue makes of a record.
LEMMA RequeuedFacts ==
    ASSUME NEW rec \in MailboxRecord, NEW delay \in Nat, rec.attempt <= MaxAttempts
    PROVE  /\ Requeued(rec, delay) \in MailboxRecord
           /\ Requeued(rec, delay).state = RequeueState(rec)
           /\ BoundedIn(Requeued(rec, delay))
<1>1. GivenUp \in MessageStates /\ GivenUp # "queued"
  BY DEF GivenUp, MessageStates, Settled
<1>2. "queued" \in MessageStates
  BY DEF MessageStates
<1>3. RequeueState(rec) \in {GivenUp, "queued"}
  BY DEF RequeueState
<1>4. CASE RequeueState(rec) = "queued"
  <2>1. rec.attempt < MaxAttempts /\ rec.attempt \in Nat
    BY <1>1, <1>4, MailboxPolicyAssumption DEF RequeueState, MailboxRecord
  <2>2. Requeued(rec, delay) = PutBack(rec, delay)
    BY <1>4 DEF Requeued, PutBack
  <2>3. /\ Requeued(rec, delay) \in MailboxRecord
        /\ Requeued(rec, delay).state = "queued" /\ Requeued(rec, delay).attempt = rec.attempt
    BY <1>2, <2>2, RecordUpdates
  <2> QED BY <1>4, <2>1, <2>3 DEF BoundedIn
<1>5. CASE RequeueState(rec) = GivenUp
  <2>2. Requeued(rec, delay) = Ended(rec, GivenUp)
    BY <1>1, <1>5 DEF Requeued, Ended
  <2>3. /\ Requeued(rec, delay) \in MailboxRecord
        /\ Requeued(rec, delay).state = GivenUp /\ Requeued(rec, delay).attempt = rec.attempt
    BY <1>1, <2>2, RecordUpdates
  <2> QED BY <1>1, <1>5, <2>3 DEF BoundedIn
<1> QED BY <1>3, <1>4, <1>5

\* The records after the sweep, told by the message's case.
LEMMA SweptRecords ==
    ASSUME MailboxInv, NEW delay \in ReclaimDelays
    PROVE  /\ Swept(delay) \in [Messages -> MailboxRecord]
           /\ \A m \in Messages : BoundedIn(Swept(delay)[m])
           /\ \A m \in Stale : Swept(delay)[m].state = RequeueState(records[m])
           /\ \A m \in Lapsed : Swept(delay)[m].state = GivenUp
           /\ \A m \in Messages \ (Stale \cup Lapsed) : Swept(delay)[m] = records[m]
<1> DEFINE rs == Swept(delay)
<1>1. \A m \in Messages : records[m] \in MailboxRecord /\ BoundedIn(records[m])
  BY DEF MailboxInv
<1>2. Stale \subseteq Messages /\ Lapsed \subseteq Messages /\ Stale \cap Lapsed = {}
  BY DEF Stale, Lapsed, InQueue
<1>3. \A m \in Messages :
        rs[m] = IF m \in Stale THEN Requeued(records[m], delay[m])
                ELSE IF m \in Lapsed THEN Ended(records[m], GivenUp)
                ELSE records[m]
  BY DEF Swept, Ended
<1>4. rs = [m \in Messages |-> rs[m]]
  BY DEF Swept
<1>5. \A m \in Stale : delay[m] \in Nat
  <2>1. delay \in [Stale -> 0..BackoffMax]
    BY DEF ReclaimDelays
  <2> QED BY <2>1, MailboxPolicyAssumption
<1>6. GivenUp \in MessageStates /\ GivenUp # "queued"
  BY DEF GivenUp, MessageStates, Settled
<1> HIDE DEF rs
<1>7. ASSUME NEW m \in Stale
      PROVE  rs[m] \in MailboxRecord /\ BoundedIn(rs[m]) /\ rs[m].state = RequeueState(records[m])
  <2>1. rs[m] = Requeued(records[m], delay[m])
    BY <1>2, <1>3
  <2>2. records[m] \in MailboxRecord /\ records[m].attempt <= MaxAttempts
    BY <1>1, <1>2 DEF BoundedIn
  <2> QED BY <1>5, <2>1, <2>2, RequeuedFacts
<1>8. ASSUME NEW m \in Lapsed
      PROVE  rs[m] \in MailboxRecord /\ BoundedIn(rs[m]) /\ rs[m].state = GivenUp
  <2>1. rs[m] = Ended(records[m], GivenUp)
    BY <1>2, <1>3
  <2>2. records[m] \in MailboxRecord /\ records[m].attempt <= MaxAttempts
    BY <1>1, <1>2 DEF BoundedIn
  <2>3. rs[m] \in MailboxRecord /\ rs[m].state = GivenUp /\ rs[m].attempt = records[m].attempt
    BY <1>6, <2>1, <2>2, RecordUpdates
  <2> QED BY <1>6, <2>2, <2>3 DEF BoundedIn
<1>9. ASSUME NEW m \in Messages, m \notin Stale, m \notin Lapsed PROVE rs[m] = records[m]
  BY <1>3, <1>9
<1>10. \A m \in Messages : rs[m] \in MailboxRecord /\ BoundedIn(rs[m])
  BY <1>1, <1>7, <1>8, <1>9
<1>11. rs \in [Messages -> MailboxRecord]
  BY <1>4, <1>10
<1> QED BY <1>7, <1>8, <1>9, <1>10, <1>11 DEF rs

\* The queue after the sweep.
LEMMA SweptQueue ==
    ASSUME MailboxInv, NEW delay \in ReclaimDelays, NEW q \in SweptQueues
    PROVE  QueueOf(q, Swept(delay))
<1> DEFINE rs == Swept(delay)
<1>1. PICK kept \in Filtered(queue, Unlapsed), reclaimed \in Ascending(Reclaimed) :
        q = kept \o reclaimed
  BY DEF SweptQueues
<1>2. QueueOf(queue, records)
  BY DEF MailboxInv
<1>3. /\ kept \in Seq(Messages)
      /\ \A j \in 1..Len(kept) : kept[j] \in Unlapsed
      /\ \A i \in 1..Len(queue) : queue[i] \in Unlapsed => \E j \in 1..Len(kept) : kept[j] = queue[i]
      /\ \A i, j \in 1..Len(kept) : kept[i] = kept[j] => i = j
  BY <1>1, <1>2, FilteredFacts DEF QueueOf
<1>4. /\ Reclaimed \subseteq Stale /\ Stale \subseteq Messages /\ Reclaimed \subseteq Nat
  BY MailboxIdsAssumption, Zenon DEF Reclaimed, Stale
<1>5. /\ reclaimed \in Seq(Reclaimed)
      /\ \A t \in Reclaimed : \E i \in 1..Len(reclaimed) : reclaimed[i] = t
      /\ \A i, j \in 1..Len(reclaimed) : reclaimed[i] = reclaimed[j] => i = j
  BY <1>1, <1>4, AscendingFacts, Zenon
<1>6. reclaimed \in Seq(Messages) /\ \A i \in 1..Len(reclaimed) : reclaimed[i] \in Reclaimed
  <2>1. Reclaimed \subseteq Messages
    BY <1>4
  <2>2. \A i \in 1..Len(reclaimed) : reclaimed[i] \in Reclaimed
    BY <1>5
  <2> QED BY <1>5, <2>1, <2>2
<1>7. Len(kept) \in Nat /\ Len(reclaimed) \in Nat
  BY <1>3, <1>5
<1>8. /\ q \in Seq(Messages) /\ Len(q) = Len(kept) + Len(reclaimed)
      /\ \A i \in 1..Len(kept) : q[i] = kept[i]
      /\ \A i \in 1..Len(reclaimed) : q[Len(kept) + i] = reclaimed[i]
  BY <1>1, <1>3, <1>6
<1>9. Unlapsed \cap Reclaimed = {}
  BY <1>4, Zenon DEF Unlapsed, InQueue, Stale
<1>10. \A i \in 1..Len(q) :
         \/ /\ i \in 1..Len(kept)
            /\ q[i] \in Unlapsed
         \/ /\ i - Len(kept) \in 1..Len(reclaimed)
            /\ q[i] \in Reclaimed
            /\ q[i] = reclaimed[i - Len(kept)]
  <2> TAKE i \in 1..Len(q)
  <2>1. CASE i <= Len(kept)
    <3>1. i \in 1..Len(kept)
      BY <1>7, <1>8, <2>1
    <3>2. kept[i] \in Unlapsed
      BY <1>3, <3>1
    <3>3. q[i] = kept[i]
      BY <1>8, <3>1
    <3> QED BY <3>1, <3>2, <3>3
  <2>2. CASE i > Len(kept)
    <3>1. i - Len(kept) \in 1..Len(reclaimed) /\ Len(kept) + (i - Len(kept)) = i
      BY <1>7, <1>8, <2>2
    <3> QED BY <1>6, <1>8, <3>1
  <2> QED BY <1>7, <2>1, <2>2
<1>11. ASSUME NEW i \in 1..Len(q), NEW j \in 1..Len(q), q[i] = q[j] PROVE i = j
  <2>1. CASE i \in 1..Len(kept) /\ j \in 1..Len(kept)
    BY <1>3, <1>8, <1>11, <2>1
  <2>2. CASE /\ i - Len(kept) \in 1..Len(reclaimed) /\ j - Len(kept) \in 1..Len(reclaimed)
             /\ q[i] = reclaimed[i - Len(kept)] /\ q[j] = reclaimed[j - Len(kept)]
    <3>1. i - Len(kept) = j - Len(kept)
      BY <1>5, <1>11, <2>2, Zenon
    <3> QED BY <1>7, <1>8, <3>1
  <2> QED BY <1>9, <1>10, <1>11, <2>1, <2>2
<1>12. GivenUp # "queued"
  BY DEF GivenUp
<1>13. \A m \in Messages : rs[m].state = "queued" <=> m \in Unlapsed \cup Reclaimed
  <2> TAKE m \in Messages
  <2>1. CASE m \in Stale
    BY Zenon, <1>9, <2>1, SweptRecords DEF Reclaimed, Unlapsed, InQueue, Stale
  <2>2. CASE m \in Lapsed
    BY Zenon, <1>4, <1>12, <2>2, SweptRecords DEF Lapsed, Unlapsed, InQueue, Stale
  <2>3. CASE m \notin Stale \cup Lapsed
    <3>1. rs[m] = records[m]
      BY <2>3, SweptRecords
    <3>2. records[m].state = "queued" <=> InQueue(m)
      BY <1>2 DEF QueueOf, InQueue
    <3> QED BY <1>4, <2>3, <3>1, <3>2, Zenon DEF Lapsed, Unlapsed
  <2> QED BY <2>1, <2>2, <2>3
<1>14. \A m \in Messages : m \in Unlapsed \cup Reclaimed <=> \E i \in 1..Len(q) : q[i] = m
  <2> TAKE m \in Messages
  <2>1. ASSUME m \in Unlapsed PROVE \E i \in 1..Len(q) : q[i] = m
    <3>1. PICK i \in 1..Len(queue) : queue[i] = m
      BY <2>1 DEF Unlapsed, InQueue
    <3>2. PICK j \in 1..Len(kept) : kept[j] = m
      BY <1>3, <2>1, <3>1
    <3> QED BY <1>7, <1>8, <3>2
  <2>2. ASSUME m \in Reclaimed PROVE \E i \in 1..Len(q) : q[i] = m
    <3>1. PICK j \in 1..Len(reclaimed) : reclaimed[j] = m
      BY <1>5, <2>2
    <3>2. Len(kept) + j \in 1..Len(q)
      BY <1>7, <1>8
    <3> QED BY <1>8, <3>1, <3>2
  <2> QED BY <1>10, <2>1, <2>2
<1> HIDE DEF rs
<1> QED BY <1>8, <1>11, <1>13, <1>14 DEF QueueOf, rs

\* The events of expireQueued: one or two for each message that it takes out.
LEMMA ExpiryEventsFacts ==
    ASSUME NEW lapsed \in Seq(Messages)
    PROVE  /\ ExpiryEvents(lapsed) \in Seq(Events)
           /\ \A i \in 1..Len(ExpiryEvents(lapsed)) :
                 \E j \in 1..Len(lapsed) : ExpiryEvents(lapsed)[i] = <<lapsed[j], GivenUp>>
           /\ \A j \in 1..Len(lapsed) :
                 \E i \in 1..Len(ExpiryEvents(lapsed)) : ExpiryEvents(lapsed)[i][1] = lapsed[j]
<1> DEFINE A == ExpiryEvents(lapsed)
           n == IF DLQEnabled THEN 2 ELSE 1
           of(i) == ((i - 1) \div n) + 1
<1>1. Len(lapsed) \in Nat /\ n \in {1, 2}
  OBVIOUS
<1>2. A = [i \in 1..(n * Len(lapsed)) |-> <<lapsed[of(i)], GivenUp>>]
  BY DEF ExpiryEvents
<1>3. GivenUp \in MessageStates
  BY DEF GivenUp, MessageStates, Settled
<1>4. \A i \in 1..(n * Len(lapsed)) : of(i) \in 1..Len(lapsed)
  <2>1. CASE n = 1
    BY <1>1, <2>1
  <2>2. CASE n = 2
    BY <1>1, <2>2
  <2> QED BY <1>1, <2>1, <2>2
<1>5. \A j \in 1..Len(lapsed) : \E i \in 1..(n * Len(lapsed)) : of(i) = j
  <2> TAKE j \in 1..Len(lapsed)
  <2>1. CASE n = 1
    BY <1>1, <2>1
  <2>2. CASE n = 2
    <3>1. 2 * j \in 1..(n * Len(lapsed)) /\ of(2 * j) = j
      BY <1>1, <2>2
    <3> QED BY <3>1
  <2> QED BY <1>1, <2>1, <2>2
<1> HIDE DEF A, n, of
<1>6. n * Len(lapsed) \in Nat
  BY <1>1
<1>7. \A i \in 1..(n * Len(lapsed)) : A[i] = <<lapsed[of(i)], GivenUp>> /\ A[i] \in Events
  BY <1>2, <1>3, <1>4 DEF Events
<1>8. A \in Seq(Events) /\ Len(A) = n * Len(lapsed)
  BY <1>2, <1>6, <1>7
<1> QED BY <1>4, <1>5, <1>7, <1>8 DEF A

\* The events of reclaimStaleInFlight: two for each delivery that it takes back.
LEMMA ReclaimEventsFacts ==
    ASSUME NEW order \in Seq(Messages)
    PROVE  /\ ReclaimEvents(order) \in Seq(Events)
           /\ \A i \in 1..Len(ReclaimEvents(order)) :
                 \E j \in 1..Len(order) : ReclaimEvents(order)[i][1] = order[j]
           /\ \A i \in 1..Len(ReclaimEvents(order)) :
                 \/ ReclaimEvents(order)[i][2] = RequeueState(records[ReclaimEvents(order)[i][1]])
                 \/ /\ i + 1 \in 1..Len(ReclaimEvents(order))
                    /\ ReclaimEvents(order)[i + 1][1] = ReclaimEvents(order)[i][1]
           /\ \A j \in 1..Len(order) :
                 \E i \in 1..Len(ReclaimEvents(order)) : ReclaimEvents(order)[i][1] = order[j]
<1> DEFINE B == ReclaimEvents(order)
           of(i) == ((i - 1) \div 2) + 1
           word(i) == IF i % 2 = 1 THEN "nacked" ELSE RequeueState(records[order[of(i)]])
<1>1. Len(order) \in Nat /\ 2 * Len(order) \in Nat
  OBVIOUS
<1>2. B = [i \in 1..(2 * Len(order)) |-> <<order[of(i)], word(i)>>]
  BY DEF ReclaimEvents
<1>3. \A i \in 1..(2 * Len(order)) : word(i) \in MessageStates
  BY DEF RequeueState, GivenUp, MessageStates, Settled
<1>4. \A i \in 1..(2 * Len(order)) : of(i) \in 1..Len(order)
  BY <1>1
<1>5. \A i \in 1..(2 * Len(order)) :
        i % 2 = 1 => i + 1 \in 1..(2 * Len(order)) /\ of(i + 1) = of(i)
  BY <1>1
<1>6. \A j \in 1..Len(order) : 2 * j \in 1..(2 * Len(order)) /\ of(2 * j) = j
  BY <1>1
<1>7. \A i \in 1..(2 * Len(order)) :
        i % 2 # 1 => word(i) = RequeueState(records[order[of(i)]])
  OBVIOUS
<1> HIDE DEF B, of, word
<1>8. \A i \in 1..(2 * Len(order)) :
        B[i] = <<order[of(i)], word(i)>> /\ B[i] \in Events
  BY <1>2, <1>3, <1>4 DEF Events
<1>9. B \in Seq(Events) /\ Len(B) = 2 * Len(order)
  BY <1>1, <1>2, <1>8
<1>10. \A i \in 1..Len(B) : B[i][1] = order[of(i)] /\ B[i][2] = word(i)
  BY <1>8, <1>9
<1>11. \A i \in 1..Len(B) : \/ B[i][2] = RequeueState(records[B[i][1]])
                            \/ i + 1 \in 1..Len(B) /\ B[i + 1][1] = B[i][1]
  BY <1>5, <1>7, <1>9, <1>10
<1>12. \A j \in 1..Len(order) : \E i \in 1..Len(B) : B[i][1] = order[j]
  BY Zenon, <1>6, <1>9, <1>10
<1> QED BY <1>4, <1>9, <1>10, <1>11, <1>12 DEF B

\* The events of the sweep: the last one about a message says what became of it,
\* and a message they do not name is as it was.
LEMMA SweepEventsFacts ==
    ASSUME MailboxInv, NEW delay \in ReclaimDelays, NEW events \in SweepEvents
    PROVE  /\ events \in Seq(Events)
           /\ LastWords(events, Swept(delay))
           /\ OthersKeep(events, records, Swept(delay))
<1> DEFINE rs == Swept(delay)
<1>1. PICK lapsed \in Filtered(queue, Lapsed), order \in Ascending(Stale) :
        events = ExpiryEvents(lapsed) \o ReclaimEvents(order)
  BY DEF SweepEvents
<1> DEFINE A == ExpiryEvents(lapsed)
           B == ReclaimEvents(order)
<1>2. queue \in Seq(Messages)
  BY DEF MailboxInv, QueueOf
<1>3. /\ lapsed \in Seq(Messages) /\ \A j \in 1..Len(lapsed) : lapsed[j] \in Lapsed
      /\ \A i \in 1..Len(queue) : queue[i] \in Lapsed => \E j \in 1..Len(lapsed) : lapsed[j] = queue[i]
  BY <1>1, <1>2, FilteredFacts
<1>4. /\ Stale \subseteq Messages /\ Stale \subseteq Nat /\ Stale \cap Lapsed = {}
  BY MailboxIdsAssumption, Zenon DEF Stale, Lapsed, InQueue
<1>5. /\ order \in Seq(Stale)
      /\ \A m \in Stale : \E j \in 1..Len(order) : order[j] = m
      /\ \A i, j \in 1..Len(order) : order[i] = order[j] => i = j
  <2>1. Stale \subseteq Nat /\ order \in Ascending(Stale)
    BY <1>4
  <2> HIDE DEF A, B, rs
  <2> QED BY <2>1, AscendingFacts, Zenon
<1>6. order \in Seq(Messages) /\ \A j \in 1..Len(order) : order[j] \in Stale
  <2>1. \A j \in 1..Len(order) : order[j] \in Stale
    BY <1>5
  <2>2. Stale \subseteq Messages
    BY <1>4
  <2> QED BY <1>5, <2>1, <2>2
<1>7. /\ A \in Seq(Events)
      /\ \A i \in 1..Len(A) : A[i][1] \in Lapsed /\ A[i][2] = GivenUp
      /\ \A m \in Lapsed : \E i \in 1..Len(A) : A[i][1] = m
  <2>1. \A m \in Lapsed : \E j \in 1..Len(lapsed) : lapsed[j] = m
    BY <1>3 DEF Lapsed, InQueue
  <2> HIDE DEF A
  <2>2. /\ A \in Seq(Events)
        /\ \A i \in 1..Len(A) : \E j \in 1..Len(lapsed) : A[i] = <<lapsed[j], GivenUp>>
        /\ \A j \in 1..Len(lapsed) : \E i \in 1..Len(A) : A[i][1] = lapsed[j]
    BY Zenon, <1>3, ExpiryEventsFacts, SMTT(30) DEF A
  <2>3. ASSUME NEW i \in 1..Len(A) PROVE A[i][1] \in Lapsed /\ A[i][2] = GivenUp
    <3>1. PICK j \in 1..Len(lapsed) : A[i] = <<lapsed[j], GivenUp>>
      BY <2>2, Zenon
    <3>2. A[i][1] = lapsed[j] /\ A[i][2] = GivenUp
      BY <3>1
    <3> QED BY <1>3, <3>2, Zenon
  <2>4. \A m \in Lapsed : \E i \in 1..Len(A) : A[i][1] = m
    <3> TAKE m \in Lapsed
    <3>1. PICK j \in 1..Len(lapsed) : lapsed[j] = m
      BY <2>1, Zenon
    <3>2. \E i \in 1..Len(A) : A[i][1] = lapsed[j]
      BY <2>2, Zenon
    <3> QED BY <3>1, <3>2
  <2> QED BY <2>2, <2>3, <2>4, Zenon
<1>8. /\ B \in Seq(Events)
      /\ \A i \in 1..Len(B) : /\ B[i][1] \in Stale
                               /\ \/ B[i][2] = RequeueState(records[B[i][1]])
                                  \/ i + 1 \in 1..Len(B) /\ B[i + 1][1] = B[i][1]
      /\ \A m \in Stale : \E i \in 1..Len(B) : B[i][1] = m
  <2> HIDE DEF B
  <2>1. /\ B \in Seq(Events)
        /\ \A i \in 1..Len(B) : \E j \in 1..Len(order) : B[i][1] = order[j]
        /\ \A i \in 1..Len(B) : \/ B[i][2] = RequeueState(records[B[i][1]])
                                \/ i + 1 \in 1..Len(B) /\ B[i + 1][1] = B[i][1]
        /\ \A j \in 1..Len(order) : \E i \in 1..Len(B) : B[i][1] = order[j]
    BY Zenon, <1>6, ReclaimEventsFacts, SMTT(30) DEF B
  <2>2. \A i \in 1..Len(B) : B[i][1] \in Stale
    BY <1>6, <2>1, Zenon
  <2>3. \A m \in Stale : \E i \in 1..Len(B) : B[i][1] = m
    <3> TAKE m \in Stale
    <3>1. PICK j \in 1..Len(order) : order[j] = m
      BY <1>5, Zenon
    <3>2. \E i \in 1..Len(B) : B[i][1] = order[j]
      BY <2>1, Zenon
    <3> QED BY Zenon, <3>1, <3>2
  <2> QED BY <2>1, <2>2, <2>3, Zenon
<1> HIDE DEF A, B, rs
<1>9. Len(A) \in Nat /\ Len(B) \in Nat
  BY <1>7, <1>8
<1>10. /\ events \in Seq(Events) /\ Len(events) = Len(A) + Len(B)
       /\ \A i \in 1..Len(A) : events[i] = A[i]
       /\ \A i \in 1..Len(B) : events[Len(A) + i] = B[i]
  <2>1. events = A \o B
    BY <1>1 DEF A, B
  <2> QED BY <1>7, <1>8, <2>1
<1>11. /\ \A m \in Stale : rs[m].state = RequeueState(records[m])
       /\ \A m \in Lapsed : rs[m].state = GivenUp
       /\ \A m \in Messages \ (Stale \cup Lapsed) : rs[m] = records[m]
  BY SweptRecords DEF rs
<1>12. ASSUME NEW i \in 1..Len(events),
              \A j \in (i + 1)..Len(events) : events[j][1] # events[i][1]
       PROVE  events[i][2] = rs[events[i][1]].state
  <2>1. CASE i <= Len(A)
    <3>1. i \in 1..Len(A)
      BY <1>9, <2>1
    <3> QED BY <1>7, <1>10, <1>11, <3>1
  <2>2. CASE i > Len(A)
    <3>1. PICK k \in 1..Len(B) : i = Len(A) + k
      <4>1. i - Len(A) \in 1..Len(B) /\ i = Len(A) + (i - Len(A))
        BY <1>9, <1>10, <2>2
      <4> QED BY <4>1, Zenon
    <3>2. events[i] = B[k] /\ B[k][1] \in Stale
      BY <1>8, <1>10, <3>1
    <3>3. ~(k + 1 \in 1..Len(B) /\ B[k + 1][1] = B[k][1])
      <4>1. SUFFICES ASSUME k + 1 \in 1..Len(B), B[k + 1][1] = B[k][1] PROVE FALSE
        OBVIOUS
      <4>2. i + 1 = Len(A) + (k + 1) /\ i + 1 \in (i + 1)..Len(events)
        BY <1>9, <1>10, <3>1, <4>1
      <4>3. events[i + 1] = B[k + 1]
        BY <1>10, <4>1, <4>2
      <4> QED BY <1>12, <3>2, <4>1, <4>2, <4>3
    <3> QED BY <1>8, <1>11, <3>2, <3>3, SMTT(30)
  <2> QED BY <1>9, <1>10, <2>1, <2>2
<1>13. ASSUME NEW m \in Messages, \A i \in 1..Len(events) : events[i][1] # m
       PROVE  rs[m].state = records[m].state
  <2>1. m \notin Lapsed
    <3>1. SUFFICES ASSUME NEW i \in 1..Len(A), A[i][1] = m PROVE FALSE
      BY <1>7
    <3>2. i \in 1..Len(events) /\ events[i] = A[i]
      BY <1>9, <1>10
    <3> QED BY <1>13, <3>1, <3>2
  <2>2. m \notin Stale
    <3>1. SUFFICES ASSUME NEW i \in 1..Len(B), B[i][1] = m PROVE FALSE
      BY <1>8
    <3>2. Len(A) + i \in 1..Len(events) /\ events[Len(A) + i] = B[i]
      BY <1>9, <1>10
    <3> QED BY <1>13, <3>1, <3>2
  <2> QED BY <1>11, <2>1, <2>2
<1> QED BY <1>10, <1>12, <1>13 DEF LastWords, OthersKeep, rs

-----------------------------------------------------------------------------
(* One message *)

\* One more event, about the message whose record changes.
LEMMA OneMoreEvent ==
    ASSUME NEW events \in Seq(Events), NEW old, NEW rs, NEW new, NEW m \in Messages,
           LastWords(events, rs), OthersKeep(events, old, rs), new[m].state \in MessageStates,
           \A x \in Messages : x # m => new[x].state = rs[x].state
    PROVE  LET more == Append(events, <<m, new[m].state>>)
           IN  more \in Seq(Events) /\ LastWords(more, new) /\ OthersKeep(more, old, new)
<1> DEFINE e == <<m, new[m].state>>
           more == Append(events, e)
<1>1. e \in Events /\ e[1] = m /\ e[2] = new[m].state
  BY DEF Events
<1> HIDE DEF e
<1>2. /\ more \in Seq(Events) /\ Len(events) \in Nat /\ Len(more) = Len(events) + 1
      /\ more[Len(more)] = e /\ \A i \in 1..Len(events) : more[i] = events[i]
  BY <1>1
<1>3. \A i \in 1..Len(events) : events[i][1] \in Messages
  BY DEF Events
<1> HIDE DEF more
<1>4. ASSUME NEW i \in 1..Len(more), \A j \in (i + 1)..Len(more) : more[j][1] # more[i][1]
      PROVE  more[i][2] = new[more[i][1]].state
  <2>1. CASE i = Len(more)
    BY <1>1, <1>2, <2>1
  <2>2. CASE i # Len(more)
    <3>1. i \in 1..Len(events) /\ Len(more) \in (i + 1)..Len(more)
      BY <1>2, <2>2
    <3>2. more[i] = events[i] /\ events[i][1] # m
      BY <1>1, <1>2, <1>4, <3>1
    <3>3. \A j \in (i + 1)..Len(events) : events[j][1] # events[i][1]
      <4> TAKE j \in (i + 1)..Len(events)
      <4>1. j \in 1..Len(events) /\ j \in (i + 1)..Len(more)
        BY <1>2, <3>1
      <4> QED BY <1>2, <1>4, <3>2, <4>1
    <3>4. events[i][2] = rs[events[i][1]].state
      BY <3>1, <3>3 DEF LastWords
    <3> QED BY <1>3, <3>1, <3>2, <3>4
  <2> QED BY <2>1, <2>2
<1>5. ASSUME NEW x \in Messages, \A i \in 1..Len(more) : more[i][1] # x
      PROVE  new[x].state = old[x].state
  <2>1. x # m
    <3>1. Len(more) \in 1..Len(more)
      BY <1>2
    <3> QED BY <1>1, <1>2, <1>5, <3>1
  <2>2. \A i \in 1..Len(events) : events[i][1] # x
    BY <1>2, <1>5
  <2>3. rs[x].state = old[x].state
    BY <2>2 DEF OthersKeep
  <2> QED BY <2>1, <2>3
<1>6. more \in Seq(Events) /\ LastWords(more, new) /\ OthersKeep(more, old, new)
  BY Zenon, <1>2, <1>4, <1>5 DEF LastWords, OthersKeep
<1> QED BY <1>6 DEF more, e

\* A transition of one message to s that emits one event, or two.
LEMMA OneTransition ==
    ASSUME NEW h \in Histories, NEW rs, NEW new, Told(h, rs),
           NEW m \in Messages, NEW s \in MessageStates, new[m].state = s,
           \A x \in Messages : x # m => new[x].state = rs[x].state,
           NEW events, \/ events = <<<<m, s>>>>
                       \/ events = <<<<m, "nacked">>, <<m, s>>>>
    PROVE  /\ AppendHistory(h, events) \in Histories
           /\ Told(AppendHistory(h, events), new)
<1>1. "nacked" \in MessageStates
  BY DEF MessageStates
<1>2. CASE events = <<<<m, s>>>>
  <2>1. events \in Seq(Events) /\ Len(events) = 1 /\ events[1] = <<m, s>>
    BY <1>2 DEF Events
  <2>2. events[1][1] = m /\ events[1][2] = s
    BY <2>1
  <2>3. 1 \in 1..Len(events) /\ \A i \in 1..Len(events) : i = 1
    BY <2>1
  <2>4. LastWords(events, new) /\ OthersKeep(events, rs, new)
    BY <2>2, <2>3 DEF LastWords, OthersKeep
  <2> QED BY Zenon, <2>1, <2>4, AppendHistoryTold
<1>3. CASE events = <<<<m, "nacked">>, <<m, s>>>>
  <2>1. /\ events \in Seq(Events) /\ Len(events) = 2
        /\ events[1] = <<m, "nacked">> /\ events[2] = <<m, s>>
    BY <1>1, <1>3 DEF Events
  <2>2. events[1][1] = m /\ events[2][1] = m /\ events[2][2] = s
    BY <2>1
  <2>3. /\ 1 \in 1..Len(events) /\ 2 \in (1 + 1)..Len(events)
        /\ \A i \in 1..Len(events) : i = 1 \/ i = 2
    BY <2>1
  <2>4. LastWords(events, new) /\ OthersKeep(events, rs, new)
    BY <2>2, <2>3 DEF LastWords, OthersKeep
  <2> QED BY Zenon, <2>1, <2>4, AppendHistoryTold
<1> QED BY <1>2, <1>3

\* Nobody enters the queue or leaves it.
LEMMA QueueSame ==
    ASSUME NEW q, NEW rs, NEW new, QueueOf(q, rs),
           \A x \in Messages : new[x].state = "queued" <=> rs[x].state = "queued"
    PROVE  QueueOf(q, new)
BY DEF QueueOf

\* A message enters the queue.
LEMMA QueueMore ==
    ASSUME NEW q, NEW rs, NEW new, QueueOf(q, rs),
           NEW m \in Messages, rs[m].state # "queued", new[m].state = "queued",
           \A x \in Messages : x # m => new[x].state = rs[x].state
    PROVE  QueueOf(Append(q, m), new)
<1>1. /\ q \in Seq(Messages) /\ Len(q) \in Nat
      /\ \A x \in Messages : rs[x].state = "queued" <=> \E i \in 1..Len(q) : q[i] = x
      /\ \A i, j \in 1..Len(q) : q[i] = q[j] => i = j
  BY DEF QueueOf
<1> DEFINE p == Append(q, m)
<1>2. /\ p \in Seq(Messages) /\ Len(p) = Len(q) + 1 /\ p[Len(p)] = m
      /\ \A i \in 1..Len(q) : p[i] = q[i]
  BY <1>1
<1>3. \A i \in 1..Len(q) : q[i] # m
  BY <1>1
<1> HIDE DEF p
<1>4. /\ \A i \in 1..Len(p) : i \in 1..Len(q) \/ i = Len(p)
      /\ Len(p) \in 1..Len(p) /\ \A i \in 1..Len(q) : i \in 1..Len(p)
  BY <1>1, <1>2
<1>5. \A i, j \in 1..Len(p) : p[i] = p[j] => i = j
  BY <1>1, <1>2, <1>3, <1>4
<1>6. \A x \in Messages : new[x].state = "queued" <=> \E i \in 1..Len(p) : p[i] = x
  <2> TAKE x \in Messages
  <2>1. CASE x = m
    BY <1>2, <1>4, <2>1
  <2>2. CASE x # m
    <3>1. new[x].state = "queued" <=> \E i \in 1..Len(q) : q[i] = x
      BY <1>1, <2>2
    <3>2. (\E i \in 1..Len(q) : q[i] = x) <=> \E i \in 1..Len(p) : p[i] = x
      BY <1>2, <1>4, <2>2
    <3> QED BY <3>1, <3>2
  <2> QED BY <2>1, <2>2
<1> QED BY <1>2, <1>5, <1>6 DEF QueueOf, p

\* The record of m becomes rec.
LEMMA OneRecord ==
    ASSUME NEW rs \in [Messages -> MailboxRecord], \A x \in Messages : BoundedIn(rs[x]),
           NEW m \in Messages, NEW rec \in MailboxRecord, BoundedIn(rec)
    PROVE  LET new == [rs EXCEPT ![m] = rec]
           IN  /\ new \in [Messages -> MailboxRecord]
               /\ \A x \in Messages : BoundedIn(new[x])
               /\ new[m] = rec
               /\ \A x \in Messages : x # m => new[x] = rs[x]
<1> DEFINE new == [rs EXCEPT ![m] = rec]
<1>1. /\ new \in [Messages -> MailboxRecord] /\ new[m] = rec
      /\ \A x \in Messages : x # m => new[x] = rs[x]
  OBVIOUS
<1> HIDE DEF new
<1>2. \A x \in Messages : BoundedIn(new[x])
  BY <1>1
<1> QED BY <1>1, <1>2 DEF new

-----------------------------------------------------------------------------
(* The actions *)

\* The sweep, and the delivery of its first eligible message.
LEMMA ConsumeStep ==
    ASSUME MailboxInv, NEW w \in Workers, NEW m \in Messages, Consume(w, m)
    PROVE  MailboxInv'
<1>1. PICK delay \in ReclaimDelays, q \in SweptQueues, events \in SweepEvents :
        \E i \in 1..Len(q) :
           /\ q[i] = m
           /\ records' = [Swept(delay) EXCEPT ![m] = Delivered(@, w)]
           /\ queue' = Without(q, i)
           /\ history' = AppendHistory(history, Append(events, <<m, "in_flight">>))
  BY Zenon DEF Consume
<1>2. PICK i \in 1..Len(q) :
        /\ q[i] = m
        /\ records' = [Swept(delay) EXCEPT ![m] = Delivered(@, w)]
        /\ queue' = Without(q, i)
        /\ history' = AppendHistory(history, Append(events, <<m, "in_flight">>))
  BY <1>1
<1> DEFINE rs == Swept(delay)
           rec == Delivered(rs[m], w)
<1>3. rs \in [Messages -> MailboxRecord] /\ \A x \in Messages : BoundedIn(rs[x])
  BY SweptRecords
<1>4. QueueOf(q, rs)
  BY SweptQueue
<1>5. events \in Seq(Events) /\ LastWords(events, rs) /\ OthersKeep(events, records, rs)
  BY SweepEventsFacts
<1>6. records' = [rs EXCEPT ![m] = rec]
  BY <1>2, <1>3
<1> HIDE DEF rs
<1>7. rs[m].state = "queued" /\ rs[m] \in MailboxRecord /\ rs[m].attempt \in Nat
  BY <1>2, <1>3, <1>4, Zenon DEF QueueOf, MailboxRecord
<1>8. rec \in MailboxRecord /\ rec.state = "in_flight" /\ rec.attempt = rs[m].attempt + 1
  BY <1>7, Delivery
<1>9. BoundedIn(rec)
  <2>1. rs[m].attempt < MaxAttempts
    BY <1>3, <1>7 DEF BoundedIn
  <2> QED BY <1>7, <1>8, <2>1, MailboxPolicyAssumption DEF BoundedIn
<1> HIDE DEF rec
<1>10. /\ records' \in [Messages -> MailboxRecord]
       /\ \A x \in Messages : BoundedIn(records'[x])
       /\ records'[m] = rec
       /\ \A x \in Messages : x # m => records'[x] = rs[x]
  BY <1>3, <1>6, <1>8, <1>9, OneRecord, SMTT(30)
<1>11. QueueOf(queue', records')
  <2>1. /\ q \in Seq(Messages)
        /\ \A x \in Messages : rs[x].state = "queued" <=> \E j \in 1..Len(q) : q[j] = x
        /\ \A j, k \in 1..Len(q) : q[j] = q[k] => j = k
    BY Zenon, <1>4 DEF QueueOf
  <2> DEFINE p == Without(q, i)
  <2>2. /\ p \in Seq(Messages)
        /\ \A j \in 1..Len(p) : \E k \in 1..Len(q) : k # i /\ p[j] = q[k]
        /\ \A k \in 1..Len(q) : k # i => \E j \in 1..Len(p) : p[j] = q[k]
        /\ \A j, k \in 1..Len(p) : p[j] = p[k] => j = k
    BY <2>1, WithoutFacts, ZenonT(30)
  <2> HIDE DEF p
  <2>3. \A x \in Messages : records'[x].state = "queued" <=> \E j \in 1..Len(p) : p[j] = x
    <3> TAKE x \in Messages
    <3>1. CASE x = m
      <4>1. ASSUME NEW j \in 1..Len(p) PROVE p[j] # m
        <5>1. PICK k \in 1..Len(q) : k # i /\ p[j] = q[k]
          BY <2>2, Zenon
        <5>2. q[i] = m /\ (q[k] = q[i] => k = i)
          BY <1>2, <2>1, Zenon
        <5> QED BY <5>1, <5>2, Zenon
      <4> QED BY Zenon, <1>8, <1>10, <3>1, <4>1
    <3>2. CASE x # m
      <4>1. records'[x].state = "queued" <=> \E k \in 1..Len(q) : q[k] = x
        BY <1>10, <2>1, <3>2
      <4>2. ASSUME NEW k \in 1..Len(q), q[k] = x PROVE \E j \in 1..Len(p) : p[j] = x
        BY <1>2, <2>2, <3>2, <4>2, Zenon
      <4>3. ASSUME NEW j \in 1..Len(p), p[j] = x PROVE \E k \in 1..Len(q) : q[k] = x
        BY <2>2, <4>3
      <4> QED BY <4>1, <4>2, <4>3
    <3> QED BY <3>1, <3>2
  <2> QED BY Zenon, <1>2, <2>2, <2>3 DEF QueueOf, p
<1>12. history' \in Histories /\ Told(history', records')
  <2>1. /\ records'[m].state = "in_flight" /\ "in_flight" \in MessageStates
        /\ \A x \in Messages : x # m => records'[x].state = rs[x].state
    BY Zenon, <1>8, <1>10, SMTT(30) DEF MessageStates
  <2> DEFINE more == Append(events, <<m, "in_flight">>)
  <2>2. more \in Seq(Events) /\ LastWords(more, records') /\ OthersKeep(more, records, records')
    BY ZenonT(60), <1>5, <2>1, OneMoreEvent
  <2> HIDE DEF more
  <2>3. history \in Histories /\ Told(history, records)
    BY DEF MailboxInv
  <2>4. history' = AppendHistory(history, more)
    BY <1>2 DEF more
  <2> QED BY <2>2, <2>3, <2>4, AppendHistoryTold, SMTT(30)
<1> QED BY <1>10, <1>11, <1>12 DEF MailboxInv

\* The sweep alone.
LEMMA ConsumeNoneStep ==
    ASSUME MailboxInv, ConsumeNone
    PROVE  MailboxInv'
<1>1. PICK delay \in ReclaimDelays, q \in SweptQueues, events \in SweepEvents :
        /\ records' = Swept(delay)
        /\ queue' = q
        /\ history' = AppendHistory(history, events)
  BY DEF ConsumeNone
<1>2. /\ records' \in [Messages -> MailboxRecord]
      /\ \A x \in Messages : BoundedIn(records'[x])
  BY Zenon, <1>1, SweptRecords
<1>3. QueueOf(queue', records')
  BY <1>1, SweptQueue
<1>4. events \in Seq(Events) /\ LastWords(events, records') /\ OthersKeep(events, records, records')
  BY <1>1, SweepEventsFacts
<1>5. history' \in Histories /\ Told(history', records')
  <2>1. history \in Histories /\ Told(history, records)
    BY DEF MailboxInv
  <2> QED BY <1>1, <1>4, <2>1, AppendHistoryTold
<1> QED BY <1>2, <1>3, <1>5 DEF MailboxInv

\* A message is published.
LEMMA PublishStep ==
    ASSUME MailboxInv, NEW m \in Messages, NEW k \in Keys, Publish(m, k)
    PROVE  MailboxInv'
<1>1. /\ records \in [Messages -> MailboxRecord] /\ history \in Histories
      /\ QueueOf(queue, records) /\ Told(history, records)
      /\ \A x \in Messages : BoundedIn(records[x])
  BY DEF MailboxInv
<1>2. /\ records[m].state = "absent" /\ records' = [records EXCEPT ![m] = NewRecord(m)]
      /\ queue' = Append(queue, m) /\ history' = AppendHistory(history, <<<<m, "queued">>>>)
  BY Zenon DEF Publish
<1>3. /\ NewRecord(m) \in MailboxRecord /\ NewRecord(m).state = "queued"
      /\ BoundedIn(NewRecord(m))
  BY MailboxPolicyAssumption DEF NewRecord, MailboxRecord, MessageStates, BoundedIn
<1>4. /\ records' \in [Messages -> MailboxRecord]
      /\ \A x \in Messages : BoundedIn(records'[x])
      /\ records'[m] = NewRecord(m)
      /\ \A x \in Messages : x # m => records'[x] = records[x]
  BY <1>1, <1>2, <1>3, OneRecord
<1>5. records'[m].state = "queued" /\ \A x \in Messages : x # m => records'[x].state = records[x].state
  BY Zenon, <1>3, <1>4
<1>6. QueueOf(queue', records')
  BY <1>1, <1>2, <1>5, QueueMore, ZenonT(30)
<1>7. "queued" \in MessageStates
  BY DEF MessageStates
<1>8. history' \in Histories /\ Told(history', records')
  BY <1>1, <1>2, <1>5, <1>7, OneTransition, Zenon
<1> QED BY <1>4, <1>6, <1>8 DEF MailboxInv

\* A delivery ends with the state s, which is not queued.
LEMMA EndedStep ==
    ASSUME MailboxInv, NEW m \in Messages, NEW s \in MessageStates, s # "queued",
           records[m].state # "queued",
           records' \in [Messages -> MailboxRecord], records'[m].state = s,
           \A x \in Messages : records'[x].attempt = records[x].attempt,
           \A x \in Messages : x # m => records'[x].state = records[x].state,
           queue' = queue,
           NEW events, history' = AppendHistory(history, events),
           events = <<<<m, s>>>> \/ events = <<<<m, "nacked">>, <<m, s>>>>
    PROVE  MailboxInv'
<1>1. /\ history \in Histories /\ QueueOf(queue, records) /\ Told(history, records)
      /\ \A x \in Messages : BoundedIn(records[x])
  BY Zenon DEF MailboxInv
<1>2. \A x \in Messages : records'[x].state = "queued" <=> records[x].state = "queued"
  BY Zenon
<1>3. QueueOf(queue, records')
  BY <1>1, <1>2, QueueSame
<1>4. \A x \in Messages : BoundedIn(records'[x])
  BY Zenon, <1>1, <1>2 DEF BoundedIn
<1>5. history' \in Histories /\ Told(history', records')
  BY <1>1, OneTransition
<1> QED BY Zenon, <1>3, <1>4, <1>5 DEF MailboxInv

\* The records after the end of a delivery of m.
LEMMA EndedFacts ==
    ASSUME NEW rs \in [Messages -> MailboxRecord], NEW m \in Messages, NEW s \in MessageStates,
           NEW new, new = [rs EXCEPT ![m] = Ended(rs[m], s)]
    PROVE  /\ new \in [Messages -> MailboxRecord] /\ new[m].state = s
           /\ \A x \in Messages : new[x].attempt = rs[x].attempt
           /\ \A x \in Messages : x # m => new[x].state = rs[x].state
<1>1. /\ Ended(rs[m], s) \in MailboxRecord /\ Ended(rs[m], s).state = s
      /\ Ended(rs[m], s).attempt = rs[m].attempt
  BY RecordUpdates
<1> QED BY <1>1

\* ack and nack
LEMMA SettleStep ==
    ASSUME MailboxInv, NEW m \in Messages, NEW w, Ack(m, w) \/ Nack(m, w)
    PROVE  MailboxInv'
<1>1. records \in [Messages -> MailboxRecord]
  BY DEF MailboxInv
<1>2. records[m].state # "queued"
  BY DEF Ack, Nack, RequireInflight
<1>3. CASE Ack(m, w)
  <2>1. "acked" \in MessageStates
    BY DEF MessageStates, Settled
  <2>2. /\ records' = [records EXCEPT ![m] = Ended(records[m], "acked")]
        /\ queue' = queue /\ history' = AppendHistory(history, <<<<m, "acked">>>>)
    BY <1>1, <1>3, Zenon DEF Ack, Ended
  <2>3. /\ records' \in [Messages -> MailboxRecord] /\ records'[m].state = "acked"
        /\ \A x \in Messages : records'[x].attempt = records[x].attempt
        /\ \A x \in Messages : x # m => records'[x].state = records[x].state
    BY <1>1, <2>1, <2>2, EndedFacts
  <2> QED BY <1>2, <2>1, <2>2, <2>3, EndedStep
<1>4. CASE Nack(m, w)
  <2>1. "nacked" \in MessageStates /\ "dead_letter" \in MessageStates
    BY DEF MessageStates, Settled
  <2>2. CASE DLQEnabled /\ records[m].attempt >= MaxAttempts
    <3>1. /\ records' = [records EXCEPT ![m] = Ended(records[m], "dead_letter")]
          /\ queue' = queue
          /\ history' = AppendHistory(history, <<<<m, "nacked">>, <<m, "dead_letter">>>>)
      BY <1>1, <1>4, <2>2, Zenon DEF Nack, Ended
    <3>2. /\ records' \in [Messages -> MailboxRecord] /\ records'[m].state = "dead_letter"
          /\ \A x \in Messages : records'[x].attempt = records[x].attempt
          /\ \A x \in Messages : x # m => records'[x].state = records[x].state
      BY <1>1, <2>1, <3>1, EndedFacts
    <3> QED BY <1>2, <2>1, <3>1, <3>2, EndedStep
  <2>3. CASE ~(DLQEnabled /\ records[m].attempt >= MaxAttempts)
    <3>1. /\ records' = [records EXCEPT ![m] = Ended(records[m], "nacked")]
          /\ queue' = queue /\ history' = AppendHistory(history, <<<<m, "nacked">>>>)
      BY <1>1, <1>4, <2>3, Zenon DEF Nack, Ended
    <3>2. /\ records' \in [Messages -> MailboxRecord] /\ records'[m].state = "nacked"
          /\ \A x \in Messages : records'[x].attempt = records[x].attempt
          /\ \A x \in Messages : x # m => records'[x].state = records[x].state
      BY <1>1, <2>1, <3>1, EndedFacts
    <3> QED BY <1>2, <2>1, <3>1, <3>2, EndedStep
  <2> QED BY <2>2, <2>3
<1> QED BY <1>3, <1>4

\* requeue, of a delivery or of a nacked message.
LEMMA RequeueStep ==
    ASSUME MailboxInv, NEW m \in Messages, NEW w, Requeue(m, w)
    PROVE  MailboxInv'
<1>1. /\ records \in [Messages -> MailboxRecord] /\ history \in Histories
      /\ QueueOf(queue, records) /\ Told(history, records)
      /\ \A x \in Messages : BoundedIn(records[x])
  BY DEF MailboxInv
<1>2. records[m].state # "queued"
  BY DEF Requeue, RequireInflight
<1>3. PICK delay \in Nat :
        /\ records' = [records EXCEPT ![m] = Requeued(@, delay)]
        /\ queue' = IF RequeueState(records[m]) = "queued" THEN Append(queue, m) ELSE queue
        /\ history' = AppendHistory(history, RequeueEvents(m))
  <2>1. \A n : RetryDelay(n) \subseteq Nat
    BY MailboxPolicyAssumption DEF RetryDelay
  <2> QED BY <2>1, Zenon DEF Requeue, RequeueRecord
<1> DEFINE rec == Requeued(records[m], delay)
<1>4. rec \in MailboxRecord /\ rec.state = RequeueState(records[m]) /\ BoundedIn(rec)
  BY <1>1, RequeuedFacts DEF BoundedIn
<1>5. records' = [records EXCEPT ![m] = rec]
  BY <1>1, <1>3
<1> HIDE DEF rec
<1>6. /\ records' \in [Messages -> MailboxRecord]
      /\ \A x \in Messages : BoundedIn(records'[x])
      /\ records'[m] = rec
      /\ \A x \in Messages : x # m => records'[x] = records[x]
  BY <1>1, <1>4, <1>5, OneRecord
<1>7. /\ records'[m].state = RequeueState(records[m])
      /\ \A x \in Messages : x # m => records'[x].state = records[x].state
  BY <1>4, <1>6
<1>8. QueueOf(queue', records')
  <2>1. CASE RequeueState(records[m]) = "queued"
    <3>1. queue' = Append(queue, m) /\ records'[m].state = "queued"
      BY <1>3, <1>7, <2>1
    <3> QED BY <1>1, <1>2, <1>7, <3>1, QueueMore
  <2>2. CASE RequeueState(records[m]) # "queued"
    <3>1. \A x \in Messages : records'[x].state = "queued" <=> records[x].state = "queued"
      BY Zenon, <1>2, <1>7, <2>2
    <3>2. QueueOf(queue, records')
      BY <1>1, <3>1, QueueSame
    <3> QED BY <1>3, <2>2, <3>2
  <2> QED BY <2>1, <2>2
<1>9. RequeueState(records[m]) \in MessageStates
  BY DEF RequeueState, GivenUp, MessageStates, Settled
<1>10. \/ RequeueEvents(m) = <<<<m, RequeueState(records[m])>>>>
       \/ RequeueEvents(m) = <<<<m, "nacked">>, <<m, RequeueState(records[m])>>>>
  BY Zenon DEF RequeueEvents
<1>11. /\ AppendHistory(history, RequeueEvents(m)) \in Histories
       /\ Told(AppendHistory(history, RequeueEvents(m)), records')
  BY <1>1, <1>7, <1>9, <1>10, OneTransition, Zenon
<1> QED BY <1>3, <1>6, <1>8, <1>11 DEF MailboxInv

\* A heartbeat, a saved continuation and the clock change neither a message's
\* state nor the number of its deliveries.
LEMMA TimersKeep ==
    ASSUME NEW rs, NEW q, NEW h \in Histories, NEW new,
           QueueOf(q, rs), Told(h, rs), \A x \in Messages : BoundedIn(rs[x]),
           \A x \in Messages : new[x].state = rs[x].state /\ new[x].attempt = rs[x].attempt
    PROVE  QueueOf(q, new) /\ Told(h, new) /\ \A x \in Messages : BoundedIn(new[x])
<1>1. \A x \in Messages : BoundedIn(new[x])
  BY DEF BoundedIn
<1>2. QueueOf(q, new)
  BY QueueSame
<1>3. Told(h, new)
  <2>1. \A i \in 1..Len(h.entries) : h.entries[i].message \in Messages
    <3>1. h.entries \in Seq(Entries)
      BY Zenon DEF Histories
    <3>2. \A i \in 1..Len(h.entries) : h.entries[i] \in Entries
      BY <3>1
    <3> QED BY Zenon, <3>2 DEF Entries
  <2> QED BY Zenon, <2>1 DEF Told
<1> QED BY <1>1, <1>2, <1>3

LEMMA TimersStep ==
    ASSUME MailboxInv, records' \in [Messages -> MailboxRecord], queue' = queue, history' = history,
           \A x \in Messages : /\ records'[x].state = records[x].state
                               /\ records'[x].attempt = records[x].attempt
    PROVE  MailboxInv'
BY TimersKeep DEF MailboxInv

\* The lease of a record is set.
LEMMA LeaseFacts ==
    ASSUME NEW rs \in [Messages -> MailboxRecord], NEW m \in Messages, NEW l \in Nat
    PROVE  /\ [rs EXCEPT ![m].lease = l] \in [Messages -> MailboxRecord]
           /\ \A x \in Messages : /\ [rs EXCEPT ![m].lease = l][x].state = rs[x].state
                                  /\ [rs EXCEPT ![m].lease = l][x].attempt = rs[x].attempt
BY Zenon DEF MailboxRecord

\* The timers of a record go down.
LEMMA ElapseFacts ==
    ASSUME NEW rec \in MailboxRecord
    PROVE  /\ ElapseRecord(rec) \in MailboxRecord
           /\ ElapseRecord(rec).state = rec.state
           /\ ElapseRecord(rec).attempt = rec.attempt
<1>1. \A t \in Nat : Down(t) \in Nat
  BY DEF Down
<1> QED BY <1>1, Zenon DEF MailboxRecord, ElapseRecord

-----------------------------------------------------------------------------
(* The theorems *)

\* An empty mailbox, in memory before the first call or after a crash.
LEMMA MailboxInitially == Init => MailboxInv
<1> SUFFICES ASSUME Init PROVE MailboxInv
  OBVIOUS
<1>1. \A m \in Messages : /\ Absent(m) \in MailboxRecord /\ Absent(m).state = "absent"
                          /\ Absent(m).attempt = 0
  BY MailboxPolicyAssumption, ZenonT(30) DEF Absent, NewRecord, MailboxRecord, MessageStates
<1>2. /\ records \in [Messages -> MailboxRecord]
      /\ \A m \in Messages : records[m].state = "absent" /\ records[m].attempt = 0
  BY <1>1 DEF Init
<1>3. QueueOf(queue, records)
  BY <1>2 DEF Init, QueueOf
<1>4. \A m \in Messages : BoundedIn(records[m])
  <2>1. 0 <= MaxAttempts /\ 0 < MaxAttempts
    BY MailboxPolicyAssumption
  <2> QED BY Zenon, <1>2, <2>1 DEF BoundedIn
<1>5. history \in Histories /\ Told(history, records)
  <2>1. history \in Histories /\ history.entries = <<>> /\ history.sequence = 0 /\ history.floor = 0
    BY DEF Init, NoHistory, Histories
  <2>2. Len(<<>>) = 0 /\ 0 <= Retention /\ 0 = 0 + 0 /\ \A i \in 1..0 : FALSE
    BY MailboxPolicyAssumption
  <2> QED BY Zenon, <2>1, <2>2 DEF Told
<1> QED BY <1>2, <1>3, <1>4, <1>5 DEF MailboxInv

\* Every operation keeps the invariant.
LEMMA MailboxStep == MailboxInv /\ [Next]_mailboxState => MailboxInv'
<1> SUFFICES ASSUME MailboxInv, [Next]_mailboxState PROVE MailboxInv'
  OBVIOUS
<1>1. records \in [Messages -> MailboxRecord]
  BY DEF MailboxInv
<1>2. ASSUME NEW m \in Messages, NEW k \in Keys, Publish(m, k) PROVE MailboxInv'
  BY <1>2, PublishStep
<1>3. ASSUME NEW m \in Messages, NEW w \in Workers, Consume(w, m) PROVE MailboxInv'
  BY <1>3, ConsumeStep
<1>4. CASE ConsumeNone
  BY <1>4, ConsumeNoneStep
<1>5. ASSUME NEW m \in Messages, NEW w, Heartbeat(m, w) PROVE MailboxInv'
  <2>1. InflightTimeout \in Nat
    BY MailboxPolicyAssumption
  <2>2. /\ records' = [records EXCEPT ![m].lease = InflightTimeout]
        /\ queue' = queue /\ history' = history
    BY <1>5 DEF Heartbeat
  <2> QED BY <1>1, <2>1, <2>2, LeaseFacts, TimersStep
<1>6. ASSUME NEW m \in Messages, NEW w, Ack(m, w) \/ Nack(m, w) PROVE MailboxInv'
  BY <1>6, SettleStep
<1>7. ASSUME NEW m \in Messages, NEW w, Requeue(m, w) PROVE MailboxInv'
  BY <1>7, RequeueStep
<1>8. ASSUME NEW c \in Deliveries, NEW w, SaveContinuation(c, w) PROVE MailboxInv'
  <2>1. PauseTime \in Nat /\ c[1] \in Messages
    BY MailboxPolicyAssumption DEF Deliveries
  <2>2. /\ records' = [records EXCEPT ![c[1]].lease = PauseTime]
        /\ queue' = queue /\ history' = history
    BY Zenon, <1>8 DEF SaveContinuation
  <2> QED BY <1>1, <2>1, <2>2, LeaseFacts, TimersStep, SMTT(30)
<1>9. ASSUME UNCHANGED <<records, queue, history>> PROVE MailboxInv'
  BY <1>9 DEF MailboxInv
<1>10. ASSUME NEW c \in Deliveries, NEW r \in Resumers, NEW outcome,
              ClaimResume(c, r) \/ MarkRunning(c, r) \/ CommitResult(c, r, outcome)
       PROVE  MailboxInv'
  BY <1>9, <1>10 DEF ClaimResume, MarkRunning, CommitResult
<1>11. CASE Tick
  <2>1. /\ records' = [m \in Messages |-> ElapseRecord(records[m])]
        /\ queue' = queue /\ history' = history
    BY <1>11 DEF Tick
  <2>2. \A m \in Messages : /\ ElapseRecord(records[m]) \in MailboxRecord
                            /\ ElapseRecord(records[m]).state = records[m].state
                            /\ ElapseRecord(records[m]).attempt = records[m].attempt
    BY <1>1, ElapseFacts
  <2>3. /\ records' \in [Messages -> MailboxRecord]
        /\ \A m \in Messages : /\ records'[m].state = records[m].state
                               /\ records'[m].attempt = records[m].attempt
    BY <2>1, <2>2
  <2> QED BY Zenon, <2>1, <2>3, TimersStep
<1>12. CASE UNCHANGED mailboxState
  BY <1>9, <1>12 DEF mailboxState
<1> QED BY <1>2, <1>3, <1>4, <1>5, <1>6, <1>7, <1>8, <1>10, <1>11, <1>12, Zenon DEF Next

\* Every behaviour keeps the invariant.
LEMMA MailboxInvariant == Spec => []MailboxInv
BY MailboxInitially, MailboxStep, PTL DEF Spec

\* The queue lists the queued messages, each once, whatever consume reclaims and
\* expires in one call: no message is lost, and none is delivered twice over.
THEOREM MailboxQueue == Spec => []QueueIsTheQueued
<1>1. MailboxInv => QueueIsTheQueued
  BY DEF MailboxInv, QueueOf, QueueIsTheQueued
<1> QED BY <1>1, MailboxInvariant, PTL

\* No message is delivered more often than MaxAttempts allows, with any number
\* of consumers, whether it is nacked, requeued or reclaimed.
THEOREM MailboxDeliveries == Spec => []DeliveriesBounded
<1>1. MailboxInv => DeliveriesBounded
  BY SMTT(30) DEF MailboxInv, BoundedIn, DeliveriesBounded
<1> QED BY <1>1, MailboxInvariant, PTL

\* The journal has no gap and its last word on a message is the message's
\* state, for every retention and every number of events of one call.
THEOREM MailboxHistory == Spec => []HistoryIsFaithful
<1>1. MailboxInv => HistoryIsFaithful
  BY Zenon DEF MailboxInv, Told, HistoryIsFaithful
<1> QED BY <1>1, MailboxInvariant, PTL

-----------------------------------------------------------------------------
(* What no operation takes back *)

\* Record r becomes s.
MovesOn(r, s) ==
    /\ r.state \in Settled => s.state = r.state /\ s.attempt = r.attempt
    /\ r.state # "absent" => s.state # "absent"
    /\ s.attempt # r.attempt => s.attempt = r.attempt + 1 /\ s.state = "in_flight"

\* Continuation r becomes s.
ClaimMovesOn(r, s) ==
    /\ r.claim # "none" => s.claim # "none" /\ s.identity = r.identity
    /\ r.claim = "completed" => s.claim = "completed" /\ s.result = r.result

(***************************************************************************)
(* A settled message stays settled as it is: no late ack, nack, requeue or *)
(* sweep of consume delivers it again.  A message is not forgotten, its    *)
(* deliveries are counted one by one, each as it is made, an idempotency   *)
(* key stays with its message, a claim of a continuation with its request, *)
(* and a committed result stands (publish, consume, ack, nack, requeue,    *)
(* ClaimHostPlanResume, CommitHostPlanResumeResult).                       *)
(***************************************************************************)
MailboxGoesForward ==
    /\ \A m \in Messages : MovesOn(records[m], records'[m])
    /\ \A k \in DOMAIN idempotency : k \in DOMAIN idempotency' /\ idempotency'[k] = idempotency[k]
    /\ \A c \in DOMAIN continuations :
        c \in DOMAIN continuations' /\ ClaimMovesOn(continuations[c], continuations'[c])

HostPlans ==
    [consumer : Workers, expires : Nat, claim : {"none", "claimed", "running", "completed"},
     identity : Resumers \cup {NoOne}, result : MessageStates \cup {""}]

\* A message that is not there has no delivery.
AbsentUncounted == \A m \in Messages : records[m].state = "absent" => records[m].attempt = 0

HostPlansTyped == \A c \in DOMAIN continuations : continuations[c] \in HostPlans

\* A record that keeps its state and count, and one that is not settled and keeps its count.
LEMMA RecordMovesOn ==
    ASSUME NEW r, NEW s, s.attempt = r.attempt,
           s.state = r.state \/ (r.state \notin Settled /\ s.state # "absent")
    PROVE  MovesOn(r, s)
BY Zenon DEF MovesOn

\* Requeue and the end of a delivery count nothing.
LEMMA RequeuedCount ==
    ASSUME NEW rec \in MailboxRecord, NEW delay \in Nat
    PROVE  Requeued(rec, delay).attempt = rec.attempt /\ Requeued(rec, delay).state # "absent"
<1>1. GivenUp \in MessageStates /\ GivenUp # "absent" /\ "queued" # "absent"
  BY DEF GivenUp, MessageStates, Settled
<1>2. Requeued(rec, delay) \in {PutBack(rec, delay), Ended(rec, GivenUp)}
  BY Zenon DEF Requeued, PutBack, Ended
<1>3. /\ PutBack(rec, delay).state = "queued" /\ PutBack(rec, delay).attempt = rec.attempt
      /\ Ended(rec, GivenUp).state = GivenUp /\ Ended(rec, GivenUp).attempt = rec.attempt
  BY <1>1, RecordUpdates
<1> QED BY Zenon, <1>1, <1>2, <1>3

\* What the sweep of consume does to the records.
LEMMA SweepMovesOn ==
    ASSUME MailboxInv, NEW delay \in ReclaimDelays, NEW m \in Messages
    PROVE  /\ Swept(delay)[m].attempt = records[m].attempt
           /\ MovesOn(records[m], Swept(delay)[m])
           /\ Swept(delay)[m].state = "queued" => records[m].state \notin Settled
<1> DEFINE new == Swept(delay)[m]
<1>1. records[m] \in MailboxRecord
  BY Zenon DEF MailboxInv
<1>2. /\ m \in Stale => new = Requeued(records[m], delay[m])
      /\ m \notin Stale /\ m \in Lapsed => new = Ended(records[m], GivenUp)
      /\ m \notin Stale /\ m \notin Lapsed => new = records[m]
  BY Zenon DEF Swept, Ended
<1> HIDE DEF new
<1>3. m \in Stale => delay[m] \in Nat
  <2>1. delay \in [Stale -> 0..BackoffMax]
    BY Zenon DEF ReclaimDelays
  <2> QED BY <2>1, MailboxPolicyAssumption
<1>4. GivenUp \in MessageStates /\ GivenUp # "absent" /\ "queued" \notin Settled /\ "in_flight" \notin Settled
  BY DEF GivenUp, MessageStates, Settled
<1>5. CASE m \in Stale
  <2>1. records[m].state \notin Settled
    BY Zenon, <1>4, <1>5 DEF Stale
  <2>2. new.attempt = records[m].attempt /\ new.state # "absent"
    BY Zenon, <1>1, <1>2, <1>3, <1>5, RequeuedCount
  <2> QED BY Zenon, <2>1, <2>2, RecordMovesOn DEF new
<1>6. CASE m \notin Stale /\ m \in Lapsed
  <2>1. records[m].state \notin Settled
    BY Zenon, <1>4, <1>6 DEF Lapsed, InQueue
  <2>3. /\ Ended(records[m], GivenUp).state = GivenUp
        /\ Ended(records[m], GivenUp).attempt = records[m].attempt
    BY <1>1, <1>4, RecordUpdates
  <2>2. new.attempt = records[m].attempt /\ new.state # "absent"
    BY Zenon, <1>2, <1>4, <1>6, <2>3
  <2> QED BY Zenon, <2>1, <2>2, RecordMovesOn DEF new
<1>7. CASE m \notin Stale /\ m \notin Lapsed
  <2>1. new = records[m]
    BY Zenon, <1>2, <1>7
  <2>2. MovesOn(records[m], new)
    BY Zenon, <2>1, RecordMovesOn
  <2> QED BY Zenon, <1>4, <2>1, <2>2 DEF new
<1> QED BY Zenon, <1>5, <1>6, <1>7

\* A delivery is one of a message that is not settled, and is counted.
LEMMA DeliveryMovesOn ==
    ASSUME MailboxInv, NEW w \in Workers, NEW m \in Messages, Consume(w, m)
    PROVE  \A x \in Messages : MovesOn(records[x], records'[x])
<1>1. PICK delay \in ReclaimDelays, q \in SweptQueues :
        \E i \in 1..Len(q) :
           /\ FirstEligible(Swept(delay), q, i) /\ q[i] = m
           /\ records' = [Swept(delay) EXCEPT ![m] = Delivered(@, w)]
  BY Zenon DEF Consume
<1> DEFINE rs == Swept(delay)
<1>2. rs \in [Messages -> MailboxRecord]
  BY Zenon, SweptRecords
<1>3. rs[m].state = "queued"
  BY Zenon, <1>1 DEF FirstEligible
<1>4. records' = [rs EXCEPT ![m] = Delivered(rs[m], w)]
  BY Zenon, <1>1, <1>2
<1>5. /\ rs[m].attempt = records[m].attempt /\ records[m].state \notin Settled
      /\ \A x \in Messages : MovesOn(records[x], rs[x])
  BY Zenon, <1>3, SweepMovesOn
<1> HIDE DEF rs
<1>6. /\ records'[m] = Delivered(rs[m], w) /\ \A x \in Messages \ {m} : records'[x] = rs[x]
  BY Zenon, <1>2, <1>4
<1>7. records'[m].state = "in_flight" /\ records'[m].attempt = records[m].attempt + 1
  <2>1. rs[m] \in MailboxRecord
    BY Zenon, <1>2
  <2>2. /\ Delivered(rs[m], w).state = "in_flight"
        /\ Delivered(rs[m], w).attempt = rs[m].attempt + 1
    BY <2>1, Delivery
  <2> QED BY Zenon, <1>5, <1>6, <2>2
<1>8. MovesOn(records[m], records'[m])
  BY Zenon, <1>5, <1>7 DEF MovesOn
<1> QED BY Zenon, <1>5, <1>6, <1>8

\* publish: the message was not there.
LEMMA PublishMovesOn ==
    ASSUME MailboxInv, AbsentUncounted, NEW m \in Messages, NEW k, Publish(m, k)
    PROVE  \A x \in Messages : MovesOn(records[x], records'[x])
<1>1. /\ records[m].state = "absent" /\ records \in [Messages -> MailboxRecord]
      /\ records' = [records EXCEPT ![m] = NewRecord(m)]
  BY Zenon DEF Publish, MailboxInv
<1>2. records'[m] = NewRecord(m) /\ \A x \in Messages \ {m} : records'[x] = records[x]
  BY Zenon, <1>1
<1>3. records'[m].attempt = 0 /\ records'[m].state = "queued"
  BY <1>2 DEF NewRecord
<1>4. "absent" \notin Settled /\ "queued" # "absent"
  BY DEF Settled
<1>5. MovesOn(records[m], records'[m])
  BY Zenon, <1>1, <1>3, <1>4, RecordMovesOn DEF AbsentUncounted
<1> QED BY Zenon, <1>2, <1>5, RecordMovesOn

\* A record that is not settled ends its delivery.
LEMMA EndedMovesOn ==
    ASSUME MailboxInv, NEW m \in Messages, NEW s \in MessageStates \ {"absent"},
           records[m].state \notin Settled,
           NEW new, new = [records EXCEPT ![m] = Ended(records[m], s)]
    PROVE  \A x \in Messages : MovesOn(records[x], new[x])
<1>1. /\ new[m].state = s /\ \A x \in Messages : new[x].attempt = records[x].attempt
      /\ \A x \in Messages : x # m => new[x].state = records[x].state
  <2>1. records \in [Messages -> MailboxRecord] /\ s \in MessageStates /\ s # "absent"
    BY Zenon DEF MailboxInv
  <2>2. new[m] = Ended(records[m], s) /\ \A x \in Messages : x # m => new[x] = records[x]
    BY Zenon, <2>1
  <2>3. Ended(records[m], s).state = s /\ Ended(records[m], s).attempt = records[m].attempt
    BY <2>1, RecordUpdates
  <2> QED BY Zenon, <2>2, <2>3
<1> SUFFICES ASSUME NEW x \in Messages PROVE MovesOn(records[x], new[x])
  OBVIOUS
<1>2. CASE x = m
  BY Zenon, <1>1, <1>2, RecordMovesOn
<1>3. CASE x # m
  BY Zenon, <1>1, <1>3, RecordMovesOn
<1> QED BY Zenon, <1>2, <1>3

\* ack, nack and requeue
LEMMA DeliveryEndMovesOn ==
    ASSUME MailboxInv, NEW m \in Messages, NEW w, Ack(m, w) \/ Nack(m, w) \/ Requeue(m, w)
    PROVE  \A x \in Messages : MovesOn(records[x], records'[x])
<1>1. records \in [Messages -> MailboxRecord] /\ records[m] \in MailboxRecord
  BY Zenon DEF MailboxInv
<1>2. records[m].state \notin Settled
  <2>1. "in_flight" \notin Settled /\ "nacked" \notin Settled
    BY DEF Settled
  <2> QED BY Zenon, <2>1 DEF Ack, Nack, Requeue, RequireInflight
<1>3. {"acked", "nacked", "dead_letter"} \subseteq MessageStates \ {"absent"}
  BY DEF MessageStates, Settled
<1>4. CASE Ack(m, w)
  <2>1. records' = [records EXCEPT ![m] = Ended(records[m], "acked")]
    BY Zenon, <1>1, <1>4 DEF Ack, Ended
  <2> QED BY Zenon, <1>2, <1>3, <2>1, EndedMovesOn
<1>5. CASE Nack(m, w)
  <2> DEFINE s == IF DLQEnabled /\ records[m].attempt >= MaxAttempts THEN "dead_letter" ELSE "nacked"
  <2>1. records' = [records EXCEPT ![m] = Ended(records[m], s)]
    BY Zenon, <1>1, <1>5 DEF Nack, Ended
  <2>2. s \in MessageStates \ {"absent"}
    BY Zenon, <1>3
  <2> HIDE DEF s
  <2> QED BY Zenon, <1>2, <2>1, <2>2, EndedMovesOn
<1>6. CASE Requeue(m, w)
  <2>1. PICK delay \in Nat : records' = [records EXCEPT ![m] = Requeued(records[m], delay)]
    <3>1. \A n : RetryDelay(n) \subseteq Nat
      BY MailboxPolicyAssumption DEF RetryDelay
    <3> QED BY Zenon, <1>1, <1>6, <3>1 DEF Requeue, RequeueRecord
  <2>2. /\ records'[m] = Requeued(records[m], delay)
        /\ \A x \in Messages \ {m} : records'[x] = records[x]
    BY Zenon, <1>1, <2>1
  <2>3. MovesOn(records[m], records'[m])
    BY Zenon, <1>1, <1>2, <2>2, RequeuedCount, RecordMovesOn
  <2> QED BY Zenon, <2>2, <2>3, RecordMovesOn
<1> QED BY Zenon, <1>4, <1>5, <1>6

\* Every operation on messages.
LEMMA RecordsMoveOn ==
    ASSUME MailboxInv, AbsentUncounted, [Next]_mailboxState
    PROVE  \A x \in Messages : MovesOn(records[x], records'[x])
<1>1. records \in [Messages -> MailboxRecord]
  BY Zenon DEF MailboxInv
<1>2. ASSUME \A x \in Messages : /\ records'[x].state = records[x].state
                                /\ records'[x].attempt = records[x].attempt
      PROVE  \A x \in Messages : MovesOn(records[x], records'[x])
  BY Zenon, <1>2, RecordMovesOn
<1>3. ASSUME NEW m \in Messages, NEW k \in Keys, Publish(m, k)
      PROVE  \A x \in Messages : MovesOn(records[x], records'[x])
  BY Zenon, <1>3, PublishMovesOn
<1>4. ASSUME NEW m \in Messages, NEW w \in Workers, Consume(w, m)
      PROVE  \A x \in Messages : MovesOn(records[x], records'[x])
  BY Zenon, <1>4, DeliveryMovesOn
<1>5. CASE ConsumeNone
  <2>1. PICK delay \in ReclaimDelays : records' = Swept(delay)
    BY Zenon, <1>5 DEF ConsumeNone
  <2> QED BY Zenon, <2>1, SweepMovesOn
<1>6. ASSUME NEW m \in Messages, NEW w, Ack(m, w) \/ Nack(m, w) \/ Requeue(m, w)
      PROVE  \A x \in Messages : MovesOn(records[x], records'[x])
  BY Zenon, <1>6, DeliveryEndMovesOn
<1>7. ASSUME NEW m \in Messages, NEW w, Heartbeat(m, w)
      PROVE  \A x \in Messages : MovesOn(records[x], records'[x])
  <2>1. records' = [records EXCEPT ![m].lease = InflightTimeout] /\ InflightTimeout \in Nat
    BY <1>7, MailboxPolicyAssumption DEF Heartbeat
  <2>2. \A x \in Messages : /\ records'[x].state = records[x].state
                            /\ records'[x].attempt = records[x].attempt
    BY <1>1, <2>1, LeaseFacts
  <2> QED BY Zenon, <1>2, <2>2
<1>8. ASSUME NEW c \in Deliveries, NEW w, SaveContinuation(c, w)
      PROVE  \A x \in Messages : MovesOn(records[x], records'[x])
  <2>1. PauseTime \in Nat /\ c[1] \in Messages
    BY MailboxPolicyAssumption DEF Deliveries
  <2>2. records' = [records EXCEPT ![c[1]].lease = PauseTime]
    BY Zenon, <1>8 DEF SaveContinuation
  <2>3. \A x \in Messages : /\ records'[x].state = records[x].state
                            /\ records'[x].attempt = records[x].attempt
    BY <1>1, <2>1, <2>2, LeaseFacts
  <2> QED BY Zenon, <1>2, <2>3
<1>9. ASSUME records' = records PROVE \A x \in Messages : MovesOn(records[x], records'[x])
  BY Zenon, <1>2, <1>9
<1>10. ASSUME NEW c \in Deliveries, NEW r \in Resumers, NEW outcome,
              ClaimResume(c, r) \/ MarkRunning(c, r) \/ CommitResult(c, r, outcome)
       PROVE  \A x \in Messages : MovesOn(records[x], records'[x])
  BY Zenon, <1>9, <1>10 DEF ClaimResume, MarkRunning, CommitResult
<1>11. CASE Tick
  <2>1. \A x \in Messages : records'[x] = ElapseRecord(records[x])
    BY Zenon, <1>11 DEF Tick
  <2>2. \A x \in Messages : /\ ElapseRecord(records[x]).state = records[x].state
                            /\ ElapseRecord(records[x]).attempt = records[x].attempt
    BY <1>1, ElapseFacts
  <2> QED BY Zenon, <1>2, <2>1, <2>2
<1>12. CASE UNCHANGED mailboxState
  BY Zenon, <1>9, <1>12 DEF mailboxState
<1> QED BY ZenonT(60), <1>3, <1>4, <1>5, <1>6, <1>7, <1>8, <1>10, <1>11, <1>12 DEF Next

-----------------------------------------------------------------------------
(* Continuations *)

\* The assignments to a continuation.
LEMMA HostPlanUpdates ==
    ASSUME NEW p \in HostPlans
    PROVE  /\ \A r \in Resumers :
                 LET q == [p EXCEPT !.claim = "claimed", !.identity = r]
                 IN  q \in HostPlans /\ (p.claim = "none" => ClaimMovesOn(p, q))
           /\ LET q == [p EXCEPT !.claim = "running"]
              IN  q \in HostPlans /\ (p.claim = "claimed" => ClaimMovesOn(p, q))
           /\ \A s \in MessageStates :
                 LET q == [p EXCEPT !.claim = "completed", !.result = s]
                 IN  /\ q \in HostPlans
                     /\ p.claim \in {"claimed", "running"} => ClaimMovesOn(p, q)
           /\ ElapseContinuation(p) \in HostPlans /\ ClaimMovesOn(p, ElapseContinuation(p))
<1>1. "none" # "completed" /\ "claimed" # "completed" /\ "running" # "completed" /\ "claimed" # "none"
      /\ "running" # "none" /\ "completed" # "none"
  OBVIOUS
<1>2. ASSUME NEW r \in Resumers
      PROVE  LET q == [p EXCEPT !.claim = "claimed", !.identity = r]
             IN  q \in HostPlans /\ (p.claim = "none" => ClaimMovesOn(p, q))
  BY Zenon, <1>1 DEF HostPlans, ClaimMovesOn
<1>3. LET q == [p EXCEPT !.claim = "running"]
      IN  q \in HostPlans /\ (p.claim = "claimed" => ClaimMovesOn(p, q))
  BY Zenon, <1>1 DEF HostPlans, ClaimMovesOn
<1>4. ASSUME NEW s \in MessageStates
      PROVE  LET q == [p EXCEPT !.claim = "completed", !.result = s]
             IN  /\ q \in HostPlans
                 /\ p.claim \in {"claimed", "running"} => ClaimMovesOn(p, q)
  BY Zenon, <1>1 DEF HostPlans, ClaimMovesOn
<1>5. ElapseContinuation(p) \in HostPlans /\ ClaimMovesOn(p, ElapseContinuation(p))
  <2>1. \A t \in Nat : Down(t) \in Nat
    BY DEF Down
  <2> QED BY Zenon, <2>1 DEF HostPlans, ElapseContinuation, ClaimMovesOn
<1> QED BY Zenon, <1>2, <1>3, <1>4, <1>5

\* One continuation becomes another, and the rest stay.
LEMMA OneHostPlan ==
    ASSUME HostPlansTyped, NEW c \in DOMAIN continuations, NEW q \in HostPlans,
           ClaimMovesOn(continuations[c], q),
           NEW new, DOMAIN new = DOMAIN continuations, new[c] = q,
           \A d \in DOMAIN continuations : d # c => new[d] = continuations[d]
    PROVE  /\ \A d \in DOMAIN new : new[d] \in HostPlans
           /\ \A d \in DOMAIN continuations :
                 d \in DOMAIN new /\ ClaimMovesOn(continuations[d], new[d])
BY Zenon DEF HostPlansTyped, ClaimMovesOn

ClaimsMoveOn ==
    /\ HostPlansTyped'
    /\ \A c \in DOMAIN continuations :
          c \in DOMAIN continuations' /\ ClaimMovesOn(continuations[c], continuations'[c])

\* The operations on continuations.
LEMMA HostPlansMoveOn ==
    ASSUME MailboxInv, HostPlansTyped, [Next]_mailboxState
    PROVE  ClaimsMoveOn
<1>1. ASSUME continuations' = continuations PROVE ClaimsMoveOn
  BY Zenon, <1>1 DEF ClaimsMoveOn, HostPlansTyped, ClaimMovesOn
<1>2. ASSUME NEW c, NEW w \in ContinuationWorkers, SaveContinuation(c, w) PROVE ClaimsMoveOn
  <2> DEFINE plan == [consumer |-> w, expires |-> PauseTime, claim |-> "none",
                      identity |-> NoOne, result |-> ""]
  <2>1. /\ c \notin DOMAIN continuations
        /\ continuations' = [d \in DOMAIN continuations \cup {c} |->
                                IF d = c THEN plan ELSE continuations[d]]
    BY Zenon, <1>2 DEF SaveContinuation, CanSave
  <2>2. plan \in HostPlans
    <3>1. PauseTime \in Nat /\ w \in Workers
      BY MailboxPolicyAssumption, MailboxIdsAssumption
    <3> QED BY <3>1 DEF HostPlans
  <2> HIDE DEF plan
  <2>3. /\ DOMAIN continuations' = DOMAIN continuations \cup {c} /\ continuations'[c] = plan
        /\ \A d \in DOMAIN continuations : continuations'[d] = continuations[d]
    BY Zenon, <2>1
  <2> QED BY Zenon, <2>2, <2>3 DEF ClaimsMoveOn, HostPlansTyped, ClaimMovesOn
<1>3. ASSUME NEW c, NEW q \in HostPlans, c \in DOMAIN continuations,
             ClaimMovesOn(continuations[c], q), continuations' = [continuations EXCEPT ![c] = q]
      PROVE  ClaimsMoveOn
  <2>1. /\ DOMAIN continuations' = DOMAIN continuations /\ continuations'[c] = q
        /\ \A d \in DOMAIN continuations : d # c => continuations'[d] = continuations[d]
    BY Zenon, <1>3
  <2> QED BY Zenon, <1>3, <2>1, OneHostPlan DEF ClaimsMoveOn, HostPlansTyped
<1>4. ASSUME NEW c, NEW r \in Resumers, ClaimResume(c, r) PROVE ClaimsMoveOn
  <2> DEFINE q == [continuations[c] EXCEPT !.claim = "claimed", !.identity = r]
  <2>1. /\ c \in DOMAIN continuations /\ continuations[c].claim = "none"
        /\ continuations' = [continuations EXCEPT ![c] = q]
    BY Zenon, <1>4 DEF ClaimResume, CanClaim
  <2>2. q \in HostPlans /\ ClaimMovesOn(continuations[c], q)
    BY Zenon, <2>1, HostPlanUpdates DEF HostPlansTyped
  <2> HIDE DEF q
  <2> QED BY Zenon, <1>3, <2>1, <2>2
<1>5. ASSUME NEW c, NEW r \in Resumers, MarkRunning(c, r) PROVE ClaimsMoveOn
  <2> DEFINE q == [continuations[c] EXCEPT !.claim = "running"]
  <2>1. /\ c \in DOMAIN continuations /\ continuations[c].claim = "claimed"
        /\ continuations' = [continuations EXCEPT ![c] = q]
    BY Zenon, <1>5 DEF MarkRunning, ClaimIn
  <2>2. q \in HostPlans /\ ClaimMovesOn(continuations[c], q)
    BY Zenon, <2>1, HostPlanUpdates DEF HostPlansTyped
  <2> HIDE DEF q
  <2> QED BY Zenon, <1>3, <2>1, <2>2
<1>6. ASSUME NEW c \in Deliveries, NEW r \in Resumers, CommitResult(c, r, records[c[1]].state)
      PROVE  ClaimsMoveOn
  <2> DEFINE s == records[c[1]].state
             q == [continuations[c] EXCEPT !.claim = "completed", !.result = s]
  <2>1. /\ c \in DOMAIN continuations /\ continuations[c].claim \in {"claimed", "running"}
        /\ continuations' = [continuations EXCEPT ![c] = q]
    BY Zenon, <1>6 DEF CommitResult, ClaimIn
  <2>2. s \in MessageStates
    <3>1. c[1] \in Messages
      BY DEF Deliveries
    <3>2. records[c[1]] \in MailboxRecord
      BY Zenon, <3>1 DEF MailboxInv
    <3> QED BY Zenon, <3>2 DEF MailboxRecord
  <2> HIDE DEF s
  <2>3. q \in HostPlans /\ ClaimMovesOn(continuations[c], q)
    BY Zenon, <2>1, <2>2, HostPlanUpdates DEF HostPlansTyped
  <2> HIDE DEF q
  <2> QED BY Zenon, <1>3, <2>1, <2>3
<1>7. CASE Tick
  <2>1. /\ DOMAIN continuations' = DOMAIN continuations
        /\ \A c \in DOMAIN continuations : continuations'[c] = ElapseContinuation(continuations[c])
    BY Zenon, <1>7 DEF Tick
  <2>2. \A c \in DOMAIN continuations :
           /\ ElapseContinuation(continuations[c]) \in HostPlans
           /\ ClaimMovesOn(continuations[c], ElapseContinuation(continuations[c]))
    BY Zenon, HostPlanUpdates DEF HostPlansTyped
  <2> QED BY Zenon, <2>1, <2>2 DEF ClaimsMoveOn, HostPlansTyped
<1>8. ASSUME NEW m, NEW k, NEW w,
             \/ Publish(m, k) \/ Consume(w, m) \/ Heartbeat(m, w) \/ Ack(m, w) \/ Nack(m, w)
             \/ Requeue(m, w)
      PROVE  ClaimsMoveOn
  BY Zenon, <1>1, <1>8
  DEF Publish, Consume, Heartbeat, Ack, Nack, Requeue, RequeueRecord
<1>9. CASE ConsumeNone \/ UNCHANGED mailboxState
  BY Zenon, <1>1, <1>9 DEF ConsumeNone, mailboxState
<1> QED BY ZenonT(60), <1>2, <1>4, <1>5, <1>6, <1>7, <1>8, <1>9 DEF Next

\* A key is published once.
LEMMA KeysStand ==
    ASSUME [Next]_mailboxState, NEW k \in DOMAIN idempotency
    PROVE  k \in DOMAIN idempotency' /\ idempotency'[k] = idempotency[k]
<1>1. ASSUME NEW m, NEW key, Publish(m, key)
      PROVE  k \in DOMAIN idempotency' /\ idempotency'[k] = idempotency[k]
  BY Zenon, <1>1 DEF Publish
<1>2. ASSUME idempotency' = idempotency
      PROVE  k \in DOMAIN idempotency' /\ idempotency'[k] = idempotency[k]
  BY Zenon, <1>2
<1>3. ASSUME ~\E m \in Messages, key \in Keys : Publish(m, key) PROVE idempotency' = idempotency
  BY ZenonT(60), <1>3
  DEF Next, mailboxState, Consume, Heartbeat, Ack, Nack, Requeue, RequeueRecord, ConsumeNone,
      SaveContinuation, ClaimResume, MarkRunning, CommitResult, Tick
<1> QED BY Zenon, <1>1, <1>2, <1>3

ForwardInv == MailboxInv /\ AbsentUncounted /\ HostPlansTyped

\* Nothing is published or paused at first.
LEMMA ForwardInitially == Init => ForwardInv
<1> SUFFICES ASSUME Init PROVE ForwardInv
  OBVIOUS
<1>1. AbsentUncounted
  <2>1. \A m \in Messages : Absent(m).attempt = 0
    BY Zenon DEF Absent, NewRecord
  <2> QED BY Zenon, <2>1 DEF Init, AbsentUncounted
<1>2. HostPlansTyped
  BY DEF Init, HostPlansTyped
<1> QED BY Zenon, <1>1, <1>2, MailboxInitially DEF ForwardInv

\* Every operation takes the mailbox forward, and leaves the invariant.
LEMMA ForwardStep == ForwardInv /\ [Next]_mailboxState => ForwardInv' /\ MailboxGoesForward
<1> SUFFICES ASSUME ForwardInv, [Next]_mailboxState PROVE ForwardInv' /\ MailboxGoesForward
  OBVIOUS
<1>1. MailboxInv /\ AbsentUncounted /\ HostPlansTyped
  BY Zenon DEF ForwardInv
<1>2. MailboxInv' /\ ClaimsMoveOn /\ \A m \in Messages : MovesOn(records[m], records'[m])
  BY Zenon, <1>1, MailboxStep, HostPlansMoveOn, RecordsMoveOn
<1>3. \A k \in DOMAIN idempotency : k \in DOMAIN idempotency' /\ idempotency'[k] = idempotency[k]
  BY Zenon, KeysStand
<1>4. AbsentUncounted'
  <2>1. "in_flight" # "absent"
    OBVIOUS
  <2> QED BY Zenon, <1>1, <1>2, <2>1 DEF AbsentUncounted, MovesOn
<1> QED BY Zenon, <1>2, <1>3, <1>4 DEF ForwardInv, MailboxGoesForward, ClaimsMoveOn

\* The mailbox takes nothing back: no late call on a settled message changes it,
\* deliveries are counted one by one, and a committed result stays.
THEOREM MailboxForward == Spec => [][MailboxGoesForward]_mailboxState
BY ForwardInitially, ForwardStep, PTL DEF Spec
=============================================================================
