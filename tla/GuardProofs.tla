----------------------------- MODULE GuardProofs -----------------------------
(***************************************************************************)
(* The parts that guard calls out of the runtime, for any number of        *)
(* callers and any settings: the circuit breakers of the alert delivery    *)
(* and of the health probes leave no slot behind, the queue of the alerts  *)
(* keeps whom it took, and the exporter leaves no worker behind and no     *)
(* event that it accepted.                                                 *)
(*                                                                         *)
(* The slots are counted against the calls that run.  For the alerts the   *)
(* invariant says besides that only a half-open circuit has slots in use,  *)
(* and that what is queued is not under way: an alert that is dropped from *)
(* the queue, or taken from it, holds no slot.  For the exporter it says   *)
(* that the events a worker has are not those of a call that still has a   *)
(* worker to cancel, and that the worker in use is neither canceled nor    *)
(* about to be.                                                            *)
(*                                                                         *)
(* OneStoryPerTask of A2A, for any number of calls and tasks and any retry *)
(* policy. The invariant says why: of the calls that were acknowledged, no *)
(* two are for one task (the server takes a task id once), a final status  *)
(* stays, and every report the sink has taken is the report of the one     *)
(* call that was acknowledged for its task.                                *)
(***************************************************************************)
EXTENDS A2A, AlertDelivery, HealthProbe, RuntimeExporter, FiniteSetTheorems, TLAPS

USE SMTT(30)

-----------------------------------------------------------------------------
(* Lists *)

\* The first entry of a list, and the rest.
LEMMA FirstOut ==
    ASSUME NEW S, NEW s \in Seq(S), s # <<>>
    PROVE  /\ Head(s) \in S /\ Tail(s) \in Seq(S) /\ Len(Tail(s)) = Len(s) - 1
           /\ \A i \in 1..Len(Tail(s)) : Tail(s)[i] = s[i + 1]
OBVIOUS

\* A list with one more entry.
LEMMA LastIn ==
    ASSUME NEW S, NEW s \in Seq(S), NEW e \in S
    PROVE  /\ Append(s, e) \in Seq(S) /\ Append(s, e) # <<>> /\ Len(Append(s, e)) = Len(s) + 1
           /\ \A i \in 1..Len(s) : Append(s, e)[i] = s[i]
           /\ Append(s, e)[Len(s) + 1] = e
OBVIOUS

\* A list with one entry replaced.
LEMMA EntrySet ==
    ASSUME NEW S, NEW s \in Seq(S), NEW i \in 1..Len(s), NEW e \in S
    PROVE  /\ [s EXCEPT ![i] = e] \in Seq(S) /\ Len([s EXCEPT ![i] = e]) = Len(s)
           /\ \A j \in 1..Len(s) : [s EXCEPT ![i] = e][j] = IF j = i THEN e ELSE s[j]
OBVIOUS

\* In the list new entry i is e, and the rest is as in s.
EntryIs(s, new, i, e) ==
    Len(new) = Len(s) /\ \A j \in 1..Len(s) : new[j] = IF j = i THEN e ELSE s[j]

LEMMA EntryReplaced ==
    ASSUME NEW S, NEW s \in Seq(S), NEW i \in 1..Len(s), NEW e \in S
    PROVE  EntryIs(s, [s EXCEPT ![i] = e], i, e)
BY EntrySet DEF EntryIs

\* An entry of a list is what the list is of.
LEMMA ListEntry ==
    ASSUME NEW S, NEW s \in Seq(S), NEW i \in 1..Len(s)
    PROVE  s[i] \in S
OBVIOUS

\* A list that has no entry twice.
Once(s) == \A i, j \in 1..Len(s) : s[i] = s[j] => i = j

\* Taking the first entry out of such a list takes it out of its entries.
LEMMA OnceOut ==
    ASSUME NEW S, NEW s \in Seq(S), s # <<>>, Once(s)
    PROVE  /\ Head(s) \in Events(s) /\ Events(Tail(s)) = Events(s) \ {Head(s)}
           /\ Once(Tail(s))
<1>1. /\ Head(s) = s[1] /\ Len(s) \in Nat /\ Len(s) > 0 /\ Len(Tail(s)) = Len(s) - 1
      /\ \A i \in 1..Len(Tail(s)) : Tail(s)[i] = s[i + 1]
      /\ DOMAIN s = 1..Len(s) /\ DOMAIN Tail(s) = 1..Len(Tail(s))
    BY FirstOut
<1>2. Head(s) \in Events(s)
    BY <1>1 DEF Events
<1>3. Once(Tail(s))
    BY <1>1 DEF Once
<1>4. \A x : x \in Events(Tail(s)) <=> x \in Events(s) \ {Head(s)}
    <2>1. ASSUME NEW i \in 1..Len(Tail(s)) PROVE Tail(s)[i] \in Events(s) \ {Head(s)}
        BY <1>1, <2>1 DEF Events, Once
    <2>2. ASSUME NEW i \in 1..Len(s), s[i] # Head(s) PROVE s[i] \in Events(Tail(s))
        <3>1. i - 1 \in 1..Len(Tail(s)) /\ (i - 1) + 1 = i
            BY <1>1, <2>2
        <3>2. Tail(s)[i - 1] = s[i]
            BY <1>1, <3>1
        <3> QED BY Zenon, <1>1, <3>1, <3>2 DEF Events
    <2> QED BY ZenonT(60), <1>1, <2>1, <2>2 DEF Events
<1> QED BY Zenon, <1>2, <1>3, <1>4

\* A new entry at the end of such a list.
LEMMA OnceIn ==
    ASSUME NEW S, NEW s \in Seq(S), NEW e \in S, e \notin Events(s), Once(s)
    PROVE  Events(Append(s, e)) = Events(s) \cup {e} /\ Once(Append(s, e))
<1>1. /\ Len(s) \in Nat /\ Len(Append(s, e)) = Len(s) + 1
      /\ \A i \in 1..Len(s) : Append(s, e)[i] = s[i]
      /\ Append(s, e)[Len(s) + 1] = e
      /\ DOMAIN s = 1..Len(s) /\ DOMAIN Append(s, e) = 1..(Len(s) + 1)
    BY LastIn
<1>2. \A x : x \in Events(Append(s, e)) <=> x \in Events(s) \cup {e}
    BY <1>1 DEF Events
<1>3. \A i \in 1..(Len(s) + 1) : i \in 1..Len(s) \/ i = Len(s) + 1
    BY <1>1
<1>4. \A i \in 1..Len(s) : Append(s, e)[i] # e
    BY <1>1 DEF Events
<1>5. Once(Append(s, e))
    BY <1>1, <1>3, <1>4 DEF Once
<1> QED BY Zenon, <1>2, <1>5

-----------------------------------------------------------------------------
(* Alert delivery *)

AlertRecords ==
    [at : {"none", "admitted", "queued", "dropped", "starting", "calling", "backoff",
           "failed", "delivered"},
     sync : BOOLEAN, tries : Nat]

Breakers ==
    [state : {"closed", "open", "half_open"}, failures : Nat, age : Nat, inFlight : Nat]

CallingAlerts == {a \in Alerts : alert[a].at = "calling"}

QueuedOnce ==
    /\ \A i \in 1..Len(alertQueue) : alert[alertQueue[i]].at = "queued"
    /\ \A i, j \in 1..Len(alertQueue) : alertQueue[i] = alertQueue[j] => i = j

SlotsWhileHalfOpen(b) == b \in Breakers /\ (b.state # "half_open" => b.inFlight = 0)

AlertInv ==
    /\ alert \in [Alerts -> AlertRecords]
    /\ alertQueue \in Seq(Alerts)
    /\ QueuedOnce
    /\ SlotsWhileHalfOpen(breaker)
    /\ AlertSlotsInUse

\* The time passing changes no slot.
LEMMA SeenSlots ==
    ASSUME NEW b, SlotsWhileHalfOpen(b)
    PROVE  SlotsWhileHalfOpen(Seen(b)) /\ Seen(b).inFlight = b.inFlight
BY DEF SlotsWhileHalfOpen, Seen, Breakers

\* An attempt that starts takes at most one slot.
LEMMA StartedSlots ==
    ASSUME NEW b, SlotsWhileHalfOpen(b)
    PROVE  SlotsWhileHalfOpen(Started(b)) /\ Started(b).inFlight <= b.inFlight + 1
BY DEF SlotsWhileHalfOpen, Started, Breakers

\* An attempt that ends gives one back, if any is in use.
LEMMA FinishedSlots ==
    ASSUME NEW b, SlotsWhileHalfOpen(b), NEW success \in BOOLEAN
    PROVE  /\ SlotsWhileHalfOpen(Finished(b, success))
           /\ \/ Finished(b, success).inFlight = 0
              \/ Finished(b, success).inFlight <= b.inFlight - 1
<1> USE AlertAssumption DEF SlotsWhileHalfOpen, Breakers, Opened, Closed
<1>1. CASE b.state = "half_open"
    BY <1>1 DEF Finished, FinishedHalfOpen
<1>2. CASE b.state = "open"
    BY <1>2 DEF Finished
<1>3. CASE b.state = "closed"
    BY <1>3 DEF Finished
<1> QED BY <1>1, <1>2, <1>3

\* The calls under way are finitely many.
LEMMA CallingIsFinite ==
    IsFiniteSet(CallingAlerts) /\ Cardinality(CallingAlerts) \in Nat
BY AlertAssumption, FS_Subset, FS_CardinalityType DEF CallingAlerts

\* A change that leaves the calls under way and takes no slot keeps the slots in use.
LEMMA SameCalls ==
    ASSUME AlertInv, CallingAlerts' = CallingAlerts,
           SlotsWhileHalfOpen(breaker'), breaker'.inFlight = breaker.inFlight
    PROVE  AlertSlotsInUse'
BY Zenon DEF AlertInv, AlertSlotsInUse, CallingAlerts

\* AlertInv holds initially.
LEMMA AlertInvInit == AlertInit => AlertInv
<1> SUFFICES ASSUME AlertInit PROVE AlertInv
    OBVIOUS
<1> USE DEF AlertInit
<1>1. alert \in [Alerts -> AlertRecords] /\ alertQueue \in Seq(Alerts)
    BY DEF AlertRecords
<1>2. QueuedOnce
    BY DEF QueuedOnce
<1>3. SlotsWhileHalfOpen(breaker) /\ breaker.inFlight = 0
    BY AlertAssumption DEF SlotsWhileHalfOpen, Breakers
<1>4. AlertSlotsInUse
    BY <1>3, CallingIsFinite DEF AlertSlotsInUse, CallingAlerts
<1> QED BY <1>1, <1>2, <1>3, <1>4 DEF AlertInv

\* The steps of an alert that leave the queue alone: a was not queued and is not.
LEMMA OneAlertMoves ==
    ASSUME AlertInv, NEW a \in Alerts, NEW r \in AlertRecords,
           alert[a].at # "queued", alert' = [alert EXCEPT ![a] = r], alertQueue' = alertQueue
    PROVE  /\ alert' \in [Alerts -> AlertRecords] /\ alertQueue' \in Seq(Alerts) /\ QueuedOnce'
           /\ CallingAlerts' = IF r.at = "calling" THEN CallingAlerts \cup {a} ELSE CallingAlerts \ {a}
           /\ r.at # "calling" /\ a \notin CallingAlerts => CallingAlerts' = CallingAlerts
<1> USE DEF AlertInv
<1>1. alert' \in [Alerts -> AlertRecords] /\ alertQueue' \in Seq(Alerts)
    OBVIOUS
<1>2. QueuedOnce'
    BY DEF QueuedOnce
<1>3. CallingAlerts' = IF r.at = "calling" THEN CallingAlerts \cup {a} ELSE CallingAlerts \ {a}
    BY DEF CallingAlerts
<1>4. r.at # "calling" /\ a \notin CallingAlerts => CallingAlerts' = CallingAlerts
    BY DEF CallingAlerts
<1> QED BY <1>1, <1>2, <1>3, <1>4

\* AlertInv is kept by every step.
LEMMA AlertInvNext == AlertInv /\ [AlertNext]_alertVars => AlertInv'
<1> SUFFICES ASSUME AlertInv, [AlertNext]_alertVars PROVE AlertInv'
    OBVIOUS
<1>0. /\ alert \in [Alerts -> AlertRecords] /\ alertQueue \in Seq(Alerts)
      /\ SlotsWhileHalfOpen(breaker) /\ SlotsWhileHalfOpen(Seen(breaker))
      /\ Seen(breaker).inFlight = breaker.inFlight /\ breaker.inFlight \in Nat
      /\ breaker.inFlight <= Cardinality(CallingAlerts)
    BY SeenSlots DEF AlertInv, AlertSlotsInUse, CallingAlerts, SlotsWhileHalfOpen, Breakers
<1>1. ASSUME NEW a \in Alerts, DispatchSync(a) PROVE AlertInv'
    <2> DEFINE r == [at |-> "starting", sync |-> TRUE, tries |-> 1]
    <2>1. r \in AlertRecords /\ alert[a].at # "queued" /\ alert' = [alert EXCEPT ![a] = r]
        BY <1>1 DEF DispatchSync, AlertRecords
    <2>2. a \notin CallingAlerts /\ r.at # "calling" /\ alertQueue' = alertQueue /\ breaker' = breaker
        BY <1>1 DEF DispatchSync, CallingAlerts
    <2> HIDE DEF r
    <2>3. /\ alert' \in [Alerts -> AlertRecords] /\ alertQueue' \in Seq(Alerts) /\ QueuedOnce'
          /\ CallingAlerts' = CallingAlerts
        BY <2>1, <2>2, OneAlertMoves, Zenon
    <2>4. AlertSlotsInUse'
        BY <1>0, <2>2, <2>3, SameCalls
    <2> QED BY <1>0, <2>2, <2>3, <2>4 DEF AlertInv
<1>2. ASSUME NEW a \in Alerts, DispatchAsync(a) PROVE AlertInv'
    <2> DEFINE r == [alert[a] EXCEPT !.at = IF Blocks(Seen(breaker)) THEN "failed" ELSE "admitted"]
    <2>1. r \in AlertRecords /\ alert[a].at # "queued" /\ alert' = [alert EXCEPT ![a] = r]
        BY <1>0, <1>2 DEF DispatchAsync, Goto, AlertRecords
    <2>2. /\ a \notin CallingAlerts /\ r.at # "calling"
          /\ alertQueue' = alertQueue /\ breaker' = Seen(breaker)
        BY <1>0, <1>2 DEF DispatchAsync, CallingAlerts, AlertRecords
    <2> HIDE DEF r
    <2>3. /\ alert' \in [Alerts -> AlertRecords] /\ alertQueue' \in Seq(Alerts) /\ QueuedOnce'
          /\ CallingAlerts' = CallingAlerts
        BY <2>1, <2>2, OneAlertMoves, Zenon
    <2>4. AlertSlotsInUse'
        BY <1>0, <2>2, <2>3, SameCalls
    <2> QED BY <1>0, <2>2, <2>3, <2>4 DEF AlertInv
<1>3. ASSUME NEW a \in Alerts, EnqueueAlert(a) PROVE AlertInv'
    <2> DEFINE full == Len(alertQueue) >= AlertQueueSize
               rest == IF full THEN Tail(alertQueue) ELSE alertQueue
    <2>1. full => alertQueue # <<>>
        BY <1>0, AlertAssumption
    <2>2. /\ rest \in Seq(Alerts) /\ (full => Head(alertQueue) = alertQueue[1])
          /\ \A i \in 1..Len(rest) : rest[i] = alertQueue[IF full THEN i + 1 ELSE i]
          /\ Len(rest) = IF full THEN Len(alertQueue) - 1 ELSE Len(alertQueue)
        BY <1>0, <2>1, FirstOut
    <2>3. /\ alert[a].at = "admitted" /\ alertQueue' = Append(rest, a) /\ breaker' = Seen(breaker)
          /\ alert' = [b \in Alerts |->
                         IF b = a THEN [alert[a] EXCEPT !.at = "queued"]
                         ELSE IF full /\ b = Head(alertQueue) THEN [alert[b] EXCEPT !.at = "dropped"]
                         ELSE alert[b]]
        BY <1>3 DEF EnqueueAlert
    <2>4. alert' \in [Alerts -> AlertRecords]
        BY <1>0, <2>3, ZenonT(60) DEF AlertRecords
    <2>5. /\ alertQueue' \in Seq(Alerts) /\ Len(alertQueue') = Len(rest) + 1
          /\ \A i \in 1..Len(rest) : alertQueue'[i] = rest[i]
          /\ alertQueue'[Len(rest) + 1] = a
        BY <2>2, <2>3, LastIn
    <2>6. /\ \A i \in 1..Len(rest) : rest[i] \in Alerts /\ alert[rest[i]].at = "queued"
          /\ \A i, j \in 1..Len(rest) : rest[i] = rest[j] => i = j
          /\ full => \A i \in 1..Len(rest) : rest[i] # Head(alertQueue)
        BY <1>0, <2>1, <2>2 DEF AlertInv, QueuedOnce
    <2>7. QueuedOnce'
        <3> HIDE DEF rest, full
        <3>1. \A i \in 1..Len(rest) : rest[i] # a /\ alert'[rest[i]].at = "queued"
            BY <2>3, <2>6
        <3>2. alert'[a].at = "queued"
            BY <1>0, <2>3 DEF AlertRecords
        <3>3. \A i \in 1..Len(alertQueue') : i \in 1..Len(rest) \/ i = Len(rest) + 1
            BY <1>0, <2>2, <2>5
        <3>4. \A i \in 1..Len(alertQueue') : alert'[alertQueue'[i]].at = "queued"
            BY <2>5, <3>1, <3>2, <3>3
        <3>5. \A i, j \in 1..Len(alertQueue') : alertQueue'[i] = alertQueue'[j] => i = j
            BY <2>5, <2>6, <3>1, <3>3
        <3> QED BY <3>4, <3>5 DEF QueuedOnce
    <2>8. CallingAlerts' = CallingAlerts
        <3>1. full => alert[Head(alertQueue)].at = "queued"
            BY <1>0, <2>1, <2>2 DEF AlertInv, QueuedOnce
        <3> QED BY <1>0, <2>3, <3>1 DEF CallingAlerts, AlertRecords
    <2>9. AlertSlotsInUse'
        BY <1>0, <2>3, <2>8, SameCalls
    <2> QED BY <1>0, <2>3, <2>4, <2>5, <2>7, <2>9 DEF AlertInv
<1>4. ASSUME NEW a \in Alerts, StartAlertAttempt(a) PROVE AlertInv'
    <2> DEFINE r(where) == [alert[a] EXCEPT !.at = where]
    <2>1. /\ r("failed") \in AlertRecords /\ r("calling") \in AlertRecords
          /\ r("failed").at = "failed" /\ r("calling").at = "calling"
          /\ alert[a].at = "starting" /\ a \notin CallingAlerts
        BY Zenon, <1>0, <1>4 DEF StartAlertAttempt, AlertRecords, CallingAlerts
    <2>2. CASE /\ breaker' = Seen(breaker) /\ alertQueue' = alertQueue
               /\ alert' = [alert EXCEPT ![a] = r("failed")]
        <3> HIDE DEF r
        <3>1. /\ alert' \in [Alerts -> AlertRecords] /\ alertQueue' \in Seq(Alerts) /\ QueuedOnce'
              /\ CallingAlerts' = CallingAlerts
            BY <2>1, <2>2, OneAlertMoves, Zenon
        <3>2. AlertSlotsInUse'
            BY <1>0, <2>2, <3>1, SameCalls
        <3> QED BY <1>0, <2>2, <3>1, <3>2 DEF AlertInv
    <2>3. CASE /\ breaker' = Started(Seen(breaker)) /\ alertQueue' = alertQueue
               /\ alert' = [alert EXCEPT ![a] = r("calling")]
        <3> HIDE DEF r
        <3>1. /\ alert' \in [Alerts -> AlertRecords] /\ alertQueue' \in Seq(Alerts) /\ QueuedOnce'
              /\ CallingAlerts' = CallingAlerts \cup {a}
            BY <2>1, <2>3, OneAlertMoves, Zenon
        <3>2. Cardinality(CallingAlerts') = Cardinality(CallingAlerts) + 1
            BY <2>1, <3>1, CallingIsFinite, FS_AddElement, Zenon
        <3>3. SlotsWhileHalfOpen(breaker') /\ breaker'.inFlight <= breaker.inFlight + 1
            BY <1>0, <2>3, StartedSlots
        <3>4. AlertSlotsInUse'
            BY <1>0, <3>2, <3>3, CallingIsFinite DEF AlertSlotsInUse, CallingAlerts, SlotsWhileHalfOpen, Breakers
        <3> QED BY <3>1, <3>3, <3>4 DEF AlertInv
    <2> QED BY <1>4, <2>2, <2>3 DEF StartAlertAttempt, Goto
<1>5. ASSUME NEW a \in Alerts, CallbackReturns(a) PROVE AlertInv'
    <2>1. PICK success \in BOOLEAN :
            /\ breaker' = Finished(Seen(breaker), success)
            /\ Goto(a, IF success THEN "delivered"
                       ELSE IF alert[a].tries < AlertMaxAttempts THEN "backoff" ELSE "failed")
        BY <1>5 DEF CallbackReturns
    <2> DEFINE r == [alert[a] EXCEPT !.at = IF success THEN "delivered"
                        ELSE IF alert[a].tries < AlertMaxAttempts THEN "backoff" ELSE "failed"]
    <2>2. /\ r \in AlertRecords /\ r.at # "calling" /\ alert[a].at = "calling"
          /\ a \in CallingAlerts /\ alertQueue' = alertQueue
        BY <1>0, <1>5 DEF CallbackReturns, AlertRecords, CallingAlerts
    <2>3. alert' = [alert EXCEPT ![a] = r]
        BY <1>0, <2>1 DEF Goto, AlertRecords
    <2> HIDE DEF r
    <2>4. /\ alert' \in [Alerts -> AlertRecords] /\ alertQueue' \in Seq(Alerts) /\ QueuedOnce'
          /\ CallingAlerts' = CallingAlerts \ {a}
        BY <2>2, <2>3, OneAlertMoves, Zenon
    <2>5. /\ Cardinality(CallingAlerts') = Cardinality(CallingAlerts) - 1
          /\ Cardinality(CallingAlerts') \in Nat
        BY <2>2, <2>4, CallingIsFinite, FS_RemoveElement, FS_CardinalityType
    <2>6. /\ SlotsWhileHalfOpen(breaker')
          /\ breaker'.inFlight = 0 \/ breaker'.inFlight <= breaker.inFlight - 1
        BY <1>0, <2>1, FinishedSlots
    <2>7. AlertSlotsInUse'
        BY <1>0, <2>5, <2>6, CallingIsFinite DEF AlertSlotsInUse, CallingAlerts, SlotsWhileHalfOpen, Breakers
    <2> QED BY <2>4, <2>6, <2>7 DEF AlertInv
<1>6. ASSUME NEW a \in Alerts, BackoffEnds(a) \/ BackoffCanceled(a) PROVE AlertInv'
    <2>1. PICK r \in AlertRecords :
            /\ r.at # "calling" /\ alert' = [alert EXCEPT ![a] = r]
        <3>1. CASE BackoffEnds(a)
            <4> DEFINE r == [alert[a] EXCEPT !.at = "starting", !.tries = @ + 1]
            <4>1. r \in AlertRecords /\ r.at # "calling" /\ alert' = [alert EXCEPT ![a] = r]
                BY <1>0, <3>1 DEF BackoffEnds, AlertRecords
            <4> QED BY <4>1, Zenon
        <3>2. CASE BackoffCanceled(a)
            <4> DEFINE r == [alert[a] EXCEPT !.at = "failed"]
            <4>1. r \in AlertRecords /\ r.at # "calling" /\ alert' = [alert EXCEPT ![a] = r]
                BY <1>0, <3>2 DEF BackoffCanceled, Goto, AlertRecords
            <4> QED BY <4>1, Zenon
        <3> QED BY <1>6, <3>1, <3>2
    <2>2. /\ alert[a].at = "backoff" /\ a \notin CallingAlerts
          /\ alertQueue' = alertQueue /\ breaker' \in {breaker, Seen(breaker)}
        BY <1>0, <1>6 DEF BackoffEnds, BackoffCanceled, CallingAlerts
    <2>3. /\ alert' \in [Alerts -> AlertRecords] /\ alertQueue' \in Seq(Alerts) /\ QueuedOnce'
          /\ CallingAlerts' = CallingAlerts
        BY <2>1, <2>2, OneAlertMoves, Zenon
    <2>4. AlertSlotsInUse'
        BY <1>0, <2>2, <2>3, SameCalls
    <2> QED BY <1>0, <2>2, <2>3, <2>4 DEF AlertInv
<1>7. CASE WorkerTakes
    <2> DEFINE a == Head(alertQueue)
               r == [at |-> "starting", sync |-> FALSE, tries |-> 1]
    <2>1. /\ alertQueue # <<>> /\ alertQueue' = Tail(alertQueue) /\ breaker' = breaker
          /\ alert' = [alert EXCEPT ![a] = r]
        BY <1>7 DEF WorkerTakes
    <2>2. /\ a \in Alerts /\ a = alertQueue[1] /\ Tail(alertQueue) \in Seq(Alerts)
          /\ Len(Tail(alertQueue)) = Len(alertQueue) - 1
          /\ \A i \in 1..Len(Tail(alertQueue)) : Tail(alertQueue)[i] = alertQueue[i + 1]
        BY <1>0, <2>1, FirstOut
    <2>3. alert' \in [Alerts -> AlertRecords]
        BY <1>0, <2>1, <2>2 DEF AlertRecords
    <2>4. alert[a].at = "queued"
        BY <1>0, <2>1, <2>2 DEF AlertInv, QueuedOnce
    <2>5. \A i \in 1..Len(Tail(alertQueue)) :
            /\ Tail(alertQueue)[i] \in Alerts /\ Tail(alertQueue)[i] # a
            /\ alert[Tail(alertQueue)[i]].at = "queued"
        BY <1>0, <2>2 DEF AlertInv, QueuedOnce
    <2>6. QueuedOnce'
        <3> HIDE DEF a, r
        <3>1. \A i \in 1..Len(alertQueue') : alert'[alertQueue'[i]].at = "queued"
            BY <1>0, <2>1, <2>5
        <3>2. \A i, j \in 1..Len(alertQueue') : alertQueue'[i] = alertQueue'[j] => i = j
            BY <1>0, <2>1, <2>2 DEF AlertInv, QueuedOnce
        <3> QED BY <3>1, <3>2 DEF QueuedOnce
    <2>7. CallingAlerts' = CallingAlerts
        BY <1>0, <2>1, <2>2, <2>4 DEF CallingAlerts
    <2>8. AlertSlotsInUse'
        BY <1>0, <2>1, <2>7, SameCalls
    <2> QED BY <1>0, <2>1, <2>2, <2>3, <2>6, <2>8 DEF AlertInv
<1>8. CASE AlertTick
    <2>1. alert' = alert /\ alertQueue' = alertQueue
        BY <1>8 DEF AlertTick
    <2>2. SlotsWhileHalfOpen(breaker') /\ breaker'.inFlight = breaker.inFlight
        BY <1>0, <1>8 DEF AlertTick, SlotsWhileHalfOpen, Breakers
    <2>3. QueuedOnce' /\ CallingAlerts' = CallingAlerts
        BY <2>1 DEF AlertInv, QueuedOnce, CallingAlerts
    <2>4. AlertSlotsInUse'
        BY <2>2, <2>3, SameCalls
    <2> QED BY <1>0, <2>1, <2>2, <2>3, <2>4 DEF AlertInv
<1>9. CASE UNCHANGED alertVars
    BY Zenon, <1>9 DEF alertVars, AlertInv, QueuedOnce, SlotsWhileHalfOpen, AlertSlotsInUse
<1> QED BY <1>1, <1>2, <1>3, <1>4, <1>5, <1>6, <1>7, <1>8, <1>9 DEF AlertNext

(***************************************************************************)
(* No slot of the alert circuit is left behind (startAttempt,              *)
(* finishAttempt), for any number of alerts and any settings.              *)
(***************************************************************************)
THEOREM AlertSlots == AlertSpec => []AlertSlotsInUse
<1>1. AlertInv => AlertSlotsInUse
    BY DEF AlertInv
<1> QED BY <1>1, AlertInvInit, AlertInvNext, PTL DEF AlertSpec

\* The worker of the queue is delivering a.
Served(a) == Delivering(a) /\ ~alert[a].sync

(***************************************************************************)
(* No alert that dispatchAsync accepted is forgotten: the queue holds      *)
(* exactly the alerts that wait, each once and never more than it has room *)
(* for, though an alert that comes late pushes the oldest out; and the     *)
(* worker delivers one at a time (dispatchAsync, workerLoop).              *)
(***************************************************************************)
AlertsWaitTheirTurn ==
    /\ Len(alertQueue) <= AlertQueueSize
    /\ Once(alertQueue)
    /\ Events(alertQueue) = {a \in Alerts : alert[a].at = "queued"}
    /\ \A a, b \in Alerts : Served(a) /\ Served(b) => a = b

\* An alert moves on outside the queue.
LEMMA AlertMovesOn ==
    ASSUME AlertInv, AlertsWaitTheirTurn, NEW a \in Alerts, alertQueue' = alertQueue,
           \A b \in Alerts : b # a => alert'[b] = alert[b],
           alert[a].at # "queued", alert'[a].at # "queued", Served(a)' => Served(a)
    PROVE  AlertsWaitTheirTurn'
<1>1. {b \in Alerts : alert'[b].at = "queued"} = {b \in Alerts : alert[b].at = "queued"}
    BY Zenon
<1>2. \A b \in Alerts : Served(b)' => Served(b)
    BY Zenon DEF Served, Delivering
<1> QED BY Zenon, <1>1, <1>2 DEF AlertsWaitTheirTurn, Once

\* AlertsWaitTheirTurn is kept by every step.
LEMMA AlertTurnNext == AlertInv /\ AlertsWaitTheirTurn /\ [AlertNext]_alertVars => AlertsWaitTheirTurn'
<1> SUFFICES ASSUME AlertInv, AlertsWaitTheirTurn, [AlertNext]_alertVars PROVE AlertsWaitTheirTurn'
    OBVIOUS
<1>0. /\ alert \in [Alerts -> AlertRecords] /\ alertQueue \in Seq(Alerts)
      /\ Len(alertQueue) <= AlertQueueSize /\ Once(alertQueue)
      /\ Events(alertQueue) = {a \in Alerts : alert[a].at = "queued"}
    BY Zenon DEF AlertInv, AlertsWaitTheirTurn
<1>1. ASSUME NEW a \in Alerts, NEW where,
             alert' = [alert EXCEPT ![a].at = where]
      PROVE  /\ \A b \in Alerts : b # a => alert'[b] = alert[b]
             /\ alert'[a].at = where /\ alert'[a].sync = alert[a].sync
    BY <1>0, <1>1 DEF AlertRecords
<1>2. ASSUME NEW a \in Alerts, DispatchSync(a) PROVE AlertsWaitTheirTurn'
    <2>1. /\ alert[a].at = "none" /\ alertQueue' = alertQueue
          /\ alert' = [alert EXCEPT ![a] = [at |-> "starting", sync |-> TRUE, tries |-> 1]]
        BY Zenon, <1>2 DEF DispatchSync
    <2>2. /\ alert'[a].at = "starting" /\ alert'[a].sync
          /\ \A b \in Alerts : b # a => alert'[b] = alert[b]
        BY <1>0, <2>1
    <2> QED BY Zenon, <2>1, <2>2, AlertMovesOn DEF Served
<1>3. ASSUME NEW a \in Alerts, DispatchAsync(a) PROVE AlertsWaitTheirTurn'
    <2>1. PICK where \in {"failed", "admitted"} :
            alert[a].at = "none" /\ alertQueue' = alertQueue /\ alert' = [alert EXCEPT ![a].at = where]
        BY Zenon, <1>3 DEF DispatchAsync, Goto
    <2> QED BY Zenon, <1>1, <2>1, AlertMovesOn DEF Served, Delivering
<1>4. ASSUME NEW a \in Alerts, StartAlertAttempt(a) \/ CallbackReturns(a) \/ BackoffCanceled(a)
      PROVE  AlertsWaitTheirTurn'
    <2>1. PICK where \in {"failed", "calling", "delivered", "backoff"} :
            Delivering(a) /\ alertQueue' = alertQueue /\ alert' = [alert EXCEPT ![a].at = where]
        BY Zenon, <1>4 DEF StartAlertAttempt, CallbackReturns, BackoffCanceled, Goto, Delivering
    <2>2. /\ \A b \in Alerts : b # a => alert'[b] = alert[b]
          /\ alert'[a].at = where /\ alert'[a].sync = alert[a].sync
        BY Zenon, <1>1, <2>1
    <2>3. alert[a].at # "queued" /\ alert'[a].at # "queued" /\ (Served(a)' => Served(a))
        BY Zenon, <2>1, <2>2 DEF Served, Delivering
    <2> QED BY Zenon, <2>1, <2>2, <2>3, AlertMovesOn
<1>5. ASSUME NEW a \in Alerts, BackoffEnds(a) PROVE AlertsWaitTheirTurn'
    <2>1. /\ alert[a].at = "backoff" /\ alertQueue' = alertQueue
          /\ alert'[a].at = "starting" /\ alert'[a].sync = alert[a].sync
          /\ \A b \in Alerts : b # a => alert'[b] = alert[b]
        BY <1>0, <1>5 DEF BackoffEnds, AlertRecords
    <2> QED BY Zenon, <2>1, AlertMovesOn DEF Served, Delivering
<1>6. ASSUME NEW a \in Alerts, EnqueueAlert(a) PROVE AlertsWaitTheirTurn'
    <2> DEFINE full == Len(alertQueue) >= AlertQueueSize
               rest == IF full THEN Tail(alertQueue) ELSE alertQueue
    <2>1. /\ alert[a].at = "admitted" /\ alertQueue' = Append(rest, a)
          /\ alert' = [b \in Alerts |->
                         IF b = a THEN [alert[a] EXCEPT !.at = "queued"]
                         ELSE IF full /\ b = Head(alertQueue) THEN [alert[b] EXCEPT !.at = "dropped"]
                         ELSE alert[b]]
        BY Zenon, <1>6 DEF EnqueueAlert
    <2>2. full => alertQueue # <<>>
        BY <1>0, AlertAssumption
    <2>3. /\ rest \in Seq(Alerts) /\ Len(rest) \in Nat /\ Len(rest) + 1 <= AlertQueueSize
        BY <1>0, <2>2, FirstOut, AlertAssumption
    <2>4. /\ Once(rest) /\ Events(rest) = {b \in Events(alertQueue) : ~(full /\ b = Head(alertQueue))}
          /\ full => Head(alertQueue) \in Events(alertQueue)
        <3>1. CASE full
            BY Zenon, <1>0, <2>2, <3>1, OnceOut
        <3>2. CASE ~full
            BY Zenon, <1>0, <3>2
        <3> QED BY Zenon, <3>1, <3>2
    <2> HIDE DEF full, rest
    <2>5. a \notin Events(rest)
        BY Zenon, <1>0, <2>1, <2>4
    <2>6. /\ Events(alertQueue') = Events(rest) \cup {a} /\ Once(alertQueue')
        <3>1. Events(Append(rest, a)) = Events(rest) \cup {a} /\ Once(Append(rest, a))
            BY Zenon, <2>3, <2>4, <2>5, OnceIn
        <3> QED BY Zenon, <2>1, <3>1
    <2>7. Len(alertQueue') <= AlertQueueSize
        BY <2>1, <2>3, LastIn
    <2>8. \A b \in Alerts : [alert[b] EXCEPT !.at = "queued"].at = "queued"
                         /\ [alert[b] EXCEPT !.at = "dropped"].at = "dropped"
        BY <1>0 DEF AlertRecords
    <2>9. \A b \in Alerts :
            IF b = a THEN alert'[b].at = "queued"
            ELSE IF full /\ b = Head(alertQueue) THEN alert'[b].at = "dropped" ELSE alert'[b] = alert[b]
        BY Zenon, <2>1, <2>8
    <2>10. Events(alertQueue') = {b \in Alerts : alert'[b].at = "queued"}
        BY Zenon, <1>0, <2>4, <2>6, <2>9
    <2>11. \A b \in Alerts : Served(b)' => Served(b)
        BY Zenon, <2>9 DEF Served, Delivering
    <2> QED BY Zenon, <2>6, <2>7, <2>10, <2>11 DEF AlertsWaitTheirTurn
<1>7. CASE WorkerTakes
    <2> DEFINE a == Head(alertQueue)
    <2>1. /\ alertQueue # <<>> /\ alertQueue' = Tail(alertQueue)
          /\ alert' = [alert EXCEPT ![a] = [at |-> "starting", sync |-> FALSE, tries |-> 1]]
          /\ \A b \in Alerts : Delivering(b) => alert[b].sync
        BY Zenon, <1>7 DEF WorkerTakes
    <2>2. Once(alertQueue') /\ Events(alertQueue') = Events(alertQueue) \ {a} /\ a \in Events(alertQueue)
        BY Zenon, <1>0, <2>1, OnceOut
    <2>3. Len(alertQueue') <= AlertQueueSize
        BY <1>0, <2>1, FirstOut, AlertAssumption
    <2> HIDE DEF a
    <2>4. /\ a \in Alerts /\ alert'[a].at = "starting"
          /\ \A b \in Alerts : b # a => alert'[b] = alert[b]
        BY <1>0, <2>1, <2>2
    <2>5. Events(alertQueue') = {b \in Alerts : alert'[b].at = "queued"}
        BY Zenon, <1>0, <2>2, <2>4
    <2>6. \A b \in Alerts : Served(b)' => b = a
        BY Zenon, <2>1, <2>4 DEF Served, Delivering
    <2> QED BY Zenon, <2>2, <2>3, <2>5, <2>6 DEF AlertsWaitTheirTurn
<1>8. CASE UNCHANGED <<alert, alertQueue>>
    BY Zenon, <1>8 DEF AlertsWaitTheirTurn, Once, Served, Delivering
<1>9. CASE AlertTick \/ UNCHANGED alertVars
    BY Zenon, <1>8, <1>9 DEF AlertTick, alertVars
<1> QED BY Zenon, <1>2, <1>3, <1>4, <1>5, <1>6, <1>7, <1>9 DEF AlertNext

\* The queue of alerts is kept in order, for every size and any number of alerts.
THEOREM AlertTurns == AlertSpec => []AlertsWaitTheirTurn
<1>1. AlertInit => AlertsWaitTheirTurn
    <2> SUFFICES ASSUME AlertInit PROVE AlertsWaitTheirTurn
        OBVIOUS
    <2>1. alertQueue = <<>> /\ \A a \in Alerts : alert[a].at = "none"
        BY DEF AlertInit
    <2>2. Len(alertQueue) <= AlertQueueSize /\ Once(alertQueue) /\ Events(alertQueue) = {}
        BY <2>1, AlertAssumption DEF Once, Events
    <2> QED BY Zenon, <2>1, <2>2 DEF AlertsWaitTheirTurn, Served, Delivering
<1> QED BY <1>1, AlertInvInit, AlertInvNext, AlertTurnNext, PTL DEF AlertSpec

-----------------------------------------------------------------------------
(* Health probes *)

Options == [circuit : BOOLEAN, backoff : BOOLEAN]

ProberRecords ==
    [at : {"idle", "begun", "lookup", "gate", "probing", "storing"},
     now : Nat, opts : Options, reserved : BOOLEAN]

GovernanceRecords ==
    [circuit : {"closed", "open", "half_open"}, fails : Nat, successes : Nat, inFlight : Nat,
     openUntil : Nat, nextProbeAt : Nat]

ReservedProbes == {p \in Probers : prober[p].at = "probing" /\ prober[p].reserved}

HealthInv ==
    /\ healthClock \in Nat
    /\ governance \in GovernanceRecords
    /\ prober \in [Probers -> ProberRecords]
    /\ \A p \in Probers :
        prober[p].reserved => prober[p].opts.circuit /\ prober[p].at \in {"probing", "storing"}
    /\ ProbeSlotsInUse

\* Only Released and the reservation change the number of slots.
LEMMA JudgedSlots ==
    ASSUME NEW g \in GovernanceRecords, NEW now \in Nat,
           NEW status \in {"healthy", "degraded", "unavailable"}
    PROVE  Judged(g, now, status) \in GovernanceRecords /\ Judged(g, now, status).inFlight = g.inFlight
<1> USE HealthAssumption DEF GovernanceRecords
<1>1. CASE g.circuit = "half_open"
    BY <1>1 DEF Judged, JudgedHalfOpen, OpenedAt, SetCircuit
<1>2. CASE g.circuit = "closed"
    BY <1>2 DEF Judged, JudgedClosed, OpenedAt, SetCircuit
<1>3. CASE g.circuit = "open"
    BY <1>3 DEF Judged, HalfOpened, SetCircuit
<1> QED BY <1>1, <1>2, <1>3

\* A probe gives back the slot it reserved, if any is in use.
LEMMA ReleasedSlots ==
    ASSUME NEW g \in GovernanceRecords, NEW reserved \in BOOLEAN
    PROVE  /\ Released(g, reserved) \in GovernanceRecords
           /\ ~reserved => Released(g, reserved).inFlight = g.inFlight
           /\ \/ ~reserved
              \/ Released(g, reserved).inFlight = 0
              \/ Released(g, reserved).inFlight = g.inFlight - 1
BY DEF Released, GovernanceRecords

\* Turning half open takes no slot.
LEMMA ReopeningSlots ==
    ASSUME NEW g \in GovernanceRecords, NEW now \in Nat
    PROVE  Reopening(g, now) \in GovernanceRecords /\ Reopening(g, now).inFlight <= g.inFlight
BY DEF Reopening, HalfOpened, SetCircuit, GovernanceRecords

\* The probes under way are finitely many.
LEMMA ReservedIsFinite ==
    IsFiniteSet(ReservedProbes) /\ Cardinality(ReservedProbes) \in Nat
BY HealthAssumption, FS_Subset, FS_CardinalityType DEF ReservedProbes

\* A goroutine moves on outside of its probe, and no slot is taken.
LEMMA OneProberMoves ==
    ASSUME HealthInv, NEW p \in Probers, NEW r \in ProberRecords,
           prober[p].at # "probing", ~r.reserved,
           prober' = [prober EXCEPT ![p] = r],
           governance' \in GovernanceRecords, governance'.inFlight <= governance.inFlight,
           healthClock' = healthClock
    PROVE  HealthInv'
<1>1. ReservedProbes' = ReservedProbes
    BY DEF ReservedProbes, HealthInv
<1>2. governance.inFlight <= Cardinality(ReservedProbes)
    BY DEF HealthInv, ProbeSlotsInUse, ReservedProbes
<1>3. governance'.inFlight <= Cardinality(ReservedProbes')
    BY <1>1, <1>2, ReservedIsFinite DEF HealthInv, GovernanceRecords
<1>4. ProbeSlotsInUse'
    BY <1>3 DEF ProbeSlotsInUse, ReservedProbes
<1> QED BY <1>4 DEF HealthInv

\* HealthInv holds initially.
LEMMA HealthInvInit == HealthInit => HealthInv
<1> SUFFICES ASSUME HealthInit PROVE HealthInv
    OBVIOUS
<1>1. /\ healthClock \in Nat /\ governance \in GovernanceRecords
      /\ prober \in [Probers -> ProberRecords] /\ governance.inFlight = 0
      /\ \A p \in Probers : ~prober[p].reserved
    BY DEF HealthInit, IdleProber, GovernanceRecords, ProberRecords, Options
<1>2. ProbeSlotsInUse
    BY <1>1, ReservedIsFinite DEF ProbeSlotsInUse, ReservedProbes
<1> QED BY <1>1, <1>2 DEF HealthInv

\* HealthInv is kept by every step.
LEMMA HealthInvNext == HealthInv /\ [HealthNext]_healthVars => HealthInv'
<1> SUFFICES ASSUME HealthInv, [HealthNext]_healthVars PROVE HealthInv'
    OBVIOUS
<1>0. /\ healthClock \in Nat /\ governance \in GovernanceRecords
      /\ prober \in [Probers -> ProberRecords] /\ governance.inFlight \in Nat
      /\ governance.inFlight <= governance.inFlight
      /\ governance.inFlight <= Cardinality(ReservedProbes)
    BY DEF HealthInv, GovernanceRecords, ProbeSlotsInUse, ReservedProbes
<1>1. ASSUME NEW p \in Probers, NEW where \in {"idle", "begun", "lookup", "gate", "probing", "storing"},
             ProberAt(p, where)
      PROVE  \E r \in ProberRecords :
                /\ prober' = [prober EXCEPT ![p] = r] /\ r.at = where
                /\ r.reserved => where # "idle" /\ prober[p].reserved /\ r.opts = prober[p].opts
    <2>1. CASE where = "idle"
        <3>1. IdleProber \in ProberRecords /\ IdleProber.at = "idle" /\ ~IdleProber.reserved
            BY DEF IdleProber, ProberRecords, Options
        <3>2. prober' = [prober EXCEPT ![p] = IdleProber]
            BY <1>1, <2>1 DEF ProberAt
        <3> QED BY <2>1, <3>1, <3>2, Zenon
    <2>2. CASE where # "idle"
        <3> DEFINE r == [prober[p] EXCEPT !.at = where]
        <3>1. /\ r \in ProberRecords /\ r.at = where /\ r.reserved = prober[p].reserved
              /\ r.opts = prober[p].opts
            BY <1>0 DEF ProberRecords
        <3>2. prober' = [prober EXCEPT ![p] = r]
            BY <1>0, <1>1, <2>2 DEF ProberAt
        <3> QED BY <2>2, <3>1, <3>2, Zenon
    <2> QED BY <2>1, <2>2
<1>2. ASSUME NEW p \in Probers, ProbeBegins(p) PROVE HealthInv'
    <2>1. PICK options \in HealthOptions :
            prober' = [prober EXCEPT ![p] = [at |-> "begun", now |-> healthClock,
                                             opts |-> options, reserved |-> FALSE]]
        BY <1>2, Zenon DEF ProbeBegins
    <2> DEFINE r == [at |-> "begun", now |-> healthClock, opts |-> options, reserved |-> FALSE]
    <2>2. r \in ProberRecords /\ ~r.reserved /\ prober' = [prober EXCEPT ![p] = r]
        BY <1>0, <2>1, HealthAssumption DEF ProberRecords, Options
    <2>3. prober[p].at # "probing" /\ governance' = governance /\ healthClock' = healthClock
        BY <1>2 DEF ProbeBegins
    <2> HIDE DEF r
    <2> QED BY <1>0, <2>2, <2>3, OneProberMoves, Zenon
<1>3. ASSUME NEW p \in Probers, LooksAtCircuit(p) \/ LooksAtCache(p) PROVE HealthInv'
    <2>1. \E where \in {"gate", "lookup", "probing", "idle"} : ProberAt(p, where)
        BY Zenon, <1>3 DEF LooksAtCircuit, LooksAtCache
    <2>2. PICK r \in ProberRecords :
            prober' = [prober EXCEPT ![p] = r] /\ (r.reserved => prober[p].reserved)
        BY <1>1, <2>1
    <2>3. prober[p].at \in {"begun", "lookup"} /\ governance' = governance /\ healthClock' = healthClock
        BY <1>3 DEF LooksAtCircuit, LooksAtCache
    <2>4. ~prober[p].reserved
        BY <2>3 DEF HealthInv
    <2> QED BY <1>0, <2>2, <2>3, <2>4, OneProberMoves, Zenon
<1>4. ASSUME NEW p \in Probers, StoreCached(p) PROVE HealthInv'
    <2>1. ProberAt(p, "idle")
        BY <1>4 DEF StoreCached
    <2>2. PICK r \in ProberRecords : prober' = [prober EXCEPT ![p] = r] /\ ~r.reserved
        BY <1>1, <2>1
    <2>3. prober[p].at = "storing" /\ governance' = governance /\ healthClock' = healthClock
        BY <1>4 DEF StoreCached
    <2> QED BY <1>0, <2>2, <2>3, OneProberMoves, Zenon
<1>5. ASSUME NEW p \in Probers, BeforeProbe(p) PROVE HealthInv'
    <2> DEFINE now   == prober[p].now
               opts  == prober[p].opts
               found == IF opts.circuit THEN Reopening(governance, now) ELSE governance
               reserves == opts.circuit /\ found.circuit = "half_open"
    <2>1. /\ now \in Nat /\ opts \in Options /\ prober[p].at = "gate" /\ ~prober[p].reserved
          /\ healthClock' = healthClock /\ p \notin ReservedProbes
        BY Zenon, <1>0, <1>5 DEF BeforeProbe, ProberRecords, HealthInv, ReservedProbes
    <2>2. found \in GovernanceRecords /\ found.inFlight <= governance.inFlight /\ found.inFlight \in Nat
        <3>1. found \in GovernanceRecords /\ found.inFlight <= governance.inFlight
            BY <1>0, <2>1, ReopeningSlots, Zenon
        <3> QED BY Zenon, <3>1 DEF GovernanceRecords
    <2>3. CASE governance' = found /\ ProberAt(p, "idle")
        <3>1. PICK r \in ProberRecords : prober' = [prober EXCEPT ![p] = r] /\ ~r.reserved
            BY <1>1, <2>3
        <3> QED BY <2>1, <2>2, <2>3, <3>1, OneProberMoves, Zenon
    <2>4. CASE /\ governance' = IF reserves THEN [found EXCEPT !.inFlight = @ + 1] ELSE found
               /\ prober' = [prober EXCEPT ![p] = [@ EXCEPT !.at = "probing", !.reserved = reserves]]
        <3> DEFINE r == [prober[p] EXCEPT !.at = "probing", !.reserved = reserves]
        <3>1. reserves \in BOOLEAN
            BY <2>1 DEF Options
        <3>2. /\ r \in ProberRecords /\ r.at = "probing" /\ r.reserved = reserves
              /\ prober' = [prober EXCEPT ![p] = r]
            BY <1>0, <2>4, <3>1, Zenon DEF ProberRecords
        <3>3. CASE ~reserves
            <4>1. governance' = found /\ ~r.reserved
                BY <2>4, <3>2, <3>3, Zenon
            <4> QED BY <2>1, <2>2, <3>2, <4>1, OneProberMoves, Zenon
        <3>4. CASE reserves
            <4>1. governance' \in GovernanceRecords /\ governance'.inFlight = found.inFlight + 1
                BY <2>2, <2>4, <3>4 DEF GovernanceRecords
            <4>2. /\ prober' \in [Probers -> ProberRecords] /\ ReservedProbes' = ReservedProbes \cup {p}
                  /\ \A q \in Probers : prober'[q].reserved =>
                        prober'[q].opts.circuit /\ prober'[q].at \in {"probing", "storing"}
                <5>1. r.opts.circuit
                    BY <1>0, <3>4 DEF ProberRecords
                <5> HIDE DEF r, reserves
                <5> QED BY <1>0, <3>2, <3>4, <5>1, Zenon DEF ReservedProbes, HealthInv
            <4>3. Cardinality(ReservedProbes') = Cardinality(ReservedProbes) + 1
                BY <2>1, <4>2, ReservedIsFinite, FS_AddElement, Zenon
            <4>4. ProbeSlotsInUse'
                BY <1>0, <2>2, <4>1, <4>3, ReservedIsFinite DEF ProbeSlotsInUse, ReservedProbes
            <4> QED BY Zenon, <1>0, <2>1, <4>1, <4>2, <4>4 DEF HealthInv
        <3> QED BY <3>3, <3>4
    <2> QED BY Zenon, <1>5, <2>3, <2>4 DEF BeforeProbe
<1>6. ASSUME NEW p \in Probers, ProbeReturns(p) PROVE HealthInv'
    <2> DEFINE now  == prober[p].now
               opts == prober[p].opts
               released == Released(governance, prober[p].reserved)
               judged(status) == IF opts.circuit THEN Judged(released, now, status) ELSE released
               after(status, delay) ==
                   IF opts.backoff THEN BackedOff(judged(status), now, status, delay) ELSE judged(status)
    <2>1. /\ now \in Nat /\ opts \in Options /\ prober[p].at = "probing" /\ prober[p].reserved \in BOOLEAN
          /\ healthClock' = healthClock
        BY Zenon, <1>0, <1>6 DEF ProbeReturns, ProberRecords
    <2>2. PICK status \in {"healthy", "degraded", "unavailable"}, delay \in BackoffDelays :
            /\ governance' = IF Governed(p) THEN after(status, delay) ELSE governance
            /\ ProberAt(p, IF opts.circuit /\ after(status, delay).circuit = "open" THEN "idle" ELSE "storing")
        BY Zenon, <1>6 DEF ProbeReturns
    <2>3. released \in GovernanceRecords
        BY <1>0, <2>1, ReleasedSlots
    <2>4. judged(status) \in GovernanceRecords /\ judged(status).inFlight = released.inFlight
        BY <2>1, <2>3, JudgedSlots, Zenon
    <2>5. /\ after(status, delay) \in GovernanceRecords
          /\ after(status, delay).inFlight = released.inFlight
        <3> HIDE DEF judged
        <3> QED BY <2>1, <2>4, HealthAssumption DEF BackedOff, GovernanceRecords
    <2>6. PICK r \in ProberRecords : prober' = [prober EXCEPT ![p] = r] /\ r.at \in {"idle", "storing"}
                                   /\ (r.reserved => /\ r.at = "storing" /\ prober[p].reserved
                                                     /\ r.opts = prober[p].opts)
        BY ZenonT(60), <1>1, <2>2
    <2>7. /\ prober' \in [Probers -> ProberRecords]
          /\ \A q \in Probers : prober'[q].reserved =>
                prober'[q].opts.circuit /\ prober'[q].at \in {"probing", "storing"}
        BY <1>0, <2>6 DEF HealthInv
    <2>8. ReservedProbes' = ReservedProbes \ {p}
        BY <1>0, <2>6 DEF ReservedProbes
    <2>9. governance' \in GovernanceRecords
        BY <1>0, <2>2, <2>5, Zenon
    <2>10. CASE ~prober[p].reserved
        <3>1. ReservedProbes' = ReservedProbes
            BY <2>8, <2>10 DEF ReservedProbes
        <3>2. governance'.inFlight = governance.inFlight
            BY <1>0, <2>1, <2>2, <2>5, <2>10, ReleasedSlots, Zenon
        <3>3. ProbeSlotsInUse'
            BY <1>0, <3>1, <3>2, Zenon DEF ProbeSlotsInUse, ReservedProbes
        <3> QED BY Zenon, <1>0, <2>1, <2>7, <2>9, <3>3 DEF HealthInv
    <2>11. CASE prober[p].reserved
        <3>1. Governed(p)
            BY <2>1, <2>11 DEF HealthInv, Governed
        <3>2. p \in ReservedProbes
            BY <2>1, <2>11 DEF ReservedProbes
        <3>3. /\ Cardinality(ReservedProbes') = Cardinality(ReservedProbes) - 1
              /\ Cardinality(ReservedProbes') \in Nat
            BY <2>8, <3>2, ReservedIsFinite, FS_RemoveElement, FS_CardinalityType
        <3>4. governance'.inFlight = 0 \/ governance'.inFlight = governance.inFlight - 1
            BY <1>0, <2>1, <2>2, <2>5, <2>11, <3>1, ReleasedSlots, Zenon
        <3>5. governance'.inFlight <= Cardinality(ReservedProbes')
            BY <1>0, <3>3, <3>4, ReservedIsFinite
        <3>6. ProbeSlotsInUse'
            BY <3>5 DEF ProbeSlotsInUse, ReservedProbes
        <3> QED BY <1>0, <2>1, <2>7, <2>9, <3>6 DEF HealthInv
    <2> QED BY <2>10, <2>11
<1>7. CASE HealthTick
    BY <1>0, <1>7 DEF HealthTick, HealthInv, ProbeSlotsInUse
<1>8. CASE UNCHANGED healthVars
    BY <1>8 DEF healthVars, HealthInv, ProbeSlotsInUse
<1> QED BY <1>2, <1>3, <1>4, <1>5, <1>6, <1>7, <1>8 DEF HealthNext

(***************************************************************************)
(* No slot of the half-open circuit of a target is left behind             *)
(* (beforeProbeGovernance, afterProbeGovernance), for any number of        *)
(* callers, any options and any time.                                      *)
(***************************************************************************)
THEOREM ProbeSlots == HealthSpec => []ProbeSlotsInUse
<1>1. HealthInv => ProbeSlotsInUse
    BY DEF HealthInv
<1> QED BY <1>1, HealthInvInit, HealthInvNext, PTL DEF HealthSpec

-----------------------------------------------------------------------------
(* The exporter *)

Settings == [on : BOOLEAN, failFast : BOOLEAN, endpoint : Nat]

WorkerRecords ==
    [at : {"waiting", "draining", "exporting", "exporting_last", "stopping", "stopped", "ended"},
     queue : Seq(ExportedEvents), batch : Seq(ExportedEvents), canceled : BOOLEAN, cancels : Nat]

CallRecords ==
    [at : {"none", "configures", "replaces", "enqueues", "overflows", "queued", "dropped", "exported"},
     config : Settings, worker : Nat]

ExporterTypes ==
    /\ exporter \in [config : Settings, current : Nat, closing : Nat]
    /\ exportWorkers \in Seq(WorkerRecords)
    /\ exporter.current \in 0..Len(exportWorkers)
    /\ exported \in [ExportedEvents -> CallRecords]

\* The calls of the events that a worker has are over.
HeldAreOver(worker, calls) ==
    \A e \in Events(worker.queue) \cup Events(worker.batch) : calls[e].at \in {"queued", "exported"}

ExporterInv ==
    /\ ExporterTypes
    /\ \A w \in 1..Len(exportWorkers) : HeldAreOver(exportWorkers[w], exported)
    /\ WorkersAreStopped

\* Canceled changes nothing but the context of one worker.
LEMMA CanceledWorker ==
    ASSUME NEW workers \in Seq(WorkerRecords), NEW w \in Nat
    PROVE  /\ Canceled(workers, w) \in Seq(WorkerRecords)
           /\ Len(Canceled(workers, w)) = Len(workers)
           /\ \A v \in 1..Len(workers) :
                /\ Canceled(workers, w)[v].canceled = (workers[v].canceled \/ v = w)
                /\ Canceled(workers, w)[v].at = workers[v].at
                /\ Canceled(workers, w)[v].cancels = workers[v].cancels
                /\ Canceled(workers, w)[v].queue = workers[v].queue
                /\ Canceled(workers, w)[v].batch = workers[v].batch
<1>0. \A v \in 1..Len(workers) : workers[v] \in WorkerRecords
    OBVIOUS
<1>1. CASE w = 0
    <2>1. Canceled(workers, w) = workers
        BY <1>1 DEF Canceled
    <2>2. \A v \in 1..Len(workers) : workers[v].canceled \in BOOLEAN /\ v # w
        BY <1>0, <1>1 DEF WorkerRecords
    <2> QED BY Zenon, <2>1, <2>2
<1>2. CASE w \in 1..Len(workers)
    <2> DEFINE r == [workers[w] EXCEPT !.canceled = TRUE]
    <2>1. /\ r \in WorkerRecords /\ r.canceled = TRUE /\ r.at = workers[w].at
          /\ r.cancels = workers[w].cancels /\ r.queue = workers[w].queue /\ r.batch = workers[w].batch
        BY <1>0, <1>2, Zenon DEF WorkerRecords
    <2>2. Canceled(workers, w) = [workers EXCEPT ![w] = r]
        BY <1>2 DEF Canceled
    <2> HIDE DEF r
    <2>3. /\ Canceled(workers, w) \in Seq(WorkerRecords) /\ Len(Canceled(workers, w)) = Len(workers)
          /\ \A v \in 1..Len(workers) : Canceled(workers, w)[v] = IF v = w THEN r ELSE workers[v]
        BY <1>2, <2>1, <2>2, EntrySet
    <2>4. \A v \in 1..Len(workers) : workers[v].canceled \in BOOLEAN
        BY <1>0 DEF WorkerRecords
    <2> QED BY <2>1, <2>3, <2>4, Zenon
<1>3. CASE w # 0 /\ w \notin 1..Len(workers)
    <2>1. Canceled(workers, w) = workers
        BY <1>3 DEF Canceled
    <2>2. \A v \in 1..Len(workers) : workers[v].canceled \in BOOLEAN /\ v # w
        BY Zenon, <1>0, <1>3 DEF WorkerRecords
    <2> QED BY <2>1, <2>2
<1> QED BY Zenon, <1>1, <1>2, <1>3

\* A worker that was looked after is looked after, or canceled.
LEMMA StayStopped ==
    ASSUME ExporterInv, exportWorkers' \in Seq(WorkerRecords),
           Len(exportWorkers) <= Len(exportWorkers'),
           \A w \in 1..Len(exportWorkers) :
               /\ exportWorkers[w].canceled => exportWorkers'[w].canceled
               /\ exportWorkers[w].at = "stopped" => exportWorkers'[w].at = "stopped"
               /\ exporter.current = w \/ ToBeCanceled(w) =>
                      exporter'.current = w \/ ToBeCanceled(w)' \/ exportWorkers'[w].canceled,
           \A w \in 1..Len(exportWorkers') : w > Len(exportWorkers) => exporter'.current = w
    PROVE  WorkersAreStopped'
<1> SUFFICES ASSUME NEW w \in 1..Len(exportWorkers')
             PROVE  \/ exportWorkers'[w].canceled \/ exportWorkers'[w].at = "stopped"
                    \/ exporter'.current = w \/ ToBeCanceled(w)'
    BY DEF WorkersAreStopped
<1>1. exportWorkers \in Seq(WorkerRecords)
    BY Zenon DEF ExporterInv, ExporterTypes
<1>2. CASE w > Len(exportWorkers)
    BY Zenon, <1>2
<1>3. CASE w \in 1..Len(exportWorkers)
    BY <1>1, <1>3 DEF ExporterInv, WorkersAreStopped
<1> QED BY <1>1, <1>2, <1>3

\* The events of a queue, as it grows and shrinks.
LEMMA EventsOf ==
    ASSUME NEW s \in Seq(ExportedEvents), NEW e \in ExportedEvents
    PROVE  /\ Events(Append(s, e)) = Events(s) \cup {e}
           /\ s # <<>> => /\ Events(Tail(s)) \subseteq Events(s)
                          /\ Head(s) \in Events(s) /\ Head(s) \in ExportedEvents
                          /\ Tail(s) \in Seq(ExportedEvents)
           /\ Events(<<>>) = {}
           /\ Events(s) \subseteq ExportedEvents
<1>1. Events(Append(s, e)) = Events(s) \cup {e}
    <2>1. /\ DOMAIN Append(s, e) = 1..(Len(s) + 1) /\ DOMAIN s = 1..Len(s)
          /\ \A i \in 1..Len(s) : Append(s, e)[i] = s[i]
          /\ Append(s, e)[Len(s) + 1] = e
        BY LastIn
    <2>2. \A x : x \in Events(Append(s, e)) <=> x \in Events(s) \cup {e}
        BY <2>1 DEF Events
    <2> QED BY <2>2
<1>2. ASSUME s # <<>>
      PROVE  /\ Events(Tail(s)) \subseteq Events(s)
             /\ Head(s) \in Events(s) /\ Head(s) \in ExportedEvents
             /\ Tail(s) \in Seq(ExportedEvents)
    <2>1. /\ Tail(s) \in Seq(ExportedEvents) /\ Head(s) \in ExportedEvents /\ Head(s) = s[1]
          /\ Len(Tail(s)) = Len(s) - 1
          /\ \A i \in 1..Len(Tail(s)) : Tail(s)[i] = s[i + 1]
        BY <1>2, FirstOut
    <2> QED BY <1>2, <2>1 DEF Events
<1>3. Events(<<>>) = {}
    BY DEF Events
<1>4. Events(s) \subseteq ExportedEvents
    BY DEF Events
<1> QED BY <1>1, <1>2, <1>3, <1>4

\* The events a worker has are events.
LEMMA HeldAreEvents ==
    ASSUME ExporterInv, NEW w \in 1..Len(exportWorkers)
    PROVE  /\ exportWorkers[w] \in WorkerRecords
           /\ Events(exportWorkers[w].queue) \cup Events(exportWorkers[w].batch) \subseteq ExportedEvents
<1>1. exportWorkers[w] \in WorkerRecords
    BY DEF ExporterInv, ExporterTypes
<1>2. exportWorkers[w].queue \in Seq(ExportedEvents) /\ exportWorkers[w].batch \in Seq(ExportedEvents)
    BY <1>1 DEF WorkerRecords
<1>3. \A s \in Seq(ExportedEvents) : Events(s) \subseteq ExportedEvents
    BY DEF Events
<1> QED BY <1>1, <1>2, <1>3

\* A call that is not over has its event in no queue.
LEMMA CallMoves ==
    ASSUME ExporterInv, NEW e \in ExportedEvents, NEW r \in CallRecords,
           exported' = [exported EXCEPT ![e] = r], exported[e].at \notin {"queued", "exported"}
    PROVE  /\ exported' \in [ExportedEvents -> CallRecords]
           /\ \A w \in 1..Len(exportWorkers) : HeldAreOver(exportWorkers[w], exported')
<1>1. exported' \in [ExportedEvents -> CallRecords]
    BY DEF ExporterInv, ExporterTypes
<1>2. ASSUME NEW w \in 1..Len(exportWorkers) PROVE HeldAreOver(exportWorkers[w], exported')
    <2>1. Events(exportWorkers[w].queue) \cup Events(exportWorkers[w].batch) \subseteq ExportedEvents
        BY Zenon, HeldAreEvents
    <2> QED BY Zenon, <2>1 DEF ExporterInv, ExporterTypes, HeldAreOver
<1> QED BY <1>1, <1>2, Zenon

\* A step of a worker that is not stopping.
LEMMA WorkerMoves ==
    ASSUME ExporterInv, NEW w \in 1..Len(exportWorkers), NEW me \in WorkerRecords,
           exportWorkers' = [exportWorkers EXCEPT ![w] = me],
           exportWorkers[w].at \notin {"stopping", "stopped"},
           me.canceled = exportWorkers[w].canceled,
           HeldAreOver(me, exported'),
           exported' \in [ExportedEvents -> CallRecords],
           \A e \in ExportedEvents :
               \/ exported'[e] = exported[e]
               \/ exported[e].at \in {"queued", "exported"} /\ exported'[e].at \in {"queued", "exported"},
           exporter' = exporter
    PROVE  ExporterInv'
<1>1. /\ exportWorkers' \in Seq(WorkerRecords) /\ Len(exportWorkers') = Len(exportWorkers)
      /\ \A v \in 1..Len(exportWorkers) : exportWorkers'[v] = IF v = w THEN me ELSE exportWorkers[v]
    BY EntrySet DEF ExporterInv, ExporterTypes
<1>2. ExporterTypes'
    BY Zenon, <1>1 DEF ExporterInv, ExporterTypes
<1>3. ASSUME NEW v \in 1..Len(exportWorkers') PROVE HeldAreOver(exportWorkers'[v], exported')
    <2>1. CASE v = w
        BY Zenon, <1>1, <2>1
    <2>2. CASE v # w
        <3>1. exportWorkers'[v] = exportWorkers[v] /\ HeldAreOver(exportWorkers[v], exported)
            BY Zenon, <1>1, <2>2 DEF ExporterInv
        <3>2. Events(exportWorkers[v].queue) \cup Events(exportWorkers[v].batch) \subseteq ExportedEvents
            BY Zenon, <1>1, HeldAreEvents
        <3> QED BY Zenon, <3>1, <3>2 DEF HeldAreOver
    <2> QED BY Zenon, <2>1, <2>2
<1>4. WorkersAreStopped'
    <2>1. ASSUME NEW v \in 1..Len(exportWorkers), ToBeCanceled(v) PROVE ToBeCanceled(v)'
        <3>1. CASE exporter.closing = v
            BY Zenon, <3>1 DEF ToBeCanceled
        <3>2. ASSUME NEW e \in ExportedEvents,
                     exported[e].at \in {"replaces", "overflows"}, exported[e].worker = v
              PROVE  ToBeCanceled(v)'
            <4>1. exported'[e] = exported[e]
                BY Zenon, <3>2
            <4> QED BY Zenon, <3>2, <4>1 DEF ToBeCanceled
        <3>3. ASSUME NEW u \in DOMAIN exportWorkers,
                     exportWorkers[u].at = "stopping", exportWorkers[u].cancels = v
              PROVE  ToBeCanceled(v)'
            <4>1. u \in 1..Len(exportWorkers) /\ u \in DOMAIN exportWorkers'
                BY <1>1, <3>3 DEF ExporterInv, ExporterTypes
            <4>2. exportWorkers'[u] = exportWorkers[u]
                BY Zenon, <1>1, <3>3, <4>1
            <4> QED BY Zenon, <3>3, <4>1, <4>2 DEF ToBeCanceled
        <3> QED BY Zenon, <2>1, <3>1, <3>2, <3>3 DEF ToBeCanceled
    <2>2. \A v \in 1..Len(exportWorkers) :
            /\ exportWorkers[v].canceled => exportWorkers'[v].canceled
            /\ exportWorkers[v].at = "stopped" => exportWorkers'[v].at = "stopped"
        BY Zenon, <1>1
    <2>3. \A v \in 1..Len(exportWorkers) :
            exporter.current = v \/ ToBeCanceled(v) =>
                exporter'.current = v \/ ToBeCanceled(v)' \/ exportWorkers'[v].canceled
        BY Zenon, <2>1
    <2>4. Len(exportWorkers) <= Len(exportWorkers') /\ Len(exportWorkers) \in Nat
        BY <1>1 DEF ExporterInv, ExporterTypes
    <2>5. \A v \in 1..Len(exportWorkers') : v > Len(exportWorkers) => exporter'.current = v
        BY <1>1, <2>4
    <2> QED BY Zenon, <1>1, <2>2, <2>3, <2>4, <2>5, StayStopped
<1> QED BY Zenon, <1>2, <1>3, <1>4 DEF ExporterInv

\* A step of a call that leaves the exporter and its workers alone.
LEMMA OnlyCallMoves ==
    ASSUME ExporterInv, NEW e \in ExportedEvents, NEW r \in CallRecords,
           exported' = [exported EXCEPT ![e] = r],
           exported[e].at \notin {"queued", "exported", "replaces", "overflows"},
           exporter' = exporter, exportWorkers' = exportWorkers
    PROVE  ExporterInv'
<1>1. /\ exported' \in [ExportedEvents -> CallRecords]
      /\ \A w \in 1..Len(exportWorkers) : HeldAreOver(exportWorkers[w], exported')
    BY CallMoves, Zenon
<1>2. ExporterTypes'
    BY <1>1 DEF ExporterInv, ExporterTypes
<1>3. \A f \in ExportedEvents : f # e => exported'[f] = exported[f]
    BY DEF ExporterInv, ExporterTypes
<1>4. \A w \in DOMAIN exportWorkers : ToBeCanceled(w) => ToBeCanceled(w)'
    BY Zenon, <1>3 DEF ToBeCanceled
<1>5. WorkersAreStopped'
    BY <1>4 DEF ExporterInv, WorkersAreStopped
<1> QED BY <1>1, <1>2, <1>5, Zenon DEF ExporterInv

\* The exporter in use is taken out of use by a call that will cancel it.
LEMMA CallTakesOver ==
    ASSUME ExporterInv, NEW e \in ExportedEvents, NEW r \in CallRecords,
           exported' = [exported EXCEPT ![e] = r],
           exported[e].at \notin {"queued", "exported", "replaces", "overflows"},
           r.at \in {"replaces", "overflows"}, r.worker = exporter.current,
           exporter' \in [config : Settings, current : Nat, closing : Nat],
           exporter'.closing = exporter.closing,
           \/ exportWorkers' = exportWorkers /\ exporter'.current = 0
           \/ exportWorkers' = Append(exportWorkers, NewWorker) /\ exporter'.current = Len(exportWorkers) + 1
    PROVE  ExporterInv'
<1>0. exportWorkers \in Seq(WorkerRecords) /\ Len(exportWorkers) \in Nat
    BY DEF ExporterInv, ExporterTypes
<1>1. /\ exported' \in [ExportedEvents -> CallRecords]
      /\ \A w \in 1..Len(exportWorkers) : HeldAreOver(exportWorkers[w], exported')
    BY CallMoves, Zenon
<1>2. NewWorker \in WorkerRecords /\ Events(NewWorker.queue) = {} /\ Events(NewWorker.batch) = {}
    BY DEF NewWorker, WorkerRecords, Events
<1>3. /\ exportWorkers' \in Seq(WorkerRecords) /\ Len(exportWorkers') \in Nat
      /\ Len(exportWorkers) <= Len(exportWorkers')
      /\ \A w \in 1..Len(exportWorkers) : exportWorkers'[w] = exportWorkers[w]
      /\ \A w \in 1..Len(exportWorkers') :
            w > Len(exportWorkers) => exporter'.current = w /\ exportWorkers'[w] = NewWorker
      /\ exporter'.current \in 0..Len(exportWorkers')
    <2>1. CASE exportWorkers' = exportWorkers /\ exporter'.current = 0
        BY <1>0, <2>1
    <2>2. CASE exportWorkers' = Append(exportWorkers, NewWorker) /\ exporter'.current = Len(exportWorkers) + 1
        <3> HIDE DEF NewWorker
        <3>1. /\ exportWorkers' \in Seq(WorkerRecords) /\ Len(exportWorkers') = Len(exportWorkers) + 1
              /\ \A w \in 1..Len(exportWorkers) : exportWorkers'[w] = exportWorkers[w]
              /\ exportWorkers'[Len(exportWorkers) + 1] = NewWorker
            BY <1>0, <1>2, <2>2, LastIn
        <3> QED BY <1>0, <2>2, <3>1
    <2> QED BY Zenon, <2>1, <2>2
<1>4. ExporterTypes'
    BY Zenon, <1>1, <1>3 DEF ExporterTypes
<1>5. \A w \in 1..Len(exportWorkers') : HeldAreOver(exportWorkers'[w], exported')
    <2>1. HeldAreOver(NewWorker, exported')
        BY Zenon, <1>2 DEF HeldAreOver
    <2>2. \A w \in 1..Len(exportWorkers') : w \in 1..Len(exportWorkers) \/ w > Len(exportWorkers)
        BY <1>0, <1>3
    <2> QED BY <1>1, <1>3, <2>1, <2>2, Zenon
<1>6. \A f \in ExportedEvents : f # e => exported'[f] = exported[f]
    BY Zenon DEF ExporterInv, ExporterTypes
<1>7. exported'[e] = r
    BY DEF ExporterInv, ExporterTypes
<1>8. ASSUME NEW w \in 1..Len(exportWorkers), exporter.current = w \/ ToBeCanceled(w)
      PROVE  ToBeCanceled(w)'
    <2>1. CASE exporter.current = w
        BY Zenon, <1>7, <2>1 DEF ToBeCanceled
    <2>2. CASE \E v \in DOMAIN exportWorkers : exportWorkers[v].at = "stopping" /\ exportWorkers[v].cancels = w
        <3>1. PICK v \in 1..Len(exportWorkers) : exportWorkers[v].at = "stopping" /\ exportWorkers[v].cancels = w
            BY <1>0, <2>2
        <3>2. v \in DOMAIN exportWorkers' /\ exportWorkers'[v] = exportWorkers[v]
            BY <1>0, <1>3
        <3> QED BY ZenonT(60), <3>1, <3>2 DEF ToBeCanceled
    <2>3. CASE \/ exporter.closing = w
               \/ \E f \in ExportedEvents : exported[f].at \in {"replaces", "overflows"} /\ exported[f].worker = w
        BY Zenon, <1>6, <2>3 DEF ToBeCanceled
    <2> QED BY Zenon, <1>8, <2>1, <2>2, <2>3 DEF ToBeCanceled
<1>9. \A w \in 1..Len(exportWorkers) :
        /\ exportWorkers[w].canceled => exportWorkers'[w].canceled
        /\ exportWorkers[w].at = "stopped" => exportWorkers'[w].at = "stopped"
    BY Zenon, <1>3
<1>10. WorkersAreStopped'
    BY Zenon, <1>3, <1>8, <1>9, StayStopped
<1> QED BY <1>4, <1>5, <1>10, Zenon DEF ExporterInv

\* A worker is canceled by whoever was about to.
LEMMA CancelMoves ==
    ASSUME ExporterInv, NEW x \in Nat,
           exportWorkers' = Canceled(exportWorkers, x),
           exporter' \in [config : Settings, current : Nat, closing : Nat],
           exporter'.current = exporter.current,
           exporter'.closing = exporter.closing \/ exporter.closing = x,
           exported' \in [ExportedEvents -> CallRecords],
           \A w \in 1..Len(exportWorkers) : HeldAreOver(exportWorkers[w], exported'),
           \A f \in ExportedEvents : exported'[f] = exported[f] \/ exported[f].worker = x
    PROVE  ExporterInv'
<1>0. exportWorkers \in Seq(WorkerRecords) /\ Len(exportWorkers) \in Nat
    BY DEF ExporterInv, ExporterTypes
<1>1. /\ exportWorkers' \in Seq(WorkerRecords) /\ Len(exportWorkers') = Len(exportWorkers)
      /\ \A v \in 1..Len(exportWorkers) :
            /\ exportWorkers'[v].canceled = (exportWorkers[v].canceled \/ v = x)
            /\ exportWorkers'[v].at = exportWorkers[v].at
            /\ exportWorkers'[v].cancels = exportWorkers[v].cancels
            /\ exportWorkers'[v].queue = exportWorkers[v].queue
            /\ exportWorkers'[v].batch = exportWorkers[v].batch
    BY <1>0, CanceledWorker
<1>2. ExporterTypes'
    BY Zenon, <1>1 DEF ExporterInv, ExporterTypes
<1>3. \A w \in 1..Len(exportWorkers') : HeldAreOver(exportWorkers'[w], exported')
    BY <1>1 DEF HeldAreOver
<1>4. ASSUME NEW w \in 1..Len(exportWorkers), w # x, ToBeCanceled(w) PROVE ToBeCanceled(w)'
    <2>1. DOMAIN exportWorkers' = DOMAIN exportWorkers /\ DOMAIN exportWorkers = 1..Len(exportWorkers)
        BY <1>0, <1>1
    <2>2. CASE \E u \in DOMAIN exportWorkers : exportWorkers[u].at = "stopping" /\ exportWorkers[u].cancels = w
        <3>1. PICK u \in 1..Len(exportWorkers) : exportWorkers[u].at = "stopping" /\ exportWorkers[u].cancels = w
            BY Zenon, <2>1, <2>2
        <3>2. exportWorkers'[u].at = "stopping" /\ exportWorkers'[u].cancels = w
            BY Zenon, <1>1, <3>1
        <3> QED BY Zenon, <2>1, <3>2 DEF ToBeCanceled
    <2>3. CASE \/ exporter.closing = w
               \/ \E f \in ExportedEvents : exported[f].at \in {"replaces", "overflows"} /\ exported[f].worker = w
        BY Zenon, <1>4, <2>3 DEF ToBeCanceled
    <2> QED BY Zenon, <1>4, <2>2, <2>3 DEF ToBeCanceled
<1>5. \A w \in 1..Len(exportWorkers) :
        /\ exportWorkers[w].canceled => exportWorkers'[w].canceled
        /\ exportWorkers[w].at = "stopped" => exportWorkers'[w].at = "stopped"
        /\ w = x => exportWorkers'[w].canceled
    BY <1>1, Zenon
<1>6. Len(exportWorkers) <= Len(exportWorkers')
      /\ \A w \in 1..Len(exportWorkers') : w > Len(exportWorkers) => exporter'.current = w
    BY <1>0, <1>1
<1>7. WorkersAreStopped'
    BY Zenon, <1>1, <1>4, <1>5, <1>6, StayStopped
<1> QED BY Zenon, <1>2, <1>3, <1>7 DEF ExporterInv

\* A failed export under fail_fast takes over the exporter in use.
LEMMA WorkerTakesOver ==
    ASSUME ExporterInv, NEW w \in 1..Len(exportWorkers), NEW me \in WorkerRecords,
           exportWorkers' = [exportWorkers EXCEPT ![w] = me],
           exportWorkers[w].at \notin {"stopping", "stopped"},
           me.at = "stopping", me.cancels = exporter.current, me.canceled = exportWorkers[w].canceled,
           me.queue = exportWorkers[w].queue, me.batch = exportWorkers[w].batch,
           exporter' \in [config : Settings, current : Nat, closing : Nat],
           exporter'.current = 0, exporter'.closing = exporter.closing, exported' = exported
    PROVE  ExporterInv'
<1>0. exportWorkers \in Seq(WorkerRecords) /\ Len(exportWorkers) \in Nat
    BY DEF ExporterInv, ExporterTypes
<1>1. /\ exportWorkers' \in Seq(WorkerRecords) /\ Len(exportWorkers') = Len(exportWorkers)
      /\ \A v \in 1..Len(exportWorkers) : exportWorkers'[v] = IF v = w THEN me ELSE exportWorkers[v]
    BY <1>0, EntrySet
<1>2. ExporterTypes'
    BY <1>0, <1>1 DEF ExporterInv, ExporterTypes
<1>3. \A v \in 1..Len(exportWorkers') : HeldAreOver(exportWorkers'[v], exported')
    BY <1>1 DEF ExporterInv, HeldAreOver
<1>4. DOMAIN exportWorkers' = DOMAIN exportWorkers /\ DOMAIN exportWorkers = 1..Len(exportWorkers)
    BY <1>0, <1>1
<1>5. ASSUME NEW v \in 1..Len(exportWorkers), exporter.current = v \/ ToBeCanceled(v)
      PROVE  ToBeCanceled(v)'
    <2>1. CASE exporter.current = v
        BY Zenon, <1>1, <1>4, <2>1 DEF ToBeCanceled
    <2>2. CASE ToBeCanceled(v)
        BY Zenon, <1>1, <1>4, <2>2 DEF ToBeCanceled
    <2> QED BY Zenon, <1>5, <2>1, <2>2
<1>6. \A v \in 1..Len(exportWorkers) :
        /\ exportWorkers[v].canceled => exportWorkers'[v].canceled
        /\ exportWorkers[v].at = "stopped" => exportWorkers'[v].at = "stopped"
    BY Zenon, <1>1
<1>7. Len(exportWorkers) <= Len(exportWorkers')
      /\ \A v \in 1..Len(exportWorkers') : v > Len(exportWorkers) => exporter'.current = v
    BY <1>0, <1>1
<1>8. WorkersAreStopped'
    BY Zenon, <1>1, <1>5, <1>6, <1>7, StayStopped
<1> QED BY Zenon, <1>2, <1>3, <1>8 DEF ExporterInv

\* A worker that took over cancels, and has stopped.
LEMMA StoppingMoves ==
    ASSUME ExporterInv, NEW w \in 1..Len(exportWorkers), WorkerCancels(w)
    PROVE  ExporterInv'
<1> DEFINE x == exportWorkers[w].cancels
           between == Canceled(exportWorkers, x)
           me == [between[w] EXCEPT !.at = "stopped"]
<1>0. /\ exportWorkers \in Seq(WorkerRecords) /\ Len(exportWorkers) \in Nat
      /\ x \in Nat /\ exportWorkers[w].at = "stopping"
    BY HeldAreEvents DEF ExporterInv, ExporterTypes, WorkerRecords, WorkerCancels
<1>1. /\ between \in Seq(WorkerRecords) /\ Len(between) = Len(exportWorkers)
      /\ \A v \in 1..Len(exportWorkers) :
            /\ between[v].canceled = (exportWorkers[v].canceled \/ v = x)
            /\ between[v].at = exportWorkers[v].at
            /\ between[v].cancels = exportWorkers[v].cancels
            /\ between[v].queue = exportWorkers[v].queue
            /\ between[v].batch = exportWorkers[v].batch
    BY <1>0, CanceledWorker
<1>2. exportWorkers' = [between EXCEPT ![w] = me] /\ exporter' = exporter /\ exported' = exported
    BY DEF WorkerCancels
<1> HIDE DEF between
<1>3. /\ me \in WorkerRecords /\ me.at = "stopped" /\ me.canceled = between[w].canceled
      /\ me.queue = between[w].queue /\ me.batch = between[w].batch
    <2>1. between[w] \in WorkerRecords
        BY <1>0, <1>1
    <2> QED BY <2>1 DEF WorkerRecords
<1> HIDE DEF me, x
<1>4. /\ exportWorkers' \in Seq(WorkerRecords) /\ Len(exportWorkers') = Len(exportWorkers)
      /\ \A v \in 1..Len(exportWorkers) : exportWorkers'[v] = IF v = w THEN me ELSE between[v]
    BY <1>1, <1>2, <1>3, EntrySet
<1>5. ExporterTypes'
    BY <1>2, <1>4 DEF ExporterInv, ExporterTypes
<1>6. ASSUME NEW v \in 1..Len(exportWorkers') PROVE HeldAreOver(exportWorkers'[v], exported')
    <2>1. v \in 1..Len(exportWorkers) /\ HeldAreOver(exportWorkers[v], exported)
        BY Zenon, <1>4 DEF ExporterInv
    <2>2. exportWorkers'[v].queue = exportWorkers[v].queue /\ exportWorkers'[v].batch = exportWorkers[v].batch
        <3>1. CASE v = w
            BY <1>1, <1>3, <1>4, <2>1, <3>1, Zenon
        <3>2. CASE v # w
            BY <1>1, <1>4, <2>1, <3>2, ZenonT(60)
        <3> QED BY ZenonT(60), <3>1, <3>2
    <2> QED BY <1>2, <2>1, <2>2, Zenon DEF HeldAreOver
<1>7. DOMAIN exportWorkers' = DOMAIN exportWorkers /\ DOMAIN exportWorkers = 1..Len(exportWorkers)
    BY <1>0, <1>4
<1>8. ASSUME NEW v \in 1..Len(exportWorkers), v # x, ToBeCanceled(v) PROVE ToBeCanceled(v)'
    <2>1. CASE \E u \in DOMAIN exportWorkers : exportWorkers[u].at = "stopping" /\ exportWorkers[u].cancels = v
        <3>1. PICK u \in 1..Len(exportWorkers) : exportWorkers[u].at = "stopping" /\ exportWorkers[u].cancels = v
            BY <1>7, <2>1
        <3>2. u # w
            BY <1>8, <3>1 DEF x
        <3>3. exportWorkers'[u].at = "stopping" /\ exportWorkers'[u].cancels = v
            BY ZenonT(60), <1>1, <1>4, <3>1, <3>2
        <3> QED BY ZenonT(60), <1>7, <3>3 DEF ToBeCanceled
    <2>2. CASE \/ exporter.closing = v
               \/ \E f \in ExportedEvents : exported[f].at \in {"replaces", "overflows"} /\ exported[f].worker = v
        BY <1>2, <2>2 DEF ToBeCanceled
    <2> QED BY Zenon, <1>8, <2>1, <2>2 DEF ToBeCanceled
<1>9. \A v \in 1..Len(exportWorkers) :
        /\ exportWorkers[v].canceled => exportWorkers'[v].canceled
        /\ exportWorkers[v].at = "stopped" => exportWorkers'[v].at = "stopped"
        /\ v = x => exportWorkers'[v].canceled
    BY <1>1, <1>3, <1>4, ZenonT(60)
<1>10. Len(exportWorkers) <= Len(exportWorkers')
       /\ \A v \in 1..Len(exportWorkers') : v > Len(exportWorkers) => exporter'.current = v
    BY <1>0, <1>4
<1>11. WorkersAreStopped'
    BY Zenon, <1>2, <1>4, <1>8, <1>9, <1>10, StayStopped
<1> QED BY Zenon, <1>5, <1>6, <1>11 DEF ExporterInv

\* ExporterInv holds initially.
LEMMA ExporterInvInit == ExporterInit => ExporterInv
<1> SUFFICES ASSUME ExporterInit PROVE ExporterInv
    OBVIOUS
<1>1. Unset \in Settings
    BY DEF Unset, Settings
<1>2. ExporterTypes /\ exportWorkers = <<>>
    <2> HIDE DEF Unset
    <2> QED BY <1>1 DEF ExporterInit, ExporterTypes, CallRecords
<1> QED BY <1>2 DEF ExporterInv, WorkersAreStopped

\* A worker hands its batch over.
LEMMA FlushMoves ==
    ASSUME ExporterInv, NEW w \in 1..Len(exportWorkers), NEW me \in WorkerRecords,
           me.canceled = exportWorkers[w].canceled, me.at = exportWorkers[w].at,
           me.at \in {"waiting", "draining"},
           HeldAreOver(me, exported), Flushing(w, me), exporter' = exporter
    PROVE  ExporterInv'
<1> DEFINE r == [me EXCEPT !.batch = <<>>,
                           !.at = IF me.at = "waiting" THEN "exporting" ELSE "exporting_last"]
<1>1. exportWorkers' = [exportWorkers EXCEPT ![w] = r]
    BY DEF Flushing, Becomes
<1>2. r \in WorkerRecords /\ r.canceled = exportWorkers[w].canceled /\ r.queue = me.queue /\ r.batch = <<>>
    <2>1. <<>> \in Seq(ExportedEvents)
        OBVIOUS
    <2>2. ASSUME NEW where \in {"exporting", "exporting_last"}, NEW none \in Seq(ExportedEvents)
          PROVE  LET x == [me EXCEPT !.batch = none, !.at = where] IN
                 x \in WorkerRecords /\ x.canceled = me.canceled /\ x.queue = me.queue /\ x.batch = none
        BY Zenon DEF WorkerRecords
    <2> QED BY <2>1, <2>2, Zenon
<1> HIDE DEF r
<1>3. exported' = [e \in ExportedEvents |->
                     IF e \in Events(me.batch) THEN [exported[e] EXCEPT !.at = "exported"] ELSE exported[e]]
    BY DEF Flushing
<1>4. exported \in [ExportedEvents -> CallRecords]
    BY Zenon DEF ExporterInv, ExporterTypes
<1>5. \A e \in ExportedEvents :
        [exported[e] EXCEPT !.at = "exported"] \in CallRecords /\ [exported[e] EXCEPT !.at = "exported"].at = "exported"
    BY <1>4 DEF CallRecords
<1>6. exported' \in [ExportedEvents -> CallRecords]
    BY <1>3, <1>4, <1>5
<1>7. \A e \in ExportedEvents :
        \/ exported'[e] = exported[e]
        \/ exported[e].at \in {"queued", "exported"} /\ exported'[e].at \in {"queued", "exported"}
    BY <1>3, <1>5 DEF HeldAreOver
<1>8. HeldAreOver(r, exported')
    <2>1. Events(r.batch) = {} /\ Events(r.queue) = Events(me.queue)
        BY <1>2 DEF Events
    <2>2. Events(me.queue) \subseteq ExportedEvents
        BY DEF WorkerRecords, Events
    <2> QED BY <1>7, <2>1, <2>2 DEF HeldAreOver
<1>9. exportWorkers[w].at \notin {"stopping", "stopped"}
    OBVIOUS
<1> QED BY <1>1, <1>2, <1>6, <1>7, <1>8, <1>9, WorkerMoves, Zenon

\* A worker moves on with what it has.
LEMMA WorkerWaits ==
    ASSUME ExporterInv, NEW w \in 1..Len(exportWorkers),
           NEW where \in {"waiting", "draining", "exporting", "exporting_last", "ended"},
           exportWorkers' = [exportWorkers EXCEPT ![w] = [exportWorkers[w] EXCEPT !.at = where]],
           exportWorkers[w].at \notin {"stopping", "stopped"},
           exported' = exported, exporter' = exporter
    PROVE  ExporterInv'
<1> DEFINE r == [exportWorkers[w] EXCEPT !.at = where]
<1>1. exportWorkers[w] \in WorkerRecords
    BY HeldAreEvents
<1>2. /\ r \in WorkerRecords /\ r.canceled = exportWorkers[w].canceled
      /\ r.queue = exportWorkers[w].queue /\ r.batch = exportWorkers[w].batch
    BY <1>1 DEF WorkerRecords
<1> HIDE DEF r
<1>3. exportWorkers' = [exportWorkers EXCEPT ![w] = r]
    BY DEF r
<1>4. HeldAreOver(r, exported')
    BY <1>2 DEF ExporterInv, HeldAreOver
<1>5. exported' \in [ExportedEvents -> CallRecords]
    BY DEF ExporterInv, ExporterTypes
<1> QED BY <1>2, <1>3, <1>4, <1>5, WorkerMoves, Zenon

\* ExporterInv is kept by the steps of a worker.
LEMMA WorkerSteps ==
    ASSUME ExporterInv, NEW w \in DOMAIN exportWorkers,
           \/ Receives(w) \/ FlushTimerFires(w) \/ ContextDone(w) \/ Drained(w)
           \/ ExportReturns(w) \/ WorkerCancels(w)
    PROVE  ExporterInv'
<1>0. /\ w \in 1..Len(exportWorkers) /\ exportWorkers[w] \in WorkerRecords
      /\ HeldAreOver(exportWorkers[w], exported)
    BY HeldAreEvents DEF ExporterInv, ExporterTypes
<1>1. CASE Receives(w)
    <2> DEFINE me == exportWorkers[w]
               taken == [me EXCEPT !.queue = Tail(@), !.batch = Append(@, Head(me.queue))]
    <2>1. me.queue \in Seq(ExportedEvents) /\ me.batch \in Seq(ExportedEvents) /\ me.queue # <<>>
        BY <1>0, <1>1 DEF Receives, WorkerRecords
    <2>2. /\ Head(me.queue) \in ExportedEvents /\ Head(me.queue) \in Events(me.queue)
          /\ Tail(me.queue) \in Seq(ExportedEvents) /\ Events(Tail(me.queue)) \subseteq Events(me.queue)
        <3>1. PICK e \in ExportedEvents : TRUE
            BY Zenon, <2>1, FirstOut
        <3> QED BY Zenon, <2>1, <3>1, EventsOf
    <2>3. Events(Append(me.batch, Head(me.queue))) = Events(me.batch) \cup {Head(me.queue)}
        BY Zenon, <2>1, <2>2, EventsOf
    <2>4. Append(me.batch, Head(me.queue)) \in Seq(ExportedEvents)
        BY Zenon, <2>1, <2>2, LastIn
    <2>5. /\ taken \in WorkerRecords /\ taken.canceled = me.canceled /\ taken.at = me.at
          /\ taken.queue = Tail(me.queue) /\ taken.batch = Append(me.batch, Head(me.queue))
        BY <1>0, <2>2, <2>4, Zenon DEF WorkerRecords
    <2>6. /\ me.at \in {"waiting", "draining"} /\ exporter' = exporter
          /\ \/ Flushing(w, taken)
             \/ exportWorkers' = [exportWorkers EXCEPT ![w] = taken] /\ exported' = exported
        BY <1>1 DEF Receives, Becomes
    <2> HIDE DEF taken
    <2>7. HeldAreOver(taken, exported)
        BY Zenon, <1>0, <2>2, <2>3, <2>5 DEF HeldAreOver
    <2>8. CASE Flushing(w, taken)
        BY Zenon, <1>0, <2>5, <2>6, <2>7, <2>8, FlushMoves
    <2>9. CASE exportWorkers' = [exportWorkers EXCEPT ![w] = taken] /\ exported' = exported
        <3>1. exported' \in [ExportedEvents -> CallRecords]
            BY <2>9 DEF ExporterInv, ExporterTypes
        <3>2. HeldAreOver(taken, exported')
            BY <2>7, <2>9
        <3>3. exportWorkers[w].at \notin {"stopping", "stopped"}
            BY <2>6
        <3> QED BY <1>0, <2>5, <2>6, <2>9, <3>1, <3>2, <3>3, WorkerMoves, ZenonT(60)
    <2> QED BY <2>6, <2>8, <2>9
<1>2. CASE FlushTimerFires(w)
    <2>1. exportWorkers[w].at = "waiting" /\ Flushing(w, exportWorkers[w]) /\ exporter' = exporter
        BY Zenon, <1>2 DEF FlushTimerFires
    <2> QED BY Zenon, <1>0, <2>1, FlushMoves
<1>3. CASE ContextDone(w)
    <2>1. /\ exportWorkers[w].at = "waiting" /\ exporter' = exporter /\ exported' = exported
          /\ exportWorkers' = [exportWorkers EXCEPT ![w] = [exportWorkers[w] EXCEPT !.at = "draining"]]
        BY <1>3 DEF ContextDone, Becomes
    <2> QED BY <1>0, <2>1, WorkerWaits, Zenon
<1>4. CASE Drained(w)
    <2>1. exportWorkers[w].at = "draining" /\ exporter' = exporter
        BY <1>4 DEF Drained
    <2>2. CASE Flushing(w, exportWorkers[w])
        BY Zenon, <1>0, <2>1, <2>2, FlushMoves
    <2>3. CASE Becomes(w, [exportWorkers[w] EXCEPT !.at = "ended"]) /\ UNCHANGED exported
        BY <1>0, <2>1, <2>3, WorkerWaits, Zenon DEF Becomes
    <2> QED BY <1>4, <2>2, <2>3 DEF Drained
<1>5. CASE ExportReturns(w)
    <2>1. exportWorkers[w].at \in {"exporting", "exporting_last"} /\ exported' = exported
        BY <1>5 DEF ExportReturns
    <2>2. CASE Becomes(w, Resumed(exportWorkers[w])) /\ UNCHANGED exporter
        <3>1. \E where \in {"waiting", "draining"} :
                exportWorkers' = [exportWorkers EXCEPT ![w] = [exportWorkers[w] EXCEPT !.at = where]]
            BY <2>2, Zenon DEF Becomes, Resumed
        <3> QED BY <1>0, <2>1, <2>2, <3>1, WorkerWaits, Zenon
    <2>3. CASE /\ Becomes(w, [exportWorkers[w] EXCEPT !.at = "stopping", !.cancels = exporter.current])
               /\ exporter' = [exporter EXCEPT !.current = 0]
        <3> DEFINE r == [exportWorkers[w] EXCEPT !.at = "stopping", !.cancels = exporter.current]
        <3>1. /\ exporter' \in [config : Settings, current : Nat, closing : Nat] /\ exporter'.current = 0
              /\ exporter'.closing = exporter.closing /\ exporter.current \in Nat
            BY <2>3 DEF ExporterInv, ExporterTypes
        <3>2. /\ r \in WorkerRecords /\ r.at = "stopping" /\ r.cancels = exporter.current
              /\ r.canceled = exportWorkers[w].canceled
              /\ r.queue = exportWorkers[w].queue /\ r.batch = exportWorkers[w].batch
            BY <1>0, <3>1, Zenon DEF WorkerRecords
        <3>3. exportWorkers' = [exportWorkers EXCEPT ![w] = r]
            BY <2>3 DEF Becomes
        <3> HIDE DEF r
        <3> QED BY <1>0, <2>1, <3>1, <3>2, <3>3, WorkerTakesOver, Zenon
    <2> QED BY <1>5, <2>2, <2>3 DEF ExportReturns
<1>6. CASE WorkerCancels(w)
    BY <1>0, <1>6, StoppingMoves
<1> QED BY <1>1, <1>2, <1>3, <1>4, <1>5, <1>6

\* ExporterInv is kept by the steps of a call of HandleEvent.
LEMMA CallSteps ==
    ASSUME ExporterInv, NEW e \in ExportedEvents,
           ReadsConfig(e) \/ SameConfig(e) \/ Configure(e) \/ CallCancels(e) \/ Enqueue(e)
    PROVE  ExporterInv'
<1>0. /\ exporter \in [config : Settings, current : Nat, closing : Nat]
      /\ exportWorkers \in Seq(WorkerRecords) /\ Len(exportWorkers) \in Nat
      /\ exporter.current \in Nat /\ exporter.current \in 0..Len(exportWorkers)
      /\ exported \in [ExportedEvents -> CallRecords]
    BY DEF ExporterInv, ExporterTypes
<1>1. Unset \in Settings
    BY Zenon DEF Unset, Settings
<1>2. ASSUME NEW at \in {"replaces", "enqueues", "overflows", "queued", "dropped"}, NEW worker \in Nat,
             Call(e, at, worker)
      PROVE  \E r \in CallRecords :
                exported' = [exported EXCEPT ![e] = r] /\ r.at = at /\ r.worker = worker
    <2> DEFINE r == [at |-> at, config |-> Unset, worker |-> worker]
    <2> HIDE DEF Unset
    <2>1. r \in CallRecords /\ r.at = at /\ r.worker = worker
        BY Zenon, <1>1 DEF CallRecords
    <2> QED BY <1>2, <2>1, Zenon DEF Call
<1>3. CASE ReadsConfig(e)
    <2>1. PICK config \in ExportConfigs :
            exported' = [exported EXCEPT ![e] = [at |-> "configures", config |-> config, worker |-> 0]]
        BY <1>3, Zenon DEF ReadsConfig
    <2>2. [at |-> "configures", config |-> config, worker |-> 0] \in CallRecords
        BY Zenon, ExporterAssumption DEF CallRecords, Settings
    <2>3. exported[e].at = "none" /\ exporter' = exporter /\ exportWorkers' = exportWorkers
        BY Zenon, <1>3 DEF ReadsConfig
    <2> QED BY <2>1, <2>2, <2>3, OnlyCallMoves, Zenon
<1>4. CASE SameConfig(e)
    <2>1. PICK r \in CallRecords : exported' = [exported EXCEPT ![e] = r]
        BY Zenon, <1>2, <1>4 DEF SameConfig
    <2>2. exported[e].at = "configures" /\ exporter' = exporter /\ exportWorkers' = exportWorkers
        BY Zenon, <1>4 DEF SameConfig
    <2> QED BY <2>1, <2>2, OnlyCallMoves, Zenon
<1>5. CASE Configure(e)
    <2>1. PICK r \in CallRecords :
            exported' = [exported EXCEPT ![e] = r] /\ r.at = "replaces" /\ r.worker = exporter.current
        BY <1>0, <1>2, <1>5 DEF Configure
    <2>2. exported[e].at = "configures" /\ exported[e].config \in Settings
        BY <1>0, <1>5 DEF Configure, CallRecords
    <2>3. /\ exporter' \in [config : Settings, current : Nat, closing : Nat]
          /\ exporter'.closing = exporter.closing
          /\ \/ exportWorkers' = exportWorkers /\ exporter'.current = 0
             \/ exportWorkers' = Append(exportWorkers, NewWorker) /\ exporter'.current = Len(exportWorkers) + 1
        <3>0. ASSUME NEW n \in Nat
              PROVE  LET x == [exporter EXCEPT !.config = exported[e].config, !.current = n] IN
                     /\ x \in [config : Settings, current : Nat, closing : Nat]
                     /\ x.closing = exporter.closing /\ x.current = n
            BY <1>0, <2>2, Zenon
        <3>1. CASE /\ exportWorkers' = Append(exportWorkers, NewWorker)
                   /\ exporter' = [exporter EXCEPT !.config = exported[e].config,
                                                   !.current = Len(exportWorkers) + 1]
            <4>1. Len(exportWorkers) + 1 \in Nat
                BY <1>0
            <4> QED BY <3>0, <3>1, <4>1, Zenon
        <3>2. CASE /\ exporter' = [exporter EXCEPT !.config = exported[e].config, !.current = 0]
                   /\ exportWorkers' = exportWorkers
            <4>1. 0 \in Nat
                OBVIOUS
            <4> QED BY <3>0, <3>2, <4>1, Zenon
        <3> QED BY <1>5, <3>1, <3>2 DEF Configure
    <2> QED BY <2>1, <2>2, <2>3, CallTakesOver, Zenon
<1>6. CASE CallCancels(e)
    <2> DEFINE x == exported[e].worker
    <2>1. /\ x \in Nat /\ exported[e].at \in {"replaces", "overflows"}
          /\ exportWorkers' = Canceled(exportWorkers, x) /\ exporter' = exporter
        BY Zenon, <1>0, <1>6 DEF CallCancels, CallRecords
    <2>2. PICK r \in CallRecords : exported' = [exported EXCEPT ![e] = r]
        BY Zenon, <1>2, <1>6 DEF CallCancels
    <2>3. /\ exported' \in [ExportedEvents -> CallRecords]
          /\ \A w \in 1..Len(exportWorkers) : HeldAreOver(exportWorkers[w], exported')
        BY <2>1, <2>2, CallMoves, Zenon
    <2>4. \A f \in ExportedEvents : exported'[f] = exported[f] \/ exported[f].worker = x
        BY <1>0, <2>2
    <2> QED BY Zenon, <1>0, <2>1, <2>3, <2>4, CancelMoves
<1>7. CASE Enqueue(e)
    <2> DEFINE w == exporter.current
    <2>1. exported[e].at = "enqueues"
        BY Zenon, <1>7 DEF Enqueue
    <2>2. CASE Call(e, "dropped", 0) /\ UNCHANGED <<exporter, exportWorkers>>
        <3>1. PICK r \in CallRecords : exported' = [exported EXCEPT ![e] = r]
            BY <1>2, <2>2
        <3> QED BY <2>1, <2>2, <3>1, OnlyCallMoves, Zenon
    <2>3. CASE /\ exporter' = [exporter EXCEPT !.current = 0] /\ Call(e, "overflows", w)
               /\ UNCHANGED exportWorkers
        <3>1. PICK r \in CallRecords :
                exported' = [exported EXCEPT ![e] = r] /\ r.at = "overflows" /\ r.worker = exporter.current
            BY <1>0, <1>2, <2>3
        <3>2. /\ exporter' \in [config : Settings, current : Nat, closing : Nat]
              /\ exporter'.closing = exporter.closing /\ exporter'.current = 0
            BY <1>0, <2>3
        <3> QED BY <2>1, <2>3, <3>1, <3>2, CallTakesOver, Zenon
    <2>4. CASE /\ w # 0 /\ exportWorkers' = [exportWorkers EXCEPT ![w].queue = Append(@, e)]
               /\ Call(e, "queued", w) /\ UNCHANGED exporter
        <3>1. PICK r \in CallRecords : exported' = [exported EXCEPT ![e] = r] /\ r.at = "queued"
            BY <1>0, <1>2, <2>4
        <3>2. /\ exported' \in [ExportedEvents -> CallRecords]
              /\ \A v \in 1..Len(exportWorkers) : HeldAreOver(exportWorkers[v], exported')
              /\ exported'[e].at = "queued"
            BY <1>0, <2>1, <3>1, CallMoves, Zenon
        <3> DEFINE me == [exportWorkers[w] EXCEPT !.queue = Append(@, e)]
        <3>3. w \in 1..Len(exportWorkers)
            BY <1>0, <2>4
        <3>4. exportWorkers[w] \in WorkerRecords /\ exportWorkers[w].queue \in Seq(ExportedEvents)
            BY Zenon, <3>3, HeldAreEvents DEF WorkerRecords
        <3>5. /\ me \in WorkerRecords /\ me.canceled = exportWorkers[w].canceled
              /\ me.at = exportWorkers[w].at /\ me.cancels = exportWorkers[w].cancels
              /\ me.queue = Append(exportWorkers[w].queue, e) /\ me.batch = exportWorkers[w].batch
            BY <3>4, LastIn, Zenon DEF WorkerRecords
        <3>6. HeldAreOver(me, exported')
            <4> HIDE DEF me
            <4>1. Events(me.queue) = Events(exportWorkers[w].queue) \cup {e}
                BY ZenonT(60), <3>4, <3>5, EventsOf
            <4> QED BY ZenonT(60), <3>2, <3>3, <3>5, <4>1 DEF HeldAreOver
        <3>7. exportWorkers' = [exportWorkers EXCEPT ![w] = me]
            BY <2>4
        <3> HIDE DEF me
        <3>8. /\ exportWorkers' \in Seq(WorkerRecords) /\ Len(exportWorkers') = Len(exportWorkers)
              /\ \A v \in 1..Len(exportWorkers) : exportWorkers'[v] = IF v = w THEN me ELSE exportWorkers[v]
            BY <1>0, <3>3, <3>5, <3>7, EntrySet
        <3>9. ExporterTypes'
            BY <1>0, <2>4, <3>2, <3>8 DEF ExporterTypes
        <3>10. \A v \in 1..Len(exportWorkers') : HeldAreOver(exportWorkers'[v], exported')
            BY ZenonT(60), <3>2, <3>6, <3>8
        <3>11. DOMAIN exportWorkers' = DOMAIN exportWorkers /\ DOMAIN exportWorkers = 1..Len(exportWorkers)
            BY <1>0, <3>8
        <3>12. \A v \in 1..Len(exportWorkers) :
                /\ exportWorkers'[v].at = exportWorkers[v].at
                /\ exportWorkers'[v].cancels = exportWorkers[v].cancels
                /\ exportWorkers'[v].canceled = exportWorkers[v].canceled
            BY Zenon, <3>5, <3>8
        <3>13. \A f \in ExportedEvents : exported[f].at \in {"replaces", "overflows"} => exported'[f] = exported[f]
            BY Zenon, <1>0, <2>1, <3>1
        <3>14. ASSUME NEW v \in 1..Len(exportWorkers), ToBeCanceled(v) PROVE ToBeCanceled(v)'
            <4>1. CASE \E u \in DOMAIN exportWorkers : exportWorkers[u].at = "stopping" /\ exportWorkers[u].cancels = v
                BY Zenon, <3>11, <3>12, <4>1 DEF ToBeCanceled
            <4>2. CASE \/ exporter.closing = v
                       \/ \E f \in ExportedEvents : exported[f].at \in {"replaces", "overflows"} /\ exported[f].worker = v
                BY <2>4, <3>13, <4>2 DEF ToBeCanceled
            <4> QED BY Zenon, <3>14, <4>1, <4>2 DEF ToBeCanceled
        <3>15. WorkersAreStopped'
            BY Zenon, <2>4, <3>11, <3>12, <3>14 DEF ExporterInv, WorkersAreStopped
        <3> QED BY Zenon, <3>9, <3>10, <3>15 DEF ExporterInv
    <2> QED BY Zenon, <1>7, <2>2, <2>3, <2>4 DEF Enqueue
<1> QED BY <1>3, <1>4, <1>5, <1>6, <1>7

\* ExporterInv is kept by Close.
LEMMA CloseSteps ==
    ASSUME ExporterInv, CloseExporter \/ CloseCancels
    PROVE  ExporterInv'
<1>0. /\ exporter \in [config : Settings, current : Nat, closing : Nat]
      /\ exportWorkers \in Seq(WorkerRecords) /\ Len(exportWorkers) \in Nat
      /\ exporter.current \in 0..Len(exportWorkers)
      /\ exported \in [ExportedEvents -> CallRecords]
      /\ \A w \in 1..Len(exportWorkers) : HeldAreOver(exportWorkers[w], exported)
    BY DEF ExporterInv, ExporterTypes
<1>1. CASE CloseExporter
    <2>0. exporter.current \in Nat
        BY <1>0
    <2>1. /\ exporter'.current = 0 /\ exporter'.closing = exporter.current /\ exporter.closing = 0
          /\ exporter' \in [config : Settings, current : Nat, closing : Nat]
          /\ exportWorkers' = exportWorkers /\ exported' = exported
        BY <1>0, <1>1, <2>0, Zenon DEF CloseExporter
    <2>2. ExporterTypes'
        BY <1>0, <2>1 DEF ExporterTypes
    <2>3. \A w \in 1..Len(exportWorkers) : exporter.current = w \/ ToBeCanceled(w) => ToBeCanceled(w)'
        BY <2>1 DEF ToBeCanceled
    <2>4. WorkersAreStopped'
        BY <1>0, <2>1, <2>3 DEF ExporterInv, WorkersAreStopped
    <2> QED BY Zenon, <1>0, <2>1, <2>2, <2>4 DEF ExporterInv
<1>2. CASE CloseCancels
    <2> DEFINE x == exporter.closing
    <2>1. /\ x \in Nat /\ exportWorkers' = Canceled(exportWorkers, x) /\ exported' = exported
          /\ exporter' \in [config : Settings, current : Nat, closing : Nat]
          /\ exporter'.current = exporter.current
        BY <1>0, <1>2 DEF CloseCancels
    <2> QED BY <1>0, <2>1, CancelMoves
<1> QED BY <1>1, <1>2

\* ExporterInv is kept by every step.
LEMMA ExporterInvNext == ExporterInv /\ [ExporterNext]_exporterVars => ExporterInv'
<1> SUFFICES ASSUME ExporterInv, [ExporterNext]_exporterVars PROVE ExporterInv'
    OBVIOUS
<1>1. CASE UNCHANGED exporterVars
    BY Zenon, <1>1 DEF exporterVars, ExporterInv, ExporterTypes, HeldAreOver, WorkersAreStopped, ToBeCanceled
<1>2. CASE ExporterNext
    BY <1>2, CallSteps, WorkerSteps, CloseSteps DEF ExporterNext, ExporterGoesOn
<1> QED BY <1>1, <1>2

(***************************************************************************)
(* No worker goroutine of the exporter is left behind (configureIfNeeded,  *)
(* enqueue, Close, worker), for any number of events, configurations and   *)
(* workers: one that runs and was not canceled is in use, or about to be   *)
(* canceled.                                                               *)
(***************************************************************************)
THEOREM ExporterWorkers == ExporterSpec => []WorkersAreStopped
<1>1. ExporterInv => WorkersAreStopped
    BY DEF ExporterInv
<1> QED BY <1>1, ExporterInvInit, ExporterInvNext, PTL DEF ExporterSpec

-----------------------------------------------------------------------------
(* The events the exporter has accepted *)

\* The events of which worker w is in charge.
InCharge(calls, w) == {e \in ExportedEvents : calls[e].at = "queued" /\ calls[e].worker = w}

\* A worker has each of its events once, and none when it has ended.
HoldsOnce(worker, events) ==
    /\ Once(worker.queue) /\ Once(worker.batch)
    /\ Events(worker.queue) \cap Events(worker.batch) = {}
    /\ Events(worker.queue) \cup Events(worker.batch) = events
    /\ worker.at = "ended" => events = {}

(***************************************************************************)
(* Until an event that enqueue accepted is handed over it is in the queue  *)
(* or in the batch of its worker, once and in no other, and that worker    *)
(* has not ended: it works, or a failed export has stopped it with what it *)
(* had.  An event is never put into a queue that its worker has drained,   *)
(* because the queue is out of use before the worker is canceled (enqueue, *)
(* configureIfNeeded, Close, drainQueueAndFlush).                          *)
(***************************************************************************)
AcceptedEventsAreHeld ==
    /\ \A e \in ExportedEvents : exported[e].at = "queued" => exported[e].worker \in 1..Len(exportWorkers)
    /\ \A w \in 1..Len(exportWorkers) : HoldsOnce(exportWorkers[w], InCharge(exported, w))

\* Whoever is about to be canceled was started.
RefsAreWorkers ==
    /\ exporter.closing \in 0..Len(exportWorkers)
    /\ \A e \in ExportedEvents : exported[e].worker \in 0..Len(exportWorkers)
    /\ \A w \in 1..Len(exportWorkers) : exportWorkers[w].cancels \in 0..Len(exportWorkers)

\* The worker in use is not canceled, and nobody is about to cancel it.
CurrentIsLive ==
    \A w \in 1..Len(exportWorkers) :
        exporter.current = w => ~exportWorkers[w].canceled /\ ~ToBeCanceled(w)

\* A worker drains and ends when it was canceled only.
EndsCanceled(worker) == worker.at \in {"draining", "exporting_last", "ended"} => worker.canceled
OnlyCanceledEnd == \A w \in 1..Len(exportWorkers) : EndsCanceled(exportWorkers[w])

ExporterLive == ExporterInv /\ RefsAreWorkers /\ CurrentIsLive /\ OnlyCanceledEnd

\* Nobody is about to cancel but workers that were, or the one in use.
RefsMove ==
    /\ Len(exportWorkers) <= Len(exportWorkers')
    /\ \A w \in 1..Len(exportWorkers') : w \in 1..Len(exportWorkers) \/ exportWorkers'[w] = NewWorker
    /\ exporter'.closing \in {0, exporter.closing, exporter.current}
    /\ \A e \in ExportedEvents : exported'[e].worker \in {0, exported[e].worker, exporter.current}
    /\ \A w \in 1..Len(exportWorkers) :
        exportWorkers'[w].cancels \in {exportWorkers[w].cancels, exporter.current}

\* The worker in use stays in use, and nobody more is about to cancel it.
InUseStays ==
    /\ exporter'.current = exporter.current /\ Len(exportWorkers') = Len(exportWorkers)
    /\ \A w \in 1..Len(exportWorkers) :
        exporter.current = w => exportWorkers'[w].canceled = exportWorkers[w].canceled
    /\ exporter'.closing \in {0, exporter.closing}
    /\ \A e \in ExportedEvents : exported'[e].at \in {"replaces", "overflows"} => exported'[e] = exported[e]
    /\ \A w \in 1..Len(exportWorkers) : exportWorkers'[w].at = "stopping" =>
        exportWorkers[w].at = "stopping" /\ exportWorkers'[w].cancels = exportWorkers[w].cancels

\* The worker in use is one that runs, whatever is done to the others.
LEMMA LiveStep ==
    ASSUME ExporterLive, ExporterInv', RefsMove, OnlyCanceledEnd',
           \/ exporter'.current = 0
           \/ InUseStays
           \/ exporter'.current = Len(exportWorkers) + 1
    PROVE  ExporterLive'
<1>0. /\ Len(exportWorkers) \in Nat /\ Len(exportWorkers') \in Nat
      /\ DOMAIN exportWorkers = 1..Len(exportWorkers) /\ DOMAIN exportWorkers' = 1..Len(exportWorkers')
    BY DEF ExporterLive, ExporterInv, ExporterTypes
<1>1. exporter.current \in 0..Len(exportWorkers)
    BY Zenon DEF ExporterLive, ExporterInv, ExporterTypes
<1>2. NewWorker.cancels = 0 /\ ~NewWorker.canceled /\ NewWorker.at # "stopping"
    BY DEF NewWorker
<1> HIDE DEF NewWorker
<1>3. Len(exportWorkers) <= Len(exportWorkers')
    BY Zenon DEF RefsMove
<1>n. /\ 0 \in 0..Len(exportWorkers)
      /\ \A k \in 0..Len(exportWorkers) : k \in 0..Len(exportWorkers')
    BY <1>0, <1>3
<1>4. /\ exporter'.closing \in 0..Len(exportWorkers)
      /\ \A e \in ExportedEvents : exported'[e].worker \in 0..Len(exportWorkers)
      /\ \A w \in 1..Len(exportWorkers) : exportWorkers'[w].cancels \in 0..Len(exportWorkers)
    BY Zenon, <1>1, <1>n DEF RefsMove, ExporterLive, RefsAreWorkers
<1>5. \A w \in 1..Len(exportWorkers') : w \in 1..Len(exportWorkers) \/ exportWorkers'[w] = NewWorker
    BY Zenon DEF RefsMove
<1>6. RefsAreWorkers'
    BY Zenon, <1>2, <1>4, <1>5, <1>n DEF RefsAreWorkers
<1>7. CurrentIsLive'
    <2> SUFFICES ASSUME NEW w \in 1..Len(exportWorkers'), exporter'.current = w
                 PROVE  ~exportWorkers'[w].canceled /\ ~ToBeCanceled(w)'
        BY Zenon DEF CurrentIsLive
    <2>0. w # 0
        BY <1>0
    <2>1. CASE InUseStays
        <3>1. /\ ~exportWorkers'[w].canceled /\ ~ToBeCanceled(w) /\ w \in 1..Len(exportWorkers)
            BY Zenon, <2>1 DEF InUseStays, ExporterLive, CurrentIsLive
        <3>2. \A v \in DOMAIN exportWorkers' :
                ~(exportWorkers'[v].at = "stopping" /\ exportWorkers'[v].cancels = w)
            BY Zenon, <1>0, <2>1, <3>1 DEF InUseStays, ToBeCanceled
        <3>3. \A e \in ExportedEvents :
                ~(exported'[e].at \in {"replaces", "overflows"} /\ exported'[e].worker = w)
            BY Zenon, <2>1, <3>1 DEF InUseStays, ToBeCanceled
        <3>4. exporter'.closing # w
            BY Zenon, <2>0, <2>1, <3>1 DEF InUseStays, ToBeCanceled
        <3> QED BY Zenon, <3>1, <3>2, <3>3, <3>4 DEF ToBeCanceled
    <2>2. CASE exporter'.current = Len(exportWorkers) + 1
        <3>1. w \notin 1..Len(exportWorkers) /\ w \notin 0..Len(exportWorkers)
            BY <1>0, <2>2
        <3>2. exportWorkers'[w] = NewWorker
            BY Zenon, <1>5, <3>1
        <3>3. \A v \in DOMAIN exportWorkers' :
                ~(exportWorkers'[v].at = "stopping" /\ exportWorkers'[v].cancels = w)
            BY Zenon, <1>0, <1>2, <1>4, <1>5, <3>1
        <3>4. ~ToBeCanceled(w)'
            BY Zenon, <1>4, <3>1, <3>3 DEF ToBeCanceled
        <3> QED BY Zenon, <1>2, <3>2, <3>4
    <2> QED BY Zenon, <2>0, <2>1, <2>2
<1> QED BY Zenon, <1>6, <1>7 DEF ExporterLive

\* Queues and batches stay as they are, and no call gets or loses its event.
LEMMA HeldStep ==
    ASSUME ExporterLive, AcceptedEventsAreHeld, ExporterInv', RefsMove,
           \A w \in 1..Len(exportWorkers) :
               /\ exportWorkers'[w].queue = exportWorkers[w].queue
               /\ exportWorkers'[w].batch = exportWorkers[w].batch
               /\ exportWorkers'[w].at = "ended" => exportWorkers[w].at = "ended",
           \A e \in ExportedEvents :
               exported'[e] = exported[e] \/ (exported[e].at # "queued" /\ exported'[e].at # "queued")
    PROVE  AcceptedEventsAreHeld'
<1>0. Len(exportWorkers) \in Nat /\ Len(exportWorkers') \in Nat /\ Len(exportWorkers) <= Len(exportWorkers')
    BY DEF ExporterLive, ExporterInv, ExporterTypes, RefsMove
<1>1. \A e \in ExportedEvents : exported'[e].at = "queued" =>
        exported[e].at = "queued" /\ exported'[e] = exported[e] /\ exported'[e].worker \in 1..Len(exportWorkers)
    BY Zenon DEF AcceptedEventsAreHeld
<1>2. \A w : InCharge(exported', w) = InCharge(exported, w)
    BY Zenon DEF InCharge
<1>3. \A w \in 1..Len(exportWorkers) : HoldsOnce(exportWorkers'[w], InCharge(exported', w))
    BY Zenon, <1>2 DEF AcceptedEventsAreHeld, HoldsOnce
<1>4. ASSUME NEW w, w \notin 1..Len(exportWorkers) PROVE InCharge(exported', w) = {}
    BY Zenon, <1>1, <1>4 DEF InCharge
<1>5. /\ NewWorker.queue = <<>> /\ NewWorker.batch = <<>> /\ NewWorker.at # "ended"
    BY DEF NewWorker
<1>6. Once(<<>>) /\ Events(<<>>) = {}
    BY DEF Once, Events
<1> HIDE DEF NewWorker
<1>7. HoldsOnce(NewWorker, {})
    BY Zenon, <1>5, <1>6 DEF HoldsOnce
<1>8. \A w \in 1..Len(exportWorkers') : HoldsOnce(exportWorkers'[w], InCharge(exported', w))
    BY Zenon, <1>3, <1>4, <1>7 DEF RefsMove
<1>9. \A k \in 1..Len(exportWorkers) : k \in 1..Len(exportWorkers')
    BY <1>0
<1> QED BY Zenon, <1>1, <1>8, <1>9 DEF AcceptedEventsAreHeld

ExporterHeld == ExporterLive /\ AcceptedEventsAreHeld

\* What the workers are.
LEMMA HeldTypes ==
    ASSUME ExporterHeld
    PROVE  /\ exportWorkers \in Seq(WorkerRecords) /\ Len(exportWorkers) \in Nat
           /\ Len(exportWorkers) <= Len(exportWorkers)
           /\ DOMAIN exportWorkers = 1..Len(exportWorkers)
<1>1. exportWorkers \in Seq(WorkerRecords)
    BY Zenon DEF ExporterHeld, ExporterLive, ExporterInv, ExporterTypes
<1> QED BY <1>1

\* In the list new worker x is canceled, and nothing else is different.
CancelIs(workers, new, x) ==
    /\ new \in Seq(WorkerRecords) /\ Len(new) = Len(workers)
    /\ \A v \in 1..Len(workers) :
          /\ new[v].canceled = (workers[v].canceled \/ v = x)
          /\ new[v].at = workers[v].at
          /\ new[v].cancels = workers[v].cancels
          /\ new[v].queue = workers[v].queue
          /\ new[v].batch = workers[v].batch

LEMMA CancelOfOne ==
    ASSUME NEW workers \in Seq(WorkerRecords), NEW x \in Nat
    PROVE  CancelIs(workers, Canceled(workers, x), x)
BY Zenon, CanceledWorker DEF CancelIs

\* The calls but that of e stay where they are.
OtherCallsStay(e) == \A f \in ExportedEvents : f # e => exported'[f] = exported[f]

LEMMA CallGoesOn ==
    ASSUME ExporterInv, NEW e \in ExportedEvents, NEW at, NEW worker, Call(e, at, worker)
    PROVE  exported'[e].at = at /\ exported'[e].worker = worker /\ OtherCallsStay(e)
<1>1. exported \in [ExportedEvents -> CallRecords]
    BY Zenon DEF ExporterInv, ExporterTypes
<1> QED BY Zenon, <1>1 DEF Call, OtherCallsStay

\* A call goes on and leaves the exporter and its workers alone.
LEMMA QuietCallHeld ==
    ASSUME ExporterHeld, ExporterInv', NEW e \in ExportedEvents, OtherCallsStay(e),
           exported[e].at # "queued", exported'[e].at \notin {"queued", "replaces", "overflows"},
           exported'[e].worker = 0, exporter' = exporter, exportWorkers' = exportWorkers
    PROVE  ExporterHeld'
<1>0. Len(exportWorkers) <= Len(exportWorkers)
    BY Zenon, HeldTypes
<1>1. \A f \in ExportedEvents : f = e \/ exported'[f] = exported[f]
    BY Zenon DEF OtherCallsStay
<1>2. RefsMove
    BY Zenon, <1>0, <1>1 DEF RefsMove
<1>3. InUseStays
    BY Zenon, <1>1 DEF InUseStays
<1>4. OnlyCanceledEnd'
    BY Zenon DEF ExporterHeld, ExporterLive, OnlyCanceledEnd
<1>5. ExporterLive'
    BY Zenon, <1>2, <1>3, <1>4, LiveStep DEF ExporterHeld
<1>6. AcceptedEventsAreHeld'
    BY Zenon, <1>1, <1>2, HeldStep DEF ExporterHeld
<1> QED BY Zenon, <1>5, <1>6 DEF ExporterHeld

\* The worker in use is taken out of use, for the call of e or Close to cancel it.
LEMMA TakenOverHeld ==
    ASSUME ExporterHeld, ExporterInv',
           exporter'.closing \in {exporter.closing, exporter.current},
           \A e \in ExportedEvents :
               \/ exported'[e] = exported[e]
               \/ /\ exported[e].at # "queued" /\ exported'[e].at # "queued"
                  /\ exported'[e].worker = exporter.current,
           \/ exportWorkers' = exportWorkers /\ exporter'.current = 0
           \/ exportWorkers' = Append(exportWorkers, NewWorker) /\ exporter'.current = Len(exportWorkers) + 1
    PROVE  ExporterHeld'
<1>0. exportWorkers \in Seq(WorkerRecords) /\ Len(exportWorkers) \in Nat /\ NewWorker \in WorkerRecords
    <2>1. NewWorker \in WorkerRecords
        BY DEF NewWorker, WorkerRecords
    <2> QED BY Zenon, <2>1, HeldTypes
<1>1. EndsCanceled(NewWorker)
    BY Zenon DEF EndsCanceled, NewWorker
<1> HIDE DEF NewWorker
<1>2. /\ Len(exportWorkers) <= Len(exportWorkers')
      /\ \A w \in 1..Len(exportWorkers) : exportWorkers'[w] = exportWorkers[w]
      /\ \A w \in 1..Len(exportWorkers') : w \in 1..Len(exportWorkers) \/ exportWorkers'[w] = NewWorker
    <2>1. CASE exportWorkers' = exportWorkers
        BY <1>0, <2>1
    <2>2. CASE exportWorkers' = Append(exportWorkers, NewWorker)
        <3>1. /\ Len(exportWorkers') = Len(exportWorkers) + 1
              /\ \A w \in 1..Len(exportWorkers) : exportWorkers'[w] = exportWorkers[w]
              /\ exportWorkers'[Len(exportWorkers) + 1] = NewWorker
            BY <1>0, <2>2, LastIn
        <3> QED BY <1>0, <3>1
    <2> QED BY Zenon, <2>1, <2>2
<1>3. RefsMove
    BY Zenon, <1>2 DEF RefsMove
<1>4. OnlyCanceledEnd'
    BY Zenon, <1>1, <1>2 DEF ExporterHeld, ExporterLive, OnlyCanceledEnd
<1>5. ExporterLive'
    BY Zenon, <1>3, <1>4, LiveStep DEF ExporterHeld
<1>6. AcceptedEventsAreHeld'
    BY Zenon, <1>2, <1>3, HeldStep DEF ExporterHeld
<1> QED BY Zenon, <1>5, <1>6 DEF ExporterHeld

\* Worker x, which is out of use, is canceled.
LEMMA CanceledHeld ==
    ASSUME ExporterHeld, ExporterInv', NEW x \in Nat, ToBeCanceled(x),
           Len(exportWorkers') = Len(exportWorkers),
           \A w \in 1..Len(exportWorkers) :
               /\ exportWorkers'[w].canceled = (exportWorkers[w].canceled \/ w = x)
               /\ exportWorkers'[w].at \in {exportWorkers[w].at, "stopped"}
               /\ exportWorkers'[w].cancels = exportWorkers[w].cancels
               /\ exportWorkers'[w].queue = exportWorkers[w].queue
               /\ exportWorkers'[w].batch = exportWorkers[w].batch,
           exporter'.current = exporter.current, exporter'.closing \in {0, exporter.closing},
           \A e \in ExportedEvents :
               \/ exported'[e] = exported[e]
               \/ /\ exported[e].at # "queued" /\ exported'[e].worker = 0
                  /\ exported'[e].at \notin {"queued", "replaces", "overflows"}
    PROVE  ExporterHeld'
<1>0. Len(exportWorkers) <= Len(exportWorkers')
    BY Zenon, HeldTypes
<1>1. RefsMove
    BY Zenon, <1>0 DEF RefsMove
<1>2. ASSUME NEW w \in 1..Len(exportWorkers), exporter.current = w
      PROVE  exportWorkers'[w].canceled = exportWorkers[w].canceled
    <2>1. w # x
        BY Zenon, <1>2 DEF ExporterHeld, ExporterLive, CurrentIsLive
    <2>2. exportWorkers[w].canceled \in BOOLEAN
        BY Zenon, HeldAreEvents DEF WorkerRecords, ExporterHeld, ExporterLive
    <2> QED BY Zenon, <2>1, <2>2
<1>3. InUseStays
    BY Zenon, <1>2 DEF InUseStays
<1>4. OnlyCanceledEnd'
    BY Zenon DEF ExporterHeld, ExporterLive, OnlyCanceledEnd, EndsCanceled
<1>5. ExporterLive'
    BY Zenon, <1>1, <1>3, <1>4, LiveStep DEF ExporterHeld
<1>6. AcceptedEventsAreHeld'
    BY Zenon, <1>1, HeldStep DEF ExporterHeld
<1> QED BY Zenon, <1>5, <1>6 DEF ExporterHeld

\* A worker goes on with what it is in charge of.
LEMMA WorkerHeld ==
    ASSUME ExporterHeld, ExporterInv', NEW w \in 1..Len(exportWorkers), NEW me \in WorkerRecords,
           exportWorkers' = [exportWorkers EXCEPT ![w] = me],
           me.canceled = exportWorkers[w].canceled, me.cancels = exportWorkers[w].cancels,
           me.at = "stopping" => exportWorkers[w].at = "stopping", EndsCanceled(me), exporter' = exporter,
           HoldsOnce(me, InCharge(exported', w)),
           \A v \in 1..Len(exportWorkers) : v # w => InCharge(exported', v) = InCharge(exported, v),
           \A e \in ExportedEvents :
               \/ exported'[e] = exported[e]
               \/ /\ exported'[e].at \in {"queued", "exported"} /\ exported'[e].worker = w
                  /\ w \in {exported[e].worker, exporter.current}
    PROVE  ExporterHeld'
<1>0. exportWorkers \in Seq(WorkerRecords) /\ Len(exportWorkers) <= Len(exportWorkers)
    BY Zenon, HeldTypes
<1>1. /\ Len(exportWorkers') = Len(exportWorkers)
      /\ \A v \in 1..Len(exportWorkers) : exportWorkers'[v] = IF v = w THEN me ELSE exportWorkers[v]
    <2>1. EntryIs(exportWorkers, exportWorkers', w, me)
        BY Zenon, <1>0, EntryReplaced
    <2> QED BY Zenon, <2>1 DEF EntryIs
<1>2. exportWorkers'[w] = me /\ \A v \in 1..Len(exportWorkers) : v # w => exportWorkers'[v] = exportWorkers[v]
    BY Zenon, <1>1
<1>3. RefsMove
    BY Zenon, <1>0, <1>1, <1>2 DEF RefsMove
<1>4. InUseStays
    BY Zenon, <1>1, <1>2 DEF InUseStays
<1>5. OnlyCanceledEnd'
    BY Zenon, <1>1, <1>2 DEF ExporterHeld, ExporterLive, OnlyCanceledEnd
<1>6. ExporterLive'
    BY Zenon, <1>3, <1>4, <1>5, LiveStep DEF ExporterHeld
<1>7. AcceptedEventsAreHeld'
    BY ZenonT(60), <1>1, <1>2 DEF ExporterHeld, AcceptedEventsAreHeld
<1> QED BY Zenon, <1>6, <1>7 DEF ExporterHeld

\* A worker hands its batch over.
LEMMA FlushHeld ==
    ASSUME ExporterHeld, ExporterInv', NEW w \in 1..Len(exportWorkers), NEW me \in WorkerRecords,
           me.canceled = exportWorkers[w].canceled, me.cancels = exportWorkers[w].cancels,
           me.at = exportWorkers[w].at, me.at \in {"waiting", "draining"},
           HoldsOnce(me, InCharge(exported, w)), Flushing(w, me), exporter' = exporter
    PROVE  ExporterHeld'
<1> DEFINE next == IF me.at = "waiting" THEN "exporting" ELSE "exporting_last"
           r == [me EXCEPT !.batch = <<>>, !.at = next]
<1>1. exportWorkers' = [exportWorkers EXCEPT ![w] = r]
    BY DEF Flushing, Becomes
<1>2. /\ r \in WorkerRecords /\ r.canceled = me.canceled /\ r.cancels = me.cancels
      /\ r.queue = me.queue /\ r.batch = <<>>
      /\ r.at = next
    <2>1. <<>> \in Seq(ExportedEvents) /\ next \in {"exporting", "exporting_last"}
        OBVIOUS
    <2> HIDE DEF next
    <2>2. ASSUME NEW where \in {"exporting", "exporting_last"}, NEW none \in Seq(ExportedEvents)
          PROVE  LET x == [me EXCEPT !.batch = none, !.at = where] IN
                 /\ x \in WorkerRecords /\ x.canceled = me.canceled /\ x.cancels = me.cancels
                 /\ x.queue = me.queue /\ x.batch = none /\ x.at = where
        BY Zenon DEF WorkerRecords
    <2> QED BY <2>1, <2>2, Zenon
<1> HIDE DEF r
<1>3. exported' = [e \in ExportedEvents |->
                     IF e \in Events(me.batch) THEN [exported[e] EXCEPT !.at = "exported"] ELSE exported[e]]
    BY DEF Flushing
<1>4. \A e \in ExportedEvents : exported[e] \in CallRecords
    BY Zenon DEF ExporterHeld, ExporterLive, ExporterInv, ExporterTypes
<1>5. \A c \in CallRecords :
        [c EXCEPT !.at = "exported"].at = "exported" /\ [c EXCEPT !.at = "exported"].worker = c.worker
    BY Zenon DEF CallRecords
<1>6. \A e \in ExportedEvents :
        /\ e \in Events(me.batch) => exported'[e].at = "exported" /\ exported'[e].worker = exported[e].worker
        /\ e \notin Events(me.batch) => exported'[e] = exported[e]
    BY Zenon, <1>3, <1>4, <1>5
<1>7. \A e \in Events(me.batch) : e \in ExportedEvents /\ exported[e].at = "queued" /\ exported[e].worker = w
    BY Zenon DEF HoldsOnce, InCharge
<1>8. \A v \in 1..Len(exportWorkers) : v # w => InCharge(exported', v) = InCharge(exported, v)
    BY ZenonT(60), <1>6, <1>7 DEF InCharge
<1>9. InCharge(exported', w) = InCharge(exported, w) \ Events(me.batch)
    BY ZenonT(60), <1>6, <1>7 DEF InCharge
<1>10. InCharge(exported', w) = Events(me.queue)
    BY Zenon, <1>9 DEF HoldsOnce
<1>11. Once(<<>>) /\ Events(<<>>) = {} /\ r.at # "ended" /\ r.at # "stopping"
    BY <1>2 DEF Once, Events
<1>12. HoldsOnce(r, InCharge(exported', w))
    <2>1. Once(r.queue) /\ Once(r.batch) /\ Events(r.batch) = {} /\ Events(r.queue) = InCharge(exported', w)
        BY Zenon, <1>2, <1>10, <1>11 DEF HoldsOnce
    <2> QED BY Zenon, <1>11, <2>1 DEF HoldsOnce
<1>13. EndsCanceled(r)
    <2>1. EndsCanceled(exportWorkers[w])
        BY Zenon DEF ExporterHeld, ExporterLive, OnlyCanceledEnd
    <2> QED BY Zenon, <1>2, <2>1 DEF EndsCanceled
<1>14. r.canceled = exportWorkers[w].canceled /\ r.cancels = exportWorkers[w].cancels
    BY Zenon, <1>2
<1>15. \A e \in ExportedEvents :
        \/ exported'[e] = exported[e]
        \/ /\ exported'[e].at \in {"queued", "exported"} /\ exported'[e].worker = w
           /\ w \in {exported[e].worker, exporter.current}
    BY Zenon, <1>6, <1>7
<1> QED BY Zenon, <1>1, <1>2, <1>8, <1>11, <1>12, <1>13, <1>14, <1>15, WorkerHeld

\* A worker goes on with the queue and the batch it has.
LEMMA WaitsHeld ==
    ASSUME ExporterHeld, ExporterInv', NEW w \in 1..Len(exportWorkers),
           NEW where \in {"waiting", "draining", "ended"},
           exportWorkers' = [exportWorkers EXCEPT ![w] = [exportWorkers[w] EXCEPT !.at = where]],
           where = "waiting" \/ exportWorkers[w].canceled,
           where = "ended" => exportWorkers[w].queue = <<>> /\ exportWorkers[w].batch = <<>>,
           exported' = exported, exporter' = exporter
    PROVE  ExporterHeld'
<1> DEFINE r == [exportWorkers[w] EXCEPT !.at = where]
<1>1. exportWorkers[w] \in WorkerRecords
    BY Zenon, HeldAreEvents DEF ExporterHeld, ExporterLive
<1>2. /\ r \in WorkerRecords /\ r.canceled = exportWorkers[w].canceled /\ r.cancels = exportWorkers[w].cancels
      /\ r.queue = exportWorkers[w].queue /\ r.batch = exportWorkers[w].batch /\ r.at = where
    BY Zenon, <1>1 DEF WorkerRecords
<1>3. exportWorkers' = [exportWorkers EXCEPT ![w] = r]
    BY Zenon
<1> HIDE DEF r
<1>4. HoldsOnce(exportWorkers[w], InCharge(exported, w))
    BY Zenon DEF ExporterHeld, AcceptedEventsAreHeld
<1>5. Events(<<>>) = {} /\ where # "stopping"
    BY DEF Events
<1>6. where = "ended" => InCharge(exported, w) = {}
    BY Zenon, <1>4, <1>5 DEF HoldsOnce
<1>7. HoldsOnce(r, InCharge(exported, w))
    BY Zenon, <1>2, <1>4, <1>6 DEF HoldsOnce
<1>8. EndsCanceled(r) /\ r.at # "stopping"
    BY Zenon, <1>2, <1>5 DEF EndsCanceled
<1> QED BY ZenonT(60), <1>2, <1>3, <1>7, <1>8, WorkerHeld

\* A worker takes the exporter in use out of use and will cancel it.
LEMMA StopsHeld ==
    ASSUME ExporterHeld, ExporterInv', NEW w \in 1..Len(exportWorkers), NEW me \in WorkerRecords,
           exportWorkers' = [exportWorkers EXCEPT ![w] = me],
           me.at = "stopping", me.cancels = exporter.current, me.canceled = exportWorkers[w].canceled,
           me.queue = exportWorkers[w].queue, me.batch = exportWorkers[w].batch,
           exporter'.current = 0, exporter'.closing = exporter.closing, exported' = exported
    PROVE  ExporterHeld'
<1>0. exportWorkers \in Seq(WorkerRecords) /\ Len(exportWorkers) <= Len(exportWorkers)
    BY ZenonT(60), HeldTypes
<1>1. /\ Len(exportWorkers') = Len(exportWorkers)
      /\ \A v \in 1..Len(exportWorkers) : exportWorkers'[v] = IF v = w THEN me ELSE exportWorkers[v]
    BY <1>0, EntrySet
<1>2. exportWorkers'[w] = me /\ \A v \in 1..Len(exportWorkers) : v # w => exportWorkers'[v] = exportWorkers[v]
    BY Zenon, <1>1
<1>3. RefsMove
    BY ZenonT(60), <1>0, <1>1, <1>2 DEF RefsMove
<1>4. EndsCanceled(me) /\ me.at # "ended"
    BY DEF EndsCanceled
<1>5. OnlyCanceledEnd'
    BY Zenon, <1>1, <1>2, <1>4 DEF ExporterHeld, ExporterLive, OnlyCanceledEnd
<1>6. ExporterLive'
    BY Zenon, <1>3, <1>5, LiveStep DEF ExporterHeld
<1>7. \A v \in 1..Len(exportWorkers) :
        /\ exportWorkers'[v].queue = exportWorkers[v].queue
        /\ exportWorkers'[v].batch = exportWorkers[v].batch
        /\ exportWorkers'[v].at = "ended" => exportWorkers[v].at = "ended"
    BY Zenon, <1>2, <1>4
<1>8. AcceptedEventsAreHeld'
    BY ZenonT(60), <1>3, <1>7, HeldStep DEF ExporterHeld
<1> QED BY Zenon, <1>6, <1>8 DEF ExporterHeld

\* What a worker is in charge of is kept by the steps of a worker.
LEMMA WorkerStepsHeld ==
    ASSUME ExporterHeld, ExporterInv', NEW w \in DOMAIN exportWorkers,
           \/ Receives(w) \/ FlushTimerFires(w) \/ ContextDone(w) \/ Drained(w)
           \/ ExportReturns(w) \/ WorkerCancels(w)
    PROVE  ExporterHeld'
<1> DEFINE me == exportWorkers[w]
<1>0. w \in 1..Len(exportWorkers) /\ exportWorkers \in Seq(WorkerRecords)
    BY Zenon, HeldTypes
<1>1. me \in WorkerRecords /\ HoldsOnce(me, InCharge(exported, w)) /\ EndsCanceled(me)
    BY Zenon, <1>0, HeldAreEvents
       DEF ExporterHeld, ExporterLive, AcceptedEventsAreHeld, OnlyCanceledEnd
<1>2. CASE Receives(w)
    <2> DEFINE taken == [me EXCEPT !.queue = Tail(@), !.batch = Append(@, Head(me.queue))]
    <2>1. me.queue \in Seq(ExportedEvents) /\ me.batch \in Seq(ExportedEvents) /\ me.queue # <<>>
        BY Zenon, <1>1, <1>2 DEF Receives, WorkerRecords
    <2>2. /\ Head(me.queue) \in ExportedEvents /\ Tail(me.queue) \in Seq(ExportedEvents)
        BY Zenon, <2>1, FirstOut
    <2>3. /\ Head(me.queue) \in Events(me.queue) /\ Once(Tail(me.queue))
          /\ Events(Tail(me.queue)) = Events(me.queue) \ {Head(me.queue)}
        BY Zenon, <1>1, <2>1, OnceOut DEF HoldsOnce
    <2>4. Head(me.queue) \notin Events(me.batch) /\ Once(me.batch)
        BY Zenon, <1>1, <2>3 DEF HoldsOnce
    <2>5. /\ Events(Append(me.batch, Head(me.queue))) = Events(me.batch) \cup {Head(me.queue)}
          /\ Once(Append(me.batch, Head(me.queue)))
        BY ZenonT(60), <2>1, <2>2, <2>4, OnceIn
    <2>6. Append(me.batch, Head(me.queue)) \in Seq(ExportedEvents)
        BY Zenon, <2>1, <2>2, LastIn
    <2>7. /\ taken \in WorkerRecords /\ taken.canceled = me.canceled /\ taken.at = me.at
          /\ taken.cancels = me.cancels
          /\ taken.queue = Tail(me.queue) /\ taken.batch = Append(me.batch, Head(me.queue))
        BY <1>1, <2>2, <2>6, Zenon DEF WorkerRecords
    <2>8. /\ me.at \in {"waiting", "draining"} /\ exporter' = exporter
          /\ \/ Flushing(w, taken)
             \/ exportWorkers' = [exportWorkers EXCEPT ![w] = taken] /\ exported' = exported
        BY Zenon, <1>2 DEF Receives, Becomes
    <2> HIDE DEF taken
    <2>9. HoldsOnce(taken, InCharge(exported, w))
        <3>1. /\ Once(taken.queue) /\ Once(taken.batch)
              /\ Events(taken.queue) = Events(me.queue) \ {Head(me.queue)}
              /\ Events(taken.batch) = Events(me.batch) \cup {Head(me.queue)}
            BY Zenon, <2>3, <2>5, <2>7
        <3>2. /\ Events(me.queue) \cap Events(me.batch) = {}
              /\ Events(me.queue) \cup Events(me.batch) = InCharge(exported, w)
            BY Zenon, <1>1 DEF HoldsOnce
        <3>3. taken.at # "ended"
            BY Zenon, <2>7, <2>8
        <3>4. /\ Events(taken.queue) \cap Events(taken.batch) = {}
              /\ Events(taken.queue) \cup Events(taken.batch) = InCharge(exported, w)
            BY Zenon, <2>3, <2>4, <3>1, <3>2
        <3> QED BY Zenon, <3>1, <3>3, <3>4 DEF HoldsOnce
    <2>10. CASE Flushing(w, taken)
        BY ZenonT(60), <1>0, <2>7, <2>8, <2>9, <2>10, FlushHeld
    <2>11. CASE exportWorkers' = [exportWorkers EXCEPT ![w] = taken] /\ exported' = exported
        <3>1. EndsCanceled(taken) /\ taken.at # "stopping"
            BY Zenon, <1>1, <2>7, <2>8 DEF EndsCanceled
        <3> QED BY ZenonT(60), <1>0, <2>7, <2>8, <2>9, <2>11, <3>1, WorkerHeld
    <2> QED BY Zenon, <2>8, <2>10, <2>11
<1>3. CASE FlushTimerFires(w)
    <2>1. me.at = "waiting" /\ Flushing(w, me) /\ exporter' = exporter
        BY Zenon, <1>3 DEF FlushTimerFires
    <2> QED BY ZenonT(60), <1>0, <1>1, <2>1, FlushHeld
<1>4. CASE ContextDone(w)
    <2>1. /\ me.canceled /\ exporter' = exporter /\ exported' = exported
          /\ exportWorkers' = [exportWorkers EXCEPT ![w] = [exportWorkers[w] EXCEPT !.at = "draining"]]
        BY Zenon, <1>4 DEF ContextDone, Becomes
    <2> QED BY Zenon, <1>0, <2>1, WaitsHeld
<1>5. CASE Drained(w)
    <2>1. me.at = "draining" /\ me.queue = <<>> /\ exporter' = exporter /\ me.canceled
        BY Zenon, <1>1, <1>5 DEF Drained, EndsCanceled
    <2>2. CASE Flushing(w, me)
        BY ZenonT(60), <1>0, <1>1, <2>1, <2>2, FlushHeld
    <2>3. CASE me.batch = <<>> /\ Becomes(w, [me EXCEPT !.at = "ended"]) /\ UNCHANGED exported
        BY ZenonT(60), <1>0, <2>1, <2>3, WaitsHeld DEF Becomes
    <2> QED BY Zenon, <1>5, <2>2, <2>3 DEF Drained
<1>6. CASE ExportReturns(w)
    <2>1. me.at \in {"exporting", "exporting_last"} /\ exported' = exported
        BY Zenon, <1>6 DEF ExportReturns
    <2>2. CASE Becomes(w, Resumed(me)) /\ UNCHANGED exporter
        <3>1. \E where \in {"waiting", "draining"} :
                /\ where = "waiting" \/ me.canceled
                /\ exportWorkers' = [exportWorkers EXCEPT ![w] = [exportWorkers[w] EXCEPT !.at = where]]
            BY Zenon, <1>1, <2>1, <2>2 DEF Becomes, Resumed, EndsCanceled
        <3> QED BY ZenonT(60), <1>0, <2>1, <2>2, <3>1, WaitsHeld
    <2>3. CASE /\ Becomes(w, [me EXCEPT !.at = "stopping", !.cancels = exporter.current])
               /\ exporter' = [exporter EXCEPT !.current = 0]
        <3> DEFINE r == [me EXCEPT !.at = "stopping", !.cancels = exporter.current]
        <3>1. /\ exporter'.current = 0 /\ exporter'.closing = exporter.closing /\ exporter.current \in Nat
            BY Zenon, <2>3 DEF ExporterHeld, ExporterLive, ExporterInv, ExporterTypes
        <3>2. /\ r \in WorkerRecords /\ r.at = "stopping" /\ r.cancels = exporter.current
              /\ r.canceled = me.canceled /\ r.queue = me.queue /\ r.batch = me.batch
            BY <1>1, <3>1, Zenon DEF WorkerRecords
        <3>3. exportWorkers' = [exportWorkers EXCEPT ![w] = r]
            BY Zenon, <2>3 DEF Becomes
        <3> HIDE DEF r
        <3> QED BY ZenonT(60), <1>0, <2>1, <3>1, <3>2, <3>3, StopsHeld
    <2> QED BY Zenon, <1>6, <2>2, <2>3 DEF ExportReturns
<1>7. CASE WorkerCancels(w)
    <2> DEFINE x == me.cancels
               between == Canceled(exportWorkers, x)
               r == [between[w] EXCEPT !.at = "stopped"]
    <2>1. x \in Nat /\ ToBeCanceled(x)
        BY Zenon, <1>1, <1>7 DEF WorkerRecords, WorkerCancels, ToBeCanceled
    <2>2. /\ between \in Seq(WorkerRecords) /\ Len(between) = Len(exportWorkers)
          /\ \A v \in 1..Len(exportWorkers) :
                /\ between[v].canceled = (exportWorkers[v].canceled \/ v = x)
                /\ between[v].at = exportWorkers[v].at
                /\ between[v].cancels = exportWorkers[v].cancels
                /\ between[v].queue = exportWorkers[v].queue
                /\ between[v].batch = exportWorkers[v].batch
        <3>1. CancelIs(exportWorkers, between, x)
            BY Zenon, <1>0, <2>1, CancelOfOne
        <3> QED BY Zenon, <3>1 DEF CancelIs
    <2>3. exportWorkers' = [between EXCEPT ![w] = r] /\ exporter' = exporter /\ exported' = exported
        BY <1>7 DEF WorkerCancels
    <2> HIDE DEF between
    <2>4. between[w] \in WorkerRecords
        BY Zenon, <1>0, <2>2, ListEntry
    <2>5. /\ r \in WorkerRecords /\ r.at = "stopped" /\ r.canceled = between[w].canceled
          /\ r.cancels = between[w].cancels /\ r.queue = between[w].queue /\ r.batch = between[w].batch
        BY Zenon, <2>4 DEF WorkerRecords
    <2> HIDE DEF r, x
    <2>6. /\ Len(exportWorkers') = Len(exportWorkers)
          /\ \A v \in 1..Len(exportWorkers) : exportWorkers'[v] = IF v = w THEN r ELSE between[v]
        <3>1. EntryIs(between, exportWorkers', w, r)
            BY ZenonT(60), <1>0, <2>2, <2>3, <2>5, EntryReplaced
        <3> QED BY Zenon, <2>2, <3>1 DEF EntryIs
    <2>7. exportWorkers'[w] = r /\ \A v \in 1..Len(exportWorkers) : v # w => exportWorkers'[v] = between[v]
        BY Zenon, <1>0, <2>6
    <2>8. ASSUME NEW v \in 1..Len(exportWorkers)
          PROVE
            /\ exportWorkers'[v].canceled = (exportWorkers[v].canceled \/ v = x)
            /\ exportWorkers'[v].at \in {exportWorkers[v].at, "stopped"}
            /\ exportWorkers'[v].cancels = exportWorkers[v].cancels
            /\ exportWorkers'[v].queue = exportWorkers[v].queue
            /\ exportWorkers'[v].batch = exportWorkers[v].batch
        <3>1. CASE v = w
            BY Zenon, <2>2, <2>5, <2>7, <3>1
        <3>2. CASE v # w
            BY Zenon, <2>2, <2>7, <3>2
        <3> QED BY Zenon, <3>1, <3>2
    <2> QED BY ZenonT(60), <2>1, <2>3, <2>6, <2>8, CanceledHeld
<1> QED BY ZenonT(60), <1>2, <1>3, <1>4, <1>5, <1>6, <1>7

\* What a worker is in charge of is kept by the steps of a call of HandleEvent.
LEMMA CallStepsHeld ==
    ASSUME ExporterHeld, ExporterInv', NEW e \in ExportedEvents,
           ReadsConfig(e) \/ SameConfig(e) \/ Configure(e) \/ CallCancels(e) \/ Enqueue(e)
    PROVE  ExporterHeld'
<1>0. /\ ExporterInv /\ exporter \in [config : Settings, current : Nat, closing : Nat]
      /\ exportWorkers \in Seq(WorkerRecords) /\ exporter.current \in 0..Len(exportWorkers)
      /\ exported \in [ExportedEvents -> CallRecords]
    BY Zenon DEF ExporterHeld, ExporterLive, ExporterInv, ExporterTypes
<1>1. ASSUME NEW at, NEW worker, Call(e, at, worker)
      PROVE  /\ exported'[e].at = at /\ exported'[e].worker = worker /\ OtherCallsStay(e)
             /\ \A f \in ExportedEvents : f = e \/ exported'[f] = exported[f]
    BY Zenon, <1>0, <1>1, CallGoesOn DEF OtherCallsStay
<1>2. CASE ReadsConfig(e)
    <2>1. PICK config \in ExportConfigs :
            exported' = [exported EXCEPT ![e] = [at |-> "configures", config |-> config, worker |-> 0]]
        BY Zenon, <1>2 DEF ReadsConfig
    <2>2. exported'[e].at = "configures" /\ exported'[e].worker = 0 /\ OtherCallsStay(e)
        BY Zenon, <1>0, <2>1 DEF OtherCallsStay
    <2>3. exported[e].at = "none" /\ exporter' = exporter /\ exportWorkers' = exportWorkers
        BY Zenon, <1>2 DEF ReadsConfig
    <2> QED BY Zenon, <2>2, <2>3, QuietCallHeld
<1>3. CASE SameConfig(e)
    <2>1. /\ exported[e].at = "configures" /\ exporter' = exporter /\ exportWorkers' = exportWorkers
          /\ Call(e, "enqueues", 0)
        BY Zenon, <1>3 DEF SameConfig
    <2>2. exported'[e].at = "enqueues" /\ exported'[e].worker = 0 /\ OtherCallsStay(e)
        BY Zenon, <1>1, <2>1
    <2> QED BY Zenon, <2>1, <2>2, QuietCallHeld
<1>4. CASE Configure(e)
    <2>1. exported[e].at = "configures" /\ Call(e, "replaces", exporter.current)
        BY Zenon, <1>4 DEF Configure
    <2>2. /\ exported'[e].at = "replaces" /\ exported'[e].worker = exporter.current
          /\ \A f \in ExportedEvents : f = e \/ exported'[f] = exported[f]
        BY Zenon, <1>1, <2>1
    <2>3. \A n : LET x == [exporter EXCEPT !.config = exported[e].config, !.current = n] IN
                 x.closing = exporter.closing /\ x.current = n
        BY Zenon, <1>0
    <2>4. \/ /\ exportWorkers' = Append(exportWorkers, NewWorker)
             /\ exporter' = [exporter EXCEPT !.config = exported[e].config,
                                             !.current = Len(exportWorkers) + 1]
          \/ /\ exporter' = [exporter EXCEPT !.config = exported[e].config, !.current = 0]
             /\ exportWorkers' = exportWorkers
        BY Zenon, <1>4 DEF Configure
    <2>5. /\ exporter'.closing = exporter.closing
          /\ \/ exportWorkers' = exportWorkers /\ exporter'.current = 0
             \/ exportWorkers' = Append(exportWorkers, NewWorker) /\ exporter'.current = Len(exportWorkers) + 1
        BY Zenon, <2>3, <2>4
    <2> QED BY ZenonT(60), <2>1, <2>2, <2>5, TakenOverHeld
<1>5. CASE CallCancels(e)
    <2> DEFINE x == exported[e].worker
               next == IF exported[e].at = "replaces" THEN "enqueues" ELSE "dropped"
    <2>1. /\ x \in Nat /\ exported[e].at \in {"replaces", "overflows"}
          /\ exportWorkers' = Canceled(exportWorkers, x) /\ exporter' = exporter /\ Call(e, next, 0)
        BY Zenon, <1>0, <1>5 DEF CallCancels, CallRecords
    <2>2. ToBeCanceled(x) /\ exported[e].at # "queued"
        BY Zenon, <2>1 DEF ToBeCanceled
    <2>3. next \in {"enqueues", "dropped"}
        BY Zenon
    <2> HIDE DEF next
    <2>4. /\ exported'[e].at = next /\ exported'[e].worker = 0
          /\ \A f \in ExportedEvents : f = e \/ exported'[f] = exported[f]
        BY Zenon, <1>1, <2>1
    <2>5. exported'[e].at \notin {"queued", "replaces", "overflows"}
        BY Zenon, <2>3, <2>4
    <2> HIDE DEF x
    <2>w. exportWorkers \in Seq(WorkerRecords) /\ x \in Nat /\ exportWorkers' = Canceled(exportWorkers, x)
        BY Zenon, <1>0, <2>1
    <2>6. /\ Len(exportWorkers') = Len(exportWorkers)
          /\ \A v \in 1..Len(exportWorkers) :
                /\ exportWorkers'[v].canceled = (exportWorkers[v].canceled \/ v = x)
                /\ exportWorkers'[v].at = exportWorkers[v].at
                /\ exportWorkers'[v].cancels = exportWorkers[v].cancels
                /\ exportWorkers'[v].queue = exportWorkers[v].queue
                /\ exportWorkers'[v].batch = exportWorkers[v].batch
        <3>1. CancelIs(exportWorkers, exportWorkers', x)
            BY Zenon, <2>w, CancelOfOne
        <3> QED BY Zenon, <3>1 DEF CancelIs
    <2> QED BY ZenonT(60), <2>1, <2>2, <2>4, <2>5, <2>6, CanceledHeld
<1>6. CASE Enqueue(e)
    <2> DEFINE w == exporter.current
               was == exportWorkers[w]
    <2>1. exported[e].at = "enqueues"
        BY Zenon, <1>6 DEF Enqueue
    <2>2. CASE Call(e, "dropped", 0) /\ UNCHANGED <<exporter, exportWorkers>>
        <3>1. exported'[e].at = "dropped" /\ exported'[e].worker = 0 /\ OtherCallsStay(e)
            BY Zenon, <1>1, <2>2
        <3> QED BY ZenonT(60), <2>1, <2>2, <3>1, QuietCallHeld
    <2>3. CASE /\ exporter' = [exporter EXCEPT !.current = 0] /\ Call(e, "overflows", w)
               /\ UNCHANGED exportWorkers
        <3>1. /\ exported'[e].at = "overflows" /\ exported'[e].worker = w
              /\ \A f \in ExportedEvents : f = e \/ exported'[f] = exported[f]
            BY Zenon, <1>1, <2>3
        <3>2. exporter'.closing = exporter.closing /\ exporter'.current = 0
            BY Zenon, <1>0, <2>3
        <3> QED BY ZenonT(60), <2>1, <2>3, <3>1, <3>2, TakenOverHeld
    <2>4. CASE /\ w # 0 /\ exportWorkers' = [exportWorkers EXCEPT ![w].queue = Append(@, e)]
               /\ Call(e, "queued", w) /\ UNCHANGED exporter
        <3>1. /\ exported'[e].at = "queued" /\ exported'[e].worker = w
              /\ \A f \in ExportedEvents : f = e \/ exported'[f] = exported[f]
            BY Zenon, <1>1, <2>4
        <3>2. w \in 1..Len(exportWorkers)
            BY <1>0, <2>4
        <3>3. was \in WorkerRecords /\ was.queue \in Seq(ExportedEvents)
            BY Zenon, <1>0, <3>2, HeldAreEvents DEF WorkerRecords
        <3>4. HoldsOnce(was, InCharge(exported, w)) /\ EndsCanceled(was)
            BY Zenon, <3>2 DEF ExporterHeld, ExporterLive, OnlyCanceledEnd, AcceptedEventsAreHeld
        <3>5. ~was.canceled /\ ~ToBeCanceled(w)
            BY Zenon, <3>2 DEF ExporterHeld, ExporterLive, CurrentIsLive
        <3> DEFINE me == [was EXCEPT !.queue = Append(@, e)]
        <3>6. Append(was.queue, e) \in Seq(ExportedEvents)
            BY Zenon, <3>3, LastIn
        <3>7. /\ me \in WorkerRecords /\ me.canceled = was.canceled /\ me.at = was.at
              /\ me.cancels = was.cancels /\ me.queue = Append(was.queue, e) /\ me.batch = was.batch
            BY <3>3, <3>6, Zenon DEF WorkerRecords
        <3>8. exportWorkers' = [exportWorkers EXCEPT ![w] = me]
            BY <2>4
        <3> HIDE DEF me, was
        <3>9. e \notin InCharge(exported, w)
            BY Zenon, <2>1 DEF InCharge
        <3>10. e \notin Events(was.queue) /\ e \notin Events(was.batch) /\ Once(was.queue)
            BY Zenon, <3>4, <3>9 DEF HoldsOnce
        <3>11. Events(Append(was.queue, e)) = Events(was.queue) \cup {e} /\ Once(Append(was.queue, e))
            BY Zenon, <3>3, <3>10, OnceIn
        <3>12. InCharge(exported', w) = InCharge(exported, w) \cup {e}
            BY Zenon, <3>1 DEF InCharge
        <3>13. \A v \in 1..Len(exportWorkers) : v # w => InCharge(exported', v) = InCharge(exported, v)
            BY Zenon, <2>1, <3>1 DEF InCharge
        <3>14. me.at # "ended" /\ EndsCanceled(me)
            BY Zenon, <3>4, <3>5, <3>7 DEF EndsCanceled
        <3>15. me.at = was.at
            BY Zenon, <3>7
        <3>16. HoldsOnce(me, InCharge(exported', w))
            <4>1. Once(me.queue) /\ Events(me.queue) = Events(was.queue) \cup {e}
                BY Zenon, <3>7, <3>11
            <4>2. /\ Once(me.batch) /\ Events(me.batch) = Events(was.batch)
                  /\ Events(was.queue) \cap Events(was.batch) = {}
                  /\ Events(was.queue) \cup Events(was.batch) = InCharge(exported, w)
                BY Zenon, <3>4, <3>7 DEF HoldsOnce
            <4>3. /\ Events(me.queue) \cap Events(me.batch) = {}
                  /\ Events(me.queue) \cup Events(me.batch) = InCharge(exported', w)
                BY ZenonT(60), <3>10, <3>12, <4>1, <4>2
            <4> QED BY ZenonT(60), <3>14, <4>1, <4>2, <4>3 DEF HoldsOnce
        <3> QED BY ZenonT(60), <2>4, <3>1, <3>2, <3>7, <3>8, <3>13, <3>14, <3>15, <3>16, WorkerHeld DEF was
    <2> QED BY ZenonT(60), <1>6, <2>2, <2>3, <2>4 DEF Enqueue
<1> QED BY ZenonT(60), <1>2, <1>3, <1>4, <1>5, <1>6

\* What a worker is in charge of is kept by Close.
LEMMA CloseStepsHeld ==
    ASSUME ExporterHeld, ExporterInv', CloseExporter \/ CloseCancels
    PROVE  ExporterHeld'
<1>0. /\ exporter \in [config : Settings, current : Nat, closing : Nat]
      /\ exportWorkers \in Seq(WorkerRecords)
    BY Zenon DEF ExporterHeld, ExporterLive, ExporterInv, ExporterTypes
<1>1. CASE CloseExporter
    <2>1. /\ exporter'.current = 0 /\ exporter'.closing = exporter.current
          /\ exportWorkers' = exportWorkers /\ exported' = exported
        BY Zenon, <1>0, <1>1 DEF CloseExporter
    <2> QED BY Zenon, <2>1, TakenOverHeld
<1>2. CASE CloseCancels
    <2> DEFINE x == exporter.closing
    <2>1. /\ x \in Nat /\ exportWorkers' = Canceled(exportWorkers, x) /\ exported' = exported
          /\ exporter'.current = exporter.current /\ exporter'.closing = 0
        BY Zenon, <1>0, <1>2 DEF CloseCancels
    <2>2. ToBeCanceled(x)
        BY Zenon DEF ToBeCanceled
    <2> HIDE DEF x
    <2>w. exportWorkers \in Seq(WorkerRecords) /\ x \in Nat /\ exportWorkers' = Canceled(exportWorkers, x)
        BY Zenon, <1>0, <2>1
    <2>3. /\ Len(exportWorkers') = Len(exportWorkers)
          /\ \A v \in 1..Len(exportWorkers) :
                /\ exportWorkers'[v].canceled = (exportWorkers[v].canceled \/ v = x)
                /\ exportWorkers'[v].at = exportWorkers[v].at
                /\ exportWorkers'[v].cancels = exportWorkers[v].cancels
                /\ exportWorkers'[v].queue = exportWorkers[v].queue
                /\ exportWorkers'[v].batch = exportWorkers[v].batch
        <3>1. CancelIs(exportWorkers, exportWorkers', x)
            BY Zenon, <2>w, CancelOfOne
        <3> QED BY Zenon, <3>1 DEF CancelIs
    <2>4. /\ exporter'.closing \in {0, exporter.closing}
          /\ \A e \in ExportedEvents : exported'[e] = exported[e]
        BY Zenon, <2>1
    <2> QED BY ZenonT(60), <2>1, <2>2, <2>3, <2>4, CanceledHeld
<1> QED BY Zenon, <1>1, <1>2

\* What a worker is in charge of is kept by every step.
LEMMA ExporterHeldNext == ExporterHeld /\ [ExporterNext]_exporterVars => ExporterHeld'
<1> SUFFICES ASSUME ExporterHeld, [ExporterNext]_exporterVars PROVE ExporterHeld'
    OBVIOUS
<1>1. ExporterInv /\ ExporterInv'
    BY Zenon, ExporterInvNext DEF ExporterHeld, ExporterLive
<1>2. CASE UNCHANGED exporterVars
    BY Zenon, <1>1, <1>2
       DEF exporterVars, ExporterHeld, ExporterLive, RefsAreWorkers, CurrentIsLive, ToBeCanceled,
           OnlyCanceledEnd, AcceptedEventsAreHeld, InCharge
<1>3. CASE ExporterNext
    BY ZenonT(60), <1>1, <1>3, CallStepsHeld, WorkerStepsHeld, CloseStepsHeld DEF ExporterNext, ExporterGoesOn
<1> QED BY Zenon, <1>2, <1>3

\* Before the first event there is no worker.
LEMMA ExporterHeldInit == ExporterInit => ExporterHeld
<1> SUFFICES ASSUME ExporterInit PROVE ExporterHeld
    OBVIOUS
<1>1. /\ ExporterInv /\ Len(exportWorkers) = 0 /\ exporter.closing = 0
      /\ \A e \in ExportedEvents : exported[e].at = "none" /\ exported[e].worker = 0
    BY ExporterInvInit DEF ExporterInit
<1>2. 0 \in 0..0 /\ \A w \in 1..0 : FALSE
    OBVIOUS
<1> QED BY ZenonT(60), <1>1, <1>2
        DEF ExporterHeld, ExporterLive, RefsAreWorkers, CurrentIsLive, OnlyCanceledEnd, AcceptedEventsAreHeld

(***************************************************************************)
(* An event that enqueue accepted is in the queue or the batch of one      *)
(* worker, once, until it is handed over, and no worker ends with an event *)
(* left (enqueue, worker, drainQueueAndFlush), for any number of events,   *)
(* configurations and workers.  The strengthening says why: the worker in  *)
(* use is neither canceled nor about to be.                                *)
(***************************************************************************)
THEOREM ExporterKeepsEvents == ExporterSpec => []AcceptedEventsAreHeld
<1>1. ExporterHeld => AcceptedEventsAreHeld
    BY Zenon DEF ExporterHeld
<1> QED BY <1>1, ExporterHeldInit, ExporterHeldNext, PTL DEF ExporterSpec

-----------------------------------------------------------------------------
(* A2A *)

Statuses == {"absent", "submitted", "running"} \cup Final

\* Where a call is once SubmitAsync has acknowledged it, and once it has a report.
Told == {"reporting", "delivered", "deduplicated", "dropped"}
Acknowledged == {"waiting", "resolving"} \cup Told

CallRecord ==
    [at : {"idle", "submitting", "failed"} \cup Acknowledged,
     task : RemoteTasks \cup {"none"}, sse : BOOLEAN, agent : BOOLEAN,
     tries : Nat, report : Final \cup {"none", "unreachable"}]

A2ATypeOK ==
    /\ remote \in [RemoteTasks -> Statuses]
    /\ serverLocked \in BOOLEAN
    /\ call \in [Calls -> CallRecord]
    /\ \A c \in Calls : call[c].at # "idle" => call[c].task \in RemoteTasks

\* A call that was acknowledged has a task the server knows, alone.
OneOwner ==
    \A c \in Calls : call[c].at \in Acknowledged =>
        /\ remote[call[c].task] # "absent"
        /\ \A d \in Calls : call[d].at \in Acknowledged /\ call[d].task = call[c].task => d = c

\* What a call found out of its task is how the task ended.
TrueReports ==
    \A c \in Calls :
        /\ call[c].at = "resolving" => remote[call[c].task] \in Final
        /\ call[c].at \in Told /\ call[c].report # "unreachable" =>
              /\ call[c].report \in Final
              /\ remote[call[c].task] = call[c].report

ReportsHaveCalls ==
    \A r \in reported : \E c \in Calls : call[c].at \in Told /\ r = ReportKey(c)

A2AInv == A2ATypeOK /\ OneOwner /\ TrueReports /\ ReportsHaveCalls

-----------------------------------------------------------------------------
\* Nothing has been called yet.
LEMMA A2AInitInv == A2AInit => A2AInv
<1> SUFFICES ASSUME A2AInit PROVE A2AInv
    OBVIOUS
<1>1. NotCalled \in CallRecord
  BY Zenon DEF NotCalled, CallRecord
<1>2. A2ATypeOK
  <2>1. \A c \in Calls : call[c] = NotCalled /\ call[c].at = "idle"
    BY Zenon DEF A2AInit, NotCalled
  <2> QED BY <1>1, <2>1, Zenon DEF A2AInit, A2ATypeOK, Statuses
<1>3. \A c \in Calls : call[c].at = "idle"
  BY Zenon DEF A2AInit, NotCalled
<1>4. OneOwner /\ TrueReports
  BY Zenon, <1>3 DEF OneOwner, TrueReports, Acknowledged, Told
<1> QED BY <1>2, <1>4 DEF A2AInit, A2AInv, ReportsHaveCalls

\* A step of one call that leaves the server as it is and neither acknowledges
\* a call nor gives it a report.
LEMMA A2AQuietStep ==
    ASSUME A2AInv, NEW c \in Calls, NEW new \in CallRecord,
           call' = [call EXCEPT ![c] = new], UNCHANGED <<remote, reported>>,
           serverLocked' \in BOOLEAN,
           new.at # "idle", new.task \in RemoteTasks,
           new.at \in Acknowledged => call[c].at \in Acknowledged /\ new.task = call[c].task,
           new.at = "resolving" => remote[new.task] \in Final,
           new.at \in Told /\ new.report # "unreachable"
              => new.report \in Final /\ remote[new.task] = new.report,
           call[c].at \in Told => new.at \in Told /\ new.report = call[c].report
    PROVE  A2AInv'
<1> USE DEF A2AInv, A2ATypeOK
<1>1. call'[c] = new /\ \A d \in Calls \ {c} : call'[d] = call[d]
  BY Zenon
<1>2. A2ATypeOK'
  BY ZenonT(60), <1>1
<1>3. OneOwner'
  <2>1. \A d \in Calls : call'[d].at \in Acknowledged
            => call[d].at \in Acknowledged /\ call'[d].task = call[d].task
    BY Zenon, <1>1
  <2> QED BY <2>1 DEF OneOwner
<1>4. TrueReports'
  BY Zenon, <1>1 DEF TrueReports
<1>5. ReportsHaveCalls'
  <2>1. \A d \in Calls : call[d].at \in Told => call'[d].at \in Told /\ ReportKey(d)' = ReportKey(d)
    BY ZenonT(60), <1>1 DEF ReportKey, Acknowledged, Told
  <2> QED BY Zenon, <2>1 DEF ReportsHaveCalls
<1> QED BY ZenonT(60), <1>2, <1>3, <1>4, <1>5

\* A final status is never left, and a known task never unknown again.
LEMMA A2AServerStep ==
    ASSUME A2AInv, UNCHANGED <<call, reported, serverLocked>>,
           remote' \in [RemoteTasks -> Statuses],
           \A t \in RemoteTasks : /\ remote[t] \in Final => remote'[t] = remote[t]
                                  /\ remote[t] # "absent" => remote'[t] # "absent"
    PROVE  A2AInv'
<1> USE DEF A2AInv, A2ATypeOK
<1>1. \A c \in Calls : call[c].at \in Acknowledged => call[c].task \in RemoteTasks
  BY DEF Acknowledged, Told
<1>2. OneOwner'
  BY Zenon, <1>1 DEF OneOwner
<1>3. TrueReports'
  BY ZenonT(60), <1>1 DEF TrueReports, Acknowledged, Final
<1>4. ReportsHaveCalls'
  BY DEF ReportsHaveCalls, ReportKey
<1> QED BY <1>2, <1>3, <1>4

\* Every step of the server and of the calls preserves the invariant.
LEMMA A2AStepInv == A2AInv /\ [A2ANext]_a2aVars => A2AInv'
<1> SUFFICES ASSUME A2AInv, [A2ANext]_a2aVars PROVE A2AInv'
    OBVIOUS
<1>0. /\ A2ATypeOK
      /\ \A c \in Calls : call[c] \in CallRecord
      /\ \A c \in Calls : call[c].at # "idle" => call[c].task \in RemoteTasks
  BY DEF A2AInv, A2ATypeOK
<1>1. CASE UNCHANGED a2aVars
  BY Zenon, <1>1 DEF a2aVars, A2AInv, A2ATypeOK, OneOwner, TrueReports, ReportsHaveCalls, ReportKey
<1>2. ASSUME NEW t \in RemoteTasks, ServerStep(t) PROVE A2AInv'
  <2>1. PICK status \in Statuses \ {"absent"} :
            /\ remote[t] \in {"submitted", "running"}
            /\ remote' = [remote EXCEPT ![t] = status]
            /\ UNCHANGED <<call, reported, serverLocked>>
    BY <1>2 DEF ServerStep, ServerStarts, ServerEnds, Statuses, Final
  <2> QED BY ZenonT(60), <1>0, <2>1, A2AServerStep DEF A2ATypeOK, Final
<1>3. ASSUME NEW c \in Calls, SubmitAsync(c) PROVE A2AInv'
  <2>1. PICK new \in CallRecord :
            /\ call' = [call EXCEPT ![c] = new]
            /\ new.at = "submitting" /\ new.task \in RemoteTasks
    <3>1. PICK t \in RemoteTasks, sse \in BOOLEAN, agent \in BOOLEAN :
              call' = [call EXCEPT ![c] =
                          [at |-> "submitting", task |-> t, sse |-> sse, agent |-> agent,
                           tries |-> 1, report |-> "none"]]
      BY <1>3, Zenon DEF SubmitAsync
    <3> DEFINE new == [at |-> "submitting", task |-> t, sse |-> sse, agent |-> agent,
                       tries |-> 1, report |-> "none"]
    <3>2. new \in CallRecord
      BY Zenon DEF CallRecord
    <3>3. new.at = "submitting" /\ new.task \in RemoteTasks
      BY Zenon
    <3>4. call' = [call EXCEPT ![c] = new]
      BY Zenon, <3>1
    <3> HIDE DEF new
    <3> QED BY <3>2, <3>3, <3>4, ZenonT(60)
  <2>2. UNCHANGED <<remote, reported, serverLocked>> /\ call[c].at = "idle"
    BY ZenonT(60), <1>3 DEF SubmitAsync
  <2> QED BY <1>0, <2>1, <2>2, A2AQuietStep, ZenonT(60) DEF A2ATypeOK, Acknowledged, Told
<1>4. ASSUME NEW c \in Calls, CallStep(c) PROVE A2AInv'
  <2>0. call[c].at # "idle" => call[c].task \in RemoteTasks
    BY <1>0
  <2>1. CASE Accepted(c)
    <3>1. /\ call[c].at = "submitting" /\ remote[call[c].task] = "absent"
          /\ call[c].task \in RemoteTasks
          /\ remote' = [remote EXCEPT ![call[c].task] = "submitted"]
          /\ call' = [call EXCEPT ![c] = [call[c] EXCEPT !.at = "waiting", !.tries = 0]]
          /\ UNCHANGED <<serverLocked, reported>>
      BY <1>0, <2>0, <2>1, Zenon DEF Accepted, Accept, A2ATypeOK
    <3>2. /\ call'[c].at = "waiting" /\ call'[c].task = call[c].task
          /\ \A d \in Calls \ {c} : call'[d] = call[d]
          /\ call' \in [Calls -> CallRecord]
      BY <1>0, <3>1, ZenonT(60) DEF A2ATypeOK, CallRecord, Acknowledged
    <3>3. /\ remote'[call[c].task] = "submitted"
          /\ \A t \in RemoteTasks : t # call[c].task => remote'[t] = remote[t]
          /\ remote' \in [RemoteTasks -> Statuses]
      BY <1>0, <3>1 DEF A2ATypeOK, Statuses
    <3>4. \A d \in Calls : call[d].at \in Acknowledged
              => call[d].task \in RemoteTasks /\ call[d].task # call[c].task /\ d # c
      BY <1>0, <3>1 DEF A2AInv, OneOwner, Acknowledged, Told
    <3>5. A2ATypeOK'
      BY <1>0, <3>1, <3>2, <3>3 DEF A2ATypeOK
    <3>6. OneOwner'
      <4>1. \A d \in Calls \ {c} : call'[d].at \in Acknowledged =>
                /\ call'[d].task # call'[c].task
                /\ remote'[call'[d].task] # "absent"
        BY Zenon, <3>2, <3>3, <3>4 DEF A2AInv, OneOwner
      <4>2. \A d, e \in Calls \ {c} :
                call'[d].at \in Acknowledged /\ call'[e].at \in Acknowledged
                    /\ call'[d].task = call'[e].task => d = e
        BY ZenonT(60), <3>2 DEF A2AInv, OneOwner
      <4> QED BY ZenonT(60), <3>2, <3>3, <4>1, <4>2 DEF OneOwner
    <3>7. TrueReports'
      <4>1. /\ "resolving" \in Acknowledged /\ Told \subseteq Acknowledged
            /\ "waiting" # "resolving" /\ "waiting" \notin Told
        BY DEF Acknowledged, Told
      <4>2. ASSUME NEW d \in Calls, d # c, call'[d].at \in Acknowledged
            PROVE  call'[d] = call[d] /\ remote'[call[d].task] = remote[call[d].task]
        BY ZenonT(60), <3>2, <3>3, <3>4, <4>2
      <4>3. TrueReports
        BY Zenon DEF A2AInv
      <4> QED BY ZenonT(60), <3>2, <4>1, <4>2, <4>3 DEF TrueReports
    <3>8. ReportsHaveCalls'
      BY <3>1, <3>2 DEF A2AInv, ReportsHaveCalls, ReportKey, Told
    <3> QED BY <3>5, <3>6, <3>7, <3>8 DEF A2AInv
  <2>2. CASE AcceptedUnheard(c)
    <3>1. PICK new \in CallRecord :
              /\ call' = [call EXCEPT ![c] = new]
              /\ new.at \in {"submitting", "failed"} /\ new.task \in RemoteTasks
      <4>1. \/ call' = [call EXCEPT ![c] = [call[c] EXCEPT !.tries = call[c].tries + 1]]
            \/ call' = [call EXCEPT ![c] = [call[c] EXCEPT !.at = "failed"]]
        BY <1>0, <2>2 DEF AcceptedUnheard, Resends, A2ATypeOK
      <4>2. call[c].at = "submitting" /\ call[c].task \in RemoteTasks
        BY Zenon, <2>0, <2>2 DEF AcceptedUnheard
      <4>3. /\ [call[c] EXCEPT !.tries = call[c].tries + 1] \in CallRecord
            /\ [call[c] EXCEPT !.at = "failed"] \in CallRecord
        BY <1>0 DEF CallRecord
      <4>4. /\ [call[c] EXCEPT !.tries = call[c].tries + 1].at = "submitting"
            /\ [call[c] EXCEPT !.tries = call[c].tries + 1].task = call[c].task
            /\ [call[c] EXCEPT !.at = "failed"].at = "failed"
            /\ [call[c] EXCEPT !.at = "failed"].task = call[c].task
        BY Zenon, <1>0, <4>2 DEF CallRecord
      <4> QED BY <4>1, <4>2, <4>3, <4>4, ZenonT(60)
    <3>2. /\ call[c].at = "submitting" /\ call[c].task \in RemoteTasks
          /\ remote' = [remote EXCEPT ![call[c].task] = "submitted"]
          /\ remote[call[c].task] = "absent"
          /\ UNCHANGED <<serverLocked, reported>>
      BY ZenonT(60), <2>0, <2>2 DEF AcceptedUnheard, Accept
    <3>3. /\ remote' \in [RemoteTasks -> Statuses]
          /\ \A t \in RemoteTasks : remote[t] # "absent" => remote'[t] = remote[t]
      BY <1>0, <3>2 DEF A2ATypeOK, Statuses
    <3>4. /\ \A d \in Calls \ {c} : call'[d] = call[d]
          /\ call'[c] = new
      BY Zenon, <1>0, <3>1 DEF A2ATypeOK
    <3>5. \A d \in Calls : call'[d].at \in Acknowledged =>
              /\ d # c /\ call'[d] = call[d]
              /\ call[d].task \in RemoteTasks /\ remote'[call[d].task] = remote[call[d].task]
      BY ZenonT(60), <1>0, <3>1, <3>3, <3>4 DEF A2AInv, OneOwner, Acknowledged, Told
    <3>6. A2ATypeOK'
      BY ZenonT(60), <1>0, <3>1, <3>2, <3>3, <3>4 DEF A2ATypeOK
    <3>7. OneOwner'
      BY ZenonT(60), <3>5 DEF A2AInv, OneOwner
    <3>8. TrueReports'
      BY ZenonT(60), <3>5 DEF A2AInv, TrueReports, Acknowledged, Told
    <3>9. ReportsHaveCalls'
      BY ZenonT(60), <3>2, <3>4 DEF A2AInv, ReportsHaveCalls, ReportKey, Told
    <3> QED BY <3>6, <3>7, <3>8, <3>9 DEF A2AInv
  <2>3. CASE RequestLost(c)
    <3>1. PICK new \in CallRecord :
              /\ call' = [call EXCEPT ![c] = new]
              /\ new.at \in {"submitting", "failed"} /\ new.task \in RemoteTasks
      <4>1. \/ call' = [call EXCEPT ![c] = [call[c] EXCEPT !.tries = call[c].tries + 1]]
            \/ call' = [call EXCEPT ![c] = [call[c] EXCEPT !.at = "failed"]]
        BY <1>0, <2>3 DEF RequestLost, Resends, A2ATypeOK
      <4>2. call[c].at = "submitting" /\ call[c].task \in RemoteTasks
        BY <2>0, <2>3 DEF RequestLost
      <4>3. /\ [call[c] EXCEPT !.tries = call[c].tries + 1] \in CallRecord
            /\ [call[c] EXCEPT !.at = "failed"] \in CallRecord
        BY <1>0 DEF CallRecord
      <4>4. /\ [call[c] EXCEPT !.tries = call[c].tries + 1].at = "submitting"
            /\ [call[c] EXCEPT !.tries = call[c].tries + 1].task = call[c].task
            /\ [call[c] EXCEPT !.at = "failed"].at = "failed"
            /\ [call[c] EXCEPT !.at = "failed"].task = call[c].task
        BY <1>0, <4>2 DEF CallRecord
      <4> QED BY Zenon, <4>1, <4>2, <4>3, <4>4
    <3>2. UNCHANGED <<remote, reported, serverLocked>> /\ call[c].at = "submitting"
      BY Zenon, <2>3 DEF RequestLost
    <3> QED BY <1>0, <3>1, <3>2, A2AQuietStep, ZenonT(60) DEF A2ATypeOK, Acknowledged, Told
  <2>4. CASE Duplicate(c) \/ RefusedWithoutAgent(c)
    <3> DEFINE new == [call[c] EXCEPT !.at = "failed"]
    <3>1. /\ call' = [call EXCEPT ![c] = new] /\ call[c].at = "submitting"
          /\ UNCHANGED <<remote, reported>> /\ serverLocked' \in BOOLEAN
      BY <1>0, <2>4, Zenon DEF Duplicate, RefusedWithoutAgent, A2ATypeOK
    <3>2. new \in CallRecord /\ new.at = "failed" /\ new.task \in RemoteTasks
      BY <1>0, <3>1 DEF CallRecord
    <3> HIDE DEF new
    <3> QED BY <3>1, <3>2, A2AQuietStep, ZenonT(60) DEF Acknowledged, Told
  <2>5. CASE PollFindsEnd(c)
    <3> DEFINE new == [call[c] EXCEPT !.at = "resolving"]
    <3>1. /\ call' = [call EXCEPT ![c] = new] /\ call[c].at = "waiting"
          /\ UNCHANGED <<remote, reported, serverLocked>> /\ remote[call[c].task] \in Final
      BY <1>0, <2>5 DEF PollFindsEnd, A2ATypeOK
    <3>2. new \in CallRecord /\ new.at = "resolving" /\ new.task = call[c].task /\ new.task \in RemoteTasks
      BY <1>0, <3>1 DEF CallRecord, Acknowledged
    <3> HIDE DEF new
    <3> QED BY <1>0, <3>1, <3>2, A2AQuietStep, ZenonT(60) DEF A2ATypeOK, Acknowledged, Told
  <2>6. CASE Reconnects(c)
    <3> DEFINE new == [call[c] EXCEPT !.tries = @ + 1]
    <3>1. /\ call' = [call EXCEPT ![c] = new] /\ call[c].at = "waiting"
          /\ UNCHANGED <<remote, reported, serverLocked>>
      BY <1>0, <2>6 DEF Reconnects, A2ATypeOK
    <3>2. new \in CallRecord /\ new.at = "waiting" /\ new.task = call[c].task /\ new.task \in RemoteTasks
      BY <1>0, <3>1 DEF CallRecord
    <3> HIDE DEF new
    <3> QED BY <1>0, <3>1, <3>2, A2AQuietStep, ZenonT(60) DEF A2ATypeOK, Acknowledged, Told
  <2>7. CASE WaitFails(c) \/ Resolves(c)
    <3>1. PICK report \in Final \cup {"unreachable"} :
              /\ call' = [call EXCEPT ![c] = [call[c] EXCEPT !.at = "reporting", !.tries = 1, !.report = report]]
              /\ report # "unreachable" => remote[call[c].task] = report
      BY Zenon, <1>0, <2>7 DEF WaitFails, Resolves, Reports, A2AInv, A2ATypeOK, TrueReports
    <3>2. UNCHANGED <<remote, reported, serverLocked>> /\ call[c].at \in {"waiting", "resolving"}
      BY Zenon, <2>7 DEF WaitFails, Resolves
    <3> DEFINE new == [call[c] EXCEPT !.at = "reporting", !.tries = 1, !.report = report]
    <3>3. /\ new \in CallRecord /\ new.at = "reporting" /\ new.task = call[c].task
          /\ new.report = report /\ new.task \in RemoteTasks
      BY <1>0, <3>2, Zenon DEF CallRecord, Acknowledged, Told
    <3>4. call' = [call EXCEPT ![c] = new]
      BY <3>1
    <3> HIDE DEF new
    <3> QED BY <1>0, <3>1, <3>2, <3>3, <3>4, A2AQuietStep, ZenonT(60) DEF A2ATypeOK, Acknowledged, Told, Final
  <2>8. CASE Delivers(c) \/ DeliveryFails(c)
    <3>1. PICK new \in CallRecord :
              /\ call' = [call EXCEPT ![c] = new]
              /\ new.at \in Told /\ new.task = call[c].task /\ new.report = call[c].report
      <4>1. \/ call' = [call EXCEPT ![c] = [call[c] EXCEPT !.tries = call[c].tries + 1]]
            \/ \E at \in Told : call' = [call EXCEPT ![c] = [call[c] EXCEPT !.at = at]]
        BY <1>0, <2>8 DEF Delivers, DeliveryFails, A2ATypeOK, Told
      <4>2. call[c].at = "reporting"
        BY <2>8 DEF Delivers, DeliveryFails
      <4>3. /\ [call[c] EXCEPT !.tries = call[c].tries + 1] \in CallRecord
            /\ [call[c] EXCEPT !.tries = call[c].tries + 1].at = "reporting"
            /\ [call[c] EXCEPT !.tries = call[c].tries + 1].task = call[c].task
            /\ [call[c] EXCEPT !.tries = call[c].tries + 1].report = call[c].report
        BY <1>0, <4>2 DEF CallRecord
      <4>4. ASSUME NEW at \in Told
            PROVE  /\ [call[c] EXCEPT !.at = at] \in CallRecord
                   /\ [call[c] EXCEPT !.at = at].at = at
                   /\ [call[c] EXCEPT !.at = at].task = call[c].task
                   /\ [call[c] EXCEPT !.at = at].report = call[c].report
        BY <1>0 DEF CallRecord, Acknowledged
      <4>5. "reporting" \in Told
        BY DEF Told
      <4>6. CASE \E at \in Told : call' = [call EXCEPT ![c] = [call[c] EXCEPT !.at = at]]
        <5>1. PICK at \in Told : call' = [call EXCEPT ![c] = [call[c] EXCEPT !.at = at]]
          BY <4>6, Zenon
        <5> DEFINE new == [call[c] EXCEPT !.at = at]
        <5>2. new \in CallRecord /\ new.at \in Told /\ new.task = call[c].task /\ new.report = call[c].report
          BY <4>4
        <5>3. call' = [call EXCEPT ![c] = new]
          BY <5>1
        <5> HIDE DEF new
        <5> QED BY <5>2, <5>3, Zenon
      <4>7. CASE call' = [call EXCEPT ![c] = [call[c] EXCEPT !.tries = call[c].tries + 1]]
        BY <4>3, <4>5, <4>7, ZenonT(60)
      <4> QED BY <4>1, <4>6, <4>7
    <3>2. /\ call[c].at = "reporting" /\ call[c].task \in RemoteTasks
          /\ UNCHANGED <<remote, serverLocked>>
          /\ reported' \subseteq reported \cup {ReportKey(c)}
      BY <2>0, <2>8 DEF Delivers, DeliveryFails
    <3>3. /\ \A d \in Calls : call'[d].task = call[d].task /\ call'[d].report = call[d].report
          /\ \A d \in Calls : call[d].at \in Acknowledged <=> call'[d].at \in Acknowledged
          /\ \A d \in Calls : call[d].at \in Told <=> call'[d].at \in Told
          /\ \A d \in Calls : call'[d].at = "resolving" => call[d].at = "resolving"
          /\ call' \in [Calls -> CallRecord]
      BY ZenonT(60), <1>0, <3>1, <3>2 DEF A2ATypeOK, Acknowledged, Told
    <3>4. A2ATypeOK'
      BY ZenonT(60), <1>0, <3>1, <3>2, <3>3 DEF A2ATypeOK, Told
    <3>5. OneOwner'
      BY Zenon, <3>2, <3>3 DEF A2AInv, OneOwner
    <3>6. TrueReports'
      BY Zenon, <3>2, <3>3 DEF A2AInv, TrueReports
    <3>7. ReportsHaveCalls'
      BY ZenonT(60), <3>2, <3>3 DEF A2AInv, ReportsHaveCalls, ReportKey, Told
    <3> QED BY <3>4, <3>5, <3>6, <3>7 DEF A2AInv
  <2> QED BY <1>4, <2>1, <2>2, <2>3, <2>4, <2>5, <2>6, <2>7, <2>8 DEF CallStep
<1> QED BY <1>1, <1>2, <1>3, <1>4 DEF A2ANext

\* Two reports of a task are the report of the one call that owns it.
LEMMA A2AInvStory == A2AInv => OneStoryPerTask
BY DEF A2AInv, A2ATypeOK, OneOwner, TrueReports, ReportsHaveCalls, ReportKey,
       OneStoryPerTask, CallRecord, Acknowledged, Told

\* However calls, lost answers and failed deliveries interleave, the reports
\* the sink is given of a task (deliverAsyncReport) agree with each other and
\* with the status the server keeps.
THEOREM A2AOneStory == A2ASpec => []OneStoryPerTask
<1>1. A2ASpec => []A2AInv
  BY A2AInitInv, A2AStepInv, PTL DEF A2ASpec
<1> QED BY <1>1, A2AInvStory, PTL
=============================================================================
