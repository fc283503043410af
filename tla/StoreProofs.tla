---------------------------- MODULE StoreProofs -----------------------------
(***************************************************************************)
(* The two properties of CheckpointStore, that a store which has the       *)
(* coordinator's revision has its records, and that no publication takes a *)
(* checkpoint back, for any number of processes, checkpoints, leases,      *)
(* publications and faults.                                                *)
(*                                                                         *)
(* Neither property is inductive. What makes them so: a store that is not  *)
(* poisoned and has the current revision has the current records, so what  *)
(* it is about to publish (a record that follows the store's, for every    *)
(* checkpoint) follows the coordinator's if the compare-and-swap lets it   *)
(* through; and every claim that was given stands in the coordinator's     *)
(* file under its attempt.                                                 *)
(*                                                                         *)
(* The properties of HistoryLedger for any retention, any number of        *)
(* events, failed writes and crashes.                                      *)
(*                                                                         *)
(* Besides what the properties say, the invariant is about the entries on  *)
(* their way (the one Append has written to the journal only, and the one  *)
(* a repair has checked: the journal may drop it before the repair writes  *)
(* it), the acknowledgements, and how far the ledger is behind: by as many *)
(* events as the journal forgot that it was behind, and one more while     *)
(* Append is between its two writes or refused.                            *)
(*                                                                         *)
(* The properties of SourceAdapter, and that the store knows of every      *)
(* effect, for any number of adapters, facts, page sizes and faults.       *)
(*                                                                         *)
(* What an operation holds was the store's state at its revision, and      *)
(* every write adds one to the revision: an operation whose revision is    *)
(* the store's holds the store's state. The facts an operation holds are   *)
(* those after its cursor, one after the other, so the pending fact of a   *)
(* store is the one next to its cursor. Known facts (the consumer has been *)
(* called with them or is about to be) are behind the cursor or pending:   *)
(* the next fact to be prepared either is the one pending already or is    *)
(* new, and no content is replaced.                                        *)
(***************************************************************************)
EXTENDS SourceAdapter, HistoryLedger, CheckpointStore, TLAPS

USE SMTT(30)

\* Facts of arithmetic, for the steps that need nothing else of it.
LEMMA Successor == \A n \in Nat : n + 1 \in Nat /\ n + 1 # 0 /\ n <= n + 1
OBVIOUS

LEMMA AtMostItself == \A n \in Nat : n <= n
OBVIOUS

LEMMA BelowSuccessor == \A m, n \in Nat : m <= n => m # n + 1 /\ m <= n + 1
OBVIOUS

-----------------------------------------------------------------------------
(* SourceAdapter *)

Receipts == [id : Nat \ {0}, version : Nat]
AdapterState ==
    [revision : Nat, confirmed : Nat, pending : {NoReceipt} \cup Receipts, recent : Seq(Receipts)]
Operation ==
    [at : {"loaded", "prepare", "consume", "confirm"}, state : AdapterState, facts : Seq(Receipts)]

AdapterTypeOK ==
    /\ feed \in Seq(Nat)
    /\ offer \in [after : Nat, facts : Seq(Receipts)]
    /\ saved \in AdapterState
    /\ operation \in [Adapters -> {NoOperation} \cup Operation]
    /\ delivered \subseteq Receipts

\* Facts follow a cursor one by one.
After(facts, cursor) == \A k \in 1..Len(facts) : facts[k].id = cursor + k

\* What was confirmed lies behind the cursor, and the pending fact next to it.
SoundState(s) ==
    /\ \A k \in 1..Len(s.recent) : s.recent[k].id <= s.confirmed
    /\ s.pending # NoReceipt => s.pending.id = s.confirmed + 1

\* What an operation holds, of the state s in the store and the answers ans.
SoundOperation(op, s, ans) ==
    /\ SoundState(op.state)
    /\ op.state.revision <= s.revision
    /\ op.state.revision = s.revision => op.state = s
    /\ op.at # "loaded" => op.facts # <<>> /\ After(op.facts, op.state.confirmed)
    /\ op.at \in {"consume", "confirm"} => op.state.pending = op.facts[1]
    /\ op.at = "confirm" => op.facts[1].id \in ans

\* The facts the consumer has been called with, or is about to be.
Known ==
    delivered
        \cup {operation[a].facts[1] : a \in {b \in Adapters : operation[b].at \in {"consume", "confirm"}}}
        \cup ({saved.pending} \ {NoReceipt})

KnownOnce ==
    /\ \A r \in Known : r.id <= saved.confirmed \/ r = saved.pending
    /\ \A r, q \in Known : r.id = q.id => r = q

AdapterInv ==
    /\ AdapterTypeOK
    /\ After(offer.facts, offer.after)
    /\ SoundState(saved)
    /\ \A a \in Adapters : operation[a] # NoOperation => SoundOperation(operation[a], saved, answered)
    /\ CursorCoversAnswered
    /\ KnownOnce

-----------------------------------------------------------------------------
\* Where an operation is tells its fields.
LEMMA OperationShape ==
    ASSUME NEW op \in {NoOperation} \cup Operation
    PROVE  /\ op = NoOperation <=> op.at = "idle"
           /\ op # NoOperation => op \in Operation /\ op.state \in AdapterState /\ op.facts \in Seq(Receipts)
<1>1. NoOperation.at = "idle"
  BY DEF NoOperation
<1>2. \A x \in Operation : x.at # "idle" /\ x.state \in AdapterState /\ x.facts \in Seq(Receipts)
  BY DEF Operation
<1> QED BY <1>1, <1>2

\* A receipt is not the missing one.
LEMMA ReceiptShape ==
    ASSUME NEW r \in Receipts
    PROVE  r # NoReceipt /\ r.id \in Nat /\ r.id > 0
<1>1. r.id # 0 /\ NoReceipt.id = 0
  BY DEF Receipts, NoReceipt
<1> QED BY <1>1 DEF Receipts

\* Nothing is known and nothing runs.
LEMMA AdapterInitInv == AdapterInit => AdapterInv
<1> SUFFICES ASSUME AdapterInit PROVE AdapterInv
    OBVIOUS
<1>1. saved \in AdapterState /\ saved.confirmed = 0 /\ saved.pending = NoReceipt /\ saved.recent = <<>>
  BY DEF AdapterInit, AdapterState
<1>2. AdapterTypeOK
  BY <1>1 DEF AdapterInit, AdapterTypeOK
<1>3. \A a \in Adapters : operation[a] = NoOperation /\ operation[a].at = "idle"
  BY DEF AdapterInit, NoOperation
<1>4. Known = {}
  BY <1>1, <1>3 DEF AdapterInit, Known
<1>5. After(offer.facts, offer.after)
  BY DEF AdapterInit, After
<1>6. SoundState(saved)
  BY <1>1 DEF SoundState
<1>7. CursorCoversAnswered
  BY <1>1 DEF CursorCoversAnswered
<1> QED BY <1>2, <1>3, <1>4, <1>5, <1>6, <1>7 DEF AdapterInv, KnownOnce

-----------------------------------------------------------------------------
\* What the parts of the invariant say of types, for citing.
LEMMA AdapterFacts ==
    ASSUME AdapterInv
    PROVE  /\ saved \in AdapterState /\ saved.revision \in Nat /\ saved.confirmed \in Nat
           /\ SoundState(saved)
           /\ Known \subseteq Receipts /\ NoReceipt \notin Receipts
           /\ \A a \in Adapters : operation[a] # NoOperation =>
                /\ operation[a] \in Operation /\ operation[a].state \in AdapterState
                /\ operation[a].state.revision \in Nat /\ operation[a].state.confirmed \in Nat
                /\ operation[a].facts \in Seq(Receipts)
                /\ SoundOperation(operation[a], saved, answered)
<1>1. saved \in AdapterState /\ saved.revision \in Nat /\ saved.confirmed \in Nat /\ SoundState(saved)
  BY DEF AdapterInv, AdapterTypeOK, AdapterState
<1>2. ASSUME NEW a \in Adapters, operation[a] # NoOperation
      PROVE  /\ operation[a] \in Operation /\ operation[a].state \in AdapterState
             /\ operation[a].state.revision \in Nat /\ operation[a].state.confirmed \in Nat
             /\ operation[a].facts \in Seq(Receipts)
             /\ SoundOperation(operation[a], saved, answered)
  <2>1. operation[a] \in Operation /\ operation[a].state \in AdapterState /\ operation[a].facts \in Seq(Receipts)
    BY <1>2, OperationShape DEF AdapterInv, AdapterTypeOK
  <2>2. operation[a].state.revision \in Nat /\ operation[a].state.confirmed \in Nat
    BY <2>1 DEF AdapterState
  <2> QED BY <1>2, <2>1, <2>2 DEF AdapterInv
<1>3. NoReceipt \notin Receipts
  BY ReceiptShape
<1>4. ASSUME NEW a \in Adapters, operation[a].at \in {"consume", "confirm"}
      PROVE  operation[a].facts[1] \in Receipts
  <2>1. operation[a] # NoOperation
    BY <1>4 DEF NoOperation
  <2>2. operation[a].facts \in Seq(Receipts) /\ operation[a].facts # <<>>
    BY <1>2, <1>4, <2>1 DEF SoundOperation
  <2> QED BY <2>2
<1>5. saved.pending \in {NoReceipt} \cup Receipts
  BY <1>1 DEF AdapterState
<1>6. Known \subseteq Receipts
  BY <1>4, <1>5 DEF Known, AdapterInv, AdapterTypeOK
<1> QED BY <1>1, <1>2, <1>3, <1>6

\* An operation stays sound when another one writes or is answered.
LEMMA StaysSound ==
    ASSUME NEW op, NEW s, NEW t, NEW ans, NEW more, op.state.revision \in Nat, s.revision \in Nat,
           SoundOperation(op, s, ans), t = s \/ t.revision = s.revision + 1, ans \subseteq more
    PROVE  SoundOperation(op, t, more)
<1>1. CASE t = s
  BY <1>1 DEF SoundOperation
<1>2. CASE t.revision = s.revision + 1
  BY <1>2 DEF SoundOperation
<1> QED BY <1>1, <1>2

\* What a step of one adapter has to show.
LEMMA AdapterStepFrame ==
    ASSUME AdapterInv, NEW a \in Adapters, NEW new \in {NoOperation} \cup Operation,
           operation' = [operation EXCEPT ![a] = new], UNCHANGED <<feed, offer>>,
           saved' \in AdapterState, SoundState(saved'), saved' = saved \/ saved'.revision = saved.revision + 1,
           delivered' \subseteq Receipts, answered \subseteq answered',
           new # NoOperation => SoundOperation(new, saved', answered'),
           CursorCoversAnswered', KnownOnce'
    PROVE  AdapterInv'
<1>1. AdapterTypeOK'
  BY DEF AdapterInv, AdapterTypeOK
<1>2. After(offer.facts, offer.after)'
  BY DEF AdapterInv, After
<1>3. operation'[a] = new /\ \A b \in Adapters \ {a} : operation'[b] = operation[b]
  BY DEF AdapterInv, AdapterTypeOK
<1>4. \A b \in Adapters : operation[b] # NoOperation => SoundOperation(operation[b], saved', answered')
  BY AdapterFacts, StaysSound
<1>5. \A b \in Adapters : operation'[b] # NoOperation => SoundOperation(operation'[b], saved', answered')
  BY <1>3, <1>4
<1> QED BY <1>1, <1>2, <1>5 DEF AdapterInv

\* A step that writes nothing and makes no other fact known.
LEMMA AdapterQuietStep ==
    ASSUME AdapterInv, NEW a \in Adapters, NEW new \in {NoOperation} \cup Operation,
           operation' = [operation EXCEPT ![a] = new], UNCHANGED <<feed, offer, saved>>,
           delivered' \subseteq Known, answered \subseteq answered',
           new # NoOperation => SoundOperation(new, saved, answered'),
           new.at \in {"consume", "confirm"} => new.facts[1] \in Known
    PROVE  AdapterInv'
<1>1. operation'[a] = new /\ \A b \in Adapters \ {a} : operation'[b] = operation[b]
  BY Zenon DEF AdapterInv, AdapterTypeOK
<1>2. Known' \subseteq Known
  BY <1>1 DEF Known
<1>3. KnownOnce'
  BY <1>2 DEF AdapterInv, KnownOnce
<1>4. CursorCoversAnswered'
  BY DEF AdapterInv, CursorCoversAnswered
<1>5. saved' = saved /\ saved' \in AdapterState /\ SoundState(saved') /\ delivered' \subseteq Receipts
  BY Zenon, AdapterFacts
<1> QED BY Zenon, <1>3, <1>4, <1>5, AdapterStepFrame

-----------------------------------------------------------------------------
(* The two writes *)

\* The first fact of an operation.
LEMMA FirstFact ==
    ASSUME AdapterInv, NEW a \in Adapters, operation[a].at \in {"prepare", "consume", "confirm"}
    PROVE  LET op == operation[a] IN
           /\ op # NoOperation /\ op \in Operation /\ op.facts \in Seq(Receipts)
           /\ Len(op.facts) \in Nat /\ Len(op.facts) > 0
           /\ Head(op.facts) = op.facts[1] /\ op.facts[1] \in Receipts
           /\ op.facts[1].id = op.state.confirmed + 1
           /\ op.state \in AdapterState /\ SoundOperation(op, saved, answered)
<1>1. operation[a] # NoOperation
  BY DEF NoOperation
<1>2. /\ operation[a] \in Operation /\ operation[a].state \in AdapterState
      /\ operation[a].facts \in Seq(Receipts) /\ SoundOperation(operation[a], saved, answered)
  BY <1>1, AdapterFacts
<1>3. operation[a].facts # <<>> /\ After(operation[a].facts, operation[a].state.confirmed)
  BY <1>2 DEF SoundOperation
<1>4. /\ Len(operation[a].facts) \in Nat /\ Len(operation[a].facts) > 0
      /\ Head(operation[a].facts) = operation[a].facts[1] /\ operation[a].facts[1] \in Receipts
  BY <1>2, <1>3
<1>5. operation[a].facts[1].id = operation[a].state.confirmed + 1
  BY <1>3, <1>4 DEF After
<1> QED BY <1>1, <1>2, <1>4, <1>5

\* Prepare puts the fact next to the cursor under the store's pending receipt.
LEMMA PrepareWrites ==
    ASSUME AdapterInv, NEW a \in Adapters, operation[a].at = "prepare",
           Preparable(operation[a].state, Head(operation[a].facts)),
           saved.revision = operation[a].state.revision,
           saved' = PreparedReceipt(operation[a].state, Head(operation[a].facts))
    PROVE  LET fact == operation[a].facts[1] IN
           /\ saved' \in AdapterState /\ SoundState(saved')
           /\ saved'.revision = saved.revision + 1
           /\ saved'.confirmed = saved.confirmed /\ saved'.pending = fact
           /\ fact \in Receipts /\ fact.id = saved.confirmed + 1
           /\ saved.pending \in {NoReceipt, fact}
<1> DEFINE fact == operation[a].facts[1]
<1>1. /\ Head(operation[a].facts) = fact /\ fact \in Receipts
      /\ fact.id = operation[a].state.confirmed + 1
      /\ operation[a].state = saved
  BY Zenon, FirstFact DEF SoundOperation
<1>2. saved' = [revision |-> saved.revision + 1, confirmed |-> saved.confirmed,
                pending |-> fact, recent |-> saved.recent]
  BY <1>1 DEF PreparedReceipt
<1>3. saved.pending \in {NoReceipt, fact}
  BY Zenon, <1>1 DEF Preparable
<1> HIDE DEF fact
<1>4. /\ saved \in AdapterState /\ SoundState(saved) /\ saved.revision \in Nat /\ saved.confirmed \in Nat
      /\ saved.recent \in Seq(Receipts)
  BY ZenonT(60), AdapterFacts DEF AdapterState
<1>5. saved' \in AdapterState /\ SoundState(saved')
  BY <1>1, <1>2, <1>4 DEF AdapterState, SoundState
<1> QED BY <1>1, <1>2, <1>3, <1>5 DEF fact

\* Confirm moves the cursor over the pending fact.
LEMMA ConfirmWrites ==
    ASSUME AdapterInv, NEW a \in Adapters, operation[a].at = "confirm",
           saved.revision = operation[a].state.revision,
           saved' = Confirmed(operation[a].state)
    PROVE  /\ saved' \in AdapterState /\ SoundState(saved')
           /\ saved'.revision = saved.revision + 1
           /\ saved'.confirmed = saved.confirmed + 1 /\ saved'.pending = NoReceipt
           /\ saved.pending \in Receipts /\ saved.pending.id = saved.confirmed + 1
           /\ saved.pending.id \in answered
<1>1. /\ operation[a].facts[1] \in Receipts
      /\ operation[a].facts[1].id = operation[a].state.confirmed + 1
      /\ operation[a].facts[1].id \in answered
      /\ operation[a].state.pending = operation[a].facts[1]
      /\ operation[a].state = saved
  BY Zenon, FirstFact DEF SoundOperation
<1>2. saved.pending \in Receipts /\ saved.pending.id = saved.confirmed + 1 /\ saved.pending.id \in answered
  BY Zenon, <1>1
<1>3. /\ saved \in AdapterState /\ SoundState(saved) /\ saved.revision \in Nat /\ saved.confirmed \in Nat
      /\ saved.recent \in Seq(Receipts)
  BY Zenon, AdapterFacts DEF AdapterState
<1> DEFINE longer == Append(saved.recent, saved.pending)
           recent == IF Len(longer) > RecentWindow THEN Tail(longer) ELSE longer
<1>4. ~\E old \in Range(saved.recent) : old.id = saved.pending.id
  <2> SUFFICES ASSUME NEW old \in Range(saved.recent), old.id = saved.pending.id PROVE FALSE
      OBVIOUS
  <2>1. PICK k \in 1..Len(saved.recent) : old = saved.recent[k]
    BY <1>3 DEF Range
  <2>2. old.id <= saved.confirmed
    BY <1>3, <2>1 DEF SoundState
  <2> QED BY <1>2, <1>3, <2>2
<1>5. saved' = [revision |-> saved.revision + 1, confirmed |-> saved.pending.id,
                pending |-> NoReceipt, recent |-> recent]
  BY Zenon, <1>1, <1>4 DEF Confirmed
<1>6. /\ longer \in Seq(Receipts) /\ Len(longer) = Len(saved.recent) + 1 /\ Len(longer) > 0
      /\ \A k \in 1..Len(longer) : longer[k].id <= saved.confirmed + 1
  <2>1. longer \in Seq(Receipts) /\ Len(longer) = Len(saved.recent) + 1 /\ Len(saved.recent) \in Nat
    BY <1>2, <1>3
  <2>2. \A k \in 1..Len(saved.recent) : /\ longer[k] = saved.recent[k] /\ saved.recent[k] \in Receipts
                                        /\ saved.recent[k].id <= saved.confirmed
    BY <1>2, <1>3 DEF SoundState
  <2>3. longer[Len(saved.recent) + 1] = saved.pending
    BY <1>2, <1>3
  <2>4. \A k \in 1..Len(saved.recent) : longer[k].id \in Nat
    BY <2>2, ReceiptShape
  <2> HIDE DEF longer
  <2>5. ASSUME NEW k \in 1..Len(longer) PROVE longer[k].id <= saved.confirmed + 1
    <3>1. CASE k \in 1..Len(saved.recent)
      BY <1>3, <2>2, <2>4, <3>1
    <3>2. CASE k = Len(saved.recent) + 1
      BY <1>2, <1>3, <2>3, <3>2
    <3> QED BY <2>1, <3>1, <3>2
  <2> QED BY <2>1, <2>5
<1> HIDE DEF longer
<1>7. recent \in Seq(Receipts) /\ \A k \in 1..Len(recent) : recent[k].id <= saved.confirmed + 1
  <2>1. CASE Len(longer) > RecentWindow
    <3>1. /\ Tail(longer) \in Seq(Receipts) /\ Len(Tail(longer)) = Len(longer) - 1
          /\ \A k \in 1..Len(Tail(longer)) : Tail(longer)[k] = longer[k + 1]
      BY <1>6
    <3>2. \A k \in 1..Len(Tail(longer)) : k + 1 \in 1..Len(longer)
      BY <1>6, <3>1
    <3> QED BY <1>6, <2>1, <3>1, <3>2
  <2>2. CASE ~(Len(longer) > RecentWindow)
    BY <1>6, <2>2
  <2> QED BY Zenon, <2>1, <2>2
<1> HIDE DEF recent
<1>8. saved' \in AdapterState
  BY <1>2, <1>3, <1>5, <1>7 DEF AdapterState
<1>9. SoundState(saved')
  BY <1>2, <1>5, <1>7 DEF SoundState
<1> QED BY <1>2, <1>5, <1>8, <1>9

\* A step of an adapter that prepares its first fact, and goes on to `new`.
LEMMA PreparedStep ==
    ASSUME AdapterInv, NEW a \in Adapters, operation[a].at = "prepare",
           Preparable(operation[a].state, Head(operation[a].facts)),
           saved.revision = operation[a].state.revision,
           saved' = PreparedReceipt(operation[a].state, Head(operation[a].facts)),
           NEW new \in {NoOperation} \cup Operation, operation' = [operation EXCEPT ![a] = new],
           UNCHANGED <<feed, offer, delivered, answered>>,
           new # NoOperation => /\ SoundOperation(new, saved', answered)
                                /\ new.facts = operation[a].facts
    PROVE  AdapterInv'
<1> DEFINE fact == operation[a].facts[1]
<1>1. /\ saved' \in AdapterState /\ SoundState(saved')
      /\ saved'.revision = saved.revision + 1
      /\ saved'.confirmed = saved.confirmed /\ saved'.pending = fact
      /\ fact \in Receipts /\ fact.id = saved.confirmed + 1
      /\ saved.pending \in {NoReceipt, fact}
  BY Zenon, PrepareWrites
<1>2. operation'[a] = new /\ \A b \in Adapters \ {a} : operation'[b] = operation[b]
  BY Zenon DEF AdapterInv, AdapterTypeOK
<1>3. new.at \in {"consume", "confirm"} => new.facts[1] = fact
  BY DEF NoOperation
<1> HIDE DEF fact
<1>4. Known' \subseteq Known \cup {fact}
  BY <1>1, <1>2, <1>3 DEF Known
<1>5. \A r \in Known : r \in Receipts /\ r.id \in Nat /\ r # NoReceipt /\ saved.confirmed \in Nat
  BY Zenon, AdapterFacts, ReceiptShape
<1>6. \A r \in Known : r.id <= saved.confirmed \/ r = fact
  BY Zenon, <1>1, <1>5 DEF AdapterInv, KnownOnce
<1>7. \A r \in Known : r.id = fact.id => r = fact
  BY <1>1, <1>5, <1>6
<1>8. KnownOnce'
  BY Zenon, <1>1, <1>4, <1>6, <1>7 DEF AdapterInv, KnownOnce
<1>9. CursorCoversAnswered'
  BY Zenon, <1>1 DEF AdapterInv, CursorCoversAnswered
<1>10. delivered' \subseteq Receipts
  BY Zenon DEF AdapterInv, AdapterTypeOK
<1> QED BY Zenon, <1>1, <1>8, <1>9, <1>10, AdapterStepFrame

\* A step of an adapter that confirms its first fact, and goes on to `new`.
LEMMA ConfirmedStep ==
    ASSUME AdapterInv, NEW a \in Adapters, operation[a].at = "confirm",
           saved.revision = operation[a].state.revision,
           saved' = Confirmed(operation[a].state),
           NEW new \in {NoOperation} \cup Operation, operation' = [operation EXCEPT ![a] = new],
           UNCHANGED <<feed, offer, delivered, answered>>,
           new # NoOperation => SoundOperation(new, saved', answered) /\ new.at = "prepare"
    PROVE  AdapterInv'
<1>1. /\ saved' \in AdapterState /\ SoundState(saved')
      /\ saved'.revision = saved.revision + 1
      /\ saved'.confirmed = saved.confirmed + 1 /\ saved'.pending = NoReceipt
      /\ saved.pending \in Receipts /\ saved.pending.id = saved.confirmed + 1
      /\ saved.pending.id \in answered
  BY Zenon, ConfirmWrites
<1>2. operation'[a] = new /\ \A b \in Adapters \ {a} : operation'[b] = operation[b]
  BY Zenon DEF AdapterInv, AdapterTypeOK
<1>3. new.at \notin {"consume", "confirm"}
  BY DEF NoOperation
<1>4. Known' \subseteq Known
  BY <1>1, <1>2, <1>3 DEF Known
<1>5. \A r \in Known : r.id \in Nat /\ saved.confirmed \in Nat
  BY Zenon, AdapterFacts, ReceiptShape
<1>6. \A r \in Known : r.id <= saved.confirmed + 1
  BY <1>1, <1>5 DEF AdapterInv, KnownOnce
<1>7. KnownOnce'
  BY Zenon, <1>1, <1>4, <1>6 DEF AdapterInv, KnownOnce
<1>8. CursorCoversAnswered'
  <2>1. saved.confirmed \in Nat /\ 1..saved.confirmed \subseteq answered /\ saved.confirmed + 1 \in answered
    BY Zenon, <1>1, AdapterFacts DEF AdapterInv, CursorCoversAnswered
  <2>2. 1..(saved.confirmed + 1) \subseteq answered
    BY <2>1
  <2> QED BY Zenon, <1>1, <2>2 DEF CursorCoversAnswered
<1>9. delivered' \subseteq Receipts
  BY Zenon DEF AdapterInv, AdapterTypeOK
<1> QED BY Zenon, <1>1, <1>7, <1>8, <1>9, AdapterStepFrame

\* An operation ends.
LEMMA OperationEnds ==
    ASSUME AdapterInv, NEW a \in Adapters, operation' = [operation EXCEPT ![a] = NoOperation],
           UNCHANGED <<feed, offer, saved, delivered, answered>>
    PROVE  AdapterInv'
<1>1. delivered' \subseteq Known
  BY DEF Known
<1>2. NoOperation.at \notin {"consume", "confirm"}
  BY DEF NoOperation
<1> QED BY Zenon, <1>1, <1>2, AdapterQuietStep

-----------------------------------------------------------------------------
(* One lemma per action *)

\* A page holds the facts after its cursor.
LEMMA PageFacts ==
    ASSUME AdapterInv, NEW cursor \in Nat
    PROVE  /\ PageAfter(cursor) \in [after : Nat, facts : Seq(Receipts)]
           /\ PageAfter(cursor).after = cursor
           /\ After(PageAfter(cursor).facts, cursor)
<1> DEFINE n == IF Len(feed) - cursor < PageLimit THEN Len(feed) - cursor ELSE PageLimit
           facts == [k \in 1..n |-> Receipt(cursor + k, feed[cursor + k])]
<1>1. feed \in Seq(Nat) /\ Len(feed) \in Nat /\ PageLimit \in Nat
  BY AdapterAssumption DEF AdapterInv, AdapterTypeOK
<1>2. n \in Int /\ n <= Len(feed) - cursor
  BY <1>1
<1> HIDE DEF n
<1>3. \A k \in 1..n : /\ Receipt(cursor + k, feed[cursor + k]) \in Receipts
                      /\ Receipt(cursor + k, feed[cursor + k]).id = cursor + k
  <2> TAKE k \in 1..n
  <2>1. cursor + k \in 1..Len(feed) /\ cursor + k \in Nat \ {0}
    BY <1>1, <1>2
  <2>2. feed[cursor + k] \in Nat
    BY <1>1, <2>1
  <2> QED BY <2>1, <2>2 DEF Receipt, Receipts
<1>4. facts \in Seq(Receipts) /\ After(facts, cursor)
  <2>1. CASE n >= 0
    <3>1. facts \in Seq(Receipts) /\ Len(facts) = n
      BY <1>2, <1>3, <2>1
    <3> QED BY Zenon, <1>3, <3>1 DEF After
  <2>2. CASE n < 0
    <3>1. 1..n = {} /\ 1..0 = {}
      BY <1>2, <2>2
    <3>2. facts = <<>>
      BY <3>1
    <3>3. <<>> \in Seq(Receipts) /\ Len(<<>>) = 0
      OBVIOUS
    <3> HIDE DEF facts
    <3> QED BY <3>1, <3>2, <3>3 DEF After
  <2> QED BY <1>2, <2>1, <2>2
<1>5. PageAfter(cursor) = [after |-> cursor, facts |-> facts]
  BY DEF PageAfter, n
<1> HIDE DEF facts
<1> QED BY <1>4, <1>5

\* A loaded state is the stored one.
LEMMA AdapterLoadInv ==
    ASSUME AdapterInv, NEW a \in Adapters, Load(a)
    PROVE  AdapterInv'
<1> DEFINE new == [at |-> "loaded", state |-> saved, facts |-> <<>>]
<1>1. saved \in AdapterState /\ saved.revision \in Nat /\ SoundState(saved)
  BY AdapterFacts
<1>2. <<>> \in Seq(Receipts)
  OBVIOUS
<1>3. new \in Operation /\ new.at = "loaded" /\ new.state = saved
  BY <1>1, <1>2 DEF Operation
<1>4. operation' = [operation EXCEPT ![a] = new] /\ UNCHANGED <<feed, offer, saved, delivered, answered>>
  BY DEF Load
<1> HIDE DEF new
<1>5. SoundOperation(new, saved, answered')
  BY <1>1, <1>3 DEF SoundOperation
<1>6. delivered' \subseteq Known
  BY <1>4 DEF Known
<1> QED BY Zenon, <1>3, <1>4, <1>5, <1>6, AdapterQuietStep

\* A page is taken only when it fits what is known of the facts.
LEMMA TakeInv ==
    ASSUME AdapterInv, NEW a \in Adapters, NEW page \in [after : Nat, facts : Seq(Receipts)],
           After(page.facts, page.after), Take(a, page)
    PROVE  AdapterInv'
<1> DEFINE s == operation[a].state
           new == [at |-> "prepare", state |-> s, facts |-> page.facts]
<1>1. /\ s \in AdapterState /\ SoundOperation(operation[a], saved, answered)
  <2>1. operation[a] # NoOperation
    BY DEF Take, NoOperation
  <2> QED BY Zenon, <2>1, AdapterFacts
<1>2. UNCHANGED <<feed, offer, saved, delivered, answered>>
  BY DEF Take
<1>3. CASE operation' = [operation EXCEPT ![a] = NoOperation]
  BY Zenon, <1>2, <1>3, OperationEnds
<1>4. CASE operation' # [operation EXCEPT ![a] = NoOperation]
  <2>1. /\ operation' = [operation EXCEPT ![a] = new]
        /\ page.after = s.confirmed /\ page.facts # <<>>
    BY Zenon, <1>4 DEF Take, Fits
  <2>2. /\ new \in Operation /\ new.at = "prepare" /\ new.state = s /\ new.facts = page.facts
    BY Zenon, <1>1 DEF Operation
  <2>3. SoundOperation(new, saved, answered')
    <3>1. After(page.facts, s.confirmed)
      BY <2>1
    <3> HIDE DEF new
    <3> QED BY Zenon, <1>1, <2>1, <2>2, <3>1 DEF SoundOperation
  <2>4. delivered' \subseteq Known
    BY Zenon, <1>2 DEF Known
  <2> HIDE DEF new
  <2> QED BY Zenon, <1>2, <2>1, <2>2, <2>3, <2>4, AdapterQuietStep
<1> QED BY Zenon, <1>3, <1>4

\* The receipt is prepared in the store before the consumer is called.
LEMMA PrepareInv ==
    ASSUME AdapterInv, NEW a \in Adapters, PrepareFact(a)
    PROVE  AdapterInv'
<1> DEFINE op == operation[a]
           next == PreparedReceipt(op.state, Head(op.facts))
           new == [at |-> "consume", state |-> next, facts |-> op.facts]
<1>1. op.at = "prepare" /\ UNCHANGED <<feed, offer, delivered, answered>>
  BY DEF PrepareFact
<1>2. CASE operation' = [operation EXCEPT ![a] = NoOperation] /\ UNCHANGED saved
  BY Zenon, <1>1, <1>2, OperationEnds
<1>3. CASE /\ Preparable(op.state, Head(op.facts)) /\ saved.revision = op.state.revision
           /\ saved' = next /\ operation' = [operation EXCEPT ![a] = new]
  <2>1. /\ saved' \in AdapterState /\ SoundState(saved') /\ saved'.revision = saved.revision + 1
        /\ saved'.confirmed = saved.confirmed /\ saved'.pending = op.facts[1]
    BY Zenon, <1>1, <1>3, PrepareWrites
  <2>2. /\ op.facts \in Seq(Receipts) /\ op.facts # <<>> /\ After(op.facts, op.state.confirmed)
        /\ op.state = saved
    BY Zenon, <1>1, <1>3, FirstFact DEF SoundOperation
  <2>3. new \in Operation /\ new.at = "consume" /\ new.state = saved' /\ new.facts = op.facts
    BY Zenon, <1>3, <2>1, <2>2 DEF Operation
  <2>4. saved.revision \in Nat
    BY AdapterFacts
  <2> HIDE DEF new, op
  <2>5. SoundOperation(new, saved', answered)
    BY <2>1, <2>2, <2>3, <2>4 DEF SoundOperation
  <2> QED BY Zenon, <1>1, <1>3, <2>3, <2>5, PreparedStep DEF op
<1> QED BY Zenon, <1>2, <1>3 DEF PrepareFact, Save

\* The consumer is called with the prepared fact only.
LEMMA ConsumeInv ==
    ASSUME AdapterInv, NEW a \in Adapters, Consume(a)
    PROVE  AdapterInv'
<1> DEFINE op == operation[a]
           new == [op EXCEPT !.at = "confirm"]
<1>1. op.at = "consume"
  BY Zenon DEF Consume
<1>2. op \in Operation /\ Head(op.facts) = op.facts[1] /\ SoundOperation(op, saved, answered)
  BY <1>1, FirstFact
<1>3. /\ operation' = [operation EXCEPT ![a] = new]
      /\ delivered' = delivered \cup {op.facts[1]} /\ answered' = answered \cup {op.facts[1].id}
      /\ UNCHANGED <<feed, offer, saved>>
  BY <1>2 DEF Consume
<1>4. new \in Operation /\ new.at = "confirm" /\ new.state = op.state /\ new.facts = op.facts
  BY Zenon, <1>2 DEF Operation
<1>5. op.facts[1] \in Known /\ delivered \subseteq Known
  BY Zenon, <1>1 DEF Known
<1> HIDE DEF new, op
<1>6. SoundOperation(new, saved, answered')
  BY Zenon, <1>1, <1>2, <1>3, <1>4 DEF SoundOperation
<1> QED BY Zenon, <1>3, <1>4, <1>5, <1>6, AdapterQuietStep DEF op

\* A consumer that fails leaves the receipt prepared.
LEMMA ConsumeFailsInv ==
    ASSUME AdapterInv, NEW a \in Adapters, ConsumeFails(a)
    PROVE  AdapterInv'
<1>1. operation[a].at = "consume"
  BY Zenon DEF ConsumeFails
<1>2. operation[a].facts[1] \in Known /\ delivered \subseteq Known
  BY Zenon, <1>1 DEF Known
<1>3. delivered' \subseteq Known
  BY Zenon, <1>1, <1>2, FirstFact DEF ConsumeFails
<1>4. NoOperation.at \notin {"consume", "confirm"}
  BY DEF NoOperation
<1> QED BY Zenon, <1>3, <1>4, AdapterQuietStep DEF ConsumeFails

\* A receipt is confirmed after its effect, and the cursor moves over it.
LEMMA ConfirmInv ==
    ASSUME AdapterInv, NEW a \in Adapters, ConfirmFact(a)
    PROVE  AdapterInv'
<1> DEFINE op == operation[a]
           next == Confirmed(op.state)
           rest == Tail(op.facts)
           new == IF rest = <<>> THEN NoOperation ELSE [at |-> "prepare", state |-> next, facts |-> rest]
<1>1. op.at = "confirm" /\ UNCHANGED <<feed, offer, delivered, answered>>
  BY Zenon DEF ConfirmFact
<1>2. CASE operation' = [operation EXCEPT ![a] = NoOperation] /\ UNCHANGED saved
  BY Zenon, <1>1, <1>2, OperationEnds
<1>3. CASE /\ saved.revision = op.state.revision
           /\ saved' = next /\ operation' = [operation EXCEPT ![a] = new]
  <2>1. /\ saved' \in AdapterState /\ SoundState(saved') /\ saved'.revision = saved.revision + 1
        /\ saved'.confirmed = saved.confirmed + 1
    BY Zenon, <1>1, <1>3, ConfirmWrites
  <2>2. /\ op.facts \in Seq(Receipts) /\ Len(op.facts) \in Nat /\ Len(op.facts) > 0
        /\ After(op.facts, op.state.confirmed) /\ op.state = saved
        /\ saved.revision \in Nat /\ saved.confirmed \in Nat
    BY Zenon, <1>1, <1>3, FirstFact, AdapterFacts DEF SoundOperation
  <2> HIDE DEF op
  <2>3. /\ rest \in Seq(Receipts) /\ Len(rest) = Len(op.facts) - 1
        /\ \A k \in 1..Len(rest) : rest[k] = op.facts[k + 1] /\ k + 1 \in 1..Len(op.facts)
    BY <2>2
  <2> HIDE DEF rest
  <2>4. After(rest, saved.confirmed + 1)
    <3> SUFFICES ASSUME NEW k \in 1..Len(rest) PROVE rest[k].id = saved.confirmed + 1 + k
        BY DEF After
    <3>1. op.facts[k + 1].id = saved.confirmed + (k + 1)
      BY Zenon, <2>2, <2>3 DEF After
    <3>2. rest[k] = op.facts[k + 1]
      BY <2>3
    <3>3. saved.confirmed + (k + 1) = saved.confirmed + 1 + k
      BY <2>2
    <3> QED BY <3>1, <3>2, <3>3
  <2>5. CASE rest = <<>>
    BY Zenon, <1>1, <1>3, <2>5, ConfirmedStep DEF op
  <2>6. CASE rest # <<>>
    <3>1. new \in Operation /\ new.at = "prepare" /\ new.state = saved' /\ new.facts = rest
      BY Zenon, <1>3, <2>1, <2>3, <2>6 DEF Operation
    <3> HIDE DEF new
    <3>2. SoundOperation(new, saved', answered)
      BY <2>1, <2>2, <2>4, <2>6, <3>1 DEF SoundOperation
    <3> QED BY Zenon, <1>1, <1>3, <3>1, <3>2, ConfirmedStep DEF op
  <2> QED BY <2>5, <2>6
<1> QED BY Zenon, <1>2, <1>3 DEF ConfirmFact, Save

\* An interrupted call forgets its copy and keeps the store.
LEMMA InterruptInv ==
    ASSUME AdapterInv, NEW a \in Adapters, Interrupt(a)
    PROVE  AdapterInv'
<1>1. operation' = [operation EXCEPT ![a] = NoOperation] /\ UNCHANGED <<feed, offer, delivered, answered>>
  BY Zenon DEF Interrupt
<1>2. CASE UNCHANGED saved
  BY Zenon, <1>1, <1>2, OperationEnds
<1>3. CASE /\ saved.revision = operation[a].state.revision /\ operation[a].at = "prepare"
           /\ Preparable(operation[a].state, Head(operation[a].facts))
           /\ saved' = PreparedReceipt(operation[a].state, Head(operation[a].facts))
  BY Zenon, <1>1, <1>3, PreparedStep
<1>4. CASE /\ saved.revision = operation[a].state.revision /\ operation[a].at = "confirm"
           /\ saved' = Confirmed(operation[a].state)
  BY Zenon, <1>1, <1>4, ConfirmedStep
<1> QED BY Zenon, <1>2, <1>3, <1>4 DEF Interrupt

\* The invariant is inductive.
LEMMA AdapterStepInv == AdapterInv /\ [AdapterNext]_adapterVars => AdapterInv'
<1> SUFFICES ASSUME AdapterInv, [AdapterNext]_adapterVars PROVE AdapterInv'
    OBVIOUS
<1>1. ASSUME UNCHANGED <<saved, operation, delivered, answered>>, feed' \in Seq(Nat),
             offer' \in [after : Nat, facts : Seq(Receipts)], After(offer'.facts, offer'.after)
      PROVE  AdapterInv'
  <2>1. AdapterTypeOK'
    BY <1>1 DEF AdapterInv, AdapterTypeOK
  <2>2. Known' = Known
    BY Zenon, <1>1 DEF Known
  <2> QED BY Zenon, <1>1, <2>1, <2>2 DEF AdapterInv, KnownOnce, CursorCoversAnswered
<1>2. /\ feed \in Seq(Nat) /\ offer \in [after : Nat, facts : Seq(Receipts)] /\ After(offer.facts, offer.after)
  BY Zenon DEF AdapterInv, AdapterTypeOK
<1>3. CASE UNCHANGED adapterVars
  BY <1>1, <1>2, <1>3 DEF adapterVars
<1>4. CASE Produce
  <2>1. feed' \in Seq(Nat)
    BY <1>2, <1>4 DEF Produce
  <2> QED BY <1>1, <1>2, <1>4, <2>1 DEF Produce
<1>5. ASSUME NEW id \in DOMAIN feed, Amend(id) PROVE AdapterInv'
  <2>1. feed[id] + 1 \in Nat /\ feed' = [feed EXCEPT ![id] = feed[id] + 1]
    BY <1>2, <1>5 DEF Amend
  <2>2. feed' \in Seq(Nat)
    BY <1>2, <2>1
  <2> QED BY <1>1, <1>2, <1>5, <2>2 DEF Amend
<1>6. ASSUME NEW cursor \in 0..Len(feed), TakePage(cursor) PROVE AdapterInv'
  <2>1. cursor \in Nat /\ offer' = PageAfter(cursor)
    BY <1>6 DEF TakePage
  <2>2. offer' \in [after : Nat, facts : Seq(Receipts)] /\ After(offer'.facts, offer'.after)
    BY Zenon, <2>1, PageFacts
  <2> QED BY <1>1, <1>2, <1>6, <2>2 DEF TakePage
<1>7. ASSUME NEW a \in Adapters, Dispose(a) \/ NewAdapter(a) PROVE AdapterInv'
  BY <1>1, <1>2, <1>7 DEF Dispose, NewAdapter
<1>8. ASSUME NEW a \in Adapters, Poll(a) PROVE AdapterInv'
  <2>1. operation[a] # NoOperation
    BY <1>8 DEF Poll, NoOperation
  <2>2. operation[a].state.confirmed \in Nat
    BY Zenon, <2>1, AdapterFacts
  <2> QED BY Zenon, <1>8, <2>2, PageFacts, TakeInv DEF Poll
<1>9. ASSUME NEW a \in Adapters, TakeOffer(a) PROVE AdapterInv'
  BY <1>2, <1>9, TakeInv DEF TakeOffer
<1> QED BY <1>3, <1>4, <1>5, <1>6, <1>7, <1>8, <1>9, AdapterLoadInv, PrepareInv, ConsumeInv, ConsumeFailsInv,
           ConfirmInv, InterruptInv DEF AdapterNext, AdapterStep

-----------------------------------------------------------------------------
(***************************************************************************)
(* The confirmed cursor covers answered facts only (deliver, Confirm,      *)
(* page).                                                                  *)
(***************************************************************************)
THEOREM AdapterCursor == AdapterSpec => []CursorCoversAnswered
<1>1. AdapterInv => CursorCoversAnswered
  BY Zenon DEF AdapterInv
<1> QED BY <1>1, AdapterInitInv, AdapterStepInv, PTL DEF AdapterSpec

(***************************************************************************)
(* The consumer never sees an external id with two contents (page,         *)
(* PrepareReceipt).                                                        *)
(***************************************************************************)
THEOREM AdapterOneContent == AdapterSpec => []OneContentPerFact
<1>1. AdapterInv => OneContentPerFact
  BY Zenon DEF AdapterInv, KnownOnce, Known, OneContentPerFact
<1> QED BY <1>1, AdapterInitInv, AdapterStepInv, PTL DEF AdapterSpec

(***************************************************************************)
(* The store knows of every effect: a fact the consumer has been called    *)
(* with is behind the confirmed cursor, or it is the pending fact of the   *)
(* store with the content the consumer saw (deliver saves the prepared     *)
(* state before it calls the consumer, and a pending fact is never         *)
(* replaced).                                                              *)
(***************************************************************************)
EffectsAreRecorded ==
    \A r \in delivered : r.id <= saved.confirmed \/ r = saved.pending

\* A crash after the consumer was called leaves a trace of the call.
THEOREM AdapterEffects == AdapterSpec => []EffectsAreRecorded
<1>1. AdapterInv => EffectsAreRecorded
  BY Zenon DEF AdapterInv, KnownOnce, Known, EffectsAreRecorded
<1> QED BY <1>1, AdapterInitInv, AdapterStepInv, PTL DEF AdapterSpec

(***************************************************************************)
(* What a write may do to the store: it is the next revision, and it       *)
(* either prepares a fact where none, or the same one, was pending, or it  *)
(* moves the cursor over the pending fact, once the consumer has answered  *)
(* it.  No adapter takes the cursor back, skips a position or drops the    *)
(* pending fact of another (save, PrepareReceipt, Confirm).                *)
(***************************************************************************)
StoreMovesOn ==
    saved' # saved =>
        /\ saved'.revision = saved.revision + 1
        /\ \/ /\ saved'.confirmed = saved.confirmed
              /\ saved'.pending # NoReceipt
              /\ saved.pending \in {NoReceipt, saved'.pending}
           \/ /\ saved'.confirmed = saved.confirmed + 1
              /\ saved.pending # NoReceipt /\ saved.pending.id = saved.confirmed + 1
              /\ saved.pending.id \in answered
              /\ saved'.pending = NoReceipt

\* Two actions write the store, and an interrupted one may have written it.
LEMMA AdapterStepMoves == AdapterInv /\ [AdapterNext]_adapterVars => StoreMovesOn
<1> SUFFICES ASSUME AdapterInv, [AdapterNext]_adapterVars PROVE StoreMovesOn
    OBVIOUS
<1>1. CASE UNCHANGED saved
  BY Zenon, <1>1 DEF StoreMovesOn
<1>2. ASSUME NEW a \in Adapters, operation[a].at = "prepare",
             Preparable(operation[a].state, Head(operation[a].facts)),
             saved.revision = operation[a].state.revision,
             saved' = PreparedReceipt(operation[a].state, Head(operation[a].facts))
      PROVE  StoreMovesOn
  <2>1. /\ saved'.revision = saved.revision + 1 /\ saved'.confirmed = saved.confirmed
        /\ saved'.pending = operation[a].facts[1] /\ operation[a].facts[1] \in Receipts
        /\ saved.pending \in {NoReceipt, operation[a].facts[1]}
    BY Zenon, <1>2, PrepareWrites
  <2> QED BY Zenon, <2>1, ReceiptShape DEF StoreMovesOn
<1>3. ASSUME NEW a \in Adapters, operation[a].at = "confirm",
             saved.revision = operation[a].state.revision, saved' = Confirmed(operation[a].state)
      PROVE  StoreMovesOn
  <2>1. /\ saved'.revision = saved.revision + 1 /\ saved'.confirmed = saved.confirmed + 1
        /\ saved'.pending = NoReceipt /\ saved.pending \in Receipts
        /\ saved.pending.id = saved.confirmed + 1 /\ saved.pending.id \in answered
    BY Zenon, <1>3, ConfirmWrites
  <2> QED BY Zenon, <2>1, ReceiptShape DEF StoreMovesOn
<1>4. ASSUME NEW a \in Adapters, PrepareFact(a) PROVE StoreMovesOn
  BY Zenon, <1>1, <1>2, <1>4 DEF PrepareFact, Save
<1>5. ASSUME NEW a \in Adapters, ConfirmFact(a) PROVE StoreMovesOn
  BY Zenon, <1>1, <1>3, <1>5 DEF ConfirmFact, Save
<1>6. ASSUME NEW a \in Adapters, Interrupt(a) PROVE StoreMovesOn
  BY Zenon, <1>1, <1>2, <1>3, <1>6 DEF Interrupt
<1>7. ASSUME NEW a \in Adapters,
             \/ Load(a) \/ Poll(a) \/ Consume(a) \/ TakeOffer(a) \/ ConsumeFails(a)
             \/ Dispose(a) \/ NewAdapter(a)
      PROVE  StoreMovesOn
  BY Zenon, <1>1, <1>7 DEF Load, Poll, TakeOffer, Take, Consume, ConsumeFails, Dispose, NewAdapter
<1>8. CASE Produce \/ (\E id \in DOMAIN feed : Amend(id)) \/ (\E cursor \in 0..Len(feed) : TakePage(cursor))
  BY Zenon, <1>1, <1>8 DEF Produce, Amend, TakePage
<1>9. CASE UNCHANGED adapterVars
  BY <1>1, <1>9 DEF adapterVars
<1> QED BY Zenon, <1>4, <1>5, <1>6, <1>7, <1>8, <1>9 DEF AdapterNext, AdapterStep

\* Every write of every adapter on the store, whatever stale state it holds.
THEOREM AdapterStoreMoves == AdapterSpec => [][StoreMovesOn]_adapterVars
BY AdapterInitInv, AdapterStepInv, AdapterStepMoves, PTL DEF AdapterSpec

-----------------------------------------------------------------------------
(* CheckpointStore *)

OpenRecord ==
    [state : {"absent", "persisted", "claimed", "running", "canceled"}, generation : Nat, attempt : Nat]
DoneRecord ==
    [state : {"completed"}, generation : Nat, attempt : Nat,
     result : Outcomes \cup {"paused"}, successor : SUBSET Checkpoints]
CheckpointRecord == OpenRecord \cup DoneRecord
Snapshot == [Checkpoints -> CheckpointRecord]

StoreRecord == [open : BOOLEAN, poisoned : BOOLEAN, lease : Nat, revision : Nat,
                records : Snapshot, recovered : SUBSET Checkpoints]
Publication == [to : {"save", "claim", "run", "commit", "cancel"}, checkpoint : Checkpoints, records : Snapshot]
HeldClaim == [on : Checkpoints, attempt : Nat, generation : Nat]

CheckpointTypeOK ==
    /\ coordinator \in [fence : Nat, live : BOOLEAN, revision : Nat, records : Snapshot]
    /\ store \in [Writers -> StoreRecord]
    /\ publishing \in [Writers -> {NotPublishing} \cup Publication]
    /\ claims \in [Writers -> {NoClaim} \cup HeldClaim]
    /\ admissions \in Nat
    /\ admitted \subseteq Checkpoints \X Nat
    /\ promised \in Snapshot

(***************************************************************************)
(* A store that has the coordinator's revision and is not poisoned has the *)
(* coordinator's records: syncCoordinatorLocked may skip the read, since a *)
(* failed publish leaves no record behind that would be taken for durable. *)
(***************************************************************************)
CurrentStoreAgrees ==
    \A p \in Writers :
        store[p].open /\ ~store[p].poisoned /\ store[p].revision = coordinator.revision
            => store[p].records = coordinator.records

RevisionsArePast == \A p \in Writers : store[p].revision <= coordinator.revision

\* What is about to be published follows the store it is from.
Advances(op, records) ==
    /\ \A c \in Checkpoints : Follows(op.records[c], records[c])
    /\ op.to = "claim" => /\ records[op.checkpoint].state = "persisted"
                          /\ op.records[op.checkpoint].state = "claimed"

PublicationsAdvance ==
    \A p \in Writers : publishing[p] # NotPublishing =>
        /\ store[p].open /\ ~store[p].poisoned
        /\ Advances(publishing[p], store[p].records)

\* A claim that was given is the one in the file.
ClaimsStand ==
    \A x \in admitted :
        /\ coordinator.records[x[1]].state \in {"claimed", "running", "completed"}
        /\ coordinator.records[x[1]].attempt = x[2]

CheckpointInv ==
    /\ CheckpointTypeOK
    /\ CurrentStoreAgrees
    /\ RevisionsArePast
    /\ PublicationsAdvance
    /\ ClaimsStand
    /\ AcknowledgedIsDurable

-----------------------------------------------------------------------------
\* Records follow one another over any number of publications.
LEMMA FollowsTransitive ==
    ASSUME NEW q, NEW r, NEW s, Follows(q, r), Follows(r, s)
    PROVE  Follows(q, s)
BY DEF Follows

\* What the invariant says of the types of the file and the stores, for citing.
LEMMA SnapshotFacts ==
    /\ NotSaved \in CheckpointRecord /\ NotSaved.state = "absent"
    /\ Saved \in CheckpointRecord /\ Saved.state = "persisted"
    /\ NoCheckpoints \in Snapshot
<1>1. /\ NotSaved \in CheckpointRecord /\ NotSaved.state = "absent"
      /\ Saved \in CheckpointRecord /\ Saved.state = "persisted"
  BY DEF NotSaved, Saved, CheckpointRecord, OpenRecord
<1> QED BY <1>1 DEF NoCheckpoints, Snapshot

\* A store that is not open has nothing on its way.
LEMMA ClosedStoreFacts ==
    ClosedStore \in StoreRecord /\ ~ClosedStore.open /\ ClosedStore.revision = 0
BY Zenon, SnapshotFacts DEF ClosedStore, StoreRecord

\* Nothing is saved and no store is open.
LEMMA CheckpointInitInv == CheckpointInit => CheckpointInv
<1> SUFFICES ASSUME CheckpointInit PROVE CheckpointInv
    BY Zenon
<1>1. CheckpointTypeOK
  BY SnapshotFacts, ClosedStoreFacts DEF CheckpointInit, CheckpointTypeOK
<1>2. /\ \A p \in Writers : ~store[p].open /\ store[p].revision = 0 /\ publishing[p] = NotPublishing
      /\ coordinator.revision = 0 /\ admitted = {}
      /\ \A c \in Checkpoints : promised[c] = coordinator.records[c]
  BY ClosedStoreFacts DEF CheckpointInit
<1> QED BY <1>1, <1>2 DEF CheckpointInv, CurrentStoreAgrees, RevisionsArePast, PublicationsAdvance,
                          ClaimsStand, AcknowledgedIsDurable, Follows

\* An operation of a store works on the coordinator's records.
LEMMA SyncedFacts ==
    ASSUME CheckpointInv, NEW p \in Writers
    PROVE  /\ Synced(p) \in StoreRecord
           /\ Synced(p).revision = coordinator.revision
           /\ Synced(p).open = store[p].open /\ Synced(p).poisoned = store[p].poisoned
           /\ store[p].open /\ ~store[p].poisoned => Synced(p).records = coordinator.records
<1>1. /\ store[p] \in StoreRecord /\ coordinator.records \in Snapshot /\ coordinator.revision \in Nat
      /\ Unresolved(coordinator.records) \in SUBSET Checkpoints
  BY DEF CheckpointInv, CheckpointTypeOK, Unresolved
<1>2. CASE coordinator.revision = store[p].revision
  BY Zenon, <1>1, <1>2 DEF Synced, CheckpointInv, CurrentStoreAgrees
<1>3. CASE coordinator.revision # store[p].revision
  BY Zenon, <1>1, <1>3 DEF Synced, StoreRecord
<1> QED BY Zenon, <1>2, <1>3

-----------------------------------------------------------------------------
\* A step of one process that leaves the coordinator's records and revision.
LEMMA StoreStep ==
    ASSUME CheckpointInv, NEW p \in Writers, NEW s \in StoreRecord, NEW op \in {NotPublishing} \cup Publication,
           store' = [store EXCEPT ![p] = s],
           publishing' = [publishing EXCEPT ![p] = op],
           coordinator' \in [fence : Nat, live : BOOLEAN, revision : Nat, records : Snapshot],
           coordinator'.revision = coordinator.revision, coordinator'.records = coordinator.records,
           claims' \in [Writers -> {NoClaim} \cup HeldClaim],
           admissions' \in Nat, admitted' = admitted, promised' \in Snapshot,
           \A c \in Checkpoints : Follows(coordinator.records[c], promised'[c]),
           s.revision <= coordinator.revision,
           s.open /\ ~s.poisoned /\ s.revision = coordinator.revision => s.records = coordinator.records,
           op # NotPublishing => s.open /\ ~s.poisoned /\ Advances(op, s.records)
    PROVE  CheckpointInv'
<1>1. /\ store'[p] = s /\ \A q \in Writers \ {p} : store'[q] = store[q]
      /\ publishing'[p] = op /\ \A q \in Writers \ {p} : publishing'[q] = publishing[q]
  BY Zenon DEF CheckpointInv, CheckpointTypeOK
<1>2. CheckpointTypeOK'
  BY Zenon DEF CheckpointInv, CheckpointTypeOK
<1>3. CurrentStoreAgrees'
  BY Zenon, <1>1 DEF CheckpointInv, CurrentStoreAgrees
<1>4. RevisionsArePast'
  BY Zenon, <1>1 DEF CheckpointInv, RevisionsArePast
<1>5. PublicationsAdvance'
  <2>1. ASSUME NEW q \in Writers, publishing'[q] # NotPublishing
        PROVE  store'[q].open /\ ~store'[q].poisoned /\ Advances(publishing'[q], store'[q].records)
    <3>1. CASE q = p
      BY Zenon, <1>1, <2>1, <3>1
    <3>2. CASE q # p
      BY Zenon, <1>1, <2>1, <3>2 DEF CheckpointInv, PublicationsAdvance
    <3> QED BY Zenon, <3>1, <3>2
  <2> QED BY Zenon, <2>1 DEF PublicationsAdvance, Advances
<1>6. ClaimsStand' /\ AcknowledgedIsDurable'
  BY Zenon DEF CheckpointInv, ClaimsStand, AcknowledgedIsDurable
<1> QED BY Zenon, <1>2, <1>3, <1>4, <1>5, <1>6 DEF CheckpointInv

\* An operation that answers.
LEMMA AnswersInv ==
    ASSUME CheckpointInv, NEW p \in Writers, NEW c \in Checkpoints, Begins(p), Answers(p, c)
    PROVE  CheckpointInv'
<1>1. /\ publishing[p] = NotPublishing /\ store[p].open
      /\ store' = [store EXCEPT ![p] = Synced(p)]
      /\ UNCHANGED <<coordinator, publishing, claims, admissions, admitted>>
  BY DEF Begins, Answers
<1>2. publishing' = [publishing EXCEPT ![p] = NotPublishing]
  BY <1>1 DEF CheckpointInv, CheckpointTypeOK
<1>3. store[p].poisoned \in BOOLEAN /\ coordinator.records \in Snapshot
  BY DEF CheckpointInv, CheckpointTypeOK, StoreRecord
<1>4. promised' \in Snapshot /\ \A d \in Checkpoints : promised'[d] \in {promised[d], coordinator.records[d]}
  <2>1. CASE store[p].poisoned
    BY Zenon, <2>1 DEF Answers, CheckpointInv, CheckpointTypeOK, Snapshot
  <2>2. CASE ~store[p].poisoned
    <3>1. promised' = [promised EXCEPT ![c] = coordinator.records[c]]
      BY Zenon, <1>1, <2>2, SyncedFacts DEF Answers
    <3> QED BY <1>3, <3>1 DEF CheckpointInv, CheckpointTypeOK, Snapshot
  <2> QED BY <2>1, <2>2
<1>5. \A d \in Checkpoints : Follows(coordinator.records[d], promised'[d])
  BY Zenon, <1>4 DEF CheckpointInv, AcknowledgedIsDurable, Follows
<1>6. coordinator.revision \in Nat
  BY DEF CheckpointInv, CheckpointTypeOK
<1>7. /\ Synced(p) \in StoreRecord /\ Synced(p).revision <= coordinator.revision
      /\ Synced(p).open /\ ~Synced(p).poisoned => Synced(p).records = coordinator.records
  BY ZenonT(30), <1>6, SyncedFacts, AtMostItself
<1>8. /\ coordinator' \in [fence : Nat, live : BOOLEAN, revision : Nat, records : Snapshot]
      /\ claims' \in [Writers -> {NoClaim} \cup HeldClaim] /\ admissions' \in Nat
  BY <1>1 DEF CheckpointInv, CheckpointTypeOK
<1> QED BY Zenon, <1>1, <1>2, <1>4, <1>5, <1>7, <1>8, StoreStep

\* An operation that goes on to publish.
LEMMA PublishesInv ==
    ASSUME CheckpointInv, NEW p \in Writers, NEW c \in Checkpoints, NEW records \in Snapshot,
           NEW what \in {"save", "claim", "run", "commit", "cancel"},
           Usable(p), Publishes(p, c, records, what), admissions' \in Nat,
           \A d \in Checkpoints : Follows(records[d], coordinator.records[d]),
           what = "claim" => coordinator.records[c].state = "persisted" /\ records[c].state = "claimed"
    PROVE  CheckpointInv'
<1> DEFINE op == [to |-> what, checkpoint |-> c, records |-> records]
<1>1. /\ op \in Publication /\ op.to = what /\ op.checkpoint = c /\ op.records = records
  BY Zenon DEF Publication
<1>2. store[p].open /\ ~store[p].poisoned
  BY Zenon DEF Usable, Begins
<1>3. /\ store' = [store EXCEPT ![p] = Synced(p)]
      /\ publishing' = [publishing EXCEPT ![p] = op]
      /\ UNCHANGED <<coordinator, claims, admitted, promised>>
  BY Zenon DEF Publishes
<1> HIDE DEF op
<1>4. /\ coordinator' \in [fence : Nat, live : BOOLEAN, revision : Nat, records : Snapshot]
      /\ claims' \in [Writers -> {NoClaim} \cup HeldClaim] /\ promised' \in Snapshot
      /\ coordinator.revision \in Nat
      /\ \A d \in Checkpoints : Follows(coordinator.records[d], promised'[d])
  BY Zenon, <1>3 DEF CheckpointInv, CheckpointTypeOK, AcknowledgedIsDurable
<1>5. /\ Synced(p) \in StoreRecord /\ Synced(p).revision <= coordinator.revision
      /\ Synced(p).open /\ ~Synced(p).poisoned /\ Synced(p).records = coordinator.records
  BY ZenonT(30), <1>2, <1>4, SyncedFacts, AtMostItself
<1>6. Advances(op, Synced(p).records)
  BY Zenon, <1>1, <1>5 DEF Advances
<1> QED BY Zenon, <1>1, <1>3, <1>4, <1>5, <1>6, StoreStep

\* A usable store has, once synchronised, the coordinator's records.
LEMMA UsableFacts ==
    ASSUME CheckpointInv, NEW p \in Writers, Usable(p)
    PROVE  /\ Synced(p).records = coordinator.records /\ coordinator.records \in Snapshot
           /\ Begins(p) /\ admissions \in Nat
BY SyncedFacts DEF Usable, Begins, CheckpointInv, CheckpointTypeOK

\* One record is replaced by one that follows it.
LEMMA OneFollows ==
    ASSUME NEW old \in Snapshot, NEW c \in Checkpoints, NEW r \in CheckpointRecord, Follows(r, old[c])
    PROVE  /\ [old EXCEPT ![c] = r] \in Snapshot /\ [old EXCEPT ![c] = r][c] = r
           /\ \A d \in Checkpoints : Follows([old EXCEPT ![c] = r][d], old[d])
BY DEF Snapshot, Follows

\* A held claim is for a checkpoint.
LEMMA HeldFacts ==
    ASSUME CheckpointInv, NEW p \in Writers, claims[p] # NoClaim
    PROVE  claims[p].on \in Checkpoints
<1>1. claims[p] \in HeldClaim
  BY DEF CheckpointInv, CheckpointTypeOK
<1> QED BY Zenon, <1>1 DEF HeldClaim

\* A new checkpoint is on its way to the file.
LEMMA SaveInv ==
    ASSUME CheckpointInv, NEW p \in Writers, NEW c \in Checkpoints, SaveCheckpoint(p, c)
    PROVE  CheckpointInv'
<1>1. CASE Answers(p, c)
  BY Zenon, <1>1, AnswersInv, UsableFacts DEF SaveCheckpoint
<1>2. CASE ~Answers(p, c)
  <2>1. /\ Usable(p) /\ Synced(p).records = coordinator.records /\ coordinator.records \in Snapshot
        /\ coordinator.records[c].state = "absent"
        /\ Publishes(p, c, [coordinator.records EXCEPT ![c] = Saved], "save") /\ admissions' \in Nat
    BY Zenon, <1>2, UsableFacts DEF SaveCheckpoint
  <2>2. Follows(Saved, coordinator.records[c])
    BY Zenon, <2>1 DEF Follows
  <2> QED BY Zenon, <2>1, <2>2, SnapshotFacts, OneFollows, PublishesInv
<1> QED BY <1>1, <1>2

\* A claim is on its way to the file, and its attempt is fresh.
LEMMA ClaimInv ==
    ASSUME CheckpointInv, NEW p \in Writers, NEW c \in Checkpoints, ClaimResume(p, c)
    PROVE  CheckpointInv'
<1>1. CASE Answers(p, c)
  BY Zenon, <1>1, AnswersInv, UsableFacts DEF ClaimResume
<1>2. CASE ~Answers(p, c)
  <2> DEFINE r == [state |-> "claimed", generation |-> coordinator.records[c].generation + 1,
                   attempt |-> admissions + 1]
  <2>1. /\ Usable(p) /\ coordinator.records \in Snapshot /\ admissions \in Nat
        /\ coordinator.records[c].state = "persisted"
        /\ Publishes(p, c, [coordinator.records EXCEPT ![c] = r], "claim") /\ admissions' = admissions + 1
    BY Zenon, <1>2, UsableFacts DEF ClaimResume
  <2>2. coordinator.records[c].generation \in Nat
    BY Zenon, <2>1 DEF Snapshot, CheckpointRecord, OpenRecord, DoneRecord
  <2>3. r \in CheckpointRecord /\ r.state = "claimed"
    BY ZenonT(30), <2>1, <2>2, Successor DEF CheckpointRecord, OpenRecord
  <2> HIDE DEF r
  <2>4. Follows(r, coordinator.records[c])
    BY Zenon, <2>1, <2>3 DEF Follows
  <2> DEFINE records == [coordinator.records EXCEPT ![c] = r]
  <2>5. /\ records \in Snapshot /\ records[c] = r
        /\ \A d \in Checkpoints : Follows(records[d], coordinator.records[d])
    BY Zenon, <2>1, <2>3, <2>4, OneFollows
  <2>6. admissions' \in Nat /\ Publishes(p, c, records, "claim")
    BY <2>1
  <2> HIDE DEF records
  <2> QED BY Zenon, <2>1, <2>3, <2>5, <2>6, PublishesInv
<1> QED BY Zenon, <1>1, <1>2

\* Only the owner of the claim marks it running.
LEMMA MarkInv ==
    ASSUME CheckpointInv, NEW p \in Writers, MarkRunning(p)
    PROVE  CheckpointInv'
<1> DEFINE c == claims[p].on
<1>1. Usable(p) /\ c \in Checkpoints
  BY Zenon, HeldFacts DEF MarkRunning
<1>2. CASE Answers(p, c)
  BY Zenon, <1>1, <1>2, AnswersInv, UsableFacts
<1>3. CASE ~Answers(p, c)
  <2> DEFINE r == coordinator.records[c]
             running == IF r.state = "running" THEN r
                        ELSE [state |-> "running", generation |-> r.generation + 1, attempt |-> r.attempt]
  <2>1. /\ coordinator.records \in Snapshot /\ admissions' \in Nat
        /\ r.state \in {"claimed", "running"}
        /\ Publishes(p, c, [coordinator.records EXCEPT ![c] = running], "run")
    <3>1. Synced(p).records = coordinator.records /\ coordinator.records \in Snapshot /\ admissions \in Nat
      BY <1>1, UsableFacts
    <3>2. /\ Owns(Synced(p), claims[p]) /\ r.state # "completed" /\ UNCHANGED admissions
          /\ Publishes(p, c, [coordinator.records EXCEPT ![c] = running], "run")
      BY <1>3, <3>1, Zenon DEF MarkRunning
    <3> QED BY Zenon, <3>1, <3>2 DEF Owns
  <2>2. r \in OpenRecord
    BY Zenon, <1>1, <2>1 DEF Snapshot, CheckpointRecord, DoneRecord
  <2>3. running \in CheckpointRecord /\ running.state = "running" /\ running.attempt = r.attempt
    <3> HIDE DEF r
    <3>1. CASE r.state = "running"
      BY <2>2, <3>1 DEF CheckpointRecord
    <3>2. CASE r.state # "running"
      BY <2>2, <3>2 DEF CheckpointRecord, OpenRecord
    <3> QED BY Zenon, <3>1, <3>2
  <2>4. Follows(running, r)
    <3> HIDE DEF r
    <3>1. r.state = "running" => running = r
      OBVIOUS
    <3> QED BY Zenon, <2>1, <2>3, <3>1 DEF Follows
  <2> HIDE DEF running, c
  <2> QED BY ZenonT(60), <1>1, <2>1, <2>3, <2>4, OneFollows, PublishesInv
<1> QED BY <1>2, <1>3

\* A cancelled checkpoint is on its way to the file.
LEMMA CancelInv ==
    ASSUME CheckpointInv, NEW p \in Writers, NEW c \in Checkpoints, CancelCheckpoint(p, c)
    PROVE  CheckpointInv'
<1>1. CASE Answers(p, c)
  BY <1>1, AnswersInv, UsableFacts DEF CancelCheckpoint
<1>2. CASE ~Answers(p, c)
  <2> DEFINE r == coordinator.records[c]
             canceled == [r EXCEPT !.state = "canceled"]
  <2>1. /\ Usable(p) /\ coordinator.records \in Snapshot /\ admissions' \in Nat
        /\ r.state \in {"persisted", "canceled"}
        /\ Publishes(p, c, [coordinator.records EXCEPT ![c] = canceled], "cancel")
    BY <1>2, UsableFacts DEF CancelCheckpoint
  <2>2. r \in OpenRecord
    BY <2>1 DEF Snapshot, CheckpointRecord, DoneRecord
  <2>3. canceled \in CheckpointRecord /\ canceled.state = "canceled" /\ (r.state = "canceled" => canceled = r)
    BY <2>2 DEF CheckpointRecord, OpenRecord
  <2>4. Follows(canceled, r)
    BY <2>1, <2>3 DEF Follows
  <2> HIDE DEF canceled
  <2> QED BY Zenon, <2>1, <2>3, <2>4, OneFollows, PublishesInv
<1> QED BY <1>1, <1>2

\* Only the owner of the claim commits its result.
LEMMA ResultInv ==
    ASSUME CheckpointInv, NEW p \in Writers, NEW result \in Outcomes \cup {"paused"},
           NEW next \in SUBSET Checkpoints, CommitResumeResult(p, result, next)
    PROVE  CheckpointInv'
<1> DEFINE c == claims[p].on
<1>1. Usable(p) /\ c \in Checkpoints
  BY Zenon, HeldFacts DEF CommitResumeResult
<1>2. CASE Answers(p, c)
  BY Zenon, <1>1, <1>2, AnswersInv, UsableFacts
<1>3. CASE ~Answers(p, c)
  <2> DEFINE old == coordinator.records
             r == old[c]
             again == r.state = "completed" /\ r.result = result /\ r.successor = next
             first == /\ r.state \in {"claimed", "running"}
                      /\ c \notin Synced(p).recovered
                      /\ \A d \in next : /\ old[d].state = "absent"
                                         /\ Cardinality(Stored(old)) < CheckpointRoom
             done == Completed(r, result, next)
             records == IF again THEN old
                        ELSE [d \in Checkpoints |-> IF d = c THEN done ELSE IF d \in next THEN Saved ELSE old[d]]
  <2>1. Synced(p).records = old /\ old \in Snapshot /\ admissions \in Nat
    BY Zenon, <1>1, UsableFacts
  <2>2. (again \/ first) /\ Publishes(p, c, records, "commit") /\ UNCHANGED admissions
    BY <1>3, <2>1, Zenon DEF CommitResumeResult
  <2>3. r \in CheckpointRecord
    BY ZenonT(60), <1>1, <2>1 DEF Snapshot
  <2> HIDE DEF c
  <2>4. done \in CheckpointRecord /\ done.state = "completed" /\ done.attempt = r.attempt
    BY <2>3 DEF Completed, CheckpointRecord, OpenRecord, DoneRecord
  <2> HIDE DEF r, done
  <2>5. records \in Snapshot /\ \A d \in Checkpoints : Follows(records[d], old[d])
    <3>1. CASE again
      BY Zenon, <2>1, <3>1 DEF Follows
    <3>2. CASE ~again
      <4>1. records = [d \in Checkpoints |-> IF d = c THEN done ELSE IF d \in next THEN Saved ELSE old[d]]
        BY Zenon, <3>2
      <4>2. r.state \in {"claimed", "running"} /\ \A d \in next : old[d].state = "absent"
        BY Zenon, <2>2, <3>2
      <4> HIDE DEF records, again, first
      <4>3. Follows(done, r)
        BY Zenon, <2>4, <4>2 DEF Follows
      <4>4. \A d \in next : Follows(Saved, old[d])
        BY Zenon, <4>2 DEF Follows
      <4>5. records \in Snapshot
        BY Zenon, <2>1, <2>4, <4>1, SnapshotFacts DEF Snapshot
      <4>6. \A d \in Checkpoints : Follows(old[d], old[d])
        BY Zenon DEF Follows
      <4> QED BY Zenon, <4>1, <4>3, <4>4, <4>5, <4>6 DEF r
    <3> QED BY Zenon, <3>1, <3>2
  <2> HIDE DEF records
  <2> QED BY Zenon, <1>1, <2>1, <2>2, <2>5, PublishesInv
<1> QED BY Zenon, <1>2, <1>3

-----------------------------------------------------------------------------
\* The compare-and-swap lets through only what follows the coordinator's records.
LEMMA FencedFacts ==
    ASSUME CheckpointInv, NEW p \in Writers, publishing[p] # NotPublishing, Fenced(p)
    PROVE  publishing[p] \in Publication /\ Advances(publishing[p], coordinator.records)
BY Zenon DEF CheckpointInv, CheckpointTypeOK, PublicationsAdvance, CurrentStoreAgrees, Fenced

\* A publication reaches the coordinator's file.
LEMMA PublishedStep ==
    ASSUME CheckpointInv, NEW p \in Writers, NEW s \in StoreRecord,
           publishing[p] # NotPublishing, Fenced(p), PublishedBy(p),
           store' = [store EXCEPT ![p] = s],
           publishing' = [publishing EXCEPT ![p] = NotPublishing],
           claims' \in [Writers -> {NoClaim} \cup HeldClaim], UNCHANGED admissions, promised' \in Snapshot,
           \A c \in Checkpoints : promised'[c] \in {promised[c], publishing[p].records[c]},
           \/ UNCHANGED admitted
           \/ /\ publishing[p].to = "claim"
              /\ admitted' = admitted \cup
                    {<<publishing[p].checkpoint, publishing[p].records[publishing[p].checkpoint].attempt>>},
           s.revision <= coordinator.revision + 1,
           s.open => s.records = publishing[p].records
    PROVE  CheckpointInv'
<1> DEFINE op == publishing[p]
<1>1. op \in Publication /\ Advances(op, coordinator.records)
  BY Zenon, FencedFacts
<1>2. /\ op.records \in Snapshot /\ op.checkpoint \in Checkpoints
      /\ \A c \in Checkpoints : op.records[c].attempt \in Nat
  BY Zenon, <1>1 DEF Publication, Snapshot, CheckpointRecord, OpenRecord, DoneRecord
<1>3. /\ coordinator' \in [fence : Nat, live : BOOLEAN, revision : Nat, records : Snapshot]
      /\ coordinator'.revision = coordinator.revision + 1 /\ coordinator'.records = op.records
      /\ coordinator.revision \in Nat
  <2>1. coordinator \in [fence : Nat, live : BOOLEAN, revision : Nat, records : Snapshot]
    BY Zenon DEF CheckpointInv, CheckpointTypeOK
  <2>2. coordinator.revision \in Nat /\ coordinator.revision + 1 \in Nat
    BY ZenonT(30), <2>1, Successor
  <2>3. coordinator' = [coordinator EXCEPT !.revision = coordinator.revision + 1, !.records = op.records]
    BY DEF PublishedBy
  <2> HIDE DEF op
  <2> QED BY Zenon, <1>2, <2>1, <2>2, <2>3
<1>4. /\ store'[p] = s /\ \A q \in Writers \ {p} : store'[q] = store[q]
      /\ publishing'[p] = NotPublishing /\ \A q \in Writers \ {p} : publishing'[q] = publishing[q]
  BY Zenon DEF CheckpointInv, CheckpointTypeOK
<1> HIDE DEF op
<1>5. \A q \in Writers : store[q].revision \in Nat /\ store[q].revision <= coordinator.revision
  BY Zenon DEF CheckpointInv, RevisionsArePast, CheckpointTypeOK, StoreRecord
<1>50. \A q \in Writers : store[q].revision # coordinator.revision + 1 /\ store[q].revision <= coordinator.revision + 1
  BY ZenonT(30), <1>3, <1>5, BelowSuccessor
<1>6. CheckpointTypeOK'
  <2>1. admitted' \subseteq Checkpoints \X Nat
    <3>1. admitted \subseteq Checkpoints \X Nat
      BY Zenon DEF CheckpointInv, CheckpointTypeOK
    <3>2. <<op.checkpoint, op.records[op.checkpoint].attempt>> \in Checkpoints \X Nat
      BY Zenon, <1>2
    <3> QED BY Zenon, <3>1, <3>2 DEF op
  <2> QED BY Zenon, <1>3, <2>1 DEF CheckpointInv, CheckpointTypeOK
<1>7. CurrentStoreAgrees'
  BY Zenon, <1>3, <1>4, <1>50 DEF CurrentStoreAgrees, op
<1>8. RevisionsArePast'
  <2>1. \A q \in Writers : store'[q].revision <= coordinator.revision + 1
    BY Zenon, <1>4, <1>50
  <2> QED BY Zenon, <1>3, <2>1 DEF RevisionsArePast
<1>9. PublicationsAdvance'
  BY ZenonT(60), <1>4 DEF CheckpointInv, PublicationsAdvance, Advances
<1>10. \A c \in Checkpoints : Follows(op.records[c], coordinator.records[c])
  BY Zenon, <1>1 DEF Advances
<1>11. AcknowledgedIsDurable'
  <2>1. \A c \in Checkpoints : Follows(op.records[c], promised[c]) /\ Follows(op.records[c], op.records[c])
    <3>1. \A c \in Checkpoints : Follows(coordinator.records[c], promised[c])
      BY Zenon DEF CheckpointInv, AcknowledgedIsDurable
    <3>2. \A c \in Checkpoints : Follows(op.records[c], op.records[c])
      BY Zenon DEF Follows
    <3> QED BY Zenon, <1>10, <3>1, <3>2, FollowsTransitive
  <2> QED BY Zenon, <1>3, <2>1 DEF AcknowledgedIsDurable, op
<1>12. ClaimsStand'
  <2>1. ASSUME NEW x \in admitted
        PROVE  /\ op.records[x[1]].state \in {"claimed", "running", "completed"}
               /\ op.records[x[1]].attempt = x[2]
    <3>1. /\ x[1] \in Checkpoints
          /\ coordinator.records[x[1]].state \in {"claimed", "running", "completed"}
          /\ coordinator.records[x[1]].attempt = x[2]
      BY Zenon, <2>1 DEF CheckpointInv, CheckpointTypeOK, ClaimsStand
    <3> QED BY Zenon, <1>10, <3>1 DEF Follows
  <2>2. op.to = "claim" => op.records[op.checkpoint].state = "claimed"
    BY Zenon, <1>1 DEF Advances
  <2>3. ASSUME NEW x \in admitted', x \notin admitted
        PROVE  op.records[x[1]].state = "claimed" /\ op.records[x[1]].attempt = x[2]
    <3>1. op.to = "claim" /\ x = <<op.checkpoint, op.records[op.checkpoint].attempt>>
      BY Zenon, <2>3 DEF op
    <3> QED BY Zenon, <2>2, <3>1
  <2> QED BY Zenon, <1>3, <2>1, <2>3 DEF ClaimsStand
<1> QED BY Zenon, <1>6, <1>7, <1>8, <1>9, <1>11, <1>12 DEF CheckpointInv

\* What is on its way comes to the file and is acknowledged.
LEMMA PublishSucceedsInv ==
    ASSUME CheckpointInv, NEW p \in Writers, PublishSucceeds(p)
    PROVE  CheckpointInv'
<1> DEFINE op == publishing[p]
           c == op.checkpoint
           s == [store[p] EXCEPT !.records = op.records, !.revision = coordinator.revision + 1,
                                 !.recovered = store[p].recovered \cap Unresolved(op.records)]
           claim == [on |-> c, attempt |-> op.records[c].attempt, generation |-> op.records[c].generation]
<1>1. op # NotPublishing /\ Fenced(p) /\ PublishedBy(p)
  BY DEF PublishSucceeds
<1>2. op \in Publication
  BY Zenon, <1>1, FencedFacts
<1>3. /\ op.records \in Snapshot /\ c \in Checkpoints
      /\ op.records[c].attempt \in Nat /\ op.records[c].generation \in Nat
  BY Zenon, <1>2 DEF Publication, Snapshot, CheckpointRecord, OpenRecord, DoneRecord
<1>4. /\ store' = [store EXCEPT ![p] = s]
      /\ publishing' = [publishing EXCEPT ![p] = NotPublishing]
      /\ claims' = [claims EXCEPT ![p] = IF op.to \in {"claim", "run", "commit"} THEN claim ELSE @]
      /\ promised' = [promised EXCEPT ![c] = op.records[c]]
      /\ UNCHANGED admissions
      /\ admitted' = IF op.to = "claim" THEN admitted \cup {<<c, op.records[c].attempt>>} ELSE admitted
  BY Zenon DEF PublishSucceeds
<1>5. claim \in HeldClaim
  BY Zenon, <1>3 DEF HeldClaim
<1>6. /\ store[p] \in StoreRecord /\ coordinator.revision \in Nat
  BY DEF CheckpointInv, CheckpointTypeOK
<1>7. s \in StoreRecord /\ s.revision = coordinator.revision + 1 /\ s.records = op.records
  <2>1. store[p].recovered \cap Unresolved(op.records) \in SUBSET Checkpoints
    BY Zenon DEF Unresolved
  <2>2. coordinator.revision + 1 \in Nat
    BY <1>6
  <2> HIDE DEF op
  <2> QED BY Zenon, <1>3, <1>6, <2>1, <2>2 DEF StoreRecord
<1> HIDE DEF s, claim
<1>8. claims' \in [Writers -> {NoClaim} \cup HeldClaim]
  BY Zenon, <1>4, <1>5 DEF CheckpointInv, CheckpointTypeOK
<1>9. promised' \in Snapshot /\ \A d \in Checkpoints : promised'[d] \in {promised[d], op.records[d]}
  BY Zenon, <1>3, <1>4 DEF CheckpointInv, CheckpointTypeOK, Snapshot
<1>10. s.revision <= coordinator.revision + 1
  <2>1. coordinator.revision + 1 <= coordinator.revision + 1
    BY ZenonT(30), <1>6, Successor, AtMostItself
  <2> QED BY Zenon, <1>7, <2>1
<1> QED BY Zenon, <1>1, <1>4, <1>7, <1>8, <1>9, <1>10, PublishedStep

\* The parts of the state a step of the coordinator or a host leaves alone.
LEMMA TypeFacts ==
    ASSUME CheckpointInv
    PROVE  /\ coordinator \in [fence : Nat, live : BOOLEAN, revision : Nat, records : Snapshot]
           /\ coordinator.fence \in Nat /\ coordinator.revision \in Nat /\ coordinator.records \in Snapshot
           /\ \A p \in Writers : store[p] \in StoreRecord /\ store[p].revision <= coordinator.revision
           /\ claims \in [Writers -> {NoClaim} \cup HeldClaim]
           /\ admissions \in Nat /\ promised \in Snapshot
           /\ \A c \in Checkpoints : Follows(coordinator.records[c], promised[c])
BY DEF CheckpointInv, CheckpointTypeOK, RevisionsArePast, AcknowledgedIsDurable

\* A failed write is not acknowledged, and the store takes no more.
LEMMA PublishFailsInv ==
    ASSUME CheckpointInv, NEW p \in Writers, PublishFails(p)
    PROVE  CheckpointInv'
<1> DEFINE records == IF publishing[p].to = "save" THEN store[p].records ELSE publishing[p].records
           s == [store[p] EXCEPT !.poisoned = TRUE, !.records = records]
<1>1. publishing[p] \in Publication
  BY DEF PublishFails, CheckpointInv, CheckpointTypeOK
<1>2. store[p] \in StoreRecord
  BY Zenon, TypeFacts
<1>3. records \in Snapshot
  BY Zenon, <1>1, <1>2 DEF Publication, StoreRecord
<1>4. /\ store' = [store EXCEPT ![p] = s] /\ publishing' = [publishing EXCEPT ![p] = NotPublishing]
      /\ UNCHANGED <<coordinator, claims, admissions, admitted, promised>>
  BY DEF PublishFails
<1> HIDE DEF records
<1>5. s \in StoreRecord /\ s.poisoned /\ s.revision = store[p].revision
  BY Zenon, <1>2, <1>3 DEF StoreRecord
<1> HIDE DEF s
<1> QED BY Zenon, <1>4, <1>5, TypeFacts, StoreStep

\* A crash loses what was on its way; the file may have it or not.
LEMMA StoreCrashInv ==
    ASSUME CheckpointInv, NEW p \in Writers, CrashWriter(p)
    PROVE  CheckpointInv'
<1>1. /\ store' = [store EXCEPT ![p] = ClosedStore] /\ publishing' = [publishing EXCEPT ![p] = NotPublishing]
      /\ claims' = [claims EXCEPT ![p] = NoClaim] /\ UNCHANGED <<admissions, admitted, promised>>
  BY DEF CrashWriter
<1>2. /\ claims' \in [Writers -> {NoClaim} \cup HeldClaim] /\ admissions' \in Nat /\ promised' \in Snapshot
      /\ \A c \in Checkpoints : Follows(coordinator.records[c], promised'[c])
  BY Zenon, <1>1, TypeFacts
<1>3. ClosedStore.revision <= coordinator.revision /\ ClosedStore.revision <= coordinator.revision + 1
  BY TypeFacts, ClosedStoreFacts
<1>4. CASE UNCHANGED coordinator
  BY Zenon, <1>1, <1>2, <1>3, <1>4, TypeFacts, ClosedStoreFacts, StoreStep
<1>5. CASE publishing[p] # NotPublishing /\ Fenced(p) /\ PublishedBy(p)
  <2>1. \A c \in Checkpoints : promised'[c] \in {promised[c], publishing[p].records[c]}
    BY Zenon, <1>1
  <2> QED BY Zenon, <1>1, <1>2, <1>3, <1>5, <2>1, ClosedStoreFacts, PublishedStep
<1> QED BY <1>4, <1>5 DEF CrashWriter

\* A new holder of the lease starts from the file.
LEMMA AcquireInv ==
    ASSUME CheckpointInv, NEW p \in Writers, AcquireLease(p)
    PROVE  CheckpointInv'
<1> DEFINE s == [open |-> TRUE, poisoned |-> FALSE, lease |-> coordinator.fence + 1,
                 revision |-> coordinator.revision, records |-> coordinator.records,
                 recovered |-> Unresolved(coordinator.records)]
<1>1. publishing[p] = NotPublishing
  BY DEF AcquireLease, CheckpointInv, PublicationsAdvance
<1>2. /\ store' = [store EXCEPT ![p] = s]
      /\ coordinator' = [coordinator EXCEPT !.fence = coordinator.fence + 1, !.live = TRUE]
      /\ UNCHANGED <<publishing, claims, admissions, admitted, promised>>
  BY DEF AcquireLease
<1>3. /\ coordinator' \in [fence : Nat, live : BOOLEAN, revision : Nat, records : Snapshot]
      /\ coordinator'.revision = coordinator.revision /\ coordinator'.records = coordinator.records
  <2>1. coordinator.fence + 1 \in Nat
    BY TypeFacts
  <2> QED BY Zenon, <1>2, <2>1, TypeFacts
<1>4. s \in StoreRecord /\ s.revision = coordinator.revision /\ s.records = coordinator.records
  <2>1. Unresolved(coordinator.records) \in SUBSET Checkpoints
    BY DEF Unresolved
  <2>2. coordinator.fence + 1 \in Nat /\ coordinator.revision \in Nat /\ coordinator.records \in Snapshot
    BY ZenonT(30), TypeFacts, Successor
  <2> QED BY Zenon, <2>1, <2>2 DEF StoreRecord
<1> HIDE DEF s
<1>5. publishing' = [publishing EXCEPT ![p] = NotPublishing]
  BY <1>1, <1>2 DEF CheckpointInv, CheckpointTypeOK
<1>6. s.revision <= coordinator.revision
  BY ZenonT(30), <1>4, TypeFacts, AtMostItself
<1> QED BY Zenon, <1>2, <1>3, <1>4, <1>5, <1>6, TypeFacts, StoreStep

\* A closed store has nothing on its way.
LEMMA CloseInv ==
    ASSUME CheckpointInv, NEW p \in Writers, CloseStore(p)
    PROVE  CheckpointInv'
<1>1. /\ store' = [store EXCEPT ![p] = ClosedStore]
      /\ UNCHANGED <<coordinator, publishing, claims, admissions, admitted, promised>>
  BY DEF CloseStore
<1>2. publishing' = [publishing EXCEPT ![p] = NotPublishing]
  BY DEF CloseStore, CheckpointInv, CheckpointTypeOK
<1>3. ClosedStore.revision <= coordinator.revision
  BY TypeFacts, ClosedStoreFacts
<1> QED BY Zenon, <1>1, <1>2, <1>3, TypeFacts, ClosedStoreFacts, StoreStep

\* A lease lapses, a checkpoint expires, or nothing changes.
LEMMA QuietInv ==
    ASSUME CheckpointInv, coordinator' \in [fence : Nat, live : BOOLEAN, revision : Nat, records : Snapshot],
           coordinator'.revision = coordinator.revision, coordinator'.records = coordinator.records,
           UNCHANGED <<store, publishing, claims, admissions, admitted, promised>>
    PROVE  CheckpointInv'
BY ZenonT(60) DEF CheckpointInv, CheckpointTypeOK, CurrentStoreAgrees, RevisionsArePast, PublicationsAdvance, Advances,
       ClaimsStand, AcknowledgedIsDurable

\* The invariant is inductive.
LEMMA CheckpointStepInv == CheckpointInv /\ [CheckpointNext]_checkpointVars => CheckpointInv'
<1> SUFFICES ASSUME CheckpointInv, [CheckpointNext]_checkpointVars PROVE CheckpointInv'
    OBVIOUS
<1>1. CASE UNCHANGED checkpointVars
  BY Zenon, <1>1, QuietInv, TypeFacts DEF checkpointVars
<1>2. CASE LapseLease
  <2>1. coordinator' = [coordinator EXCEPT !.live = FALSE]
    BY Zenon, <1>2 DEF LapseLease
  <2> QED BY Zenon, <1>2, <2>1, QuietInv, TypeFacts DEF LapseLease
<1>3. ASSUME NEW c \in Checkpoints, ExpireCheckpoint(c) PROVE CheckpointInv'
  BY Zenon, <1>3, QuietInv, TypeFacts DEF ExpireCheckpoint
<1>4. ASSUME NEW p \in Writers,
             AcquireLease(p) \/ CloseStore(p) \/ MarkRunning(p) \/ PublishSucceeds(p) \/ PublishFails(p) \/ CrashWriter(p)
      PROVE  CheckpointInv'
  BY <1>4, AcquireInv, CloseInv, MarkInv, PublishSucceedsInv, PublishFailsInv, StoreCrashInv
<1>5. ASSUME NEW p \in Writers, NEW result \in Outcomes, CommitResumeResult(p, result, {})
      PROVE  CheckpointInv'
  BY Zenon, <1>5, ResultInv
<1>6. ASSUME NEW p \in Writers, NEW c \in Checkpoints,
             SaveCheckpoint(p, c) \/ CancelCheckpoint(p, c) \/ ClaimResume(p, c)
                \/ ReadCheckpoint(p, c) \/ CommitResumeResult(p, "paused", {c})
      PROVE  CheckpointInv'
  <2>1. CASE SaveCheckpoint(p, c) \/ CancelCheckpoint(p, c) \/ ClaimResume(p, c)
    BY Zenon, <2>1, SaveInv, CancelInv, ClaimInv
  <2>2. CASE ReadCheckpoint(p, c)
    BY <2>2, AnswersInv DEF ReadCheckpoint
  <2>3. CASE CommitResumeResult(p, "paused", {c})
    BY <2>3, ResultInv
  <2> QED BY Zenon, <1>6, <2>1, <2>2, <2>3
<1> QED BY Zenon, <1>1, <1>2, <1>3, <1>4, <1>5, <1>6 DEF CheckpointNext

-----------------------------------------------------------------------------
(***************************************************************************)
(* What a caller has been told of a checkpoint stays in the coordinator's  *)
(* file (syncCoordinatorLocked, publish, CompareAndSwap).                  *)
(***************************************************************************)
THEOREM CheckpointDurability == CheckpointSpec => []AcknowledgedIsDurable
<1>1. CheckpointInv => AcknowledgedIsDurable
  BY Zenon DEF CheckpointInv
<1> QED BY <1>1, CheckpointInitInv, CheckpointStepInv, PTL DEF CheckpointSpec

(***************************************************************************)
(* One claim is ever given for a checkpoint (ClaimResume).                 *)
(***************************************************************************)
THEOREM CheckpointOneAttempt == CheckpointSpec => []OneAttemptPerCheckpoint
<1>1. CheckpointInv => OneAttemptPerCheckpoint
  <2> SUFFICES ASSUME CheckpointInv, NEW x \in admitted, NEW y \in admitted, x[1] = y[1] PROVE x = y
      BY DEF OneAttemptPerCheckpoint
  <2>1. x \in Checkpoints \X Nat /\ y \in Checkpoints \X Nat
    BY DEF CheckpointInv, CheckpointTypeOK
  <2>2. x[2] = y[2]
    BY DEF CheckpointInv, ClaimsStand
  <2> QED BY <2>1, <2>2
<1> QED BY <1>1, CheckpointInitInv, CheckpointStepInv, PTL DEF CheckpointSpec

(***************************************************************************)
(* A store with the coordinator's revision has its records, so that        *)
(* syncCoordinatorLocked may return before it replaces them.               *)
(***************************************************************************)
THEOREM CheckpointStoresAgree == CheckpointSpec => []CurrentStoreAgrees
<1>1. CheckpointInv => CurrentStoreAgrees
  BY DEF CheckpointInv
<1> QED BY <1>1, CheckpointInitInv, CheckpointStepInv, PTL DEF CheckpointSpec

(***************************************************************************)
(* No write of the coordinator's file takes a checkpoint back: a canceled  *)
(* or completed one stays as it is, a claim keeps its attempt, and nothing *)
(* that was saved is lost, though a writer may have read the file under an *)
(* older lease or die while it publishes (publish, CompareAndSwap).        *)
(***************************************************************************)
CheckpointsGoForward ==
    \A c \in Checkpoints : Follows(coordinator'.records[c], coordinator.records[c])

\* Only a publication that is let through changes a record.
LEMMA CheckpointStepForward == CheckpointInv /\ [CheckpointNext]_checkpointVars => CheckpointsGoForward
<1> SUFFICES ASSUME CheckpointInv, [CheckpointNext]_checkpointVars PROVE CheckpointsGoForward
    OBVIOUS
<1>1. ASSUME coordinator'.records = coordinator.records PROVE CheckpointsGoForward
  BY Zenon, <1>1 DEF CheckpointsGoForward, Follows
<1>2. ASSUME NEW p \in Writers, publishing[p] # NotPublishing, Fenced(p), PublishedBy(p)
      PROVE  CheckpointsGoForward
  <2>1. \A c \in Checkpoints : Follows(publishing[p].records[c], coordinator.records[c])
    BY Zenon, <1>2, FencedFacts DEF Advances
  <2>2. coordinator \in [fence : Nat, live : BOOLEAN, revision : Nat, records : Snapshot]
    BY Zenon, TypeFacts
  <2>3. coordinator'.records = publishing[p].records
    BY <1>2, <2>2 DEF PublishedBy
  <2> QED BY Zenon, <2>1, <2>3 DEF CheckpointsGoForward
<1>3. CASE UNCHANGED coordinator
  BY Zenon, <1>1, <1>3
<1>4. CASE LapseLease
  <2>1. coordinator' = [coordinator EXCEPT !.live = FALSE]
    BY Zenon, <1>4 DEF LapseLease
  <2>2. coordinator'.records = coordinator.records
    BY <2>1, TypeFacts
  <2> QED BY Zenon, <1>1, <2>2
<1>5. ASSUME NEW p \in Writers, AcquireLease(p) PROVE CheckpointsGoForward
  <2>1. coordinator' = [coordinator EXCEPT !.fence = coordinator.fence + 1, !.live = TRUE]
    BY Zenon, <1>5 DEF AcquireLease
  <2>2. coordinator'.records = coordinator.records
    BY <2>1, TypeFacts
  <2> QED BY Zenon, <1>1, <2>2
<1>6. ASSUME NEW p \in Writers, PublishSucceeds(p) \/ CrashWriter(p) PROVE CheckpointsGoForward
  BY Zenon, <1>2, <1>3, <1>6 DEF PublishSucceeds, CrashWriter
<1>7. ASSUME NEW p \in Writers, CloseStore(p) \/ PublishFails(p) PROVE CheckpointsGoForward
  BY Zenon, <1>3, <1>7 DEF CloseStore, PublishFails
<1>8. ASSUME NEW p \in Writers, MarkRunning(p) PROVE CheckpointsGoForward
  BY Zenon, <1>3, <1>8 DEF MarkRunning, Publishes, Answers
<1>9. ASSUME NEW p \in Writers, NEW result, NEW next, CommitResumeResult(p, result, next)
      PROVE  CheckpointsGoForward
  BY Zenon, <1>3, <1>9 DEF CommitResumeResult, Publishes, Answers
<1>10. ASSUME NEW p \in Writers, NEW c \in Checkpoints,
              SaveCheckpoint(p, c) \/ CancelCheckpoint(p, c) \/ ClaimResume(p, c) \/ ReadCheckpoint(p, c)
       PROVE  CheckpointsGoForward
  BY Zenon, <1>3, <1>10 DEF SaveCheckpoint, CancelCheckpoint, ClaimResume, ReadCheckpoint, Publishes, Answers
<1>11. CASE UNCHANGED checkpointVars \/ \E c \in Checkpoints : ExpireCheckpoint(c)
  BY Zenon, <1>3, <1>11 DEF checkpointVars, ExpireCheckpoint
<1> QED BY Zenon, <1>4, <1>5, <1>6, <1>7, <1>8, <1>9, <1>10, <1>11 DEF CheckpointNext

\* The file only ever goes on, for any number of writers, leases and crashes.
THEOREM CheckpointForward == CheckpointSpec => [][CheckpointsGoForward]_checkpointVars
BY CheckpointInitInv, CheckpointStepInv, CheckpointStepForward, PTL DEF CheckpointSpec

-----------------------------------------------------------------------------
(* HistoryLedger *)

Entries == [seq : Nat, body : Bodies]

Journals == [seq : Nat, floor : Nat, events : Seq(Entries)]
Ledgers ==
    [seq : Nat, floor : Nat, records : Seq(Entries), acks : SUBSET [seq : Nat, reference : References]]
Repairs == [at : {"checked", "repaired"}, entry : Entries]

\* An entry that is, or once was, in the journal j.
FromJournal(entry, j) ==
    /\ entry \in Entries
    /\ entry.seq <= j.seq
    /\ \A k \in 1..Len(j.events) : j.events[k].seq = entry.seq => j.events[k] = entry

\* A list that has lost an entry is full.
FullOrWhole(floor, list, retention) == Len(list) <= retention /\ (floor = 0 \/ Len(list) = retention)

JournalOK(j) ==
    /\ j \in Journals
    /\ Contiguous(j, j.events)
    /\ FullOrWhole(j.floor, j.events, JournalRetention)

LedgerOK(l, j) ==
    /\ l \in Ledgers
    /\ Contiguous(l, l.records)
    /\ FullOrWhole(l.floor, l.records, LedgerRetention)
    /\ l.seq <= j.seq
    /\ \A k \in 1..Len(l.records) : FromJournal(l.records[k], j)
    /\ \A ack \in l.acks : ack.seq <= l.seq

\* The entries on their way to the ledger.
WritersOK(appended, repair, j) ==
    /\ appended \in {NoEntry} \cup Entries
    /\ appended # NoEntry => FromJournal(appended, j)
    /\ repair \in {NotRepairing} \cup Repairs
    /\ repair # NotRepairing => FromJournal(repair.entry, j)

\* How far the ledger is behind.
LagOK ==
    /\ ledgerErr \in BOOLEAN /\ forgotten \in Nat
    /\ appending # NoEntry => ~ledgerErr
    /\ journal.seq - ledger.seq <= forgotten + 1
    /\ ~ledgerErr /\ appending = NoEntry => journal.seq - ledger.seq <= forgotten

HistoryInv ==
    /\ JournalOK(journal)
    /\ LedgerOK(ledger, journal)
    /\ WritersOK(appending, repairing, journal)
    /\ LagOK
    /\ ReopensUnlessAckTrimmed

-----------------------------------------------------------------------------
\* What retention leaves of a list with one more entry: a list without a hole that ends at the entry.
RetainedOK(kept, list, entry, retention) ==
    /\ kept.floor \in Nat /\ kept.list \in Seq(Entries)
    /\ \A k \in DOMAIN kept.list : kept.list[k].seq = kept.floor + k
    /\ entry.seq = kept.floor + Len(kept.list)
    /\ FullOrWhole(kept.floor, kept.list, retention)
    /\ \A k \in 1..Len(kept.list) : kept.list[k] = entry \/ \E j \in 1..Len(list) : kept.list[k] = list[j]

\* Adding the next entry to a list keeps it without a hole.
LEMMA RetainedFacts ==
    ASSUME NEW keeper, NEW list \in Seq(Entries), NEW entry \in Entries, NEW retention \in Nat \ {0},
           keeper.floor \in Nat, keeper.seq \in Nat,
           Contiguous(keeper, list), FullOrWhole(keeper.floor, list, retention), entry.seq = keeper.seq + 1
    PROVE  RetainedOK(Retained(keeper, list, entry, retention), list, entry, retention)
<1> DEFINE longer == Append(list, entry)
           kept == Retained(keeper, list, entry, retention)
           Sound == RetainedOK(kept, list, entry, retention)
<1>1. /\ Len(list) \in Nat /\ Len(longer) = Len(list) + 1 /\ longer \in Seq(Entries)
      /\ longer[Len(list) + 1] = entry
      /\ \A k \in 1..Len(list) : longer[k] = list[k]
  OBVIOUS
<1>2. /\ keeper.seq = keeper.floor + Len(list) /\ \A k \in 1..Len(list) : list[k].seq = keeper.floor + k
      /\ Len(list) <= retention /\ (keeper.floor = 0 \/ Len(list) = retention)
  BY DEF Contiguous, FullOrWhole
<1>0. entry.seq = keeper.floor + (Len(list) + 1)
  <2>1. Len(list) \in Nat
    BY <1>1
  <2>2. keeper.seq = keeper.floor + Len(list)
    BY Zenon, <1>2
  <2> QED BY <2>1, <2>2
<1>3. kept = IF Len(longer) > retention
             THEN [floor |-> Head(longer).seq, list |-> Tail(longer)]
             ELSE [floor |-> keeper.floor, list |-> longer]
  BY Zenon DEF Retained
<1>4. Head(longer) = longer[1] /\ longer # <<>>
  BY <1>1
<1> HIDE DEF longer, kept
<1>5. \A k \in 1..Len(longer) : /\ longer[k].seq = keeper.floor + k
                                /\ longer[k] = entry \/ \E j \in 1..Len(list) : longer[k] = list[j]
  <2> TAKE k \in 1..Len(longer)
  <2>1. CASE k \in 1..Len(list)
    BY Zenon, <1>1, <1>2, <2>1
  <2>2. CASE k = Len(list) + 1
    <3>1. entry.seq = keeper.floor + k
      BY <1>0, <2>2
    <3>2. longer[k] = entry
      BY Zenon, <1>1, <2>2
    <3> QED BY Zenon, <3>1, <3>2
  <2>3. k \in 1..Len(list) \/ k = Len(list) + 1
    BY <1>1
  <2> QED BY Zenon, <2>1, <2>2, <2>3
<1>6. ASSUME Len(longer) > retention PROVE Sound
  <2>1. kept.floor = keeper.floor + 1 /\ kept.list = Tail(longer)
    <3>1. kept.floor = Head(longer).seq /\ kept.list = Tail(longer)
      BY Zenon, <1>3, <1>6
    <3>2. 1 \in 1..Len(longer)
      BY <1>1
    <3> QED BY Zenon, <1>4, <1>5, <3>1, <3>2
  <2>0. kept.floor \in Nat
    BY <2>1
  <2>2. /\ kept.list \in Seq(Entries) /\ Len(kept.list) = Len(longer) - 1
        /\ \A k \in 1..Len(kept.list) : kept.list[k] = longer[k + 1] /\ k + 1 \in 1..Len(longer)
    BY <1>1, <1>4, <2>1
  <2>3. \A k \in 1..Len(kept.list) :
            /\ kept.list[k].seq = kept.floor + k
            /\ kept.list[k] = entry \/ \E j \in 1..Len(list) : kept.list[k] = list[j]
    <3> TAKE k \in 1..Len(kept.list)
    <3>1. /\ longer[k + 1].seq = keeper.floor + (k + 1)
          /\ longer[k + 1] = entry \/ \E j \in 1..Len(list) : longer[k + 1] = list[j]
      BY Zenon, <1>5, <2>2
    <3>2. kept.floor + k = keeper.floor + (k + 1)
      BY <2>0, <2>1
    <3>3. kept.list[k] = longer[k + 1]
      BY Zenon, <2>2
    <3> QED BY Zenon, <3>1, <3>2, <3>3
  <2>4. FullOrWhole(kept.floor, kept.list, retention)
    <3>1. /\ Len(list) \in Nat /\ Len(list) <= retention /\ Len(longer) = Len(list) + 1
          /\ Len(longer) > retention /\ Len(kept.list) = Len(longer) - 1
      BY Zenon, <1>1, <1>2, <1>6, <2>2
    <3>2. Len(kept.list) = retention
      BY <3>1
    <3> QED BY <3>2 DEF FullOrWhole
  <2>5. entry.seq = kept.floor + Len(kept.list) /\ kept.floor \in Nat
    <3>1. Len(list) \in Nat /\ Len(longer) = Len(list) + 1 /\ Len(kept.list) = Len(longer) - 1
      BY Zenon, <1>1, <2>2
    <3>2. kept.floor = keeper.floor + 1
      BY Zenon, <2>1
    <3> QED BY <1>0, <2>0, <3>1, <3>2
  <2>6. DOMAIN kept.list = 1..Len(kept.list) /\ kept.list \in Seq(Entries)
    BY <2>2
  <2> QED BY <2>3, <2>4, <2>5, <2>6, Zenon DEF RetainedOK
<1>7. ASSUME ~(Len(longer) > retention) PROVE Sound
  <2>1. kept.floor = keeper.floor /\ kept.list = longer
    BY Zenon, <1>3, <1>7
  <2>2. DOMAIN kept.list = 1..Len(kept.list) /\ kept.list \in Seq(Entries)
    BY <1>1, <2>1
  <2>3. FullOrWhole(kept.floor, kept.list, retention)
    BY <1>1, <1>2, <1>7, <2>1 DEF FullOrWhole
  <2>4. entry.seq = kept.floor + Len(kept.list)
    BY Zenon, <1>0, <1>1, <2>1
  <2>5. \A k \in 1..Len(kept.list) :
            /\ kept.list[k].seq = kept.floor + k
            /\ kept.list[k] = entry \/ \E j \in 1..Len(list) : kept.list[k] = list[j]
    BY Zenon, <1>5, <2>1
  <2>6. kept.floor \in Nat
    BY Zenon, <2>1
  <2> QED BY <2>2, <2>3, <2>4, <2>5, <2>6, Zenon DEF RetainedOK
<1> QED BY Zenon, <1>6, <1>7 DEF kept

\* The numbers in reach.
LEMMA HistoryFacts ==
    ASSUME HistoryInv
    PROVE  /\ journal.seq \in Nat /\ journal.floor \in Nat /\ journal.events \in Seq(Entries)
           /\ ledger.seq \in Nat /\ ledger.floor \in Nat /\ ledger.records \in Seq(Entries)
           /\ ledger.acks \in SUBSET [seq : Nat, reference : References]
           /\ ledger.seq <= journal.seq
           /\ \A k \in 1..Len(journal.events) : journal.events[k].seq = journal.floor + k
           /\ Len(journal.events) \in Nat /\ journal.seq = journal.floor + Len(journal.events)
           /\ forgotten \in Nat
<1>1. /\ journal.seq \in Nat /\ journal.floor \in Nat /\ journal.events \in Seq(Entries)
      /\ Contiguous(journal, journal.events)
  BY DEF HistoryInv, JournalOK, Journals
<1>2. /\ ledger.seq \in Nat /\ ledger.floor \in Nat /\ ledger.records \in Seq(Entries)
      /\ ledger.acks \in SUBSET [seq : Nat, reference : References]
      /\ ledger.seq <= journal.seq
  BY DEF HistoryInv, LedgerOK, Ledgers
<1>3. Len(journal.events) \in Nat /\ DOMAIN journal.events = 1..Len(journal.events)
  BY <1>1
<1> QED BY Zenon, <1>1, <1>2, <1>3 DEF HistoryInv, Contiguous, LagOK

\* Append adds an entry above all that are on their way.
LEMMA JournalGrows ==
    ASSUME HistoryInv, NEW entry \in Entries, entry.seq = journal.seq + 1, NEW j, j = JournalWith(entry)
    PROVE  /\ JournalOK(j) /\ j.seq = journal.seq + 1
           /\ FromJournal(entry, j)
           /\ \A old : FromJournal(old, journal) => FromJournal(old, j)
<1> DEFINE kept == Retained(journal, journal.events, entry, JournalRetention)
<1>1. entry \in Entries /\ entry.seq = journal.seq + 1 /\ journal.seq \in Nat
  BY Zenon, HistoryFacts
<1>2. /\ kept.floor \in Nat /\ kept.list \in Seq(Entries)
      /\ \A k \in DOMAIN kept.list : kept.list[k].seq = kept.floor + k
      /\ entry.seq = kept.floor + Len(kept.list)
      /\ FullOrWhole(kept.floor, kept.list, JournalRetention)
      /\ \A k \in 1..Len(kept.list) :
            kept.list[k] = entry \/ \E i \in 1..Len(journal.events) : kept.list[k] = journal.events[i]
  <2>1. Contiguous(journal, journal.events) /\ FullOrWhole(journal.floor, journal.events, JournalRetention)
    BY DEF HistoryInv, JournalOK
  <2>2. /\ journal.floor \in Nat /\ journal.seq \in Nat /\ journal.events \in Seq(Entries)
        /\ JournalRetention \in Nat \ {0}
    BY Zenon, HistoryFacts, HistoryAssumption
  <2>3. RetainedOK(kept, journal.events, entry, JournalRetention)
    BY Zenon, <1>1, <2>1, <2>2, RetainedFacts
  <2> HIDE DEF kept
  <2> QED BY Zenon, <2>3 DEF RetainedOK
<1>3. j = [seq |-> entry.seq, floor |-> kept.floor, events |-> kept.list]
  BY Zenon DEF JournalWith
<1> HIDE DEF kept
<1>4. JournalOK(j) /\ j.seq = journal.seq + 1 /\ j.events = kept.list
  <2>1. j.seq = entry.seq /\ j.floor = kept.floor /\ j.events = kept.list
    BY <1>3
  <2>2. j \in Journals
    <3>1. entry.seq \in Nat
      BY Zenon, <1>1 DEF Entries
    <3>2. [seq |-> entry.seq, floor |-> kept.floor, events |-> kept.list] \in Journals
      BY Zenon, <1>2, <3>1 DEF Journals
    <3> QED BY Zenon, <1>3, <3>2
  <2> QED BY Zenon, <1>1, <1>2, <2>1, <2>2 DEF JournalOK, Contiguous
<1>5. \A i \in 1..Len(journal.events) : journal.events[i].seq <= journal.seq /\ journal.events[i].seq \in Nat
  <2> TAKE i \in 1..Len(journal.events)
  <2>1. /\ journal.events[i].seq = journal.floor + i /\ journal.seq = journal.floor + Len(journal.events)
        /\ journal.floor \in Nat /\ Len(journal.events) \in Nat
    BY HistoryFacts
  <2> QED BY <2>1
<1>6. FromJournal(entry, j)
  <2>1. \A k \in 1..Len(j.events) : j.events[k].seq = entry.seq => j.events[k] = entry
    <3> SUFFICES ASSUME NEW k \in 1..Len(kept.list), kept.list[k].seq = entry.seq, kept.list[k] # entry
                 PROVE  FALSE
        BY Zenon, <1>4
    <3>1. PICK i \in 1..Len(journal.events) : kept.list[k] = journal.events[i]
      BY Zenon, <1>2
    <3>2. journal.events[i].seq = entry.seq
      BY <3>1
    <3> QED BY <1>1, <1>5, <3>2
  <2>2. entry.seq <= j.seq
    BY ZenonT(30), <1>1, <1>4, Successor, AtMostItself
  <2> QED BY Zenon, <1>1, <2>1, <2>2 DEF FromJournal
<1>7. ASSUME NEW old, FromJournal(old, journal) PROVE FromJournal(old, j)
  <2>1. old \in Entries /\ old.seq \in Nat /\ old.seq <= journal.seq
    BY Zenon, <1>7 DEF FromJournal, Entries
  <2>2. \A k \in 1..Len(j.events) : j.events[k].seq = old.seq => j.events[k] = old
    <3> SUFFICES ASSUME NEW k \in 1..Len(kept.list), kept.list[k].seq = old.seq
                 PROVE  kept.list[k] = old
        BY Zenon, <1>4
    <3>1. kept.list[k] # entry
      BY <1>1, <2>1
    <3>2. PICK i \in 1..Len(journal.events) : kept.list[k] = journal.events[i]
      BY Zenon, <1>2, <3>1
    <3> QED BY Zenon, <1>7, <3>2 DEF FromJournal
  <2>3. old.seq <= j.seq
    BY <1>1, <1>4, <2>1
  <2> QED BY Zenon, <2>1, <2>2, <2>3 DEF FromJournal
<1> QED BY Zenon, <1>4, <1>6, <1>7

\* The ledger takes the entry next to its last.
LEMMA LedgerGrows ==
    ASSUME HistoryInv, NEW entry, FromJournal(entry, journal), entry.seq = ledger.seq + 1,
           NEW l, l = LedgerWith(entry)
    PROVE  LedgerOK(l, journal) /\ l.seq = ledger.seq + 1
<1> DEFINE kept == Retained(ledger, ledger.records, entry, LedgerRetention)
<1>1. entry \in Entries /\ entry.seq <= journal.seq
  BY Zenon DEF FromJournal
<1>2. /\ kept.floor \in Nat /\ kept.list \in Seq(Entries)
      /\ \A k \in DOMAIN kept.list : kept.list[k].seq = kept.floor + k
      /\ entry.seq = kept.floor + Len(kept.list)
      /\ FullOrWhole(kept.floor, kept.list, LedgerRetention)
      /\ \A k \in 1..Len(kept.list) :
            kept.list[k] = entry \/ \E i \in 1..Len(ledger.records) : kept.list[k] = ledger.records[i]
  <2>1. Contiguous(ledger, ledger.records) /\ FullOrWhole(ledger.floor, ledger.records, LedgerRetention)
    BY Zenon DEF HistoryInv, LedgerOK
  <2>2. /\ ledger.floor \in Nat /\ ledger.seq \in Nat /\ ledger.records \in Seq(Entries)
        /\ LedgerRetention \in Nat \ {0}
    BY Zenon, HistoryFacts, HistoryAssumption
  <2>3. RetainedOK(kept, ledger.records, entry, LedgerRetention)
    BY Zenon, <1>1, <2>1, <2>2, RetainedFacts
  <2> HIDE DEF kept
  <2> QED BY Zenon, <2>3 DEF RetainedOK
<1>3. l = [seq |-> entry.seq, floor |-> kept.floor, records |-> kept.list, acks |-> ledger.acks]
  BY Zenon DEF LedgerWith
<1> HIDE DEF kept
<1>4. l \in Ledgers /\ l.seq = entry.seq /\ l.floor = kept.floor /\ l.records = kept.list /\ l.acks = ledger.acks
  <2>1. l.seq = entry.seq /\ l.floor = kept.floor /\ l.records = kept.list /\ l.acks = ledger.acks
    BY <1>3
  <2>2. entry.seq \in Nat /\ ledger.acks \in SUBSET [seq : Nat, reference : References]
    BY Zenon, <1>1, HistoryFacts DEF Entries
  <2>3. l \in Ledgers
    <3>1. [seq |-> entry.seq, floor |-> kept.floor, records |-> kept.list, acks |-> ledger.acks] \in Ledgers
      BY Zenon, <1>2, <2>2 DEF Ledgers
    <3> QED BY Zenon, <1>3, <3>1
  <2> QED BY Zenon, <2>1, <2>3
<1>5. Contiguous(l, l.records)
  BY Zenon, <1>2, <1>4 DEF Contiguous
<1>6. \A k \in 1..Len(l.records) : FromJournal(l.records[k], journal)
  BY Zenon, <1>2, <1>4 DEF HistoryInv, LedgerOK
<1>7. \A ack \in l.acks : ack.seq <= l.seq
  <2>1. \A ack \in ledger.acks : ack.seq \in Nat /\ ack.seq <= ledger.seq
    BY Zenon, HistoryFacts DEF HistoryInv, LedgerOK
  <2>2. ledger.seq \in Nat /\ l.seq = ledger.seq + 1 /\ l.acks = ledger.acks
    BY Zenon, <1>4, HistoryFacts
  <2> QED BY ZenonT(30), <2>1, <2>2, BelowSuccessor
<1> QED BY ZenonT(60), <1>1, <1>2, <1>4, <1>5, <1>6, <1>7 DEF LedgerOK

-----------------------------------------------------------------------------
(* One lemma per action *)

\* Nothing is written and nothing is lost.
LEMMA HistoryInitInv == HistoryInit => HistoryInv
<1> SUFFICES ASSUME HistoryInit PROVE HistoryInv
    OBVIOUS
<1>1. /\ journal \in Journals /\ journal.seq = 0 /\ journal.floor = 0 /\ journal.events = <<>>
      /\ ledger \in Ledgers /\ ledger.seq = 0 /\ ledger.floor = 0 /\ ledger.records = <<>> /\ ledger.acks = {}
  <2>1. 0 \in Nat /\ <<>> \in Seq(Entries)
    OBVIOUS
  <2> QED BY Zenon, <2>1 DEF HistoryInit, Journals, Ledgers
<1>2. Contiguous(journal, journal.events) /\ Contiguous(ledger, ledger.records)
  <2>1. Len(<<>>) = 0 /\ (\A k \in DOMAIN <<>> : FALSE) /\ 0 = 0 + 0
    OBVIOUS
  <2> QED BY Zenon, <1>1, <2>1 DEF Contiguous
<1>3. JournalOK(journal) /\ LedgerOK(ledger, journal)
  <2>1. /\ Len(<<>>) <= JournalRetention /\ Len(<<>>) <= LedgerRetention /\ 0 <= 0
        /\ \A k \in 1..Len(<<>>) : FALSE
    BY HistoryAssumption
  <2>2. \A ack \in ledger.acks : FALSE
    BY <1>1
  <2> QED BY Zenon, <1>1, <1>2, <2>1, <2>2 DEF JournalOK, LedgerOK, FullOrWhole
<1>4. WritersOK(appending, repairing, journal) /\ ReopensUnlessAckTrimmed
  BY Zenon DEF HistoryInit, WritersOK, ReopensUnlessAckTrimmed
<1>5. LagOK
  <2>1. ledgerErr = FALSE /\ appending = NoEntry /\ forgotten = 0
    BY Zenon DEF HistoryInit
  <2>2. journal.seq - ledger.seq <= forgotten
    BY <1>1, <2>1
  <2>3. journal.seq - ledger.seq <= forgotten + 1
    BY <1>1, <2>1
  <2> QED BY Zenon, <2>1, <2>2, <2>3 DEF LagOK
<1> QED BY Zenon, <1>3, <1>4, <1>5 DEF HistoryInv

\* The journal is one ahead, which Append may be only when it was not refused.
LEMMA AppendInv ==
    ASSUME HistoryInv, NEW body \in Bodies, AppendEvent(body)
    PROVE  HistoryInv'
<1> DEFINE entry == Entry(journal.seq + 1, body)
<1>1. entry \in Entries /\ entry.seq = journal.seq + 1
  <2>1. journal.seq \in Nat
    BY Zenon, HistoryFacts
  <2> QED BY <2>1 DEF Entry, Entries
<1>2. /\ journal' = JournalWith(entry) /\ appending' = entry
      /\ UNCHANGED <<ledger, ledgerErr, repairing, historyPhase, forgotten>>
      /\ ~ledgerErr /\ appending = NoEntry /\ historyPhase = "up"
  BY DEF AppendEvent, Unlocked
<1> HIDE DEF entry
<1>3. /\ JournalOK(journal') /\ journal'.seq = journal.seq + 1 /\ FromJournal(entry, journal')
      /\ \A old : FromJournal(old, journal) => FromJournal(old, journal')
  BY Zenon, <1>1, <1>2, JournalGrows
<1>4. LedgerOK(ledger, journal')
  <2>1. ledger.seq <= journal'.seq
    <3>1. ledger.seq \in Nat /\ journal.seq \in Nat /\ ledger.seq <= journal.seq
      BY Zenon, HistoryFacts
    <3>2. ledger.seq <= journal.seq + 1
      BY ZenonT(30), <3>1, BelowSuccessor
    <3> QED BY Zenon, <1>3, <3>2
  <2> QED BY Zenon, <1>3, <2>1 DEF HistoryInv, LedgerOK
<1>5. WritersOK(appending', repairing', journal')
  BY Zenon, <1>1, <1>2, <1>3 DEF HistoryInv, WritersOK
<1>6. LagOK'
  <2>1. journal.seq - ledger.seq <= forgotten /\ forgotten \in Nat /\ ledgerErr \in BOOLEAN
    BY ZenonT(60), <1>2 DEF HistoryInv, LagOK
  <2>2. journal'.seq - ledger.seq <= forgotten + 1
    BY <1>3, <2>1, HistoryFacts
  <2>3. appending' # NoEntry
    <3>1. entry.seq # 0
      BY ZenonT(30), <1>1, HistoryFacts, Successor
    <3>2. NoEntry.seq = 0
      BY DEF NoEntry
    <3> QED BY Zenon, <1>2, <3>1, <3>2
  <2> QED BY Zenon, <1>2, <2>1, <2>2, <2>3 DEF LagOK
<1>7. ReopensUnlessAckTrimmed'
  BY Zenon, <1>2 DEF ReopensUnlessAckTrimmed
<1> QED BY <1>2, <1>3, <1>4, <1>5, <1>6, <1>7 DEF HistoryInv

\* The ledger catches up with one event.
LEMMA CommitInv ==
    ASSUME HistoryInv, CommitRetained
    PROVE  HistoryInv'
<1>1. /\ FromJournal(appending, journal) /\ appending.seq = ledger.seq + 1 /\ appending # NoEntry
      /\ ledger' = LedgerWith(appending) /\ appending' = NoEntry
      /\ UNCHANGED <<journal, ledgerErr, repairing, historyPhase, forgotten>> /\ historyPhase = "up"
  BY Zenon DEF CommitRetained, NextRecord, HistoryInv, WritersOK
<1>2. LedgerOK(ledger', journal) /\ ledger'.seq = ledger.seq + 1
  BY Zenon, <1>1, LedgerGrows
<1>3. WritersOK(appending', repairing', journal)
  BY Zenon, <1>1 DEF HistoryInv, WritersOK
<1>4. LagOK'
  <2>1. /\ ledger.seq \in Nat /\ journal.seq \in Nat /\ forgotten \in Nat
        /\ ~ledgerErr /\ ledgerErr \in BOOLEAN /\ journal.seq - ledger.seq <= forgotten + 1
    BY Zenon, <1>1, HistoryFacts DEF HistoryInv, LagOK
  <2>2. journal.seq - ledger'.seq <= forgotten /\ journal.seq - ledger'.seq <= forgotten + 1
    BY <1>2, <2>1
  <2> QED BY Zenon, <1>1, <2>1, <2>2 DEF LagOK
<1>5. ReopensUnlessAckTrimmed'
  <2>1. historyPhase' # "refused"
    BY <1>1
  <2> QED BY Zenon, <2>1 DEF ReopensUnlessAckTrimmed
<1> QED BY Zenon, <1>1, <1>2, <1>3, <1>4, <1>5 DEF HistoryInv

\* Append is refused from now on.
LEMMA CommitFailsInv ==
    ASSUME HistoryInv, CommitRetainedFails
    PROVE  HistoryInv'
<1>1. /\ ledgerErr' = TRUE /\ appending' = NoEntry /\ historyPhase' = "up"
      /\ UNCHANGED <<journal, ledger, repairing, forgotten>>
  BY DEF CommitRetainedFails
<1>2. WritersOK(appending', repairing', journal)
  BY Zenon, <1>1 DEF HistoryInv, WritersOK
<1>3. LagOK' /\ ReopensUnlessAckTrimmed'
  BY Zenon, <1>1 DEF HistoryInv, LagOK, ReopensUnlessAckTrimmed
<1> QED BY <1>1, <1>2, <1>3 DEF HistoryInv

\* The event under repair is one of the journal.
LEMMA CheckInv ==
    ASSUME HistoryInv, NEW entry \in Range(journal.events), CheckRepair(entry)
    PROVE  HistoryInv'
<1> DEFINE repair == [at |-> "checked", entry |-> entry]
<1>0. journal.events \in Seq(Entries)
  BY Zenon, HistoryFacts
<1>1. PICK i \in 1..Len(journal.events) : entry = journal.events[i]
  BY <1>0 DEF Range
<1>2. FromJournal(entry, journal)
  <2>1. entry \in Entries
    BY <1>1, HistoryFacts
  <2>2. \A k \in 1..Len(journal.events) : journal.events[k].seq = journal.floor + k
    BY Zenon, HistoryFacts
  <2>3. /\ entry.seq = journal.floor + i /\ journal.floor \in Nat /\ Len(journal.events) \in Nat
        /\ journal.seq = journal.floor + Len(journal.events)
    BY Zenon, <1>1, HistoryFacts
  <2>4. \A k \in 1..Len(journal.events) : journal.events[k].seq = entry.seq => k = i
    BY <2>2, <2>3
  <2>5. entry.seq <= journal.seq
    BY <2>3
  <2> QED BY Zenon, <1>1, <2>1, <2>4, <2>5 DEF FromJournal
<1>3. /\ repairing' = repair /\ UNCHANGED <<journal, ledger, ledgerErr, appending, historyPhase, forgotten>>
      /\ historyPhase = "up"
  BY Zenon DEF CheckRepair, Unlocked
<1>4. repair \in Repairs /\ repair.entry = entry
  BY Zenon, <1>2 DEF Repairs, FromJournal
<1>5. WritersOK(appending', repairing', journal)
  BY Zenon, <1>2, <1>3, <1>4 DEF HistoryInv, WritersOK
<1>6. LagOK' /\ ReopensUnlessAckTrimmed'
  BY Zenon, <1>3 DEF HistoryInv, LagOK, ReopensUnlessAckTrimmed
<1> QED BY Zenon, <1>3, <1>5, <1>6 DEF HistoryInv

\* A repair writes the next record or none.
LEMMA RepairInv ==
    ASSUME HistoryInv, Repair
    PROVE  HistoryInv'
<1> DEFINE repaired == [repairing EXCEPT !.at = "repaired"]
<1>1. /\ repairing \in Repairs /\ FromJournal(repairing.entry, journal)
      /\ UNCHANGED <<journal, ledgerErr, appending, historyPhase, forgotten>> /\ historyPhase = "up"
  <2>1. repairing # NotRepairing
    BY DEF Repair, NotRepairing
  <2> QED BY Zenon, <2>1 DEF Repair, HistoryInv, WritersOK
<1>2. repaired \in Repairs /\ repaired.entry = repairing.entry
  BY <1>1 DEF Repairs
<1>3. repairing' \in {repaired, NotRepairing}
  BY DEF Repair
<1>4. \/ UNCHANGED ledger
      \/ repairing.entry.seq = ledger.seq + 1 /\ ledger' = LedgerWith(repairing.entry)
  BY DEF Repair, NextRecord
<1> HIDE DEF repaired
<1>5. LedgerOK(ledger', journal) /\ ledger.seq <= ledger'.seq /\ ledger'.seq \in Nat
  <2>1. CASE UNCHANGED ledger
    <3>1. ledger.seq \in Nat /\ ledger.seq <= ledger.seq
      BY ZenonT(30), HistoryFacts, AtMostItself
    <3> QED BY Zenon, <2>1, <3>1 DEF HistoryInv
  <2>2. CASE repairing.entry.seq = ledger.seq + 1 /\ ledger' = LedgerWith(repairing.entry)
    <3>1. LedgerOK(ledger', journal) /\ ledger'.seq = ledger.seq + 1
      BY Zenon, <1>1, <2>2, LedgerGrows
    <3>2. ledger.seq + 1 \in Nat /\ ledger.seq <= ledger.seq + 1
      BY ZenonT(30), HistoryFacts, Successor
    <3> QED BY Zenon, <3>1, <3>2
  <2> QED BY Zenon, <1>4, <2>1, <2>2
<1>6. WritersOK(appending', repairing', journal)
  BY Zenon, <1>1, <1>2, <1>3 DEF HistoryInv, WritersOK
<1>7. LagOK' /\ ReopensUnlessAckTrimmed'
  <2>1. /\ journal.seq \in Nat /\ ledger.seq \in Nat /\ forgotten \in Nat /\ ledgerErr \in BOOLEAN
        /\ appending # NoEntry => ~ledgerErr
        /\ journal.seq - ledger.seq <= forgotten + 1
        /\ ~ledgerErr /\ appending = NoEntry => journal.seq - ledger.seq <= forgotten
    BY Zenon, HistoryFacts DEF HistoryInv, LagOK
  <2>2. \A n \in Nat : journal.seq - ledger.seq <= n => journal.seq - ledger'.seq <= n
    BY <1>5, <2>1
  <2>3. LagOK'
    BY ZenonT(30), <1>1, <2>1, <2>2, Successor DEF LagOK
  <2> QED BY Zenon, <1>1, <2>3 DEF ReopensUnlessAckTrimmed
<1> QED BY <1>1, <1>5, <1>6, <1>7 DEF HistoryInv

\* The journal forgets that the ledger is behind, and counts it.
LEMMA ForgetsLag ==
    ASSUME HistoryInv, forgotten' = (IF Behind THEN forgotten + 1 ELSE forgotten),
           ledgerErr' = FALSE, appending' = NoEntry, UNCHANGED <<journal, ledger>>
    PROVE  LagOK'
<1>1. /\ journal.seq \in Nat /\ ledger.seq \in Nat /\ forgotten \in Nat
      /\ journal.seq - ledger.seq <= forgotten + 1
  BY Zenon, HistoryFacts DEF HistoryInv, LagOK
<1>2. forgotten' \in Nat /\ journal.seq - ledger.seq <= forgotten'
  BY <1>1 DEF Behind
<1>3. journal.seq - ledger.seq <= forgotten' + 1
  BY <1>1, <1>2
<1> QED BY Zenon, <1>2, <1>3 DEF LagOK

\* Another repair than the missing one may clear the error.
LEMMA ClearInv ==
    ASSUME HistoryInv, ClearError
    PROVE  HistoryInv'
<1>1. /\ ledgerErr' = FALSE /\ appending = NoEntry /\ repairing' = NotRepairing /\ historyPhase = "up"
      /\ forgotten' = (IF ledgerErr /\ Behind THEN forgotten + 1 ELSE forgotten)
      /\ UNCHANGED <<journal, ledger, appending, historyPhase>>
  BY DEF ClearError, Unlocked
<1>2. LagOK'
  <2>1. CASE ledgerErr
    BY Zenon, <1>1, <2>1, ForgetsLag
  <2>2. CASE ~ledgerErr
    <3>1. /\ forgotten \in Nat /\ journal.seq - ledger.seq <= forgotten
          /\ journal.seq - ledger.seq <= forgotten + 1
      BY <1>1, <2>2 DEF HistoryInv, LagOK
    <3> QED BY Zenon, <1>1, <2>2, <3>1 DEF LagOK
  <2> QED BY <2>1, <2>2
<1>3. WritersOK(appending', repairing', journal)
  BY <1>1 DEF HistoryInv, WritersOK
<1>4. ReopensUnlessAckTrimmed'
  BY Zenon, <1>1 DEF ReopensUnlessAckTrimmed
<1> QED BY <1>1, <1>2, <1>3, <1>4 DEF HistoryInv

\* An acknowledgement is of a record the ledger has.
LEMMA AcknowledgeInv ==
    ASSUME HistoryInv, NEW entry \in Range(ledger.records), NEW reference \in References,
           Acknowledge(entry, reference)
    PROVE  HistoryInv'
<1> DEFINE ack == [seq |-> entry.seq, reference |-> reference]
<1>0. ledger.records \in Seq(Entries)
  BY Zenon, HistoryFacts
<1>1. PICK k \in 1..Len(ledger.records) : entry = ledger.records[k]
  BY <1>0 DEF Range
<1>2. entry.seq \in Nat /\ entry.seq <= ledger.seq
  <2>0. Len(ledger.records) \in Nat /\ DOMAIN ledger.records = 1..Len(ledger.records)
    BY <1>0
  <2>1. entry.seq = ledger.floor + k /\ ledger.floor \in Nat /\ Len(ledger.records) \in Nat
    BY Zenon, <1>1, <2>0, HistoryFacts DEF HistoryInv, LedgerOK, Contiguous
  <2>2. ledger.seq = ledger.floor + Len(ledger.records)
    BY Zenon, HistoryFacts DEF HistoryInv, LedgerOK, Contiguous
  <2> QED BY <2>1, <2>2
<1>3. /\ ledger' = [ledger EXCEPT !.acks = ledger.acks \cup {ack}] /\ historyPhase = "up"
      /\ UNCHANGED <<journal, ledgerErr, appending, repairing, historyPhase, forgotten>>
  BY DEF Acknowledge
<1>4. /\ ledger' \in Ledgers /\ ledger'.acks = ledger.acks \cup {ack} /\ ledger'.seq = ledger.seq
      /\ ledger'.floor = ledger.floor /\ ledger'.records = ledger.records
  BY <1>2, <1>3 DEF HistoryInv, LedgerOK, Ledgers
<1>5. \A a \in ledger'.acks : a.seq <= ledger'.seq
  <2>1. ack.seq <= ledger.seq /\ \A a \in ledger.acks : a.seq <= ledger.seq
    BY Zenon, <1>2 DEF HistoryInv, LedgerOK
  <2> HIDE DEF ack
  <2> QED BY Zenon, <1>4, <2>1
<1>6. LedgerOK(ledger', journal)
  BY Zenon, <1>4, <1>5 DEF HistoryInv, LedgerOK, Contiguous, FullOrWhole
<1>7. LagOK' /\ ReopensUnlessAckTrimmed'
  BY <1>3, <1>4 DEF HistoryInv, LagOK, ReopensUnlessAckTrimmed
<1> QED BY <1>3, <1>6, <1>7 DEF HistoryInv

\* A crash forgets everything that is not on file.
LEMMA CrashInv ==
    ASSUME HistoryInv, CrashHistory
    PROVE  HistoryInv'
<1>1. LagOK'
  BY Zenon, ForgetsLag DEF CrashHistory
<1>2. WritersOK(appending', repairing', journal)
  BY DEF CrashHistory, WritersOK
<1>3. ReopensUnlessAckTrimmed'
  BY Zenon DEF CrashHistory, ReopensUnlessAckTrimmed
<1> QED BY <1>1, <1>2, <1>3 DEF CrashHistory, HistoryInv

\* What the open refuses is an acknowledgement whose record is below the floor:
\* the ledger has every record above it.
LEMMA ReopenInv ==
    ASSUME HistoryInv, Reopen
    PROVE  HistoryInv'
<1>1. UNCHANGED <<journal, ledger, ledgerErr, appending, repairing, forgotten>>
  BY DEF Reopen
<1>2. ReopensUnlessAckTrimmed'
  <2> SUFFICES ASSUME historyPhase' = "refused"
               PROVE  \E ack \in ledger.acks : ack.seq <= ledger.floor
    BY Zenon, <1>1 DEF ReopensUnlessAckTrimmed
  <2>1. PICK ack \in ledger.acks : ~\E k \in DOMAIN ledger.records : ledger.records[k].seq = ack.seq
    BY Zenon DEF Reopen, ValidLedger, HistoryInv, JournalOK, LedgerOK
  <2>2. /\ ack.seq \in Nat /\ ack.seq <= ledger.seq /\ ledger.floor \in Nat
        /\ DOMAIN ledger.records = 1..Len(ledger.records) /\ Len(ledger.records) \in Nat
        /\ ledger.seq = ledger.floor + Len(ledger.records)
    <3>1. /\ ledger.records \in Seq(Entries) /\ ledger.floor \in Nat
          /\ ledger.acks \in SUBSET [seq : Nat, reference : References]
      BY Zenon, HistoryFacts
    <3>2. ack.seq \in Nat
      BY Zenon, <2>1, <3>1
    <3>3. DOMAIN ledger.records = 1..Len(ledger.records) /\ Len(ledger.records) \in Nat
      BY <3>1
    <3> QED BY Zenon, <2>1, <3>1, <3>2, <3>3 DEF HistoryInv, LedgerOK, Contiguous
  <2>3. ~(ack.seq > ledger.floor)
    <3> SUFFICES ASSUME ack.seq > ledger.floor PROVE FALSE
      BY Zenon
    <3>1. ack.seq - ledger.floor \in 1..Len(ledger.records)
      BY <2>2
    <3>2. ledger.records[ack.seq - ledger.floor].seq = ledger.floor + (ack.seq - ledger.floor)
      BY Zenon, <2>2, <3>1 DEF HistoryInv, LedgerOK, Contiguous
    <3>3. ledger.floor + (ack.seq - ledger.floor) = ack.seq
      BY <2>2
    <3> QED BY Zenon, <2>1, <2>2, <3>1, <3>2, <3>3
  <2>4. ack.seq <= ledger.floor
    BY <2>2, <2>3
  <2> QED BY Zenon, <2>4
<1> QED BY Zenon, <1>1, <1>2 DEF HistoryInv, LagOK, WritersOK

-----------------------------------------------------------------------------
\* Every step keeps the invariant.
LEMMA HistoryStepInv == HistoryInv /\ [HistoryNext]_historyVars => HistoryInv'
<1> SUFFICES ASSUME HistoryInv, [HistoryNext]_historyVars PROVE HistoryInv'
    OBVIOUS
<1>1. CASE UNCHANGED <<journal, ledger, ledgerErr, appending, repairing, historyPhase, forgotten>>
  BY Zenon, <1>1 DEF HistoryInv, LagOK, WritersOK, ReopensUnlessAckTrimmed
<1>2. CASE HistoryNext
  <2>1. CASE \E body \in Bodies : AppendEvent(body)
    BY <2>1, AppendInv
  <2>2. CASE AppendEventFails
    BY <1>1, <2>2 DEF AppendEventFails
  <2>3. CASE CommitRetained
    BY Zenon, <2>3, CommitInv
  <2>4. CASE CommitRetainedFails
    BY Zenon, <2>4, CommitFailsInv
  <2>5. CASE \E entry \in Range(journal.events) : CheckRepair(entry)
    BY Zenon, <2>5, CheckInv
  <2>6. CASE Repair
    BY <2>6, RepairInv
  <2>7. CASE ClearError
    BY <2>7, ClearInv
  <2>8. CASE \E entry \in Range(ledger.records), reference \in References : Acknowledge(entry, reference)
    BY Zenon, <2>8, AcknowledgeInv
  <2>9. CASE CrashHistory
    BY <2>9, CrashInv
  <2>10. CASE Reopen
    BY <2>10, ReopenInv
  <2> QED BY ZenonT(60), <1>2, <2>1, <2>2, <2>3, <2>4, <2>5, <2>6, <2>7, <2>8, <2>9, <2>10 DEF HistoryNext
<1> QED BY Zenon, <1>1, <1>2 DEF historyVars

\* The records of the ledger are a stretch of what the journal took, under the
\* journal's numbers, whatever fails between commitRetained and Append.
THEOREM HistoryFollows == HistorySpec => []LedgerFollowsJournal
<1>1. HistoryInv => LedgerFollowsJournal
  <2> SUFFICES ASSUME HistoryInv,
                      NEW record \in Range(ledger.records), NEW event \in Range(journal.events),
                      record.seq = event.seq
               PROVE  record = event
    BY Zenon DEF HistoryInv, LedgerOK, LedgerFollowsJournal
  <2>0. ledger.records \in Seq(Entries) /\ journal.events \in Seq(Entries)
    BY Zenon, HistoryFacts
  <2>1. PICK i \in 1..Len(ledger.records) : record = ledger.records[i]
    BY <2>0 DEF Range
  <2>2. PICK k \in 1..Len(journal.events) : event = journal.events[k]
    BY <2>0 DEF Range
  <2> QED BY Zenon, <2>1, <2>2 DEF HistoryInv, LedgerOK, FromJournal
<1> QED BY <1>1, HistoryInitInv, HistoryStepInv, PTL DEF HistorySpec

\* ReconcileProjection finds the event the ledger misses, for any retention of
\* the journal, until it has forgotten that often that the ledger is behind.
THEOREM HistoryRepair == HistorySpec => []RepairStaysPossible
<1>1. HistoryInv => RepairStaysPossible
  <2> SUFFICES ASSUME HistoryInv, forgotten < JournalRetention PROVE ledger.seq >= journal.floor
    BY DEF RepairStaysPossible
  <2>1. /\ journal.floor = 0 \/ Len(journal.events) = JournalRetention
        /\ journal.seq - ledger.seq <= forgotten + 1 /\ forgotten \in Nat
    BY DEF HistoryInv, JournalOK, FullOrWhole, LagOK
  <2>2. /\ journal.seq \in Nat /\ journal.floor \in Nat /\ ledger.seq \in Nat
        /\ journal.seq = journal.floor + Len(journal.events) /\ Len(journal.events) \in Nat
    BY Zenon, HistoryFacts
  <2>3. JournalRetention \in Nat
    BY Zenon, HistoryAssumption
  <2> QED BY <2>1, <2>2, <2>3
<1> QED BY <1>1, HistoryInitInv, HistoryStepInv, PTL DEF HistorySpec

\* A restart is refused only over an acknowledgement whose record was trimmed.
THEOREM HistoryReopens == HistorySpec => []ReopensUnlessAckTrimmed
<1>1. HistoryInv => ReopensUnlessAckTrimmed
  BY DEF HistoryInv
<1> QED BY <1>1, HistoryInitInv, HistoryStepInv, PTL DEF HistorySpec

(***************************************************************************)
(* Both stores are written once: an entry keeps its number and content for *)
(* as long as it is retained, the sequences never fall, and a repair, a    *)
(* failed write or a restart never withdraws an acknowledgement (Append,   *)
(* commitRetained, reconcileSourceEvent, Acknowledge).                     *)
(***************************************************************************)
HistoryIsWrittenOnce ==
    /\ journal.seq <= journal'.seq /\ ledger.seq <= ledger'.seq
    /\ \A e \in Range(journal.events), f \in Range(journal'.events) : e.seq = f.seq => e = f
    /\ \A e \in Range(ledger.records), f \in Range(ledger'.records) : e.seq = f.seq => e = f
    /\ ledger.acks \subseteq ledger'.acks

\* Entries of one list, which has no hole, are told apart by their numbers.
LEMMA NumbersTellApart ==
    ASSUME NEW keeper, NEW list \in Seq(Entries), keeper.floor \in Nat, Contiguous(keeper, list),
           NEW e \in Range(list), NEW f \in Range(list), e.seq = f.seq
    PROVE  e = f
<1>1. PICK i \in DOMAIN list : e = list[i]
  BY Zenon DEF Range
<1>2. PICK k \in DOMAIN list : f = list[k]
  BY Zenon DEF Range
<1>3. list[i].seq = keeper.floor + i /\ list[k].seq = keeper.floor + k
  BY Zenon, <1>1, <1>2 DEF Contiguous
<1>4. i \in Nat /\ k \in Nat
  BY <1>1, <1>2
<1>5. i = k
  BY <1>1, <1>2, <1>3, <1>4
<1> QED BY Zenon, <1>1, <1>2, <1>5

\* The entries of a list, by their places.
LEMMA RangeOf ==
    ASSUME NEW list \in Seq(Entries), NEW f
    PROVE  /\ Len(list) \in Nat /\ DOMAIN list = 1..Len(list)
           /\ f \in Range(list) <=> \E k \in 1..Len(list) : f = list[k]
BY DEF Range

\* A list without a hole ends before the next number.
LEMMA EndsBefore ==
    ASSUME NEW keeper, NEW list \in Seq(Entries), keeper.floor \in Nat, Contiguous(keeper, list),
           NEW e \in Range(list)
    PROVE  e.seq # keeper.seq + 1
<1>1. PICK i \in 1..Len(list) : e = list[i]
  BY Zenon, RangeOf
<1>2. /\ list[i].seq = keeper.floor + i /\ keeper.seq = keeper.floor + Len(list)
      /\ Len(list) \in Nat
  BY Zenon, <1>1, RangeOf DEF Contiguous
<1> QED BY <1>1, <1>2

\* What is retained of a list with the next entry agrees with the list.
LEMMA RetainedAgrees ==
    ASSUME NEW keeper, NEW list \in Seq(Entries), NEW entry \in Entries, NEW retention \in Nat \ {0},
           keeper.floor \in Nat, keeper.seq \in Nat,
           Contiguous(keeper, list), FullOrWhole(keeper.floor, list, retention), entry.seq = keeper.seq + 1,
           NEW e \in Range(list), NEW f \in Range(Retained(keeper, list, entry, retention).list), e.seq = f.seq
    PROVE  e = f
<1> DEFINE kept == Retained(keeper, list, entry, retention)
<1>1. RetainedOK(kept, list, entry, retention) /\ f \in Range(kept.list)
  BY Zenon, RetainedFacts
<1> HIDE DEF kept
<1>2. kept.list \in Seq(Entries)
  BY Zenon, <1>1 DEF RetainedOK
<1>3. PICK k \in 1..Len(kept.list) : f = kept.list[k]
  BY Zenon, <1>1, <1>2, RangeOf
<1>4. f = entry \/ \E j \in 1..Len(list) : f = list[j]
  BY Zenon, <1>1, <1>3 DEF RetainedOK
<1>5. f = entry \/ f \in Range(list)
  BY Zenon, <1>4, RangeOf
<1>6. f # entry
  BY Zenon, EndsBefore
<1> QED BY Zenon, <1>5, <1>6, NumbersTellApart

\* The journal takes the next entry.
LEMMA JournalWrittenOnce ==
    ASSUME HistoryInv, NEW entry \in Entries, entry.seq = journal.seq + 1, journal' = JournalWith(entry),
           UNCHANGED ledger
    PROVE  HistoryIsWrittenOnce
<1> DEFINE kept == Retained(journal, journal.events, entry, JournalRetention)
<1>1. /\ journal.floor \in Nat /\ journal.seq \in Nat /\ journal.events \in Seq(Entries)
      /\ ledger.floor \in Nat /\ ledger.seq \in Nat /\ ledger.records \in Seq(Entries)
      /\ JournalRetention \in Nat \ {0}
  BY Zenon, HistoryFacts, HistoryAssumption
<1>2. /\ Contiguous(journal, journal.events) /\ FullOrWhole(journal.floor, journal.events, JournalRetention)
      /\ Contiguous(ledger, ledger.records)
  BY Zenon DEF HistoryInv, JournalOK, LedgerOK
<1>3. \A e \in Range(journal.events), f \in Range(kept.list) : e.seq = f.seq => e = f
  BY Zenon, <1>1, <1>2, RetainedAgrees
<1>4. journal' = [seq |-> entry.seq, floor |-> kept.floor, events |-> kept.list]
  BY Zenon DEF JournalWith
<1> HIDE DEF kept
<1>5. journal'.seq = entry.seq /\ journal'.events = kept.list
  BY <1>4
<1>6. \A e, f \in Range(ledger.records) : e.seq = f.seq => e = f
  BY Zenon, <1>1, <1>2, NumbersTellApart
<1>7. ledger.seq <= ledger'.seq /\ journal.seq <= journal'.seq
  BY Zenon, <1>1, <1>5, AtMostItself, Successor
<1> QED BY Zenon, <1>3, <1>5, <1>6, <1>7 DEF HistoryIsWrittenOnce

\* The ledger takes the next entry.
LEMMA LedgerWrittenOnce ==
    ASSUME HistoryInv, NEW entry \in Entries, entry.seq = ledger.seq + 1, ledger' = LedgerWith(entry),
           UNCHANGED journal
    PROVE  HistoryIsWrittenOnce
<1> DEFINE kept == Retained(ledger, ledger.records, entry, LedgerRetention)
<1>1. /\ journal.floor \in Nat /\ journal.seq \in Nat /\ journal.events \in Seq(Entries)
      /\ ledger.floor \in Nat /\ ledger.seq \in Nat /\ ledger.records \in Seq(Entries)
      /\ LedgerRetention \in Nat \ {0}
  BY Zenon, HistoryFacts, HistoryAssumption
<1>2. /\ Contiguous(ledger, ledger.records) /\ FullOrWhole(ledger.floor, ledger.records, LedgerRetention)
      /\ Contiguous(journal, journal.events)
  BY Zenon DEF HistoryInv, JournalOK, LedgerOK
<1>3. \A e \in Range(ledger.records), f \in Range(kept.list) : e.seq = f.seq => e = f
  BY Zenon, <1>1, <1>2, RetainedAgrees
<1>4. ledger' = [seq |-> entry.seq, floor |-> kept.floor, records |-> kept.list, acks |-> ledger.acks]
  BY Zenon DEF LedgerWith
<1> HIDE DEF kept
<1>5. ledger'.seq = entry.seq /\ ledger'.records = kept.list /\ ledger'.acks = ledger.acks
  BY <1>4
<1>6. \A e, f \in Range(journal.events) : e.seq = f.seq => e = f
  BY Zenon, <1>1, <1>2, NumbersTellApart
<1>7. ledger.seq <= ledger'.seq /\ journal.seq <= journal'.seq
  BY Zenon, <1>1, <1>5, AtMostItself, Successor
<1> QED BY Zenon, <1>3, <1>5, <1>6, <1>7 DEF HistoryIsWrittenOnce

\* Two actions write the ledger, one the journal, and one adds an acknowledgement.
LEMMA HistoryStepOnce == HistoryInv /\ [HistoryNext]_historyVars => HistoryIsWrittenOnce
<1> SUFFICES ASSUME HistoryInv, [HistoryNext]_historyVars PROVE HistoryIsWrittenOnce
    OBVIOUS
<1>1. /\ \A e, f \in Range(journal.events) : e.seq = f.seq => e = f
      /\ \A e, f \in Range(ledger.records) : e.seq = f.seq => e = f
  <2>1. /\ journal.floor \in Nat /\ journal.events \in Seq(Entries)
        /\ ledger.floor \in Nat /\ ledger.records \in Seq(Entries)
    BY Zenon, HistoryFacts
  <2>2. Contiguous(journal, journal.events) /\ Contiguous(ledger, ledger.records)
    BY Zenon DEF HistoryInv, JournalOK, LedgerOK
  <2> QED BY Zenon, <2>1, <2>2, NumbersTellApart
<1>2. ASSUME journal' = journal, ledger'.seq = ledger.seq, ledger'.records = ledger.records,
             ledger.acks \subseteq ledger'.acks
      PROVE  HistoryIsWrittenOnce
  BY Zenon, <1>1, <1>2, HistoryFacts, AtMostItself DEF HistoryIsWrittenOnce
<1>3. CASE UNCHANGED <<journal, ledger>>
  BY Zenon, <1>2, <1>3
<1>4. ASSUME NEW body \in Bodies, AppendEvent(body) PROVE HistoryIsWrittenOnce
  <2>1. journal.seq + 1 \in Nat
    BY Zenon, HistoryFacts, Successor
  <2>2. Entry(journal.seq + 1, body) \in Entries /\ Entry(journal.seq + 1, body).seq = journal.seq + 1
    BY <2>1 DEF Entry, Entries
  <2> QED BY Zenon, <1>4, <2>2, JournalWrittenOnce DEF AppendEvent
<1>5. CASE CommitRetained
  BY Zenon, <1>5, LedgerWrittenOnce DEF CommitRetained, NextRecord, HistoryInv, WritersOK, FromJournal
<1>6. CASE Repair
  <2>1. repairing # NotRepairing
    BY <1>6 DEF Repair, NotRepairing
  <2>2. repairing.entry \in Entries
    BY Zenon, <2>1 DEF HistoryInv, WritersOK, FromJournal
  <2> QED BY Zenon, <1>3, <1>6, <2>2, LedgerWrittenOnce DEF Repair, NextRecord
<1>7. ASSUME NEW entry, NEW reference, Acknowledge(entry, reference) PROVE HistoryIsWrittenOnce
  <2>1. ledger' = [ledger EXCEPT !.acks = ledger.acks \cup {[seq |-> entry.seq, reference |-> reference]}]
    BY Zenon, <1>7 DEF Acknowledge
  <2>2. ledger \in Ledgers
    BY Zenon DEF HistoryInv, LedgerOK
  <2>3. /\ ledger'.seq = ledger.seq /\ ledger'.records = ledger.records
        /\ ledger.acks \subseteq ledger'.acks
    BY <2>1, <2>2 DEF Ledgers
  <2> QED BY Zenon, <1>2, <1>7, <2>3 DEF Acknowledge
<1>8. CASE AppendEventFails \/ CommitRetainedFails \/ ClearError \/ CrashHistory \/ Reopen
           \/ \E entry \in Range(journal.events) : CheckRepair(entry)
  BY Zenon, <1>3, <1>8 DEF AppendEventFails, CommitRetainedFails, ClearError, CrashHistory, Reopen, CheckRepair
<1>9. CASE UNCHANGED historyVars
  BY Zenon, <1>3, <1>9 DEF historyVars
<1> QED BY Zenon, <1>4, <1>5, <1>6, <1>7, <1>8, <1>9 DEF HistoryNext

\* No step rewrites history, for any retention of the two stores.
THEOREM HistoryOnce == HistorySpec => [][HistoryIsWrittenOnce]_historyVars
BY HistoryInitInv, HistoryStepInv, HistoryStepOnce, PTL DEF HistorySpec
=============================================================================
