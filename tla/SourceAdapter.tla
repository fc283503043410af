---------------------------- MODULE SourceAdapter ----------------------------
(***************************************************************************)
(* The host's source adapter: host/sourceadapter, adapter.go, state.go and *)
(* file_store.go.  An adapter takes facts from a source, by polling it or  *)
(* from a page that is offered, hands them to a consumer one by one, and   *)
(* keeps in a store how far the consumer has confirmed: a fact is pending  *)
(* in the store before the consumer sees it, and the cursor moves when the *)
(* consumer has answered.  Adapters share a store; its CompareAndSwap is   *)
(* all that keeps them apart.                                              *)
(*                                                                         *)
(* The source and the consumer are external.  A fact is its position in    *)
(* the feed, which is its external id and its next cursor, and the version *)
(* of its content; the source may change a fact.  An operation that is     *)
(* interrupted (a timeout, Dispose, a crash of the process) stops where it *)
(* is; a write of the store may then have been made or not.                *)
(***************************************************************************)
EXTENDS Naturals, Sequences, Functions

CONSTANTS
    Adapters,       \* adapters on one store
    FactCount,      \* how many facts the source produces
    PageLimit,      \* Options.PageLimit
    RecentWindow,   \* MaxRecentReceipts
    MaxRevision,    \* math.MaxUint64, the last revision of the store
    MaxAmends,      \* bound on changed facts
    MaxInterrupts   \* bound on Dispose, interrupted operations and answers to try again

ASSUME AdapterAssumption ==
    /\ PageLimit \in Nat \ {0}
    /\ RecentWindow \in Nat \ {0}

VARIABLES
    feed,         \* the versions of the source's facts
    amends,       \* changed facts so far
    offer,        \* a page the host has taken from the source to offer it
    saved,        \* the state in the store
    operation,    \* per adapter: its operation, with the state and facts it holds
    disposed,     \* per adapter: Dispose has been called
    interrupts,   \* interrupted operations so far
    delivered,    \* ghost: the facts the consumer has been called with
    answered      \* ghost: positions the consumer has answered sent or gone

adapterVars == <<feed, amends, offer, saved, operation, disposed, interrupts, delivered, answered>>

Receipt(id, version) == [id |-> id, version |-> version]
NoReceipt == [id |-> 0]
NoOperation == [at |-> "idle"]

\* Poll: the facts after a cursor, at most PageLimit of them.
PageAfter(cursor) ==
    [after |-> cursor,
     facts |-> [k \in 1..(IF Len(feed) - cursor < PageLimit THEN Len(feed) - cursor ELSE PageLimit) |->
                   Receipt(cursor + k, feed[cursor + k])]]

-----------------------------------------------------------------------------
(* The source and the host *)

Produce ==
    /\ Len(feed) < FactCount
    /\ feed' = Append(feed, 0)
    /\ UNCHANGED <<amends, offer, saved, operation, disposed, interrupts, delivered, answered>>

Amend(id) ==
    /\ amends < MaxAmends
    /\ feed' = [feed EXCEPT ![id] = @ + 1]
    /\ amends' = amends + 1
    /\ UNCHANGED <<offer, saved, operation, disposed, interrupts, delivered, answered>>

TakePage(cursor) ==
    /\ offer' = PageAfter(cursor)
    /\ UNCHANGED <<feed, amends, saved, operation, disposed, interrupts, delivered, answered>>

Dispose(a) ==
    /\ ~disposed[a]
    /\ interrupts < MaxInterrupts
    /\ interrupts' = interrupts + 1
    /\ disposed' = [disposed EXCEPT ![a] = TRUE]
    /\ UNCHANGED <<feed, amends, offer, saved, operation, delivered, answered>>

\* A new adapter on the same store.
NewAdapter(a) ==
    /\ disposed[a]
    /\ operation[a] = NoOperation
    /\ disposed' = [disposed EXCEPT ![a] = FALSE]
    /\ UNCHANGED <<feed, amends, offer, saved, operation, interrupts, delivered, answered>>

-----------------------------------------------------------------------------
(* RunOnce and Offer *)

\* begin and state: an adapter has one operation at a time.
Load(a) ==
    /\ ~disposed[a]
    /\ operation[a] = NoOperation
    /\ operation' = [operation EXCEPT ![a] = [at |-> "loaded", state |-> saved, facts |-> <<>>]]
    /\ UNCHANGED <<feed, amends, offer, saved, disposed, interrupts, delivered, answered>>

\* Mutant of Fits: a page is taken whatever cursor it starts from.
FitsAnywhere(s, page) ==
    /\ \A k \in DOMAIN page.facts, old \in Range(s.recent) :
        old.id = page.facts[k].id => old = page.facts[k]
    /\ s.pending # NoReceipt =>
        \A k \in DOMAIN page.facts :
            k = 1 \/ page.facts[k].id = s.pending.id => page.facts[k] = s.pending

\* page: it starts at the confirmed cursor and contradicts neither a recent
\* receipt nor the pending one, which must come first.
Fits(s, page) ==
    /\ page.after = s.confirmed
    /\ \A k \in DOMAIN page.facts, old \in Range(s.recent) :
        old.id = page.facts[k].id => old = page.facts[k]
    /\ s.pending # NoReceipt =>
        \A k \in DOMAIN page.facts :
            k = 1 \/ page.facts[k].id = s.pending.id => page.facts[k] = s.pending

Take(a, page) ==
    /\ ~disposed[a]
    /\ operation[a].at = "loaded"
    /\ operation' = [operation EXCEPT ![a] =
                        LET s == operation[a].state IN
                        IF Fits(s, page) /\ page.facts # <<>>
                        THEN [at |-> "prepare", state |-> s, facts |-> page.facts]
                        ELSE NoOperation]
    /\ UNCHANGED <<feed, amends, offer, saved, disposed, interrupts, delivered, answered>>

Poll(a) == operation[a].at = "loaded" /\ Take(a, PageAfter(operation[a].state.confirmed))
TakeOffer(a) == Take(a, offer)

\* PrepareReceipt refuses a fact when another is pending, and when the store
\* has no two revisions left, one to prepare it and one to confirm it.
Preparable(s, r) ==
    /\ s.pending \in {NoReceipt, r}
    /\ \A old \in Range(s.recent) : old.id = r.id => old = r
    /\ s.revision + 2 <= MaxRevision

PreparedReceipt(s, r) ==
    [revision |-> s.revision + 1, confirmed |-> s.confirmed, pending |-> r, recent |-> s.recent]

\* Confirm: a receipt that is among the recent ones does not move the cursor.
Confirmed(s) ==
    LET known == \E old \in Range(s.recent) : old.id = s.pending.id
        longer == Append(s.recent, s.pending)
    IN
    [revision |-> s.revision + 1,
     confirmed |-> IF known THEN s.confirmed ELSE s.pending.id,
     pending |-> NoReceipt,
     recent |-> IF known THEN s.recent ELSE IF Len(longer) > RecentWindow THEN Tail(longer) ELSE longer]

\* save: the write goes through when the store has the revision that was loaded.
Save(a, next, then) ==
    IF saved.revision = operation[a].state.revision
    THEN /\ saved' = next
         /\ operation' = [operation EXCEPT ![a] = then]
    ELSE /\ operation' = [operation EXCEPT ![a] = NoOperation]
         /\ UNCHANGED saved

PrepareFact(a) ==
    LET op == operation[a]
        fact == Head(op.facts)
        next == PreparedReceipt(op.state, fact)
    IN
    /\ ~disposed[a]
    /\ op.at = "prepare"
    /\ IF Preparable(op.state, fact)
       THEN Save(a, next, [at |-> "consume", state |-> next, facts |-> op.facts])
       ELSE operation' = [operation EXCEPT ![a] = NoOperation] /\ UNCHANGED saved
    /\ UNCHANGED <<feed, amends, offer, disposed, interrupts, delivered, answered>>

\* What makes an operation return an error: Dispose, or a fault.
Stops(a) ==
    \/ disposed[a] /\ UNCHANGED interrupts
    \/ interrupts < MaxInterrupts /\ interrupts' = interrupts + 1

\* The consumer is called and answers sent or gone.
Consume(a) ==
    /\ ~disposed[a]
    /\ operation[a].at = "consume"
    /\ delivered' = delivered \cup {Head(operation[a].facts)}
    /\ answered' = answered \cup {Head(operation[a].facts).id}
    /\ operation' = [operation EXCEPT ![a] = [operation[a] EXCEPT !.at = "confirm"]]
    /\ UNCHANGED <<feed, amends, offer, saved, disposed, interrupts>>

\* Mutant of ConsumeFails: an answer to try again is confirmed like any other.
ConsumeFailsConfirmed(a) ==
    /\ operation[a].at = "consume"
    /\ Stops(a)
    /\ delivered' = delivered \cup {Head(operation[a].facts)}
    /\ operation' = [operation EXCEPT ![a] = [operation[a] EXCEPT !.at = "confirm"]]
    /\ UNCHANGED <<feed, amends, offer, saved, disposed, answered>>

\* The consumer is called and answers to try again, or the answer is an error.
ConsumeFails(a) ==
    /\ operation[a].at = "consume"
    /\ Stops(a)
    /\ delivered' = delivered \cup {Head(operation[a].facts)}
    /\ operation' = [operation EXCEPT ![a] = NoOperation]
    /\ UNCHANGED <<feed, amends, offer, saved, disposed, answered>>

ConfirmFact(a) ==
    LET op == operation[a]
        next == Confirmed(op.state)
        rest == Tail(op.facts)
    IN
    /\ ~disposed[a]
    /\ op.at = "confirm"
    /\ Save(a, next, IF rest = <<>> THEN NoOperation
                     ELSE [at |-> "prepare", state |-> next, facts |-> rest])
    /\ UNCHANGED <<feed, amends, offer, disposed, interrupts, delivered, answered>>

\* The operation stops; a write it was about to make has been made or not.
Interrupt(a) ==
    LET op == operation[a] IN
    /\ op # NoOperation
    /\ Stops(a)
    /\ \/ UNCHANGED saved
       \/ /\ saved.revision = op.state.revision
          /\ \/ /\ op.at = "prepare"
                /\ Preparable(op.state, Head(op.facts))
                /\ saved' = PreparedReceipt(op.state, Head(op.facts))
             \/ /\ op.at = "confirm"
                /\ saved' = Confirmed(op.state)
    /\ operation' = [operation EXCEPT ![a] = NoOperation]
    /\ UNCHANGED <<feed, amends, offer, disposed, delivered, answered>>

-----------------------------------------------------------------------------
AdapterInit ==
    /\ feed = <<>>
    /\ amends = 0
    /\ offer = [after |-> 0, facts |-> <<>>]
    /\ saved = [revision |-> 0, confirmed |-> 0, pending |-> NoReceipt, recent |-> <<>>]
    /\ operation = [a \in Adapters |-> NoOperation]
    /\ disposed = [a \in Adapters |-> FALSE]
    /\ interrupts = 0
    /\ delivered = {}
    /\ answered = {}

AdapterStep(a) == Load(a) \/ Poll(a) \/ PrepareFact(a) \/ Consume(a) \/ ConfirmFact(a)

AdapterNext ==
    \/ Produce
    \/ \E id \in DOMAIN feed : Amend(id)
    \/ \E cursor \in 0..Len(feed) : TakePage(cursor)
    \/ \E a \in Adapters :
        \/ AdapterStep(a) \/ TakeOffer(a) \/ ConsumeFails(a) \/ Interrupt(a)
        \/ Dispose(a) \/ NewAdapter(a)

AdapterSpec == AdapterInit /\ [][AdapterNext]_adapterVars

-----------------------------------------------------------------------------
(* Properties *)

(***************************************************************************)
(* The confirmed cursor never passes a fact the consumer has not answered  *)
(* sent or gone, whatever stale pages are offered, whichever adapter       *)
(* confirms and wherever operations stop (deliver, Confirm, page).         *)
(***************************************************************************)
CursorCoversAnswered == 1..saved.confirmed \subseteq answered

(***************************************************************************)
(* The consumer never sees one external id with two contents, though the   *)
(* source changes facts and pages are offered late or twice: page and      *)
(* PrepareReceipt hold a fact to its pending receipt, and the cursor never *)
(* returns to one that was confirmed.                                      *)
(***************************************************************************)
OneContentPerFact == \A r, q \in delivered : r.id = q.id => r = q
=============================================================================
