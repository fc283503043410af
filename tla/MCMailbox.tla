------------------------------ MODULE MCMailbox ------------------------------
(* Two messages, one of them with a time to live, and any calls. *)
EXTENDS Mailbox, TLC

FirstExpires == [m \in Messages |-> IF m = 1 THEN 1 ELSE 0]
SecondWaits == [m \in Messages |-> IF m = 2 THEN 1 ELSE 0]

\* No two idempotency keys are told apart.
KeySymmetry == Permutations(Keys)
=============================================================================
