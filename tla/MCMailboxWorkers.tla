-------------------------- MODULE MCMailboxWorkers --------------------------
(* One message, two workers of which one may pause, and two resume requests. *)
EXTENDS MailboxWorkers

NoTTL == [m \in Messages |-> 0]
NoDelay == [m \in Messages |-> 0]
=============================================================================
