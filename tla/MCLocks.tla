------------------------------- MODULE MCLocks -------------------------------
(* Locks with a channel of one message: the real one holds 100. *)
EXTENDS Locks
=============================================================================
