----------------------------- MODULE MCMailbox ------------------------------
(* Mailbox for TLC: processes that send to and poll for one recipient. *)
EXTENDS Mailbox, TLC
Symmetry == Permutations(Procs)
=============================================================================
