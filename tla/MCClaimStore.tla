---------------------------- MODULE MCClaimStore ----------------------------
(* ClaimStore for TLC: two pids contend for one task. *)
EXTENDS ClaimStore, TLC
Symmetry == Permutations(Pids)
=============================================================================
