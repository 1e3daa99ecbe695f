---------------------------- MODULE MCTaskGraph -----------------------------
(* TaskGraph for TLC: two processes race on a graph of two tasks. *)
EXTENDS TaskGraph, TLC
Symmetry == Permutations(Procs) \cup Permutations(Ids)
=============================================================================
