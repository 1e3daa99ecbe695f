----------------------------- MODULE MCPrompts -----------------------------
EXTENDS Prompts, FiniteSets, TLC

CONSTANTS r1, r2, r3

(* Request ids are only compared. *)
Swaps == Permutations(Requests)

(* Deaths are explored with two prompts, alone and with a fault; faults    *)
(* with three: what two compactions in one file lose is a third prompt.    *)
Few ==
    \/ crashes = 0
    \/ Cardinality({r \in Requests : asker[r] # "idle"}) <= 2
=============================================================================
