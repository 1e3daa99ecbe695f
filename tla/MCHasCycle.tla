----------------------------- MODULE MCHasCycle -----------------------------
(* HasCycle for TLC: every graph over three ids with up to two deps a node. *)
EXTENDS HasCycle
MCDeps == {{}} \cup {{<<1, a>>} : a \in Ids} \cup {{<<1, a>>, <<2, b>>} : a, b \in Ids}
=============================================================================
