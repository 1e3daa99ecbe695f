------------------------------ MODULE HasCycle ------------------------------
(***************************************************************************)
(* has_cycle of crates/apohara-dispatch/src/task_graph.rs: Kahn's algorithm*)
(* over the prospective node set of add_node.  A node's deps is a vector as*)
(* it arrived: it may name a dependency twice, a node that does not exist  *)
(* (yet), or the node itself.  The algorithm is a state machine here, since*)
(* it pops its work queue in the arbitrary order of a hash map.            *)
(***************************************************************************)
EXTENDS Integers, FiniteSets

CONSTANTS Ids,     \* the ids a node or a dependency can have
          Deps     \* the deps vectors a node can have, as sets of <<index, id>>

ASSUME HasCycleAssumption ==
    /\ IsFiniteSet(Ids)
    /\ \A ds \in Deps : IsFiniteSet(ds) /\ ds \subseteq Nat \X Ids

VARIABLES
    nodes,      \* nodes[n]: the deps vector of node n, for the nodes there are
    indegree,   \* indegree[n]: existing dependencies n still waits on
    queue,      \* nodes to be popped
    resolved    \* how many nodes were popped

vars == <<nodes, indegree, queue, resolved>>

(* Graphs over the ids: any set of nodes, any vector for each of them. *)
Graphs == UNION {[N -> Deps] : N \in SUBSET Ids}

named(ds) == {d[2] : d \in ds}

(* Faulty form: a repeated dependency is counted as often as it occurs.    *)
degree_with_repeats(g, n) == Cardinality({d \in g[n] : d[2] \in DOMAIN g})

degree(g, n) == Cardinality(named(g[n]) \cap DOMAIN g)

Init ==
    /\ nodes \in Graphs
    /\ indegree = [n \in DOMAIN nodes |-> degree(nodes, n)]
    /\ queue = {n \in DOMAIN nodes : degree(nodes, n) = 0}
    /\ resolved = 0

(* Faulty form: a decrement for every time the popped id occurs in a vector*)
Pop_per_mention(id) ==
    /\ id \in queue
    /\ resolved' = resolved + 1
    /\ indegree' = [n \in DOMAIN nodes |->
                      indegree[n] - Cardinality({d \in nodes[n] : d[2] = id})]
    /\ queue' = (queue \ {id}) \cup
                {n \in DOMAIN nodes : id \in named(nodes[n]) /\ indegree'[n] = 0}
    /\ UNCHANGED nodes

Pop(id) ==
    /\ id \in queue
    /\ resolved' = resolved + 1
    /\ indegree' = [n \in DOMAIN nodes |->
                      IF id \in named(nodes[n]) THEN indegree[n] - 1 ELSE indegree[n]]
    /\ queue' = (queue \ {id}) \cup
                {n \in DOMAIN nodes : id \in named(nodes[n]) /\ indegree[n] = 1}
    /\ UNCHANGED nodes

Next == \E id \in Ids : Pop(id)

Spec == Init /\ [][Next]_vars

Finished == queue = {}
has_cycle == resolved # Cardinality(DOMAIN nodes)

-----------------------------------------------------------------------------
(* Reference definition: a finite graph has a cycle iff some nonempty set  *)
(* of its nodes has, for each member, a dependency inside the set.         *)
Cyclic(g) ==
    \E C \in SUBSET DOMAIN g : C # {} /\ \A n \in C : named(g[n]) \cap C # {}

(* In-degrees are usize: a decrement below zero would panic in a debug     *)
(* build and wrap in a release build.                                      *)
NoUnderflow == \A n \in DOMAIN nodes : indegree[n] >= 0

(* The answer is right for every graph and every pop order: repeated deps  *)
(* are no false alarm, forward references are legal, a self-dependency and *)
(* any longer cycle are found.                                             *)
AnswerIsRight == Finished => (has_cycle <=> Cyclic(nodes))
=============================================================================
