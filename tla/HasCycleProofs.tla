--------------------------- MODULE HasCycleProofs ---------------------------
(***************************************************************************)
(* has_cycle is correct for every finite graph and every pop order.        *)
(***************************************************************************)
EXTENDS HasCycle, FiniteSetTheorems, TLAPS

(* The nodes popped so far, and what n still waits on. *)
Popped == {n \in DOMAIN nodes : indegree[n] = 0 /\ n \notin queue}
Waits(n) == (named(nodes[n]) \cap DOMAIN nodes) \ Popped

IsCycle(C) == C # {} /\ \A n \in C : named(nodes[n]) \cap C # {}

(* The counters count what their names say, and no cycle is ever entered. *)
IInv ==
    /\ nodes \in Graphs
    /\ queue \subseteq {n \in DOMAIN nodes : indegree[n] = 0}
    /\ indegree \in [DOMAIN nodes -> Nat]
    /\ \A n \in DOMAIN nodes : indegree[n] = Cardinality(Waits(n))
    /\ resolved = Cardinality(Popped)
    /\ \A C \in SUBSET DOMAIN nodes : IsCycle(C) => C \cap Popped = {}

LEMMA Finite ==
    ASSUME nodes \in Graphs
    PROVE  /\ IsFiniteSet(DOMAIN nodes)
           /\ \A T : T \subseteq DOMAIN nodes => IsFiniteSet(T)
<1>1. DOMAIN nodes \subseteq Ids
  BY DEF Graphs
<1>2. \A T : T \subseteq Ids => IsFiniteSet(T)
  BY HasCycleAssumption, FS_Subset
<1>3. QED
  BY <1>1, <1>2

LEMMA InitInv == Init => IInv
<1> SUFFICES ASSUME Init PROVE IInv
  OBVIOUS
<1>1. nodes \in Graphs /\ resolved = 0
  BY DEF Init
<1>2. \A n \in DOMAIN nodes : IsFiniteSet(named(nodes[n]) \cap DOMAIN nodes)
  BY <1>1, Finite
<1>3. indegree = [n \in DOMAIN nodes |-> Cardinality(named(nodes[n]) \cap DOMAIN nodes)]
  BY DEF Init, degree
<1>4. queue = {n \in DOMAIN nodes : indegree[n] = 0}
  BY <1>3 DEF Init, degree
<1>5. indegree \in [DOMAIN nodes -> Nat]
  BY <1>2, <1>3, FS_CardinalityType
<1>6. Popped = {}
  BY <1>4 DEF Popped
<1>7. \A n \in DOMAIN nodes : indegree[n] = Cardinality(Waits(n))
  BY <1>3, <1>6 DEF Waits
<1>8. resolved = Cardinality(Popped)
  BY <1>1, <1>6, FS_EmptySet
<1>9. QED
  BY <1>1, <1>4, <1>5, <1>6, <1>7, <1>8 DEF IInv

LEMMA PopInv ==
    ASSUME IInv, NEW id \in Ids, Pop(id)
    PROVE  IInv'
<1>1. /\ nodes \in Graphs /\ nodes' = nodes /\ id \in queue
      /\ id \in DOMAIN nodes /\ indegree[id] = 0 /\ id \notin Popped
  BY DEF IInv, Pop, Popped
<1>2. ASSUME NEW n \in DOMAIN nodes
      PROVE  /\ IsFiniteSet(Waits(n))
             /\ indegree[n] = 0 => \A d : d \notin Waits(n)
  <2>1. IsFiniteSet(Waits(n))
    BY <1>1, Finite DEF Waits
  <2>2. indegree[n] = 0 => Waits(n) = {}
    BY <2>1, FS_EmptySet DEF IInv
  <2>3. QED
    BY <2>1, <2>2
<1>3. \A n \in DOMAIN nodes : id \in named(nodes[n]) => id \in Waits(n) /\ indegree[n] # 0
  <2> SUFFICES ASSUME NEW n \in DOMAIN nodes, id \in named(nodes[n])
               PROVE  id \in Waits(n) /\ indegree[n] # 0
    OBVIOUS
  <2>1. id \in Waits(n)
    BY <1>1 DEF Waits
  <2>2. QED BY <1>2, <2>1
<1>4. /\ indegree' = [n \in DOMAIN nodes |->
                        IF id \in named(nodes[n]) THEN indegree[n] - 1 ELSE indegree[n]]
      /\ queue' = (queue \ {id}) \cup
                  {n \in DOMAIN nodes : id \in named(nodes[n]) /\ indegree[n] = 1}
      /\ resolved' = resolved + 1
      /\ indegree \in [DOMAIN nodes -> Nat]
      /\ queue \subseteq {n \in DOMAIN nodes : indegree[n] = 0}
  BY DEF Pop, IInv
<1>5. indegree' \in [DOMAIN nodes -> Nat]
  BY <1>3, <1>4
<1>6. \A n \in DOMAIN nodes :
        /\ indegree[n] = 0 => indegree'[n] = 0 /\ (n \in queue' <=> n \in queue /\ n # id)
        /\ indegree[n] # 0 /\ indegree'[n] = 0 => n \in queue'
  BY <1>3, <1>4
<1>7. Popped' = Popped \cup {id}
  <2>1. ASSUME NEW n \in DOMAIN nodes
        PROVE  (indegree'[n] = 0 /\ n \notin queue') <=>
               (indegree[n] = 0 /\ n \notin queue) \/ n = id
    BY <1>1, <1>6
  <2>2. QED BY <1>1, <2>1 DEF Popped
<1>8. \A n \in DOMAIN nodes : Waits(n)' = Waits(n) \ {id}
  BY <1>1, <1>7 DEF Waits
<1>9. \A n \in DOMAIN nodes : indegree'[n] = Cardinality(Waits(n)')
  <2> SUFFICES ASSUME NEW n \in DOMAIN nodes
               PROVE  indegree'[n] = Cardinality(Waits(n) \ {id})
    BY <1>8
  <2>1. Cardinality(Waits(n) \ {id}) =
          IF id \in Waits(n) THEN indegree[n] - 1 ELSE indegree[n]
    BY <1>2, FS_RemoveElement DEF IInv
  <2>2. id \in Waits(n) <=> id \in named(nodes[n])
    BY <1>3 DEF Waits
  <2>3. QED BY <1>4, <2>1, <2>2
<1>10. resolved' = Cardinality(Popped')
  <2>1. IsFiniteSet(Popped)
    BY <1>1, Finite DEF Popped
  <2>2. QED BY <1>1, <1>4, <1>7, <2>1, FS_AddElement DEF IInv
<1>11. \A C \in SUBSET DOMAIN nodes : IsCycle(C) => C \cap Popped' = {}
  <2> SUFFICES ASSUME NEW C \in SUBSET DOMAIN nodes, IsCycle(C), id \in C PROVE FALSE
    BY <1>7 DEF IInv
  <2>1. PICK d \in named(nodes[id]) : d \in C
    BY DEF IsCycle
  <2>2. d \in Waits(id)
    BY <2>1 DEF Waits, IInv
  <2>3. QED BY <1>1, <1>2, <2>2
<1>12. queue' \subseteq {n \in DOMAIN nodes : indegree'[n] = 0}
  BY <1>4, <1>6
<1>13. \A C : IsCycle(C)' <=> IsCycle(C)
  BY <1>1 DEF IsCycle
<1>14. QED
  BY <1>1, <1>5, <1>9, <1>10, <1>11, <1>12, <1>13 DEF IInv

LEMMA Invariant == Spec => []IInv
<1>1. IInv /\ [Next]_vars => IInv'
  <2>1. ASSUME IInv, UNCHANGED vars PROVE IInv'
    BY <2>1 DEF vars, IInv, Popped, Waits, IsCycle
  <2>2. QED BY <2>1, PopInv DEF Next
<1>2. QED
  BY InitInv, <1>1, PTL DEF Spec

(* No in-degree is ever decremented below zero, whatever vectors arrive. *)
THEOREM DegreesStayNatural == Spec => []NoUnderflow
<1>1. IInv => NoUnderflow
  BY DEF IInv, NoUnderflow
<1>2. QED
  BY Invariant, <1>1, PTL

(* For every finite graph has_cycle answers the reference definition: the  *)
(* nodes left over are a cycle, and no node of a cycle is ever popped.     *)
THEOREM Correctness == Spec => []AnswerIsRight
<1>1. ASSUME IInv, Finished PROVE has_cycle <=> Cyclic(nodes)
  <2> DEFINE R == DOMAIN nodes \ Popped
  <2>1. IsFiniteSet(DOMAIN nodes) /\ Popped \subseteq DOMAIN nodes
    BY <1>1, Finite DEF IInv, Popped
  <2>2. has_cycle <=> R # {}
    <3>1. Cardinality(Popped) = Cardinality(DOMAIN nodes) <=> Popped = DOMAIN nodes
      BY <2>1, FS_Subset
    <3>2. QED BY <1>1, <2>1, <3>1 DEF has_cycle, IInv
  <2>3. \A n \in R : named(nodes[n]) \cap R # {}
    <3> SUFFICES ASSUME NEW n \in R PROVE named(nodes[n]) \cap R # {}
      OBVIOUS
    <3>1. indegree[n] # 0 /\ indegree[n] = Cardinality(Waits(n))
      BY <1>1 DEF Finished, Popped, IInv
    <3>2. Waits(n) # {}
      BY <3>1, FS_EmptySet
    <3>3. QED BY <3>2 DEF Waits
  <2>4. ASSUME NEW C \in SUBSET DOMAIN nodes, IsCycle(C) PROVE R # {}
    BY <1>1, <2>4 DEF IInv, IsCycle
  <2>5. QED BY <2>2, <2>3, <2>4 DEF Cyclic, IsCycle
<1>2. IInv => AnswerIsRight
  BY <1>1 DEF AnswerIsRight
<1>3. QED
  BY Invariant, <1>2, PTL
=============================================================================
