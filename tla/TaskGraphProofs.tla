-------------------------- MODULE TaskGraphProofs --------------------------
(***************************************************************************)
(* The task graph stays acyclic, unlocks only what was reported, and keeps *)
(* what was saved undisturbed, for any ids, processes and bound on tokens. *)
(***************************************************************************)
EXTENDS TaskGraph, TLAPS

(* What a process saves or answers from is a copy of the graph it loaded   *)
(* earlier, so what holds of the file has to hold of every copy; reports   *)
(* only grow, so it goes on holding.                                       *)
GoodGraph(g, R) == g \in Graph /\ ~has_cycle(g.deps) /\ g.done \subseteq R

GoodCall(c, R) ==
    /\ c \in Call
    /\ c.stage \in {"add_node", "accepted", "mark_done"} => c.id \in Ids
    /\ c.stage \in {"accepted", "mark_done"} => c.id \in R
    /\ GoodGraph(c.snap, R)

(* What is settled is in the file and in every copy that may replace it.   *)
Holds(g, s) == s.nodes \subseteq DOMAIN g.deps /\ s.done \subseteq g.done

Kept(g, c, s) == Holds(g, s) /\ \A p \in Procs : c[p].stage \in Mutating => Holds(c[p].snap, s)

IInv ==
    /\ TypeOK
    /\ GoodGraph(graph, reported)
    /\ \A p \in Procs : GoodCall(call[p], reported)
    /\ Kept(graph, call, settled)

LEMMA Grows ==
    ASSUME NEW R \in SUBSET Ids, NEW S \in SUBSET Ids, R \subseteq S
    PROVE  /\ \A g : GoodGraph(g, R) => GoodGraph(g, S)
           /\ \A c : GoodCall(c, R) => GoodCall(c, S)
<1>1. \A g : GoodGraph(g, R) => GoodGraph(g, S)
  BY DEF GoodGraph
<1>2. QED BY <1>1 DEF GoodCall

LEMMA EmptyIsGood == GoodGraph(Empty, {})
<1>1. DOMAIN Empty.deps = {} /\ Empty.done = {}
  BY DEF Empty
<1>2. Empty \in Graph
  <2>1. [n \in {} |-> {}] \in [{} -> SUBSET Ids]
    OBVIOUS
  <2>2. [n \in {} |-> {}] \in NodeSets
    BY <2>1 DEF NodeSets
  <2>3. QED BY <2>2 DEF Empty, Graph
<1>3. ~has_cycle(Empty.deps)
  BY <1>1 DEF has_cycle
<1>4. QED BY <1>1, <1>2, <1>3 DEF GoodGraph

LEMMA IdleIsGood == GoodCall(Idle, {})
BY EmptyIsGood DEF Idle, GoodCall, GoodGraph, Call, Stages

LEMMA Landed ==
    ASSUME NEW deps \in NodeSets, NEW n \in Ids, NEW D \in SUBSET Ids
    PROVE  With(deps, n, D) \in NodeSets
<1>1. PICK N \in SUBSET Ids : deps \in [N -> SUBSET Ids]
  BY DEF NodeSets
<1>2. With(deps, n, D) \in [N \cup {n} -> SUBSET Ids]
  BY <1>1 DEF With
<1>3. N \cup {n} \in SUBSET Ids
  OBVIOUS
<1>4. QED BY <1>2, <1>3 DEF NodeSets

(* A process moves on in its call. *)
LEMMA Moves ==
    ASSUME IInv, NEW p \in Procs, NEW c, Goes(p, c),
           reported' \in SUBSET Ids, reported \subseteq reported',
           GoodCall(c, reported'), GoodGraph(graph', reported'),
           owner' \in [Ids -> 0 .. MaxTokens], minted' \in 0 .. MaxTokens,
           held' \in [Procs -> SUBSET (Ids \X Tokens)], completed' \in SUBSET Ids,
           settled' \in [nodes : SUBSET Ids, done : SUBSET Ids],
           Holds(graph', settled'), c.stage \in Mutating => Holds(c.snap, settled'),
           \/ settled' = settled
           \/ Alone(p)
    PROVE  IInv'
<1>1. \A q \in Procs : GoodCall(call'[q], reported')
  <2>1. \A q \in Procs : GoodCall(call[q], reported')
    BY Grows DEF IInv, TypeOK
  <2>2. \A q \in Procs : call'[q] = IF q = p THEN c ELSE call[q]
    BY DEF IInv, TypeOK, Goes
  <2>3. QED BY <2>1, <2>2
<1>2. call' \in [Procs -> Call]
  BY DEF IInv, TypeOK, Goes, GoodCall
<1>3. TypeOK'
  BY <1>2 DEF TypeOK, GoodGraph
<1>4. Kept(graph', call', settled')
  <2> SUFFICES ASSUME NEW q \in Procs, call'[q].stage \in Mutating
               PROVE  Holds(call'[q].snap, settled')
    BY DEF Kept
  <2>1. CASE q = p
    BY <2>1 DEF IInv, TypeOK, Goes
  <2>2. CASE q # p
    <3>1. call'[q] = call[q]
      BY <2>2 DEF IInv, TypeOK, Goes
    <3>2. Holds(call[q].snap, settled)
      BY <3>1 DEF IInv, Kept
    <3>3. settled' = settled
      BY <2>2, <3>1 DEF Alone
    <3>4. QED BY <3>1, <3>2, <3>3
  <2>3. QED BY <2>1, <2>2
<1>5. QED BY <1>1, <1>3, <1>4 DEF IInv

(* Nothing but the claim table changes. *)
LEMMA ClaimsMove ==
    ASSUME IInv, UNCHANGED <<graph, call, reported, completed, settled>>,
           owner' \in [Ids -> 0 .. MaxTokens], minted' \in 0 .. MaxTokens,
           held' \in [Procs -> SUBSET (Ids \X Tokens)]
    PROVE  IInv'
BY DEF IInv, TypeOK

LEMMA Freed ==
    ASSUME IInv, NEW n \in Ids, Free(n)
    PROVE  IInv'
<1>1. owner' \in [Ids -> 0 .. MaxTokens]
  BY TaskGraphAssumption DEF IInv, TypeOK, Free
<1>2. QED BY <1>1, ClaimsMove DEF IInv, TypeOK, Free, History

LEMMA GraphInit == Init => IInv
<1> SUFFICES ASSUME Init PROVE IInv
  OBVIOUS
<1>1. GoodGraph(graph, reported) /\ \A p \in Procs : GoodCall(call[p], reported)
  BY EmptyIsGood, IdleIsGood DEF Init
<1>2. 0 \in 0 .. MaxTokens
  BY TaskGraphAssumption
<1>3. TypeOK
  BY <1>1, <1>2 DEF Init, TypeOK, GoodGraph, GoodCall
<1>4. Kept(graph, call, settled)
  BY DEF Init, Kept, Holds, Idle, Mutating
<1>5. QED BY <1>1, <1>3, <1>4 DEF IInv

LEMMA GraphStep == IInv /\ [Next]_vars => IInv'
<1> SUFFICES ASSUME IInv, [Next]_vars PROVE IInv'
  OBVIOUS
<1>t. /\ owner \in [Ids -> 0 .. MaxTokens] /\ minted \in 0 .. MaxTokens
      /\ held \in [Procs -> SUBSET (Ids \X Tokens)]
      /\ reported \in SUBSET Ids /\ completed \in SUBSET Ids
      /\ settled \in [nodes : SUBSET Ids, done : SUBSET Ids]
      /\ Holds(graph, settled)
      /\ \A q \in Procs : call[q].stage \in Mutating => Holds(call[q].snap, settled)
      /\ graph \in Graph /\ GoodGraph(graph, reported)
      /\ \A q \in Procs : call[q] \in Call /\ GoodCall(call[q], reported)
  BY DEF IInv, TypeOK, Kept
<1>i. /\ GoodCall(Idle, reported) /\ \A n \in Ids : GoodCall(Idle, reported \cup {n})
      /\ Idle.stage \notin Mutating
  BY <1>t, IdleIsGood, Grows DEF Idle, Mutating
<1>1. ASSUME NEW p \in Procs, NEW n \in Ids, NEW D \in SUBSET Ids, AddNode(p, n, D) PROVE IInv'
  <2> DEFINE c == [Idle EXCEPT !.stage = "add_node", !.id = n, !.deps = D, !.snap = graph]
  <2>1. c \in Call /\ c.stage = "add_node" /\ c.id = n /\ c.snap = graph
    BY <1>t DEF Idle, Call, Stages
  <2>2. GoodCall(c, reported)
    BY <1>t, <2>1 DEF GoodCall
  <2>3. QED BY <1>1, <1>t, <2>1, <2>2, Moves DEF AddNode, Claims, History
<1>2. ASSUME NEW p \in Procs, AddNodeSave(p) PROVE IInv'
  <2>1. call[p].id \in Ids /\ call[p].deps \in SUBSET Ids /\ GoodGraph(call[p].snap, reported)
    BY <1>2, <1>t DEF AddNodeSave, GoodCall, Call
  <2> DEFINE deps == With(call[p].snap.deps, call[p].id, call[p].deps)
  <2>2. deps \in NodeSets
    BY <2>1, Landed DEF GoodGraph, Graph
  <2>3. GoodGraph(graph', reported)
    <3>1. CASE has_cycle(deps)
      BY <1>2, <1>t, <3>1 DEF AddNodeSave
    <3>2. CASE ~has_cycle(deps)
      <4>1. graph' = [deps |-> deps, done |-> call[p].snap.done]
        BY <1>2, <3>2 DEF AddNodeSave
      <4>2. QED BY <2>1, <2>2, <3>2, <4>1 DEF GoodGraph, Graph
    <3>3. QED BY <3>1, <3>2
  <2>4. /\ settled' \in [nodes : SUBSET Ids, done : SUBSET Ids]
        /\ Holds(graph', settled')
        /\ settled' = settled \/ Alone(p)
    <3>1. CASE has_cycle(deps)
      BY <1>2, <1>t, <3>1 DEF AddNodeSave
    <3>2. CASE ~has_cycle(deps)
      <4>1. graph' = [deps |-> deps, done |-> call[p].snap.done]
        BY <1>2, <3>2 DEF AddNodeSave
      <4>2. DOMAIN deps = DOMAIN call[p].snap.deps \cup {call[p].id}
        BY DEF With
      <4>3. Holds(call[p].snap, settled)
        BY <1>2, <1>t DEF AddNodeSave, Mutating
      <4>4. settled' = IF Alone(p) THEN [settled EXCEPT !.nodes = @ \cup {call[p].id}]
                       ELSE settled
        BY <1>2, <3>2 DEF AddNodeSave
      <4>5. QED BY <1>t, <2>1, <4>1, <4>2, <4>3, <4>4 DEF Holds
    <3>3. QED BY <3>1, <3>2
  <2>5. QED BY <1>2, <1>t, <1>i, <2>3, <2>4, Moves DEF AddNodeSave, Done, Claims
<1>3. ASSUME NEW p \in Procs, NEW n \in Ids, ClaimTask(p, n) PROVE IInv'
  <2>1. minted + 1 \in 0 .. MaxTokens /\ minted + 1 \in Tokens
    BY <1>3, <1>t, TaskGraphAssumption DEF ClaimTask, Tokens
  <2>2. /\ owner' \in [Ids -> 0 .. MaxTokens] /\ minted' \in 0 .. MaxTokens
        /\ held' \in [Procs -> SUBSET (Ids \X Tokens)]
    BY <1>3, <1>t, <2>1 DEF ClaimTask
  <2>3. QED BY <1>3, <2>2, ClaimsMove DEF ClaimTask, History
<1>4. ASSUME NEW p \in Procs, NEW n \in Ids, ReleaseTask(p, n) PROVE IInv'
  BY <1>4, Freed DEF ReleaseTask
<1>5. ASSUME NEW p \in Procs, NEW n \in Ids, NEW k \in Tokens, NEW success \in BOOLEAN,
             ReportResult(p, n, k, success)
      PROVE  IInv'
  <2>1. owner' \in [Ids -> 0 .. MaxTokens]
    BY <1>5, <1>t, TaskGraphAssumption DEF ReportResult
  <2>2. CASE ~success
    BY <1>5, <1>t, <2>1, <2>2, ClaimsMove DEF ReportResult
  <2>3. CASE success
    <3> DEFINE c == [Idle EXCEPT !.stage = "accepted", !.id = n]
    <3>1. /\ c \in Call /\ c.stage = "accepted" /\ c.id = n /\ c.snap = Idle.snap
          /\ c.stage \notin Mutating
      BY <1>i DEF Idle, Call, Stages, GoodCall, Mutating
    <3>2. GoodCall(c, reported \cup {n})
      BY <1>i, <3>1 DEF GoodCall
    <3>3. GoodGraph(graph, reported \cup {n})
      BY <1>t, Grows
    <3>4. reported' = reported \cup {n} /\ Goes(p, c) /\ graph' = graph
      BY <1>5, <2>3 DEF ReportResult
    <3>5. QED BY <1>5, <1>t, <2>1, <3>1, <3>2, <3>3, <3>4, Moves DEF ReportResult
  <2>4. QED BY <2>2, <2>3
<1>6. ASSUME NEW p \in Procs, MarkDone(p) PROVE IInv'
  <2> DEFINE c == [Idle EXCEPT !.stage = "mark_done", !.id = call[p].id, !.snap = graph]
  <2>1. call[p].id \in Ids /\ call[p].id \in reported
    BY <1>6, <1>t DEF MarkDone, GoodCall
  <2>2. c \in Call /\ c.stage = "mark_done" /\ c.id = call[p].id /\ c.snap = graph
    BY <1>t, <2>1 DEF Idle, Call, Stages
  <2>3. GoodCall(c, reported)
    BY <1>t, <2>1, <2>2 DEF GoodCall
  <2>4. QED BY <1>6, <1>t, <2>2, <2>3, Moves DEF MarkDone, Claims, History
<1>7. ASSUME NEW p \in Procs, MarkDoneSave(p) PROVE IInv'
  <2>1. /\ call[p].id \in Ids /\ call[p].id \in reported
        /\ GoodGraph(call[p].snap, reported)
    BY <1>7, <1>t DEF MarkDoneSave, GoodCall
  <2>2. GoodGraph(graph', reported)
    BY <1>7, <2>1 DEF MarkDoneSave, GoodGraph, Graph
  <2>3. completed' \in SUBSET Ids
    BY <1>7, <1>t, <2>1 DEF MarkDoneSave
  <2>4. /\ settled' \in [nodes : SUBSET Ids, done : SUBSET Ids]
        /\ Holds(graph', settled')
        /\ settled' = settled \/ Alone(p)
    <3>1. Holds(call[p].snap, settled) /\ call[p].snap \in Graph
      BY <1>7, <1>t, <2>1 DEF MarkDoneSave, Mutating, GoodGraph
    <3>2. graph'.deps = call[p].snap.deps /\ graph'.done = call[p].snap.done \cup {call[p].id}
      BY <1>7, <3>1 DEF MarkDoneSave, Graph
    <3>3. settled' = IF Alone(p) THEN [settled EXCEPT !.done = @ \cup {call[p].id}] ELSE settled
      BY <1>7 DEF MarkDoneSave
    <3>4. QED BY <1>t, <2>1, <3>1, <3>2, <3>3 DEF Holds
  <2>5. QED BY <1>7, <1>t, <1>i, <2>2, <2>3, <2>4, Moves DEF MarkDoneSave, Done, Claims
<1>8. ASSUME NEW p \in Procs, Die(p) PROVE IInv'
  <2>1. held' \in [Procs -> SUBSET (Ids \X Tokens)]
    BY <1>8, <1>t DEF Die
  <2>2. QED BY <1>8, <1>t, <1>i, <2>1, Moves DEF Die, Done, History
<1>9. ASSUME NEW n \in Ids, Reap(n) PROVE IInv'
  BY <1>9, Freed DEF Reap
<1>10. CASE UNCHANGED vars
  BY <1>10 DEF vars, IInv, TypeOK
<1>11. QED
  BY <1>1, <1>2, <1>3, <1>4, <1>5, <1>6, <1>7, <1>8, <1>9, <1>10 DEF Next

LEMMA GraphInvariant == Spec => []IInv
BY GraphInit, GraphStep, PTL DEF Spec

-----------------------------------------------------------------------------
(* The stores and the calls keep their types. *)
THEOREM TypeCorrect == Spec => []TypeOK
<1>1. IInv => TypeOK
  BY DEF IInv
<1>2. QED BY GraphInvariant, <1>1, PTL

(* No interleaving of loads and saves closes a cycle in graph.json. *)
THEOREM Acyclic == Spec => []GraphIsAcyclic
<1>1. IInv => GraphIsAcyclic
  BY DEF IInv, GoodGraph, GraphIsAcyclic
<1>2. QED BY GraphInvariant, <1>1, PTL

(* An id in the done set had an accepted success: no zombie unlocks. *)
THEOREM OnlyReportedIsDone == Spec => []DoneWasReported
<1>1. IInv => DoneWasReported
  BY DEF IInv, GoodGraph, DoneWasReported
<1>2. QED BY GraphInvariant, <1>1, PTL

(* Only an overlapping load and save loses a node or a completion. *)
THEOREM OnlyOverlapLoses == Spec => []UndisturbedWritesStay
<1>1. IInv => UndisturbedWritesStay
  BY DEF IInv, Kept, Holds, UndisturbedWritesStay
<1>2. QED BY GraphInvariant, <1>1, PTL
=============================================================================
