----------------------------- MODULE TaskGraph ------------------------------
(***************************************************************************)
(* The task DAG of crates/apohara-dispatch/src/task_graph.rs and the mesh  *)
(* tools over it (crates/apohara-mcp/src/servers/mesh_store.rs).           *)
(*                                                                         *)
(* graph.json is replaced atomically, but no lock spans a load-modify-save:*)
(* a mutator is two steps, and another process may save in between.  The   *)
(* claim store is the lease table that module ClaimStore implements; a     *)
(* completion crosses both stores, in two separate calls.                  *)
(***************************************************************************)
EXTENDS Naturals, FiniteSets

CONSTANTS Ids,        \* task ids
          Procs,      \* processes that call the mesh tools
          NoId,       \* the task of a process in no call
          MaxTokens   \* bound on the claims ever acquired

ASSUME TaskGraphAssumption ==
    IsFiniteSet(Ids) /\ NoId \notin Ids /\ MaxTokens \in Nat

VARIABLES
    graph,     \* graph.json: the deps of each node there is, and the done ids
    owner,     \* owner[n]: the token n is claimed under, 0 if its slot is open
    minted,    \* claim tokens minted so far
    held,      \* held[p]: the <<id, token>> pairs p was given
    call,      \* call[p]: the tool or scheduler call p is in
    reported,  \* history: ids a result was accepted for, with success
    completed, \* history: ids whose successful report returned
    settled    \* history: what was saved while no other process had a graph loaded

vars == <<graph, owner, minted, held, call, reported, completed, settled>>

Tokens == 1 .. MaxTokens

NodeSets == UNION {[N -> SUBSET Ids] : N \in SUBSET Ids}
Graph == [deps : NodeSets, done : SUBSET Ids]
Empty == [deps |-> [n \in {} |-> {}], done |-> {}]

Stages == {"idle", "add_node", "accepted", "mark_done"}

(* A mutator between its load and its save. *)
Mutating == {"add_node", "mark_done"}

Call == [stage : Stages, id : Ids \cup {NoId}, deps : SUBSET Ids, snap : Graph]

Idle == [stage |-> "idle", id |-> NoId, deps |-> {}, snap |-> Empty]

Init ==
    /\ graph = Empty
    /\ owner = [n \in Ids |-> 0]
    /\ minted = 0
    /\ held = [p \in Procs |-> {}]
    /\ call = [p \in Procs |-> Idle]
    /\ reported = {}
    /\ completed = {}
    /\ settled = [nodes |-> {}, done |-> {}]

IsIdle(p) == call[p].stage = "idle"
Goes(p, c) == call' = [call EXCEPT ![p] = c]
Done(p) == Goes(p, Idle)

(* No other process is between a load and a save. *)
Alone(p) == \A q \in Procs \ {p} : call[q].stage \notin Mutating

History == UNCHANGED <<reported, completed, settled>>
Claims  == UNCHANGED <<owner, minted, held>>

-----------------------------------------------------------------------------
(* add_node.  has_cycle is verified in HasCycle against this definition.   *)
has_cycle(deps) ==
    \E C \in SUBSET DOMAIN deps : C # {} /\ \A n \in C : deps[n] \cap C # {}

With(deps, n, D) == [m \in DOMAIN deps \cup {n} |-> IF m = n THEN D ELSE deps[m]]

AddNode(p, n, D) ==
    /\ IsIdle(p)
    /\ Goes(p, [Idle EXCEPT !.stage = "add_node", !.id = n, !.deps = D, !.snap = graph])
    /\ UNCHANGED graph /\ Claims /\ History

(* Faulty form: the node is merged into whatever is on disk by now.        *)
AddNodeSave_merges(p) ==
    /\ call[p].stage = "add_node"
    /\ graph' = IF has_cycle(With(call[p].snap.deps, call[p].id, call[p].deps))
                THEN graph
                ELSE [graph EXCEPT !.deps = With(@, call[p].id, call[p].deps)]
    /\ Done(p)
    /\ Claims /\ History

(* Faulty form: a node that is added again starts afresh.                  *)
AddNodeSave_afresh(p) ==
    /\ call[p].stage = "add_node"
    /\ LET deps == With(call[p].snap.deps, call[p].id, call[p].deps) IN
       graph' = IF has_cycle(deps) THEN graph
                ELSE [deps |-> deps, done |-> call[p].snap.done \ {call[p].id}]
    /\ Done(p)
    /\ Claims /\ History

AddNodeSave(p) ==
    /\ call[p].stage = "add_node"
    /\ LET deps == With(call[p].snap.deps, call[p].id, call[p].deps) IN
       IF has_cycle(deps) THEN UNCHANGED <<graph, settled>>
       ELSE /\ graph' = [deps |-> deps, done |-> call[p].snap.done]
            /\ settled' = IF Alone(p) THEN [settled EXCEPT !.nodes = @ \cup {call[p].id}]
                          ELSE settled
    /\ Done(p)
    /\ Claims /\ UNCHANGED <<reported, completed>>

-----------------------------------------------------------------------------
(* The claim tools.  claim_task accepts any id and looks at the claim only;*)
(* release_task needs no token; the reaper takes any claim it finds stale. *)
ClaimTask(p, n) ==
    /\ IsIdle(p)
    /\ owner[n] = 0 /\ minted < MaxTokens
    /\ minted' = minted + 1
    /\ owner' = [owner EXCEPT ![n] = minted + 1]
    /\ held' = [held EXCEPT ![p] = @ \cup {<<n, minted + 1>>}]
    /\ UNCHANGED <<graph, call>> /\ History

Free(n) ==
    /\ owner[n] # 0
    /\ owner' = [owner EXCEPT ![n] = 0]
    /\ UNCHANGED <<graph, minted, held, call>> /\ History

ReleaseTask(p, n) == IsIdle(p) /\ Free(n)
Reap(n) == Free(n)

(* report_result: the claim is given up first, and only an accepted success*)
(* goes on to mark_done.                                                   *)
ReportResult_stale_too(p, n, k, success) ==
    /\ IsIdle(p)
    /\ <<n, k>> \in held[p]
    /\ owner' = IF owner[n] = k THEN [owner EXCEPT ![n] = 0] ELSE owner
    /\ IF success THEN Goes(p, [Idle EXCEPT !.stage = "accepted", !.id = n]) ELSE UNCHANGED call
    /\ reported' = IF owner[n] = k /\ success THEN reported \cup {n} ELSE reported
    /\ UNCHANGED <<graph, minted, held, completed, settled>>

ReportResult(p, n, k, success) ==
    /\ IsIdle(p)
    /\ <<n, k>> \in held[p]
    /\ owner[n] = k
    /\ owner' = [owner EXCEPT ![n] = 0]
    /\ IF success
       THEN /\ Goes(p, [Idle EXCEPT !.stage = "accepted", !.id = n])
            /\ reported' = reported \cup {n}
       ELSE UNCHANGED <<call, reported>>
    /\ UNCHANGED <<graph, minted, held, completed, settled>>

(* Faulty form: the id does not get from the claim to the graph. *)
MarkDone_no_id(p) ==
    /\ call[p].stage = "accepted"
    /\ Goes(p, [Idle EXCEPT !.stage = "mark_done", !.snap = graph])
    /\ UNCHANGED graph /\ Claims /\ History

MarkDone(p) ==
    /\ call[p].stage = "accepted"
    /\ Goes(p, [Idle EXCEPT !.stage = "mark_done", !.id = call[p].id, !.snap = graph])
    /\ UNCHANGED graph /\ Claims /\ History

MarkDoneSave(p) ==
    /\ call[p].stage = "mark_done"
    /\ graph' = [call[p].snap EXCEPT !.done = @ \cup {call[p].id}]
    /\ completed' = completed \cup {call[p].id}
    /\ settled' = IF Alone(p) THEN [settled EXCEPT !.done = @ \cup {call[p].id}] ELSE settled
    /\ Done(p)
    /\ Claims /\ UNCHANGED reported

(* A process dies wherever it is, and with it the tokens it was given. *)
Die(p) ==
    /\ Done(p)
    /\ held' = [held EXCEPT ![p] = {}]
    /\ UNCHANGED <<graph, owner, minted>> /\ History

Next ==
    \/ \E p \in Procs :
        \/ \E n \in Ids :
            \/ \E D \in SUBSET Ids : AddNode(p, n, D)
            \/ ClaimTask(p, n) \/ ReleaseTask(p, n)
            \/ \E k \in Tokens, success \in BOOLEAN : ReportResult(p, n, k, success)
        \/ AddNodeSave(p) \/ MarkDone(p) \/ MarkDoneSave(p) \/ Die(p)
    \/ \E n \in Ids : Reap(n)

Spec == Init /\ [][Next]_vars

-----------------------------------------------------------------------------
(* Properties. *)

TypeOK ==
    /\ graph \in Graph
    /\ owner \in [Ids -> 0 .. MaxTokens]
    /\ minted \in 0 .. MaxTokens
    /\ held \in [Procs -> SUBSET (Ids \X Tokens)]
    /\ call \in [Procs -> Call]
    /\ reported \in SUBSET Ids
    /\ completed \in SUBSET Ids
    /\ settled \in [nodes : SUBSET Ids, done : SUBSET Ids]

(* Races may lose nodes, but never close a cycle: whatever is saved was    *)
(* validated as a whole by the process that saves it.                      *)
GraphIsAcyclic == ~has_cycle(graph.deps)

(* Nothing is marked done whose success was not accepted by the claim      *)
(* store: a zombie's result never unlocks anything.                        *)
DoneWasReported == graph.done \subseteq reported

(* Only an overlap loses anything: a node or a completion that was saved    *)
(* while no other mutator had the graph loaded is in the file for good,    *)
(* through later races, ids added again, deaths, and saves of any age.     *)
UndisturbedWritesStay ==
    /\ settled.nodes \subseteq DOMAIN graph.deps
    /\ settled.done \subseteq graph.done

(* What report_result's caller is told: an accepted success has marked the *)
(* node done, so its dependents unlock, and stay unlocked.                 *)
CompletionsAreRemembered == completed \subseteq graph.done
=============================================================================
