----------------------------- MODULE MeshDriver -----------------------------
(***************************************************************************)
(* The two drivers of the mesh DAG: the foreground run (run_dispatch_mesh) *)
(* and the background coroutine (drive_background_tick), both in           *)
(* apohara-desktop-dioxus/src/coroutines/dispatch_loop.rs, over the plan   *)
(* of apohara-dispatch/src/planner.rs, the scheduler tick and the blade    *)
(* distribution of apohara-coordinator.                                    *)
(*                                                                         *)
(* Both are coroutines of one thread: what happens between two awaits is   *)
(* one step, or several where another process can come in between.  The    *)
(* claim store is the table of leases of module Lease, which ClaimStore is *)
(* shown to implement.  Other blades use the same table: ids are local to  *)
(* a plan but claims are not, so an earlier run, or a blade that calls the *)
(* mesh tools, may hold a lease on an id of this plan.                     *)
(***************************************************************************)
EXTENDS Naturals, FiniteSets, Sequences, Functions

CONSTANTS Areas,       \* ids of the areas the objective splits into, in order
          Binaries,    \* the binaries of the available blades, in roster order
          Preferred,   \* the binary affinity prefers, NoBinary without affinity
          NoBinary,    \* the binary of a node this run has not dispatched
          Capacity,    \* per_binary_capacity
          MaxTicks,    \* mesh_max_ticks
          MaxTokens,   \* bound on the leases ever granted
          MaxForeign,  \* bound on the leases granted to other blades
          MaxFaults    \* bound on the store errors and crashes

ASSUME MeshDriverAssumption ==
    /\ Areas \in Seq(STRING) /\ IsInjective(Areas)
    /\ Range(Areas) \cap {"plan", "integrate", "implement", "verify"} = {}
    /\ Binaries \in Seq(STRING) /\ NoBinary \notin Range(Binaries)
    /\ Preferred \in Range(Binaries) \cup {NoBinary}
    /\ Capacity \in Nat \ {0}
    /\ MaxTicks \in Nat /\ MaxTokens \in Nat /\ MaxForeign \in Nat /\ MaxFaults \in Nat

VARIABLES
    nodes, done,  \* graph.json of the newest run directory
    driver,       \* what each driver is doing
    drive,        \* MESH_DRIVE_LOCK: the driver that holds it, or "free"
    ticks,        \* iterations of the foreground loop
    node_binary,  \* the binary the foreground run sent each node to
    owner, fate,  \* the claim store (as in Lease)
    aged,         \* live leases whose TTL has passed
    foreign,      \* leases granted to other blades
    faults,       \* store errors and crashes so far
    visited,      \* history: nodes a driver has gone through
    overruled     \* history: reaped leases whose result was merged into HEAD

vars == <<nodes, done, driver, drive, ticks, node_binary, owner, fate, aged,
          foreign, faults, visited, overruled>>

-----------------------------------------------------------------------------
(* plan_master: plan, the slices, integrate; or plan, implement, verify.   *)
Fans == Len(Areas) >= 2

PlanOrder == IF Fans THEN <<"plan">> \o Areas \o <<"integrate">>
             ELSE <<"plan", "implement", "verify">>

Nodes == Range(PlanOrder)

Deps(n) ==
    CASE n = "plan"      -> {}
      [] n = "integrate" -> Range(Areas)
      [] n = "verify"    -> {"implement"}
      [] OTHER           -> {"plan"}

(* The order of the ids (areas sort before the rest), as claimable answers.*)
IdOrder == IF Fans THEN Areas \o <<"integrate", "plan">>
           ELSE <<"implement", "plan", "verify">>

Drivers == {"fg", "bg"}
Tokens  == 1 .. MaxTokens

Leases == INSTANCE Lease WITH Tasks <- Nodes, MaxTokens <- MaxTokens

(* batch: the assignments left; token: the lease the blade runs under, 0   *)
(* for none; ok: the gates passed.                                         *)
Idle == [at |-> "idle", batch |-> <<>>, token |-> 0, ok |-> FALSE]

At(d, places) == driver[d].at \in places
Goes(d, r) == driver' = [driver EXCEPT ![d] = r]
Moves(d, place) == Goes(d, [driver[d] EXCEPT !.at = place])

node(d) == Head(driver[d].batch)[1]
binary(d) == Head(driver[d].batch)[2]

Graph == <<nodes, done, visited>>
Store == <<owner, fate, aged, foreign>>

(* A store call fails: best-effort code logs it and goes on. *)
Fault == faults < MaxFaults /\ faults' = faults + 1
NoFault == UNCHANGED faults

Init ==
    /\ nodes = {} /\ done = {}
    /\ driver = [d \in Drivers |-> IF d = "fg" THEN [Idle EXCEPT !.at = "start"] ELSE Idle]
    /\ drive = "free"
    /\ ticks = 0
    /\ node_binary = [n \in Nodes |-> NoBinary]
    /\ Leases!Init
    /\ aged = {}
    /\ foreign = {}
    /\ faults = 0
    /\ visited = {}
    /\ overruled = {}

-----------------------------------------------------------------------------
(* The run plans before it waits for the drive lock.  An error, or a crash,*)
(* leaves a prefix of the plan behind.                                     *)
Plan ==
    /\ At("fg", {"start"})
    /\ \/ nodes' = Nodes /\ Moves("fg", "want") /\ NoFault
       \/ \E k \in 0 .. Len(PlanOrder) - 1 :
            nodes' = Range(SubSeq(PlanOrder, 1, k)) /\ Goes("fg", Idle) /\ Fault
    /\ UNCHANGED <<done, drive, ticks, node_binary, visited, overruled>> /\ UNCHANGED Store

(* The run waits for the drive lock and keeps it until it ends. *)
TakeDrive ==
    /\ At("fg", {"want"}) /\ drive = "free"
    /\ drive' = "fg"
    /\ Moves("fg", "tick")
    /\ NoFault /\ UNCHANGED <<ticks, node_binary, overruled>> /\ UNCHANGED Graph /\ UNCHANGED Store

(* Faulty form: a background tick forgets the lock. *)
Ends_keeping_drive(d) ==
    /\ Goes(d, Idle)
    /\ drive' = IF d = "fg" THEN "free" ELSE drive

Ends(d) ==
    /\ Goes(d, Idle)
    /\ drive' = "free"

-----------------------------------------------------------------------------
(* claimable: the nodes of the graph that wait for nothing and have an open*)
(* slot.  A slot taken while it reads is found taken by the claim.         *)
claimable ==
    {n \in nodes : n \notin done /\ Deps(n) \subseteq done /\ owner[n] = 0}

(* assign: each ready node, by id, to a blade whose binary has room, the   *)
(* preferred one or else the least loaded, the first of equals.            *)
pick_blade(load) ==
    LET spare == {i \in DOMAIN Binaries : load[Binaries[i]] < Capacity}
        least == {i \in spare : \A j \in spare : load[Binaries[i]] <= load[Binaries[j]]}
    IN CASE \E i \in spare : Binaries[i] = Preferred -> Preferred
         [] spare = {}                               -> NoBinary
         [] OTHER -> Binaries[CHOOSE i \in least : \A j \in least : i <= j]

place(so_far, n, ready) ==
    LET b == pick_blade(so_far.load) IN
    IF n \notin ready \/ b = NoBinary THEN so_far
    ELSE [load  |-> [so_far.load EXCEPT ![b] = @ + 1],
          batch |-> Append(so_far.batch, <<n, b>>)]

assign(ready, in_flight) ==
    LET placed[i \in 0 .. Len(IdOrder)] ==
            IF i = 0 THEN [load |-> in_flight, batch |-> <<>>]
            ELSE place(placed[i - 1], IdOrder[i], ready)
    IN placed[Len(IdOrder)].batch

(* The live claims of the nodes this run has dispatched, by binary. *)
count_in_flight ==
    [b \in Range(Binaries) |-> Cardinality({n \in Nodes : owner[n] # 0 /\ node_binary[n] = b})]

none_in_flight == [b \in Range(Binaries) |-> 0]

Dispatches(d, batch) == Goes(d, [Idle EXCEPT !.at = "claim", !.batch = batch])

(* One iteration of the foreground loop.  The tick reaps first, and does   *)
(* nothing else if it reaped something; nothing ready, or no room for any  *)
(* of it, ends the run.  A store error reads as nothing to reap, nothing   *)
(* ready, or no load.                                                      *)
Stale == {n \in Nodes : owner[n] \in aged}

MaxTicksHit ==
    /\ At("fg", {"tick"}) /\ ticks >= MaxTicks
    /\ Ends("fg")
    /\ NoFault /\ UNCHANGED <<ticks, node_binary, overruled>> /\ UNCHANGED Graph /\ UNCHANGED Store

Ticks ==
    /\ At("fg", {"tick"}) /\ ticks < MaxTicks
    /\ ticks' = ticks + 1
    /\ UNCHANGED <<node_binary, overruled>> /\ UNCHANGED Graph

StallDetected ==
    /\ Ticks /\ Stale # {}
    /\ owner' = [n \in Nodes |-> IF n \in Stale THEN 0 ELSE owner[n]]
    /\ fate' = [k \in Tokens |-> IF k \in aged THEN "reaped" ELSE fate[k]]
    /\ aged' = {}
    /\ NoFault /\ UNCHANGED <<driver, drive, foreign>>

NoOp ==
    /\ Ticks
    /\ \/ Stale = {} /\ claimable = {} /\ NoFault
       \/ Fault
    /\ Ends("fg")
    /\ UNCHANGED Store

Dispatched ==
    /\ Ticks /\ claimable # {}
    /\ \E load \in {count_in_flight, none_in_flight} :
        /\ \/ Stale = {} /\ load = count_in_flight /\ NoFault
           \/ Fault
        /\ LET batch == assign(claimable, load) IN
           IF batch = <<>> THEN Ends("fg") ELSE Dispatches("fg", batch) /\ UNCHANGED drive
    /\ UNCHANGED Store

(* A background tick tries the lock, and lets it go at once if there is    *)
(* nothing to do (no step).                                                *)
(* Faulty form: it does not look whether a run is on.                      *)
BackgroundTick_barging ==
    /\ At("bg", {"idle"})
    /\ LET batch == assign(claimable, none_in_flight) IN
       batch # <<>> /\ Dispatches("bg", batch)
    /\ drive' = IF drive = "free" THEN "bg" ELSE drive
    /\ NoFault /\ UNCHANGED <<ticks, node_binary, overruled>> /\ UNCHANGED Graph /\ UNCHANGED Store

BackgroundTick ==
    /\ At("bg", {"idle"}) /\ drive = "free"
    /\ LET batch == assign(claimable, none_in_flight) IN
       batch # <<>> /\ Dispatches("bg", batch)
    /\ drive' = "bg"
    /\ NoFault /\ UNCHANGED <<ticks, node_binary, overruled>> /\ UNCHANGED Graph /\ UNCHANGED Store

-----------------------------------------------------------------------------
(* The driver is through with a node: it marks it done, whatever became of *)
(* it, or fails to, and turns to its next assignment.                      *)
TurnsToNext(d) ==
    IF Len(driver[d].batch) > 1
    THEN Dispatches(d, Tail(driver[d].batch)) /\ UNCHANGED drive
    ELSE IF d = "fg" THEN Goes(d, [Idle EXCEPT !.at = "tick"]) /\ UNCHANGED drive
    ELSE Ends(d)

(* Faulty forms: only a success is recorded; the whole batch is.           *)
MarkDone_success_only(d) ==
    /\ IF driver[d].ok THEN done' = done \cup {node(d)} ELSE UNCHANGED done
    /\ NoFault
    /\ visited' = visited \cup {node(d)}
    /\ TurnsToNext(d)
    /\ UNCHANGED nodes

MarkDone_batch(d) ==
    /\ done' = done \cup {driver[d].batch[i][1] : i \in DOMAIN driver[d].batch}
    /\ NoFault
    /\ visited' = visited \cup {node(d)}
    /\ TurnsToNext(d)
    /\ UNCHANGED nodes

MarkDone(d) ==
    /\ \/ done' = done \cup {node(d)} /\ NoFault
       \/ UNCHANGED done /\ Fault
    /\ visited' = visited \cup {node(d)}
    /\ TurnsToNext(d)
    /\ UNCHANGED nodes

(* spawn_blade, for the assignment at the head of the batch.               *)
fresh_claim_token == CHOOSE k \in Tokens :
    fate[k] = "unminted" /\ \A j \in Tokens : fate[j] = "unminted" => k <= j

CanMint == \E k \in Tokens : fate[k] = "unminted"

Maps(d) == node_binary' = IF d = "fg" THEN [node_binary EXCEPT ![node(d)] = binary(d)]
                          ELSE node_binary

Spawns(d, k) ==
    /\ Goes(d, [driver[d] EXCEPT !.at = "work", !.token = k])
    /\ Maps(d)
    /\ UNCHANGED <<drive, ticks, overruled>> /\ UNCHANGED Graph

Acquired(d) ==
    /\ At(d, {"claim"}) /\ CanMint
    /\ Leases!Grant(node(d), fresh_claim_token)
    /\ Spawns(d, fresh_claim_token)
    /\ NoFault /\ UNCHANGED <<aged, foreign>>

(* The slot is taken, or its lock is at this moment (also what is left when*)
(* the bound on tokens is reached).  Nothing is spawned.                   *)
AlreadyClaimed(d) ==
    /\ At(d, {"claim"})
    /\ Maps(d)
    /\ MarkDone(d)
    /\ UNCHANGED <<ticks, overruled>> /\ UNCHANGED Store

(* A claim that fails is not fatal: the blade runs without a lease. *)
ClaimFails(d) ==
    /\ At(d, {"claim"})
    /\ Fault
    /\ Spawns(d, 0)
    /\ UNCHANGED Store

(* Faulty form: a lease that has ended goes on being aged. *)
EndLease_still_aged(n, how) ==
    /\ Leases!End(n, how)
    /\ UNCHANGED <<aged, foreign>>

EndLease(n, how) ==
    /\ Leases!End(n, how)
    /\ aged' = aged \ {owner[n]}
    /\ UNCHANGED foreign

(* The dispatch ends (it has a timeout, but also waits, past it, for the   *)
(* pipes of whatever the blade has left running), the gates decide and the *)
(* result is reported: accepted under the lease that owns the node, or *)
(* refused as stale.  Either way the work goes on to be integrated if the  *)
(* gates passed.                                                           *)
(* Faulty form: the claim of a failed blade is left to the reaper.         *)
BladeEnds_success_only(d) ==
    /\ At(d, {"work"})
    /\ \E ok \in BOOLEAN :
        /\ Goes(d, [driver[d] EXCEPT !.at = IF ok THEN "merge" ELSE "cleanup", !.ok = ok])
        /\ IF ok /\ driver[d].token # 0 /\ owner[node(d)] = driver[d].token
           THEN EndLease(node(d), "accepted") ELSE UNCHANGED Store
    /\ NoFault /\ UNCHANGED <<drive, ticks, node_binary, overruled>> /\ UNCHANGED Graph

BladeEnds(d) ==
    /\ At(d, {"work"})
    /\ \E ok \in BOOLEAN :
        Goes(d, [driver[d] EXCEPT !.at = IF ok THEN "merge" ELSE "cleanup", !.ok = ok])
    /\ \/ /\ driver[d].token # 0 /\ owner[node(d)] = driver[d].token
          /\ EndLease(node(d), "accepted") /\ NoFault
       \/ /\ driver[d].token = 0 \/ owner[node(d)] # driver[d].token
          /\ UNCHANGED Store /\ NoFault
       \/ driver[d].token # 0 /\ Fault /\ UNCHANGED Store
    /\ UNCHANGED <<drive, ticks, node_binary, overruled>> /\ UNCHANGED Graph

(* The slice is merged; or there was nothing to commit, it conflicted, or  *)
(* git failed.                                                             *)
Merge(d) ==
    /\ At(d, {"merge"})
    /\ \/ overruled' = overruled \cup {k \in {driver[d].token} \ {0} : fate[k] = "reaped"}
       \/ UNCHANGED overruled
    /\ Moves(d, "cleanup")
    /\ NoFault /\ UNCHANGED <<drive, ticks, node_binary>> /\ UNCHANGED Graph /\ UNCHANGED Store

Cleanup(d) ==
    /\ At(d, {"cleanup"})
    /\ MarkDone(d)
    /\ UNCHANGED <<ticks, node_binary, overruled>> /\ UNCHANGED Store

-----------------------------------------------------------------------------
(* The environment: the application dies and is started again, with no run *)
(* in the foreground; leases age; the watcher reaps the aged ones; other   *)
(* blades claim a node, and release one, which takes no token.             *)
Crash ==
    /\ \E d \in Drivers : ~At(d, {"idle"})
    /\ Fault
    /\ driver' = [d \in Drivers |-> Idle]
    /\ drive' = "free"
    /\ UNCHANGED <<ticks, node_binary, overruled>> /\ UNCHANGED Graph /\ UNCHANGED Store

Outside == UNCHANGED <<driver, drive, ticks, node_binary, faults, overruled>> /\ UNCHANGED Graph

Age(k) ==
    /\ fate[k] = "live" /\ k \notin aged
    /\ aged' = aged \cup {k}
    /\ UNCHANGED <<owner, fate, foreign>> /\ Outside

Reap(n) == n \in Stale /\ EndLease(n, "reaped") /\ Outside

ForeignClaim(n) ==
    /\ CanMint /\ Cardinality(foreign) < MaxForeign
    /\ Leases!Grant(n, fresh_claim_token)
    /\ foreign' = foreign \cup {fresh_claim_token}
    /\ UNCHANGED aged /\ Outside

ForeignRelease(n) == owner[n] # 0 /\ EndLease(n, "released") /\ Outside

Spawn(d) == Acquired(d) \/ AlreadyClaimed(d) \/ BladeEnds(d) \/ Merge(d) \/ Cleanup(d)
Loop == MaxTicksHit \/ StallDetected \/ NoOp \/ Dispatched

Next ==
    \/ Plan \/ TakeDrive \/ Loop \/ BackgroundTick
    \/ \E d \in Drivers : Spawn(d) \/ ClaimFails(d)
    \/ Crash
    \/ \E k \in Tokens : Age(k)
    \/ \E n \in Nodes : Reap(n) \/ ForeignClaim(n) \/ ForeignRelease(n)

Spec == Init /\ [][Next]_vars

(* Both drivers are tasks of a runtime that keeps running them, the        *)
(* background tick comes once a second and the drive lock is granted in    *)
(* turn; time passes, no driver beats for its lease, and the watcher sweeps*)
(* once a second, over records that can be read.  Nothing obliges a        *)
(* dispatch to end, nor another blade to stop beating or to do anything.   *)
Fairness ==
    /\ WF_vars(Plan) /\ SF_vars(TakeDrive) /\ WF_vars(Loop) /\ WF_vars(BackgroundTick)
    /\ \A d \in Drivers : WF_vars(~At(d, {"work"}) /\ Spawn(d))
    /\ \A k \in Tokens : WF_vars(k \notin foreign /\ Age(k))
    /\ \A n \in Nodes : WF_vars(Reap(n))

FairSpec == Spec /\ Fairness

-----------------------------------------------------------------------------
(* Properties. *)

Spawning == {"claim", "work", "merge", "cleanup"}

TypeOK ==
    /\ nodes \subseteq Nodes /\ done \subseteq Nodes /\ visited \subseteq Nodes
    /\ \A d \in Drivers :
        /\ driver[d].at \in {"idle", "start", "want", "tick"} \cup Spawning
        /\ driver[d].batch \in Seq(Nodes \X Range(Binaries))
        /\ driver[d].token \in 0 .. MaxTokens /\ driver[d].ok \in BOOLEAN
        /\ At(d, Spawning) <=> driver[d].batch # <<>>
    /\ drive \in Drivers \cup {"free"}
    /\ ticks \in 0 .. MaxTicks
    /\ node_binary \in [Nodes -> Range(Binaries) \cup {NoBinary}]
    /\ owner \in [Nodes -> 0 .. MaxTokens]
    /\ fate \in [Tokens -> Leases!Fates]
    /\ aged \subseteq {k \in Tokens : fate[k] = "live"}
    /\ foreign \subseteq Tokens /\ overruled \subseteq Tokens
    /\ faults \in 0 .. MaxFaults

(* One driver at a time ticks, spawns, integrates or marks: whoever does   *)
(* holds the drive lock, across all the awaits of a spawn.                 *)
SingleDriver == \A d \in Drivers : At(d, Spawning \cup {"tick"}) => drive = d

(* The order of the plan survives both drivers, other blades' claims and   *)
(* every failure: a node is only sent to a blade when a driver has gone    *)
(* through each of its dependencies first.                                 *)
DependencyOrder ==
    \A d \in Drivers : \A i \in DOMAIN driver[d].batch :
        Deps(driver[d].batch[i][1]) \subseteq visited

(* A node that was marked done is never dispatched again, by either driver,*)
(* from a batch computed before or after.                                  *)
NeverRedispatched ==
    [][\A d \in Drivers : Acquired(d) => node(d) \notin done]_vars

(* No lease is left behind for the reaper: without a store error or a crash*)
(* the only live leases of this application are those of blades at work.   *)
NoLeakedClaim ==
    faults = 0 =>
        \A k \in Tokens \ foreign : fate[k] = "live" =>
            \E d \in Drivers : driver[d].token = k /\ At(d, {"work"})

(* A run ends: no claim of another blade, reaped or not, no failing blade  *)
(* and no background tick keeps it from giving the drive back.  Only a     *)
(* dispatch that never returns can, its own or the background driver's.    *)
RunEnds ==
    \/ ~At("fg", {"idle"}) ~> At("fg", {"idle"})
    \/ \E d \in Drivers : <>[]At(d, {"work"})

(* The DAG drains: whatever is left over when the run ends, or the whole   *)
(* application dies, the background driver finishes.  A dispatch that never*)
(* returns prevents it, and another blade that holds on to a node.         *)
Drains ==
    \/ <>[](nodes \subseteq done)
    \/ \E d \in Drivers : <>[]At(d, {"work"})
    \/ \E n \in Nodes : <>[](owner[n] \in foreign)

(* What dispatch_loop.rs says of a stale token: the result of a blade whose*)
(* slot was reaped is no longer authoritative.                             *)
StaleResultsAreDropped == overruled = {}

(* What dispatch_loop.rs says of NoOp: the DAG has drained. *)
NoOpMeansDrained == [][NoOp /\ faults' = faults => nodes \subseteq done]_vars
=============================================================================
