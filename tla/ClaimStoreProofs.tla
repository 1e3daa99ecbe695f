-------------------------- MODULE ClaimStoreProofs --------------------------
(***************************************************************************)
(* Proofs about ClaimStore, for any tasks, processes, TTL and bounds: type *)
(* correctness, the safety invariants and action properties, and that the  *)
(* store implements the lease table of module Lease.                       *)
(***************************************************************************)
EXTENDS ClaimStore, TLAPS

LEMMA Constructors ==
    /\ Missing \in ClaimRecord /\ Released \in ClaimRecord
    /\ Idle \in Call
BY ClaimStoreAssumption DEF Missing, Released, ClaimRecord, Idle, Begun, Call, NoBeat, NoTime,
   RunStates, Ops, Stages, Times, Heartbeat

SameRest(c, d) == /\ d.op = c.op /\ d.token = c.token
                  /\ d.now = c.now /\ d.start = c.start

LEMMA Moved ==
    ASSUME NEW c \in Call
    PROVE  /\ \A t \in Tasks :
                LET d == [c EXCEPT !.stage = "waiting", !.task = t]
                IN  d \in Call /\ d.stage = "waiting" /\ d.task = t /\ SameRest(c, d)
           /\ \A T \in SUBSET Tasks :
                LET d == [c EXCEPT !.todo = T]
                IN  d \in Call /\ d.stage = c.stage /\ d.task = c.task /\ SameRest(c, d)
           /\ LET d == [c EXCEPT !.stage = "locked"]
              IN  d \in Call /\ d.stage = "locked" /\ d.task = c.task /\ SameRest(c, d)
BY DEF Call, Stages, SameRest

LEMMA Loaded ==
    ASSUME NEW c \in Call, NEW r \in ClaimRecord
    PROVE  LET d == [c EXCEPT !.stage = "loaded", !.snap = r]
           IN  /\ d \in Call /\ d.stage = "loaded" /\ d.task = c.task /\ d.snap = r
               /\ SameRest(c, d)
BY DEF Call, Stages, SameRest

LEMMA Swept ==
    ASSUME NEW now \in Times, NEW T \in SUBSET Tasks
    PROVE  Sweeping(now, T) \in Call /\ Sweeping(now, T).stage = "sweep"
BY Constructors, ClaimStoreAssumption DEF Sweeping, Begun, Call, Ops, Stages

LEMMA TypeEntered ==
    ASSUME TypeOK, NEW p \in Pids, NEW c \in Call, Entered(p, c),
           c.stage \notin {"idle", "sweep"} => c.task \in Tasks,
           flock' \in [Tasks -> Pids \cup {NoPid}]
    PROVE  TypeOK'
BY DEF TypeOK, Entered

(* A process entering a call, or moving on inside one. *)
LEMMA TypeCall ==
    ASSUME TypeOK, NEW p \in Pids,
           \/ \E t \in Tasks :
               \/ TryClaim(p, t)
               \/ BeginRelease(p, t)
               \/ \E k \in Tokens : \/ BeginReport(p, t, k)
                                    \/ \E s \in {0, start[p]} : BeginHeartbeat(p, t, k, s)
               \/ SweepNext(p, t)
           \/ BeginSweep(p) \/ SweepEnd(p) \/ Lock(p) \/ Load(p)
    PROVE  TypeOK'
<1> USE Constructors, ClaimStoreAssumption
<1>1. ASSUME NEW t \in Tasks, TryClaim(p, t) PROVE TypeOK'
  <2> DEFINE c == Begun("try_claim", "locked", t, 0, 0, 0)
  <2>1. c \in Call /\ (c.stage \notin {"idle", "sweep"} => c.task \in Tasks)
    BY DEF Begun, Call, Ops, Stages, Times
  <2>2. flock' \in [Tasks -> Pids \cup {NoPid}] /\ Entered(p, c)
    BY <1>1 DEF TryClaim, TypeOK
  <2>3. QED BY <2>1, <2>2, TypeEntered
<1>2. ASSUME NEW t \in Tasks, BeginRelease(p, t) PROVE TypeOK'
  <2> DEFINE c == Begun("release", "waiting", t, 0, 0, 0)
  <2>1. c \in Call /\ (c.stage \notin {"idle", "sweep"} => c.task \in Tasks)
    BY DEF Begun, Call, Ops, Stages, Times
  <2>2. flock' \in [Tasks -> Pids \cup {NoPid}] /\ Entered(p, c)
    BY <1>2 DEF BeginRelease, TypeOK
  <2>3. QED BY <2>1, <2>2, TypeEntered
<1>3. ASSUME NEW t \in Tasks, NEW k \in Tokens, BeginReport(p, t, k) PROVE TypeOK'
  <2> DEFINE c == Begun("report_result", "waiting", t, k, 0, 0)
  <2>1. c \in Call /\ (c.stage \notin {"idle", "sweep"} => c.task \in Tasks)
    BY DEF Begun, Call, Ops, Stages, Tokens, Times
  <2>2. flock' \in [Tasks -> Pids \cup {NoPid}] /\ Entered(p, c)
    BY <1>3 DEF BeginReport, TypeOK
  <2>3. QED BY <2>1, <2>2, TypeEntered
<1>4. ASSUME NEW t \in Tasks, NEW k \in Tokens, NEW s \in {0, start[p]},
             BeginHeartbeat(p, t, k, s)
      PROVE  TypeOK'
  <2> DEFINE c == Begun("heartbeat", "waiting", t, k, clock, s)
  <2>0. clock \in Times /\ s \in 0 .. MaxStarts
    BY DEF TypeOK
  <2>1. c \in Call /\ (c.stage \notin {"idle", "sweep"} => c.task \in Tasks)
    BY <2>0 DEF Begun, Call, Ops, Stages, Tokens
  <2>2. flock' \in [Tasks -> Pids \cup {NoPid}] /\ Entered(p, c)
    BY <1>4 DEF BeginHeartbeat, TypeOK
  <2>3. QED BY <2>1, <2>2, TypeEntered
<1>5. ASSUME BeginSweep(p) PROVE TypeOK'
  <2> DEFINE listed == {u \in Tasks : record[u].state # "Unclaimed"}
             c == Sweeping(clock, listed)
  <2>1. c \in Call /\ (c.stage \notin {"idle", "sweep"} => c.task \in Tasks)
    BY Swept DEF TypeOK
  <2>2. flock' \in [Tasks -> Pids \cup {NoPid}] /\ Entered(p, c)
    BY <1>5 DEF BeginSweep, TypeOK
  <2>3. QED BY <2>1, <2>2, TypeEntered
<1>6. ASSUME NEW t \in Tasks, SweepNext(p, t) PROVE TypeOK'
  <2> DEFINE c == IF record[t].state \in LiveStates /\ t \notin bad
                  THEN [call[p] EXCEPT !.stage = "waiting", !.task = t]
                  ELSE [call[p] EXCEPT !.todo = @ \ {t}]
  <2>0. call[p] \in Call
    BY DEF TypeOK
  <2>1. c \in Call /\ (c.stage \notin {"idle", "sweep"} => c.task \in Tasks)
    <3>1. CASE record[t].state \in LiveStates /\ t \notin bad
      <4>1. c = [call[p] EXCEPT !.stage = "waiting", !.task = t]
        BY <3>1
      <4> HIDE DEF c
      <4>2. QED BY <4>1, <2>0, Moved
    <3>2. CASE ~(record[t].state \in LiveStates /\ t \notin bad)
      <4>1. call[p].todo \ {t} \in SUBSET Tasks /\ call[p].stage = "sweep"
        BY <1>6, <2>0 DEF SweepNext, Call
      <4>2. QED BY <3>2, <4>1, <2>0, Moved
    <3>3. QED BY <3>1, <3>2
  <2>2. flock' \in [Tasks -> Pids \cup {NoPid}] /\ Entered(p, c)
    BY <1>6 DEF SweepNext, TypeOK
  <2>3. QED BY <2>1, <2>2, TypeEntered
<1>7. ASSUME SweepEnd(p) PROVE TypeOK'
  BY <1>7, TypeEntered DEF SweepEnd, TypeOK, Idle, Begun
<1>8. ASSUME Lock(p) PROVE TypeOK'
  <2> DEFINE c == [call[p] EXCEPT !.stage = "locked"]
  <2>0. call[p] \in Call
    BY DEF TypeOK
  <2>1. c \in Call /\ (c.stage \notin {"idle", "sweep"} => c.task \in Tasks)
    BY <1>8, <2>0, Moved DEF Lock, TypeOK
  <2>2. flock' \in [Tasks -> Pids \cup {NoPid}] /\ Entered(p, c)
    BY <1>8 DEF Lock, TypeOK
  <2>3. QED BY <2>1, <2>2, TypeEntered
<1>9. ASSUME Load(p) PROVE TypeOK'
  <2> DEFINE c == [call[p] EXCEPT !.stage = "loaded", !.snap = record[call[p].task]]
  <2>0. call[p] \in Call
    BY DEF TypeOK
  <2>1. record[call[p].task] \in ClaimRecord /\ call[p].task \in Tasks
    BY <1>9 DEF TypeOK, Load
  <2>2. c \in Call /\ c.task = call[p].task
    BY <2>0, <2>1, Loaded
  <2>3. flock' \in [Tasks -> Pids \cup {NoPid}] /\ Entered(p, c)
    BY <1>9 DEF Load, TypeOK
  <2> HIDE DEF c
  <2>4. QED BY <2>1, <2>2, <2>3, TypeEntered
<1>10. QED
  BY <1>1, <1>2, <1>3, <1>4, <1>5, <1>6, <1>7, <1>8, <1>9

(* The second half of an operation, and its return. *)
LEMMA TypeDecide ==
    ASSUME TypeOK, NEW p \in Pids, Decide(p)
    PROVE  TypeOK'
<1> USE Constructors, ClaimStoreAssumption
<1>0. call[p] \in Call /\ call[p].snap \in ClaimRecord /\ call[p].task \in Tasks
  BY DEF TypeOK, Call, Decide, DecideTryClaim, DecideHeartbeat, DecideReport,
         DecideReap, DecideRelease, Deciding
<1>1. ASSUME NEW k \in 0 .. MaxTokens, Decided(p, k)
      PROVE  /\ call' \in [Pids -> Call]
             /\ \A q \in Pids : call'[q].stage \notin {"idle", "sweep"}
                               => call'[q].task \in Tasks
  BY <1>0, <1>1 DEF Decided, TypeOK, Call, Stages
<1>2. ASSUME NEW r \in ClaimRecord, Persist(call[p].task, r)
      PROVE  record' \in [Tasks -> ClaimRecord]
  BY <1>0, <1>2 DEF Persist, TypeOK
<1>3. ASSUME NEW how \in {"accepted", "released", "reaped"}, EndLease(call[p].task, how)
      PROVE  fate' \in [Tokens -> {"unminted", "live", "accepted", "released", "reaped"}]
  BY <1>3 DEF EndLease, TypeOK
<1>4. CASE DecideTryClaim(p)
  <2>1. CASE UNCHANGED <<record, minted, fate, seen>> /\ Decided(p, 0) /\ Calm
    BY <2>1, <1>1 DEF TypeOK, Calm
  <2>2. CASE /\ minted < MaxTokens /\ minted' = minted + 1
             /\ Persist(call[p].task, [state |-> "Claimed", token |-> minted + 1,
                                       claimed_at |-> clock, heartbeat |-> NoBeat])
             /\ Decided(p, minted + 1)
             /\ fate' = [fate EXCEPT ![minted + 1] = "live"]
             /\ seen' = [seen EXCEPT ![minted + 1] = clock]
             /\ Calm
    <3>1. minted + 1 \in 0 .. MaxTokens
      BY <2>2 DEF TypeOK
    <3>2. [state |-> "Claimed", token |-> minted + 1,
           claimed_at |-> clock, heartbeat |-> NoBeat] \in ClaimRecord
      BY <3>1 DEF TypeOK, ClaimRecord, RunStates
    <3>3. QED
      BY <2>2, <3>1, <3>2, <1>1, <1>2 DEF TypeOK, Calm
  <2>3. QED
    BY <1>4, <2>1, <2>2 DEF DecideTryClaim
<1>5. CASE DecideHeartbeat(p)
  <2> DEFINE r == [call[p].snap EXCEPT
                     !.heartbeat = [pid |-> p, last_beat |-> call[p].now,
                                    start |-> call[p].start]]
  <2>1. r \in ClaimRecord
    BY <1>0 DEF ClaimRecord, Heartbeat, Call
  <2>2. record' \in [Tasks -> ClaimRecord] /\ seen' \in [Tokens -> Times]
    BY <1>0, <1>2, <1>5, <2>1 DEF DecideHeartbeat, TypeOK, Call
  <2>3. QED
    BY <1>1, <1>5, <2>2 DEF DecideHeartbeat, TypeOK, Calm
<1>6. CASE DecideReport(p)
  BY <1>1, <1>2, <1>6 DEF DecideReport, TypeOK, Calm
<1>7. CASE DecideReap(p)
  BY <1>1, <1>2, <1>3, <1>7 DEF DecideReap, TypeOK, Calm
<1>8. CASE DecideRelease(p)
  BY <1>1, <1>2, <1>3, <1>8 DEF DecideRelease, TypeOK, Calm
<1>9. QED
  BY <1>4, <1>5, <1>6, <1>7, <1>8 DEF Decide

LEMMA TypeReturn ==
    ASSUME TypeOK, NEW p \in Pids, Return(p) \/ Fails(p)
    PROVE  TypeOK'
<1> USE Constructors, ClaimStoreAssumption
<1>1. call[p] \in Call /\ call[p].task \in Tasks
  BY DEF TypeOK, Return, Fails
<1>2. held' \in [Pids -> SUBSET (Tasks \X Tokens)]
  <2>1. CASE Return(p)
    BY <1>1, <2>1 DEF TypeOK, Return, Call, Tokens
  <2>2. CASE Fails(p)
    BY <2>2 DEF TypeOK, Fails
  <2>3. QED BY <2>1, <2>2
<1>3. PICK d \in Call : d.stage \in {"idle", "sweep"} /\ call' = [call EXCEPT ![p] = d]
  <2>1. CASE call[p].op = "reap"
    <3>1. call[p].todo \ {call[p].task} \in SUBSET Tasks
      BY <1>1 DEF Call
    <3>2. QED BY <1>1, <2>1, <3>1, Swept DEF Return, Fails, Leave, Call
  <2>2. CASE call[p].op # "reap"
    BY <2>2 DEF Return, Fails, Leave, Idle, Begun
  <2>3. QED BY <2>1, <2>2
<1>4. /\ call' \in [Pids -> Call]
      /\ \A q \in Pids : call'[q].stage \notin {"idle", "sweep"} => call'[q].task \in Tasks
  BY <1>3 DEF TypeOK
<1>5. QED
  BY <1>1, <1>2, <1>4 DEF TypeOK, Return, Fails, Leave

(* Time passing, and processes coming and going. *)
LEMMA TypeEnv ==
    ASSUME TypeOK, \/ Tick \/ \E t \in Tasks : Turns(t)
                   \/ \E p \in Pids : Spawn(p) \/ Die(p)
    PROVE  TypeOK'
<1> USE Constructors, ClaimStoreAssumption
<1>1. CASE Tick
  BY <1>1 DEF Tick, TypeOK, Times
<1>2. ASSUME NEW p \in Pids, Spawn(p) PROVE TypeOK'
  BY <1>2 DEF Spawn, TypeOK
<1>3. ASSUME NEW p \in Pids, Die(p) PROVE TypeOK'
  BY <1>3 DEF Die, TypeOK, Idle, Begun
<1>4. ASSUME NEW t \in Tasks, Turns(t) PROVE TypeOK'
  BY <1>4 DEF Turns, TypeOK
<1>5. QED
  BY <1>1, <1>2, <1>3, <1>4

LEMMA TypeStep == TypeOK /\ [Next]_vars => TypeOK'
<1> SUFFICES ASSUME TypeOK, [Next]_vars PROVE TypeOK'
  OBVIOUS
<1>1. CASE UNCHANGED vars
  BY <1>1 DEF vars, TypeOK
<1>2. CASE Next
  BY <1>2, TypeCall, TypeDecide, TypeReturn, TypeEnv DEF Next, Step
<1>3. QED
  BY <1>1, <1>2

LEMMA TypeInit == Init => TypeOK
BY Constructors, ClaimStoreAssumption DEF Init, TypeOK, Idle, Begun, Times, Tokens

(* Every state the store reaches is well typed: records, calls and leases  *)
(* stay within what claim.rs can write or hold.                            *)
THEOREM TypeCorrect == Spec => []TypeOK
BY TypeInit, TypeStep, PTL DEF Spec

-----------------------------------------------------------------------------
(* The inductive invariant.  The safety properties are not inductive by    *)
(* themselves: they rest on what a process inside a call knows (Calls), on *)
(* which tokens exist (Mints) and which process got each one, including the*)
(* one a successful try_claim has persisted and not yet returned (Grants), *)
(* and on the liveness metadata in a record being at least as fresh as the *)
(* last proof of life of its lease, and its holder's own (Beats).          *)

CallKnows(p) ==
    /\ InWindow(p) => flock[call[p].task] = p
    /\ call[p].op \in {"heartbeat", "report_result"} /\ call[p].stage # "done"
          => <<call[p].task, call[p].token>> \in held[p] /\ call[p].token \in Tokens
    /\ call[p].op = "heartbeat" => call[p].start \in {0, start[p]}
    /\ call[p].op = "reap" => call[p].now <= clock
    /\ call[p].stage = "sweep" => call[p].op = "reap"
    /\ start[p] = 0 => call[p].stage = "idle" /\ held[p] = {}

Calls == \A p \in Pids : CallKnows(p)

Mints == \A k \in Tokens : fate[k] = "unminted" <=> k > minted

Got(p, t, k) ==
    \/ <<t, k>> \in held[p]
    \/ /\ call[p].op = "try_claim" /\ call[p].stage = "done"
       /\ call[p].task = t /\ call[p].token = k

Grants ==
    \A p \in Pids, t \in Tasks, k \in Tokens :
        Got(p, t, k) => /\ k <= minted
                        /\ \A q \in Pids, u \in Tasks : Got(q, u, k) => q = p

Beats ==
    \A u \in Tasks : record[u].token # 0 =>
        /\ seen[record[u].token] <= last_seen(record[u])
        /\ record[u].heartbeat # NoBeat =>
             \A p \in Pids, t \in Tasks :
                Got(p, t, record[u].token) => /\ record[u].heartbeat.pid = p
                                             /\ record[u].heartbeat.start \in {0, start[p]}

IInv == TypeOK /\ Calls /\ NoLostUpdate /\ Mints /\ RecordsAreLeases /\ Grants /\ Beats

(* A step that only moves p inside its call keeps the invariant, if p knows*)
(* at its new place what Calls and NoLostUpdate say it knows.              *)
LEMMA EnteredKeeps ==
    ASSUME IInv, NEW p \in Pids, NEW c \in Call, Entered(p, c), TypeOK',
           start[p] # 0, c.stage # "done",
           c.stage \in {"locked", "loaded"} => flock'[c.task] = p,
           c.stage = "loaded" => c.snap = record[c.task],
           c.op \in {"heartbeat", "report_result"}
             => <<c.task, c.token>> \in held[p] /\ c.token \in Tokens,
           c.op = "heartbeat" => c.start \in {0, start[p]},
           c.op = "reap" => c.now <= clock,
           c.stage = "sweep" => c.op = "reap",
           \A q \in Pids \ {p} : InWindow(q) => flock'[call[q].task] = q
    PROVE  IInv'
<1>1. call' = [call EXCEPT ![p] = c] /\ call \in [Pids -> Call]
      /\ UNCHANGED <<record, held, start, starts, clock, minted, fate, seen>>
  BY DEF Entered, IInv, TypeOK
<1>2. call'[p] = c /\ \A q \in Pids \ {p} : call'[q] = call[q]
  BY <1>1
<1>3. Calls'
  BY <1>1, <1>2 DEF Calls, CallKnows, IInv, InWindow
<1>4. NoLostUpdate'
  BY <1>1, <1>2 DEF NoLostUpdate, IInv
<1>5. \A q \in Pids, t \in Tasks, k \in Tokens : Got(q, t, k)' => Got(q, t, k)
  BY <1>1, <1>2 DEF Got
<1>6. Mints' /\ RecordsAreLeases'
  BY <1>1 DEF Mints, RecordsAreLeases, IInv
<1>7. Grants'
  BY <1>1, <1>5 DEF Grants, IInv
<1>8. Beats'
  <2>1. \A u \in Tasks : record[u].token \in 0 .. MaxTokens
    BY DEF IInv, TypeOK, ClaimRecord
  <2>2. ASSUME NEW u \in Tasks, record[u].token # 0
        PROVE  record[u].token \in Tokens /\ last_seen(record[u])' = last_seen(record[u])
    BY <1>1, <2>1, <2>2, ClaimStoreAssumption DEF Tokens, last_seen
  <2>3. QED BY <1>1, <1>5, <2>2 DEF Beats, IInv
<1>9. QED
  BY <1>3, <1>4, <1>6, <1>7, <1>8 DEF IInv

LEMMA CallKeeps ==
    ASSUME IInv, TypeOK', NEW p \in Pids,
           \/ \E t \in Tasks :
               \/ TryClaim(p, t)
               \/ BeginRelease(p, t)
               \/ \E k \in Tokens : \/ BeginReport(p, t, k)
                                    \/ \E s \in {0, start[p]} : BeginHeartbeat(p, t, k, s)
               \/ SweepNext(p, t)
           \/ BeginSweep(p) \/ SweepEnd(p) \/ Lock(p) \/ Load(p)
    PROVE  IInv'
<1> USE ClaimStoreAssumption
<1>0. call[p] \in Call /\ clock \in Times /\ start[p] \in 0 .. MaxStarts
  BY DEF TypeOK, IInv
<1>a. \A q \in Pids \ {p} : InWindow(q) => flock[call[q].task] = q /\ q # NoPid
                                             /\ call[q].task \in Tasks
  BY DEF Calls, CallKnows, TypeOK, InWindow, IInv
<1>b. CanCall(p) \/ call[p].stage # "idle" => start[p] # 0
  BY DEF CanCall, Calls, CallKnows, IInv
<1>1. ASSUME NEW t \in Tasks, TryClaim(p, t) PROVE IInv'
  <2> DEFINE c == Begun("try_claim", "locked", t, 0, 0, 0)
  <2>1. c \in Call /\ c.op = "try_claim" /\ c.stage = "locked" /\ c.task = t
    BY Constructors DEF Begun, Call, Ops, Stages, Times
  <2>2. /\ Entered(p, c) /\ flock'[t] = p /\ start[p] # 0
        /\ \A q \in Pids \ {p} : InWindow(q) => flock'[call[q].task] = q
    BY <1>1, <1>a, <1>b DEF TryClaim, TypeOK, IInv
  <2> HIDE DEF c
  <2>3. QED BY <2>1, <2>2, EnteredKeeps
<1>2. ASSUME NEW t \in Tasks, BeginRelease(p, t) PROVE IInv'
  <2> DEFINE c == Begun("release", "waiting", t, 0, 0, 0)
  <2>1. c \in Call /\ c.op = "release" /\ c.stage = "waiting"
    BY Constructors DEF Begun, Call, Ops, Stages, Times
  <2>2. Entered(p, c) /\ start[p] # 0 /\ UNCHANGED flock
    BY <1>2, <1>b DEF BeginRelease
  <2> HIDE DEF c
  <2>3. QED BY <1>a, <2>1, <2>2, EnteredKeeps
<1>3. ASSUME NEW t \in Tasks, NEW k \in Tokens, BeginReport(p, t, k) PROVE IInv'
  <2> DEFINE c == Begun("report_result", "waiting", t, k, 0, 0)
  <2>1. c \in Call /\ c.op = "report_result" /\ c.stage = "waiting" /\ c.task = t /\ c.token = k
    BY Constructors DEF Begun, Call, Ops, Stages, Times, Tokens
  <2>2. Entered(p, c) /\ start[p] # 0 /\ UNCHANGED flock /\ <<t, k>> \in held[p]
    BY <1>3, <1>b DEF BeginReport
  <2> HIDE DEF c
  <2>3. QED BY <1>a, <2>1, <2>2, EnteredKeeps
<1>4. ASSUME NEW t \in Tasks, NEW k \in Tokens, NEW s \in {0, start[p]},
             BeginHeartbeat(p, t, k, s)
      PROVE  IInv'
  <2> DEFINE c == Begun("heartbeat", "waiting", t, k, clock, s)
  <2>1. /\ c \in Call /\ c.op = "heartbeat" /\ c.stage = "waiting" /\ c.task = t
        /\ c.token = k /\ c.start = s
    BY <1>0, Constructors DEF Begun, Call, Ops, Stages, Tokens
  <2>2. Entered(p, c) /\ start[p] # 0 /\ UNCHANGED flock /\ <<t, k>> \in held[p]
    BY <1>4, <1>b DEF BeginHeartbeat
  <2> HIDE DEF c
  <2>3. QED BY <1>a, <2>1, <2>2, EnteredKeeps
<1>5. ASSUME BeginSweep(p) PROVE IInv'
  <2> DEFINE listed == {u \in Tasks : record[u].state # "Unclaimed"}
             c == Sweeping(clock, listed)
  <2>1. c \in Call /\ c.op = "reap" /\ c.stage = "sweep" /\ c.now = clock
    BY <1>0, Swept DEF Sweeping, Begun
  <2>2. Entered(p, c) /\ start[p] # 0 /\ UNCHANGED flock
    BY <1>5, <1>b DEF BeginSweep
  <2>3. c.now <= clock
    BY <1>0, <2>1 DEF Times
  <2> HIDE DEF c
  <2>4. QED BY <1>a, <2>1, <2>2, <2>3, EnteredKeeps
<1>6. ASSUME NEW t \in Tasks, SweepNext(p, t) PROVE IInv'
  <2>0. call[p].stage = "sweep" /\ start[p] # 0 /\ UNCHANGED flock
        /\ call[p].op = "reap" /\ call[p].now <= clock
    BY <1>6, <1>b DEF SweepNext, Calls, CallKnows, IInv
  <2>1. CASE record[t].state \in LiveStates /\ t \notin bad
    <3> DEFINE c == [call[p] EXCEPT !.stage = "waiting", !.task = t]
    <3>1. Entered(p, c)
      BY <1>6, <2>1 DEF SweepNext
    <3>2. c \in Call /\ c.stage = "waiting" /\ SameRest(call[p], c)
      BY <1>0, Moved
    <3> HIDE DEF c
    <3>3. QED BY <1>a, <2>0, <3>1, <3>2, EnteredKeeps DEF SameRest
  <2>2. CASE ~(record[t].state \in LiveStates /\ t \notin bad)
    <3> DEFINE c == [call[p] EXCEPT !.todo = @ \ {t}]
    <3>1. Entered(p, c)
      BY <1>6, <2>2 DEF SweepNext
    <3>2. call[p].todo \ {t} \in SUBSET Tasks
      BY <1>0 DEF Call
    <3>3. c \in Call /\ c.stage = "sweep" /\ SameRest(call[p], c)
      BY <1>0, <2>0, <3>2, Moved
    <3> HIDE DEF c
    <3>4. QED BY <1>a, <2>0, <3>1, <3>3, EnteredKeeps DEF SameRest
  <2>3. QED BY <2>1, <2>2
<1>7. ASSUME SweepEnd(p) PROVE IInv'
  <2>1. Idle \in Call /\ Idle.stage = "idle" /\ Idle.op = "none"
    BY Constructors DEF Idle, Begun
  <2>2. Entered(p, Idle) /\ start[p] # 0 /\ UNCHANGED flock
    BY <1>7, <1>b DEF SweepEnd
  <2>3. QED BY <1>a, <2>1, <2>2, EnteredKeeps
<1>8. ASSUME Lock(p) PROVE IInv'
  <2> DEFINE c == [call[p] EXCEPT !.stage = "locked"]
  <2>1. c \in Call /\ c.stage = "locked" /\ c.task = call[p].task /\ SameRest(call[p], c)
    BY <1>0, Moved
  <2>2. /\ Entered(p, c) /\ flock'[call[p].task] = p /\ start[p] # 0
        /\ \A q \in Pids \ {p} : InWindow(q) => flock'[call[q].task] = q
    BY <1>8, <1>a, <1>b DEF Lock, TypeOK, IInv, IInv
  <2>3. /\ call[p].op \in {"heartbeat", "report_result"}
            => <<call[p].task, call[p].token>> \in held[p] /\ call[p].token \in Tokens
        /\ call[p].op = "heartbeat" => call[p].start \in {0, start[p]}
        /\ call[p].op = "reap" => call[p].now <= clock
    BY <1>8 DEF Lock, Calls, CallKnows, IInv
  <2> HIDE DEF c
  <2>4. QED BY <2>1, <2>2, <2>3, EnteredKeeps DEF SameRest
<1>9. ASSUME Load(p) PROVE IInv'
  <2> DEFINE c == [call[p] EXCEPT !.stage = "loaded", !.snap = record[call[p].task]]
  <2>1. record[call[p].task] \in ClaimRecord
    BY <1>9 DEF Load, TypeOK, IInv
  <2>2. /\ c \in Call /\ c.stage = "loaded" /\ c.task = call[p].task
        /\ c.snap = record[call[p].task] /\ SameRest(call[p], c)
    BY <1>0, <2>1, Loaded
  <2>3. /\ Entered(p, c) /\ UNCHANGED flock /\ flock[call[p].task] = p /\ start[p] # 0
    BY <1>9, <1>b DEF Load, Calls, CallKnows, IInv, InWindow
  <2>4. /\ call[p].op \in {"heartbeat", "report_result"}
            => <<call[p].task, call[p].token>> \in held[p] /\ call[p].token \in Tokens
        /\ call[p].op = "heartbeat" => call[p].start \in {0, start[p]}
        /\ call[p].op = "reap" => call[p].now <= clock
    BY <1>9 DEF Load, Calls, CallKnows, IInv
  <2> HIDE DEF c
  <2>5. QED BY <1>a, <2>2, <2>3, <2>4, EnteredKeeps DEF SameRest
<1>10. QED
  BY <1>1, <1>2, <1>3, <1>4, <1>5, <1>6, <1>7, <1>8, <1>9

(* A step that decides a call of p and leaves every record and lease alone. *)
LEMMA DecidedKeeps ==
    ASSUME IInv, NEW p \in Pids, NEW k \in 0 .. MaxTokens, Decided(p, k),
           call[p].stage \in {"locked", "loaded"}
    PROVE  /\ \A q \in Pids \ {p} : call'[q] = call[q]
           /\ call'[p].stage = "done" /\ call'[p].token = k
           /\ call'[p].op = call[p].op /\ call'[p].task = call[p].task
           /\ call'[p].now = call[p].now /\ call'[p].start = call[p].start
<1>1. call \in [Pids -> Call] /\ call[p] \in Call
  BY DEF IInv, TypeOK
<1>2. QED
  BY <1>1 DEF Decided, Call

(* The record a decision is about: p holds its lock, so what p loaded is   *)
(* what is on disk, and nobody else is inside the task's window.           *)
LEMMA Window ==
    ASSUME IInv, NEW p \in Pids, Decide(p)
    PROVE  /\ call[p] \in Call /\ call[p].task \in Tasks /\ start[p] # 0
           /\ record[call[p].task] \in ClaimRecord
           /\ call[p].stage \in {"locked", "loaded"}
           /\ call[p].stage = "loaded" => call[p].snap = record[call[p].task]
           /\ \A q \in Pids \ {p} : InWindow(q) => call[q].task # call[p].task
<1>1. call[p].stage \in {"locked", "loaded"}
  BY DEF Decide, DecideTryClaim, DecideHeartbeat, DecideReport, DecideReap, DecideRelease,
         Deciding
<1>2. call[p] \in Call /\ call[p].task \in Tasks
  BY <1>1 DEF IInv, TypeOK
<1>3. record[call[p].task] \in ClaimRecord
  BY <1>2 DEF IInv, TypeOK
<1>4. start[p] # 0 /\ flock[call[p].task] = p
  BY <1>1 DEF IInv, Calls, CallKnows, InWindow
<1>5. \A q \in Pids \ {p} : InWindow(q) => call[q].task # call[p].task
  BY <1>4 DEF IInv, Calls, CallKnows
<1>6. QED
  BY <1>1, <1>2, <1>3, <1>4, <1>5 DEF IInv, NoLostUpdate

(* What every decision keeps, whatever it writes to the task it is about.  *)
LEMMA DecideKeepsCalls ==
    ASSUME IInv, NEW p \in Pids, Decide(p)
    PROVE  Calls' /\ NoLostUpdate'
<1>1. PICK k \in 0 .. MaxTokens : Decided(p, k)
  <2>1. 0 \in 0 .. MaxTokens /\ (minted < MaxTokens => minted + 1 \in 0 .. MaxTokens)
    BY ClaimStoreAssumption DEF IInv, TypeOK
  <2>2. QED
    BY <2>1 DEF Decide, DecideTryClaim, DecideHeartbeat, DecideReport, DecideReap, DecideRelease
<1>2. Calm
  BY DEF Decide, DecideTryClaim, DecideHeartbeat, DecideReport, DecideReap, DecideRelease
<1>3. \A t \in Tasks \ {call[p].task} : record'[t] = record[t]
  BY DEF Decide, DecideTryClaim, DecideHeartbeat, DecideReport, DecideReap, DecideRelease,
         Persist, IInv, TypeOK
<1>4. Calls'
  <2>1. \A q \in Pids \ {p} : call'[q] = call[q]
    BY <1>1, Window, DecidedKeeps
  <2>2. /\ call'[p].stage = "done" /\ call'[p].op = call[p].op
        /\ call'[p].task = call[p].task
        /\ call'[p].now = call[p].now /\ call'[p].start = call[p].start
    BY <1>1, Window, DecidedKeeps
  <2>3. start[p] # 0 /\ InWindow(p)
    BY Window DEF InWindow
  <2>4. UNCHANGED <<flock, held, start, clock>>
    BY <1>2 DEF Calm
  <2>5. \A q \in Pids : CallKnows(q)
    BY DEF IInv, Calls
  <2>6. CallKnows(p)'
    BY <2>2, <2>3, <2>4, <2>5 DEF CallKnows, InWindow
  <2>7. ASSUME NEW q \in Pids \ {p} PROVE CallKnows(q)'
    BY <2>1, <2>4, <2>5 DEF CallKnows, InWindow
  <2>8. QED
    BY <2>6, <2>7 DEF Calls
<1>5. NoLostUpdate'
  <2>1. ASSUME NEW q \in Pids, call'[q].stage = "loaded"
        PROVE  call'[q].snap = record'[call'[q].task]
    <3>1. q # p /\ call'[q] = call[q]
      BY <1>1, <2>1, Window, DecidedKeeps
    <3>2. call[q].task \in Tasks \ {call[p].task}
      BY <2>1, <3>1, Window DEF IInv, TypeOK, InWindow
    <3>3. QED BY <1>3, <2>1, <3>1, <3>2 DEF IInv, NoLostUpdate
  <2>2. QED BY <2>1 DEF NoLostUpdate
<1>6. QED
  BY <1>4, <1>5

(* The four things a decision can do to the records and leases. *)

Nothing == UNCHANGED <<record, minted, fate, seen>>

Granted(t) ==
    /\ record[t].token = 0 /\ minted < MaxTokens /\ minted' = minted + 1
    /\ record' = [record EXCEPT ![t] = [state |-> "Claimed", token |-> minted + 1,
                                        claimed_at |-> clock, heartbeat |-> NoBeat]]
    /\ fate' = [fate EXCEPT ![minted + 1] = "live"]
    /\ seen' = [seen EXCEPT ![minted + 1] = clock]

Beaten(p, t) ==
    LET r == [record[t] EXCEPT !.heartbeat = [pid |-> p, last_beat |-> call[p].now,
                                              start |-> call[p].start]]
    IN  /\ <<t, record[t].token>> \in held[p] /\ record[t].token \in Tokens
        /\ call[p].start \in {0, start[p]}
        /\ record' = [record EXCEPT ![t] = r]
        /\ seen' = [seen EXCEPT ![record[t].token] = call[p].now]
        /\ UNCHANGED <<minted, fate>>

Ended(t, how) ==
    /\ record' = [record EXCEPT ![t] = Released]
    /\ fate' = IF record[t].token = 0 THEN fate ELSE [fate EXCEPT ![record[t].token] = how]
    /\ UNCHANGED <<minted, seen>>

LEMMA Effect ==
    ASSUME IInv, NEW p \in Pids, Decide(p)
    PROVE  LET t == call[p].task IN
           \/ Nothing
           \/ Granted(t)
           \/ Beaten(p, t)
           \/ Ended(t, "accepted")
           \/ Ended(t, "released")
           \/ Ended(t, "reaped") /\ claim_is_stale(record[t], call[p].now)
                                 /\ call[p].now <= clock
<1> DEFINE t == call[p].task
<1>0. /\ call[p] \in Call /\ t \in Tasks /\ record[t] \in ClaimRecord
      /\ call[p].stage = "loaded" => call[p].snap = record[t]
      /\ call[p].stage \in {"locked", "loaded"}
  BY Window
<1>1. CASE DecideTryClaim(p)
  <2>1. is_claimable(record[t].state) => record[t].token = 0
    BY <1>0 DEF IInv, RecordsAreLeases, is_claimable, LiveStates
  <2>2. QED
    BY <1>0, <1>1, <2>1 DEF DecideTryClaim, Deciding, Granted, Nothing, Persist
<1>2. CASE DecideHeartbeat(p)
  <2>1. <<t, call[p].token>> \in held[p] /\ call[p].start \in {0, start[p]}
        /\ call[p].token \in Tokens
    BY <1>0, <1>2 DEF IInv, Calls, CallKnows, DecideHeartbeat, Deciding
  <2>2. QED
    BY <1>0, <1>2, <2>1 DEF DecideHeartbeat, Deciding, Beaten, Nothing, Persist
<1>3. CASE DecideReport(p)
  <2>1. call[p].token \in Tokens
    BY <1>0, <1>3 DEF IInv, Calls, CallKnows, DecideReport, Deciding
  <2>2. call[p].token # 0
    BY <2>1, ClaimStoreAssumption DEF Tokens
  <2>3. QED
    BY <1>0, <1>3, <2>2 DEF DecideReport, Deciding, Ended, Nothing, Persist
<1>4. CASE DecideReap(p)
  <2>1. call[p].now <= clock
    BY <1>4 DEF IInv, Calls, CallKnows, DecideReap, Deciding
  <2>2. QED
    BY <1>0, <1>4, <2>1 DEF DecideReap, Deciding, Ended, EndLease, Nothing, Persist
<1>5. CASE DecideRelease(p)
  BY <1>5 DEF DecideRelease, Ended, EndLease, Persist
<1>6. QED
  BY <1>1, <1>2, <1>3, <1>4, <1>5 DEF Decide

(* No process comes by a token except the one a try_claim has just minted. *)
LEMMA GotAfterDecide ==
    ASSUME IInv, NEW p \in Pids, Decide(p),
           NEW q \in Pids, NEW u \in Tasks, NEW k \in Tokens, Got(q, u, k)'
    PROVE  Got(q, u, k) \/ (q = p /\ k = minted + 1 /\ Granted(call[p].task))
<1>0. /\ call[p] \in Call /\ call[p].task \in Tasks
      /\ call[p].stage = "loaded" => call[p].snap = record[call[p].task]
      /\ call[p].stage \in {"locked", "loaded"} /\ k # 0
  BY Window DEF Tokens
<1> DEFINE Answer(j) == /\ Decided(p, j) /\ UNCHANGED held
                        /\ \/ j = 0 \/ call[p].op # "try_claim"
                           \/ j = minted + 1 /\ Granted(call[p].task)
<1>1. PICK j \in 0 .. MaxTokens : Answer(j)
  <2>1. 0 \in 0 .. MaxTokens /\ (minted < MaxTokens => minted + 1 \in 0 .. MaxTokens)
    BY ClaimStoreAssumption DEF IInv, TypeOK
  <2>2. is_claimable(record[call[p].task].state) => record[call[p].task].token = 0
    BY <1>0 DEF IInv, RecordsAreLeases, is_claimable, LiveStates
  <2>3. CASE DecideTryClaim(p)
    <3>1. Answer(0) \/ (minted < MaxTokens /\ Answer(minted + 1))
      BY <1>0, <2>2, <2>3 DEF DecideTryClaim, Calm, Deciding, Granted, Persist
    <3> HIDE DEF Answer
    <3>2. QED BY <2>1, <3>1
  <2>4. CASE ~DecideTryClaim(p)
    <3>1. Answer(0)
      BY <2>4 DEF Decide, DecideHeartbeat, DecideReport, DecideReap, DecideRelease, Calm
    <3> HIDE DEF Answer
    <3>2. QED BY <2>1, <3>1
  <2>5. QED
    BY <2>3, <2>4
<1>2. /\ \A r \in Pids \ {p} : call'[r] = call[r]
      /\ call'[p].token = j /\ call'[p].op = call[p].op
      /\ UNCHANGED held
  BY <1>0, <1>1, DecidedKeeps
<1>3. CASE q = p
  <2>1. <<u, k>> \in held[p] \/ (call[p].op = "try_claim" /\ j = k)
    BY <1>2, <1>3 DEF Got
  <2>2. QED BY <1>0, <1>1, <1>3, <2>1 DEF Got
<1>4. CASE q # p
  BY <1>2, <1>4 DEF Got
<1>5. QED
  BY <1>3, <1>4

LEMMA DecideKeepsLeases ==
    ASSUME IInv, TypeOK', NEW p \in Pids, Decide(p)
    PROVE  Mints' /\ RecordsAreLeases' /\ Grants' /\ Beats'
<1> DEFINE t == call[p].task
<1>0. /\ t \in Tasks /\ start[p] # 0 /\ record[t] \in ClaimRecord /\ call[p] \in Call
  BY Window
<1>1. \A u \in Tasks : record[u].token \in 0 .. MaxTokens /\ record[u] \in ClaimRecord
                        /\ (record[u].token # 0 => record[u].token \in Tokens)
  BY ClaimStoreAssumption DEF IInv, TypeOK, ClaimRecord, Tokens
<1>2. /\ minted \in 0 .. MaxTokens /\ MaxTokens \in Nat /\ clock \in Nat
      /\ fate \in [Tokens -> {"unminted", "live", "accepted", "released", "reaped"}]
      /\ seen \in [Tokens -> Times] /\ record \in [Tasks -> ClaimRecord]
  BY ClaimStoreAssumption DEF IInv, TypeOK, Times
<1>3. UNCHANGED start
  BY DEF Decide, DecideTryClaim, DecideHeartbeat, DecideReport, DecideReap, DecideRelease, Calm
<1>4. /\ Mints /\ RecordsAreLeases /\ Grants /\ Beats
  BY DEF IInv
<1> HIDE DEF t
<1>5. ASSUME ~Granted(t)
      PROVE  \A q \in Pids, u \in Tasks, k \in Tokens : Got(q, u, k)' => Got(q, u, k)
  BY <1>5, GotAfterDecide DEF t
<1>6. CASE Nothing
  <2>1. ~Granted(t)
    BY <1>2, <1>6 DEF Nothing, Granted
  <2>2. \A r : last_seen(r)' = last_seen(r)
    BY DEF last_seen
  <2>3. QED
    BY <1>1, <1>3, <1>4, <1>5, <1>6, <2>1, <2>2
    DEF Nothing, Mints, RecordsAreLeases, Grants, Beats
<1>7. CASE Granted(t)
  <2> DEFINE k == minted + 1
             new == [state |-> "Claimed", token |-> k, claimed_at |-> clock,
                     heartbeat |-> NoBeat]
  <2>1. /\ k \in Tokens /\ k # 0 /\ k = minted + 1 /\ minted' = k
    BY <1>2, <1>7 DEF Granted, Tokens
  <2>2. /\ record' = [record EXCEPT ![t] = new] /\ record[t].token = 0
        /\ fate' = [fate EXCEPT ![k] = "live"] /\ seen' = [seen EXCEPT ![k] = clock]
        /\ new.state \in LiveStates /\ new.token = k /\ new.heartbeat = NoBeat
    BY <1>7 DEF Granted, LiveStates
  <2>3. last_seen(new) = clock
    BY <1>2 DEF last_seen, NoBeat, NoTime
  <2>4. fate[k] = "unminted" /\ \A j \in Tokens : j <= minted <=> fate[j] # "unminted"
    <3>1. \A j \in Tokens : j \in Nat
      BY <1>2 DEF Tokens
    <3>2. QED BY <1>2, <1>4, <2>1, <3>1 DEF Mints
  <2>5. \A u \in Tasks : record[u].token # k
    BY <1>4, <2>1, <2>4 DEF RecordsAreLeases
  <2> HIDE DEF k, new
  <2>6. Mints'
    <3>1. ASSUME NEW j \in Tokens PROVE fate'[j] = "unminted" <=> j > k
      <4>1. j \in Nat /\ k \in Nat
        BY <1>2, <2>1 DEF Tokens
      <4>2. (fate[j] = "unminted" <=> j > minted) /\ fate' = [fate EXCEPT ![k] = "live"]
        BY <1>4, <2>2 DEF Mints
      <4>3. CASE j = k
        BY <1>2, <2>1, <4>1, <4>2, <4>3
      <4>4. CASE j # k
        BY <1>2, <2>1, <4>1, <4>2, <4>4
      <4>5. QED BY <4>3, <4>4
    <3>2. QED BY <2>1, <3>1 DEF Mints
  <2>7. RecordsAreLeases'
    <3>1. record'[t] = new /\ \A u \in Tasks \ {t} : record'[u] = record[u]
      BY <1>0, <1>2, <2>2
    <3>2. fate'[k] = "live" /\ \A j \in Tokens \ {k} : fate'[j] = fate[j]
      BY <1>2, <2>1, <2>2
    <3>3. \A j \in Tokens : fate'[j] = "live" => \E u \in Tasks : record'[u].token = j
      <4>1. \A j \in Tokens : j # 0
        BY <1>2 DEF Tokens
      <4>2. QED BY <1>0, <1>4, <2>2, <3>1, <3>2, <4>1 DEF RecordsAreLeases
    <3>4. ASSUME NEW u \in Tasks
          PROVE  IF record'[u].token # 0
                 THEN /\ record'[u].state \in LiveStates
                      /\ fate'[record'[u].token] = "live"
                      /\ \A v \in Tasks : record'[v].token = record'[u].token => v = u
                 ELSE record'[u] \in {Missing, Released}
      <4>1. CASE u = t
        BY <2>1, <2>2, <2>5, <3>1, <3>2, <4>1
      <4>2. CASE u # t
        BY <1>1, <1>4, <2>2, <2>5, <3>1, <3>2, <4>2 DEF RecordsAreLeases
      <4>3. QED BY <4>1, <4>2
    <3>5. QED
      BY <3>3, <3>4 DEF RecordsAreLeases
  <2>8. Grants'
    <3>1. \A q \in Pids, u \in Tasks : ~Got(q, u, k)
      BY <1>2, <1>4, <2>1 DEF Grants, Tokens
    <3>2. ASSUME NEW q \in Pids, NEW u \in Tasks, NEW j \in Tokens, Got(q, u, j)'
          PROVE  Got(q, u, j) \/ (q = p /\ j = k)
      BY <2>1, <3>2, GotAfterDecide
    <3>3. QED
      BY <1>2, <1>4, <2>1, <3>1, <3>2 DEF Grants, Tokens
  <2>9. Beats'
    <3>1. record'[t] = new /\ \A u \in Tasks \ {t} : record'[u] = record[u]
      BY <1>0, <1>2, <2>2
    <3>2. seen'[k] = clock /\ \A j \in Tokens \ {k} : seen'[j] = seen[j]
      BY <1>2, <2>1, <2>2
    <3>3. \A u \in Tasks \ {t} : /\ last_seen(record'[u]) = last_seen(record[u])
                                 /\ record[u].token # k
      BY <2>5, <3>1 DEF last_seen
    <3>4. last_seen(record'[t]) = clock
      BY <2>3, <3>1
    <3>5. ASSUME NEW q \in Pids, NEW u \in Tasks, NEW j \in Tokens, Got(q, u, j)', j # k
          PROVE  Got(q, u, j)
      BY <2>1, <3>5, GotAfterDecide
    <3>6. QED
      BY <1>1, <1>2, <1>3, <1>4, <2>2, <3>1, <3>2, <3>3, <3>4, <3>5 DEF Beats
  <2>10. QED
    BY <2>6, <2>7, <2>8, <2>9
<1>8. CASE Beaten(p, t)
  <2> DEFINE k == record[t].token
             beat == [pid |-> p, last_beat |-> call[p].now, start |-> call[p].start]
             new == [record[t] EXCEPT !.heartbeat = beat]
  <2>1. /\ record' = [record EXCEPT ![t] = new] /\ UNCHANGED <<minted, fate>>
        /\ seen' = [seen EXCEPT ![k] = call[p].now] /\ k \in Tokens /\ k # 0
        /\ <<t, k>> \in held[p] /\ call[p].start \in {0, start[p]}
    BY <1>2, <1>8 DEF Beaten, Tokens
  <2>2. /\ new.state = record[t].state /\ new.token = k /\ new.claimed_at = record[t].claimed_at
        /\ new.heartbeat = beat
        /\ beat.pid = p /\ beat.last_beat = call[p].now /\ beat.start = call[p].start
    BY <1>0 DEF ClaimRecord
  <2>3. last_seen(new) >= call[p].now
    BY <1>0, <1>2, <2>2 DEF last_seen, ClaimRecord, Call, Times, NoTime
  <2>4. ~Granted(t)
    BY <1>2, <2>1 DEF Granted
  <2>5. \A u \in Tasks \ {t} : record[u].token # k
    BY <1>0, <1>4, <2>1 DEF RecordsAreLeases
  <2> HIDE DEF k, beat, new
  <2>6. record'[t] = new /\ \A u \in Tasks \ {t} : record'[u] = record[u]
    BY <1>0, <1>2, <2>1
  <2>7. Mints' /\ Grants'
    BY <1>4, <1>5, <2>1, <2>4 DEF Mints, Grants
  <2>8. RecordsAreLeases'
    <3>1. \A u \in Tasks : record'[u].token = record[u].token
                           /\ record'[u].state = record[u].state
                           /\ (record[u].token = 0 => record'[u] = record[u])
      BY <2>1, <2>2, <2>6 DEF k
    <3>2. QED BY <1>4, <2>1, <3>1 DEF RecordsAreLeases
  <2>9. Beats'
    <3>1. seen'[k] = call[p].now /\ \A j \in Tokens \ {k} : seen'[j] = seen[j]
      BY <1>2, <2>1
    <3>2. \A u \in Tasks \ {t} : last_seen(record'[u]) = last_seen(record[u])
      BY <2>6 DEF last_seen
    <3>3. last_seen(record'[t]) >= call[p].now
      BY <2>3, <2>6
    <3>4. \A q \in Pids, u \in Tasks, j \in Tokens : Got(q, u, j)' => Got(q, u, j)
      BY <1>5, <2>4
    <3>5. \A q \in Pids, u \in Tasks : Got(q, u, k) => q = p
      <4>1. Got(p, t, k)
        BY <2>1 DEF Got
      <4>2. QED BY <1>0, <1>4, <2>1, <4>1 DEF Grants
    <3>6. ASSUME NEW u \in Tasks, record'[u].token # 0
          PROVE  /\ seen'[record'[u].token] <= last_seen(record'[u])
                 /\ record'[u].heartbeat # NoBeat =>
                      \A q \in Pids, v \in Tasks :
                        Got(q, v, record[u].token)'
                          => /\ record'[u].heartbeat.pid = q
                             /\ record'[u].heartbeat.start \in {0, start'[q]}
      <4>1. CASE u = t
        <5>1. call[p].now \in Nat
          BY <1>0, <1>2 DEF Call, Times
        <5>2. seen'[record'[u].token] <= last_seen(record'[u])
          BY <2>2, <2>3, <2>6, <3>1, <4>1, <5>1
        <5>3. \A q \in Pids, v \in Tasks : Got(q, v, record[u].token)' => q = p
          BY <2>1, <2>2, <2>6, <3>4, <3>5, <4>1
        <5>4. QED BY <1>3, <2>1, <2>2, <2>6, <4>1, <5>2, <5>3
      <4>2. CASE u # t
        BY <1>1, <1>3, <1>4, <2>5, <2>6, <3>1, <3>2, <3>4, <3>6, <4>2 DEF Beats
      <4>3. QED BY <4>1, <4>2
    <3>7. QED BY <3>6 DEF Beats
  <2>10. QED
    BY <2>7, <2>8, <2>9
<1>9. ASSUME NEW how \in {"accepted", "released", "reaped"}, Ended(t, how)
      PROVE  Mints' /\ RecordsAreLeases' /\ Grants' /\ Beats'
  <2>1. /\ record'[t] = Released /\ \A u \in Tasks \ {t} : record'[u] = record[u]
        /\ UNCHANGED <<minted, seen>>
    BY <1>0, <1>2, <1>9 DEF Ended
  <2>2. Released.token = 0 /\ Released \in {Missing, Released}
    BY DEF Released, Missing
  <2>3. ~Granted(t)
    BY <1>2, <2>1 DEF Granted
  <2>4. \A j \in Tokens : /\ j # record[t].token => fate'[j] = fate[j]
                          /\ j = record[t].token => fate[j] = "live" /\ fate'[j] = how
    <3>1. record[t].token # 0 => fate[record[t].token] = "live"
      BY <1>0, <1>4 DEF RecordsAreLeases
    <3>2. \A j \in Tokens : j # 0
      BY <1>2 DEF Tokens
    <3>3. QED BY <1>0, <1>1, <1>2, <1>9, <3>1, <3>2 DEF Ended
  <2>5. Mints' /\ Grants'
    BY <1>4, <1>5, <2>1, <2>3, <2>4 DEF Mints, Grants
  <2>6. RecordsAreLeases'
    BY <1>0, <1>1, <1>4, <2>1, <2>2, <2>4 DEF RecordsAreLeases
  <2>7. Beats'
    <3>1. \A u \in Tasks \ {t} : last_seen(record'[u]) = last_seen(record[u])
      BY <2>1 DEF last_seen
    <3>2. \A q \in Pids, u \in Tasks, j \in Tokens : Got(q, u, j)' => Got(q, u, j)
      BY <1>5, <2>3
    <3>3. QED
      BY <1>1, <1>3, <1>4, <2>1, <2>2, <3>1, <3>2 DEF Beats
  <2>8. QED
    BY <2>5, <2>6, <2>7
<1>10. QED
  BY <1>6, <1>7, <1>8, <1>9, Effect DEF t

(* What the invariant says of records and leases survives every step that  *)
(* changes neither and gives no process a token it had not got.            *)
LEMMA FrameLeases ==
    ASSUME IInv, UNCHANGED <<record, minted, fate, seen>>,
           \A q \in Pids, u \in Tasks, k \in Tokens :
              Got(q, u, k)' => Got(q, u, k) /\ start'[q] = start[q]
    PROVE  Mints' /\ RecordsAreLeases' /\ Grants' /\ Beats'
<1>1. \A u \in Tasks : record[u].token # 0 => record[u].token \in Tokens
  BY ClaimStoreAssumption DEF IInv, TypeOK, ClaimRecord, Tokens
<1>2. \A u \in Tasks : last_seen(record'[u]) = last_seen(record[u])
  BY DEF last_seen
<1>3. QED
  BY <1>1, <1>2 DEF IInv, Mints, RecordsAreLeases, Grants, Beats

LEMMA ReturnKeeps ==
    ASSUME IInv, TypeOK', NEW p \in Pids, Return(p) \/ Fails(p)
    PROVE  IInv'
<1>0. /\ call[p] \in Call /\ call[p].task \in Tasks /\ InWindow(p)
      /\ start[p] # 0 /\ flock[call[p].task] = p
      /\ flock \in [Tasks -> Pids \cup {NoPid}] /\ held \in [Pids -> SUBSET (Tasks \X Tokens)]
  BY DEF IInv, TypeOK, Calls, CallKnows, InWindow, Return, Fails
<1>1. UNCHANGED <<record, start, starts, clock, minted, fate, seen>>
  BY DEF Return, Fails, Leave
<1>2. \A q \in Pids \ {p} : call'[q] = call[q] /\ held'[q] = held[q]
  BY <1>0 DEF Return, Fails, Leave, IInv, TypeOK
<1>3. /\ call'[p].stage \in {"idle", "sweep"}
      /\ call'[p].op \in {"none", "reap"}
      /\ call'[p].stage = "sweep" => call'[p].op = "reap"
      /\ call'[p].op = "reap" => call'[p].now <= clock
  <2>1. call'[p] = IF call[p].op = "reap"
                   THEN Sweeping(call[p].now, call[p].todo \ {call[p].task}) ELSE Idle
    BY <1>0 DEF Return, Fails, Leave, IInv, TypeOK
  <2>2. call[p].op = "reap" => call[p].now <= clock /\ clock' = clock
    BY <1>1 DEF IInv, Calls, CallKnows
  <2>3. Idle.stage = "idle" /\ Idle.op = "none"
    BY DEF Idle, Begun
  <2>4. \A n, T : /\ Sweeping(n, T).stage = "sweep" /\ Sweeping(n, T).op = "reap"
                 /\ Sweeping(n, T).now = n
    BY DEF Sweeping, Begun
  <2>5. QED BY <2>1, <2>2, <2>3, <2>4
<1>4. \A u \in Tasks, k \in Tokens : <<u, k>> \in held'[p] => Got(p, u, k)
  <2>1. CASE Return(p)
    BY <1>0, <2>1 DEF Return, Got
  <2>2. CASE Fails(p)
    BY <2>2 DEF Fails, Got
  <2>3. QED BY <2>1, <2>2
<1>5. \A q \in Pids \ {p} : InWindow(q) => flock'[call[q].task] = q
  <2>1. ASSUME NEW q \in Pids \ {p}, InWindow(q)
        PROVE  flock[call[q].task] = q /\ call[q].task \in Tasks
    BY <2>1 DEF IInv, TypeOK, Calls, CallKnows, InWindow
  <2>2. QED
    BY <1>0, <2>1 DEF Return, Fails, Leave
<1>6. Calls'
  BY <1>0, <1>1, <1>2, <1>3, <1>5 DEF IInv, Calls, CallKnows, InWindow
<1>7. NoLostUpdate'
  BY <1>1, <1>2, <1>3 DEF IInv, NoLostUpdate
<1>8. \A q \in Pids, u \in Tasks, k \in Tokens : Got(q, u, k)' => Got(q, u, k)
  BY <1>2, <1>3, <1>4 DEF Got
<1>9. QED
  BY <1>1, <1>6, <1>7, <1>8, FrameLeases DEF IInv

LEMMA EnvKeeps ==
    ASSUME IInv, TypeOK', \/ Tick \/ \E t \in Tasks : Turns(t)
                         \/ \E p \in Pids : Spawn(p) \/ Die(p)
    PROVE  IInv'
<1>1. CASE Tick
  <2>1. UNCHANGED <<record, flock, call, held, start, minted, fate, seen>> /\ clock' >= clock
        /\ clock \in Nat /\ clock' \in Nat
    BY <1>1, ClaimStoreAssumption DEF Tick, IInv, TypeOK, Times
  <2>2. \A p \in Pids : call[p].now \in Nat
    BY ClaimStoreAssumption DEF IInv, TypeOK, Call, Times
  <2>3. Calls'
    BY <2>1, <2>2 DEF IInv, Calls, CallKnows, InWindow
  <2>4. \A q \in Pids, u \in Tasks, k \in Tokens :
           Got(q, u, k)' => Got(q, u, k) /\ start'[q] = start[q]
    BY <2>1 DEF Got
  <2>5. QED
    BY <2>1, <2>3, <2>4, FrameLeases DEF IInv, NoLostUpdate
<1>2. ASSUME NEW p \in Pids, Spawn(p) PROVE IInv'
  <2>1. starts \in Nat /\ start \in [Pids -> 0 .. MaxStarts]
    BY ClaimStoreAssumption DEF IInv, TypeOK
  <2>2. /\ UNCHANGED <<record, flock, call, held, clock, minted, fate, seen>>
        /\ start' = [start EXCEPT ![p] = starts + 1] /\ start[p] = 0
    BY <1>2 DEF Spawn
  <2>3. start'[p] # 0 /\ \A q \in Pids \ {p} : start'[q] = start[q]
    BY <2>1, <2>2
  <2>4. call[p].stage = "idle" /\ held[p] = {}
    BY <2>2 DEF IInv, Calls, CallKnows
  <2>5. Calls'
    <3>1. CallKnows(p)'
      BY <2>2, <2>3, <2>4 DEF IInv, Calls, CallKnows, InWindow
    <3>2. ASSUME NEW q \in Pids \ {p} PROVE CallKnows(q)'
      BY <2>2, <2>3 DEF IInv, Calls, CallKnows, InWindow
    <3>3. QED BY <3>1, <3>2 DEF Calls
  <2>6. \A q \in Pids, u \in Tasks, k \in Tokens :
           Got(q, u, k)' => Got(q, u, k) /\ start'[q] = start[q]
    BY <2>2, <2>3, <2>4 DEF Got
  <2>7. QED
    BY <2>2, <2>5, <2>6, FrameLeases DEF IInv, NoLostUpdate
<1>3. ASSUME NEW p \in Pids, Die(p) PROVE IInv'
  <2>1. /\ UNCHANGED <<record, clock, minted, fate, seen>>
        /\ call'[p] = Idle /\ held'[p] = {}
        /\ \A q \in Pids \ {p} : /\ start'[q] = start[q] /\ call'[q] = call[q]
                                 /\ held'[q] = held[q]
        /\ \A t \in Tasks : flock[t] # p => flock'[t] = flock[t]
    BY <1>3 DEF Die, IInv, TypeOK
  <2>2. Idle.stage = "idle" /\ Idle.op = "none"
    BY DEF Idle, Begun
  <2>3. \A q \in Pids : InWindow(q) => call[q].task \in Tasks
    BY DEF IInv, TypeOK, InWindow
  <2>4. Calls'
    BY <2>1, <2>2, <2>3 DEF IInv, Calls, CallKnows, InWindow
  <2>5. \A q \in Pids, u \in Tasks, k \in Tokens :
           Got(q, u, k)' => Got(q, u, k) /\ start'[q] = start[q]
    BY <2>1, <2>2 DEF Got
  <2>6. NoLostUpdate'
    BY <2>1, <2>2 DEF IInv, NoLostUpdate
  <2>7. QED
    BY <2>1, <2>4, <2>5, <2>6, FrameLeases DEF IInv
<1>4. ASSUME NEW t \in Tasks, Turns(t) PROVE IInv'
  <2>1. UNCHANGED <<record, flock, call, held, start, starts, clock, minted, fate, seen>>
    BY <1>4 DEF Turns
  <2>2. \A q \in Pids, u \in Tasks, k \in Tokens :
           Got(q, u, k)' => Got(q, u, k) /\ start'[q] = start[q]
    BY <2>1 DEF Got
  <2>3. Calls' /\ NoLostUpdate'
    BY <2>1 DEF IInv, Calls, CallKnows, InWindow, NoLostUpdate
  <2>4. QED
    BY <2>1, <2>2, <2>3, FrameLeases DEF IInv
<1>5. QED
  BY <1>1, <1>2, <1>3, <1>4

LEMMA InvStep == IInv /\ [Next]_vars => IInv'
<1> SUFFICES ASSUME IInv, [Next]_vars PROVE IInv'
  OBVIOUS
<1>1. TypeOK'
  BY TypeStep DEF IInv
<1>2. CASE UNCHANGED vars
  <2>1. \A q \in Pids, u \in Tasks, k \in Tokens :
           Got(q, u, k)' => Got(q, u, k) /\ start'[q] = start[q]
    BY <1>2 DEF vars, Got
  <2>2. QED
    BY <1>1, <1>2, <2>1, FrameLeases DEF vars, IInv, Calls, CallKnows, InWindow, NoLostUpdate
<1>3. ASSUME NEW p \in Pids, Decide(p) PROVE IInv'
  BY <1>1, <1>3, DecideKeepsCalls, DecideKeepsLeases DEF IInv
<1>4. CASE Next
  BY <1>1, <1>3, <1>4, CallKeeps, ReturnKeeps, EnvKeeps DEF Next, Step
<1>5. QED
  BY <1>2, <1>4

LEMMA InvInit == Init => IInv
<1> SUFFICES ASSUME Init PROVE IInv
  OBVIOUS
<1>1. TypeOK
  BY TypeInit
<1>2. /\ \A p \in Pids : call[p] = Idle /\ held[p] = {} /\ start[p] = 0
      /\ \A t \in Tasks : record[t] = Missing
      /\ \A k \in Tokens : fate[k] = "unminted"
      /\ minted = 0
  BY DEF Init
<1>3. /\ Idle.stage = "idle" /\ Idle.op = "none" /\ Missing.token = 0
      /\ \A k \in Tokens : k > 0
  BY ClaimStoreAssumption DEF Idle, Begun, Missing, Tokens
<1>4. QED
  BY <1>1, <1>2, <1>3 DEF IInv, Calls, CallKnows, InWindow, NoLostUpdate, Mints,
     RecordsAreLeases, Grants, Got, Beats

LEMMA Invariant == Spec => []IInv
BY InvInit, InvStep, PTL DEF Spec

-----------------------------------------------------------------------------
(* The theorems. *)

(* No other process writes a record between the load and the persist of an *)
(* operation on it (the advisory lock of claim.rs does its work), for any  *)
(* number of tasks, processes, deaths and pid reuses.                      *)
THEOREM LockedWindows == Spec => []NoLostUpdate
<1>1. IInv => NoLostUpdate
  BY DEF IInv
<1>2. QED
  BY Invariant, <1>1, PTL

(* Records and leases correspond one to one: no live record without a      *)
(* lease, no lease lost, no token in two records, no metadata left behind. *)
THEOREM RecordsMatchLeases == Spec => []RecordsAreLeases
<1>1. IInv => RecordsAreLeases
  BY DEF IInv
<1>2. QED
  BY Invariant, <1>1, PTL

(* A token is handed to one process only. *)
THEOREM SingleAcquirer == Spec => []OneAcquirer
<1>1. IInv => OneAcquirer
  <2> SUFFICES ASSUME IInv, NEW p \in Pids, NEW q \in Pids, p # q,
                      NEW x \in held[p], x \in held[q]
               PROVE  FALSE
    BY DEF OneAcquirer
  <2>1. PICK t \in Tasks, k \in Tokens : x = <<t, k>>
    BY DEF IInv, TypeOK
  <2>2. Got(p, t, k) /\ Got(q, t, k)
    BY <2>1 DEF Got
  <2>3. QED
    BY <2>2 DEF IInv, Grants
<1>2. QED
  BY Invariant, <1>1, PTL

(* Only the deciding step of an operation touches records and leases. *)
LEMMA OnlyDecisionsCount ==
    ASSUME [Next]_vars
    PROVE  Nothing \/ \E p \in Pids : Decide(p)
<1>1. CASE UNCHANGED vars
  BY <1>1 DEF vars, Nothing
<1>2. ASSUME NEW p \in Pids, NEW t \in Tasks,
             \/ TryClaim(p, t)
             \/ BeginRelease(p, t)
             \/ \E k \in Tokens : \/ BeginReport(p, t, k)
                                  \/ \E s \in {0, start[p]} : BeginHeartbeat(p, t, k, s)
             \/ SweepNext(p, t)
      PROVE  Nothing
  BY <1>2 DEF TryClaim, BeginRelease, BeginReport, BeginHeartbeat, SweepNext, Entered, Nothing
<1>3. ASSUME NEW p \in Pids,
             \/ BeginSweep(p) \/ SweepEnd(p) \/ Lock(p) \/ Load(p)
             \/ Return(p) \/ Fails(p) \/ Spawn(p) \/ Die(p)
      PROVE  Nothing
  BY <1>3 DEF BeginSweep, SweepEnd, Lock, Load, Return, Fails, Leave, Spawn, Die, Entered, Nothing
<1>4. CASE Tick \/ \E t \in Tasks : Turns(t)
  BY <1>4 DEF Tick, Turns, Nothing
<1>5. QED
  BY <1>1, <1>2, <1>3, <1>4 DEF Next, Step

(* The end of a lease is final: what the reaper took is never accepted     *)
(* later, and an accepted result is never accepted twice or taken back.    *)
THEOREM EndingsFinal == Spec => EndingsAreFinal
<1> DEFINE A == \A k \in Tokens : fate[k] \notin {"unminted", "live"} => fate'[k] = fate[k]
<1>1. ASSUME IInv, [Next]_vars PROVE A
  <2>1. CASE Nothing
    BY <2>1 DEF Nothing
  <2>2. ASSUME NEW p \in Pids, Decide(p) PROVE A
    <3> DEFINE t == call[p].task
    <3>1. t \in Tasks
      BY <1>1, <2>2, Window
    <3>2. fate \in [Tokens -> {"unminted", "live", "accepted", "released", "reaped"}]
      BY <1>1 DEF IInv, TypeOK
    <3>3. record[t].token # 0 => fate[record[t].token] = "live"
      BY <1>1, <3>1 DEF IInv, RecordsAreLeases
    <3>4. minted < MaxTokens => minted + 1 \in Tokens /\ fate[minted + 1] = "unminted"
      BY <1>1, ClaimStoreAssumption DEF IInv, TypeOK, Mints, Tokens
    <3> HIDE DEF t
    <3>5. CASE Granted(t)
      BY <3>2, <3>4, <3>5 DEF Granted
    <3>6. ASSUME NEW how, Ended(t, how) PROVE A
      BY <3>2, <3>3, <3>6 DEF Ended
    <3>7. CASE Beaten(p, t) \/ Nothing
      BY <3>7 DEF Beaten, Nothing
    <3>8. QED
      BY <1>1, <2>2, <3>5, <3>6, <3>7, Effect DEF t
  <2>3. QED
    BY <1>1, <2>1, <2>2, OnlyDecisionsCount
<1>2. QED
  BY <1>1, Invariant, PTL DEF Spec, EndingsAreFinal

(* The reaper spares a live holder: a lease is only ever reaped from a     *)
(* process still alive once the TTL has run out since its last proof of    *)
(* life, although the sweep read the clock and filtered the records, with  *)
(* no lock held, at arbitrary earlier times.                               *)
THEOREM HolderSpared == Spec => LiveHolderSpared
<1> DEFINE A == \A k \in Tokens, p \in Pids, t \in Tasks :
                  (<<t, k>> \in held[p] /\ fate[k] = "live" /\ fate'[k] = "reaped")
                      => clock > seen[k] + Ttl
<1>1. ASSUME IInv, [Next]_vars PROVE A
  <2> SUFFICES ASSUME NEW k \in Tokens, NEW p \in Pids, NEW t \in Tasks,
                      <<t, k>> \in held[p], fate[k] = "live", fate'[k] = "reaped"
               PROVE  clock > seen[k] + Ttl
    OBVIOUS
  <2>1. PICK q \in Pids : Decide(q)
    BY <1>1, OnlyDecisionsCount DEF Nothing
  <2> DEFINE u == call[q].task
             r == record[u]
  <2>2. /\ u \in Tasks /\ r \in ClaimRecord
        /\ fate \in [Tokens -> {"unminted", "live", "accepted", "released", "reaped"}]
        /\ call[q] \in Call
    BY <1>1, <2>1, Window DEF IInv, TypeOK
  <2>3. /\ Ended(u, "reaped") /\ claim_is_stale(r, call[q].now) /\ call[q].now <= clock
    <3> HIDE DEF u
    <3>1. ~Granted(u) /\ ~Beaten(q, u) /\ ~Nothing
      BY <1>1, <2>2, ClaimStoreAssumption DEF Granted, Beaten, Nothing, IInv, TypeOK, Tokens
    <3>2. ~Ended(u, "accepted") /\ ~Ended(u, "released")
      BY <2>2 DEF Ended
    <3>3. QED BY <1>1, <2>1, <3>1, <3>2, Effect DEF u
  <2> HIDE DEF u
  <2>4. r.token = k /\ r.token # 0
    BY <2>2, <2>3 DEF Ended
  <2>5. Got(p, t, k) /\ start[p] # 0
    BY <1>1 DEF Got, IInv, Calls, CallKnows
  <2>6. r.heartbeat # NoBeat => is_alive(r.heartbeat)
    BY <1>1, <2>2, <2>4, <2>5 DEF IInv, Beats, is_alive
  <2>7. seen[k] <= last_seen(r)
    BY <1>1, <2>2, <2>4 DEF IInv, Beats
  <2>8. call[q].now > deadline(r)
    BY <2>3, <2>6 DEF claim_is_stale
  <2>9. /\ seen[k] \in Nat /\ clock \in Nat /\ call[q].now \in Nat
        /\ last_seen(r) \in Nat \cup {NoTime}
    BY <1>1, <2>2, ClaimStoreAssumption
    DEF IInv, TypeOK, Times, Call, last_seen, ClaimRecord, Heartbeat, NoBeat, NoTime
  <2>10. deadline(r) = last_seen(r) + Ttl
    BY <2>7, <2>9 DEF deadline, NoTime
  <2>11. QED
    BY <2>3, <2>7, <2>8, <2>9, <2>10, ClaimStoreAssumption DEF NoTime
<1>2. QED
  BY <1>1, Invariant, PTL DEF Spec, LiveHolderSpared

(* The store implements the lease table: with files, locks, stale sweeps   *)
(* and deaths hidden, all its callers see is tasks being leased under fresh*)
(* tokens, and leases that end once.                                       *)
THEOREM Refinement == Spec => ImplementsLease
<1>1. Init => LeaseTable!Init
  BY DEF Init, LeaseTable!Init, Missing, Tokens, LeaseTable!Tokens
<1>2. ASSUME IInv, [Next]_vars PROVE [LeaseTable!Next]_(LeaseTable!vars)
  <2> DEFINE owner(rec) == [t \in Tasks |-> rec[t].token]
  <2>1. CASE Nothing
    BY <2>1 DEF Nothing, LeaseTable!vars
  <2>2. ASSUME NEW p \in Pids, Decide(p) PROVE [LeaseTable!Next]_(LeaseTable!vars)
    <3> DEFINE t == call[p].task
    <3>1. t \in Tasks /\ record \in [Tasks -> ClaimRecord] /\ record[t] \in ClaimRecord
      BY <1>2, <2>2, Window DEF IInv, TypeOK
    <3>2. minted < MaxTokens => minted + 1 \in Tokens /\ fate[minted + 1] = "unminted"
      BY <1>2, ClaimStoreAssumption DEF IInv, TypeOK, Mints, Tokens
    <3> HIDE DEF t
    <3>3. CASE Granted(t)
      <4>1. owner(record') = [owner(record) EXCEPT ![t] = minted + 1]
        BY <3>1, <3>3 DEF Granted
      <4>2. minted + 1 \in LeaseTable!Tokens
        BY <3>2, <3>3 DEF Granted, LeaseTable!Tokens, Tokens
      <4>3. ASSUME NEW k \in LeaseTable!Tokens, k = minted + 1 PROVE LeaseTable!Next
        <5>1. LeaseTable!Grant(t, k)
          BY <3>1, <3>2, <3>3, <4>1, <4>3 DEF Granted, LeaseTable!Grant
        <5>2. QED BY <3>1, <5>1 DEF LeaseTable!Next
      <4>4. QED BY <4>2, <4>3
    <3>4. ASSUME NEW how \in {"accepted", "released", "reaped"}, Ended(t, how)
          PROVE  [LeaseTable!Next]_(LeaseTable!vars)
      <4>1. owner(record') = [owner(record) EXCEPT ![t] = 0]
        BY <3>1, <3>4 DEF Ended, Released, Missing
      <4>2. CASE record[t].token = 0
        <5>1. owner(record') = owner(record) /\ fate' = fate
          BY <3>1, <3>4, <4>1, <4>2 DEF Ended
        <5>2. QED BY <5>1 DEF LeaseTable!vars
      <4>3. CASE record[t].token # 0
        <5>1. LeaseTable!End(t, how)
          BY <3>1, <3>4, <4>1, <4>3 DEF Ended, LeaseTable!End
        <5>2. QED BY <3>1, <5>1 DEF LeaseTable!Next, LeaseTable!Endings
      <4>4. QED BY <4>2, <4>3
    <3>5. CASE Beaten(p, t)
      <4>1. owner(record') = owner(record) /\ fate' = fate
        BY <3>1, <3>5 DEF Beaten, ClaimRecord
      <4>2. QED BY <4>1 DEF LeaseTable!vars
    <3>6. QED
      BY <1>2, <2>1, <2>2, <3>3, <3>4, <3>5, Effect DEF t
  <2>3. QED
    BY <1>2, <2>1, <2>2, OnlyDecisionsCount
<1>3. QED
  BY <1>1, <1>2, Invariant, PTL DEF Spec, ImplementsLease, LeaseTable!Spec
=============================================================================
