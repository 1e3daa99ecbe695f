----------------------------- MODULE ClaimStore -----------------------------
(***************************************************************************)
(* The cross-process claim store of crates/apohara-dispatch/src/claim.rs   *)
(* and the reaper that sweeps it (task_graph.rs, scheduler_store.rs).      *)
(*                                                                         *)
(* Blades are separate OS processes sharing a directory.  Each task has a  *)
(* record, replaced atomically by a rename, and an advisory lock that every*)
(* writer holds for its read-modify-write window.  A call is therefore     *)
(* several steps of its process: take the lock, load the record, persist   *)
(* the new one, drop the lock and return.  Any process may die at any step;*)
(* the kernel then drops the locks it held, and its pid may be recycled.   *)
(* A record may be unreadable for a time, and the calls that meet it fail. *)
(* Only a desktop with APOHARA_MESH on sweeps: its watcher, and its runs.  *)
(*                                                                         *)
(* A blade never forgets a token it was given: presenting it again, after  *)
(* it was reaped or after its result was accepted, is the zombie the token *)
(* check exists for.                                                       *)
(***************************************************************************)
EXTENDS Integers, RunState

CONSTANTS Tasks,      \* task ids
          Pids,       \* process ids; a pid can be reused after its process dies
          Desktops,   \* which of the processes started, by number, sweep
          NoTask,     \* the task of a process that is in no call
          NoPid,      \* the holder of a free lock, the pid of no heartbeat
          Ttl,        \* ttl_ms, in clock ticks
          MaxClock,   \* bound on the wall clock
          MaxTokens,  \* bound on the claims ever acquired
          MaxStarts   \* bound on the processes ever started

ASSUME ClaimStoreAssumption ==
    /\ NoTask \notin Tasks
    /\ NoPid \notin Pids
    /\ Desktops \subseteq 1 .. MaxStarts
    /\ Ttl \in Nat /\ MaxClock \in Nat /\ MaxTokens \in Nat /\ MaxStarts \in Nat

VARIABLES
    record,   \* record[t]: the persisted ClaimRecord ("Unclaimed": no file yet)
    bad,      \* the records that cannot be read for now
    flock,    \* flock[t]: the process holding t's advisory lock, or NoPid
    call,     \* call[p]: the store call process p is in, and how far it got
    held,     \* held[p]: the <<task, token>> pairs p's blade has been given
    start,    \* start[p]: start time of the process with pid p, 0 if there is none
    starts,   \* processes started so far
    clock,    \* wall clock
    minted,   \* claim tokens minted so far; the next one is minted + 1
    fate,     \* history: what became of each lease (as in Lease)
    seen      \* history: seen[k], time of the last liveness proof of lease k

vars == <<record, bad, flock, call, held, start, starts, clock, minted, fate, seen>>

-----------------------------------------------------------------------------
(* Data.  Option::None is 0 for tokens and start times, -1 for times.      *)

NoTime == -1
Tokens == 1 .. MaxTokens
Times  == 0 .. MaxClock

NoBeat == [pid |-> NoPid, last_beat |-> NoTime, start |-> 0]
Heartbeat == [pid : Pids, last_beat : Times, start : 0 .. MaxStarts]

ClaimRecord ==
    [state : RunStates, token : 0 .. MaxTokens,
     claimed_at : Times \cup {NoTime}, heartbeat : Heartbeat \cup {NoBeat}]

Missing  == [state |-> "Unclaimed", token |-> 0,
             claimed_at |-> NoTime, heartbeat |-> NoBeat]
Released == [Missing EXCEPT !.state = "Released"]

Ops    == {"none", "try_claim", "heartbeat", "report_result", "release", "reap"}
Stages == {"idle", "sweep", "waiting", "locked", "loaded", "done"}

Call == [op : Ops, stage : Stages, task : Tasks \cup {NoTask}, token : 0 .. MaxTokens,
         now : Times, start : 0 .. MaxStarts, snap : ClaimRecord, todo : SUBSET Tasks]

Begun(op, stage, t, k, now, s) ==
    [op |-> op, stage |-> stage, task |-> t, token |-> k, now |-> now, start |-> s,
     snap |-> Missing, todo |-> {}]

Sweeping(now, todo) == [Begun("reap", "sweep", NoTask, 0, now, 0) EXCEPT !.todo = todo]

Idle == Begun("none", "idle", NoTask, 0, 0, 0)

InWindow(p) == call[p].stage \in {"locked", "loaded", "done"}

-----------------------------------------------------------------------------
(* default_pid_alive: the pid exists, and is the process that beat if the  *)
(* heartbeat says which one that was.                                      *)
is_alive(beat) ==
    /\ start[beat.pid] # 0
    /\ beat.start \in {0, start[beat.pid]}

last_seen(r) ==
    IF r.heartbeat.last_beat > r.claimed_at THEN r.heartbeat.last_beat ELSE r.claimed_at

(* The newest of the two times, 0 if the record has neither. *)
deadline(r) == (IF last_seen(r) = NoTime THEN 0 ELSE last_seen(r)) + Ttl

(* Faulty forms: only a dead pid makes a claim stale; beats do not extend  *)
(* the deadline.                                                           *)
claim_is_stale_no_ttl(r, now) ==
    r.state \in LiveStates /\ r.heartbeat # NoBeat /\ ~is_alive(r.heartbeat)

claim_is_stale_no_beat(r, now) ==
    /\ r.state \in LiveStates
    /\ \/ now > r.claimed_at + Ttl
       \/ r.heartbeat # NoBeat /\ ~is_alive(r.heartbeat)

claim_is_stale(r, now) ==
    /\ r.state \in LiveStates
    /\ \/ now > deadline(r)
       \/ r.heartbeat # NoBeat /\ ~is_alive(r.heartbeat)

-----------------------------------------------------------------------------
Init ==
    /\ record = [t \in Tasks |-> Missing]
    /\ bad = {}
    /\ flock = [t \in Tasks |-> NoPid]
    /\ call = [p \in Pids |-> Idle]
    /\ held = [p \in Pids |-> {}]
    /\ start = [p \in Pids |-> 0]
    /\ starts = 0
    /\ clock = 0
    /\ minted = 0
    /\ fate = [k \in Tokens |-> "unminted"]
    /\ seen = [k \in Tokens |-> 0]

CanCall(p) == start[p] # 0 /\ call[p].stage = "idle"

Entered(p, c) ==
    /\ call' = [call EXCEPT ![p] = c]
    /\ UNCHANGED <<record, bad, held, start, starts, clock, minted, fate, seen>>

(* try_claim takes the lock without blocking; a contended lock is reported *)
(* as AlreadyClaimed, which changes nothing and is a stuttering step here. *)
TryClaim_barging(p, t) ==
    /\ CanCall(p)
    /\ minted < MaxTokens
    /\ UNCHANGED flock
    /\ Entered(p, Begun("try_claim", "locked", t, 0, 0, 0))

TryClaim(p, t) ==
    /\ CanCall(p)
    /\ minted < MaxTokens
    /\ flock[t] = NoPid
    /\ flock' = [flock EXCEPT ![t] = p]
    /\ Entered(p, Begun("try_claim", "locked", t, 0, 0, 0))

(* heartbeat and report_result present a token the blade was given, at any *)
(* later time; release presents none.  A heartbeat's time and start time   *)
(* (which older callers omit) are read before the call blocks on the lock. *)
BeginHeartbeat(p, t, k, s) ==
    /\ CanCall(p)
    /\ <<t, k>> \in held[p]
    /\ Entered(p, Begun("heartbeat", "waiting", t, k, clock, s))
    /\ UNCHANGED flock

BeginReport(p, t, k) ==
    /\ CanCall(p)
    /\ <<t, k>> \in held[p]
    /\ Entered(p, Begun("report_result", "waiting", t, k, 0, 0))
    /\ UNCHANGED flock

BeginRelease(p, t) ==
    /\ CanCall(p)
    /\ Entered(p, Begun("release", "waiting", t, 0, 0, 0))
    /\ UNCHANGED flock

(* reap_stale reads the clock and lists every record once, where a single  *)
(* unreadable one fails the sweep before it began.  Then it visits them one*)
(* at a time: a lock-free pre-filter skips records with no live claim and  *)
(* those that have become unreadable, the others are re-checked under their*)
(* lock.                                                                   *)
BeginSweep(p) ==
    /\ CanCall(p) /\ start[p] \in Desktops
    /\ bad = {}
    /\ LET listed == {t \in Tasks : record[t].state # "Unclaimed"} IN
       /\ listed # {}
       /\ Entered(p, Sweeping(clock, listed))
    /\ UNCHANGED flock

SweepNext(p, t) ==
    /\ call[p].stage = "sweep" /\ t \in call[p].todo
    /\ Entered(p, IF record[t].state \in LiveStates /\ t \notin bad
                  THEN [call[p] EXCEPT !.stage = "waiting", !.task = t]
                  ELSE [call[p] EXCEPT !.todo = @ \ {t}])
    /\ UNCHANGED flock

SweepEnd(p) ==
    /\ call[p].stage = "sweep" /\ call[p].todo = {}
    /\ Entered(p, Idle)
    /\ UNCHANGED flock

(* lock_exclusive: block until the lock is free. *)
Lock(p) ==
    /\ call[p].stage = "waiting"
    /\ flock[call[p].task] = NoPid
    /\ flock' = [flock EXCEPT ![call[p].task] = p]
    /\ Entered(p, [call[p] EXCEPT !.stage = "locked"])

(* Every operation but release reads the committed record under the lock.  *)
Load(p) ==
    /\ call[p].stage = "locked" /\ call[p].op # "release"
    /\ call[p].task \notin bad
    /\ Entered(p, [call[p] EXCEPT !.stage = "loaded", !.snap = record[call[p].task]])
    /\ UNCHANGED flock

-----------------------------------------------------------------------------
(* The second half of each operation: decide on the record that was loaded *)
(* and replace the file, or return without writing.                        *)

Deciding(p, op) == call[p].stage = "loaded" /\ call[p].op = op

Decided(p, k) == call' = [call EXCEPT ![p].stage = "done", ![p].token = k]

Persist(t, r) == record' = [record EXCEPT ![t] = r]

(* History: the lease t's record was under, if any, has ended. *)
EndLease(t, how) ==
    fate' = IF record[t].token = 0 THEN fate ELSE [fate EXCEPT ![record[t].token] = how]

Calm == UNCHANGED <<bad, flock, held, start, starts, clock>>

(* Faulty forms: a claim on a live slot is answered with the token that is *)
(* already out; a live slot is overwritten; the deadline is stamped where  *)
(* the mint time belongs.                                                  *)
DecideTryClaim_shares(p) ==
    /\ Deciding(p, "try_claim")
    /\ LET t == call[p].task IN
       IF call[p].snap.token # 0
       THEN /\ Decided(p, call[p].snap.token)
            /\ UNCHANGED <<record, minted, fate, seen>>
       ELSE /\ minted < MaxTokens
            /\ minted' = minted + 1
            /\ Persist(t, [state |-> "Claimed", token |-> minted + 1,
                           claimed_at |-> clock, heartbeat |-> NoBeat])
            /\ Decided(p, minted + 1)
            /\ fate' = [fate EXCEPT ![minted + 1] = "live"]
            /\ seen' = [seen EXCEPT ![minted + 1] = clock]
    /\ Calm

Overwrite(p, stamp) ==
    /\ Deciding(p, "try_claim")
    /\ minted < MaxTokens
    /\ minted' = minted + 1
    /\ Persist(call[p].task, [state |-> "Claimed", token |-> minted + 1,
                              claimed_at |-> stamp, heartbeat |-> NoBeat])
    /\ Decided(p, minted + 1)
    /\ fate' = [fate EXCEPT ![minted + 1] = "live"]
    /\ seen' = [seen EXCEPT ![minted + 1] = clock]
    /\ Calm

DecideTryClaim_steals(p) == Overwrite(p, clock)
DecideTryClaim_late(p) == call[p].snap.token = 0 /\ Overwrite(p, clock + Ttl)

(* A Released slot re-enters through Unclaimed.  The token is minted, and  *)
(* the claim time stamped, inside the window.                              *)
DecideTryClaim(p) ==
    /\ Deciding(p, "try_claim")
    /\ LET t == call[p].task
           from == IF call[p].snap.state = "Released" THEN "Unclaimed" ELSE call[p].snap.state
       IN IF is_claimable(call[p].snap.state) /\ can_transition(from, "Claimed")
          THEN /\ minted < MaxTokens
               /\ minted' = minted + 1
               /\ Persist(t, [state |-> "Claimed", token |-> minted + 1,
                              claimed_at |-> clock, heartbeat |-> NoBeat])
               /\ Decided(p, minted + 1)
               /\ fate' = [fate EXCEPT ![minted + 1] = "live"]
               /\ seen' = [seen EXCEPT ![minted + 1] = clock]
          ELSE /\ Decided(p, 0)
               /\ UNCHANGED <<record, minted, fate, seen>>
    /\ Calm

(* Faulty form: a beat is written whoever holds the slot now. *)
DecideHeartbeat_any_token(p) ==
    /\ Deciding(p, "heartbeat")
    /\ Persist(call[p].task,
               [call[p].snap EXCEPT
                  !.heartbeat = [pid |-> p, last_beat |-> call[p].now,
                                 start |-> call[p].start]])
    /\ seen' = [seen EXCEPT ![call[p].token] = call[p].now]
    /\ Decided(p, 0)
    /\ Calm /\ UNCHANGED <<minted, fate>>

DecideHeartbeat(p) ==
    /\ Deciding(p, "heartbeat")
    /\ IF call[p].snap.token = call[p].token
       THEN /\ Persist(call[p].task,
                       [call[p].snap EXCEPT
                          !.heartbeat = [pid |-> p, last_beat |-> call[p].now,
                                         start |-> call[p].start]])
            /\ seen' = [seen EXCEPT ![call[p].token] = call[p].now]
       ELSE UNCHANGED <<record, seen>>
    /\ Decided(p, 0)
    /\ Calm /\ UNCHANGED <<minted, fate>>

(* Faulty form: the token is not compared with the committed record. *)
DecideReport_any_token(p) ==
    /\ Deciding(p, "report_result")
    /\ Persist(call[p].task, Released)
    /\ fate' = [fate EXCEPT ![call[p].token] = "accepted"]
    /\ Decided(p, 0)
    /\ Calm /\ UNCHANGED <<minted, seen>>

DecideReport(p) ==
    /\ Deciding(p, "report_result")
    /\ IF call[p].snap.token = call[p].token
       THEN /\ Persist(call[p].task, Released)
            /\ fate' = [fate EXCEPT ![call[p].token] = "accepted"]
       ELSE UNCHANGED <<record, fate>>
    /\ Decided(p, 0)
    /\ Calm /\ UNCHANGED <<minted, seen>>

(* release_if_still_stale: staleness is re-evaluated on the record loaded  *)
(* under the lock, against the time the sweep began.                       *)
DecideReap(p) ==
    /\ Deciding(p, "reap")
    /\ IF claim_is_stale(call[p].snap, call[p].now)
       THEN Persist(call[p].task, Released) /\ EndLease(call[p].task, "reaped")
       ELSE UNCHANGED <<record, fate>>
    /\ Decided(p, 0)
    /\ Calm /\ UNCHANGED <<minted, seen>>

(* release writes without looking. *)
DecideRelease(p) ==
    /\ call[p].stage = "locked" /\ call[p].op = "release"
    /\ Persist(call[p].task, Released) /\ EndLease(call[p].task, "released")
    /\ Decided(p, 0)
    /\ Calm /\ UNCHANGED <<minted, seen>>

Decide(p) ==
    \/ DecideTryClaim(p) \/ DecideHeartbeat(p) \/ DecideReport(p)
    \/ DecideReap(p) \/ DecideRelease(p)

(* The LockGuard is dropped and the call returns.  An acquired token is    *)
(* the blade's from here on; a reaper goes on with its sweep.              *)
Leave_keeping_lock(p) ==
    /\ call' = [call EXCEPT ![p] =
                  IF call[p].op = "reap"
                  THEN Sweeping(call[p].now, call[p].todo \ {call[p].task})
                  ELSE Idle]
    /\ UNCHANGED <<record, bad, flock, start, starts, clock, minted, fate, seen>>

Leave(p) ==
    /\ flock' = [flock EXCEPT ![call[p].task] = NoPid]
    /\ call' = [call EXCEPT ![p] =
                  IF call[p].op = "reap"
                  THEN Sweeping(call[p].now, call[p].todo \ {call[p].task})
                  ELSE Idle]
    /\ UNCHANGED <<record, bad, start, starts, clock, minted, fate, seen>>

Return(p) ==
    /\ call[p].stage = "done"
    /\ held' = IF call[p].op = "try_claim" /\ call[p].token # 0
               THEN [held EXCEPT ![p] = @ \cup {<<call[p].task, call[p].token>>}]
               ELSE held
    /\ Leave(p)

(* The record cannot be read, or not be replaced: the call gives up. *)
Fails(p) ==
    /\ call[p].stage \in {"locked", "loaded"} /\ call[p].task \in bad
    /\ UNCHANGED held
    /\ Leave(p)

-----------------------------------------------------------------------------
(* The environment. *)

Tick ==
    /\ clock < MaxClock
    /\ clock' = clock + 1
    /\ UNCHANGED <<record, bad, flock, call, held, start, starts, minted, fate, seen>>

(* A pid is handed to a new process, with a start time of its own. *)
Spawn(p) ==
    /\ start[p] = 0
    /\ starts < MaxStarts
    /\ starts' = starts + 1
    /\ start' = [start EXCEPT ![p] = starts + 1]
    /\ UNCHANGED <<record, bad, flock, call, held, clock, minted, fate, seen>>

(* A process dies wherever it is: the kernel drops its locks, its calls and*)
(* tokens are gone, the files stay as they are.                            *)
Die(p) ==
    /\ start[p] # 0
    /\ start' = [start EXCEPT ![p] = 0]
    /\ call' = [call EXCEPT ![p] = Idle]
    /\ held' = [held EXCEPT ![p] = {}]
    /\ flock' = [t \in Tasks |-> IF flock[t] = p THEN NoPid ELSE flock[t]]
    /\ UNCHANGED <<record, bad, starts, clock, minted, fate, seen>>

(* A record goes bad on disk, or is mended. *)
Turns(t) ==
    /\ record[t].state # "Unclaimed"
    /\ bad' = IF t \in bad THEN bad \ {t} ELSE bad \cup {t}
    /\ UNCHANGED <<record, flock, call, held, start, starts, clock, minted, fate, seen>>

Step(p) ==
    \/ \E t \in Tasks : SweepNext(p, t)
    \/ SweepEnd(p) \/ Lock(p) \/ Load(p) \/ Decide(p) \/ Return(p)
    \/ Fails(p)

Next ==
    \/ \E p \in Pids :
        \/ \E t \in Tasks :
            \/ TryClaim(p, t)
            \/ BeginRelease(p, t)
            \/ \E k \in Tokens :
                \/ BeginReport(p, t, k)
                \/ \E s \in {0, start[p]} : BeginHeartbeat(p, t, k, s)
        \/ BeginSweep(p)
        \/ Step(p)
        \/ Spawn(p)
        \/ Die(p)
    \/ \E t \in Tasks : Turns(t)
    \/ Tick

Spec == Init /\ [][Next]_vars

(* Scheduling.  A process that is inside a call keeps running; a blocked   *)
(* flock(2) is granted if the lock keeps coming free; time passes; and a   *)
(* desktop with the mesh on starts a sweep again and again while it lives  *)
(* and can list the records (its watcher polls once a second, beside its   *)
(* other calls).  Nothing obliges a blade to beat, report or stay alive,   *)
(* nor a desktop to run, nor a record to become readable.                  *)
Fairness ==
    /\ \A p \in Pids :
        /\ \A t \in Tasks : WF_vars(SweepNext(p, t))
        /\ WF_vars(SweepEnd(p))
        /\ WF_vars(Load(p) \/ Fails(p))
        /\ WF_vars(Decide(p))
        /\ WF_vars(Return(p))
        /\ SF_vars(Lock(p))
        /\ SF_vars(BeginSweep(p))
    /\ WF_vars(Tick)

FairSpec == Spec /\ Fairness

-----------------------------------------------------------------------------
(* Properties. *)

TypeOK ==
    /\ record \in [Tasks -> ClaimRecord]
    /\ bad \in SUBSET Tasks
    /\ flock \in [Tasks -> Pids \cup {NoPid}]
    /\ call \in [Pids -> Call]
    /\ \A p \in Pids : call[p].stage \notin {"idle", "sweep"} => call[p].task \in Tasks
    /\ held \in [Pids -> SUBSET (Tasks \X Tokens)]
    /\ start \in [Pids -> 0 .. MaxStarts]
    /\ starts \in 0 .. MaxStarts
    /\ clock \in Times
    /\ minted \in 0 .. MaxTokens
    /\ fate \in [Tokens -> {"unminted", "live", "accepted", "released", "reaped"}]
    /\ seen \in [Tokens -> Times]

(* Between loading a record and replacing it no other process writes it:   *)
(* the advisory lock makes every operation's read-modify-write atomic.     *)
NoLostUpdate ==
    \A p \in Pids : call[p].stage = "loaded" => call[p].snap = record[call[p].task]

(* The file and the outside world agree about who owns a task: a live      *)
(* record carries the token of a lease that has not ended, no two records  *)
(* carry the same one, every lease that has not ended is in some record    *)
(* (no grant is lost, even when its claimer died before hearing of it),    *)
(* and a freed slot carries no liveness metadata for the reaper to misread.*)
RecordsAreLeases ==
    /\ \A t \in Tasks :
        IF record[t].token # 0
        THEN /\ record[t].state \in LiveStates
             /\ fate[record[t].token] = "live"
             /\ \A u \in Tasks : record[u].token = record[t].token => u = t
        ELSE record[t] \in {Missing, Released}
    /\ \A k \in Tokens : fate[k] = "live" => \E t \in Tasks : record[t].token = k

(* Under any number of contenders a lease is acquired by one process only. *)
OneAcquirer ==
    \A p, q \in Pids : p # q => held[p] \cap held[q] = {}

(* The end of a lease is final.  In particular a lease the reaper, or an   *)
(* out-of-band release, took away is never accepted afterwards, and one    *)
(* whose result was accepted is neither accepted again nor taken away.     *)
EndingsAreFinal ==
    [][\A k \in Tokens :
        fate[k] \notin {"unminted", "live"} => fate'[k] = fate[k]]_vars

(* The reaper never takes a lease from a process that is alive and gave a  *)
(* liveness proof (its claim, or an acknowledged heartbeat) within the TTL,*)
(* however long ago the sweep read the clock or pre-filtered the record.   *)
LiveHolderSpared ==
    [][\A k \in Tokens, p \in Pids, t \in Tasks :
        (<<t, k>> \in held[p] /\ fate[k] = "live" /\ fate'[k] = "reaped")
            => clock > seen[k] + Ttl]_vars

(* Refinement: seen through its tokens the store is a table of leases. *)
LeaseTable == INSTANCE Lease WITH owner <- [t \in Tasks |-> record[t].token], fate <- fate
ImplementsLease == LeaseTable!Spec

(* Every call returns, or its process dies: whoever is killed inside the   *)
(* window of an advisory lock, the others get through.                     *)
CallsReturn == \A p \in Pids : call[p].stage # "idle" ~> call[p].stage = "idle"

(* A claim nobody works under any more: its token is lost, and it can lapse*)
(* within the modelled time.                                               *)
Orphaned(t, k) ==
    /\ record[t].token = k
    /\ \A p \in Pids : <<t, k>> \notin held[p] /\ ~(InWindow(p) /\ call[p].token = k)
    /\ deadline(record[t]) < MaxClock

(* As long as a desktop with the mesh on survives, and the records can be  *)
(* read from some time on, the claim of a blade that died is freed, even   *)
(* one that died before its first beat or before it learnt its own token.  *)
(* Without a desktop, or with one record that stays unreadable, it may be  *)
(* held forever.                                                           *)
OrphansAreFreed ==
    (<>[](\E p \in Pids : start[p] \in Desktops) /\ <>[](bad = {})) =>
        \A t \in Tasks, k \in Tokens : Orphaned(t, k) ~> record[t].token # k
=============================================================================
