# Formal model of the Apohara mesh

Apohara runs several coding agents ("blades") on one repository. An objective is
planned into a DAG of tasks, tasks are claimed, blades work on them in git
worktrees, and what passes the gates is merged. The agents are separate
processes; they coordinate through files (`.apohara/`) guarded by advisory locks,
through tools of an MCP server, and through the desktop application that drives
the DAG. This directory models that coordination in TLA+, checks it with TLC on
small instances, and proves most of its safety properties with TLAPS for every
size.

Run from this directory: `tlc -config ClaimStore.cfg MCClaimStore` (and so on for
the runs below), `tlapm ClaimStoreProofs.tla` (and so on for the modules named
`...Proofs`).

## 1. Inventory

The repository is a Rust workspace of 37 crates. The core logic, by part:

| part | code | state | operations | hard behaviour |
|---|---|---|---|---|
| claim store | dispatch `claim.rs`, `state.rs` | `claims/<id>.json` record, `<id>.lock` | `try_claim`, `heartbeat`, `report_result`, `release`, `release_if_still_stale`, reads | several processes, lost updates, zombies with old tokens, crashes inside the window |
| reaper | `task_graph.rs` (`reap_stale_claims`, `default_pid_alive`), `scheduler_store.rs` | none of its own | sweep all claims, re-check each under its lock | check-then-act against a beating holder, recycled pids, claimers that never beat |
| task graph | `task_graph.rs` | `graph.json`: nodes, done | `add_node`, `mark_done`, `claimable` | load-modify-save without a lock, snapshot reads over a moving store, cycle check |
| mesh tools | mcp `mesh_store.rs` | the three stores | `claim_task`, `release_task`, `report_result`, `send_message`, `check_inbox` | a completion spans two stores |
| mailbox | `mailbox.rs` | queue file and lock per recipient | `send`, `check_inbox` (drain), `peek_inbox`, `ack` | concurrent polls, ack against newer sends, death between drain and return |
| planner | `planner.rs` | none | objective -> areas -> nodes added one by one | a plan half written |
| coordinator, distribution | coordinator `coordinator.rs`, `distribution.rs` | roster, modes | `tick`: reap, ready, dispatch; `assign` | capacity, stale ready set |
| mesh drivers | desktop `dispatch_loop.rs`, `coordinator_tick.rs`, `utilization_watcher.rs` | `MESH_DRIVE_LOCK`, loop locals | foreground run, background tick, `spawn_blade`, watcher's reap | two drivers, awaits between decision and use, results of reaped claims, best-effort error paths |
| worktrees, integrator | worktree `lifecycle.rs`, `preflight.rs`, `naming.rs`; commit and diffs in `dispatch_loop.rs` | worktrees, their branches, HEAD, `INTEGRATOR_LOCK` | create, list, commit, merge, abort, preserve, cleanup | aborts, deaths in between, leftovers of earlier runs under the same id, late writers |
| diff pane | desktop `git_apply_handler.rs`, `code_diff.rs`, `right_pane.rs` | `CODE_DIFF` | offer, accept (`git apply`), reject | what is in HEAD already |
| CLI driver | `cli_driver.rs` | `BINARY_LOCKS`, the tasks of a dispatch | queue, spawn, stream, time out, kill, reap | FIFO per binary, timeouts, descendants that keep pipes open, a bounded channel |
| prompt store | safety `durable_prompt.rs` | pending, responses, a ledger | enqueue, answer, wait, load, compact | appends and compactions in any order, restarts |
| reconciler, retry | `reconciler.rs`, `retry.rs`, `coordinator.rs` | ledger file | stall and ageing passes, backoff | permanent "completed", shifted-out bits |
| permissions | safety, the rest | caches, policies | analyse, decide, remember | |
| daemon | daemon | run files, shutdown state | recovery, drain, remote dispatch | crash recovery, drain against new work |
| reaction engine | reaction-engine | per-PR state | events -> actions | order of events |
| the rest | hooks, ws-hub, attention, anti-thrash, audit, token accounting, prompt cache, transport, sandbox, projector, indexer, tui, ... | small or none | | see `PROJECT.json` "components" |

How they interact: the **drivers** call the **planner** (which calls
`TaskGraph::add_node`), then in a loop the **coordinator**, which calls the
**reaper** and `claimable`; **distribution** places the ready nodes; `spawn_blade`
claims, creates a **worktree**, dispatches through the **CLI driver**, gates, reports,
commits, merges, cleans up; the driver marks the node done, and the run ends by offering
its diff in the **diff pane**. The bake-off `run_dispatch` does the same for one task per
provider. Blades call the **mesh tools**,
which share the claim store (one root for all runs), and have a task graph of
their own at `.apohara/tasks` (the runs of the desktop use
`.apohara/tasks/run-*`). The **watcher** reaps once a second.

What makes each part correct is stated as the properties of section 4; every
hazard, at its line, is in `PROJECT.json` "hazards" with the properties aimed at it.

## 2. Modules

| module | models | correspondence |
|---|---|---|
| `RunState` | `state.rs` | the five states, `is_claimable`, the edges of `can_transition` |
| `Lease` | (abstract) | what the claim store promises: a table of owners; a lease is granted once, ends once |
| `ClaimStore` | `claim.rs`, the sweep of `task_graph.rs` and `scheduler_store.rs` | `record` is the JSON file, `flock` the advisory lock, `call[p]` the call a process is in. Every operation is: begin, `Lock` (or a try-lock for `try_claim`), `Load`, a `Decide...` that persists or not, `Return` or, where a record is `bad`, `Fails`. `Tick`, `Spawn`, `Die`, `Turns` are the clock, the operating system and the disk |
| `ClaimStoreProofs` | | theorems on `ClaimStore` |
| `HasCycle` | `has_cycle` | Kahn's algorithm as a state machine, since it pops in the order of a hash map; a deps vector is a set of <<index, id>> so that it can repeat an id |
| `HasCycleProofs` | | theorems on `HasCycle` |
| `TaskGraph` | `task_graph.rs`, claim and report tools of `mesh_store.rs` | a mutator is a load and, later, a save; claims are a table of owners (justified by `ClaimStore => Lease`); `claimable`, a read, is in `MeshDriver`, where its answer is used; `has_cycle` is the reference definition `HasCycle` is verified against |
| `Inbox` | (abstract) | what the mailbox promises: a queue per recipient, entered once, left once |
| `Pending` | the filter of `ack` | what an acknowledgement leaves of a queue, a recursive function so that it can be reasoned about |
| `Mailbox` | `mailbox.rs`, message tools of `mesh_store.rs` | like `ClaimStore`: lock and load, write, return, with deaths anywhere |
| `MeshDriver` | `dispatch_loop.rs` (mesh path), `planner.rs`, `Coordinator::tick`, `distribution.rs`, the watcher | both drivers as coroutines of the desktop's one thread: a step is what runs between two awaits, finer where another process can come in between; claims are `Lease` |
| `Integration` | `lifecycle.rs`, `preflight.rs`, the worktree side of `run_dispatch` and `spawn_blade`, the diff pane | one action per await of the body: `Create`, `WriteMeta`, `Work`, `Gates`, `Commit`, `FindBranch`, `Merged` or `Conflict` and `Abort`, `FindTree`, `Preflight`, `Remove`; `StartRun` and `EndRun` around them; the user, a crash and a surviving process beside them. `tip[s]` is what branch `apohara/<slug>` holds, `dirty[s]` what is uncommitted in its tree, index 0 the repository itself |
| `Dispatch` | `cli_driver.rs` | one action per step of a dispatch and of its reader tasks, `queue[b]` is the tokio mutex of binary `b` with its waiters; child and descendants are free |
| `Prompts` | `durable_prompt.rs` | one action per critical section, file operation and spawned compaction, and per way a write can go wrong (`AppendFails`, `CompactsShort`, `CompactsTogether`, `LandsLate`); a ledger is the set of its entries, `unreadable` when a load would give it up |
| `TaskGraphProofs`, `MailboxProofs`, `MeshDriverProofs`, `DispatchProofs`, `PromptsProofs`, `IntegrationProofs` | | theorems on the modules they are named after |
| `MC...` | | instances for TLC |

Composition. `ClaimStore` implements `Lease` (`ImplementsLease`, model-checked and
proved), and `TaskGraph` and `MeshDriver` are built over the table of leases
instead of over the files: `MeshDriver` takes its grants and endings from an
`INSTANCE` of `Lease`. `TaskGraph` uses the acyclicity definition that `HasCycle`
is proved to decide. `Mailbox` implements `Inbox` (`ImplementsInbox`). Both mappings
read the abstract table off the files: the owner of a task is the token in its
record, the queue of a recipient is its file.

Choices a reader should know of:

* Calls may be made by any process with any token it was given, at any time: blades
  are independent programs. A process keeps its tokens after the lease has ended
  (a zombie) and loses them when it dies. `release_task` takes no token, so anyone
  releases.
* `heartbeat` may come with or without the start time of its process, as its
  parameter allows; `is_alive` compares it when it is there. Nothing in the
  workspace calls `heartbeat` or the watcher's TTL on behalf of a blade: in
  `MeshDriver` a lease simply ages.
* A try-lock that fails and a slot that is taken are the same answer
  (`AlreadyClaimed`).
* `Desktops` says which of the processes ever started are desktops with
  `APOHARA_MESH` on: only their watcher and drivers reap
  (`utilization_watcher.rs:60-61,96-99`). A record can become unreadable at any moment
  and be mended at any other (`Turns`): the calls on it fail, and a sweep does not begin.
* In `TaskGraph` a lock spans nothing, as in the code. The desktop's own
  `mark_done` after an attempt is part of `MeshDriver`, over run directories of its
  own; `TaskGraph` is the graph the mesh tools share.
* In `MeshDriver` an area is an id; how an objective's text is cut into areas is left
  out (`PlanOrder` starts from `Areas`). Gates, git and the blade itself are free
  choices. Store errors are faults: each best-effort path of the code (claim
  failed, report failed, mark failed, list failed, reap failed, plan failed) is an
  alternative that consumes one of `MaxFaults`. The watcher may reap at any moment,
  which is more often than the code does.
* Another blade may claim a node id of the plan: ids such as `plan` are the same in
  every plan, while the claims root is shared (`dispatch_loop.rs:552`).
* `Integration` has one application and one blade at a time: the bake-off is
  sequential and the mesh has one driver (`SingleDriver`), which runs its batch one
  node after the other. What the product says of itself is that it is single-instance
  (`docs/superpowers/specs/2026-05-21-apohara-v1-design.md:3118`). The content of a
  tree is a set of parts, each of one attempt: committed by the blade, left
  uncommitted, written late by a process it left behind, or the markers of a conflict.
  A conflict may happen whenever both sides have something the other has not, or the main
  tree has changes. Slugs have 64 random bits and are never drawn twice; the order in
  which directories are listed is arbitrary but fixed, hence that of slugs.
* A worktree's branch has no upstream, so the second question of the preflight
  (`@{upstream}..HEAD`) is an error of git, which the code takes for clean. Only the first
  is in `Preflight`. `preserve_on_fail` adds a branch that holds what the tree's own
  branch goes on holding, so it changes nothing the model tells apart.
* The errors of git that `Integration` has, each drawn from `MaxMishaps`, are those the code
  goes on after: `create` (the blade works in the repository), `status` (reads as clean),
  `add` (what was staged before is committed), `base` (a run without a base) and `diff` (a
  run without a mesh diff). Files that git ignores are no work: neither `git add -A` nor
  `git status` sees them, and cleanup removes them with their tree.
* In `Dispatch` a future that is dropped is left out. It would kill its child
  (`kill_on_drop`, `cli_driver.rs:579-580`) and give up the binary's lock without waiting for
  the kill to take effect, which `OnePerBinary` forbids; nothing drops one but the end of the
  application, and the lock with it.
* In `Dispatch` pipes have no capacity: the readers drain them whatever the consumer
  does. The prompt is written to the child's stdin by a task of its own that nobody waits
  for. Time is the action `TimesOut`, possible whenever the timeout is pending.
* In `Prompts` a prompt is answered once and what the answer says is left out; request ids
  are not reused. `tokio::fs` writes on a pool, and a `File` that is dropped is not
  flushed: `append_entry` may return before its line is in the file (`writing`). What the
  runtime writes late may also fail, half-way (`torn`), and where the cut is inside a
  character it may be that no later load gets through the file (`unreadable`). A compaction
  whose write fails renames what there is. The temporary name is the pid xor the
  millisecond, so two compactions may share a file: the first rename installs what both have
  written over one another, and the second write may come after it. Each of these draws
  from `MaxFaults`; `MCPrompts` explores deaths with two prompts only (`Few`).
* Definitions with a suffix after an underscore and the comment "Faulty form" (or
  "mutant") are not part of any specification. Each is a plausible bug in the operator below it,
  and shows that a property can tell the difference.

## 3. Runs

| run | bounds | about | states |
|---|---|---|---|
| `claim_store` | 1 task, 2 pids, 3 process starts (all desktops), 2 tokens, clock 0..2, TTL 1 | all safety of the claim store and its refinement of `Lease` | 3.0 M |
| `claim_liveness` | 1 task, 2 pids, 3 starts (the first a blade, the others desktops), 1 token, clock 0..1, TTL 0 | calls return, orphans are freed | 97 k |
| `has_cycle` | 3 ids, vectors of up to 2 entries | every graph, every pop order | 3.9 k |
| `task_graph` | 2 ids, 2 processes, 2 tokens | the DAG under lost updates | 3.7 M |
| `task_graph_forgets` | as above | **violated**: a saved completion is overwritten | |
| `mailbox` | 1 recipient, 2 processes, 3 messages | the mailbox and its refinement of `Inbox` | 2.8 M |
| `mesh_driver` | 2 slices, 2 binaries of capacity 1, affinity to the second, 4 ticks, 3 tokens, 1 foreign lease, 1 fault | both drivers, safety and liveness | 0.5 M |
| `stale_result` | linear plan, 1 binary, no faults | **violated**: a reaped blade's slice is merged | |
| `noop_drained` | linear plan, 1 binary, no faults | **violated**: NoOp does not mean drained | |
| `integration` | 2 ids, 2 attempts, 1 crash or error of any kind | work, merges, cleanup and diffs | 6.0 M |
| `dispatch` | 2 dispatches of one binary, 2 lines, channel of 1 | the driver's lock, stream and timeout, with liveness | 0.4 M |
| `prompts` | 3 requests (2 with a crash), 1 crash, 1 faulty write | the prompt store and its ledger | 3.6 M |

Why the bounds are enough. Claims of different tasks share nothing but the
sweep, so one task shows every race on a record; two processes suffice for every
pairwise race, and the three starts allow a pid to be recycled and the recycled
process to meet its predecessor's record. Two tokens allow a lease, its end, and a
successor that a zombie meets. With a TTL of one and a clock of two a claim can
be fresh, on the boundary, and expired. Proofs remove these bounds for safety.
`claim_liveness` needs an expired claim only, so its TTL is 0. Three ids have
self-loops, two-cycles, three-cycles, chains, and repeated or
missing dependencies; the proofs cover the rest. `task_graph` has two ids, every set of
dependencies over them (missing ones and self-loops included). Three messages show a drain, an
ack of a part, and a send in between. Four ticks are what the small
plan needs to drain and to find out that it has (plan, slices, integrate, NoOp); a reap
uses one up, so the run ends by every exit: drained, out of ticks, and without capacity;
three tokens leave a re-claim after a reap; when
they are used up a claim finds the slot taken, which the code could also answer.
Two attempts under two ids (or one) are a run and its predecessor's leftover, two
candidates of a bake-off, or two nodes of a mesh, with everything a second merge can meet in HEAD; one
mishap is a crash at any step or one of the five errors of git, and the proofs
of `Integration` have any number of each. Two dispatches of one binary are a holder and a
waiter; different binaries share nothing. Two lines over a channel of one are a line that is
forwarded, one that is dropped, and one that cannot be decoded, in either order. Three prompts are one
whose compaction is under way, one that is inserted meanwhile, and one taken before, and
for two compactions that share a file, two taken and one that waits; with a crash two suffice:
what a fresh process finds depends on the ledger only. The proofs of `Prompts` have any
number of requests, crashes and faults.
`CHECK_DEADLOCK FALSE` is set where the bounded system really stops (all tokens
used, every call returned, the DAG drained, the queue of Kahn's algorithm empty, every
dispatch returned, every prompt settled).

Symmetry is used on interchangeable processes, ids and requests in the runs without
liveness.

## 4. What the properties say

Claim store. `NoLostUpdate`: inside a window the loaded snapshot is what is on disk.
`RecordsAreLeases`: a live record carries the token of a lease that has not ended, every
such lease is in exactly one record, and a free slot carries no liveness data.
`OneAcquirer`: no token reaches two callers. `EndingsAreFinal`: a lease ends once, so a
zombie neither revives nor ends another's. `LiveHolderSpared`: a reap finds, at
that moment, a dead holder or one silent for the TTL, despite the lock-free
decision before. `ImplementsLease`. `CallsReturn` (liveness): no call waits forever,
whoever dies with the lock. `OrphansAreFreed` (liveness): the claim of a dead or silent claimer is
freed, if from some time on there is a desktop with the mesh on and every record can be read.
Without such a desktop nobody sweeps; and a single record that stays unreadable fails
every sweep before it begins (`scheduler_store.rs:62-66`).

Cycle check. `NoUnderflow` (`*deg -= 1` on a `usize`), `AnswerIsRight`.

Task graph. `GraphIsAcyclic`: races lose nodes but never close a cycle.
`DoneWasReported`: only an accepted success is done. `UndisturbedWritesStay`: a node or a
completion that was saved while no other mutator had the graph loaded is there for good, so an
overlap is the only way to lose one. Violated: `CompletionsAreRemembered`. Of `claimable` no
property is stated here: its answer may name a node that was completed, claimed or added again with
other dependencies since the load, and `claim_task` looks at the slot only. The drivers, who act on it,
are alone in writing their graph (`NeverRedispatched`, `DependencyOrder`).

Mailbox. `DeliveredOnce`, `SenderOrder` (what one process sent arrives in that order),
`AckedWasSeen`, `ImplementsInbox`.

Drivers. `SingleDriver`, `DependencyOrder`, `NeverRedispatched`, `NoLeakedClaim` (absent
store errors, the only live leases of the application are those of blades at work),
`RunEnds` and `Drains` (liveness), both with the exception of a dispatch that never returns: the
readers of a blade are awaited outside of its timeout (`cli_driver.rs:658-659,691-692`; `Wedged` in
`Dispatch` says when), and the drive lock is held meanwhile. `Drains` also excepts a node that another
blade holds from some time on. `DependencyOrder` is the order in which drivers go through the
plan: a node that another blade holds counts as gone through, and its dependents may start before
that blade is finished. Violated: `StaleResultsAreDropped`, `NoOpMeansDrained`.

Integration. `NoWorkLost`: no tree is removed with uncommitted work in it, but for what a
process writes between the preflight's look and the removal.
`OnlyGatedWork`: HEAD has nothing but the work of attempts that passed their gates, and
the user's. The gates judge an attempt: what a process it left behind writes after them and before the
commit goes in with it.
`IntegratedIsInHead`: an attempt reported as integrated is in HEAD, all of it, or after a failing
`git add` (logged and passed over, `dispatch_loop.rs:1246-1249`) all that the blade committed itself.
`NothingOfferedTwice`: a candidate that is offered for `git apply` is not in HEAD already. It is about
candidates: the mesh diff always is in HEAD, and is set in the same pane, whose Accept runs
`git apply` on whatever is there; git refuses it, and `Accept` needs what it applies to be new.
`CleanTreesAreRemoved`: trees do not pile up.

These hold under conditions that are part of their statements, because the code does not
keep them otherwise:

* *strangers*: `merge` and `cleanup` look a tree up by task id and take the first. The ids of
  a mesh plan repeat in every plan, so a tree that a crash or a failed gate left behind is
  found in place of the new one, and its branch is merged.
* *create*: when a worktree cannot be created the blade works in the repository, and
  `commit_worktree` commits everything there, the user's uncommitted edits included, straight to HEAD,
  whatever the merge would have said.
* *status*: a `git status` that fails prints nothing, which reads as clean.
* *base*, *diff*: when `git rev-parse` failed at the start of a run, or `git diff` fails at its end, the
  guard against offering what was merged falls through to `winning_diff`
  (`dispatch_loop.rs:333-337`).

Dispatch. `OnePerBinary`: not even a child that is being killed overlaps its successor.
`StreamIsOutput`: the consumer of a successful dispatch has seen every line in order, but
for lines dropped on the full channel (which may be the one with the token usage or the
terminal error) and what follows a line that is not UTF-8 (the reader ends there, silently).
`DispatchReturns` (liveness): a dispatch that queues returns, unless the queue is *wedged*: a
descendant holds stderr open after the child has exited, or has left the process
group and holds a pipe after the timeout. Both readers are awaited outside of the timeout, so
the lock is then held as long as that process lives.

Prompts. `SurvivesRestart`: memory is covered by the ledger and the appends under way, but
for entries *exposed* to a compaction that was copied before them, to a write that failed, to a
torn line, or to a compaction that was cut short or shared its file; and as long as a load
can read the ledger at all. `TakenForGood`: a prompt taken while nothing else was under way, and
compacted, never comes back. With a second compaction under way it may: the later copy
can land first.

### Where code and text disagree

1. `task_graph.rs:127`: a completion is lost when another mutator saves an older load
   (`task_graph_forgets`). The mesh server runs its handlers in parallel on worker
   threads, so two mutators do overlap.
2. `dispatch_loop.rs:798`: the comment calls a stale result "no longer authoritative";
   the code merges it (`stale_result`). A dispatch may last 900 s by default, the
   reaper's TTL is 300 s, and no code beats for the blade.
3. `dispatch_loop.rs:642`: "the DAG has drained" on NoOp; it may not have
   (`noop_drained`). The background driver drains it later (`Drains`), but the run has
   reported its diff by then.

More that the models show but no run states:

* `durable_prompt.rs:12-13` calls compaction "single-flight", while `consume_if_ready` spawns one
  per prompt (hence the condition in `TakenForGood`).
* `durable_prompt.rs:259-260`: a compaction "either fully replaces the ledger [...] or leaves the
  previous file intact". A write that fails after `write_all` has returned is dropped with the
  answer of `sync_all`, and the rename goes on; two compactions in one millisecond write to one
  file (`CompactsShort`, `CompactsTogether`).
* `durable_prompt.rs:248-249`: "one bad write does not poison the whole ledger". One that is cut
  inside a character does: `read_to_string` fails (`:233-236`), or the warning's slice panics
  (`:251`) (`unreadable`).
* `task_graph.rs:270-272` skips an unreadable record "so the sweep still reaches later stale
  claims", but `scheduler_store.rs:62-66` has listed all records before, and fails on it
  (`BeginSweep`).
* `cli_driver.rs:428-432` and `:546-548` say that the timeout keeps a hung CLI from wedging the
  queue of its binary and that on expiry the lock is released. Not while a descendant keeps a pipe
  open that a reader waits on (`Wedged`, the exception of `DispatchReturns`, `RunEnds` and `Drains`).
* `dispatch_loop.rs:288-290`: "the change is already in HEAD, so we do NOT also feed this diff
  to the Accept" path. The mesh diff is in HEAD and is set in the pane whose Accept runs `git apply` (`git_apply_handler.rs:26-37`).
* `dispatch_loop.rs:329-331`: the candidates are the fallback "if nothing integrated". They are also
  when something was and its base or diff could not be had (*base*, *diff*).
* `code_diff.rs:4` says the diff is cleared "after a successful `git apply`", while
  `git_apply_handler.rs` leaves it (`Accept` keeps `pane`; git refuses it a second time).

### Fairness

`ClaimStore`: weak fairness of every step inside a call (a process that is alive keeps
running), strong fairness of `Lock` (a blocked `flock` is granted if the lock keeps
coming free), strong fairness of `BeginSweep`, which only a desktop with the mesh on can take, while
every record can be read (its watcher sweeps every second; it cannot be weak, since a process is in
and out of other calls), weak fairness of `Tick`. No fairness for claiming, beating, reporting, for
starting or staying alive, or for a record to be mended.

`MeshDriver`: weak fairness of the foreground loop, of each step of a spawn but the end of its
dispatch (the readers of a blade are outside of its timeout, so it may hang for good), of the
background tick (once a second), of the ageing of the application's own leases (nothing beats for them)
and of the watcher's reap (it sweeps records that can be read); strong fairness of `TakeDrive` (the
tokio mutex is FIFO, so a run is not overtaken forever by background ticks). No fairness for other
blades, which may beat for ever, and none for faults. `Drains` does not assume that the foreground run
survives.

`Dispatch`: weak fairness of what the runtime polls (`Spawn`, the readers, `Forward`,
`WaitEnds`, `Completes`, `GivesUp`), of `TimesOut` (time passes) and of `KillLands` (SIGKILL
takes effect). The lock is first come first served by its queue and needs none. No
fairness for a child or its descendants: they may hang for good.

## 5. What is proved

`ClaimStoreProofs` (about 1230 obligations), from `ClaimStoreAssumption` only, for any
finite or infinite set of processes and tasks and any bounds:

* `TypeCorrect`, `LockedWindows`, `RecordsMatchLeases`, `SingleAcquirer`: `Spec => []...`
* `EndingsFinal`, `HolderSpared`: the two action properties
* `Refinement`: `Spec => LeaseTable!Spec`

The inductive invariant `IInv` is their conjunction with what they rest on: `Calls` (what
a process inside a call knows: it holds the lock of its window, and the token it passes is
one it was given); `Mints` (the tokens granted are those up to `minted`); `Grants` (each
token has one getter, counting a `try_claim` that has persisted and not yet returned);
`Beats` (a record is at least as fresh as the last proof of life of its lease, and its
heartbeat is its holder's own). `RecordsAreLeases` alone is not inductive: a decision is taken on a
snapshot, so the proof needs `NoLostUpdate` to carry what holds of the record over to
the snapshot, and `NoLostUpdate` needs `Calls` to know which stages are inside the lock.
The proof has one lemma per group of actions, and the action properties and the
refinement follow from the invariant step by step.

`HasCycleProofs`, from `HasCycleAssumption` (finitely many ids, finite vectors):
`DegreesStayNatural` and `Correctness`. The invariant says that the in-degree of a node is
the number of its named, existing dependencies that are not popped yet; that every popped
node had all of them popped before; that `resolved` counts the popped ones. When the
queue is empty, the nodes left each wait for another that is left: a cycle; and a set of
nodes each of which depends on the set can never be entered by a pop.

`TaskGraphProofs`, from `TaskGraphAssumption`: all four properties. What a process saves is a copy
loaded earlier, so `IInv` says of every copy what it says of the file: acyclic, done only what has been
reported (reports only grow), and with all that is settled in it (`Kept`). A save settles something
only when there is no other copy to take it back (`Alone`).

`MailboxProofs` (about 1220 obligations), from `MailboxAssumption`: all five properties of the run,
`ImplementsInbox` included. `QueueInv` says more than the properties because a queue changes by
what a process read earlier: past the lock, the snapshot of a call is what is on disk
(`Locking`); what is about to be sent is its sender's newest message and nowhere yet (`Sending`); and
every message is in one place of one queue, or in one place of what one process was handed, as its
fate says, or in none (`Placed`). `DeliveredOnce` follows from `Placed`. `SenderOrder` is kept by a send because
of `Sending`, by a drain because it empties the queue, and by an acknowledgement because of
`WithoutKeeps`, the lemma about `Without`: what is left of a queue is a subsequence of it,
without the acknowledged. The refinement maps each write to the abstract send, drain or
acknowledgement of the queue on disk, and every other step to a stutter.
`AcksAreInformed` has an invariant of its own: an acknowledgement in a call carries ids its
recipient was shown.

`MeshDriverProofs` (about 1950 obligations), from `MeshDriverAssumption`, for every plan, roster, affinity,
capacity and bound: every property of the run but the two of liveness. `MeshInv` has four parts:

* `LockInv`: a driver that is anywhere between taking and releasing the lock is the one `drive`
  names (`OneDriver`).
* `TypeInv`: `TypeOK` by parts (`DriversTypeCorrect`). A driver has a batch exactly while it spawns.
* `PlanInv`: what a driver has before it are distinct nodes that are not done and whose
  dependencies a driver went through (`PlanOrderSurvives`, `DoneStaysDone`). `DependencyOrder` alone would be
  inductive, `NeverRedispatched` is not: marking the head of a batch leaves the rest of it undone
  only because the nodes are distinct, and the other driver's batch because there is none while this
  one spawns, which is `LockInv`.
* `LeaseInv`: the lease a blade works under was granted and, while it lives, is on the node the
  blade works on; so the report of a blade ends it, and nothing of the application is left live
  (`NoClaimIsLeaked`).

The distinctness of a batch comes from the lemmas on `assign`, which hold for any set of ready nodes
and any load: `PickBlade` (a blade is picked for its room, none only when none has any), `PlacementGrows`
(one id more), `AssignIs` (all of them). `AssignWithinCapacity` states what `distribution.rs:148-150`
promises: only ready nodes are assigned, each at most once, no binary is loaded beyond its capacity,
and a ready node waits only when every binary is full.
`assign` and `Without` are recursive functions inside their definitions; that such a function exists
and what it computes is proved by induction over an interval of numbers (`UpTo`), which rests on the
well-foundedness of the naturals instead of an induction theorem with an operator parameter.

`DispatchProofs`, from `DispatchAssumption`: the three invariants. `LockInv` says that past the
spawn and before the return a dispatch is at the head of its binary's queue (`Turn`) and that a child
lives only then (`Live`). `Good` says per dispatch that copy, channel and stream are consecutive
runs of lines as long as nothing is dropped (`InOrder`), that a stdout reader that has ended has read
everything or met a line it cannot decode (`Ended`), and that a dispatch past its wait has
an empty channel (`Drained`).

`PromptsProofs` (about 790 obligations), from `BoundsAssumption`: the three invariants. `SurvivesRestart`
rests on `Covered`, which says the same of the ledger whether it can be read or not, and that is
inductive only with `SnapshotsCover`: every copy that waits to replace the ledger covers the memory too, but for what
is exposed. What a compaction that went wrong leaves of its own copy, of another's or of the ledger comes from
those (`OverWithin`), and what it drops is exposed. For
`TakenForGood` a prompt taken undisturbed is in no copy, no append and no memory
(`TakenAreWithdrawn`), so the ledger is its last place, and its compaction empties that.

`IntegrationProofs` (about 2120 obligations), from `IntegrationAssumption`, for any ids and any number
of attempts, crashes and errors: `TypeCorrect`, `WorkIsKept`, `GatesDecide`, `IntegratedIsKept`,
`NothingPilesUp` and `OfferedOnce`, so every invariant its run checks. `Typed`
adds that a tree that is gone holds nothing and that a blade's tree is there. `LossInv`: past the
preflight, what the tree found still has uncommitted came late. `GateInv`: as long as nothing irregular has
happened, the blade's tree is its own and holds no work but the attempt's and what HEAD had.
`PlacedInv`: wherever work of an integrated attempt is held, it is in HEAD as well; and until the
merge all work of the attempt under way is in its own tree and branch (`Here`), so the merge
brings all of it; what a failing `git add` left out of the commit stays in the tree and is the
exception (`CommitDoes` says what a commit does to tree and branch, `RunDoes` what the start and the end
of a run do). `PileInv`: a clean tree belongs to the attempt under way, whose id finds it, so the
preflight looks at the tree that is removed. `OfferInv`: HEAD is older than an attempt that
is not merged, and what is merged is new to HEAD; so every merge shows in the diff from a
base that is known, and a run that
has merged nothing offers no candidate that is there.

Only model-checked:

* Liveness (`CallsReturn`, `OrphansAreFreed`, `RunEnds`, `Drains`, `DispatchReturns`), which is out of
  TLAPS's reach, as is `ENABLED`. Every invariant, action property and refinement that a passing run
  checks is also a theorem.
* The three violated properties, which are findings and not theorems.

Definitions by recursion are functions (`Without`, `assign`), never RECURSIVE operators.

## 6. Not modelled, and the plan

`PROJECT.json` lists every component with its status. Modelled first was what all else
rests on: claims, then the DAG, messages and the drivers; then what becomes of a blade's
work, the process it runs in, and the prompts it waits for. What is left, in the order it
would be worth doing:

1. A composition of `MeshDriver` and `Dispatch`: a blade that queues behind a hung one of its
   binary lets its claim age for up to 900 s before it starts. `MeshDriver` lets a dispatch
   take any time, so its properties cover it.
2. The capacity count of `count_in_flight` against what its comment says of other runs' claims.
3. The reconciler and the retry delay at 64 bits: both report or compute, and nothing modelled
   acts on them.

The daemon, the reaction engine, the remote workers and the retry policy are libraries that no
program of the workspace puts together: their functions have tests, and an interleaving of
them would be an invention of the model.

Left out for good: rendering, parsing, prompts and diffs; embeddings and similarity;
system-call sandboxes; transports. They have no protocol state a model would explain.
