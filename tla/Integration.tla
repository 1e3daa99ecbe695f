---------------------------- MODULE Integration -----------------------------
(***************************************************************************)
(* What becomes of a blade's work: the worktree it is done in              *)
(* (apohara-worktree), the commit, the merge into HEAD and the cleanup of  *)
(* the two dispatch bodies, and the diff that is offered for acceptance    *)
(* (apohara-desktop-dioxus, dispatch_loop.rs and git_apply_handler.rs).    *)
(*                                                                         *)
(* One application drives one repository, one blade at a time; it may die, *)
(* and a process a blade leaves behind may go on writing.  The content of  *)
(* a tree or a branch is a set of parts: what an attempt committed itself, *)
(* left uncommitted, what came in late, and the markers of a conflict.     *)
(* Claims are the subject of MeshDriver.                                   *)
(***************************************************************************)
EXTENDS Naturals, FiniteSets, Sequences

CONSTANTS Ids,          \* the task ids: they come back with every plan
          MaxAttempts,  \* bound on the blades ever spawned
          MaxMishaps    \* bound on the application's deaths and git or file errors

ASSUME IntegrationAssumption ==
    /\ Ids # {} /\ "none" \notin Ids
    /\ MaxAttempts \in Nat /\ MaxMishaps \in Nat

Attempts == 1 .. MaxAttempts

(* A slug is random and never drawn twice; directories are listed in the   *)
(* order of some hash, the same while they exist: the order of slugs.      *)
Slugs  == 1 .. MaxAttempts
Repo   == 0
Spaces == {Repo} \cup Slugs

User  == 0
Parts == ({User} \cup Attempts) \X {"own", "left", "late", "markers"}
NoTree == [id |-> "none", meta |-> FALSE]

VARIABLES
    tree,        \* tree[s]: the worktree at slug s, or NoTree
    minted,      \* the slugs drawn so far
    dirty,       \* dirty[s]: what is uncommitted in the tree at s
    tip,         \* tip[s]: what branch apohara/s holds; tip[Repo] is HEAD
    orphan,      \* orphan[s]: an attempt with a process alive in tree s, or 0
    app,         \* what the application is doing
    run,         \* the locals of its dispatch
    pane,        \* CODE_DIFF: the parts offered, and by whom
    crashes, faults,
    attempts,    \* history: blades spawned so far
    gated,       \* history: attempts whose gates passed
    integrated,  \* history: attempts reported as integrated
    strangers,   \* history: attempts whose id found another attempt's tree
    lost         \* history: uncommitted parts removed with their tree

vars == <<tree, minted, dirty, tip, orphan, app, run, pane, crashes, faults,
          attempts, gated, integrated, strangers, lost>>

Disk    == <<tree, minted, dirty, tip, orphan>>
Bounds  == <<crashes, faults>>
History == <<attempts, gated, integrated, strangers, lost>>

-----------------------------------------------------------------------------
(* slug: the tree this attempt created, space: where its blade works,      *)
(* found: the tree its id was last looked up to.                           *)
Idle == [at |-> "idle", id |-> "none", slug |-> Repo, space |-> Repo, found |-> Repo]

NoRun  == [mesh |-> FALSE, integrates |-> FALSE, based |-> FALSE, base |-> {}, any |-> FALSE,
           candidates |-> <<>>]
NoDiff == [parts |-> {}, winner |-> "none"]

At(place) == app.at = place
Goes(place) == app' = [app EXCEPT !.at = place]
EndsAttempt == app' = [Idle EXCEPT !.at = "next"]
k_now == attempts

MayFail == crashes + Cardinality(faults) < MaxMishaps
Fault(kind) == MayFail /\ faults' = faults \cup {kind}

(* list: the trees with metadata; the verbs take the first with their id.  *)
Listed(id) == {s \in Slugs : tree[s].meta /\ tree[s].id = id}
First(I)   == CHOOSE i \in I : \A j \in I : i <= j
Lookup(id) == IF Listed(id) = {} THEN Repo ELSE First(Listed(id))

Finds(place) ==
    /\ app' = [app EXCEPT !.at = place, !.found = Lookup(app.id)]
    /\ strangers' = IF Lookup(app.id) # app.slug THEN strangers \cup {k_now} ELSE strangers

(* A merge that stopped at a conflict leaves its markers in the main tree. *)
Markers == {p \in Parts : p[2] = "markers"}
Merging == dirty[Repo] \cap Markers # {}

Init ==
    /\ tree = [s \in Slugs |-> NoTree] /\ minted = {}
    /\ dirty = [s \in Spaces |-> {}] /\ tip = [s \in Spaces |-> {}]
    /\ orphan = [s \in Slugs |-> 0]
    /\ app = Idle /\ run = NoRun /\ pane = NoDiff
    /\ crashes = 0 /\ faults = {}
    /\ attempts = 0 /\ gated = {} /\ integrated = {}
    /\ strangers = {} /\ lost = {}

-----------------------------------------------------------------------------
(* run_dispatch, as bake-off or as mesh: the mesh presupposes integration, *)
(* the bake-off may have it switched off.  A git rev-parse that fails      *)
(* leaves an integrating run without a base.                               *)
StartRun ==
    /\ At("idle")
    /\ \E mesh \in BOOLEAN, integrates \in BOOLEAN, based \in BOOLEAN :
        /\ mesh => integrates
        /\ run' = [NoRun EXCEPT !.mesh = mesh, !.integrates = integrates,
                                !.based = based, !.base = IF based THEN tip[Repo] ELSE {}]
        /\ IF integrates /\ ~based THEN Fault("base")
           ELSE based = integrates /\ UNCHANGED faults
    /\ Goes("next")
    /\ UNCHANGED <<pane, crashes>> /\ UNCHANGED Disk /\ UNCHANGED History

(* create: the worktree and its branch, then metadata and lock.  If it     *)
(* fails the blade works in the repository itself.                         *)
Create(id) ==
    /\ At("next") /\ attempts < MaxAttempts
    /\ attempts' = attempts + 1
    /\ \/ \E s \in Slugs \ minted :
            /\ tree' = [tree EXCEPT ![s] = [id |-> id, meta |-> FALSE]]
            /\ minted' = minted \cup {s}
            /\ tip' = [tip EXCEPT ![s] = tip[Repo]]
            /\ app' = [Idle EXCEPT !.at = "meta", !.id = id, !.slug = s, !.space = s]
            /\ UNCHANGED faults
       \/ /\ Fault("create")
          /\ app' = [Idle EXCEPT !.at = "work", !.id = id]
          /\ UNCHANGED <<tree, minted, tip>>
    /\ UNCHANGED <<dirty, orphan, run, pane, crashes>>
    /\ UNCHANGED <<gated, integrated, strangers, lost>>

WriteMeta ==
    /\ At("meta")
    /\ \/ tree' = [tree EXCEPT ![app.slug].meta = TRUE] /\ Goes("work") /\ UNCHANGED faults
       \/ /\ Fault("create")
          /\ tree' \in {tree, [tree EXCEPT ![app.slug].meta = TRUE]}
          /\ app' = [app EXCEPT !.at = "work", !.space = Repo]
    /\ UNCHANGED <<minted, dirty, tip, orphan, run, pane, crashes>>
    /\ UNCHANGED History

(* The blade commits some of its work and leaves some of it uncommitted.   *)
Work ==
    /\ At("work")
    /\ \E own \in SUBSET {<<k_now, "own">>}, left \in SUBSET {<<k_now, "left">>} :
        /\ tip' = [tip EXCEPT ![app.space] = @ \cup own]
        /\ dirty' = [dirty EXCEPT ![app.space] = @ \cup left]
    /\ Goes("gates")
    /\ UNCHANGED <<tree, minted, orphan, run, pane>> /\ UNCHANGED Bounds
    /\ UNCHANGED <<attempts, gated, integrated, strangers, lost>>

(* The dispatch has ended, perhaps with a descendant out of its reach.  The*)
(* gates judge the exit, the output and git_diff, which sees changes of    *)
(* tracked files only; the bake-off keeps the diff as a candidate.         *)
(* Faulty form: the merge only depends on the exit.                        *)
Gates_exit_only ==
    /\ At("gates")
    /\ \E ok \in BOOLEAN, seen \in {{}, dirty[app.space]}, lives \in BOOLEAN :
        /\ gated' = IF ok THEN gated \cup {k_now} ELSE gated
        /\ run' = IF run.mesh THEN run
                  ELSE [run EXCEPT !.candidates = Append(@, [parts |-> seen, passed |-> ok])]
        /\ orphan' = IF lives /\ app.space # Repo THEN [orphan EXCEPT ![app.space] = k_now]
                     ELSE orphan
        /\ Goes(IF run.integrates THEN "commit" ELSE "cleanup")
    /\ UNCHANGED <<tree, minted, dirty, tip, pane>> /\ UNCHANGED Bounds
    /\ UNCHANGED <<attempts, integrated, strangers, lost>>

Gates ==
    /\ At("gates")
    /\ \E ok \in BOOLEAN, seen \in {{}, dirty[app.space]}, lives \in BOOLEAN :
        /\ gated' = IF ok THEN gated \cup {k_now} ELSE gated
        /\ run' = IF run.mesh THEN run
                  ELSE [run EXCEPT !.candidates = Append(@, [parts |-> seen, passed |-> ok])]
        /\ orphan' = IF lives /\ app.space # Repo THEN [orphan EXCEPT ![app.space] = k_now]
                     ELSE orphan
        /\ Goes(IF ok /\ run.integrates THEN "commit" ELSE "cleanup")
    /\ UNCHANGED <<tree, minted, dirty, tip, pane>> /\ UNCHANGED Bounds
    /\ UNCHANGED <<attempts, integrated, strangers, lost>>

-----------------------------------------------------------------------------
(* commit_worktree stages everything and commits what is staged.  When git *)
(* add fails that is whatever somebody staged before, and the attempt goes *)
(* on; nothing to commit, or a commit that fails, skips the merge.         *)
Commits(P) ==
    /\ P # {}
    /\ tip' = [tip EXCEPT ![app.space] = @ \cup P]
    /\ dirty' = [dirty EXCEPT ![app.space] = @ \ P]
    /\ Goes("find")

(* Faulty form: nothing is staged before the commit.                       *)
Commit_staged_only ==
    /\ At("commit")
    /\ \/ \E staged \in SUBSET dirty[app.space] : Commits(staged)
       \/ Goes("cleanup") /\ UNCHANGED <<tip, dirty>>
    /\ UNCHANGED <<tree, minted, orphan, run, pane>> /\ UNCHANGED Bounds
    /\ UNCHANGED History

Commit ==
    /\ At("commit")
    /\ \/ Commits(dirty[app.space]) /\ UNCHANGED faults
       \/ Fault("add") /\ \E staged \in SUBSET dirty[app.space] : Commits(staged)
       \/ Goes("cleanup") /\ UNCHANGED <<tip, dirty, faults>>
    /\ UNCHANGED <<tree, minted, orphan, run, pane, crashes>> /\ UNCHANGED History

(* merge looks its branch up, then waits for the integrator lock.          *)
FindBranch ==
    /\ At("find")
    /\ IF Lookup(app.id) = Repo THEN Goes("cleanup") /\ UNCHANGED strangers
       ELSE Finds("merge")
    /\ UNCHANGED <<run, pane>> /\ UNCHANGED Disk /\ UNCHANGED Bounds
    /\ UNCHANGED <<attempts, gated, integrated, lost>>

(* git merge: done, also when there was nothing to merge.                  *)
Merged ==
    /\ At("merge") /\ ~Merging
    /\ tip' = [tip EXCEPT ![Repo] = @ \cup tip[app.found]]
    /\ run' = [run EXCEPT !.any = TRUE]
    /\ integrated' = integrated \cup {k_now}
    /\ Goes("cleanup")
    /\ UNCHANGED <<tree, minted, dirty, orphan, pane>> /\ UNCHANGED Bounds
    /\ UNCHANGED <<attempts, gated, strangers, lost>>

(* git merge fails: a conflict with what HEAD has and the branch has not,  *)
(* changes in the main tree in its way, or a merge already in progress.    *)
Conflict ==
    /\ At("merge")
    /\ \/ /\ ~Merging /\ ~(tip[app.found] \subseteq tip[Repo])
          /\ \/ /\ ~(tip[Repo] \subseteq tip[app.found])
                /\ dirty' = [dirty EXCEPT ![Repo] = @ \cup {<<k_now, "markers">>}]
             \/ dirty[Repo] # {} /\ UNCHANGED dirty
       \/ Merging /\ UNCHANGED dirty
    /\ Goes("abort")
    /\ UNCHANGED <<tree, minted, tip, orphan, run, pane>> /\ UNCHANGED Bounds
    /\ UNCHANGED History

(* git merge --abort, whatever the failure was, then preserve_on_fail: its *)
(* branch holds what the tree's own branch goes on holding.                *)
(* Faulty form: a conflict ends the attempt, as an early return would.     *)
Abort_and_return ==
    /\ At("abort")
    /\ dirty' = [dirty EXCEPT ![Repo] = @ \ Markers]
    /\ EndsAttempt
    /\ UNCHANGED <<tree, minted, tip, orphan, run, pane>> /\ UNCHANGED Bounds
    /\ UNCHANGED History

Abort ==
    /\ At("abort")
    /\ dirty' = [dirty EXCEPT ![Repo] = @ \ Markers]
    /\ Goes("cleanup")
    /\ UNCHANGED <<tree, minted, tip, orphan, run, pane>> /\ UNCHANGED Bounds
    /\ UNCHANGED History

-----------------------------------------------------------------------------
(* cleanup(Completed): look the tree up, look it up again for the          *)
(* preflight, remove it if that found it clean.  git refuses to remove a   *)
(* dirty tree, and the directory is removed all the same.                  *)
FindTree ==
    /\ At("cleanup")
    /\ IF Lookup(app.id) = Repo THEN EndsAttempt /\ UNCHANGED strangers
       ELSE Finds("preflight")
    /\ UNCHANGED <<run, pane>> /\ UNCHANGED Disk /\ UNCHANGED Bounds
    /\ UNCHANGED <<attempts, gated, integrated, lost>>

(* A git status that fails prints nothing, which reads as clean.           *)
(* Faulty form: files git does not track do not count.                     *)
Preflight_tracked_only ==
    /\ At("preflight")
    /\ \/ Goes("remove")
       \/ dirty[Lookup(app.id)] # {} /\ EndsAttempt
    /\ UNCHANGED <<tree, minted, dirty, tip, orphan, run, pane>> /\ UNCHANGED Bounds
    /\ UNCHANGED History

Preflight ==
    /\ At("preflight")
    /\ \/ /\ dirty[Lookup(app.id)] = {}
          /\ Goes("remove") /\ UNCHANGED faults
       \/ /\ dirty[Lookup(app.id)] # {}
          /\ EndsAttempt
          /\ UNCHANGED faults
       \/ Fault("status") /\ Goes("remove")
    /\ UNCHANGED <<tree, minted, dirty, tip, orphan, run, pane, crashes>>
    /\ UNCHANGED History

(* Faulty form: git forgets the tree and its directory stays.              *)
Remove_entry_only ==
    /\ At("remove")
    /\ tree' = [tree EXCEPT ![app.found] = NoTree]
    /\ EndsAttempt
    /\ UNCHANGED <<minted, dirty, tip, orphan, run, pane>> /\ UNCHANGED Bounds
    /\ UNCHANGED History

Remove ==
    /\ At("remove")
    /\ lost' = lost \cup dirty[app.found]
    /\ tree' = [tree EXCEPT ![app.found] = NoTree]
    /\ dirty' = [dirty EXCEPT ![app.found] = {}]
    /\ orphan' = [orphan EXCEPT ![app.found] = 0]
    /\ EndsAttempt
    /\ UNCHANGED <<minted, tip, run, pane>> /\ UNCHANGED Bounds
    /\ UNCHANGED <<attempts, gated, integrated, strangers>>

-----------------------------------------------------------------------------
(* The end of a run offers what was integrated since its base, or else, for*)
(* the bake-off, the first candidate that passed, or else the first that   *)
(* changed anything: also after a merge, if the base is unknown or git     *)
(* diff fails.  A background tick, which spawns blades as the mesh does,   *)
(* offers nothing.                                                         *)
winning_diff ==
    LET changed == {i \in DOMAIN run.candidates : run.candidates[i].parts # {}}
        passed  == {i \in changed : run.candidates[i].passed}
        best    == First(IF passed # {} THEN passed ELSE changed)
    IN IF changed = {} THEN NoDiff
       ELSE [parts |-> run.candidates[best].parts, winner |-> "provider"]

mesh_diff ==
    IF run.any /\ run.based /\ tip[Repo] # run.base
    THEN [parts |-> tip[Repo] \ run.base, winner |-> "mesh"]
    ELSE NoDiff

(* Faulty form: a candidate is preferred to what was integrated.           *)
Offered_candidates_first ==
    IF ~run.mesh /\ winning_diff # NoDiff THEN winning_diff ELSE mesh_diff

Offered ==
    IF run.mesh \/ mesh_diff # NoDiff THEN mesh_diff ELSE winning_diff

Shows(diff) == pane' = IF diff = NoDiff THEN pane ELSE diff

EndRun ==
    /\ At("next")
    /\ \/ Shows(Offered) /\ UNCHANGED faults
       \/ run.mesh /\ UNCHANGED <<pane, faults>>
       \/ ~run.mesh /\ Fault("diff") /\ Shows(winning_diff)
    /\ app' = Idle /\ run' = NoRun
    /\ UNCHANGED Disk /\ UNCHANGED crashes /\ UNCHANGED History

(* The user accepts the diff, the mesh's too, which git applies unless it  *)
(* is there already, or rejects it; and works in the main tree.            *)
Accept ==
    /\ pane # NoDiff /\ pane.parts \cap (tip[Repo] \cup dirty[Repo]) = {}
    /\ dirty' = [dirty EXCEPT ![Repo] = @ \cup pane.parts]
    /\ UNCHANGED <<tree, minted, tip, orphan, app, run, pane>>
    /\ UNCHANGED Bounds /\ UNCHANGED History

Reject ==
    /\ pane # NoDiff /\ pane' = NoDiff
    /\ UNCHANGED <<app, run>> /\ UNCHANGED Disk /\ UNCHANGED Bounds /\ UNCHANGED History

UserEdits ==
    /\ <<User, "left">> \notin tip[Repo]
    /\ dirty' = [dirty EXCEPT ![Repo] = @ \cup {<<User, "left">>}]
    /\ UNCHANGED <<tree, minted, tip, orphan, app, run, pane>>
    /\ UNCHANGED Bounds /\ UNCHANGED History

(* The application dies; the blade at work may survive it, in its tree.    *)
Crash ==
    /\ ~At("idle") /\ MayFail
    /\ crashes' = crashes + 1
    /\ app' = Idle /\ run' = NoRun /\ pane' = NoDiff
    /\ orphan' \in IF app.at \in {"work", "gates"} /\ app.space # Repo
                   THEN {orphan, [orphan EXCEPT ![app.space] = k_now]} ELSE {orphan}
    /\ UNCHANGED <<tree, minted, dirty, tip, faults>> /\ UNCHANGED History

OrphanWrites(s) ==
    /\ orphan[s] # 0
    /\ dirty' = [dirty EXCEPT ![s] = @ \cup {<<orphan[s], "late">>}]
    /\ orphan' = [orphan EXCEPT ![s] = 0]
    /\ UNCHANGED <<tree, minted, tip, app, run, pane>> /\ UNCHANGED Bounds
    /\ UNCHANGED <<attempts, gated, integrated, strangers, lost>>

Integrate == Commit \/ FindBranch \/ Merged \/ Conflict \/ Abort
CleanUp   == FindTree \/ Preflight \/ Remove

Next ==
    \/ StartRun \/ (\E id \in Ids : Create(id)) \/ WriteMeta \/ Work \/ Gates
    \/ Integrate \/ CleanUp
    \/ EndRun \/ Accept \/ Reject \/ UserEdits
    \/ Crash
    \/ \E s \in Slugs : OrphanWrites(s)

Spec == Init /\ [][Next]_vars

-----------------------------------------------------------------------------
(* Properties. *)

Places == {"idle", "next", "meta", "work", "gates", "commit", "find", "merge",
           "abort", "cleanup", "preflight", "remove"}

FaultKinds == {"create", "status", "add", "base", "diff"}

TypeOK ==
    /\ tree \in [Slugs -> [id : Ids \cup {"none"}, meta : BOOLEAN]]
    /\ minted \subseteq Slugs
    /\ \A s \in Slugs : dirty[s] # {} \/ orphan[s] # 0 => tree[s] # NoTree
    /\ \A s \in Slugs : tree[s] # NoTree => s \in minted
    /\ dirty \in [Spaces -> SUBSET Parts] /\ tip \in [Spaces -> SUBSET Parts]
    /\ orphan \in [Slugs -> 0 .. MaxAttempts]
    /\ app \in [at : Places, id : Ids \cup {"none"}, slug : Spaces, space : Spaces, found : Spaces]
    /\ run.mesh \in BOOLEAN /\ run.integrates \in BOOLEAN /\ run.any \in BOOLEAN
    /\ run.based \in BOOLEAN
    /\ run.base \subseteq Parts
    /\ run.candidates \in Seq([parts : SUBSET Parts, passed : BOOLEAN])
    /\ pane \in [parts : SUBSET Parts, winner : {"none", "mesh", "provider"}]
    /\ lost \subseteq Parts
    /\ crashes \in 0 .. MaxMishaps /\ faults \subseteq FaultKinds
    /\ attempts \in 0 .. MaxAttempts
    /\ gated \subseteq Attempts /\ integrated \subseteq Attempts /\ strangers \subseteq Attempts

(* Cleanup never destroys work: whatever is still uncommitted in a tree    *)
(* (the gates failed, the commit failed, integration is off, or the id     *)
(* found a leftover of a crashed or an earlier run) survives, except what a*)
(* process nobody waits for wrote after the preflight had looked.  A git   *)
(* status that fails is taken for clean and voids this.                    *)
NoWorkLost == "status" \notin faults => \A p \in lost : p[2] = "late"

(* Only work of attempts whose gates passed (or the user's) reaches HEAD   *)
(* through the integrator; as long as every id found the tree of its own   *)
(* attempt and no blade had to work in the repository itself.  The gates   *)
(* judge an attempt: what a process left behind writes after them, and     *)
(* before the commit, goes in with it.                                     *)
OnlyGatedWork ==
    strangers = {} /\ "create" \notin faults => \A p \in tip[Repo] : p[1] \in gated \cup {User}

(* A node reported as integrated is in HEAD, whatever conflicts, aborts,   *)
(* crashes and accepted diffs came in between, as long as its id found its *)
(* own tree: what it committed itself always, and what it left uncommitted *)
(* unless a git add failed, which is logged and passed over.               *)
IntegratedIsInHead ==
    \A s \in Spaces : \A p \in tip[s] \cup dirty[s] \cup lost :
        p[1] \in integrated \ strangers /\ p[2] \in {"own", "left"} =>
            p \in tip[Repo] \/ ("add" \in faults /\ p[2] = "left")

(* The double-apply guard: a candidate that is offered for git apply holds *)
(* nothing that a merge already brought into HEAD, in its run or a later   *)
(* one; unless a run's base or its diff could not be had, when the guard   *)
(* falls through to the candidates.                                        *)
NothingOfferedTwice ==
    strangers = {} /\ faults \cap {"create", "base", "diff"} = {} /\ pane.winner = "provider" =>
        pane.parts \cap tip[Repo] = {}

(* Worktrees do not pile up: between runs a tree is only still there if it *)
(* holds uncommitted work, or a crash, an error or a mistaken id left it.  *)
CleanTreesAreRemoved ==
    At("idle") /\ crashes = 0 /\ faults = {} /\ strangers = {} =>
        \A s \in Slugs : tree[s] # NoTree => dirty[s] # {}
=============================================================================
