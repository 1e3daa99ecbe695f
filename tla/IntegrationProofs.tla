-------------------------- MODULE IntegrationProofs -------------------------
(***************************************************************************)
(* Proofs about Integration: its types, that neither cleanup nor the       *)
(* integrator loses work or lets through what no gate has passed, that no  *)
(* clean tree is left behind, and that nothing merged is offered again.    *)
(***************************************************************************)
EXTENDS Integration, FiniteSetTheorems, WellFoundedInduction, TLAPS

TreeType == [id : Ids \cup {"none"}, meta : BOOLEAN]
AppType  == [at : Places, id : Ids \cup {"none"}, slug : Spaces, space : Spaces, found : Spaces]
Candidate == [parts : SUBSET Parts, passed : BOOLEAN]
RunType  == [mesh : BOOLEAN, integrates : BOOLEAN, based : BOOLEAN, base : SUBSET Parts, any : BOOLEAN,
             candidates : Seq(Candidate)]
PaneType == [parts : SUBSET Parts, winner : {"none", "mesh", "provider"}]

DiskTyped ==
    /\ tree \in [Slugs -> TreeType] /\ minted \subseteq Slugs
    /\ dirty \in [Spaces -> SUBSET Parts] /\ tip \in [Spaces -> SUBSET Parts]
    /\ orphan \in [Slugs -> 0 .. MaxAttempts]

AppTyped ==
    /\ app \in AppType /\ run \in RunType /\ pane \in PaneType

HistoryTyped ==
    /\ crashes \in 0 .. MaxMishaps /\ faults \subseteq FaultKinds
    /\ attempts \in 0 .. MaxAttempts /\ lost \subseteq Parts
    /\ gated \subseteq Attempts /\ integrated \subseteq Attempts /\ strangers \subseteq Attempts

(* A tree that is gone leaves nothing behind; a blade's tree is there.     *)
TreesHold ==
    /\ \A s \in Slugs : dirty[s] # {} \/ orphan[s] # 0 => tree[s] # NoTree
    /\ \A s \in Slugs : tree[s] # NoTree => s \in minted
    /\ app.space # Repo => tree[app.space] # NoTree

(* What the place of the application says about its locals.                *)
PlacesHold ==
    /\ app.at \notin {"idle", "next"} => attempts \in Attempts
    /\ At("meta") => app.slug \in Slugs /\ app.space = app.slug
    /\ app.at \in {"merge", "abort", "preflight", "remove"} => app.found \in Slugs

Typed == DiskTyped /\ AppTyped /\ HistoryTyped /\ TreesHold /\ PlacesHold

-----------------------------------------------------------------------------
(* The helpers. *)

LEMMA FirstIsIn ==
    ASSUME NEW I \in SUBSET Nat, I # {}
    PROVE  First(I) \in I
<1> DEFINE less == {ss \in Nat \X Nat : ss[1] < ss[2]}
<1>1. IsWellFoundedOn(less, Nat)
  BY NatLessThanWellFounded, Zenon DEF OpToRel
<1> HIDE DEF less
<1>2. PICK x \in I : \A y \in I : ~(<<y, x>> \in less)
  BY <1>1, WFMin
<1>3. ASSUME NEW y \in I PROVE x <= y
  <2>1. x \in Nat /\ y \in Nat /\ <<y, x>> \in Nat \X Nat
    OBVIOUS
  <2>2. ~(y < x)
    BY <1>2, <2>1 DEF less
  <2> QED BY <2>1, <2>2
<1> QED BY <1>3 DEF First

LEMMA Spots ==
    /\ Repo \in Spaces /\ Slugs \subseteq Spaces /\ Repo \notin Slugs
    /\ Slugs \subseteq Nat /\ Slugs = Attempts
    /\ \A s \in Spaces : s # Repo => s \in Slugs
    /\ \A k \in Attempts : \A kind \in {"own", "left", "late", "markers"} : <<k, kind>> \in Parts
    /\ \A kind \in {"own", "left", "late", "markers"} : <<User, kind>> \in Parts
BY IntegrationAssumption DEF Spaces, Slugs, Attempts, Repo, Parts, User

LEMMA LookupFinds ==
    ASSUME NEW id
    PROVE  /\ Lookup(id) \in Spaces
           /\ Lookup(id) # Repo => Lookup(id) \in Slugs /\ tree[Lookup(id)].meta
<1>1. Listed(id) \subseteq Slugs /\ Listed(id) \in SUBSET Nat
  BY Spots DEF Listed
<1>2. CASE Listed(id) = {}
  BY <1>2, Spots DEF Lookup
<1>3. CASE Listed(id) # {}
  <2>1. Lookup(id) \in Listed(id)
    BY <1>1, <1>3, FirstIsIn DEF Lookup
  <2> QED BY <1>1, <2>1, Spots DEF Listed
<1> QED BY <1>2, <1>3

LEMMA RoomForMore ==
    ASSUME HistoryTyped, MayFail
    PROVE  crashes + 1 \in 0 .. MaxMishaps
<1>1. IsFiniteSet(FaultKinds)
  <2>1. /\ IsFiniteSet({"create"}) /\ IsFiniteSet({"status"}) /\ IsFiniteSet({"add"})
        /\ IsFiniteSet({"base"}) /\ IsFiniteSet({"diff"})
    BY FS_Singleton
  <2>2. IsFiniteSet({"create"} \cup {"status"}) /\ IsFiniteSet({"base"} \cup {"diff"})
    BY <2>1, FS_Union
  <2>3. IsFiniteSet(({"create"} \cup {"status"}) \cup {"add"})
    BY <2>1, <2>2, FS_Union
  <2>4. IsFiniteSet((({"create"} \cup {"status"}) \cup {"add"}) \cup ({"base"} \cup {"diff"}))
    BY <2>2, <2>3, FS_Union
  <2>5. FaultKinds = (({"create"} \cup {"status"}) \cup {"add"}) \cup ({"base"} \cup {"diff"})
    BY DEF FaultKinds
  <2> QED BY <2>4, <2>5
<1>2. IsFiniteSet(faults)
  BY <1>1, FS_Subset DEF HistoryTyped
<1>3. Cardinality(faults) \in Nat
  BY <1>2, FS_CardinalityType
<1> QED BY <1>3, IntegrationAssumption DEF HistoryTyped, MayFail

LEMMA OfferedType ==
    ASSUME AppTyped, DiskTyped
    PROVE  Offered \in PaneType /\ winning_diff \in PaneType
<1>1. NoDiff \in PaneType
  BY DEF NoDiff, PaneType
<1>2. mesh_diff \in PaneType
  <2>1. tip[Repo] \ run.base \in SUBSET Parts
    BY Spots DEF DiskTyped
  <2> QED BY <1>1, <2>1 DEF mesh_diff, PaneType
<1>3. winning_diff \in PaneType
  <2> DEFINE changed == {i \in DOMAIN run.candidates : run.candidates[i].parts # {}}
             passed == {i \in changed : run.candidates[i].passed}
             best == First(IF passed # {} THEN passed ELSE changed)
  <2>1. CASE changed = {}
    BY <1>1, <2>1 DEF winning_diff
  <2>2. CASE changed # {}
    <3>1. run.candidates \in Seq(Candidate)
      BY DEF AppTyped, RunType
    <3>2. changed \in SUBSET Nat /\ passed \in SUBSET changed
      BY <3>1
    <3>3. best \in changed
      BY <2>2, <3>2, FirstIsIn
    <3>4. run.candidates[best].parts \in SUBSET Parts
      <4>1. best \in DOMAIN run.candidates
        BY <3>3
      <4> HIDE DEF best, changed, passed
      <4>2. run.candidates[best] \in Candidate
        BY <3>1, <4>1
      <4> QED BY <4>2 DEF Candidate
    <3>5. winning_diff = [parts |-> run.candidates[best].parts, winner |-> "provider"]
      BY <2>2 DEF winning_diff
    <3> QED BY <3>4, <3>5 DEF PaneType
  <2> QED BY <2>1, <2>2
<1> QED BY <1>2, <1>3 DEF Offered

-----------------------------------------------------------------------------
(* Types. *)

LEMMA TypedInit == Init => Typed
<1> SUFFICES ASSUME Init PROVE Typed
  OBVIOUS
<1>1. DiskTyped
  BY IntegrationAssumption DEF Init, DiskTyped, TreeType, NoTree
<1>2. AppTyped
  <2>1. <<>> \in Seq(Candidate)
    OBVIOUS
  <2> QED BY <2>1, Spots DEF Init, AppTyped, AppType, RunType, PaneType, Idle, NoRun, NoDiff, Places
<1>3. HistoryTyped
  BY IntegrationAssumption DEF Init, HistoryTyped
<1>4. TreesHold /\ PlacesHold
  BY Spots DEF Init, TreesHold, PlacesHold, Idle, At
<1> QED BY <1>1, <1>2, <1>3, <1>4 DEF Typed

(* A step that moves only the application keeps what the disk holds.       *)
LEMMA DiskStays ==
    ASSUME DiskTyped, UNCHANGED Disk
    PROVE  DiskTyped'
BY DEF DiskTyped, Disk

LEMMA IdleType ==
    ASSUME NEW place \in Places
    PROVE  [Idle EXCEPT !.at = place] \in AppType /\ [Idle EXCEPT !.at = place].at = place
           /\ [Idle EXCEPT !.at = place].space = Repo
BY Spots DEF Idle, AppType

LEMMA GoesType ==
    ASSUME app \in AppType, NEW place \in Places, Goes(place)
    PROVE  app' \in AppType /\ app'.at = place /\ app'.id = app.id /\ app'.slug = app.slug
           /\ app'.space = app.space /\ app'.found = app.found
BY DEF Goes, AppType

(* What a commit may do: all that is uncommitted, some of it, or nothing.  *)
LEMMA CommitDoes ==
    ASSUME DiskTyped, AppTyped, Commit
    PROVE  /\ At("commit") /\ UNCHANGED <<tree, minted, orphan, run, pane, crashes>>
           /\ UNCHANGED <<attempts, gated, integrated, strangers, lost>>
           /\ faults' \in {faults, faults \cup {"add"}}
           /\ app' \in AppType /\ app'.slug = app.slug /\ app'.space = app.space
           /\ app.space \in Spaces
           /\ \/ app'.at = "cleanup" /\ UNCHANGED <<tip, dirty>>
              \/ \E P \in SUBSET dirty[app.space] :
                    /\ app'.at = "find" /\ P # {}
                    /\ tip' = [tip EXCEPT ![app.space] = @ \cup P]
                    /\ dirty' = [dirty EXCEPT ![app.space] = @ \ P]
                    /\ P = dirty[app.space] \/ "add" \in faults'
<1>1. CASE Goes("cleanup") /\ UNCHANGED <<tip, dirty, faults>>
  BY <1>1, GoesType DEF Commit, AppTyped, AppType, Places, History
<1>2. CASE Commits(dirty[app.space]) /\ UNCHANGED faults
  <2>1. Goes("find")
    BY <1>2 DEF Commits
  <2>2. /\ app' \in AppType /\ app'.at = "find" /\ app'.slug = app.slug /\ app'.space = app.space
        /\ app.space \in Spaces
    BY <2>1, GoesType DEF AppTyped, AppType, Places
  <2> QED BY <1>2, <2>2 DEF Commit, Commits, History
<1>3. CASE Fault("add") /\ \E staged \in SUBSET dirty[app.space] : Commits(staged)
  <2>1. PICK staged \in SUBSET dirty[app.space] : Commits(staged)
    BY <1>3
  <2>2. Goes("find")
    BY <2>1 DEF Commits
  <2>3. /\ app' \in AppType /\ app'.at = "find" /\ app'.slug = app.slug /\ app'.space = app.space
        /\ app.space \in Spaces
    BY <2>2, GoesType DEF AppTyped, AppType, Places
  <2>4. faults' = faults \cup {"add"}
    BY <1>3 DEF Fault
  <2> QED BY <2>1, <2>3, <2>4 DEF Commit, Commits, History
<1> QED BY <1>1, <1>2, <1>3 DEF Commit

(* The ends of a run.                                                      *)
LEMMA RunDoes ==
    /\ StartRun => /\ faults' \in {faults, faults \cup {"base"}}
                   /\ run'.base = (IF run'.based THEN tip[Repo] ELSE {})
                   /\ run'.candidates = <<>> /\ ~run'.any
                   /\ run'.based \/ "base" \in faults' \/ ~run'.integrates
    /\ EndRun => /\ faults' \in {faults, faults \cup {"diff"}}
                 /\ \/ pane' \in {pane, Offered}
                    \/ "diff" \in faults' /\ pane' = winning_diff
<1>1. ASSUME StartRun
      PROVE  /\ faults' \in {faults, faults \cup {"base"}}
             /\ run'.base = (IF run'.based THEN tip[Repo] ELSE {})
             /\ run'.candidates = <<>> /\ ~run'.any
             /\ run'.based \/ "base" \in faults' \/ ~run'.integrates
  <2>1. PICK mesh \in BOOLEAN, integrates \in BOOLEAN, based \in BOOLEAN :
          /\ run' = [NoRun EXCEPT !.mesh = mesh, !.integrates = integrates,
                                  !.based = based, !.base = IF based THEN tip[Repo] ELSE {}]
          /\ IF integrates /\ ~based THEN Fault("base")
             ELSE based = integrates /\ UNCHANGED faults
    BY <1>1 DEF StartRun
  <2>2. /\ run'.base = (IF run'.based THEN tip[Repo] ELSE {}) /\ run'.based = based
        /\ run'.integrates = integrates /\ run'.candidates = <<>> /\ ~run'.any
    BY <2>1 DEF NoRun
  <2> QED BY <2>1, <2>2 DEF Fault
<1>2. ASSUME EndRun
      PROVE  /\ faults' \in {faults, faults \cup {"diff"}}
             /\ \/ pane' \in {pane, Offered}
                \/ "diff" \in faults' /\ pane' = winning_diff
  BY <1>2 DEF EndRun, Shows, Fault
<1> QED BY <1>1, <1>2

LEMMA TypedStep ==
    ASSUME Typed, [Next]_vars
    PROVE  Typed'
<1> USE DEF Typed
<1>1. ASSUME UNCHANGED vars PROVE Typed'
  BY <1>1 DEF vars, DiskTyped, AppTyped, HistoryTyped, TreesHold, PlacesHold, At
<1>2. ASSUME StartRun PROVE Typed'
  <2>1. app' \in AppType /\ app'.at = "next" /\ app'.space = app.space
    BY <1>2, GoesType DEF StartRun, AppTyped, Places
  <2>2. run' \in RunType
    <3>1. tip[Repo] \in SUBSET Parts /\ {} \in SUBSET Parts /\ <<>> \in Seq(Candidate)
      BY Spots DEF DiskTyped
    <3> QED BY <1>2, <3>1 DEF StartRun, RunType, NoRun
  <2>3. DiskTyped'
    BY <1>2, DiskStays DEF StartRun
  <2>4. HistoryTyped' /\ AppTyped'
    BY <1>2, <2>1, <2>2, RunDoes DEF StartRun, HistoryTyped, FaultKinds, AppTyped, History
  <2> QED BY <1>2, <2>1, <2>3, <2>4 DEF StartRun, TreesHold, PlacesHold, At, Disk
<1>3. ASSUME NEW id \in Ids, Create(id) PROVE Typed'
  <2>1. attempts' = attempts + 1 /\ attempts' \in Attempts /\ attempts' \in 0 .. MaxAttempts
    <3>1. attempts' = attempts + 1 /\ attempts < MaxAttempts
      BY <1>3 DEF Create
    <3>2. attempts \in Nat /\ MaxAttempts \in Nat
      BY IntegrationAssumption DEF HistoryTyped
    <3> QED BY <3>1, <3>2 DEF Attempts
  <2>2. HistoryTyped'
    BY <1>3, <2>1 DEF Create, HistoryTyped, FaultKinds, Fault
  <2>3. ASSUME NEW s \in Slugs \ minted,
               tree' = [tree EXCEPT ![s] = [id |-> id, meta |-> FALSE]],
               minted' = minted \cup {s}, tip' = [tip EXCEPT ![s] = tip[Repo]],
               app' = [Idle EXCEPT !.at = "meta", !.id = id, !.slug = s, !.space = s]
        PROVE  Typed'
    <3>1. app' \in AppType /\ app'.at = "meta" /\ app'.slug = s /\ app'.space = s
      BY <2>3, Spots DEF Idle, AppType, Places
    <3>2. DiskTyped'
      BY <1>3, <2>3, Spots DEF Create, DiskTyped, TreeType
    <3>3. [id |-> id, meta |-> FALSE] # NoTree
      BY IntegrationAssumption DEF NoTree
    <3>4. tree'[s] # NoTree
      BY <2>3, <3>3 DEF DiskTyped
    <3>5. TreesHold'
      BY <1>3, <2>3, <3>1, <3>4 DEF Create, TreesHold, DiskTyped
    <3>6. PlacesHold'
      BY <2>1, <3>1 DEF PlacesHold, At
    <3>7. AppTyped'
      BY <1>3, <3>1 DEF Create, AppTyped
    <3> QED BY <2>2, <3>2, <3>5, <3>6, <3>7
  <2>4. ASSUME app' = [Idle EXCEPT !.at = "work", !.id = id], UNCHANGED <<tree, minted, tip>>
        PROVE  Typed'
    <3>1. app' \in AppType /\ app'.at = "work" /\ app'.space = Repo
      BY <2>4, Spots DEF Idle, AppType, Places
    <3>2. AppTyped' /\ DiskTyped'
      BY <1>3, <2>4, <3>1 DEF Create, AppTyped, DiskTyped
    <3>3. TreesHold' /\ PlacesHold'
      BY <1>3, <2>1, <2>4, <3>1 DEF Create, TreesHold, PlacesHold, At
    <3> QED BY <2>2, <3>2, <3>3
  <2> QED BY <1>3, <2>3, <2>4 DEF Create
<1>4. ASSUME WriteMeta PROVE Typed'
  <2>1. app.slug \in Slugs /\ app.space = app.slug /\ attempts \in Attempts
    BY <1>4 DEF WriteMeta, PlacesHold, At
  <2>2. /\ app' \in AppType /\ app'.at = "work" /\ app'.space \in {app.space, Repo}
        /\ tree' \in {tree, [tree EXCEPT ![app.slug].meta = TRUE]}
        /\ UNCHANGED <<minted, dirty, tip, orphan, run, pane, crashes>> /\ UNCHANGED History
    BY <1>4, Spots DEF WriteMeta, Goes, AppTyped, AppType, Places
  <2>3. faults' = faults \/ faults' = faults \cup {"create"}
    BY <1>4 DEF WriteMeta, Fault
  <2>4. tree' \in [Slugs -> TreeType] /\ \A s \in Slugs : (tree[s] # NoTree <=> tree'[s] # NoTree) \/ s = app.slug
    BY <2>1, <2>2 DEF DiskTyped, TreeType
  <2>5. tree'[app.slug] # NoTree
    BY <2>1, <2>2, Spots DEF TreesHold, DiskTyped, TreeType, NoTree
  <2>6. DiskTyped' /\ AppTyped' /\ HistoryTyped'
    BY <2>2, <2>3, <2>4 DEF DiskTyped, AppTyped, HistoryTyped, FaultKinds, History
  <2>7. TreesHold'
    BY <2>1, <2>2, <2>4, <2>5, Spots DEF TreesHold
  <2>8. PlacesHold'
    BY <2>1, <2>2 DEF PlacesHold, At, History
  <2> QED BY <2>6, <2>7, <2>8
<1>5. ASSUME Work PROVE Typed'
  <2>1. attempts \in Attempts
    BY <1>5 DEF Work, PlacesHold, At
  <2>2. /\ app' \in AppType /\ app'.at = "gates" /\ app'.space = app.space
    BY <1>5, GoesType DEF Work, AppTyped, Places
  <2>3. PICK own \in SUBSET {<<k_now, "own">>}, left \in SUBSET {<<k_now, "left">>} :
          /\ tip' = [tip EXCEPT ![app.space] = @ \cup own]
          /\ dirty' = [dirty EXCEPT ![app.space] = @ \cup left]
    BY <1>5 DEF Work
  <2>4. own \in SUBSET Parts /\ left \in SUBSET Parts /\ app.space \in Spaces
    BY <2>1, Spots DEF k_now, AppTyped, AppType
  <2>5. DiskTyped' /\ AppTyped' /\ HistoryTyped'
    BY <1>5, <2>2, <2>3, <2>4 DEF Work, DiskTyped, AppTyped, HistoryTyped, Bounds
  <2>6. TreesHold'
    BY <1>5, <2>2, <2>3, <2>4, Spots DEF Work, TreesHold, DiskTyped
  <2>7. PlacesHold'
    BY <1>5, <2>1, <2>2 DEF Work, PlacesHold, At
  <2> QED BY <2>5, <2>6, <2>7
<1>6. ASSUME Gates PROVE Typed'
  <2>1. attempts \in Attempts /\ app.space \in Spaces
    BY <1>6 DEF Gates, PlacesHold, At, AppTyped, AppType
  <2>2. PICK ok \in BOOLEAN, seen \in {{}, dirty[app.space]}, lives \in BOOLEAN :
          /\ gated' = IF ok THEN gated \cup {k_now} ELSE gated
          /\ run' = IF run.mesh THEN run
                    ELSE [run EXCEPT !.candidates = Append(@, [parts |-> seen, passed |-> ok])]
          /\ orphan' = IF lives /\ app.space # Repo THEN [orphan EXCEPT ![app.space] = k_now]
                       ELSE orphan
          /\ Goes(IF ok /\ run.integrates THEN "commit" ELSE "cleanup")
    BY <1>6 DEF Gates
  <2>3. app' \in AppType /\ app'.at \in {"commit", "cleanup"} /\ app'.space = app.space
    BY <2>2, GoesType DEF AppTyped, Places
  <2>4. run' \in RunType
    <3>1. [parts |-> seen, passed |-> ok] \in Candidate
      BY <2>1 DEF Candidate, DiskTyped
    <3>2. run.candidates \in Seq(Candidate)
      BY DEF AppTyped, RunType
    <3>3. Append(run.candidates, [parts |-> seen, passed |-> ok]) \in Seq(Candidate)
      BY <3>1, <3>2
    <3> QED BY <2>2, <3>3 DEF AppTyped, RunType
  <2>5. orphan' \in [Slugs -> 0 .. MaxAttempts]
    BY <2>1, <2>2 DEF DiskTyped, HistoryTyped, k_now
  <2>6. DiskTyped' /\ AppTyped' /\ HistoryTyped'
    BY <1>6, <2>1, <2>2, <2>3, <2>4, <2>5
    DEF Gates, DiskTyped, AppTyped, HistoryTyped, Bounds, k_now
  <2>7. TreesHold'
    BY <1>6, <2>1, <2>2, <2>3, Spots DEF Gates, TreesHold, DiskTyped
  <2>8. PlacesHold'
    BY <1>6, <2>1, <2>3 DEF Gates, PlacesHold, At
  <2> QED BY <2>6, <2>7, <2>8
<1>7. ASSUME Commit PROVE Typed'
  <2>1. attempts \in Attempts
    BY <1>7 DEF Commit, PlacesHold, At
  <2>2. /\ app' \in AppType /\ app'.at \in {"find", "cleanup"} /\ app'.space = app.space
        /\ UNCHANGED <<tree, minted, orphan, run, pane, crashes>>
        /\ UNCHANGED <<attempts, gated, integrated, strangers, lost>>
        /\ faults' \in {faults, faults \cup {"add"}}
    BY <1>7, CommitDoes
  <2>3. /\ tip' \in [Spaces -> SUBSET Parts] /\ dirty' \in [Spaces -> SUBSET Parts]
        /\ \A s \in Spaces : dirty'[s] \subseteq dirty[s]
    <3>1. CASE UNCHANGED <<tip, dirty>>
      BY <3>1 DEF DiskTyped
    <3>2. ASSUME NEW P \in SUBSET dirty[app.space],
                 tip' = [tip EXCEPT ![app.space] = @ \cup P],
                 dirty' = [dirty EXCEPT ![app.space] = @ \ P]
          PROVE  /\ tip' \in [Spaces -> SUBSET Parts] /\ dirty' \in [Spaces -> SUBSET Parts]
                 /\ \A s \in Spaces : dirty'[s] \subseteq dirty[s]
      BY <3>2 DEF DiskTyped, AppTyped, AppType
    <3> QED BY <1>7, <3>1, <3>2, CommitDoes
  <2>4. DiskTyped' /\ AppTyped' /\ HistoryTyped'
    BY <2>2, <2>3 DEF DiskTyped, AppTyped, HistoryTyped, FaultKinds
  <2>5. TreesHold'
    BY <2>2, <2>3, Spots DEF TreesHold
  <2>6. PlacesHold'
    BY <2>1, <2>2 DEF PlacesHold, At
  <2> QED BY <2>4, <2>5, <2>6
<1>8. ASSUME FindBranch \/ FindTree PROVE Typed'
  <2>1. attempts \in Attempts
    BY <1>8 DEF FindBranch, FindTree, PlacesHold, At
  <2>2. /\ app' \in AppType
        /\ \/ app'.at \in {"next", "cleanup"}
           \/ app'.at \in {"merge", "preflight"} /\ app'.found \in Slugs
        /\ app'.space \in {app.space, Repo}
        /\ strangers' \in {strangers, strangers \cup {k_now}}
    <3>1. CASE Lookup(app.id) = Repo
      <4>1. (Goes("cleanup") \/ EndsAttempt) /\ UNCHANGED strangers
        BY <1>8, <3>1 DEF FindBranch, FindTree
      <4>2. CASE Goes("cleanup")
        BY <4>1, <4>2, GoesType DEF AppTyped, Places
      <4>3. CASE EndsAttempt
        BY <4>1, <4>3, IdleType DEF EndsAttempt, Places
      <4> QED BY <4>1, <4>2, <4>3
    <3>2. CASE Lookup(app.id) # Repo
      <4>1. Lookup(app.id) \in Slugs
        BY <3>2, LookupFinds
      <4>2. Finds("merge") \/ Finds("preflight")
        BY <1>8, <3>2 DEF FindBranch, FindTree
      <4> QED BY <4>1, <4>2, Spots DEF Finds, AppTyped, AppType, Places
    <3> QED BY <3>1, <3>2
  <2>3. HistoryTyped' /\ AppTyped' /\ DiskTyped'
    BY <1>8, <2>1, <2>2, DiskStays
    DEF FindBranch, FindTree, HistoryTyped, AppTyped, Bounds, k_now
  <2>4. TreesHold'
    BY <1>8, <2>2 DEF FindBranch, FindTree, Disk, TreesHold
  <2>5. PlacesHold'
    BY <1>8, <2>1, <2>2 DEF FindBranch, FindTree, PlacesHold, At
  <2> QED BY <2>3, <2>4, <2>5
<1>9. ASSUME Merged PROVE Typed'
  <2>1. attempts \in Attempts /\ app.found \in Slugs
    BY <1>9 DEF Merged, PlacesHold, At
  <2>2. app' \in AppType /\ app'.at = "cleanup" /\ app'.space = app.space
    BY <1>9, GoesType DEF Merged, AppTyped, Places
  <2>3. run' \in RunType
    BY <1>9 DEF Merged, AppTyped, RunType
  <2>4. DiskTyped' /\ AppTyped' /\ HistoryTyped'
    BY <1>9, <2>1, <2>2, <2>3, Spots DEF Merged, DiskTyped, AppTyped, HistoryTyped, Bounds, k_now
  <2> QED BY <1>9, <2>1, <2>2, <2>4 DEF Merged, TreesHold, PlacesHold, At
<1>10. ASSUME Conflict \/ Abort PROVE Typed'
  <2>1. attempts \in Attempts /\ app.found \in Slugs
    BY <1>10 DEF Conflict, Abort, PlacesHold, At
  <2>2. /\ app' \in AppType /\ app'.at \in {"abort", "cleanup"} /\ app'.space = app.space
        /\ app'.found = app.found
    BY <1>10, GoesType DEF Conflict, Abort, AppTyped, Places
  <2>3. /\ dirty' \in [Spaces -> SUBSET Parts] /\ \A s \in Slugs : dirty'[s] = dirty[s]
    <3>1. \/ dirty' = dirty
          \/ dirty' = [dirty EXCEPT ![Repo] = @ \cup {<<attempts, "markers">>}]
          \/ dirty' = [dirty EXCEPT ![Repo] = @ \ Markers]
      BY <1>10 DEF Conflict, Abort, k_now
    <3>2. <<attempts, "markers">> \in Parts
      BY <2>1, Spots
    <3> QED BY <3>1, <3>2, Spots DEF DiskTyped
  <2>4. DiskTyped' /\ AppTyped' /\ HistoryTyped'
    BY <1>10, <2>2, <2>3 DEF Conflict, Abort, DiskTyped, AppTyped, HistoryTyped, Bounds, History
  <2>5. TreesHold'
    BY <1>10, <2>2, <2>3 DEF Conflict, Abort, TreesHold
  <2>6. PlacesHold'
    BY <1>10, <2>1, <2>2 DEF Conflict, Abort, PlacesHold, At, History
  <2> QED BY <2>4, <2>5, <2>6
<1>11. ASSUME Preflight PROVE Typed'
  <2>1. attempts \in Attempts /\ app.found \in Slugs
    BY <1>11 DEF Preflight, PlacesHold, At
  <2>2. /\ app' \in AppType /\ app'.at \in {"remove", "next"} /\ app'.space \in {app.space, Repo}
        /\ (app'.at = "remove" => app'.found = app.found)
    <3>1. Goes("remove") \/ EndsAttempt
      BY <1>11 DEF Preflight
    <3>2. CASE Goes("remove")
      BY <3>2, GoesType DEF AppTyped, Places
    <3>3. CASE EndsAttempt
      BY <3>3, IdleType DEF EndsAttempt, Places
    <3> QED BY <3>1, <3>2, <3>3
  <2>3. faults' = faults \/ faults' = faults \cup {"status"}
    BY <1>11 DEF Preflight, Fault
  <2>4. DiskTyped' /\ AppTyped' /\ HistoryTyped'
    BY <1>11, <2>2, <2>3 DEF Preflight, DiskTyped, AppTyped, HistoryTyped, FaultKinds, History
  <2>5. TreesHold'
    BY <1>11, <2>2 DEF Preflight, TreesHold
  <2>6. PlacesHold'
    BY <1>11, <2>1, <2>2 DEF Preflight, PlacesHold, At, History
  <2> QED BY <2>4, <2>5, <2>6
<1>12. ASSUME Remove PROVE Typed'
  <2>1. app.found \in Slugs
    BY <1>12 DEF Remove, PlacesHold, At
  <2>2. app' \in AppType /\ app'.at = "next" /\ app'.space = Repo
    BY <1>12, IdleType DEF Remove, EndsAttempt, Places
  <2>3. NoTree \in TreeType /\ 0 \in 0 .. MaxAttempts
    BY IntegrationAssumption DEF NoTree, TreeType
  <2>4. DiskTyped' /\ AppTyped' /\ HistoryTyped'
    BY <1>12, <2>1, <2>2, <2>3, Spots DEF Remove, DiskTyped, AppTyped, HistoryTyped, Bounds
  <2>5. TreesHold'
    BY <1>12, <2>1, <2>2, Spots DEF Remove, TreesHold, DiskTyped
  <2> QED BY <1>12, <2>2, <2>4, <2>5 DEF PlacesHold, At
<1>13. ASSUME EndRun PROVE Typed'
  <2>1. pane' \in PaneType
    BY <1>13, RunDoes, OfferedType DEF AppTyped
  <2>2. app' = Idle /\ Idle \in AppType /\ run' = NoRun /\ NoRun \in RunType
    <3>1. <<>> \in Seq(Candidate)
      OBVIOUS
    <3> QED BY <1>13, <3>1, Spots DEF EndRun, Idle, AppType, Places, NoRun, RunType
  <2>3. DiskTyped' /\ AppTyped' /\ HistoryTyped'
    BY <1>13, <2>1, <2>2, RunDoes, DiskStays DEF EndRun, AppTyped, HistoryTyped, FaultKinds, History
  <2> QED BY <1>13, <2>2, <2>3 DEF EndRun, Idle, TreesHold, PlacesHold, At, Disk
<1>14. ASSUME Accept \/ UserEdits PROVE Typed'
  <2>1. /\ dirty' \in [Spaces -> SUBSET Parts] /\ \A s \in Slugs : dirty'[s] = dirty[s]
    BY <1>14, Spots DEF Accept, UserEdits, DiskTyped, AppTyped, PaneType
  <2>2. DiskTyped' /\ AppTyped' /\ HistoryTyped'
    BY <1>14, <2>1 DEF Accept, UserEdits, DiskTyped, AppTyped, HistoryTyped, Bounds, History
  <2> QED BY <1>14, <2>1, <2>2 DEF Accept, UserEdits, TreesHold, PlacesHold, At, History
<1>15. ASSUME Reject PROVE Typed'
  <2>1. NoDiff \in PaneType
    BY DEF NoDiff, PaneType
  <2>2. DiskTyped' /\ AppTyped' /\ HistoryTyped'
    BY <1>15, <2>1, DiskStays DEF Reject, AppTyped, HistoryTyped, Bounds, History
  <2> QED BY <1>15, <2>2 DEF Reject, TreesHold, PlacesHold, At, Disk, History
<1>16. ASSUME Crash PROVE Typed'
  <2>1. app' = Idle /\ Idle \in AppType /\ run' = NoRun /\ NoRun \in RunType /\ NoDiff \in PaneType
    <3>1. <<>> \in Seq(Candidate)
      OBVIOUS
    <3> QED BY <1>16, <3>1, Spots DEF Crash, Idle, AppType, Places, NoRun, RunType, NoDiff, PaneType
  <2>2. \/ orphan' = orphan
        \/ app.space \in Slugs /\ orphan' = [orphan EXCEPT ![app.space] = k_now]
    BY <1>16, Spots DEF Crash, AppTyped, AppType
  <2>3. DiskTyped' /\ AppTyped'
    BY <1>16, <2>1, <2>2 DEF Crash, DiskTyped, AppTyped, HistoryTyped, k_now
  <2>4. HistoryTyped'
    BY <1>16, RoomForMore DEF Crash, HistoryTyped, History
  <2>5. TreesHold' /\ PlacesHold'
    BY <1>16, <2>1, <2>2, Spots DEF Crash, Idle, TreesHold, PlacesHold, At, DiskTyped
  <2> QED BY <2>3, <2>4, <2>5
<1>17. ASSUME NEW s \in Slugs, OrphanWrites(s) PROVE Typed'
  <2>1. orphan[s] \in Attempts
    <3>1. orphan[s] # 0 /\ orphan[s] \in 0 .. MaxAttempts
      BY <1>17 DEF OrphanWrites, DiskTyped
    <3> QED BY <3>1, IntegrationAssumption DEF Attempts
  <2>2. <<orphan[s], "late">> \in Parts /\ 0 \in 0 .. MaxAttempts
    BY <2>1, IntegrationAssumption DEF Parts
  <2>3. DiskTyped' /\ AppTyped' /\ HistoryTyped'
    BY <1>17, <2>2, Spots DEF OrphanWrites, DiskTyped, AppTyped, HistoryTyped, Bounds
  <2>4. TreesHold'
    BY <1>17, Spots DEF OrphanWrites, TreesHold, DiskTyped
  <2> QED BY <1>17, <2>3, <2>4 DEF OrphanWrites, PlacesHold, At
<1> QED BY <1>1, <1>2, <1>3, <1>4, <1>5, <1>6, <1>7, <1>8, <1>9, <1>10, <1>11, <1>12, <1>13,
           <1>14, <1>15, <1>16, <1>17 DEF Next, Integrate, CleanUp

LEMMA AlwaysTyped == Spec => []Typed
BY TypedInit, TypedStep, PTL DEF Spec

(* A tree that git or the file system has given up leaves nothing behind,  *)
(* and every value stays in its type (TypeOK).                             *)
THEOREM TypeCorrect == Spec => []TypeOK
<1>1. Typed => TypeOK
  BY DEF Typed, DiskTyped, AppTyped, HistoryTyped, TreesHold, TypeOK,
         TreeType, AppType, RunType, PaneType, Candidate
<1> QED BY <1>1, AlwaysTyped, PTL

-----------------------------------------------------------------------------
(* What cleanup removes. *)

(* Between the look at a tree and its removal only a process that was left *)
(* behind can have written there.                                          *)
LossInv ==
    /\ At("preflight") => app.found = Lookup(app.id)
    /\ At("remove") /\ "status" \notin faults => \A p \in dirty[app.found] : p[2] = "late"
    /\ NoWorkLost

LEMMA LossInit == Init => LossInv
BY DEF Init, Idle, At, LossInv, NoWorkLost

LEMMA LossElsewhere ==
    ASSUME LossInv, app'.at \notin {"preflight", "remove"}, lost' = lost, faults \subseteq faults'
    PROVE  LossInv'
BY DEF LossInv, At, NoWorkLost

LEMMA LossStep ==
    ASSUME Typed, LossInv, [Next]_vars
    PROVE  LossInv'
<1> USE DEF Typed
<1>1. ASSUME UNCHANGED vars PROVE LossInv'
  BY <1>1 DEF vars, LossInv, At, NoWorkLost, Lookup, Listed
<1>2. ASSUME StartRun \/ Work \/ Gates \/ Commit \/ FindBranch \/ Merged \/ Conflict \/ Abort
      PROVE  LossInv'
  <2>1. lost' = lost /\ faults \subseteq faults'
    BY <1>2, CommitDoes, RunDoes
    DEF StartRun, Work, Gates, FindBranch, Merged, Conflict, Abort, History, Bounds
  <2>2. app'.at \notin {"preflight", "remove"}
    <3>1. \/ \E place \in {"next", "gates", "commit", "cleanup", "find", "abort"} : Goes(place)
          \/ Finds("merge")
      BY <1>2 DEF StartRun, Work, Gates, Commit, Commits, FindBranch, Merged, Conflict, Abort
    <3>2. ASSUME NEW place \in {"next", "gates", "commit", "cleanup", "find", "abort"}, Goes(place)
          PROVE  app'.at = place
      BY <3>2, GoesType DEF AppTyped, Places
    <3>3. CASE Finds("merge")
      BY <3>3 DEF Finds, AppTyped, AppType
    <3> QED BY <3>1, <3>2, <3>3
  <2> QED BY <2>1, <2>2, LossElsewhere
<1>3. ASSUME \/ WriteMeta \/ EndRun \/ Crash
             \/ \E id \in Ids : Create(id)
      PROVE  LossInv'
  <2>1. lost' = lost /\ faults \subseteq faults'
    BY <1>3 DEF WriteMeta, EndRun, Crash, Create, Fault, History, Bounds
  <2>2. app'.at \in {"work", "idle", "meta"}
    <3>1. CASE WriteMeta
      BY <3>1 DEF WriteMeta, Goes, AppTyped, AppType
    <3>2. CASE EndRun \/ Crash
      BY <3>2 DEF EndRun, Crash, Idle
    <3>3. CASE \E id \in Ids : Create(id)
      BY <3>3 DEF Create, Idle
    <3> QED BY <1>3, <3>1, <3>2, <3>3
  <2> QED BY <2>1, <2>2, LossElsewhere
<1>4. ASSUME FindTree PROVE LossInv'
  <2>1. lost' = lost /\ faults' = faults /\ tree' = tree
    BY <1>4 DEF FindTree, Bounds, Disk
  <2>2. CASE EndsAttempt
    <3>1. app'.at = "next"
      BY <2>2 DEF EndsAttempt, Idle
    <3> QED BY <2>1, <3>1, LossElsewhere
  <2>3. CASE Finds("preflight")
    <3>1. app'.at = "preflight" /\ app'.id = app.id /\ app'.found = Lookup(app.id)
      BY <2>3, LookupFinds DEF Finds, AppTyped, AppType
    <3>2. Lookup(app.id)' = Lookup(app.id)
      BY <2>1, <3>1 DEF Lookup, Listed
    <3> QED BY <2>1, <3>1, <3>2 DEF LossInv, At, NoWorkLost
  <2> QED BY <1>4, <2>2, <2>3 DEF FindTree
<1>5. ASSUME Preflight PROVE LossInv'
  <2>1. /\ app.found = Lookup(app.id) /\ lost' = lost /\ dirty' = dirty
        /\ faults \subseteq faults'
    BY <1>5 DEF Preflight, LossInv, At, Fault, History
  <2>2. CASE EndsAttempt
    <3>1. app'.at = "next"
      BY <2>2 DEF EndsAttempt, Idle
    <3> QED BY <2>1, <3>1, LossElsewhere
  <2>3. CASE Goes("remove") /\ (dirty[Lookup(app.id)] = {} \/ "status" \in faults')
    <3>1. app'.at = "remove" /\ app'.found = app.found
      BY <2>3, GoesType DEF AppTyped, Places
    <3> QED BY <2>1, <2>3, <3>1 DEF LossInv, At, NoWorkLost
  <2> QED BY <1>5, <2>2, <2>3 DEF Preflight, Fault
<1>6. ASSUME Remove PROVE LossInv'
  <2>1. app'.at = "next" /\ faults' = faults /\ lost' = lost \cup dirty[app.found] /\ At("remove")
    BY <1>6 DEF Remove, EndsAttempt, Idle, Bounds
  <2> QED BY <2>1 DEF LossInv, At, NoWorkLost
<1>7. ASSUME Accept \/ UserEdits \/ Reject \/ \E s \in Slugs : OrphanWrites(s)
      PROVE  LossInv'
  <2>1. UNCHANGED <<app, tree, lost, faults>>
    BY <1>7 DEF Accept, UserEdits, Reject, OrphanWrites, Disk, Bounds, History
  <2>2. Lookup(app.id)' = Lookup(app.id)
    BY <2>1 DEF Lookup, Listed
  <2>3. ASSUME At("remove"), "status" \notin faults
        PROVE  \A p \in dirty'[app.found] : p[2] = "late"
    <3>1. app.found \in Slugs /\ \A p \in dirty[app.found] : p[2] = "late"
      BY <2>3 DEF PlacesHold, At, LossInv
    <3>2. dirty'[app.found] \subseteq dirty[app.found] \cup {<<orphan[app.found], "late">>}
      BY <1>7, <3>1, Spots DEF Accept, UserEdits, Reject, OrphanWrites, Disk, DiskTyped
    <3> QED BY <3>1, <3>2
  <2> QED BY <2>1, <2>2, <2>3 DEF LossInv, At, NoWorkLost
<1> QED BY <1>1, <1>2, <1>3, <1>4, <1>5, <1>6, <1>7 DEF Next, Integrate, CleanUp

(* Between two lookups by id, whatever crashed, failed or was left over,   *)
(* cleanup removes no uncommitted work but a late write (NoWorkLost).      *)
THEOREM WorkIsKept == Spec => []NoWorkLost
<1>1. Init => Typed /\ LossInv
  BY TypedInit, LossInit
<1>2. (Typed /\ LossInv) /\ [Next]_vars => (Typed /\ LossInv)'
  BY TypedStep, LossStep
<1>3. Typed /\ LossInv => NoWorkLost
  BY DEF LossInv
<1> QED BY <1>1, <1>2, <1>3, PTL DEF Spec

-----------------------------------------------------------------------------
(* What reaches HEAD. *)

Judged(P, who) == \A p \in P : p[1] \in gated \cup {User} \cup who /\ p[2] # "markers"

Busy == app.at \notin {"idle", "next"}

(* The tree of the attempt holds what HEAD held and the attempt's own work,*)
(* and is the one that will be merged, after the gates.                    *)
OwnTree ==
    /\ app.slug \in Slugs /\ app.space = app.slug /\ orphan[app.slug] \in {0, k_now}
    /\ Judged(tip[app.slug], {k_now}) /\ Judged(dirty[app.slug], {k_now})
    /\ app.at \in {"commit", "find", "merge"} => k_now \in gated
    /\ At("merge") => app.found = app.slug

Regular == strangers = {} /\ "create" \notin faults

GateInv == Regular => Judged(tip[Repo], {}) /\ (Busy => OwnTree)

LEMMA GateInit == Init => GateInv
BY Spots DEF Init, Idle, Regular, GateInv, Judged, Busy

(* Steps that add nothing to the attempt's tree or to HEAD.                *)
LEMMA GateStays ==
    ASSUME Typed, GateInv, Regular' => Regular,
           tip' = tip, gated \subseteq gated', attempts' = attempts,
           ~Busy' \/ (/\ Busy /\ app'.slug = app.slug /\ app'.space = app.space
                      /\ dirty'[app.slug] \subseteq dirty[app.slug]
                      /\ orphan'[app.slug] \in {orphan[app.slug], 0, k_now}
                      /\ app'.at \in {"commit", "find", "merge"} =>
                            app.at \in {"commit", "find", "merge"} \/ k_now \in gated'
                      /\ At("merge")' /\ Regular' => app'.found = app.slug)
    PROVE  GateInv'
<1> SUFFICES ASSUME Regular' PROVE Judged(tip[Repo], {})' /\ (Busy' => OwnTree')
  BY DEF GateInv
<1>1. Judged(tip[Repo], {}) /\ (Busy => OwnTree)
  BY DEF GateInv
<1>2. Judged(tip[Repo], {})'
  BY <1>1 DEF Judged
<1>3. ASSUME Busy' PROVE OwnTree'
  <2>1. OwnTree /\ app'.slug = app.slug /\ app'.space = app.space
        /\ dirty'[app.slug] \subseteq dirty[app.slug]
    BY <1>1, <1>3
  <2>2. Judged(tip[app.slug], {k_now})' /\ Judged(dirty[app.slug], {k_now})'
    BY <2>1 DEF OwnTree, Judged, k_now
  <2>3. app'.slug \in Slugs /\ app'.space = app'.slug /\ orphan'[app'.slug] \in {0, k_now'}
    BY <1>3, <2>1 DEF OwnTree, k_now
  <2>4. app'.at \in {"commit", "find", "merge"} => k_now' \in gated'
    BY <1>3, <2>1 DEF OwnTree, k_now
  <2>5. At("merge")' => app'.found = app'.slug
    BY <1>3, <2>1
  <2> QED BY <2>2, <2>3, <2>4, <2>5 DEF OwnTree
<1> QED BY <1>2, <1>3

LEMMA GateStep ==
    ASSUME Typed, GateInv, [Next]_vars
    PROVE  GateInv'
<1> USE DEF Typed
<1>1. ASSUME UNCHANGED vars PROVE GateInv'
  BY <1>1 DEF vars, GateInv, Regular, Judged, Busy, OwnTree, At, k_now
<1>2. ASSUME StartRun \/ EndRun \/ Crash PROVE GateInv'
  <2>1. app'.at \in {"next", "idle"}
    <3>1. CASE StartRun
      BY <3>1, GoesType DEF StartRun, AppTyped, Places
    <3>2. CASE EndRun \/ Crash
      BY <3>2 DEF EndRun, Crash, Idle
    <3> QED BY <1>2, <3>1, <3>2
  <2>2. /\ tip' = tip /\ gated' = gated /\ attempts' = attempts /\ strangers' = strangers
        /\ faults \subseteq faults'
    BY <1>2, RunDoes DEF StartRun, EndRun, Crash, Disk, History
  <2> QED BY <2>1, <2>2, GateStays DEF Busy, Regular
<1>3. ASSUME NEW id \in Ids, Create(id) PROVE GateInv'
  <2> SUFFICES ASSUME Regular' PROVE Judged(tip[Repo], {})' /\ OwnTree'
    BY DEF GateInv
  <2>1. Regular /\ gated' = gated /\ UNCHANGED <<dirty, orphan>>
    BY <1>3 DEF Create, Regular, Fault
  <2>2. "create" \notin faults'
    BY DEF Regular
  <2>3. PICK s \in Slugs \ minted :
          /\ tip' = [tip EXCEPT ![s] = tip[Repo]]
          /\ app' = [Idle EXCEPT !.at = "meta", !.id = id, !.slug = s, !.space = s]
    BY <1>3, <2>2 DEF Create, Fault
  <2>4. app'.at = "meta" /\ app'.slug = s /\ app'.space = s
    BY <2>3 DEF Idle
  <2>5. dirty[s] = {} /\ orphan[s] = 0
    BY <2>3 DEF TreesHold, DiskTyped
  <2>6. tip'[s] = tip[Repo] /\ tip'[Repo] = tip[Repo]
    BY <2>3, Spots DEF DiskTyped
  <2>7. Judged(tip[Repo], {})
    BY <2>1 DEF GateInv
  <2> QED BY <2>1, <2>4, <2>5, <2>6, <2>7 DEF Judged, OwnTree, At
<1>4. ASSUME WriteMeta PROVE GateInv'
  <2> SUFFICES ASSUME Regular' PROVE GateInv'
    BY DEF GateInv
  <2>1. Goes("work") /\ UNCHANGED <<tip, dirty, orphan, gated, attempts>> /\ Regular /\ At("meta")
    BY <1>4 DEF WriteMeta, Regular, Fault, History
  <2>2. app'.at = "work" /\ app'.slug = app.slug /\ app'.space = app.space
    BY <2>1, GoesType DEF AppTyped, Places
  <2> QED BY <2>1, <2>2, GateStays DEF Busy, At
<1>5. ASSUME Work PROVE GateInv'
  <2> SUFFICES ASSUME Regular' PROVE Judged(tip[Repo], {})' /\ OwnTree'
    BY DEF GateInv
  <2>1. Regular /\ OwnTree /\ Judged(tip[Repo], {}) /\ UNCHANGED <<orphan, gated, attempts>>
    BY <1>5 DEF Work, GateInv, Busy, Regular, At, Bounds
  <2>2. app'.at = "gates" /\ app'.slug = app.slug /\ app'.space = app.space
    BY <1>5, GoesType DEF Work, AppTyped, Places
  <2>3. PICK own \in SUBSET {<<k_now, "own">>}, left \in SUBSET {<<k_now, "left">>} :
          /\ tip' = [tip EXCEPT ![app.space] = @ \cup own]
          /\ dirty' = [dirty EXCEPT ![app.space] = @ \cup left]
    BY <1>5 DEF Work
  <2>4. /\ tip'[app.slug] = tip[app.slug] \cup own /\ tip'[Repo] = tip[Repo]
        /\ dirty'[app.slug] = dirty[app.slug] \cup left
    BY <2>1, <2>3, Spots DEF OwnTree, DiskTyped
  <2>5. Judged(own, {k_now}) /\ Judged(left, {k_now})
    BY <2>3 DEF Judged
  <2> QED BY <2>1, <2>2, <2>4, <2>5 DEF Judged, OwnTree, At, k_now
<1>6. ASSUME Gates PROVE GateInv'
  <2>1. PICK ok \in BOOLEAN, lives \in BOOLEAN :
          /\ gated' = IF ok THEN gated \cup {k_now} ELSE gated
          /\ orphan' = IF lives /\ app.space # Repo THEN [orphan EXCEPT ![app.space] = k_now]
                       ELSE orphan
          /\ Goes(IF ok /\ run.integrates THEN "commit" ELSE "cleanup")
    BY <1>6 DEF Gates
  <2>2. /\ UNCHANGED <<tip, dirty, attempts, strangers, faults>> /\ At("gates")
        /\ gated \subseteq gated'
    BY <1>6, <2>1 DEF Gates, Bounds
  <2>3. /\ app'.at \in {"commit", "cleanup"} /\ app'.slug = app.slug /\ app'.space = app.space
        /\ (app'.at = "commit" => k_now \in gated')
    BY <2>1, GoesType DEF AppTyped, Places
  <2> SUFFICES ASSUME Regular' PROVE GateInv'
    BY DEF GateInv
  <2>4. OwnTree
    BY <2>2 DEF GateInv, Regular, Busy, At
  <2>5. orphan'[app.slug] \in {orphan[app.slug], 0, k_now}
    BY <2>1, <2>4 DEF OwnTree, DiskTyped
  <2> QED BY <2>2, <2>3, <2>5, GateStays DEF Busy, At, Regular
<1>7. ASSUME Commit PROVE GateInv'
  <2> SUFFICES ASSUME Regular' PROVE Judged(tip[Repo], {})' /\ OwnTree'
    BY DEF GateInv
  <2>1. /\ At("commit") /\ UNCHANGED <<orphan, gated, attempts, strangers>> /\ faults \subseteq faults'
        /\ app'.at \in {"find", "cleanup"} /\ app'.slug = app.slug /\ app'.space = app.space
    BY <1>7, CommitDoes
  <2>2. Regular /\ OwnTree /\ Judged(tip[Repo], {})
    BY <2>1 DEF GateInv, Busy, Regular, At
  <2>3. /\ tip'[app.slug] \subseteq tip[app.slug] \cup dirty[app.slug] /\ tip'[Repo] = tip[Repo]
        /\ dirty'[app.slug] \subseteq dirty[app.slug]
    <3>1. app.space = app.slug /\ app.slug \in Slugs
      BY <2>2 DEF OwnTree
    <3>2. CASE UNCHANGED <<tip, dirty>>
      BY <3>2
    <3>3. ASSUME NEW P \in SUBSET dirty[app.space],
                 tip' = [tip EXCEPT ![app.space] = @ \cup P],
                 dirty' = [dirty EXCEPT ![app.space] = @ \ P]
          PROVE  /\ tip'[app.slug] \subseteq tip[app.slug] \cup dirty[app.slug]
                 /\ tip'[Repo] = tip[Repo] /\ dirty'[app.slug] \subseteq dirty[app.slug]
      BY <3>1, <3>3, Spots DEF DiskTyped
    <3> QED BY <1>7, <3>2, <3>3, CommitDoes
  <2> QED BY <2>1, <2>2, <2>3 DEF Judged, OwnTree, At, k_now
<1>8. ASSUME FindBranch \/ FindTree PROVE GateInv'
  <2>1. /\ UNCHANGED <<tip, dirty, orphan, gated, attempts, faults>> /\ strangers \subseteq strangers'
        /\ Busy
    BY <1>8 DEF FindBranch, FindTree, Finds, Disk, Bounds, At, Busy
  <2>2. CASE EndsAttempt
    <3>1. app'.at = "next"
      BY <2>2 DEF EndsAttempt, Idle
    <3> QED BY <2>1, <3>1, GateStays DEF Busy, Regular
  <2>3. CASE Goes("cleanup")
    <3>1. app'.at = "cleanup" /\ app'.slug = app.slug /\ app'.space = app.space
      BY <2>3, GoesType DEF AppTyped, Places
    <3> QED BY <2>1, <3>1, GateStays DEF Busy, At, Regular
  <2>4. CASE Finds("preflight")
    <3>1. app'.at = "preflight" /\ app'.slug = app.slug /\ app'.space = app.space
      BY <2>4 DEF Finds, AppTyped, AppType
    <3> QED BY <2>1, <3>1, GateStays DEF Busy, At, Regular
  <2>5. CASE At("find") /\ Finds("merge")
    <3>1. app'.at = "merge" /\ app'.slug = app.slug /\ app'.space = app.space
          /\ app'.found = Lookup(app.id)
      BY <2>5 DEF Finds, AppTyped, AppType
    <3>2. Regular' => app'.found = app.slug
      BY <2>5, <3>1 DEF Finds, Regular
    <3> QED BY <2>1, <2>5, <3>1, <3>2, GateStays DEF Busy, At, Regular
  <2> QED BY <1>8, <2>2, <2>3, <2>4, <2>5 DEF FindBranch, FindTree
<1>9. ASSUME Merged PROVE GateInv'
  <2> SUFFICES ASSUME Regular' PROVE Judged(tip[Repo], {})' /\ OwnTree'
    BY DEF GateInv
  <2>1. /\ Regular /\ OwnTree /\ Judged(tip[Repo], {})
        /\ UNCHANGED <<dirty, orphan, gated, attempts>> /\ At("merge")
    BY <1>9 DEF Merged, GateInv, Busy, Regular, At, Bounds
  <2>2. app'.at = "cleanup" /\ app'.slug = app.slug /\ app'.space = app.space
    BY <1>9, GoesType DEF Merged, AppTyped, Places
  <2>3. app.found = app.slug /\ k_now \in gated
    BY <2>1 DEF OwnTree, At
  <2>4. tip'[Repo] = tip[Repo] \cup tip[app.slug] /\ tip'[app.slug] = tip[app.slug]
    BY <1>9, <2>1, <2>3, Spots DEF Merged, OwnTree, DiskTyped
  <2> QED BY <2>1, <2>2, <2>3, <2>4 DEF Judged, OwnTree, At, k_now
<1>10. ASSUME Conflict \/ Abort PROVE GateInv'
  <2> SUFFICES ASSUME Regular' PROVE GateInv'
    BY DEF GateInv
  <2>1. /\ UNCHANGED <<tip, orphan, gated, attempts, faults, strangers>> /\ Busy
        /\ \A s \in Slugs : dirty'[s] = dirty[s]
    BY <1>10, Spots DEF Conflict, Abort, Busy, At, Bounds, History, DiskTyped
  <2>2. app'.at \in {"abort", "cleanup"} /\ app'.slug = app.slug /\ app'.space = app.space
    BY <1>10, GoesType DEF Conflict, Abort, AppTyped, Places
  <2>3. app.slug \in Slugs
    BY <2>1 DEF GateInv, Regular, OwnTree
  <2> QED BY <2>1, <2>2, <2>3, GateStays DEF Busy, At, Regular
<1>11. ASSUME Preflight PROVE GateInv'
  <2>1. /\ UNCHANGED <<tip, dirty, orphan, gated, attempts, strangers>> /\ Busy
        /\ faults \subseteq faults'
    BY <1>11 DEF Preflight, Busy, At, History, Fault
  <2>2. CASE EndsAttempt
    <3>1. app'.at = "next"
      BY <2>2 DEF EndsAttempt, Idle
    <3> QED BY <2>1, <3>1, GateStays DEF Busy, Regular
  <2>3. CASE Goes("remove")
    <3>1. app'.at = "remove" /\ app'.slug = app.slug /\ app'.space = app.space
      BY <2>3, GoesType DEF AppTyped, Places
    <3> QED BY <2>1, <3>1, GateStays DEF Busy, At, Regular
  <2> QED BY <1>11, <2>2, <2>3 DEF Preflight
<1>12. ASSUME Remove PROVE GateInv'
  <2>1. app'.at = "next" /\ UNCHANGED <<tip, gated, attempts, strangers, faults>>
    BY <1>12 DEF Remove, EndsAttempt, Idle, Bounds
  <2> QED BY <2>1, GateStays DEF Busy, Regular
<1>13. ASSUME Accept \/ UserEdits \/ Reject PROVE GateInv'
  <2> SUFFICES ASSUME Regular' PROVE GateInv'
    BY DEF GateInv
  <2>1. /\ UNCHANGED <<tip, orphan, gated, attempts, faults, strangers, app>>
        /\ \A s \in Slugs : dirty'[s] = dirty[s]
    BY <1>13, Spots DEF Accept, UserEdits, Reject, Disk, Bounds, History, DiskTyped
  <2>2. Busy => OwnTree
    BY <2>1 DEF GateInv, Regular
  <2>3. Busy => app.slug \in Slugs /\ (At("merge") => app.found = app.slug)
    BY <2>2 DEF OwnTree
  <2> QED BY <2>1, <2>3, GateStays DEF Busy, At, Regular
<1>14. ASSUME NEW s \in Slugs, OrphanWrites(s) PROVE GateInv'
  <2> SUFFICES ASSUME Regular' PROVE Judged(tip[Repo], {})' /\ (Busy' => OwnTree')
    BY DEF GateInv
  <2>1. /\ UNCHANGED <<tip, gated, attempts, faults, strangers, app>> /\ orphan[s] # 0
        /\ dirty' = [dirty EXCEPT ![s] = @ \cup {<<orphan[s], "late">>}]
        /\ orphan' = [orphan EXCEPT ![s] = 0]
    BY <1>14 DEF OrphanWrites, Bounds
  <2>2. Judged(tip[Repo], {}) /\ (Busy => OwnTree)
    BY <2>1 DEF GateInv, Regular
  <2>3. Judged(tip[Repo], {})'
    BY <2>1, <2>2 DEF Judged
  <2>4. ASSUME Busy' PROVE OwnTree'
    <3>1. OwnTree
      BY <2>1, <2>2, <2>4 DEF Busy
    <3>2. orphan'[app.slug] \in {0, k_now}
      BY <2>1, <3>1 DEF OwnTree, DiskTyped
    <3>3. Judged(dirty'[app.slug], {k_now})
      <4>1. CASE s = app.slug
        <5>1. orphan[s] = k_now
          BY <2>1, <3>1, <4>1 DEF OwnTree
        <5>2. dirty'[s] = dirty[s] \cup {<<k_now, "late">>}
          BY <2>1, <5>1, Spots DEF DiskTyped
        <5> QED BY <3>1, <4>1, <5>2 DEF OwnTree, Judged
      <4>2. CASE s # app.slug
        <5>1. dirty'[app.slug] = dirty[app.slug]
          BY <2>1, <3>1, <4>2, Spots DEF OwnTree, DiskTyped
        <5> QED BY <3>1, <5>1 DEF OwnTree
      <4> QED BY <4>1, <4>2
    <3> QED BY <2>1, <3>1, <3>2, <3>3 DEF OwnTree, Judged, At, k_now
  <2> QED BY <2>3, <2>4
<1> QED BY <1>1, <1>2, <1>3, <1>4, <1>5, <1>6, <1>7, <1>8, <1>9, <1>10, <1>11, <1>12, <1>13,
           <1>14 DEF Next, Integrate, CleanUp

(* As long as ids find their own trees and blades work in them, HEAD only  *)
(* gets work whose gates passed, and never conflict markers, whatever the  *)
(* conflicts, late writes and crashes in between (OnlyGatedWork).          *)
THEOREM GatesDecide == Spec => []OnlyGatedWork
<1>1. Init => Typed /\ GateInv
  BY TypedInit, GateInit
<1>2. (Typed /\ GateInv) /\ [Next]_vars => (Typed /\ GateInv)'
  BY TypedStep, GateStep
<1>3. Typed /\ GateInv => OnlyGatedWork
  BY DEF GateInv, Regular, Judged, OnlyGatedWork
<1> QED BY <1>1, <1>2, <1>3, PTL DEF Spec

-----------------------------------------------------------------------------
(* What has reached HEAD. *)

(* Every part that is anywhere; and of them the work of an attempt.        *)
Held == {p \in Parts : \/ \E s \in Spaces : p \in tip[s] \cup dirty[s]
                       \/ p \in lost \cup pane.parts
                       \/ \E i \in DOMAIN run.candidates : p \in run.candidates[i].parts}

Worked(p) == p[2] \in {"own", "left"}

Unmerged == {"meta", "work", "gates", "commit", "find", "merge"}

(* What a failing git add may leave out.                                   *)
LeftOut(p) == "add" \in faults /\ p[2] = "left"

(* Where a part of the work of the attempt under way is.                   *)
Here(p) ==
    /\ app.at \notin {"meta", "work"}
    /\ \/ p \in tip[app.space]
       \/ p[2] # "own" /\ app.at \in {"gates", "commit"} /\ p \in dirty[app.space]
       \/ LeftOut(p)

PlacedInv ==
    /\ \A p \in Held : Worked(p) => p[1] \in 0 .. attempts
    /\ integrated \subseteq 1 .. attempts
    /\ \A p \in Held : Worked(p) /\ p[1] \in integrated \ strangers =>
          p \in tip[Repo] \/ LeftOut(p)
    /\ app.at \in Unmerged =>
          /\ k_now \notin integrated /\ app.space \in {app.slug, Repo}
          /\ \A p \in Held : Worked(p) /\ p[1] = k_now => Here(p)
          /\ At("merge") /\ k_now \notin strangers => app.found = app.slug

LEMMA PlacedInit == Init => PlacedInv
<1> SUFFICES ASSUME Init PROVE PlacedInv
  OBVIOUS
<1>1. Held = {}
  BY DEF Init, Held, NoDiff, NoRun
<1> QED BY <1>1 DEF Init, PlacedInv, Idle, Unmerged

(* A step that brings in no work and moves what is merged only forward.    *)
LEMMA PlacedStays ==
    ASSUME Typed, PlacedInv,
           \A p \in Held' : p \in Held \/ ~Worked(p) \/ p[1] = User,
           tip[Repo] \subseteq tip'[Repo],
           integrated' = integrated, strangers \subseteq strangers', attempts' = attempts,
           faults \subseteq faults',
           app'.at \in Unmerged => /\ app.at \in Unmerged
                                   /\ \A p : Worked(p) /\ Here(p) => Here(p)'
                                   /\ app'.space \in {app'.slug, Repo}
                                   /\ At("merge")' /\ k_now \notin strangers' =>
                                          app'.found = app'.slug
    PROVE  PlacedInv'
<1>1. attempts \in Nat /\ User = 0 /\ (app.at \in Unmerged => attempts \in Attempts)
      /\ integrated \subseteq 1 .. attempts
  BY IntegrationAssumption DEF Typed, HistoryTyped, PlacesHold, Unmerged, User, PlacedInv
<1>2. \A p \in Held' : Worked(p) => p[1] \in 0 .. attempts
  BY <1>1 DEF PlacedInv
<1>3. \A p \in Held' : Worked(p) /\ p[1] \in integrated \ strangers' =>
         p \in tip'[Repo] \/ LeftOut(p)'
  <2>1. 0 \notin integrated
    BY <1>1
  <2>2. \A p : LeftOut(p) => LeftOut(p)'
    BY DEF LeftOut
  <2> QED BY <1>1, <2>1, <2>2 DEF PlacedInv
<1>4. ASSUME app'.at \in Unmerged
      PROVE  \A p \in Held' : Worked(p) /\ p[1] = k_now => Here(p)'
  <2>1. k_now # User
    BY <1>1, <1>4 DEF Attempts, k_now
  <2> QED BY <1>4, <2>1 DEF PlacedInv
<1> QED BY <1>1, <1>2, <1>3, <1>4 DEF PlacedInv, Worked, k_now

(* What is offered is held already.                                        *)
LEMMA OfferedIsHeld ==
    ASSUME Typed
    PROVE  Offered.parts \subseteq Held /\ winning_diff.parts \subseteq Held
<1> USE DEF Typed
<1>1. NoDiff.parts = {}
  BY DEF NoDiff
<1>2. mesh_diff.parts \subseteq Held
  BY <1>1, Spots DEF mesh_diff, Held, DiskTyped
<1>3. winning_diff.parts \subseteq Held
  <2> DEFINE changed == {i \in DOMAIN run.candidates : run.candidates[i].parts # {}}
             passed == {i \in changed : run.candidates[i].passed}
             best == First(IF passed # {} THEN passed ELSE changed)
  <2>1. CASE changed = {}
    BY <1>1, <2>1 DEF winning_diff
  <2>2. CASE changed # {}
    <3>1. run.candidates \in Seq(Candidate)
      BY DEF AppTyped, RunType
    <3>2. changed \in SUBSET Nat /\ passed \in SUBSET changed
      BY <3>1
    <3>3. best \in changed
      BY <2>2, <3>2, FirstIsIn
    <3>4. winning_diff.parts = run.candidates[best].parts
      BY <2>2 DEF winning_diff
    <3>5. best \in DOMAIN run.candidates
      BY <3>3
    <3> HIDE DEF best, changed, passed
    <3>6. run.candidates[best].parts \subseteq Parts
      <4>1. run.candidates[best] \in Candidate
        BY <3>1, <3>5
      <4> QED BY <4>1 DEF Candidate
    <3> QED BY <3>4, <3>5, <3>6 DEF Held
  <2> QED BY <2>1, <2>2
<1> QED BY <1>2, <1>3 DEF Offered

LEMMA PlacedStep ==
    ASSUME Typed, PlacedInv, [Next]_vars
    PROVE  PlacedInv'
<1> USE DEF Typed
<1>1. ASSUME UNCHANGED vars PROVE PlacedInv'
  BY <1>1 DEF vars, PlacedInv, Held, Worked, Here, LeftOut, At, k_now
<1>2. ASSUME StartRun \/ EndRun \/ Crash PROVE PlacedInv'
  <2>1. app'.at \in {"next", "idle"}
    <3>1. CASE StartRun
      BY <3>1, GoesType DEF StartRun, AppTyped, Places
    <3>2. CASE EndRun \/ Crash
      BY <3>2 DEF EndRun, Crash, Idle
    <3> QED BY <1>2, <3>1, <3>2
  <2>2. UNCHANGED <<tip, dirty, lost, integrated, strangers, attempts>>
    BY <1>2 DEF StartRun, EndRun, Crash, Disk, History
  <2>3. run'.candidates = <<>>
    <3>1. CASE StartRun
      BY <3>1, RunDoes
    <3>2. CASE EndRun \/ Crash
      <4>1. run' = NoRun
        BY <3>2 DEF EndRun, Crash
      <4> QED BY <4>1 DEF NoRun
    <3> QED BY <1>2, <3>1, <3>2
  <2>4. pane'.parts \subseteq Held
    <3>1. pane.parts \subseteq Parts
      BY DEF AppTyped, PaneType
    <3>2. pane.parts \subseteq Held
      BY <3>1 DEF Held
    <3>3. pane' \in {pane, Offered, winning_diff, NoDiff}
      BY <1>2, RunDoes DEF StartRun, Crash
    <3>4. NoDiff.parts = {}
      BY DEF NoDiff
    <3> QED BY <3>2, <3>3, <3>4, OfferedIsHeld
  <2>5. Held' \subseteq Held
    BY <2>2, <2>3, <2>4 DEF Held
  <2>6. faults \subseteq faults'
    BY <1>2, RunDoes DEF Crash
  <2> QED BY <2>1, <2>2, <2>5, <2>6, PlacedStays DEF Unmerged
<1>3. ASSUME NEW id \in Ids, Create(id) PROVE PlacedInv'
  <2>1. /\ UNCHANGED <<dirty, lost, run, pane, integrated, strangers>> /\ attempts' = attempts + 1
        /\ tip' = tip \/ \E s \in Slugs : tip' = [tip EXCEPT ![s] = tip[Repo]]
        /\ app'.at \in {"meta", "work"} /\ app'.space \in {app'.slug, Repo}
        /\ faults \subseteq faults'
    BY <1>3 DEF Create, Idle, Fault
  <2>2. tip'[Repo] = tip[Repo] /\ Held' \subseteq Held
    BY <2>1, Spots DEF Held, DiskTyped
  <2>3. attempts \in Nat /\ k_now' = attempts + 1
    BY <2>1, IntegrationAssumption DEF HistoryTyped, k_now
  <2>4. \A p \in Held' : Worked(p) => p[1] \in 0 .. attempts
    BY <2>2 DEF PlacedInv
  <2>5. \A p \in Held' : Worked(p) => p[1] \in 0 .. attempts' /\ p[1] # k_now'
    BY <2>1, <2>3, <2>4
  <2>6. integrated' \subseteq 1 .. attempts' /\ k_now' \notin integrated'
    BY <2>1, <2>3 DEF PlacedInv
  <2>7. \A p \in Held' : Worked(p) /\ p[1] \in integrated' \ strangers' =>
           p \in tip'[Repo] \/ LeftOut(p)'
    BY <2>1, <2>2 DEF PlacedInv, LeftOut
  <2> QED BY <2>1, <2>5, <2>6, <2>7 DEF PlacedInv, Worked, At
<1>4. ASSUME WriteMeta PROVE PlacedInv'
  <2>1. /\ UNCHANGED <<tip, dirty, lost, run, pane, integrated, strangers, attempts>> /\ At("meta")
        /\ app'.at = "work" /\ app'.slug = app.slug /\ app'.space \in {app.space, Repo}
        /\ faults \subseteq faults'
    BY <1>4 DEF WriteMeta, Goes, AppTyped, AppType, History, Fault
  <2>2. Held' = Held
    BY <2>1 DEF Held
  <2> QED BY <2>1, <2>2, PlacedStays DEF PlacedInv, Unmerged, Here, At
<1>5. ASSUME Work PROVE PlacedInv'
  <2>1. PICK own \in SUBSET {<<k_now, "own">>}, left \in SUBSET {<<k_now, "left">>} :
          /\ tip' = [tip EXCEPT ![app.space] = @ \cup own]
          /\ dirty' = [dirty EXCEPT ![app.space] = @ \cup left]
    BY <1>5 DEF Work
  <2>2. /\ UNCHANGED <<lost, run, pane, integrated, strangers, attempts, faults>> /\ At("work")
        /\ app'.at = "gates" /\ app'.slug = app.slug /\ app'.space = app.space
    BY <1>5, GoesType DEF Work, AppTyped, Places, Bounds
  <2>3. /\ app.space \in Spaces /\ tip[Repo] \subseteq tip'[Repo]
        /\ tip'[app.space] = tip[app.space] \cup own /\ dirty'[app.space] = dirty[app.space] \cup left
        /\ \A s \in Spaces : tip'[s] \subseteq tip[s] \cup own /\ dirty'[s] \subseteq dirty[s] \cup left
    BY <2>1, Spots DEF AppTyped, AppType, DiskTyped
  <2>4. \A p \in Held' : p \in Held \/ p \in own \cup left
    BY <2>2, <2>3 DEF Held
  <2>5. /\ k_now \in 0 .. attempts /\ k_now \notin integrated /\ app.space \in {app.slug, Repo}
        /\ \A p \in Held : Worked(p) => p[1] # k_now
    <3>1. attempts \in Nat
      BY IntegrationAssumption DEF HistoryTyped
    <3> QED BY <2>2, <3>1 DEF PlacedInv, Unmerged, Here, At, k_now
  <2>6. \A p \in own \cup left :
           /\ p[1] = k_now
           /\ p \in tip'[app.space] \/ (p[2] # "own" /\ p \in dirty'[app.space])
    <3>1. \A p \in own : p[1] = k_now /\ p \in tip'[app.space]
      BY <2>1, <2>3
    <3>2. \A p \in left : p[1] = k_now /\ p[2] = "left" /\ p \in dirty'[app.space]
      BY <2>1, <2>3
    <3> QED BY <3>1, <3>2
  <2>7. \A p \in Held' : Worked(p) => p[1] \in 0 .. attempts
    BY <2>4, <2>5, <2>6 DEF PlacedInv
  <2>8. \A p \in Held' : Worked(p) /\ p[1] \in integrated \ strangers =>
           p \in tip'[Repo] \/ LeftOut(p)'
    BY <2>2, <2>3, <2>4, <2>5, <2>6 DEF PlacedInv, LeftOut
  <2>9. \A p \in Held' : Worked(p) /\ p[1] = k_now => Here(p)'
    BY <2>2, <2>4, <2>5, <2>6 DEF Here
  <2> QED BY <2>2, <2>5, <2>7, <2>8, <2>9 DEF PlacedInv, Worked, At, k_now
<1>6. ASSUME Gates PROVE PlacedInv'
  <2>1. PICK ok \in BOOLEAN, seen \in {{}, dirty[app.space]} :
          /\ run' = IF run.mesh THEN run
                    ELSE [run EXCEPT !.candidates = Append(@, [parts |-> seen, passed |-> ok])]
          /\ Goes(IF ok /\ run.integrates THEN "commit" ELSE "cleanup")
    BY <1>6 DEF Gates
  <2>2. /\ UNCHANGED <<tip, dirty, lost, pane, integrated, strangers, attempts, faults>>
        /\ At("gates") /\ app.space \in Spaces
    BY <1>6 DEF Gates, AppTyped, AppType, Bounds
  <2>3. app'.at \in {"commit", "cleanup"} /\ app'.slug = app.slug /\ app'.space = app.space
    BY <2>1, GoesType DEF AppTyped, Places
  <2>4. ASSUME NEW i \in DOMAIN run'.candidates
        PROVE  \/ run'.candidates[i].parts \subseteq dirty[app.space]
               \/ i \in DOMAIN run.candidates /\ run'.candidates[i] = run.candidates[i]
    <3>1. CASE run.mesh
      BY <2>1, <2>4, <3>1
    <3>2. CASE ~run.mesh
      <4> DEFINE c == [parts |-> seen, passed |-> ok]
      <4>1. run'.candidates = Append(run.candidates, c)
        BY <2>1, <3>2 DEF AppTyped, RunType
      <4>2. run.candidates \in Seq(Candidate) /\ c \in Candidate /\ c.parts \subseteq dirty[app.space]
        BY <2>2 DEF AppTyped, RunType, Candidate, DiskTyped
      <4> HIDE DEF c
      <4>3. /\ i \in 1 .. Len(run.candidates) \/ i = Len(run.candidates) + 1
            /\ DOMAIN run.candidates = 1 .. Len(run.candidates)
        BY <2>4, <4>1, <4>2
      <4>4. CASE i \in 1 .. Len(run.candidates)
        BY <4>1, <4>2, <4>3, <4>4
      <4>5. CASE i = Len(run.candidates) + 1
        BY <4>1, <4>2, <4>5
      <4> QED BY <4>3, <4>4, <4>5
    <3> QED BY <3>1, <3>2
  <2>5. Held' \subseteq Held
    BY <2>2, <2>4 DEF Held
  <2>6. \A p : Here(p) /\ app'.at = "commit" => Here(p)'
    BY <2>2, <2>3 DEF Here, LeftOut, At
  <2> QED BY <2>2, <2>3, <2>5, <2>6, PlacedStays DEF PlacedInv, Unmerged, At
<1>7. ASSUME Commit PROVE PlacedInv'
  <2>1. /\ UNCHANGED <<lost, run, pane, integrated, strangers, attempts>> /\ At("commit")
        /\ faults \subseteq faults' /\ app'.at \in {"find", "cleanup"}
        /\ app'.slug = app.slug /\ app'.space = app.space /\ app.space \in Spaces
    BY <1>7, CommitDoes
  <2>2. CASE app'.at = "cleanup" /\ UNCHANGED <<tip, dirty>>
    <3>1. Held' = Held
      BY <2>1, <2>2 DEF Held
    <3> QED BY <2>1, <2>2, <3>1, PlacedStays DEF Unmerged
  <2>3. ASSUME NEW P \in SUBSET dirty[app.space], app'.at = "find",
               tip' = [tip EXCEPT ![app.space] = @ \cup P],
               dirty' = [dirty EXCEPT ![app.space] = @ \ P],
               P = dirty[app.space] \/ "add" \in faults'
        PROVE  PlacedInv'
    <3>1. tip[Repo] \subseteq tip'[Repo] /\ tip'[app.space] = tip[app.space] \cup P
      BY <2>1, <2>3, Spots DEF DiskTyped
    <3>2. Held' \subseteq Held
      BY <2>1, <2>3, Spots DEF Held, DiskTyped
    <3>3. ASSUME NEW p, Worked(p), Here(p) PROVE Here(p)'
      <4>1. p \in tip[app.space] \/ (p[2] = "left" /\ p \in dirty[app.space]) \/ LeftOut(p)
        BY <3>3 DEF Here, Worked
      <4>2. LeftOut(p) => LeftOut(p)'
        BY <2>1 DEF LeftOut
      <4>3. p[2] = "left" /\ p \in dirty[app.space] => p \in P \/ LeftOut(p)'
        BY <2>3 DEF LeftOut
      <4> QED BY <2>1, <2>3, <3>1, <4>1, <4>2, <4>3 DEF Here
    <3> QED BY <2>1, <2>3, <3>1, <3>2, <3>3, PlacedStays DEF PlacedInv, Unmerged, At
  <2> QED BY <1>7, <2>2, <2>3, CommitDoes
<1>8. ASSUME FindBranch \/ FindTree PROVE PlacedInv'
  <2>1. /\ UNCHANGED <<tip, dirty, lost, run, pane, integrated, attempts, faults>>
        /\ strangers \subseteq strangers'
    BY <1>8 DEF FindBranch, FindTree, Finds, Disk, Bounds
  <2>2. Held' = Held
    BY <2>1 DEF Held
  <2>3. CASE Goes("cleanup") \/ EndsAttempt \/ Finds("preflight")
    <3>1. app'.at \in {"cleanup", "next", "preflight"}
      BY <2>3, GoesType DEF EndsAttempt, Idle, Finds, AppTyped, AppType, Places
    <3> QED BY <2>1, <2>2, <3>1, PlacedStays DEF Unmerged
  <2>4. CASE At("find") /\ Finds("merge")
    <3>1. app'.at = "merge" /\ app'.slug = app.slug /\ app'.space = app.space
          /\ app'.found = Lookup(app.id)
      BY <2>4 DEF Finds, AppTyped, AppType
    <3>2. k_now \notin strangers' => app'.found = app'.slug
      BY <2>4, <3>1 DEF Finds
    <3>3. \A p : Here(p) => Here(p)'
      BY <2>1, <2>4, <3>1 DEF Here, LeftOut, At
    <3> QED BY <2>1, <2>2, <2>4, <3>1, <3>2, <3>3, PlacedStays DEF PlacedInv, Unmerged, At
  <2> QED BY <1>8, <2>3, <2>4 DEF FindBranch, FindTree
<1>9. ASSUME Merged PROVE PlacedInv'
  <2>1. /\ UNCHANGED <<dirty, lost, pane, strangers, attempts, faults>> /\ At("merge")
        /\ integrated' = integrated \cup {k_now} /\ run'.candidates = run.candidates
        /\ tip' = [tip EXCEPT ![Repo] = @ \cup tip[app.found]]
    BY <1>9 DEF Merged, AppTyped, RunType, Bounds
  <2>2. app'.at = "cleanup"
    BY <1>9, GoesType DEF Merged, AppTyped, Places
  <2>3. app.found \in Slugs /\ attempts \in Attempts
    BY <2>1 DEF PlacesHold, At
  <2>4. tip'[Repo] = tip[Repo] \cup tip[app.found] /\ \A s \in Slugs : tip'[s] = tip[s]
    BY <2>1, Spots DEF DiskTyped
  <2>5. Held' \subseteq Held
    <3>1. \A s \in Spaces : \A p \in tip'[s] : \E t \in Spaces : p \in tip[t]
      BY <2>3, <2>4, Spots
    <3>2. UNCHANGED <<dirty, lost, pane>> /\ run'.candidates = run.candidates
      BY <2>1
    <3>3. ASSUME NEW s \in Spaces, NEW p \in tip'[s] \cup dirty'[s]
          PROVE  \E t \in Spaces : p \in tip[t] \cup dirty[t]
      BY <3>1, <3>2
    <3> QED BY <3>2, <3>3 DEF Held
  <2>6. integrated' \subseteq 1 .. attempts
    <3>1. attempts \in 1 .. attempts
      BY <2>3, IntegrationAssumption DEF Attempts
    <3>2. integrated \subseteq 1 .. attempts
      BY DEF PlacedInv
    <3> QED BY <2>1, <3>1, <3>2 DEF k_now
  <2>7. ASSUME NEW p \in Held, Worked(p), p[1] = k_now, k_now \notin strangers
        PROVE  p \in tip'[Repo] \/ LeftOut(p)
    <3>1. /\ p \in tip[app.space] \/ LeftOut(p)
          /\ app.space \in {app.slug, Repo} /\ app.found = app.slug
      BY <2>1, <2>7 DEF PlacedInv, Unmerged, Here, At
    <3> QED BY <2>4, <3>1
  <2>8. \A p \in Held' : Worked(p) /\ p[1] \in integrated' \ strangers' =>
           p \in tip'[Repo] \/ LeftOut(p)'
    BY <2>1, <2>4, <2>5, <2>7 DEF PlacedInv, LeftOut
  <2> QED BY <2>1, <2>2, <2>5, <2>6, <2>8 DEF PlacedInv, Unmerged, Worked
<1>10. ASSUME Conflict \/ Abort PROVE PlacedInv'
  <2>1. /\ UNCHANGED <<tip, lost, run, pane, integrated, strangers, attempts, faults>>
        /\ \/ dirty' = dirty
           \/ dirty' = [dirty EXCEPT ![Repo] = @ \cup {<<k_now, "markers">>}]
           \/ dirty' = [dirty EXCEPT ![Repo] = @ \ Markers]
    BY <1>10 DEF Conflict, Abort, Bounds, History
  <2>2. app'.at \in {"abort", "cleanup"}
    BY <1>10, GoesType DEF Conflict, Abort, AppTyped, Places
  <2>3. \A s \in Spaces : dirty'[s] \subseteq dirty[s] \cup {<<k_now, "markers">>}
    BY <2>1, Spots DEF DiskTyped
  <2>4. \A p \in Held' : p \in Held \/ p = <<k_now, "markers">>
    BY <2>1, <2>3 DEF Held
  <2>5. \A p \in Held' : p \in Held \/ ~Worked(p)
    BY <2>4 DEF Worked
  <2> QED BY <2>1, <2>2, <2>5, PlacedStays DEF Unmerged
<1>11. ASSUME Preflight PROVE PlacedInv'
  <2>1. /\ UNCHANGED <<tip, dirty, lost, run, pane, integrated, strangers, attempts>>
        /\ faults \subseteq faults'
    BY <1>11 DEF Preflight, Fault, History
  <2>2. Held' = Held
    BY <2>1 DEF Held
  <2>3. app'.at \in {"remove", "next"}
    BY <1>11, GoesType DEF Preflight, EndsAttempt, Idle, AppTyped, Places
  <2> QED BY <2>1, <2>2, <2>3, PlacedStays DEF Unmerged
<1>12. ASSUME Remove PROVE PlacedInv'
  <2>1. /\ UNCHANGED <<tip, run, pane, integrated, strangers, attempts, faults>> /\ app'.at = "next"
        /\ lost' = lost \cup dirty[app.found] /\ dirty' = [dirty EXCEPT ![app.found] = {}]
        /\ app.found \in Spaces
    BY <1>12 DEF Remove, EndsAttempt, Idle, AppTyped, AppType, Bounds
  <2>2. Held' \subseteq Held
    BY <2>1 DEF Held, DiskTyped
  <2> QED BY <2>1, <2>2, PlacedStays DEF Unmerged
<1>13. ASSUME Accept \/ UserEdits \/ Reject \/ \E s \in Slugs : OrphanWrites(s) PROVE PlacedInv'
  <2>1. UNCHANGED <<tip, lost, run, app, integrated, strangers, attempts, faults>>
    BY <1>13 DEF Accept, UserEdits, Reject, OrphanWrites, Disk, Bounds, History
  <2>2. /\ pane' = pane \/ pane'.parts = {}
        /\ \A s \in Spaces : \A p \in dirty'[s] :
              p \in dirty[s] \cup pane.parts \/ p[2] = "late" \/ p[1] = User
    BY <1>13, Spots DEF Accept, UserEdits, Reject, OrphanWrites, Disk, NoDiff, DiskTyped
  <2>3. \A p \in Held' : p \in Held \/ p[2] = "late" \/ p[1] = User
    BY <2>1, <2>2 DEF Held
  <2>4. \A p \in Held' : p \in Held \/ ~Worked(p) \/ p[1] = User
    BY <2>3 DEF Worked
  <2>5. dirty[app.space] \subseteq dirty'[app.space]
    BY <1>13, Spots DEF Accept, UserEdits, Reject, OrphanWrites, Disk, DiskTyped, AppTyped, AppType
  <2>6. \A p : Here(p) => Here(p)'
    BY <2>1, <2>5 DEF Here, LeftOut
  <2> QED BY <2>1, <2>4, <2>6, PlacedStays DEF PlacedInv, At
<1> QED BY <1>1, <1>2, <1>3, <1>4, <1>5, <1>6, <1>7, <1>8, <1>9, <1>10, <1>11, <1>12, <1>13
        DEF Next, Integrate, CleanUp

(* What was reported as integrated is in HEAD and stays there, if its id   *)
(* found its own tree: all of it, but for what a failing git add left out  *)
(* (IntegratedIsInHead).                                                   *)
THEOREM IntegratedIsKept == Spec => []IntegratedIsInHead
<1>1. Init => Typed /\ PlacedInv
  BY TypedInit, PlacedInit
<1>2. (Typed /\ PlacedInv) /\ [Next]_vars => (Typed /\ PlacedInv)'
  BY TypedStep, PlacedStep
<1>3. Typed /\ PlacedInv => IntegratedIsInHead
  BY DEF Typed, DiskTyped, HistoryTyped, PlacedInv, Held, Worked, LeftOut, IntegratedIsInHead
<1> QED BY <1>1, <1>2, <1>3, PTL DEF Spec

-----------------------------------------------------------------------------
(* What a run leaves behind. *)

Undisturbed == crashes = 0 /\ faults = {} /\ strangers = {}

(* A clean tree belongs to the attempt under way, and its id finds it.     *)
PileInv ==
    Undisturbed =>
        /\ \A s \in Slugs : tree[s] # NoTree => dirty[s] # {} \/ (Busy /\ s = app.slug)
        /\ Busy => /\ app.slug \in Slugs /\ tree[app.slug].id = app.id
                   /\ ~At("meta") => tree[app.slug].meta
                   /\ app.at \in {"preflight", "remove"} => app.found = app.slug

LEMMA PileInit == Init => PileInv
BY DEF Init, Idle, PileInv, Busy

(* Steps that neither begin nor end an attempt, and touch no tree.         *)
LEMMA PileStays ==
    ASSUME PileInv, Undisturbed' => Undisturbed, tree' = tree,
           Undisturbed' => \A s \in Slugs : dirty[s] # {} => dirty'[s] # {} \/ (Busy /\ s = app.slug),
           Busy => Busy' /\ app'.slug = app.slug /\ app'.id = app.id,
           Busy' => /\ Busy /\ (At("meta")' => At("meta")) /\ (At("meta") => At("meta")')
                    /\ Undisturbed' /\ app'.at \in {"preflight", "remove"} => app'.found = app.slug
    PROVE  PileInv'
<1> SUFFICES ASSUME Undisturbed' PROVE PileInv'
  BY DEF PileInv
<1>1. \A s \in Slugs : tree[s] # NoTree => dirty[s] # {} \/ (Busy /\ s = app.slug)
  BY DEF PileInv
<1>2. \A s \in Slugs : tree'[s] # NoTree => dirty'[s] # {} \/ (Busy' /\ s = app'.slug)
  BY <1>1
<1>3. Busy' => /\ app'.slug \in Slugs /\ tree'[app'.slug].id = app'.id
               /\ ~At("meta")' => tree'[app'.slug].meta
               /\ app'.at \in {"preflight", "remove"} => app'.found = app'.slug
  BY DEF PileInv
<1> QED BY <1>2, <1>3 DEF PileInv

LEMMA PileStep ==
    ASSUME Typed, GateInv, LossInv, PileInv, [Next]_vars
    PROVE  PileInv'
<1> USE DEF Typed
<1>1. ASSUME UNCHANGED vars PROVE PileInv'
  BY <1>1 DEF vars, PileInv, Undisturbed, Busy, At
<1>2. ASSUME StartRun \/ EndRun PROVE PileInv'
  <2>1. ~Busy /\ ~Busy'
    <3>1. CASE StartRun
      BY <3>1, GoesType DEF StartRun, AppTyped, Places, Busy, At
    <3>2. CASE EndRun
      BY <3>2 DEF EndRun, Idle, Busy, At
    <3> QED BY <1>2, <3>1, <3>2
  <2>2. UNCHANGED <<tree, dirty, crashes, strangers>> /\ faults \subseteq faults'
    BY <1>2, RunDoes DEF StartRun, EndRun, Disk, History
  <2> QED BY <2>1, <2>2, PileStays DEF Undisturbed
<1>3. ASSUME Crash PROVE PileInv'
  <2>1. crashes' # 0
    BY <1>3, IntegrationAssumption DEF Crash, HistoryTyped
  <2> QED BY <2>1 DEF PileInv, Undisturbed
<1>4. ASSUME NEW id \in Ids, Create(id) PROVE PileInv'
  <2> SUFFICES ASSUME Undisturbed' PROVE PileInv'
    BY DEF PileInv
  <2>1. PICK s \in Slugs \ minted :
          /\ tree' = [tree EXCEPT ![s] = [id |-> id, meta |-> FALSE]]
          /\ app' = [Idle EXCEPT !.at = "meta", !.id = id, !.slug = s, !.space = s]
          /\ faults' = faults
    BY <1>4 DEF Create, Fault, Undisturbed
  <2>2. app'.at = "meta" /\ app'.slug = s /\ app'.id = id
    BY <2>1 DEF Idle
  <2>3. tree'[s].id = id /\ \A t \in Slugs : t # s => tree'[t] = tree[t]
    BY <2>1 DEF DiskTyped
  <2>4. \A t \in Slugs : tree[t] # NoTree => dirty[t] # {}
    BY <1>4, <2>1 DEF Create, PileInv, Undisturbed, Busy, At
  <2>5. dirty' = dirty
    BY <1>4 DEF Create
  <2> QED BY <2>1, <2>2, <2>3, <2>4, <2>5 DEF PileInv, Busy, At
<1>5. ASSUME WriteMeta PROVE PileInv'
  <2> SUFFICES ASSUME Undisturbed' PROVE PileInv'
    BY DEF PileInv
  <2>1. /\ tree' = [tree EXCEPT ![app.slug].meta = TRUE] /\ Goes("work") /\ faults' = faults
        /\ UNCHANGED <<dirty, crashes, strangers>> /\ At("meta")
    BY <1>5 DEF WriteMeta, Fault, Undisturbed, History
  <2>2. app'.at = "work" /\ app'.slug = app.slug /\ app'.id = app.id
    BY <2>1, GoesType DEF AppTyped, Places
  <2>3. /\ app.slug \in Slugs /\ tree[app.slug].id = app.id
        /\ \A s \in Slugs : tree[s] # NoTree => dirty[s] # {} \/ s = app.slug
    BY <2>1 DEF PileInv, Undisturbed, Busy, At
  <2>4. /\ tree'[app.slug].meta /\ tree'[app.slug].id = app.id
        /\ \A s \in Slugs : s # app.slug => tree'[s] = tree[s]
    BY <2>1, <2>3 DEF DiskTyped, TreeType
  <2> QED BY <2>1, <2>2, <2>3, <2>4 DEF PileInv, Busy, At
<1>6. ASSUME Work \/ Gates \/ Commit \/ Merged \/ Conflict \/ Abort PROVE PileInv'
  <2>1. /\ UNCHANGED <<tree, crashes, strangers>> /\ faults \subseteq faults' /\ Busy /\ ~At("meta")
    BY <1>6, CommitDoes DEF Work, Gates, Merged, Conflict, Abort, Bounds, History, Busy, At
  <2>2. /\ app'.at \in {"gates", "commit", "cleanup", "find", "abort"}
        /\ app'.slug = app.slug /\ app'.id = app.id
    <3>1. PICK place \in {"gates", "commit", "cleanup", "find", "abort"} : Goes(place)
      BY <1>6 DEF Work, Gates, Commit, Commits, Merged, Conflict, Abort
    <3> QED BY <3>1, GoesType DEF AppTyped, Places
  <2>3. ASSUME Undisturbed', NEW s \in Slugs, dirty[s] # {}
        PROVE  dirty'[s] # {} \/ s = app.slug
    <3>1. app.space = app.slug
      BY <2>1, <2>3 DEF GateInv, Regular, OwnTree, Undisturbed
    <3>2. CASE Work
      <4>1. PICK left \in SUBSET {<<k_now, "left">>} :
              dirty' = [dirty EXCEPT ![app.space] = @ \cup left]
        BY <3>2 DEF Work
      <4> QED BY <2>3, <3>1, <4>1, Spots DEF DiskTyped
    <3>3. CASE Gates \/ Merged
      BY <2>3, <3>3 DEF Gates, Merged
    <3>4. CASE Commit
      <4>1. CASE UNCHANGED <<tip, dirty>>
        BY <2>3, <4>1
      <4>2. ASSUME NEW P \in SUBSET dirty[app.space],
                   dirty' = [dirty EXCEPT ![app.space] = @ \ P]
            PROVE  dirty'[s] # {} \/ (Busy /\ s = app.slug)
        BY <2>1, <2>3, <3>1, <4>2, Spots DEF DiskTyped
      <4> QED BY <3>4, <4>1, <4>2, CommitDoes
    <3>5. CASE Conflict \/ Abort
      BY <2>3, <3>5, Spots DEF Conflict, Abort, DiskTyped
    <3> QED BY <1>6, <3>2, <3>3, <3>4, <3>5
  <2> QED BY <2>1, <2>2, <2>3, PileStays DEF Busy, At, Undisturbed
<1>7. ASSUME FindBranch \/ FindTree PROVE PileInv'
  <2> SUFFICES ASSUME Undisturbed' PROVE PileInv'
    BY DEF PileInv
  <2>1. /\ UNCHANGED <<tree, dirty, crashes, faults>> /\ strangers \subseteq strangers'
        /\ Busy /\ ~At("meta")
    BY <1>7 DEF FindBranch, FindTree, Finds, Disk, Bounds, At, Busy
  <2>2. Undisturbed
    BY <2>1 DEF Undisturbed
  <2>3. app.slug \in Listed(app.id)
    BY <2>1, <2>2 DEF PileInv, Listed
  <2>4. Lookup(app.id) # Repo
    <3>1. Listed(app.id) \in SUBSET Nat /\ Listed(app.id) # {} /\ Listed(app.id) \subseteq Slugs
      BY <2>3, Spots DEF Listed
    <3>2. First(Listed(app.id)) \in Slugs
      BY <3>1, FirstIsIn
    <3> QED BY <3>1, <3>2, Spots DEF Lookup
  <2>5. Finds("merge") \/ Finds("preflight")
    BY <1>7, <2>4 DEF FindBranch, FindTree
  <2>6. /\ app'.at \in {"merge", "preflight"} /\ app'.slug = app.slug /\ app'.id = app.id
        /\ app'.found = Lookup(app.id)
    BY <2>5, LookupFinds DEF Finds, AppTyped, AppType
  <2>7. app'.found = app.slug
    BY <2>5, <2>6 DEF Finds, Undisturbed
  <2> QED BY <2>1, <2>2, <2>6, <2>7, PileStays DEF Busy, At
<1>8. ASSUME Preflight PROVE PileInv'
  <2> SUFFICES ASSUME Undisturbed' PROVE PileInv'
    BY DEF PileInv
  <2>1. /\ UNCHANGED <<tree, dirty, crashes, strangers>> /\ At("preflight") /\ faults' = faults
    BY <1>8 DEF Preflight, Fault, History, Undisturbed
  <2>2. /\ Undisturbed /\ Busy /\ app.found = app.slug /\ app.found = Lookup(app.id)
    BY <2>1 DEF Undisturbed, PileInv, LossInv, Busy, At
  <2>3. CASE EndsAttempt /\ dirty[Lookup(app.id)] # {}
    <3>1. ~Busy'
      BY <2>3 DEF EndsAttempt, Idle, Busy
    <3> QED BY <2>1, <2>2, <2>3, <3>1 DEF PileInv
  <2>4. CASE Goes("remove")
    <3>1. /\ app'.at = "remove" /\ app'.slug = app.slug /\ app'.id = app.id
          /\ app'.found = app.found
      BY <2>4, GoesType DEF AppTyped, Places
    <3> QED BY <2>1, <2>2, <3>1, PileStays DEF Busy, At
  <2> QED BY <1>8, <2>3, <2>4 DEF Preflight
<1>9. ASSUME Remove PROVE PileInv'
  <2> SUFFICES ASSUME Undisturbed' PROVE PileInv'
    BY DEF PileInv
  <2>1. /\ UNCHANGED <<crashes, faults, strangers>> /\ At("remove")
        /\ tree' = [tree EXCEPT ![app.found] = NoTree] /\ dirty' = [dirty EXCEPT ![app.found] = {}]
    BY <1>9 DEF Remove, Bounds
  <2>2. /\ app.found = app.slug /\ app.slug \in Slugs
        /\ \A s \in Slugs : tree[s] # NoTree => dirty[s] # {} \/ s = app.slug
    BY <2>1 DEF Undisturbed, PileInv, Busy, At
  <2>3. ~Busy'
    BY <1>9 DEF Remove, EndsAttempt, Idle, Busy
  <2>4. tree'[app.slug] = NoTree /\ \A s \in Slugs : s # app.slug => tree'[s] = tree[s] /\ dirty'[s] = dirty[s]
    BY <2>1, <2>2, Spots DEF DiskTyped
  <2> QED BY <2>2, <2>3, <2>4 DEF PileInv
<1>10. ASSUME Accept \/ UserEdits \/ Reject \/ \E s \in Slugs : OrphanWrites(s)
       PROVE  PileInv'
  <2>1. UNCHANGED <<app, tree, crashes, faults, strangers>>
    BY <1>10 DEF Accept, UserEdits, Reject, OrphanWrites, Disk, Bounds, History
  <2>2. \A s \in Slugs : dirty[s] \subseteq dirty'[s]
    BY <1>10, Spots DEF Accept, UserEdits, Reject, OrphanWrites, Disk, DiskTyped
  <2>3. Undisturbed' => Undisturbed
    BY <2>1 DEF Undisturbed
  <2> QED BY <2>1, <2>2, <2>3, PileStays DEF PileInv, Busy, At
<1> QED BY <1>1, <1>2, <1>3, <1>4, <1>5, <1>6, <1>7, <1>8, <1>9, <1>10
        DEF Next, Integrate, CleanUp

(* As long as nothing dies or fails and ids find their own trees, the only *)
(* worktrees a run leaves are those with uncommitted work in them          *)
(* (CleanTreesAreRemoved).                                                 *)
THEOREM NothingPilesUp == Spec => []CleanTreesAreRemoved
<1> DEFINE Inv == Typed /\ GateInv /\ LossInv /\ PileInv
<1>1. Init => Inv
  BY TypedInit, GateInit, LossInit, PileInit
<1>2. Inv /\ [Next]_vars => Inv'
  BY TypedStep, GateStep, LossStep, PileStep
<1>3. Inv => CleanTreesAreRemoved
  BY DEF PileInv, Undisturbed, Busy, At, CleanTreesAreRemoved
<1> QED BY <1>1, <1>2, <1>3, PTL DEF Spec

-----------------------------------------------------------------------------
(* What is offered. *)

(* Parts from before the attempt under way, while it is not merged.        *)
Before(P) == \A p \in P : p[1] \in 0 .. attempts /\ (app.at \in Unmerged => p[1] # k_now)

(* Runs whose base and diff could be had.                                  *)
Compared == faults \cap {"base", "diff"} = {}

(* HEAD is older than the attempt that is not merged yet, whose branch     *)
(* differs from HEAD only by its own work; so a merge always shows in HEAD,*)
(* and until there is one no candidate can be there.                       *)
OfferInv ==
    Regular /\ Compared =>
        /\ run.base \subseteq tip[Repo] /\ (run.any => run.based /\ tip[Repo] # run.base)
        /\ run.integrates => run.based
        /\ app.at \in {"commit", "find", "merge"} => run.integrates
        /\ Before(tip[Repo])
        /\ \A i \in DOMAIN run.candidates :
              /\ \A p \in run.candidates[i].parts : p[1] \in 0 .. attempts
              /\ ~run.any => run.candidates[i].parts \cap tip[Repo] = {}
        /\ pane.winner = "provider" => Before(pane.parts) /\ pane.parts \cap tip[Repo] = {}
        /\ app.at \in Unmerged =>
              /\ \A p \in dirty[app.slug] : p[1] = k_now
              /\ \A p \in tip[app.slug] : p \in tip[Repo] \/ p[1] = k_now
              /\ app.at \in {"find", "merge"} => \E p \in tip[app.slug] : p[1] = k_now

LEMMA OfferInit == Init => OfferInv
<1> SUFFICES ASSUME Init PROVE OfferInv
  OBVIOUS
<1>1. /\ run.base = {} /\ ~run.any /\ run.candidates = <<>> /\ ~run.integrates
      /\ pane.winner = "none" /\ app.at = "idle"
  BY DEF Init, Idle, NoRun, NoDiff
<1>2. tip[Repo] = {}
  BY Spots DEF Init
<1> QED BY <1>1, <1>2 DEF OfferInv, Before, Unmerged

(* Steps that neither add to HEAD or to a branch nor offer anything.       *)
LEMMA OfferStays ==
    ASSUME OfferInv, Regular' => Regular, Compared' => Compared,
           UNCHANGED <<tip, run, pane, attempts>>,
           app'.at \in Unmerged => /\ app.at \in Unmerged /\ app'.slug = app.slug
                                   /\ Regular' /\ Compared' =>
                                          \A p \in dirty'[app.slug] : p[1] = k_now
                                   /\ app'.at \in {"find", "merge"} => app.at \in {"find", "merge"}
                                   /\ app'.at = "commit" => app.at = "commit"
    PROVE  OfferInv'
<1> SUFFICES ASSUME Regular', Compared' PROVE OfferInv'
  BY DEF OfferInv
<1>1. Regular /\ Compared
  OBVIOUS
<1>2. \A P : Before(P) => Before(P)'
  BY DEF Before, k_now
<1>3. /\ run'.base \subseteq tip'[Repo] /\ (run'.any => run'.based /\ tip'[Repo] # run'.base)
      /\ run'.integrates => run'.based
      /\ app'.at \in {"commit", "find", "merge"} => run'.integrates
      /\ Before(tip[Repo])'
      /\ \A i \in DOMAIN run'.candidates :
            /\ \A p \in run'.candidates[i].parts : p[1] \in 0 .. attempts'
            /\ ~run'.any => run'.candidates[i].parts \cap tip'[Repo] = {}
      /\ pane'.winner = "provider" => Before(pane.parts)' /\ pane'.parts \cap tip'[Repo] = {}
  BY <1>1, <1>2 DEF OfferInv, Before, Unmerged, k_now
<1>4. app'.at \in Unmerged =>
         /\ \A p \in dirty'[app'.slug] : p[1] = k_now'
         /\ \A p \in tip'[app'.slug] : p \in tip'[Repo] \/ p[1] = k_now'
         /\ app'.at \in {"find", "merge"} => \E p \in tip'[app'.slug] : p[1] = k_now'
  BY <1>1 DEF OfferInv, k_now
<1> QED BY <1>3, <1>4 DEF OfferInv

(* While nothing is merged a candidate may be offered; after that, it is   *)
(* what the merges brought.                                                *)
LEMMA OfferedIsNew ==
    ASSUME Typed, OfferInv, Regular, Compared, Offered.winner = "provider"
    PROVE  /\ \A p \in Offered.parts : p[1] \in 0 .. attempts
           /\ Offered.parts \cap tip[Repo] = {}
<1> USE DEF Typed
<1>1. NoDiff.winner # "provider" /\ mesh_diff.winner # "provider"
  BY DEF NoDiff, mesh_diff
<1>2. mesh_diff = NoDiff /\ Offered = winning_diff
  BY <1>1 DEF Offered
<1>3. ~run.any
  <2>1. [parts |-> tip[Repo] \ run.base, winner |-> "mesh"].winner # NoDiff.winner
    BY DEF NoDiff
  <2> QED BY <1>2, <2>1 DEF OfferInv, mesh_diff
<1> DEFINE changed == {i \in DOMAIN run.candidates : run.candidates[i].parts # {}}
           passed == {i \in changed : run.candidates[i].passed}
           best == First(IF passed # {} THEN passed ELSE changed)
<1>4. changed # {}
  BY <1>1, <1>2 DEF winning_diff
<1>5. best \in DOMAIN run.candidates /\ winning_diff.parts = run.candidates[best].parts
  <2>1. run.candidates \in Seq(Candidate)
    BY DEF AppTyped, RunType
  <2>2. changed \in SUBSET Nat /\ passed \in SUBSET changed
    BY <2>1
  <2>3. best \in changed
    BY <1>4, <2>2, FirstIsIn
  <2> QED BY <1>4, <2>3 DEF winning_diff
<1> HIDE DEF best, changed, passed
<1> QED BY <1>2, <1>3, <1>5 DEF OfferInv

LEMMA OfferStep ==
    ASSUME Typed, GateInv, OfferInv, [Next]_vars
    PROVE  OfferInv'
<1> USE DEF Typed
<1>0. attempts \in Nat /\ (Busy => attempts \in Attempts)
  BY IntegrationAssumption DEF HistoryTyped, PlacesHold, Busy
<1>1. ASSUME UNCHANGED vars PROVE OfferInv'
  BY <1>1 DEF vars, OfferInv, Regular, Compared, Before, k_now
<1>2. ASSUME StartRun PROVE OfferInv'
  <2> SUFFICES ASSUME Regular', Compared' PROVE OfferInv'
    BY DEF OfferInv
  <2>1. /\ app'.at = "next" /\ UNCHANGED <<tip, attempts, strangers, pane>> /\ faults \subseteq faults'
    BY <1>2, RunDoes, GoesType DEF StartRun, AppTyped, Places, Disk, History
  <2>2. /\ run'.base \subseteq tip[Repo] /\ run'.candidates = <<>> /\ ~run'.any
        /\ run'.integrates => run'.based
    BY <1>2, RunDoes DEF Compared
  <2>3. Regular /\ Compared
    BY <2>1 DEF Regular, Compared
  <2>4. \A P : Before(P) => Before(P)'
    BY <2>1 DEF Before, Unmerged
  <2> QED BY <2>1, <2>2, <2>3, <2>4 DEF OfferInv, Before, Unmerged
<1>3. ASSUME EndRun \/ Crash PROVE OfferInv'
  <2> SUFFICES ASSUME Regular', Compared' PROVE OfferInv'
    BY DEF OfferInv
  <2>1. app' = Idle /\ run' = NoRun /\ UNCHANGED <<tip, attempts, strangers>> /\ faults \subseteq faults'
    BY <1>3, RunDoes DEF EndRun, Crash, Disk, History
  <2>2. Regular /\ Compared
    BY <2>1 DEF Regular, Compared
  <2>3. /\ app'.at \notin Unmerged /\ run'.base = {} /\ ~run'.any /\ run'.candidates = <<>>
        /\ ~run'.integrates
    BY <2>1 DEF Idle, Unmerged, NoRun
  <2>4. pane' \in {pane, Offered, NoDiff}
    BY <1>3, RunDoes DEF Crash, Compared
  <2>5. ASSUME pane'.winner = "provider"
        PROVE  (\A p \in pane'.parts : p[1] \in 0 .. attempts) /\ pane'.parts \cap tip[Repo] = {}
    <3>1. CASE pane' = pane
      BY <2>2, <2>5, <3>1 DEF OfferInv, Before
    <3>2. CASE pane' = Offered
      BY <2>2, <2>5, <3>2, OfferedIsNew
    <3>3. CASE pane' = NoDiff
      BY <2>5, <3>3 DEF NoDiff
    <3> QED BY <2>4, <3>1, <3>2, <3>3
  <2> QED BY <2>1, <2>2, <2>3, <2>5 DEF OfferInv, Before, Unmerged
<1>4. ASSUME NEW id \in Ids, Create(id) PROVE OfferInv'
  <2> SUFFICES ASSUME Regular', Compared' PROVE OfferInv'
    BY DEF OfferInv
  <2>1. /\ UNCHANGED <<dirty, run, pane>> /\ attempts' = attempts + 1 /\ At("next")
        /\ Regular /\ Compared /\ "create" \notin faults'
    BY <1>4 DEF Create, Regular, Compared, Fault
  <2>2. PICK s \in Slugs \ minted :
          /\ tip' = [tip EXCEPT ![s] = tip[Repo]]
          /\ app' = [Idle EXCEPT !.at = "meta", !.id = id, !.slug = s, !.space = s]
    BY <1>4, <2>1 DEF Create, Fault
  <2>3. app'.at = "meta" /\ app'.slug = s /\ app'.at \notin {"find", "merge"}
    BY <2>2 DEF Idle
  <2>4. dirty[s] = {} /\ tip'[s] = tip[Repo] /\ tip'[Repo] = tip[Repo]
    BY <2>2, Spots DEF TreesHold, DiskTyped
  <2>5. \A n \in 0 .. attempts : n \in 0 .. attempts' /\ n # k_now'
    BY <1>0, <2>1 DEF k_now
  <2>6. \A P : Before(P) => Before(P)'
    BY <2>5 DEF Before
  <2> QED BY <2>1, <2>3, <2>4, <2>5, <2>6 DEF OfferInv, Before
<1>5. ASSUME Work PROVE OfferInv'
  <2> SUFFICES ASSUME Regular', Compared' PROVE OfferInv'
    BY DEF OfferInv
  <2>1. /\ UNCHANGED <<run, pane, attempts>> /\ At("work") /\ Regular /\ Compared
        /\ app.space = app.slug /\ app.slug \in Slugs
    BY <1>5 DEF Work, GateInv, OwnTree, Busy, Regular, Compared, At, Bounds
  <2>2. app'.at = "gates" /\ app'.slug = app.slug
    BY <1>5, GoesType DEF Work, AppTyped, Places
  <2>3. PICK own \in SUBSET {<<k_now, "own">>}, left \in SUBSET {<<k_now, "left">>} :
          /\ tip' = [tip EXCEPT ![app.space] = @ \cup own]
          /\ dirty' = [dirty EXCEPT ![app.space] = @ \cup left]
    BY <1>5 DEF Work
  <2>4. /\ tip'[app.slug] = tip[app.slug] \cup own /\ tip'[Repo] = tip[Repo]
        /\ dirty'[app.slug] = dirty[app.slug] \cup left
    BY <2>1, <2>3, Spots DEF DiskTyped
  <2>5. \A p \in own \cup left : p[1] = k_now
    BY <2>3
  <2>6. \A P : Before(P) => Before(P)'
    BY <2>1 DEF Before, Unmerged, At, k_now
  <2> QED BY <2>1, <2>2, <2>4, <2>5, <2>6 DEF OfferInv, Before, Unmerged, At, k_now
<1>6. ASSUME Gates PROVE OfferInv'
  <2> SUFFICES ASSUME Regular', Compared' PROVE OfferInv'
    BY DEF OfferInv
  <2>1. PICK ok \in BOOLEAN, seen \in {{}, dirty[app.space]} :
          /\ run' = IF run.mesh THEN run
                    ELSE [run EXCEPT !.candidates = Append(@, [parts |-> seen, passed |-> ok])]
          /\ Goes(IF ok /\ run.integrates THEN "commit" ELSE "cleanup")
    BY <1>6 DEF Gates
  <2>2. /\ UNCHANGED <<tip, dirty, pane, attempts>> /\ At("gates") /\ Regular /\ Compared
        /\ app.space = app.slug /\ app.slug \in Slugs
    BY <1>6 DEF Gates, GateInv, OwnTree, Busy, Regular, Compared, At, Bounds
  <2>3. /\ app'.at \in {"commit", "cleanup"} /\ app'.slug = app.slug
        /\ app'.at = "commit" => run.integrates
    BY <2>1, GoesType DEF AppTyped, Places
  <2>4. /\ run'.base = run.base /\ run'.any = run.any /\ run'.based = run.based
        /\ run'.integrates = run.integrates
    BY <2>1 DEF AppTyped, RunType
  <2>5. /\ \A p \in seen : p[1] = k_now /\ p[1] \in 0 .. attempts
        /\ seen \cap tip[Repo] = {}
    <3>1. /\ \A p \in dirty[app.space] : p[1] = k_now
          /\ \A p \in tip[Repo] : p[1] # k_now
      BY <2>2 DEF OfferInv, Before, Unmerged, At
    <3> QED BY <1>0, <2>1, <3>1 DEF k_now
  <2>6. ASSUME NEW i \in DOMAIN run'.candidates
        PROVE  \/ run'.candidates[i].parts = seen
               \/ i \in DOMAIN run.candidates /\ run'.candidates[i] = run.candidates[i]
    <3>1. CASE run.mesh
      BY <2>1, <2>6, <3>1
    <3>2. CASE ~run.mesh
      <4> DEFINE c == [parts |-> seen, passed |-> ok]
      <4>1. run'.candidates = Append(run.candidates, c)
        BY <2>1, <3>2 DEF AppTyped, RunType
      <4>2. run.candidates \in Seq(Candidate) /\ c \in Candidate /\ c.parts = seen
        BY <2>1, <2>2 DEF AppTyped, RunType, Candidate, DiskTyped, AppType
      <4> HIDE DEF c
      <4>3. /\ i \in 1 .. Len(run.candidates) \/ i = Len(run.candidates) + 1
            /\ DOMAIN run.candidates = 1 .. Len(run.candidates)
        BY <2>6, <4>1, <4>2
      <4>4. CASE i \in 1 .. Len(run.candidates)
        BY <4>1, <4>2, <4>3, <4>4
      <4>5. CASE i = Len(run.candidates) + 1
        BY <4>1, <4>2, <4>5
      <4> QED BY <4>3, <4>4, <4>5
    <3> QED BY <3>1, <3>2
  <2>7. \A i \in DOMAIN run'.candidates :
           /\ \A p \in run'.candidates[i].parts : p[1] \in 0 .. attempts
           /\ ~run.any => run'.candidates[i].parts \cap tip[Repo] = {}
    BY <2>2, <2>5, <2>6 DEF OfferInv
  <2>8. \A P : Before(P) => Before(P)'
    BY <2>2 DEF Before, Unmerged, At, k_now
  <2> QED BY <2>2, <2>3, <2>4, <2>7, <2>8 DEF OfferInv, Before, Unmerged, At, k_now
<1>7. ASSUME Commit PROVE OfferInv'
  <2> SUFFICES ASSUME Regular', Compared' PROVE OfferInv'
    BY DEF OfferInv
  <2>1. /\ UNCHANGED <<run, pane, attempts, strangers>> /\ At("commit") /\ faults \subseteq faults'
        /\ app'.at \in {"find", "cleanup"} /\ app'.slug = app.slug
    BY <1>7, CommitDoes
  <2>2. Regular /\ Compared /\ app.space = app.slug /\ app.slug \in Slugs
    BY <2>1 DEF GateInv, OwnTree, Busy, Regular, Compared, At
  <2>3. /\ \A p \in dirty[app.slug] : p[1] = k_now
        /\ \A p \in tip[app.slug] : p \in tip[Repo] \/ p[1] = k_now
    BY <2>1, <2>2 DEF OfferInv, Unmerged, At
  <2>4. tip'[Repo] = tip[Repo]
    BY <1>7, <2>2, CommitDoes, Spots DEF DiskTyped
  <2>5. ASSUME NEW P \in SUBSET dirty[app.slug], P # {},
               tip' = [tip EXCEPT ![app.slug] = @ \cup P],
               dirty' = [dirty EXCEPT ![app.slug] = @ \ P]
        PROVE  /\ \A p \in dirty'[app.slug] : p[1] = k_now
               /\ \A p \in tip'[app.slug] : p \in tip[Repo] \/ p[1] = k_now
               /\ \E p \in tip'[app.slug] : p[1] = k_now
    <3>1. tip'[app.slug] = tip[app.slug] \cup P /\ dirty'[app.slug] = dirty[app.slug] \ P
      BY <2>2, <2>5, Spots DEF DiskTyped
    <3> QED BY <2>3, <2>5, <3>1
  <2>6. app'.at = "find" =>
           /\ \A p \in dirty'[app.slug] : p[1] = k_now
           /\ \A p \in tip'[app.slug] : p \in tip'[Repo] \/ p[1] = k_now
           /\ \E p \in tip'[app.slug] : p[1] = k_now
    BY <1>7, <2>2, <2>4, <2>5, CommitDoes
  <2>7. \A P : Before(P) => Before(P)'
    BY <2>1 DEF Before, Unmerged, At, k_now
  <2> QED BY <2>1, <2>2, <2>4, <2>6, <2>7 DEF OfferInv, Before, Unmerged, At, k_now
<1>8. ASSUME Merged PROVE OfferInv'
  <2> SUFFICES ASSUME Regular', Compared' PROVE OfferInv'
    BY DEF OfferInv
  <2>1. /\ UNCHANGED <<pane, attempts>> /\ At("merge") /\ Regular /\ Compared
        /\ app.found = app.slug /\ app.slug \in Slugs
    BY <1>8 DEF Merged, GateInv, OwnTree, Busy, Regular, Compared, At, Bounds
  <2>2. app'.at = "cleanup"
    BY <1>8, GoesType DEF Merged, AppTyped, Places
  <2>3. tip'[Repo] = tip[Repo] \cup tip[app.slug]
    BY <1>8, <2>1, Spots DEF Merged, DiskTyped
  <2>4. /\ run'.base = run.base /\ run'.any /\ run'.candidates = run.candidates
        /\ run'.based = run.based /\ run'.integrates = run.integrates
    BY <1>8 DEF Merged, AppTyped, RunType
  <2>5. /\ run.base \subseteq tip[Repo] /\ run.based
        /\ \A p \in tip[Repo] : p[1] \in 0 .. attempts /\ p[1] # k_now
        /\ \A p \in tip[app.slug] : p \in tip[Repo] \/ p[1] = k_now
    BY <2>1 DEF OfferInv, Before, Unmerged, At
  <2>6. PICK p \in tip[app.slug] : p[1] = k_now
    BY <2>1 DEF OfferInv, Unmerged, At
  <2>7. run'.base \subseteq tip'[Repo] /\ tip'[Repo] # run'.base /\ run'.based
    BY <2>3, <2>4, <2>5, <2>6
  <2>8. \A q \in tip'[Repo] : q[1] \in 0 .. attempts
    BY <1>0, <2>3, <2>5 DEF k_now
  <2>9. pane.winner = "provider" =>
           (\A q \in pane.parts : q[1] \in 0 .. attempts) /\ pane.parts \cap tip'[Repo] = {}
    BY <2>1, <2>3, <2>5 DEF OfferInv, Before, Unmerged, At
  <2>10. \A i \in DOMAIN run.candidates : \A q \in run.candidates[i].parts : q[1] \in 0 .. attempts
    BY <2>1 DEF OfferInv
  <2> QED BY <2>1, <2>2, <2>4, <2>7, <2>8, <2>9, <2>10 DEF OfferInv, Before, Unmerged
<1>9. ASSUME WriteMeta PROVE OfferInv'
  <2>1. /\ UNCHANGED <<tip, dirty, run, pane, attempts>> /\ At("meta") /\ (Regular' => Regular)
        /\ (Compared' => Compared) /\ app'.at = "work" /\ app'.slug = app.slug
    BY <1>9 DEF WriteMeta, Goes, AppTyped, AppType, History, Regular, Compared, Fault
  <2> QED BY <2>1, OfferStays DEF OfferInv, Unmerged, At
<1>10. ASSUME FindBranch \/ FindTree PROVE OfferInv'
  <2>1. /\ UNCHANGED <<tip, dirty, run, pane, attempts, faults>> /\ strangers \subseteq strangers'
    BY <1>10 DEF FindBranch, FindTree, Finds, Disk, Bounds
  <2>2. (Regular' => Regular) /\ (Compared' => Compared)
    BY <2>1 DEF Regular, Compared
  <2>3. CASE Goes("cleanup") \/ EndsAttempt \/ Finds("preflight")
    <3>1. app'.at \in {"cleanup", "next", "preflight"}
      BY <2>3, GoesType DEF EndsAttempt, Idle, Finds, AppTyped, AppType, Places
    <3> QED BY <2>1, <2>2, <3>1, OfferStays DEF Unmerged
  <2>4. CASE At("find") /\ Finds("merge")
    <3>1. app'.at = "merge" /\ app'.slug = app.slug
      BY <2>4 DEF Finds, AppTyped, AppType
    <3> QED BY <2>1, <2>2, <2>4, <3>1, OfferStays DEF OfferInv, Unmerged, At
  <2> QED BY <1>10, <2>3, <2>4 DEF FindBranch, FindTree
<1>11. ASSUME Conflict \/ Abort \/ Preflight \/ Remove PROVE OfferInv'
  <2>1. /\ UNCHANGED <<tip, run, pane, attempts, strangers>> /\ faults \subseteq faults'
    BY <1>11 DEF Conflict, Abort, Preflight, Remove, Fault, Bounds, History
  <2>2. app'.at \in {"abort", "cleanup", "remove", "next"}
    BY <1>11, GoesType DEF Conflict, Abort, Preflight, Remove, EndsAttempt, Idle, AppTyped, Places
  <2>3. (Regular' => Regular) /\ (Compared' => Compared)
    BY <2>1 DEF Regular, Compared
  <2> QED BY <2>1, <2>2, <2>3, OfferStays DEF Unmerged
<1>12. ASSUME Reject PROVE OfferInv'
  <2>1. /\ UNCHANGED <<tip, dirty, run, app, attempts, strangers, faults>>
        /\ pane'.winner # "provider"
    BY <1>12 DEF Reject, Disk, Bounds, History, NoDiff
  <2> QED BY <2>1 DEF OfferInv, Regular, Compared, Before, k_now
<1>13. ASSUME Accept \/ UserEdits PROVE OfferInv'
  <2>1. /\ UNCHANGED <<tip, run, app, pane, attempts, strangers, faults>>
        /\ \A s \in Slugs : dirty'[s] = dirty[s]
    BY <1>13, Spots DEF Accept, UserEdits, Bounds, History, DiskTyped
  <2>2. (Regular' => Regular) /\ (Compared' => Compared)
    BY <2>1 DEF Regular, Compared
  <2>3. Regular /\ Compared /\ app.at \in Unmerged => app.slug \in Slugs /\ \A p \in dirty[app.slug] : p[1] = k_now
    BY DEF GateInv, OwnTree, Busy, Unmerged, OfferInv
  <2> QED BY <2>1, <2>2, <2>3, OfferStays
<1>14. ASSUME NEW s \in Slugs, OrphanWrites(s) PROVE OfferInv'
  <2>1. /\ UNCHANGED <<tip, run, app, pane, attempts, strangers, faults>> /\ orphan[s] # 0
        /\ dirty' = [dirty EXCEPT ![s] = @ \cup {<<orphan[s], "late">>}]
    BY <1>14 DEF OrphanWrites, Bounds
  <2>2. (Regular' => Regular) /\ (Compared' => Compared)
    BY <2>1 DEF Regular, Compared
  <2>3. ASSUME Regular, Compared, app.at \in Unmerged
        PROVE  \A p \in dirty'[app.slug] : p[1] = k_now
    <3>1. /\ app.slug \in Slugs /\ orphan[app.slug] \in {0, k_now}
          /\ \A p \in dirty[app.slug] : p[1] = k_now
      BY <2>3 DEF GateInv, OwnTree, Busy, Unmerged, OfferInv
    <3>2. CASE s = app.slug
      <4>1. dirty'[s] = dirty[s] \cup {<<k_now, "late">>}
        BY <2>1, <3>1, <3>2, Spots DEF DiskTyped
      <4> QED BY <3>1, <3>2, <4>1
    <3>3. CASE s # app.slug
      <4>1. dirty'[app.slug] = dirty[app.slug]
        BY <2>1, <3>1, <3>3, Spots DEF DiskTyped
      <4> QED BY <3>1, <4>1
    <3> QED BY <3>2, <3>3
  <2> QED BY <2>1, <2>2, <2>3, OfferStays
<1> QED BY <1>1, <1>2, <1>3, <1>4, <1>5, <1>6, <1>7, <1>8, <1>9, <1>10, <1>11, <1>12, <1>13,
           <1>14 DEF Next, Integrate, CleanUp

(* A candidate is never offered for what a merge has brought into HEAD, in *)
(* its own run or a later one, as long as ids find their own trees, blades *)
(* work in them, and no base or diff of a run was missing                  *)
(* (NothingOfferedTwice).                                                  *)
THEOREM OfferedOnce == Spec => []NothingOfferedTwice
<1> DEFINE Inv == Typed /\ GateInv /\ OfferInv
<1>1. Init => Inv
  BY TypedInit, GateInit, OfferInit
<1>2. Inv /\ [Next]_vars => Inv'
  BY TypedStep, GateStep, OfferStep
<1>3. Inv => NothingOfferedTwice
  BY DEF OfferInv, Regular, Compared, NothingOfferedTwice
<1> QED BY <1>1, <1>2, <1>3, PTL DEF Spec
=============================================================================
