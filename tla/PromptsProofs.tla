--------------------------- MODULE PromptsProofs ---------------------------
(***************************************************************************)
(* The prompt store keeps what it is told and forgets what was taken, for  *)
(* every number of requests and of crashes.                                *)
(***************************************************************************)
EXTENDS Prompts, TLAPS

(* Nothing of a process outlives it but the ledger. *)
DownIsEmpty ==
    ~up => /\ pending = {} /\ responses = {}
           /\ appending = {} /\ writing = {}
           /\ compaction = [r \in Requests |-> None]
           /\ exposed = {} /\ settled = {}

(* The ledger covers the memory, whether it can be read or not. *)
Covered == up => InMemory \subseteq ledger \cup appending \cup writing \cup exposed

(* A write that comes late is one that was started. *)
LateAreTaken == \A r \in Requests : compaction[r].late => compaction[r].taken

(* Every copy that waits to replace the ledger covers the memory as well.  *)
SnapshotsCover ==
    \A r \in Requests : compaction[r].taken => InMemory \subseteq compaction[r].alive \cup exposed

(* A prompt taken undisturbed is nowhere but, perhaps, in the ledger. *)
EntriesOf(r) == {Request(r), Response(r)}

Withdrawn(r) ==
    /\ asker[r] \in {"answered", "lost"}
    /\ r \notin pending /\ r \notin responses
    /\ EntriesOf(r) \cap (appending \cup writing) = {}
    /\ \A q \in Requests : compaction[q].taken => EntriesOf(r) \cap compaction[q].alive = {}

TakenAreWithdrawn ==
    /\ \A r \in settled : Withdrawn(r)
    /\ \A r \in forgotten : Withdrawn(r) /\ EntriesOf(r) \cap ledger = {}

IInv ==
    TypeOK /\ DownIsEmpty /\ Covered /\ LateAreTaken /\ SnapshotsCover /\ TakenAreWithdrawn

LEMMA Constructors ==
    /\ None \in [taken : BOOLEAN, late : BOOLEAN, alive : SUBSET Entries]
    /\ \A p \in SUBSET Requests, q \in SUBSET Requests :
         Snapshot(p, q) \in [taken : BOOLEAN, late : BOOLEAN, alive : SUBSET Entries]
    /\ \A r \in Requests : Request(r) \in Entries /\ Response(r) \in Entries
BY DEF None, Snapshot, Entries, Request, Response

(* What a body leaves of another comes from the two. *)
LEMMA OverWithin ==
    ASSUME NEW body, NEW lines, NEW es \in Over(body, lines)
    PROVE  es \subseteq body \cup lines
BY DEF Over

Copies == [taken : BOOLEAN, late : BOOLEAN, alive : SUBSET Entries]

LEMMA LateCopy ==
    ASSUME NEW c \in Copies
    PROVE  LET d == [c EXCEPT !.late = TRUE] IN
           d \in Copies /\ d.late /\ d.taken = c.taken /\ d.alive = c.alive
BY DEF Copies

(* Where a compaction ends, the others stay as they are. *)
LEMMA EndOf ==
    ASSUME compaction \in [Requests -> Copies], NEW r \in Requests,
           compaction' = [compaction EXCEPT ![r] = None]
    PROVE  /\ \A q \in Requests : compaction'[q].taken => compaction'[q] = compaction[q]
           /\ LateAreTaken => LateAreTaken'
<1>1. compaction'[r] = None /\ \A q \in Requests \ {r} : compaction'[q] = compaction[q]
  OBVIOUS
<1>2. ~None.taken /\ ~None.late
  BY DEF None
<1>3. QED BY <1>1, <1>2 DEF LateAreTaken

LEMMA EndOfReplaced ==
    ASSUME compaction \in [Requests -> Copies], NEW r \in Requests, NEW es, Replace(r, es)
    PROVE  /\ \A q \in Requests : compaction'[q].taken => compaction'[q] = compaction[q]
           /\ LateAreTaken'
<1>1. \A q \in Requests :
        compaction'[q] = IF q = r \/ compaction[q].late THEN None ELSE compaction[q]
  BY DEF Replace
<1>2. ~None.taken /\ ~None.late
  BY DEF None
<1>3. \A q \in Requests : compaction'[q].taken => compaction'[q] = compaction[q]
  BY <1>1, <1>2
<1>4. \A q \in Requests : ~compaction'[q].late
  BY <1>1, <1>2
<1>5. QED BY <1>3, <1>4 DEF LateAreTaken

LEMMA EndOfShared ==
    ASSUME compaction \in [Requests -> Copies], NEW r \in Requests, NEW q \in Requests,
           CompactsTogether(r, q)
    PROVE  /\ compaction' \in [Requests -> Copies]
           /\ \A p \in Requests : compaction'[p].taken =>
                compaction[p].taken /\ compaction'[p].alive = compaction[p].alive
           /\ LateAreTaken'
<1>1. /\ compaction' = [p \in Requests |-> IF p = r \/ compaction[p].late THEN None
                           ELSE IF p = q THEN [compaction[q] EXCEPT !.late = TRUE]
                           ELSE compaction[p]]
      /\ compaction[q].taken
  BY DEF CompactsTogether, Writes
<1>2. ~None.taken /\ ~None.late /\ None \in Copies
  BY Constructors DEF None, Copies
<1>3. PICK d \in Copies : /\ d = [compaction[q] EXCEPT !.late = TRUE]
                          /\ d.late /\ d.taken = compaction[q].taken /\ d.alive = compaction[q].alive
  BY LateCopy
<1>4. \A p \in Requests :
        compaction'[p] = IF p = r \/ compaction[p].late THEN None
                         ELSE IF p = q THEN d ELSE compaction[p]
  BY <1>1, <1>3
<1>5. compaction' \in [Requests -> Copies]
  <2>1. \A p \in Requests : (IF p = r \/ compaction[p].late THEN None
                             ELSE IF p = q THEN d ELSE compaction[p]) \in Copies
    BY <1>2
  <2>2. compaction' = [p \in Requests |-> IF p = r \/ compaction[p].late THEN None
                                         ELSE IF p = q THEN d ELSE compaction[p]]
    BY <1>1, <1>3
  <2>3. QED BY <2>1, <2>2
<1>6. ASSUME NEW p \in Requests
      PROVE  /\ compaction'[p].taken =>
                   compaction[p].taken /\ compaction'[p].alive = compaction[p].alive
             /\ compaction'[p].late => compaction'[p].taken
  <2>1. CASE p = r \/ compaction[p].late
    BY <1>2, <1>4, <2>1
  <2>2. CASE ~(p = r \/ compaction[p].late) /\ p = q
    BY <1>1, <1>3, <1>4, <2>2
  <2>3. CASE ~(p = r \/ compaction[p].late) /\ p # q
    BY <1>4, <2>3
  <2>4. QED BY <2>1, <2>2, <2>3
<1>7. QED BY <1>5, <1>6 DEF LateAreTaken

LEMMA OneMore ==
    /\ \A n \in 0 .. MaxCrashes : n < MaxCrashes => n + 1 \in 0 .. MaxCrashes
    /\ \A n \in 0 .. MaxFaults : n < MaxFaults => n + 1 \in 0 .. MaxFaults
BY BoundsAssumption

(* The type invariant holds in every state. *)
LEMMA TypeStep == TypeOK /\ [Next]_vars => TypeOK'
<1> SUFFICES ASSUME TypeOK, [Next]_vars PROVE TypeOK'
  OBVIOUS
<1> USE Constructors DEF TypeOK
<1>1. CASE Crash
  <2>1. crashes' \in 0 .. MaxCrashes
    <3>1. crashes \in 0 .. MaxCrashes /\ crashes < MaxCrashes /\ crashes' = crashes + 1
      BY <1>1 DEF Crash
    <3>2. QED BY <3>1, OneMore
  <2>2. asker' \in [Requests -> {"idle", "waiting", "answered", "gave up", "lost"}]
        /\ compaction' \in [Requests -> [taken : BOOLEAN, late : BOOLEAN, alive : SUBSET Entries]]
    BY <1>1 DEF Crash
  <2>3. unreadable' \in BOOLEAN /\ torn' \in BOOLEAN
    BY <1>1 DEF Crash, Garbles
  <2>4. QED BY <1>1, <2>1, <2>2, <2>3 DEF Crash
<1>2. CASE load
  BY <1>2 DEF load, disk, appends, bounds, history
<1>3. ASSUME NEW r \in Requests, enqueue_request(r) PROVE TypeOK'
  BY <1>3 DEF enqueue_request, Insert, disk, bounds
<1>4. ASSUME NEW r \in Requests, set_response(r) PROVE TypeOK'
  BY <1>4 DEF set_response, Insert, disk, bounds
<1>5. ASSUME NEW r \in Requests, consume_if_ready(r) PROVE TypeOK'
  <2>1. pending' \in SUBSET Requests /\ responses' \in SUBSET Requests
    BY <1>5 DEF consume_if_ready
  <2>2. compaction' \in [Requests -> [taken : BOOLEAN, late : BOOLEAN, alive : SUBSET Entries]]
    BY <1>5, <2>1 DEF consume_if_ready
  <2>3. QED BY <1>5, <2>1, <2>2 DEF consume_if_ready, appends, disk, bounds
<1>6. ASSUME NEW r \in Requests, TimesOut(r) PROVE TypeOK'
  BY <1>6 DEF TimesOut, appends, disk, bounds, history
<1>7. ASSUME NEW r \in Requests, Rejoin(r) PROVE TypeOK'
  BY <1>7 DEF Rejoin, memory, appends, disk, bounds, history
<1>8. ASSUME NEW r \in Requests, compact_ledger(r) PROVE TypeOK'
  BY <1>8 DEF compact_ledger, Replace, memory, bounds
<1>9. ASSUME NEW r \in Requests, CompactionFails(r) PROVE TypeOK'
  BY <1>9 DEF CompactionFails, memory, appends, disk, bounds, history
<1>10. ASSUME NEW e \in Entries, OpenLedger(e) PROVE TypeOK'
  BY <1>10 DEF OpenLedger, memory, disk, bounds, history
<1>11. ASSUME NEW e \in Entries, WriteEntry(e) PROVE TypeOK'
  <2>1. unreadable' \in BOOLEAN /\ torn' \in BOOLEAN
    BY <1>11 DEF WriteEntry, Garbles
  <2>2. ledger' \in SUBSET Entries /\ exposed' \in SUBSET Entries /\ writing' \in SUBSET Entries
    BY <1>11 DEF WriteEntry
  <2>3. QED BY <1>11, <2>1, <2>2 DEF WriteEntry, memory, bounds
<1>12. ASSUME NEW e \in Entries, AppendFails(e) PROVE TypeOK'
  <2>1. unreadable' \in BOOLEAN /\ torn' \in BOOLEAN
    BY <1>12 DEF AppendFails, Garbles
  <2>2. appending' \in SUBSET Entries /\ exposed' \in SUBSET Entries /\ writing' \in SUBSET Entries
    BY <1>12 DEF AppendFails
  <2>3. faults' \in 0 .. MaxFaults
    BY <1>12, OneMore DEF AppendFails
  <2>4. QED BY <1>12, <2>1, <2>2, <2>3 DEF AppendFails, memory
<1>13. ASSUME NEW r \in Requests, CompactsShort(r) PROVE TypeOK'
  <2>1. PICK es \in SUBSET compaction[r].alive :
          /\ Replace(r, es)
          /\ torn' \in BOOLEAN /\ unreadable' \in BOOLEAN
          /\ exposed' = exposed \cup (compaction[r].alive \ es)
    BY <1>13 DEF CompactsShort
  <2>2. es \subseteq Entries /\ exposed' \subseteq Entries
    BY <2>1
  <2>3. faults' \in 0 .. MaxFaults
    BY <1>13, OneMore DEF CompactsShort
  <2>4. QED BY <1>13, <2>1, <2>2, <2>3 DEF CompactsShort, Replace, memory
<1>14. ASSUME NEW r \in Requests, NEW q \in Requests, CompactsTogether(r, q) PROVE TypeOK'
  <2>1. PICK es : /\ es \subseteq Entries
                  /\ ledger' = es
                  /\ exposed' = exposed \cup (compaction[r].alive \ es)
    <3>1. compaction[r].alive \subseteq Entries /\ compaction[q].alive \subseteq Entries
      OBVIOUS
    <3>2. PICK es \in {{}} \cup Over(compaction[r].alive, compaction[q].alive)
                         \cup Over(compaction[q].alive, compaction[r].alive) :
             ledger' = es /\ exposed' = exposed \cup (compaction[r].alive \ es)
      BY <1>14 DEF CompactsTogether
    <3>3. es \subseteq compaction[r].alive \cup compaction[q].alive
      <4>1. CASE es = {}
        BY <4>1
      <4>2. CASE es \in Over(compaction[r].alive, compaction[q].alive)
        BY ONLY <4>2, OverWithin
      <4>3. CASE es \in Over(compaction[q].alive, compaction[r].alive)
        <5>1. es \subseteq compaction[q].alive \cup compaction[r].alive
          BY ONLY <4>3, OverWithin
        <5>2. QED BY <5>1
      <4>4. QED BY <3>2, <4>1, <4>2, <4>3
    <3>4. es \subseteq Entries
      BY <3>1, <3>3
    <3>5. QED BY <3>2, <3>4
  <2>2. exposed' \subseteq Entries
    BY <2>1
  <2>3. faults' \in 0 .. MaxFaults
    BY <1>14, OneMore DEF CompactsTogether
  <2>4. compaction' \in [Requests -> [taken : BOOLEAN, late : BOOLEAN, alive : SUBSET Entries]]
    <3>1. compaction \in [Requests -> Copies]
      BY DEF Copies
    <3>2. compaction' \in [Requests -> Copies]
      BY <1>14, <3>1, EndOfShared
    <3>3. QED BY <3>2 DEF Copies
  <2>5. QED BY <1>14, <2>1, <2>2, <2>3, <2>4 DEF CompactsTogether, memory
<1>15. ASSUME NEW q \in Requests, LandsLate(q) PROVE TypeOK'
  <2>1. PICK es : /\ es \subseteq Entries
                  /\ ledger' = es
                  /\ exposed' = exposed \cup (ledger \ es)
    BY <1>15 DEF LandsLate, Over
  <2>2. exposed' \subseteq Entries
    BY <2>1
  <2>3. QED BY <1>15, <2>1, <2>2 DEF LandsLate, memory, appends, bounds
<1>16. CASE UNCHANGED vars
  BY <1>16 DEF vars, memory, appends, disk, bounds, history
<1>17. QED
  BY <1>1, <1>2, <1>3, <1>4, <1>5, <1>6, <1>7, <1>8, <1>9, <1>10, <1>11, <1>12, <1>13,
     <1>14, <1>15, <1>16 DEF Next

-----------------------------------------------------------------------------
LEMMA StoreInit == Init => IInv
<1> SUFFICES ASSUME Init PROVE IInv
  OBVIOUS
<1>1. TypeOK
  <2>1. 0 \in 0 .. MaxCrashes /\ 0 \in 0 .. MaxFaults
    BY BoundsAssumption
  <2>2. [r \in Requests |-> None] \in [Requests -> [taken : BOOLEAN, late : BOOLEAN, alive : SUBSET Entries]]
    BY Constructors
  <2>3. QED BY <2>1, <2>2 DEF Init, TypeOK
<1>2. DownIsEmpty /\ Covered /\ LateAreTaken /\ SnapshotsCover /\ TakenAreWithdrawn
  BY DEF Init, DownIsEmpty, Covered, LateAreTaken, SnapshotsCover, TakenAreWithdrawn, InMemory, None
<1>3. QED BY <1>1, <1>2 DEF IInv

(* A step that only moves prompts already withdrawn. *)
LEMMA StillWithdrawn ==
    ASSUME TypeOK, TakenAreWithdrawn,
           settled' \subseteq settled, forgotten' \subseteq forgotten, ledger' \subseteq ledger,
           \A q \in Requests : Withdrawn(q) => Withdrawn(q)'
    PROVE  TakenAreWithdrawn'
<1> SUFFICES /\ \A q \in settled' : Withdrawn(q)'
             /\ \A q \in forgotten' : Withdrawn(q)' /\ EntriesOf(q) \cap ledger' = {}
  BY DEF TakenAreWithdrawn, EntriesOf, Request, Response
<1>1. settled \subseteq Requests /\ forgotten \subseteq Requests
  BY DEF TypeOK
<1>2. QED BY <1>1 DEF TakenAreWithdrawn

LEMMA StoreStep == IInv /\ [Next]_vars => IInv'
<1> SUFFICES ASSUME IInv, [Next]_vars PROVE IInv'
  OBVIOUS
<1>t. TypeOK /\ TypeOK'
  BY TypeStep DEF IInv
<1> DEFINE Safe == DownIsEmpty /\ Covered /\ LateAreTaken /\ SnapshotsCover /\ TakenAreWithdrawn
<1>s. Safe
  BY DEF IInv
<1> SUFFICES Safe'
  BY <1>t DEF IInv
<1> USE DEF DownIsEmpty, Covered, LateAreTaken, SnapshotsCover
<1>1. CASE Crash
  <2>1. DownIsEmpty' /\ Covered' /\ LateAreTaken' /\ SnapshotsCover'
    BY <1>1 DEF Crash, InMemory, None
  <2>2. TakenAreWithdrawn'
    <3>1. ASSUME NEW q \in Requests, Withdrawn(q) PROVE Withdrawn(q)'
      BY <1>1, <1>t, <3>1 DEF Crash, TypeOK, None, Withdrawn, EntriesOf
    <3>2. QED BY <1>1, <1>s, <1>t, <3>1, StillWithdrawn DEF Crash
  <2>3. QED BY <2>1, <2>2
<1>2. CASE load
  <2>1. InMemory' \subseteq ledger
    BY <1>2 DEF load, load_entries, InMemory, Request, Response
  <2>2. Covered' /\ LateAreTaken' /\ SnapshotsCover' /\ DownIsEmpty'
    BY <1>2, <1>s, <2>1 DEF load, disk, appends, history, None
  <2>3. TakenAreWithdrawn'
    <3>1. ASSUME NEW q \in forgotten PROVE Withdrawn(q)' /\ EntriesOf(q) \cap ledger' = {}
      BY <1>2, <1>s, <1>t, <3>1
         DEF load, load_entries, disk, appends, history, TypeOK, TakenAreWithdrawn, Withdrawn, EntriesOf
    <3>2. settled' = {} /\ forgotten' = forgotten
      BY <1>2, <1>s DEF load, history
    <3>3. QED BY <3>1, <3>2 DEF TakenAreWithdrawn, EntriesOf, Request, Response
  <2>4. QED BY <2>2, <2>3
<1>3. ASSUME NEW r \in Requests, enqueue_request(r) PROVE Safe'
  <2>1. InMemory' \subseteq InMemory \cup {Request(r)} /\ Request(r) \in appending'
    BY <1>3 DEF enqueue_request, Insert, InMemory, Request, Response
  <2>2. DownIsEmpty' /\ Covered' /\ LateAreTaken'
    BY <1>3, <1>s, <2>1 DEF enqueue_request, Insert, disk
  <2>3. SnapshotsCover'
    BY <1>3, <1>s, <2>1 DEF enqueue_request, Insert, Compacting
  <2>4. TakenAreWithdrawn'
    <3>1. ASSUME NEW q \in Requests, Withdrawn(q) PROVE Withdrawn(q)'
      <4>1. q # r
        BY <1>3, <3>1 DEF enqueue_request, Withdrawn
      <4>2. asker'[q] = asker[q] /\ Request(r) \notin EntriesOf(q)
        BY <1>3, <1>t, <4>1 DEF enqueue_request, EntriesOf, Request, Response, TypeOK
      <4>3. QED BY <1>3, <3>1, <4>1, <4>2 DEF enqueue_request, Insert, Withdrawn
    <3>2. QED BY <1>3, <1>s, <1>t, <3>1, StillWithdrawn DEF enqueue_request, Insert, disk
  <2>5. QED BY <2>2, <2>3, <2>4
<1>4. ASSUME NEW r \in Requests, set_response(r) PROVE Safe'
  <2>1. InMemory' \subseteq InMemory \cup {Response(r)} /\ Response(r) \in appending'
    <3>1. pending' = pending /\ responses' = responses \cup {r}
          /\ appending' = appending \cup {Response(r)}
      BY <1>4 DEF set_response, Insert
    <3>2. QED BY <3>1 DEF InMemory, Response
  <2>2. DownIsEmpty' /\ Covered' /\ LateAreTaken'
    BY <1>4, <1>s, <2>1 DEF set_response, Insert, disk
  <2>3. SnapshotsCover'
    BY <1>4, <1>s, <2>1 DEF set_response, Insert, Compacting
  <2>4. TakenAreWithdrawn'
    <3>1. ASSUME NEW q \in Requests, Withdrawn(q) PROVE Withdrawn(q)'
      <4>1. q # r
        BY <1>4, <3>1 DEF set_response, is_pending, Withdrawn
      <4>2. asker'[q] = asker[q] /\ Response(r) \notin EntriesOf(q)
        BY <1>4, <1>t, <4>1 DEF set_response, EntriesOf, Request, Response, TypeOK
      <4>3. QED BY <1>4, <3>1, <4>1, <4>2 DEF set_response, Insert, Withdrawn
    <3>2. QED BY <1>4, <1>s, <1>t, <3>1, StillWithdrawn DEF set_response, is_pending, Insert, disk
  <2>5. QED BY <2>2, <2>3, <2>4
<1>5. ASSUME NEW r \in Requests, consume_if_ready(r) PROVE Safe'
  <2>1. InMemory' \subseteq InMemory
    BY <1>5 DEF consume_if_ready, InMemory
  <2>2. compaction'[r].alive = InMemory' /\ compaction'[r].taken
    BY <1>5, <1>t DEF consume_if_ready, Snapshot, InMemory, TypeOK
  <2>3. \A q \in Requests \ {r} : compaction'[q] = compaction[q]
    BY <1>5, <1>t DEF consume_if_ready, TypeOK
  <2>4. DownIsEmpty' /\ Covered' /\ LateAreTaken'
    <3>1. DownIsEmpty' /\ Covered'
      BY <1>5, <1>s, <2>1 DEF consume_if_ready, Waiting, appends, disk
    <3>2. LateAreTaken'
      BY <1>s, <2>2, <2>3
    <3>3. QED BY <3>1, <3>2
  <2>5. SnapshotsCover'
    BY <1>5, <1>s, <2>1, <2>2, <2>3 DEF consume_if_ready
  <2>6. ASSUME NEW q \in Requests, Withdrawn(q) PROVE Withdrawn(q)'
    <3>1. q # r /\ asker'[q] = asker[q]
      BY <1>5, <1>t, <2>6 DEF consume_if_ready, Waiting, Withdrawn, TypeOK
    <3>2. q \notin pending' /\ q \notin responses'
      BY <1>5, <2>6 DEF consume_if_ready, Withdrawn
    <3>3. EntriesOf(q) \cap InMemory' = {}
      BY <3>2 DEF InMemory, EntriesOf, Request, Response
    <3>4. QED BY <1>5, <2>2, <2>3, <2>6, <3>1, <3>2, <3>3 DEF consume_if_ready, appends, Withdrawn, EntriesOf, Request, Response
  <2>7. ASSUME settled' = settled PROVE TakenAreWithdrawn'
    <3>1. ledger' \subseteq ledger /\ forgotten' \subseteq forgotten
      BY <1>5 DEF consume_if_ready, disk
    <3>2. settled' \subseteq settled
      BY <2>7
    <3>3. QED BY <1>s, <1>t, <2>6, <3>1, <3>2, StillWithdrawn
  <2>8. ASSUME settled' = settled \cup {r}, ~Compacting,
               EntriesOf(r) \cap (appending \cup writing) = {}
        PROVE  TakenAreWithdrawn'
    <3>1. asker'[r] = "answered" /\ r \notin pending' /\ r \notin responses'
      BY <1>5, <1>t DEF consume_if_ready, TypeOK
    <3>2. EntriesOf(r) \cap InMemory' = {}
      BY <3>1 DEF InMemory, EntriesOf, Request, Response
    <3>3. \A q \in Requests \ {r} : ~compaction'[q].taken
      BY <2>3, <2>8 DEF Compacting
    <3>4. Withdrawn(r)'
      BY <1>5, <2>2, <2>8, <3>1, <3>2, <3>3
         DEF consume_if_ready, appends, Withdrawn, EntriesOf, Request, Response
    <3>5. ledger' = ledger /\ forgotten' = forgotten
      BY <1>5 DEF consume_if_ready, disk
    <3>6. \A q \in settled \cup forgotten : Withdrawn(q)'
      BY <1>s, <1>t, <2>6 DEF TakenAreWithdrawn, TypeOK
    <3>7. \A q \in forgotten : EntriesOf(q) \cap ledger' = {}
      BY <1>s, <3>5 DEF TakenAreWithdrawn
    <3>8. settled' = settled \cup {r}
      BY <2>8
    <3>9. \A q \in settled' : Withdrawn(q)'
      BY <3>4, <3>6, <3>8
    <3>10. \A q \in forgotten' : Withdrawn(q)' /\ EntriesOf(q) \cap ledger' = {}
      BY <3>5, <3>6, <3>7
    <3>11. QED BY <3>9, <3>10 DEF TakenAreWithdrawn, EntriesOf, Request, Response
  <2>9. TakenAreWithdrawn'
    <3>1. \/ settled' = settled
          \/ /\ settled' = settled \cup {r} /\ ~Compacting
             /\ EntriesOf(r) \cap (appending \cup writing) = {}
      BY <1>5 DEF consume_if_ready, EntriesOf
    <3>2. QED BY <2>7, <2>8, <3>1
  <2>10. QED
    BY <2>4, <2>5, <2>9
<1>6. ASSUME NEW r \in Requests, TimesOut(r) PROVE Safe'
  <2>1. InMemory' \subseteq InMemory
    BY <1>6 DEF TimesOut, InMemory
  <2>2. DownIsEmpty' /\ Covered' /\ LateAreTaken' /\ SnapshotsCover'
    BY <1>6, <1>s, <2>1 DEF TimesOut, Waiting, appends, disk, history
  <2>3. TakenAreWithdrawn'
    <3>1. ASSUME NEW q \in Requests, Withdrawn(q) PROVE Withdrawn(q)'
      BY <1>6, <1>t, <3>1 DEF TimesOut, Waiting, appends, disk, history, TypeOK, Withdrawn, EntriesOf, Request, Response
    <3>2. QED BY <1>6, <1>s, <1>t, <3>1, StillWithdrawn DEF TimesOut, Waiting, appends, disk, history
  <2>4. QED BY <2>2, <2>3
<1>7. ASSUME NEW r \in Requests, Rejoin(r) PROVE Safe'
  <2>1. DownIsEmpty' /\ Covered' /\ LateAreTaken' /\ SnapshotsCover'
    BY <1>7, <1>s DEF Rejoin, memory, appends, disk, history, InMemory
  <2>2. TakenAreWithdrawn'
    <3>1. ASSUME NEW q \in Requests, Withdrawn(q) PROVE Withdrawn(q)'
      BY <1>7, <1>t, <3>1 DEF Rejoin, memory, appends, disk, history, TypeOK, Withdrawn, EntriesOf, Request, Response
    <3>2. QED BY <1>7, <1>s, <1>t, <3>1, StillWithdrawn DEF Rejoin, memory, appends, disk, history
  <2>3. QED BY <2>1, <2>2
<1>8. ASSUME NEW r \in Requests, compact_ledger(r) PROVE Safe'
  <2>c. compaction \in [Requests -> Copies]
    BY <1>t DEF TypeOK, Copies
  <2>1. compaction[r].taken /\ up
    <3>1. compaction[r].taken
      BY <1>8 DEF compact_ledger, Writes
    <3>2. QED BY <1>s, <3>1 DEF None
  <2>r. Replace(r, compaction[r].alive)
    BY <1>8 DEF compact_ledger
  <2>2. /\ \A q \in Requests : compaction'[q].taken => compaction'[q] = compaction[q]
        /\ LateAreTaken'
    BY <2>c, <2>r, EndOfReplaced
  <2>3. InMemory' = InMemory /\ InMemory \subseteq ledger' \cup exposed
    BY <1>8, <1>s, <2>1 DEF compact_ledger, Replace, memory, InMemory
  <2>4. DownIsEmpty' /\ Covered' /\ LateAreTaken' /\ SnapshotsCover'
    <3>1. up' /\ exposed' = exposed
      BY <1>8, <2>1 DEF compact_ledger
    <3>2. DownIsEmpty' /\ Covered'
      BY <2>3, <3>1
    <3>3. SnapshotsCover'
      BY <1>s, <2>2, <2>3, <3>1
    <3>4. QED BY <2>2, <3>2, <3>3
  <2>5. ASSUME NEW q \in Requests, Withdrawn(q)
        PROVE  Withdrawn(q)' /\ EntriesOf(q) \cap ledger' = {}
    BY <1>8, <2>1, <2>2, <2>5
       DEF compact_ledger, Replace, memory, Withdrawn, EntriesOf, Request, Response
  <2>6. TakenAreWithdrawn'
    <3>1. settled' = settled /\ forgotten' \subseteq settled \cup forgotten
      BY <1>8 DEF compact_ledger, Replace
    <3>2. \A q \in settled \cup forgotten : Withdrawn(q)' /\ EntriesOf(q) \cap ledger' = {}
      BY <1>s, <1>t, <2>5 DEF TakenAreWithdrawn, TypeOK
    <3>3. QED BY <3>1, <3>2 DEF TakenAreWithdrawn, EntriesOf, Request, Response
  <2>7. QED BY <2>4, <2>6
<1>9. ASSUME NEW r \in Requests, CompactionFails(r) PROVE Safe'
  <2>c. compaction \in [Requests -> Copies]
    BY <1>t DEF TypeOK, Copies
  <2>1. /\ \A q \in Requests : compaction'[q].taken => compaction'[q] = compaction[q]
        /\ LateAreTaken => LateAreTaken'
    <3>1. compaction' = [compaction EXCEPT ![r] = None]
      BY <1>9 DEF CompactionFails
    <3>2. QED BY <2>c, <3>1, EndOf
  <2>2. up /\ InMemory' = InMemory
    <3>1. compaction[r].taken
      BY <1>9 DEF CompactionFails, Writes
    <3>2. up
      BY <1>s, <3>1 DEF None
    <3>3. QED BY <1>9, <3>2 DEF CompactionFails, memory, InMemory
  <2>3. DownIsEmpty' /\ Covered' /\ LateAreTaken' /\ SnapshotsCover'
    <3>1. /\ up' = up /\ appending' = appending /\ writing' = writing /\ ledger' = ledger
          /\ exposed' = exposed
      BY <1>9 DEF CompactionFails, appends, disk, history
    <3>2. LateAreTaken'
      BY <1>s, <2>1
    <3>3. QED BY <1>s, <2>1, <2>2, <3>1, <3>2
  <2>4. TakenAreWithdrawn'
    <3>1. ASSUME NEW q \in Requests, Withdrawn(q) PROVE Withdrawn(q)'
      BY <1>9, <1>t, <2>1, <3>1 DEF CompactionFails, memory, appends, disk, history, TypeOK, Withdrawn, EntriesOf, Request, Response
    <3>2. QED BY <1>9, <1>s, <1>t, <3>1, StillWithdrawn DEF CompactionFails, memory, appends, disk, history
  <2>5. QED BY <2>3, <2>4
<1>10. ASSUME NEW e \in Entries, OpenLedger(e) PROVE Safe'
  <2>1. InMemory' = InMemory /\ appending' \cup writing' = appending \cup writing
    BY <1>10 DEF OpenLedger, memory, InMemory
  <2>2. DownIsEmpty' /\ Covered' /\ LateAreTaken' /\ SnapshotsCover'
    BY <1>10, <1>s, <2>1 DEF OpenLedger, memory, disk, history
  <2>3. TakenAreWithdrawn'
    <3>1. ASSUME NEW q \in Requests, Withdrawn(q) PROVE Withdrawn(q)'
      BY <1>10, <1>t, <2>1, <3>1 DEF OpenLedger, memory, disk, history, TypeOK, Withdrawn, EntriesOf, Request, Response
    <3>2. QED BY <1>10, <1>s, <1>t, <3>1, StillWithdrawn DEF OpenLedger, memory, disk, history
  <2>4. QED BY <2>2, <2>3
<1>11. ASSUME NEW e \in Entries, WriteEntry(e) PROVE Safe'
  <2>1. InMemory' = InMemory
    BY <1>11 DEF WriteEntry, memory, InMemory
  <2>2. DownIsEmpty' /\ Covered' /\ LateAreTaken' /\ SnapshotsCover'
    BY <1>11, <1>s, <2>1 DEF WriteEntry, memory
  <2>3. TakenAreWithdrawn'
    <3>1. ASSUME NEW q \in Requests, Withdrawn(q)
          PROVE  Withdrawn(q)' /\ EntriesOf(q) \cap ledger' \subseteq ledger
      BY <1>11, <3>1 DEF WriteEntry, memory, Withdrawn
    <3>2. settled' = settled /\ forgotten' = forgotten
      BY <1>11 DEF WriteEntry
    <3>3. QED BY <1>s, <1>t, <3>1, <3>2 DEF TakenAreWithdrawn, EntriesOf, Request, Response, TypeOK
  <2>4. QED BY <2>2, <2>3
<1>12. ASSUME NEW e \in Entries, AppendFails(e) PROVE Safe'
  <2>1. InMemory' = InMemory
    BY <1>12 DEF AppendFails, memory, InMemory
  <2>2. DownIsEmpty' /\ Covered' /\ LateAreTaken' /\ SnapshotsCover'
    BY <1>12, <1>s, <2>1 DEF AppendFails, memory, disk
  <2>3. TakenAreWithdrawn'
    <3>1. ASSUME NEW q \in Requests, Withdrawn(q) PROVE Withdrawn(q)'
      BY <1>12, <1>t, <3>1 DEF AppendFails, memory, disk, TypeOK, Withdrawn, EntriesOf, Request, Response
    <3>2. QED BY <1>12, <1>s, <1>t, <3>1, StillWithdrawn DEF AppendFails, memory, disk
  <2>4. QED BY <2>2, <2>3
<1>13. ASSUME NEW r \in Requests, CompactsShort(r) PROVE Safe'
  <2>1. PICK es \in SUBSET compaction[r].alive :
          /\ Writes(r) /\ Replace(r, es)
          /\ exposed' = exposed \cup (compaction[r].alive \ es)
    BY <1>13 DEF CompactsShort
  <2>2. /\ up /\ compaction[r].taken
        /\ up' = up /\ appending' = appending /\ settled' = settled /\ asker' = asker
        /\ pending' = pending /\ responses' = responses /\ writing' = {} /\ ledger' = es
        /\ InMemory' = InMemory
    BY <1>13, <1>s, <2>1 DEF CompactsShort, Replace, Writes, None, memory, InMemory
  <2>c. compaction \in [Requests -> Copies]
    BY <1>t DEF TypeOK, Copies
  <2>3. /\ \A q \in Requests : compaction'[q].taken => compaction'[q] = compaction[q]
        /\ LateAreTaken'
    BY <2>1, <2>c, EndOfReplaced
  <2>4. DownIsEmpty' /\ Covered' /\ LateAreTaken' /\ SnapshotsCover'
    <3>1. InMemory \subseteq compaction[r].alive \cup exposed
      BY <1>s, <2>2
    <3>2. DownIsEmpty' /\ Covered'
      BY <2>1, <2>2, <3>1
    <3>3. SnapshotsCover'
      BY <1>s, <2>1, <2>2, <2>3
    <3>4. QED BY <2>3, <3>2, <3>3
  <2>5. ASSUME NEW q \in Requests, Withdrawn(q)
        PROVE  Withdrawn(q)' /\ EntriesOf(q) \cap ledger' = {}
    BY <2>1, <2>2, <2>3, <2>5 DEF Withdrawn, EntriesOf, Request, Response
  <2>6. TakenAreWithdrawn'
    <3>1. settled' = settled /\ forgotten' \subseteq settled \cup forgotten
      BY <2>1, <2>2 DEF Replace
    <3>2. \A q \in settled \cup forgotten : Withdrawn(q)' /\ EntriesOf(q) \cap ledger' = {}
      BY <1>s, <1>t, <2>5 DEF TakenAreWithdrawn, TypeOK
    <3>3. QED BY <3>1, <3>2 DEF TakenAreWithdrawn, EntriesOf, Request, Response
  <2>7. QED BY <2>4, <2>6
<1>14. ASSUME NEW r \in Requests, NEW q \in Requests, CompactsTogether(r, q) PROVE Safe'
  <2>1. PICK es : /\ es \subseteq compaction[r].alive \cup compaction[q].alive
                  /\ ledger' = es
                  /\ exposed' = exposed \cup (compaction[r].alive \ es)
    BY <1>14, OverWithin DEF CompactsTogether
  <2>2. /\ up /\ compaction[r].taken /\ compaction[q].taken /\ q # r
        /\ up' = up /\ appending' = appending /\ settled' = settled /\ asker' = asker
        /\ pending' = pending /\ responses' = responses /\ writing' = {}
        /\ forgotten' \subseteq settled \cup forgotten
        /\ InMemory' = InMemory
    BY <1>14, <1>s DEF CompactsTogether, Writes, None, memory, InMemory
  <2>c. compaction \in [Requests -> Copies]
    BY <1>t DEF TypeOK, Copies
  <2>3. /\ \A p \in Requests : compaction'[p].taken =>
             compaction[p].taken /\ compaction'[p].alive = compaction[p].alive
        /\ LateAreTaken'
    BY <1>14, <2>c, EndOfShared
  <2>4. DownIsEmpty' /\ Covered' /\ LateAreTaken' /\ SnapshotsCover'
    <3>1. InMemory \subseteq compaction[r].alive \cup exposed
      BY <1>s, <2>2
    <3>2. DownIsEmpty' /\ Covered'
      BY <2>1, <2>2, <3>1
    <3>3. SnapshotsCover'
      BY <1>s, <2>1, <2>2, <2>3
    <3>4. QED BY <2>3, <3>2, <3>3
  <2>5. ASSUME NEW p \in Requests, Withdrawn(p)
        PROVE  Withdrawn(p)' /\ EntriesOf(p) \cap ledger' = {}
    BY <2>1, <2>2, <2>3, <2>5 DEF Withdrawn, EntriesOf, Request, Response
  <2>6. TakenAreWithdrawn'
    <3>1. \A p \in settled \cup forgotten : Withdrawn(p)' /\ EntriesOf(p) \cap ledger' = {}
      BY <1>s, <1>t, <2>5 DEF TakenAreWithdrawn, TypeOK
    <3>2. QED BY <2>2, <3>1 DEF TakenAreWithdrawn, EntriesOf, Request, Response
  <2>7. QED BY <2>4, <2>6
<1>15. ASSUME NEW q \in Requests, LandsLate(q) PROVE Safe'
  <2>1. PICK es : /\ es \subseteq ledger \cup compaction[q].alive
                  /\ ledger' = es
                  /\ exposed' = exposed \cup (ledger \ es)
    BY <1>15 DEF LandsLate, Over
  <2>2. /\ up /\ compaction[q].taken
        /\ up' = up /\ appending' = appending /\ settled' = settled /\ asker' = asker
        /\ pending' = pending /\ responses' = responses /\ writing' = writing
        /\ forgotten' = forgotten /\ InMemory' = InMemory
    BY <1>15, <1>s DEF LandsLate, None, memory, appends, InMemory
  <2>c. compaction \in [Requests -> Copies]
    BY <1>t DEF TypeOK, Copies
  <2>3. /\ \A p \in Requests : compaction'[p].taken => compaction'[p] = compaction[p]
        /\ LateAreTaken => LateAreTaken'
    <3>1. compaction' = [compaction EXCEPT ![q] = None]
      BY <1>15 DEF LandsLate
    <3>2. QED BY <2>c, <3>1, EndOf
  <2>4. DownIsEmpty' /\ Covered' /\ LateAreTaken' /\ SnapshotsCover'
    <3>1. DownIsEmpty' /\ Covered'
      BY <1>s, <2>1, <2>2
    <3>2. SnapshotsCover'
      BY <1>s, <2>1, <2>2, <2>3
    <3>3. QED BY <1>s, <2>3, <3>1, <3>2
  <2>5. ASSUME NEW p \in Requests, Withdrawn(p)
        PROVE  Withdrawn(p)' /\ EntriesOf(p) \cap ledger' \subseteq ledger
    BY <2>1, <2>2, <2>3, <2>5 DEF Withdrawn, EntriesOf, Request, Response
  <2>6. TakenAreWithdrawn'
    <3>1. \A p \in settled \cup forgotten : Withdrawn(p)' /\ EntriesOf(p) \cap ledger' \subseteq ledger
      BY <1>s, <1>t, <2>5 DEF TakenAreWithdrawn, TypeOK
    <3>2. QED BY <1>s, <2>2, <3>1 DEF TakenAreWithdrawn, EntriesOf, Request, Response
  <2>7. QED BY <2>4, <2>6
<1>16. CASE UNCHANGED vars
  <2>1. DownIsEmpty' /\ Covered' /\ LateAreTaken' /\ SnapshotsCover'
    BY <1>16, <1>s DEF vars, memory, appends, disk, history, InMemory
  <2>2. TakenAreWithdrawn'
    BY <1>16, <1>s
       DEF vars, memory, appends, disk, history, TakenAreWithdrawn, Withdrawn, EntriesOf
  <2>3. QED BY <2>1, <2>2
<1>17. QED
  BY <1>1, <1>2, <1>3, <1>4, <1>5, <1>6, <1>7, <1>8, <1>9, <1>10, <1>11, <1>12, <1>13,
     <1>14, <1>15, <1>16
     DEF Next

-----------------------------------------------------------------------------
LEMMA StoreInvariant == Spec => []IInv
<1>1. Init => IInv
  BY StoreInit
<1>2. IInv /\ [Next]_vars => IInv'
  BY StoreStep
<1>3. QED BY <1>1, <1>2, PTL DEF Spec

(* The variables keep their types. *)
THEOREM TypeCorrect == Spec => []TypeOK
<1>1. IInv => TypeOK
  BY DEF IInv
<1>2. QED BY StoreInvariant, <1>1, PTL

(* However many prompts are asked, answered and compacted away at once, a  *)
(* restart finds every entry that the store vouches for.                   *)
THEOREM Durable == Spec => []SurvivesRestart
<1>1. IInv => SurvivesRestart
  BY DEF IInv, Covered, SurvivesRestart, load_entries
<1>2. QED BY StoreInvariant, <1>1, PTL

(* A response that was taken undisturbed and compacted away is never taken *)
(* again, by this process or by any later one.                             *)
THEOREM TakenOnce == Spec => []TakenForGood
<1>1. IInv => TakenForGood
  BY DEF IInv, TakenAreWithdrawn, TakenForGood, Withdrawn, EntriesOf
<1>2. QED BY StoreInvariant, <1>1, PTL
=============================================================================
