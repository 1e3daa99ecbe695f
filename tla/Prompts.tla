------------------------------ MODULE Prompts ------------------------------
(***************************************************************************)
(* The durable store of permission prompts, apohara-safety/durable_prompt: *)
(* a request waits in memory for the user's response, both are appended to *)
(* a ledger that a fresh process loads, and every response that is taken   *)
(* starts a compaction, which replaces the ledger by a copy of the memory  *)
(* made under the lock but written much later.                             *)
(*                                                                         *)
(* A request id is used once, so the ledger is the set of its entries.  A  *)
(* prompt is answered once, and what the answer says is left out.  Writes  *)
(* may fail half-way: what they leave can defeat the load of the whole     *)
(* file, where it is no UTF-8 or the warning cuts a character in two.      *)
(***************************************************************************)
EXTENDS Naturals

CONSTANTS Requests,   \* request ids
          MaxCrashes, \* bound on the deaths of the process
          MaxFaults   \* bound on the appends and compactions that go wrong

ASSUME BoundsAssumption == MaxCrashes \in Nat /\ MaxFaults \in Nat

VARIABLES
    up,         \* the process runs, its store loaded
    pending,    \* Inner.pending
    responses,  \* Inner.responses
    asker,      \* how far the caller of each request is
    appending,  \* entries whose append has not opened the ledger yet
    writing,    \* entries whose append has, and whose write is under way
    ledger,     \* the entries a load would find in the file
    torn,       \* the file ends in part of a line
    unreadable, \* the file holds a line that makes load fail or panic
    compaction, \* compaction[r]: what the one started for r will write
    crashes,    \* deaths so far
    faults,     \* appends and compactions gone wrong so far
    exposed,    \* entries the store cannot vouch for (history)
    settled,    \* prompts taken with no append or compaction under way (history)
    forgotten   \* those of them whose compaction has replaced the ledger (history)

memory  == <<pending, responses>>
disk    == <<ledger, torn, unreadable>>
appends == <<appending, writing>>
history == <<exposed, settled, forgotten>>
bounds  == <<crashes, faults>>
vars == <<up, memory, asker, appends, disk, compaction, bounds, history>>

-----------------------------------------------------------------------------
Request(r)  == <<"request", r>>
Response(r) == <<"response", r>>
Entries == {"request", "response"} \X Requests

None == [taken |-> FALSE, late |-> FALSE, alive |-> {}]

(* Mutant: the responses not taken yet are left out of the compaction. *)
Snapshot_requests_only(p, q) == [taken |-> TRUE, late |-> FALSE, alive |-> {"request"} \X p]

(* A compaction is late when its temporary file has become the ledger.     *)
Snapshot(p, q) ==
    [taken |-> TRUE, late |-> FALSE, alive |-> ({"request"} \X p) \cup ({"response"} \X q)]

Compacting == \E r \in Requests : compaction[r].taken
Writes(r)  == compaction[r].taken /\ ~compaction[r].late

Init ==
    /\ up = TRUE
    /\ pending = {} /\ responses = {}
    /\ asker = [r \in Requests |-> "idle"]
    /\ appending = {} /\ writing = {}
    /\ ledger = {} /\ torn = FALSE /\ unreadable = FALSE
    /\ compaction = [r \in Requests |-> None]
    /\ crashes = 0 /\ faults = 0
    /\ exposed = {} /\ settled = {} /\ forgotten = {}

-----------------------------------------------------------------------------
(* An entry enters the memory at once and its append follows.  A compaction *)
(* that is under way does not know it.                                     *)
Insert(e) ==
    /\ appending' = appending \cup {e}
    /\ exposed' = IF Compacting THEN exposed \cup {e} ELSE exposed
    /\ UNCHANGED <<up, writing, disk, compaction, bounds, settled, forgotten>>

enqueue_request(r) ==
    /\ up /\ asker[r] = "idle"
    /\ pending' = pending \cup {r}
    /\ asker' = [asker EXCEPT ![r] = "waiting"]
    /\ Insert(Request(r))
    /\ UNCHANGED responses

(* The user answers a prompt that is_pending reports, or one that it still *)
(* reported before its caller gave up.                                     *)
is_pending(r) == r \in pending /\ r \notin responses

set_response(r) ==
    /\ up /\ (is_pending(r) \/ (asker[r] = "gave up" /\ r \notin responses))
    /\ responses' = responses \cup {r}
    /\ Insert(Response(r))
    /\ UNCHANGED <<pending, asker>>

(* A write that stops inside a line may stop inside a character. *)
Garbles == unreadable' \in {unreadable, TRUE}

(* append_entry: the open of the ledger, after which the call returns; the *)
(* write, which the runtime completes on its own; an error of either,      *)
(* which nobody hears of and which may leave part of the line.  A line     *)
(* appended to a torn one is lost with it.                                 *)
OpenLedger(e) ==
    /\ e \in appending
    /\ appending' = appending \ {e}
    /\ writing' = writing \cup {e}
    /\ UNCHANGED <<up, memory, asker, disk, compaction, bounds, history>>

WriteEntry(e) ==
    /\ e \in writing
    /\ writing' = writing \ {e}
    /\ torn' = FALSE
    /\ \/ ~torn /\ ledger' = ledger \cup {e} /\ UNCHANGED <<unreadable, exposed>>
       \/ torn /\ exposed' = exposed \cup {e} /\ Garbles /\ UNCHANGED ledger
    /\ UNCHANGED <<up, memory, asker, appending, compaction, bounds, settled, forgotten>>

AppendFails(e) ==
    /\ \/ /\ e \in appending /\ appending' = appending \ {e}
          /\ UNCHANGED <<writing, torn, unreadable>>
       \/ /\ e \in writing /\ writing' = writing \ {e}
          /\ UNCHANGED appending
          /\ \/ UNCHANGED <<torn, unreadable>>
             \/ torn' = TRUE /\ Garbles
    /\ exposed' = exposed \cup {e}
    /\ faults < MaxFaults /\ faults' = faults + 1
    /\ UNCHANGED <<up, memory, asker, ledger, compaction, crashes, settled, forgotten>>

-----------------------------------------------------------------------------
(* wait_for_response begins when enqueue_request has returned. *)
Waiting(r) == up /\ asker[r] = "waiting" /\ Request(r) \notin appending

consume_if_ready(r) ==
    /\ Waiting(r) /\ r \in responses
    /\ pending' = pending \ {r}
    /\ responses' = responses \ {r}
    /\ compaction' = [compaction EXCEPT ![r] = Snapshot(pending', responses')]
    /\ asker' = [asker EXCEPT ![r] = "answered"]
    /\ settled' = IF Compacting \/ {Request(r), Response(r)} \cap (appending \cup writing) # {}
                  THEN settled ELSE settled \cup {r}
    /\ UNCHANGED <<up, appends, disk, bounds, exposed, forgotten>>

(* Past the deadline; a response recorded since the last poll stays. *)
TimesOut(r) ==
    /\ Waiting(r)
    /\ pending' = pending \ {r}
    /\ asker' = [asker EXCEPT ![r] = "gave up"]
    /\ UNCHANGED <<up, responses, appends, disk, compaction, bounds, history>>

(* A fresh process waits for a prompt that its load recovered. *)
Rejoin(r) ==
    /\ up /\ asker[r] = "lost" /\ r \in pending
    /\ asker' = [asker EXCEPT ![r] = "waiting"]
    /\ UNCHANGED <<up, memory, appends, disk, compaction, bounds, history>>

-----------------------------------------------------------------------------
(* The rename of compact_ledger loses with the old file the writes that    *)
(* have opened it.                                                         *)
Replace_appends(r, es) == \* mutant: the alive entries are appended, the others stay
    /\ ledger' = ledger \cup es
    /\ UNCHANGED writing
    /\ forgotten' = IF r \in settled THEN forgotten \cup {r} ELSE forgotten
    /\ compaction' = [compaction EXCEPT ![r] = None]

Replace(r, es) ==
    /\ ledger' = es
    /\ writing' = {}
    /\ forgotten' = IF r \in settled THEN forgotten \cup {r} ELSE forgotten
    /\ compaction' = [q \in Requests |-> IF q = r \/ compaction[q].late THEN None
                                         ELSE compaction[q]]

compact_ledger(r) ==
    /\ Writes(r)
    /\ Replace(r, compaction[r].alive)
    /\ torn' = FALSE /\ unreadable' = FALSE
    /\ UNCHANGED <<up, memory, asker, appending, bounds, exposed, settled>>

(* An error of the write is swallowed, and a file cut short is renamed over *)
(* the ledger.                                                             *)
CompactsShort(r) == \E es \in SUBSET compaction[r].alive :
    /\ Writes(r)
    /\ Replace(r, es)
    /\ torn' \in BOOLEAN /\ unreadable' \in BOOLEAN /\ (unreadable' => torn')
    /\ exposed' = exposed \cup (compaction[r].alive \ es)
    /\ faults < MaxFaults /\ faults' = faults + 1
    /\ UNCHANGED <<up, memory, asker, appending, crashes, settled>>

(* A body written from the start of a file leaves the lines past its end,  *)
(* the first of them cut.                                                  *)
Over(body, lines) == {body \cup es : es \in SUBSET lines}

(* Two compactions of one millisecond write to one temporary file, which   *)
(* each truncates as it opens it.  The first rename installs what has been *)
(* written by then, the second finds no file, and the write of the second  *)
(* may come later, into what is the ledger now.                            *)
CompactsTogether(r, q) ==
    \E es \in {{}} \cup Over(compaction[r].alive, compaction[q].alive)
                  \cup Over(compaction[q].alive, compaction[r].alive) :
    /\ Writes(r) /\ Writes(q) /\ q # r
    /\ ledger' = es
    /\ torn' = FALSE /\ unreadable' \in BOOLEAN
    /\ writing' = {}
    /\ forgotten' = IF r \in settled THEN forgotten \cup {r} ELSE forgotten
    /\ compaction' = [p \in Requests |-> IF p = r \/ compaction[p].late THEN None
                          ELSE IF p = q THEN [compaction[q] EXCEPT !.late = TRUE]
                          ELSE compaction[p]]
    /\ exposed' = exposed \cup (compaction[r].alive \ es)
    /\ faults < MaxFaults /\ faults' = faults + 1
    /\ UNCHANGED <<up, memory, asker, appending, crashes, settled>>

LandsLate(q) == \E es \in Over(compaction[q].alive, ledger) :
    /\ compaction[q].late
    /\ ledger' = es
    /\ torn' \in {torn, FALSE} /\ unreadable' \in BOOLEAN
    /\ exposed' = exposed \cup (ledger \ es)
    /\ compaction' = [compaction EXCEPT ![q] = None]
    /\ UNCHANGED <<up, memory, asker, appends, bounds, settled, forgotten>>

CompactionFails(r) ==
    /\ Writes(r)
    /\ compaction' = [compaction EXCEPT ![r] = None]
    /\ UNCHANGED <<up, memory, asker, appends, disk, bounds, history>>

-----------------------------------------------------------------------------
(* The process dies; a write under way may leave part of its line. *)
Crash ==
    /\ up /\ crashes < MaxCrashes
    /\ up' = FALSE
    /\ crashes' = crashes + 1
    /\ pending' = {} /\ responses' = {}
    /\ asker' = [r \in Requests |-> IF asker[r] = "idle" THEN "idle" ELSE "lost"]
    /\ appending' = {} /\ writing' = {}
    /\ \/ UNCHANGED <<torn, unreadable>>
       \/ writing # {} /\ torn' = TRUE /\ Garbles
    /\ compaction' = [r \in Requests |-> None]
    /\ exposed' = {} /\ settled' = {}
    /\ UNCHANGED <<ledger, faults, forgotten>>

load_undecoded == \* mutant: the entries of requests become pending, not the requests
    /\ ~up
    /\ up' = TRUE
    /\ pending' = {e \in ledger : e[1] = "request"}
    /\ responses' = {r \in Requests : Response(r) \in ledger}
    /\ UNCHANGED <<asker, appends, disk, compaction, bounds, history>>

(* load_entries skips a line that it cannot parse, and gives up the whole  *)
(* file for one that it cannot decode or print.                            *)
load_entries == IF unreadable THEN {} ELSE ledger

load ==
    /\ ~up
    /\ up' = TRUE
    /\ pending' = {r \in Requests : Request(r) \in load_entries}
    /\ responses' = {r \in Requests : Response(r) \in load_entries}
    /\ UNCHANGED <<asker, appends, disk, compaction, bounds, history>>

-----------------------------------------------------------------------------
Next ==
    \/ Crash \/ load
    \/ \E r \in Requests :
         \/ enqueue_request(r) \/ set_response(r)
         \/ consume_if_ready(r) \/ TimesOut(r) \/ Rejoin(r)
         \/ compact_ledger(r) \/ CompactionFails(r)
         \/ CompactsShort(r) \/ LandsLate(r)
         \/ \E q \in Requests : CompactsTogether(r, q)
    \/ \E e \in Entries : OpenLedger(e) \/ WriteEntry(e) \/ AppendFails(e)

Spec == Init /\ [][Next]_vars

-----------------------------------------------------------------------------
(* Type invariant of the store, its ledger and the calls under way. *)
TypeOK ==
    /\ up \in BOOLEAN /\ torn \in BOOLEAN /\ unreadable \in BOOLEAN
    /\ pending \in SUBSET Requests /\ responses \in SUBSET Requests
    /\ asker \in [Requests -> {"idle", "waiting", "answered", "gave up", "lost"}]
    /\ appending \in SUBSET Entries /\ writing \in SUBSET Entries
    /\ ledger \in SUBSET Entries
    /\ compaction \in [Requests -> [taken : BOOLEAN, late : BOOLEAN, alive : SUBSET Entries]]
    /\ crashes \in 0 .. MaxCrashes /\ faults \in 0 .. MaxFaults
    /\ exposed \in SUBSET Entries
    /\ settled \in SUBSET Requests /\ forgotten \in SUBSET Requests

InMemory == ({"request"} \X pending) \cup ({"response"} \X responses)

(* What a fresh process would load covers the memory: whatever compactions *)
(* and writes land in whatever order, an entry in memory is in the ledger  *)
(* or its append is still under way.  Excepted is an entry inserted while  *)
(* a compaction ran, one whose append failed or met a torn line, and one   *)
(* that was lost by a compaction cut short or sharing its temporary file;  *)
(* and a file with a line that defeats the load.                           *)
SurvivesRestart ==
    up /\ ~unreadable =>
      InMemory \subseteq load_entries \cup appending \cup writing \cup exposed

(* A response is acted on once: a prompt that was taken with no append or  *)
(* compaction under way, and whose compaction then replaced the ledger,    *)
(* comes back neither in memory nor on disk, in this process or a later    *)
(* one, where its decision would be taken again.                           *)
TakenForGood ==
    \A r \in forgotten :
        /\ r \notin pending \cup responses
        /\ {Request(r), Response(r)} \cap (ledger \cup appending \cup writing) = {}
=============================================================================
