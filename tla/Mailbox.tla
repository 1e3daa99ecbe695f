------------------------------ MODULE Mailbox -------------------------------
(***************************************************************************)
(* The cross-process mailbox of crates/apohara-dispatch/src/mailbox.rs.    *)
(*                                                                         *)
(* Each recipient has a queue file and an advisory lock.  Every operation  *)
(* blocks on the lock, loads the queue, replaces or removes the file, and  *)
(* returns, dropping the lock.  A process may die at any step: the kernel  *)
(* drops its lock, and whatever the call was to return is lost.            *)
(***************************************************************************)
EXTENDS Pending, FiniteSets

CONSTANTS Blades,      \* recipients
          Procs,       \* processes
          MaxMessages, \* bound on the messages ever sent
          NoOne        \* the holder of a free lock, the recipient of no call

ASSUME MailboxAssumption == NoOne \notin Blades \cup Procs /\ MaxMessages \in Nat

VARIABLES
    queue,   \* queue[r]: r's queue on disk (empty: there is no file)
    flock,   \* flock[r]: the process that holds r's lock
    call,    \* call[p]: the operation p is in
    minted,  \* message ids minted so far
    known,   \* known[p]: the ids p has learnt from a peek
    sender,  \* history: who sent each message (NoOne: not sent yet)
    fate,    \* history: what became of each message (as in Inbox)
    got,     \* history: got[p]: what p was given by check_inbox, in order
    peeked   \* history: messages some peek has returned

vars == <<queue, flock, call, minted, known, sender, fate, got, peeked>>

Messages == 1 .. MaxMessages

Idle == [op |-> "none", at |-> "idle", to |-> NoOne, ids |-> {}, snap |-> <<>>]

Init ==
    /\ queue = [r \in Blades |-> <<>>]
    /\ flock = [r \in Blades |-> NoOne]
    /\ call = [p \in Procs |-> Idle]
    /\ minted = 0
    /\ known = [p \in Procs |-> {}]
    /\ sender = [m \in Messages |-> NoOne]
    /\ fate = [m \in Messages |-> "unsent"]
    /\ got = [p \in Procs |-> <<>>]
    /\ peeked = {}

Goes(p, c) == call' = [call EXCEPT ![p] = c]

Calls(p, op, r, ids) ==
    /\ call[p].at = "idle"
    /\ Goes(p, [Idle EXCEPT !.op = op, !.at = "waiting", !.to = r, !.ids = ids])
    /\ UNCHANGED <<queue, flock, known, fate, got, peeked>>

(* Faulty form: the id is used before it is minted. *)
Send_unminted(p, r) ==
    /\ minted < MaxMessages
    /\ Calls(p, "send", r, {minted + 1})
    /\ UNCHANGED <<minted, sender>>

(* send mints the id before it blocks on the recipient's lock. *)
Send(p, r) ==
    /\ minted < MaxMessages
    /\ Calls(p, "send", r, {minted + 1})
    /\ minted' = minted + 1
    /\ sender' = [sender EXCEPT ![minted + 1] = p]

CheckInbox(p, r) == Calls(p, "check_inbox", r, {}) /\ UNCHANGED <<minted, sender>>
PeekInbox(p, r) == Calls(p, "peek_inbox", r, {}) /\ UNCHANGED <<minted, sender>>

(* Ids are only known from a peek; some may be gone by now. *)
Ack(p, r) ==
    /\ \E ids \in SUBSET known[p] \ {{}} : Calls(p, "ack", r, ids)
    /\ UNCHANGED <<minted, sender>>

(* Faulty form: a poll does not wait for the lock. *)
Lock_shared(p) ==
    /\ call[p].at = "waiting"
    /\ flock' = [flock EXCEPT ![call[p].to] = p]
    /\ Goes(p, [call[p] EXCEPT !.at = "loaded", !.snap = queue[call[p].to]])
    /\ UNCHANGED <<queue, minted, known, sender, fate, got, peeked>>

(* lock_exclusive and load. *)
Lock(p) ==
    /\ call[p].at = "waiting"
    /\ flock[call[p].to] = NoOne
    /\ flock' = [flock EXCEPT ![call[p].to] = p]
    /\ Goes(p, [call[p] EXCEPT !.at = "loaded", !.snap = queue[call[p].to]])
    /\ UNCHANGED <<queue, minted, known, sender, fate, got, peeked>>

-----------------------------------------------------------------------------
(* The write of each operation, from the queue it loaded.                  *)
Writes(p, op) == call[p].at = "loaded" /\ call[p].op = op

Persist(p, q) == queue' = [queue EXCEPT ![call[p].to] = q]

Settle(ms, how) == fate' = [m \in Messages |-> IF m \in ms THEN how ELSE fate[m]]

Done(p) ==
    /\ Goes(p, [call[p] EXCEPT !.at = "done"])
    /\ UNCHANGED <<flock, minted, known, sender, got, peeked>>

(* Faulty form: a new message goes to the head. *)
SendWrites_head(p) ==
    /\ Writes(p, "send")
    /\ Persist(p, <<CHOOSE m \in call[p].ids : TRUE>> \o call[p].snap)
    /\ Settle(call[p].ids, "pending")
    /\ Done(p)

SendWrites(p) ==
    /\ Writes(p, "send")
    /\ Persist(p, Append(call[p].snap, CHOOSE m \in call[p].ids : TRUE))
    /\ Settle(call[p].ids, "pending")
    /\ Done(p)

(* Faulty form: the queue is left for the acknowledgement to clear. *)
CheckInboxWrites_keeps(p) ==
    /\ Writes(p, "check_inbox")
    /\ UNCHANGED queue
    /\ Settle(Elems(call[p].snap), "drained")
    /\ Done(p)

CheckInboxWrites(p) ==
    /\ Writes(p, "check_inbox")
    /\ Persist(p, <<>>)
    /\ Settle(Elems(call[p].snap), "drained")
    /\ Done(p)

(* Faulty form: an acknowledgement clears the queue. *)
AckWrites_all(p) ==
    /\ Writes(p, "ack")
    /\ Persist(p, <<>>)
    /\ Settle(Elems(call[p].snap), "acked")
    /\ Done(p)

AckWrites(p) ==
    /\ Writes(p, "ack")
    /\ Persist(p, Without(call[p].snap, call[p].ids))
    /\ Settle(Elems(call[p].snap) \cap call[p].ids, "acked")
    /\ Done(p)

(* The lock is dropped and the call returns what it loaded.  What the mesh *)
(* tool check_inbox returns has no ids any more; a peek does.              *)
Return(p) ==
    /\ \/ call[p].at = "done"
       \/ Writes(p, "peek_inbox")
    /\ flock' = [flock EXCEPT ![call[p].to] = NoOne]
    /\ Goes(p, Idle)
    /\ IF call[p].op = "check_inbox"
       THEN got' = [got EXCEPT ![p] = @ \o call[p].snap] ELSE UNCHANGED got
    /\ IF call[p].op = "peek_inbox"
       THEN /\ known' = [known EXCEPT ![p] = @ \cup Elems(call[p].snap)]
            /\ peeked' = peeked \cup Elems(call[p].snap)
       ELSE UNCHANGED <<known, peeked>>
    /\ UNCHANGED <<queue, minted, sender, fate>>

Die(p) ==
    /\ Goes(p, Idle)
    /\ flock' = [r \in Blades |-> IF flock[r] = p THEN NoOne ELSE flock[r]]
    /\ known' = [known EXCEPT ![p] = {}]
    /\ UNCHANGED <<queue, minted, sender, fate, got, peeked>>

Next ==
    \E p \in Procs :
        \/ \E r \in Blades : Send(p, r) \/ CheckInbox(p, r) \/ PeekInbox(p, r) \/ Ack(p, r)
        \/ Lock(p) \/ SendWrites(p) \/ CheckInboxWrites(p) \/ AckWrites(p) \/ Return(p)
        \/ Die(p)

Spec == Init /\ [][Next]_vars

-----------------------------------------------------------------------------
(* Properties. *)

TypeOK ==
    /\ queue \in [Blades -> Seq(Messages)]
    /\ flock \in [Blades -> Procs \cup {NoOne}]
    /\ \A p \in Procs :
        /\ call[p].op \in {"none", "send", "check_inbox", "peek_inbox", "ack"}
        /\ call[p].at \in {"idle", "waiting", "loaded", "done"}
        /\ call[p].to \in Blades \cup {NoOne}
        /\ call[p].ids \subseteq 1 .. minted
        /\ call[p].snap \in Seq(Messages)
    /\ minted \in 0 .. MaxMessages
    /\ known \in [Procs -> SUBSET (1 .. minted)]
    /\ sender \in [Messages -> Procs \cup {NoOne}]
    /\ fate \in [Messages -> {"unsent", "pending", "drained", "acked"}]
    /\ got \in [Procs -> Seq(Messages)]
    /\ peeked \subseteq Messages

(* check_inbox delivers at most once: under any number of concurrent polls *)
(* no message is handed out twice, and none that was is still on disk.     *)
Handed(p) == got[p] \o (IF call[p].op = "check_inbox" /\ call[p].at = "done" THEN call[p].snap ELSE <<>>)

DeliveredOnce ==
    \A p \in Procs :
        /\ Cardinality(Elems(Handed(p))) = Len(Handed(p))
        /\ \A q \in Procs \ {p} : Elems(Handed(p)) \cap Elems(Handed(q)) = {}
        /\ \A r \in Blades : Elems(Handed(p)) \cap Elems(queue[r]) = {}

(* What one sender sends to one recipient stays in the order it was sent   *)
(* in, whatever other senders, polls and acknowledgements come in between. *)
SenderOrder ==
    \A r \in Blades : \A i, j \in DOMAIN queue[r] :
        i < j /\ sender[queue[r][i]] = sender[queue[r][j]] => queue[r][i] < queue[r][j]

(* An acknowledgement never takes a message nobody was shown, however many *)
(* arrived after the peek: ack-before-clear loses nothing.                 *)
AckedWasSeen == \A m \in Messages : fate[m] = "acked" => m \in peeked

(* Refinement: the mailbox is a queue per recipient. *)
Queues == INSTANCE Inbox
ImplementsInbox == Queues!Spec
=============================================================================
