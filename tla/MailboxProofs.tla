--------------------------- MODULE MailboxProofs ---------------------------
(***************************************************************************)
(* The mailbox for any number of recipients, processes and messages: types,*)
(* delivery at most once, order per sender, the refinement of Inbox, and   *)
(* that an acknowledgement takes only what a peek has returned.            *)
(*                                                                         *)
(* What Without leaves of a queue is defined by recursion; it is shown by  *)
(* induction over the queue to be its other messages, in their order.  The *)
(* inductive invariant then says where each message is: in one place of one*)
(* queue, or in one place of what one process was handed (QueueInv).       *)
(***************************************************************************)
EXTENDS Mailbox, TLAPS, SequenceTheorems, FiniteSetTheorems, WellFoundedInduction

-----------------------------------------------------------------------------
(* What an acknowledgement leaves of a queue.                              *)

(* Induction over an interval, by the least number left out.               *)
LEMMA UpTo ==
    ASSUME NEW n \in Nat, NEW S, 0 \in S, \A i \in 0 .. n : i > 0 /\ i - 1 \in S => i \in S
    PROVE  0 .. n \subseteq S
<1> DEFINE less == {ss \in Nat \X Nat : ss[1] < ss[2]}
           Out  == {i \in 0 .. n : i \notin S}
<1>1. IsWellFoundedOn(less, Nat)
  BY NatLessThanWellFounded, Zenon DEF OpToRel
<1>2. SUFFICES ASSUME Out # {} PROVE FALSE
  OBVIOUS
<1>3. Out \subseteq Nat
  OBVIOUS
<1>4. ASSUME NEW i \in Out PROVE i \in Nat /\ i - 1 \in Out /\ <<i - 1, i>> \in less
  BY <1>4
<1>5. PICK i \in Out : \A j \in Out : <<j, i>> \notin less
  <2> HIDE DEF less, Out
  <2> QED BY <1>1, <1>2, <1>3, WFMin
<1> QED BY <1>4, <1>5

(* f is what a pass over the first n messages has kept after each.         *)
Rest(s, ids, n, f) ==
    f = [i \in 0 .. n |->
            IF i = 0 THEN <<>>
            ELSE IF s[i] \in ids THEN f[i - 1] ELSE Append(f[i - 1], s[i])]

LEMMA RestExists ==
    ASSUME NEW s, NEW ids, NEW n \in Nat
    PROVE  \E f : Rest(s, ids, n, f)
<1> DEFINE S == {k \in Nat : \E f : Rest(s, ids, k, f)}
<1>1. 0 \in S
  <2> DEFINE f == [i \in 0 .. 0 |-> <<>>]
  <2>1. Rest(s, ids, 0, f) BY DEF Rest
  <2> QED BY <2>1
<1>2. ASSUME NEW k \in 0 .. n, k > 0, k - 1 \in S PROVE k \in S
  <2>1. PICK f : Rest(s, ids, k - 1, f)
    BY <1>2
  <2> DEFINE g == [i \in 0 .. k |-> IF i < k THEN f[i] ELSE
                      IF s[k] \in ids THEN f[k - 1] ELSE Append(f[k - 1], s[k])]
             h == [i \in 0 .. k |->
            IF i = 0 THEN <<>>
            ELSE IF s[i] \in ids THEN g[i - 1] ELSE Append(g[i - 1], s[i])]
  <2>2. \A i \in 0 .. k - 1 : f[i] = IF i = 0 THEN <<>>
            ELSE IF s[i] \in ids THEN f[i - 1] ELSE Append(f[i - 1], s[i])
    BY <2>1 DEF Rest
  <2>3. \A i \in 0 .. k - 1 : g[i] = f[i]
    BY <1>2
  <2>4. ASSUME NEW i \in 0 .. k PROVE g[i] = h[i]
    <3>1. CASE i < k
      <4>1. g[i] = f[i] /\ (i > 0 => g[i - 1] = f[i - 1])
        BY <3>1, <2>3
      <4> QED BY <4>1, <3>1, <2>2
    <3>2. CASE i = k
      <4>1. g[k - 1] = f[k - 1] BY <1>2, <2>3
      <4> QED BY <3>2, <4>1, <1>2
    <3> QED BY <3>1, <3>2
  <2>5. g = h BY <2>4
  <2>6. Rest(s, ids, k, g) BY <2>5 DEF Rest
  <2> QED BY <2>6
<1>3. 0 .. n \subseteq S
  <2> HIDE DEF S
  <2> QED BY <1>1, <1>2, UpTo
<1> QED BY <1>3

(* What an acknowledgement leaves is what one pass over the queue builds.  *)
LEMMA Passes ==
    ASSUME NEW s, Len(s) \in Nat, NEW ids
    PROVE  \E f : Rest(s, ids, Len(s), f) /\ Without(s, ids) = f[Len(s)]
<1> DEFINE f == CHOOSE f : Rest(s, ids, Len(s), f)
<1>1. Rest(s, ids, Len(s), f)
  BY RestExists
<1>2. Without(s, ids) = f[Len(s)]
  BY DEF Without, Rest
<1> QED BY <1>1, <1>2

(* What is kept of the first n messages of s: all but ids, in order.       *)
Kept(s, ids, n, K) ==
    /\ \E e \in [1 .. Len(K) -> 1 .. n] :
        /\ \A i, j \in 1 .. Len(K) : i < j => e[i] < e[j]
        /\ \A i \in 1 .. Len(K) : K[i] = s[e[i]] /\ s[e[i]] \notin ids
    /\ \A k \in 1 .. n : s[k] \notin ids => \E i \in 1 .. Len(K) : K[i] = s[k]

LEMMA KeptSame ==
    ASSUME NEW S, NEW s \in Seq(S), NEW ids, NEW n \in 1 .. Len(s), NEW K \in Seq(S),
           Kept(s, ids, n - 1, K), s[n] \in ids
    PROVE  Kept(s, ids, n, K)
<1>1. Len(K) \in Nat
  OBVIOUS
<1>2. PICK e \in [1 .. Len(K) -> 1 .. n - 1] :
        /\ \A i, j \in 1 .. Len(K) : i < j => e[i] < e[j]
        /\ \A i \in 1 .. Len(K) : K[i] = s[e[i]] /\ s[e[i]] \notin ids
  BY DEF Kept
<1>3. e \in [1 .. Len(K) -> 1 .. n]
  BY <1>1, <1>2
<1>4. \A k \in 1 .. n : s[k] \notin ids => \E i \in 1 .. Len(K) : K[i] = s[k]
  BY DEF Kept
<1> QED BY <1>2, <1>3, <1>4 DEF Kept

LEMMA KeptMore ==
    ASSUME NEW S, NEW s \in Seq(S), NEW ids, NEW n \in 1 .. Len(s), NEW K \in Seq(S),
           Kept(s, ids, n - 1, K), s[n] \notin ids
    PROVE  Append(K, s[n]) \in Seq(S) /\ Kept(s, ids, n, Append(K, s[n]))
<1> DEFINE L == Append(K, s[n])
           l == Len(K)
<1>1. /\ L \in Seq(S) /\ Len(L) = l + 1 /\ L[l + 1] = s[n]
      /\ \A i \in 1 .. l : L[i] = K[i]
      /\ l \in Nat
  BY AppendProperties
<1>2. PICK e \in [1 .. l -> 1 .. n - 1] :
        /\ \A i, j \in 1 .. l : i < j => e[i] < e[j]
        /\ \A i \in 1 .. l : K[i] = s[e[i]] /\ s[e[i]] \notin ids
  BY DEF Kept
<1>3. \A k \in 1 .. n - 1 : s[k] \notin ids => \E i \in 1 .. l : K[i] = s[k]
  BY DEF Kept
<1> HIDE DEF L, l
<1> DEFINE g == [i \in 1 .. l + 1 |-> IF i <= l THEN e[i] ELSE n]
<1>4. g \in [1 .. l + 1 -> 1 .. n]
  BY <1>1, <1>2
<1>5. \A i, j \in 1 .. l + 1 : i < j => g[i] < g[j]
  BY <1>1, <1>2
<1>6. \A i \in 1 .. l + 1 : L[i] = s[g[i]] /\ s[g[i]] \notin ids
  BY <1>1, <1>2
<1>7. \A k \in 1 .. n : s[k] \notin ids => \E i \in 1 .. l + 1 : L[i] = s[k]
  <2> SUFFICES ASSUME NEW k \in 1 .. n, s[k] \notin ids
               PROVE  \E i \in 1 .. l + 1 : L[i] = s[k]
    OBVIOUS
  <2>1. CASE k = n BY <2>1, <1>1
  <2>2. CASE k # n
    <3>1. PICK i \in 1 .. l : K[i] = s[k] BY <2>2, <1>3
    <3> QED BY <3>1, <1>1
  <2> QED BY <2>1, <2>2
<1> HIDE DEF g
<1>8. Kept(s, ids, n, L)
  BY <1>1, <1>4, <1>5, <1>6, <1>7 DEF Kept
<1> QED BY <1>1, <1>8 DEF L

(* An acknowledgement keeps exactly the rest, in order: the queue it       *)
(* leaves is a subsequence.                                                *)
LEMMA WithoutKeeps ==
    ASSUME NEW S, NEW s \in Seq(S), NEW ids
    PROVE  Without(s, ids) \in Seq(S) /\ Kept(s, ids, Len(s), Without(s, ids))
<1>1. PICK f : Rest(s, ids, Len(s), f) /\ Without(s, ids) = f[Len(s)]
  BY Passes
<1>2. \A i \in 0 .. Len(s) : f[i] =
        IF i = 0 THEN <<>>
        ELSE IF s[i] \in ids THEN f[i - 1] ELSE Append(f[i - 1], s[i])
  BY <1>1 DEF Rest
<1> DEFINE P == {i \in 0 .. Len(s) : f[i] \in Seq(S) /\ Kept(s, ids, i, f[i])}
<1>3. 0 \in P
  <2>1. f[0] = <<>> BY <1>2
  <2>2. Kept(s, ids, 0, <<>>)
    <3> DEFINE e == [i \in 1 .. 0 |-> 0]
    <3>1. Len(<<>>) = 0 /\ 1 .. 0 = {}
      OBVIOUS
    <3>2. e \in [1 .. 0 -> 1 .. 0]
      BY <3>1
    <3> QED BY <3>1, <3>2 DEF Kept
  <2>3. f[0] \in Seq(S)
    BY <2>1
  <2>4. 0 \in 0 .. Len(s)
    OBVIOUS
  <2> QED BY <2>1, <2>2, <2>3, <2>4
<1>4. ASSUME NEW i \in 0 .. Len(s), i > 0, i - 1 \in P PROVE i \in P
  <2>1. i \in 1 .. Len(s) /\ f[i - 1] \in Seq(S) /\ Kept(s, ids, i - 1, f[i - 1])
    BY <1>4
  <2>2. f[i] = IF s[i] \in ids THEN f[i - 1] ELSE Append(f[i - 1], s[i])
    BY <1>2, <2>1
  <2>3. f[i] \in Seq(S) /\ Kept(s, ids, i, f[i])
    BY <2>1, <2>2, KeptSame, KeptMore
  <2> QED BY <2>3
<1>5. 0 .. Len(s) \subseteq P
  <2>1. Len(s) \in Nat
    OBVIOUS
  <2> HIDE DEF P
  <2> QED BY <2>1, <1>3, <1>4, UpTo
<1>6. Len(s) \in P
  BY <1>5
<1> QED BY <1>1, <1>6

LEMMA WithoutElems ==
    ASSUME NEW S, NEW s \in Seq(S), NEW ids
    PROVE  Elems(Without(s, ids)) = Elems(s) \ ids
<1> DEFINE K == Without(s, ids)
<1>1. K \in Seq(S) /\ Kept(s, ids, Len(s), K)
  BY WithoutKeeps
<1> HIDE DEF K
<1>2. DOMAIN K = 1 .. Len(K) /\ DOMAIN s = 1 .. Len(s)
  BY <1>1
<1>3. ASSUME NEW m \in Elems(K) PROVE m \in Elems(s) \ ids
  BY <1>1, <1>2 DEF Kept, Elems
<1>4. ASSUME NEW m \in Elems(s) \ ids PROVE m \in Elems(K)
  BY <1>1, <1>2 DEF Kept, Elems
<1> QED BY <1>3, <1>4 DEF K

(* A sequence without repetition has as many elements as places.           *)
LEMMA DistinctElems ==
    ASSUME NEW S, NEW s \in Seq(S),
           \A i, j \in DOMAIN s : s[i] = s[j] => i = j
    PROVE  IsFiniteSet(Elems(s)) /\ Cardinality(Elems(s)) = Len(s)
<1>1. s \in Bijection(1 .. Len(s), Elems(s))
  BY DEF Bijection, Injection, Surjection, IsInjective, Elems
<1>2. IsFiniteSet(1 .. Len(s)) /\ Cardinality(1 .. Len(s)) = Len(s)
  <2>1. Len(s) \in Nat
    OBVIOUS
  <2> QED BY <2>1, FS_Interval
<1> QED BY <1>1, <1>2, FS_Bijection DEF ExistsBijection

-----------------------------------------------------------------------------
(* The inductive invariant.                                                *)

(* An operation in progress, and what the locks and the snapshots say.     *)
Operations ==
    [op : {"none", "send", "check_inbox", "peek_inbox", "ack"},
     at : {"idle", "waiting", "loaded", "done"},
     to : Blades \cup {NoOne}, ids : SUBSET Messages, snap : Seq(Messages)]

(* Past the lock the lock is held, and until the write the snapshot is what*)
(* is on disk.  A peek writes nothing.                                     *)
Locking ==
    \A p \in Procs :
        /\ call[p].at # "idle" => call[p].to \in Blades
        /\ call[p].at \in {"loaded", "done"} => flock[call[p].to] = p
        /\ call[p].at = "loaded" => call[p].snap = queue[call[p].to]
        /\ call[p].op = "peek_inbox" => call[p].at # "done"

(* What is sent is the sender's newest message, and still nowhere.         *)
Sending ==
    \A p \in Procs : call[p].op = "send" /\ call[p].at \in {"waiting", "loaded"} =>
        \E m \in Messages :
            /\ call[p].ids = {m} /\ fate[m] = "unsent" /\ sender[m] = p
            /\ \A k \in Messages : sender[k] = p => k <= m

(* A message is in one place of one queue, or in one place of what was     *)
(* handed to one process, as its fate says; or in none.                    *)
Placed ==
    /\ \A m \in Messages : m > minted => fate[m] = "unsent" /\ sender[m] = NoOne
    /\ \A r \in Blades : \A i \in DOMAIN queue[r] : fate[queue[r][i]] = "pending"
    /\ \A r, s \in Blades : \A i \in DOMAIN queue[r], j \in DOMAIN queue[s] :
         queue[r][i] = queue[s][j] => r = s /\ i = j
    /\ \A p \in Procs : \A i \in DOMAIN Handed(p) : fate[Handed(p)[i]] = "drained"
    /\ \A p, q \in Procs : \A i \in DOMAIN Handed(p), j \in DOMAIN Handed(q) :
         Handed(p)[i] = Handed(q)[j] => p = q /\ i = j

QueueInv ==
    /\ TypeOK /\ call \in [Procs -> Operations]
    /\ Locking /\ Sending /\ Placed /\ SenderOrder

-----------------------------------------------------------------------------
(* What leaves the queues alone: a call begins, waits, locks.              *)

LEMMA IdleIs ==
    /\ Idle \in Operations
    /\ Idle.op = "none" /\ Idle.at = "idle" /\ Idle.ids = {} /\ Idle.snap = <<>>
BY DEF Idle, Operations

LEMMA Went ==
    ASSUME call \in [Procs -> Operations], NEW p \in Procs, NEW c \in Operations, Goes(p, c)
    PROVE  /\ call' \in [Procs -> Operations] /\ call'[p] = c
           /\ \A q \in Procs \ {p} : call'[q] = call[q]
BY DEF Goes

LEMMA HandedIs ==
    ASSUME TypeOK, call \in [Procs -> Operations], NEW p \in Procs
    PROVE  Handed(p) \in Seq(Messages)
<1>1. got[p] \in Seq(Messages) /\ call[p].snap \in Seq(Messages)
  BY DEF TypeOK
<1>2. <<>> \in Seq(Messages)
  OBVIOUS
<1> QED BY <1>1, <1>2, ConcatProperties DEF Handed

(* The queues keep their order and their messages while nothing is written,*)
(* whatever is minted and whoever dies with what it was handed.            *)
LEMMA PlacedStays ==
    ASSUME QueueInv, UNCHANGED <<queue, fate>>, minted' \in Nat, minted <= minted',
           \A m \in 1 .. minted : sender'[m] = sender[m],
           \A m \in Messages : m > minted' => sender'[m] = NoOne,
           \A p \in Procs : /\ DOMAIN Handed(p)' \subseteq DOMAIN Handed(p)
                            /\ \A i \in DOMAIN Handed(p)' : Handed(p)'[i] = Handed(p)[i]
    PROVE  Placed' /\ SenderOrder'
<1>1. /\ queue' = queue /\ fate' = fate /\ minted \in Nat
      /\ \A r \in Blades : queue[r] \in Seq(Messages)
  BY DEF QueueInv, TypeOK
<1>2. \A m \in Messages : m > minted' => fate'[m] = "unsent" /\ sender'[m] = NoOne
  BY <1>1 DEF QueueInv, Placed, Messages
<1>3. /\ \A r \in Blades : \A i \in DOMAIN queue'[r] : fate'[queue'[r][i]] = "pending"
      /\ \A r, s \in Blades : \A i \in DOMAIN queue'[r], j \in DOMAIN queue'[s] :
           queue'[r][i] = queue'[s][j] => r = s /\ i = j
  BY <1>1 DEF QueueInv, Placed
<1>4. \A p \in Procs : \A i \in DOMAIN Handed(p)' : fate'[Handed(p)'[i]] = "drained"
  BY <1>1 DEF QueueInv, Placed
<1>5. \A p, q \in Procs : \A i \in DOMAIN Handed(p)', j \in DOMAIN Handed(q)' :
         Handed(p)'[i] = Handed(q)'[j] => p = q /\ i = j
  BY DEF QueueInv, Placed
<1>6. \A r \in Blades : \A i \in DOMAIN queue[r] : queue[r][i] \in 1 .. minted
  <2> SUFFICES ASSUME NEW r \in Blades, NEW i \in DOMAIN queue[r]
               PROVE  queue[r][i] \in 1 .. minted
    OBVIOUS
  <2>1. queue[r][i] \in Messages /\ fate[queue[r][i]] = "pending"
    BY <1>1, ElementOfSeq DEF QueueInv, Placed
  <2> QED BY <2>1, <1>1 DEF QueueInv, Placed, Messages
<1>7. SenderOrder'
  BY <1>1, <1>6 DEF QueueInv, SenderOrder
<1>8. Placed'
  BY <1>2, <1>3, <1>4, <1>5 DEF Placed
<1> QED BY <1>7, <1>8

(* A call begins.                                                          *)
LEMMA BeginsKeeps ==
    ASSUME QueueInv, NEW p \in Procs, NEW r \in Blades, NEW ids, ids \subseteq 1 .. minted',
           NEW op \in {"send", "check_inbox", "peek_inbox", "ack"}, Calls(p, op, r, ids),
           minted' \in minted .. MaxMessages,
           sender' \in [Messages -> Procs \cup {NoOne}],
           \A m \in 1 .. minted : sender'[m] = sender[m],
           \A m \in Messages : sender'[m] \in {sender[m], p},
           \A m \in Messages : m > minted' => sender'[m] = NoOne,
           op = "send" => \E m \in Messages :
               /\ ids = {m} /\ fate[m] = "unsent" /\ sender'[m] = p
               /\ \A k \in Messages : sender'[k] = p => k <= m
    PROVE  QueueInv'
<1> DEFINE c == [Idle EXCEPT !.op = op, !.at = "waiting", !.to = r, !.ids = ids]
<1>1. minted \in Nat /\ minted' \in Nat /\ minted <= minted' /\ minted' <= MaxMessages
  <2>1. minted \in 0 .. MaxMessages
    BY DEF QueueInv, TypeOK
  <2> QED BY <2>1, MailboxAssumption
<1>12. 1 .. minted \subseteq 1 .. minted' /\ 1 .. minted' \subseteq Messages
  BY <1>1, MailboxAssumption DEF Messages
<1>2. c \in Operations
  BY <1>12, IdleIs DEF Operations
<1>3. c.op = op /\ c.at = "waiting" /\ c.to = r /\ c.ids = ids /\ c.snap = <<>>
  BY DEF Idle
<1>4. /\ Goes(p, c) /\ call[p].at = "idle"
      /\ UNCHANGED <<queue, flock, known, fate, got, peeked>>
  BY DEF Calls
<1> HIDE DEF c
<1>5. /\ call' \in [Procs -> Operations] /\ call'[p] = c
      /\ \A q \in Procs \ {p} : call'[q] = call[q]
  BY <1>2, <1>4, Went DEF QueueInv
<1>6. \A q \in Procs : Handed(q)' = Handed(q)
  BY <1>3, <1>4, <1>5 DEF Handed
<1>7. Placed' /\ SenderOrder'
  BY <1>1, <1>4, <1>6, PlacedStays
<1>8. \A q \in Procs :
        /\ call'[q].op \in {"none", "send", "check_inbox", "peek_inbox", "ack"}
        /\ call'[q].at \in {"idle", "waiting", "loaded", "done"}
        /\ call'[q].to \in Blades \cup {NoOne}
        /\ call'[q].ids \subseteq 1 .. minted'
        /\ call'[q].snap \in Seq(Messages)
  <2>1. \A q \in Procs : call'[q].ids \subseteq 1 .. minted'
    <3>1. \A q \in Procs : call[q].ids \subseteq 1 .. minted
      BY DEF QueueInv, TypeOK
    <3> QED BY <3>1, <1>12, <1>3, <1>5
  <2> QED BY <2>1, <1>5 DEF Operations
<1>9. TypeOK'
  BY <1>1, <1>4, <1>8 DEF QueueInv, TypeOK
<1>10. Locking'
  BY <1>3, <1>4, <1>5 DEF QueueInv, Locking
<1>11. Sending'
  <2> SUFFICES ASSUME NEW q \in Procs, call'[q].op = "send", call'[q].at \in {"waiting", "loaded"}
               PROVE  \E m \in Messages :
                        /\ call'[q].ids = {m} /\ fate'[m] = "unsent" /\ sender'[m] = q
                        /\ \A k \in Messages : sender'[k] = q => k <= m
    BY DEF Sending
  <2>1. CASE q = p
    BY <2>1, <1>3, <1>4, <1>5
  <2>2. CASE q # p
    <3>1. call'[q] = call[q]
      BY <2>2, <1>5
    <3>2. PICK m \in Messages :
            /\ call[q].ids = {m} /\ fate[m] = "unsent" /\ sender[m] = q
            /\ \A k \in Messages : sender[k] = q => k <= m
      BY <3>1 DEF QueueInv, Sending
    <3>3. m \in 1 .. minted
      BY <3>2 DEF QueueInv, TypeOK
    <3> QED BY <3>1, <3>2, <3>3, <2>2, <1>4
  <2> QED BY <2>1, <2>2
<1> QED BY <1>5, <1>7, <1>9, <1>10, <1>11 DEF QueueInv

LEMMA SendKeeps ==
    ASSUME QueueInv, NEW p \in Procs, NEW r \in Blades, Send(p, r)
    PROVE  QueueInv'
<1> DEFINE n == minted + 1
<1>1. /\ minted \in Nat /\ MaxMessages \in Nat /\ n \in Messages /\ minted' = n
      /\ n \in Nat /\ n > minted /\ n <= MaxMessages
  BY MailboxAssumption DEF Send, QueueInv, TypeOK, Messages
<1>2. sender' = [sender EXCEPT ![n] = p] /\ Calls(p, "send", r, {n})
  BY DEF Send
<1> HIDE DEF n
<1>3. /\ sender' \in [Messages -> Procs \cup {NoOne}] /\ sender'[n] = p
      /\ \A m \in Messages \ {n} : sender'[m] = sender[m]
  BY <1>1, <1>2 DEF QueueInv, TypeOK
<1>4. fate[n] = "unsent"
  BY <1>1 DEF QueueInv, Placed
<1>5. \A k \in Messages : sender'[k] = p => k <= n
  <2>1. \A k \in Messages : k > n => sender'[k] = NoOne
    BY <1>1, <1>3 DEF QueueInv, Placed, Messages
  <2> QED BY <1>1, <2>1, MailboxAssumption DEF Messages
<1>6. \A k \in Messages : k > n => sender'[k] = NoOne
  BY <1>1, <1>3 DEF QueueInv, Placed, Messages
<1> QED BY <1>6, <1>1, <1>2, <1>3, <1>4, <1>5, BeginsKeeps DEF Messages

LEMMA LockKeeps ==
    ASSUME QueueInv, NEW p \in Procs, Lock(p)
    PROVE  QueueInv'
<1> DEFINE r == call[p].to
           c == [call[p] EXCEPT !.at = "loaded", !.snap = queue[r]]
<1>1. /\ call[p] \in Operations /\ call[p].at = "waiting" /\ r \in Blades
      /\ flock[r] = NoOne /\ flock' = [flock EXCEPT ![r] = p] /\ Goes(p, c)
      /\ UNCHANGED <<queue, minted, known, sender, fate, got, peeked>>
  BY DEF Lock, QueueInv, Locking
<1>2. queue[r] \in Seq(Messages)
  BY <1>1 DEF QueueInv, TypeOK
<1>3. /\ c \in Operations /\ c.op = call[p].op /\ c.at = "loaded" /\ c.to = r
      /\ c.ids = call[p].ids /\ c.snap = queue[r]
  BY <1>1, <1>2 DEF Operations
<1> HIDE DEF c
<1>4. /\ call' \in [Procs -> Operations] /\ call'[p] = c
      /\ \A q \in Procs \ {p} : call'[q] = call[q]
  BY <1>1, <1>3, Went DEF QueueInv
<1>5. \A q \in Procs : Handed(q)' = Handed(q)
  BY <1>1, <1>3, <1>4 DEF Handed
<1>6. Placed' /\ SenderOrder'
  <2>1. minted \in Nat
    BY DEF QueueInv, TypeOK
  <2>2. \A m \in Messages : m > minted' => sender'[m] = NoOne
    BY <1>1 DEF QueueInv, Placed
  <2> QED BY <2>1, <2>2, <1>1, <1>5, PlacedStays
<1>7. TypeOK'
  <2>1. flock' \in [Blades -> Procs \cup {NoOne}]
    BY <1>1 DEF QueueInv, TypeOK
  <2>2. \A q \in Procs :
          /\ call'[q].op \in {"none", "send", "check_inbox", "peek_inbox", "ack"}
          /\ call'[q].at \in {"idle", "waiting", "loaded", "done"}
          /\ call'[q].to \in Blades \cup {NoOne}
          /\ call'[q].snap \in Seq(Messages)
    BY <1>4 DEF Operations
  <2>3. \A q \in Procs : call'[q].ids \subseteq 1 .. minted'
    BY <1>1, <1>3, <1>4 DEF QueueInv, TypeOK
  <2> QED BY <1>1, <2>1, <2>2, <2>3 DEF QueueInv, TypeOK
<1>8. Locking'
  <2>1. \A q \in Procs \ {p} : call[q].at \in {"loaded", "done"} => call[q].to # r
    BY <1>1, MailboxAssumption DEF QueueInv, Locking
  <2>2. /\ flock'[r] = p /\ \A s \in Blades \ {r} : flock'[s] = flock[s]
    BY <1>1 DEF QueueInv, TypeOK
  <2> QED BY <1>1, <1>3, <1>4, <2>1, <2>2 DEF QueueInv, Locking
<1>9. Sending'
  BY <1>1, <1>3, <1>4 DEF QueueInv, Sending
<1> QED BY <1>4, <1>6, <1>7, <1>8, <1>9 DEF QueueInv

-----------------------------------------------------------------------------
(* What the writer of an operation knows: its snapshot is the queue.       *)
LEMMA Loaded ==
    ASSUME QueueInv, NEW p \in Procs, NEW op, Writes(p, op)
    PROVE  /\ call[p] \in Operations /\ call[p].op = op /\ call[p].at = "loaded"
           /\ call[p].to \in Blades /\ flock[call[p].to] = p
           /\ call[p].snap = queue[call[p].to] /\ call[p].snap \in Seq(Messages)
           /\ DOMAIN queue = Blades /\ \A r \in Blades : queue[r] \in Seq(Messages)
BY DEF Writes, QueueInv, Locking, TypeOK

(* A write leaves the locks and the other calls as they are.               *)
LEMMA WriteKeeps ==
    ASSUME QueueInv, NEW p \in Procs, NEW op, Writes(p, op), op # "peek_inbox", Done(p),
           NEW K \in Seq(Messages), Persist(p, K),
           fate' \in [Messages -> {"unsent", "pending", "drained", "acked"}],
           \A m \in Messages : fate[m] = "unsent" /\ sender[m] # p => fate'[m] = "unsent",
           Placed', SenderOrder'
    PROVE  QueueInv'
<1> DEFINE r == call[p].to
           c == [call[p] EXCEPT !.at = "done"]
<1>1. /\ call[p] \in Operations /\ call[p].at = "loaded" /\ r \in Blades
      /\ call[p].op # "peek_inbox"
      /\ flock[r] = p /\ queue' = [queue EXCEPT ![r] = K] /\ Goes(p, c)
      /\ UNCHANGED <<flock, minted, known, sender, got, peeked>>
  BY Loaded DEF Persist, Done
<1>2. /\ c \in Operations /\ c.op = call[p].op /\ c.at = "done" /\ c.to = r
      /\ c.ids = call[p].ids /\ c.snap = call[p].snap
  BY <1>1 DEF Operations
<1> HIDE DEF c
<1>3. /\ call' \in [Procs -> Operations] /\ call'[p] = c
      /\ \A q \in Procs \ {p} : call'[q] = call[q]
  BY <1>1, <1>2, Went DEF QueueInv
<1>4. /\ queue' \in [Blades -> Seq(Messages)]
      /\ \A s \in Blades \ {r} : queue'[s] = queue[s]
  BY <1>1 DEF QueueInv, TypeOK
<1>5. TypeOK'
  <2>1. \A q \in Procs :
          /\ call'[q].op \in {"none", "send", "check_inbox", "peek_inbox", "ack"}
          /\ call'[q].at \in {"idle", "waiting", "loaded", "done"}
          /\ call'[q].to \in Blades \cup {NoOne}
          /\ call'[q].snap \in Seq(Messages)
    BY <1>3 DEF Operations
  <2>2. \A q \in Procs : call'[q].ids \subseteq 1 .. minted'
    BY <1>1, <1>2, <1>3 DEF QueueInv, TypeOK
  <2> QED BY <1>1, <1>4, <2>1, <2>2 DEF QueueInv, TypeOK
<1>6. Locking'
  <2>1. \A q \in Procs \ {p} : call[q].at \in {"loaded", "done"} => call[q].to # r
    BY <1>1 DEF QueueInv, Locking
  <2>2. ASSUME NEW q \in Procs \ {p}
        PROVE  /\ call'[q].at # "idle" => call'[q].to \in Blades
               /\ call'[q].at \in {"loaded", "done"} => flock'[call'[q].to] = q
               /\ call'[q].at = "loaded" => call'[q].snap = queue'[call'[q].to]
               /\ call'[q].op = "peek_inbox" => call'[q].at # "done"
    BY <1>1, <1>3, <1>4, <2>1 DEF QueueInv, Locking
  <2>3. /\ call'[p].at = "done" /\ call'[p].to \in Blades /\ flock'[call'[p].to] = p
        /\ call'[p].op # "peek_inbox"
    BY <1>1, <1>2, <1>3
  <2> QED BY <2>2, <2>3 DEF Locking
<1>7. Sending'
  <2> SUFFICES ASSUME NEW q \in Procs, call'[q].op = "send", call'[q].at \in {"waiting", "loaded"}
               PROVE  \E m \in Messages :
                        /\ call'[q].ids = {m} /\ fate'[m] = "unsent" /\ sender'[m] = q
                        /\ \A k \in Messages : sender'[k] = q => k <= m
    BY DEF Sending
  <2>1. q # p /\ call'[q] = call[q]
    BY <1>2, <1>3
  <2>2. PICK m \in Messages :
            /\ call[q].ids = {m} /\ fate[m] = "unsent" /\ sender[m] = q
            /\ \A k \in Messages : sender[k] = q => k <= m
    BY <2>1 DEF QueueInv, Sending
  <2> QED BY <1>1, <2>1, <2>2
<1> QED BY <1>3, <1>5, <1>6, <1>7 DEF QueueInv

LEMMA SettleIs ==
    ASSUME fate \in [Messages -> {"unsent", "pending", "drained", "acked"}],
           NEW ms, NEW how \in {"pending", "drained", "acked"}, Settle(ms, how)
    PROVE  /\ fate' \in [Messages -> {"unsent", "pending", "drained", "acked"}]
           /\ \A m \in Messages : fate'[m] = IF m \in ms THEN how ELSE fate[m]
BY DEF Settle

(* Nothing that was handed out changes when p writes, but for what p drains.*)
LEMMA HandedWhile ==
    ASSUME QueueInv, NEW p \in Procs, NEW op, Writes(p, op), Done(p)
    PROVE  \A q \in Procs : q # p \/ op # "check_inbox" => Handed(q)' = Handed(q)
<1> DEFINE c == [call[p] EXCEPT !.at = "done"]
<1>1. /\ call[p] \in Operations /\ call[p].at = "loaded" /\ call[p].op = op
      /\ Goes(p, c) /\ got' = got
  BY Loaded DEF Done
<1>2. c \in Operations /\ c.op = op /\ c.at = "done"
  BY <1>1 DEF Operations
<1> HIDE DEF c
<1>3. call'[p] = c /\ \A q \in Procs \ {p} : call'[q] = call[q]
  BY <1>1, <1>2, Went DEF QueueInv
<1> QED BY <1>1, <1>2, <1>3 DEF Handed

LEMMA SendWritesKeeps ==
    ASSUME QueueInv, NEW p \in Procs, SendWrites(p)
    PROVE  QueueInv'
<1> DEFINE r == call[p].to
<1>1. /\ Writes(p, "send") /\ Done(p) /\ Settle(call[p].ids, "pending")
      /\ Persist(p, Append(call[p].snap, CHOOSE m \in call[p].ids : TRUE))
  BY DEF SendWrites
<1>2. /\ call[p].op = "send" /\ call[p].at = "loaded" /\ r \in Blades
      /\ call[p].snap = queue[r] /\ DOMAIN queue = Blades
      /\ \A s \in Blades : queue[s] \in Seq(Messages)
  BY <1>1, Loaded
<1>3. PICK m \in Messages :
        /\ call[p].ids = {m} /\ fate[m] = "unsent" /\ sender[m] = p
        /\ \A k \in Messages : sender[k] = p => k <= m
  BY <1>2 DEF QueueInv, Sending
<1> DEFINE K == Append(queue[r], m)
           l == Len(queue[r])
<1>4. Persist(p, K)
  BY <1>1, <1>2, <1>3
<1>5. /\ K \in Seq(Messages) /\ DOMAIN K = 1 .. l + 1 /\ K[l + 1] = m
      /\ DOMAIN queue[r] = 1 .. l /\ \A i \in 1 .. l : K[i] = queue[r][i]
      /\ l \in Nat
  BY <1>2, AppendProperties
<1>6. /\ queue'[r] = K /\ \A s \in Blades \ {r} : queue'[s] = queue[s]
  BY <1>2, <1>4 DEF Persist
<1> HIDE DEF K, l
<1>7. /\ fate' \in [Messages -> {"unsent", "pending", "drained", "acked"}]
      /\ fate'[m] = "pending" /\ \A k \in Messages \ {m} : fate'[k] = fate[k]
  <2>1. fate \in [Messages -> {"unsent", "pending", "drained", "acked"}]
    BY DEF QueueInv, TypeOK
  <2> QED BY <1>1, <1>3, <2>1, SettleIs
<1>8. /\ UNCHANGED <<minted, sender>>
      /\ \A q \in Procs : Handed(q)' = Handed(q) /\ Handed(q) \in Seq(Messages)
  BY <1>1, HandedWhile, HandedIs DEF Done, QueueInv
<1>9. /\ \A s \in Blades : \A i \in DOMAIN queue[s] : queue[s][i] \in Messages \ {m}
      /\ \A q \in Procs : \A i \in DOMAIN Handed(q) : Handed(q)[i] \in Messages \ {m}
  BY <1>2, <1>3, <1>8, ElementOfSeq DEF QueueInv, Placed
<1>10. minted \in Nat /\ m \in 1 .. minted
  <2>1. call[p].ids \subseteq 1 .. minted /\ minted \in 0 .. MaxMessages
    BY DEF QueueInv, TypeOK
  <2> QED BY <2>1, <1>3, MailboxAssumption
<1>11. Placed'
  <2>1. \A k \in Messages : k > minted' => fate'[k] = "unsent" /\ sender'[k] = NoOne
    <3>1. \A k \in Messages : k > minted => k # m
      BY <1>10 DEF Messages
    <3> QED BY <3>1, <1>7, <1>8 DEF QueueInv, Placed
  <2>2. \A s \in Blades : \A i \in DOMAIN queue'[s] : fate'[queue'[s][i]] = "pending"
    <3>1. \A i \in DOMAIN K : fate'[K[i]] = "pending"
      BY <1>2, <1>5, <1>7, <1>9 DEF QueueInv, Placed
    <3> QED BY <3>1, <1>6, <1>7, <1>9 DEF QueueInv, Placed
  <2>3. \A s, t \in Blades : \A i \in DOMAIN queue'[s], j \in DOMAIN queue'[t] :
          queue'[s][i] = queue'[t][j] => s = t /\ i = j
    <3>1. \A i, j \in DOMAIN K : K[i] = K[j] => i = j
      BY <1>2, <1>5, <1>9 DEF QueueInv, Placed
    <3>2. \A s \in Blades \ {r} : \A i \in DOMAIN queue[s], j \in DOMAIN K : queue[s][i] # K[j]
      BY <1>2, <1>5, <1>9 DEF QueueInv, Placed
    <3> QED BY <3>1, <3>2, <1>6 DEF QueueInv, Placed
  <2>4. \A q \in Procs : \A i \in DOMAIN Handed(q)' : fate'[Handed(q)'[i]] = "drained"
    BY <1>7, <1>8, <1>9 DEF QueueInv, Placed
  <2>5. \A o, q \in Procs : \A i \in DOMAIN Handed(o)', j \in DOMAIN Handed(q)' :
         Handed(o)'[i] = Handed(q)'[j] => o = q /\ i = j
    BY <1>8 DEF QueueInv, Placed
  <2> QED BY <2>1, <2>2, <2>3, <2>4, <2>5 DEF Placed
<1>12. SenderOrder'
  <2>1. \A i, j \in DOMAIN K : i < j /\ sender[K[i]] = sender[K[j]] => K[i] < K[j]
    <3> SUFFICES ASSUME NEW i \in DOMAIN K, NEW j \in DOMAIN K, i < j, sender[K[i]] = sender[K[j]]
                 PROVE  K[i] < K[j]
      OBVIOUS
    <3>1. CASE j = l + 1
      <4>1. i \in 1 .. l /\ K[j] = m /\ K[i] = queue[r][i] /\ K[i] \in Messages \ {m}
        BY <3>1, <1>2, <1>5, <1>9
      <4>2. K[i] <= m
        BY <4>1, <1>3
      <4> QED BY <4>1, <4>2 DEF Messages
    <3>2. CASE j # l + 1
      BY <3>2, <1>2, <1>5 DEF QueueInv, SenderOrder
    <3> QED BY <3>1, <3>2
  <2> QED BY <2>1, <1>6, <1>8 DEF QueueInv, SenderOrder
<1>13. \A k \in Messages : fate[k] = "unsent" /\ sender[k] # p => fate'[k] = "unsent"
  BY <1>3, <1>7
<1> QED BY <1>1, <1>4, <1>5, <1>7, <1>11, <1>12, <1>13, WriteKeeps

LEMMA CheckInboxWritesKeeps ==
    ASSUME QueueInv, NEW p \in Procs, CheckInboxWrites(p)
    PROVE  QueueInv'
<1> DEFINE r == call[p].to
<1>1. /\ Writes(p, "check_inbox") /\ Done(p) /\ Settle(Elems(call[p].snap), "drained")
      /\ Persist(p, <<>>)
  BY DEF CheckInboxWrites
<1>2. /\ call[p] \in Operations /\ call[p].op = "check_inbox" /\ call[p].at = "loaded"
      /\ r \in Blades
      /\ call[p].snap = queue[r] /\ DOMAIN queue = Blades
      /\ \A s \in Blades : queue[s] \in Seq(Messages)
  BY <1>1, Loaded
<1>3. queue'[r] = <<>> /\ \A s \in Blades \ {r} : queue'[s] = queue[s]
  BY <1>1, <1>2 DEF Persist
<1>4. /\ fate' \in [Messages -> {"unsent", "pending", "drained", "acked"}]
      /\ \A m \in Messages : fate'[m] = IF m \in Elems(queue[r]) THEN "drained" ELSE fate[m]
  <2>1. fate \in [Messages -> {"unsent", "pending", "drained", "acked"}]
    BY DEF QueueInv, TypeOK
  <2> QED BY <1>1, <1>2, <2>1, SettleIs
<1>5. \A m \in Elems(queue[r]) : m \in Messages /\ fate[m] = "pending"
  BY <1>2, ElementOfSeq DEF QueueInv, Placed, Elems
<1>6. \A q \in Procs : Handed(q) \in Seq(Messages)
  BY HandedIs DEF QueueInv
<1>7. /\ UNCHANGED <<minted, sender>>
      /\ \A q \in Procs \ {p} : Handed(q)' = Handed(q)
  BY <1>1, HandedWhile DEF Done
<1> DEFINE H == Handed(p)
           h == Len(H)
           l == Len(queue[r])
<1>8. Handed(p)' = H \o queue[r]
  <2> DEFINE c == [call[p] EXCEPT !.at = "done"]
  <2>1. /\ Goes(p, c) /\ got' = got
    BY <1>1 DEF Done
  <2>2. c \in Operations /\ c.op = "check_inbox" /\ c.at = "done" /\ c.snap = queue[r]
    BY <1>2 DEF Operations
  <2> HIDE DEF c
  <2>3. call'[p] = c
    BY <2>1, <2>2, Went DEF QueueInv
  <2>4. Handed(p)' = got[p] \o queue[r]
    BY <2>1, <2>2, <2>3 DEF Handed
  <2>5. Handed(p) = got[p]
    <3>1. Handed(p) = got[p] \o <<>> /\ got[p] \in Seq(Messages)
      BY <1>2 DEF Handed, QueueInv, TypeOK
    <3> QED BY <3>1
  <2> QED BY <2>4, <2>5
<1>9. /\ DOMAIN H = 1 .. h /\ DOMAIN queue[r] = 1 .. l /\ h \in Nat /\ l \in Nat
      /\ DOMAIN Handed(p)' = 1 .. h + l
      /\ \A i \in 1 .. h : Handed(p)'[i] = H[i]
      /\ \A i \in h + 1 .. h + l : i - h \in 1 .. l /\ Handed(p)'[i] = queue[r][i - h]
  BY <1>2, <1>6, <1>8, ConcatProperties
<1> HIDE DEF H, h, l
<1>10. \A q \in Procs : \A i \in DOMAIN Handed(q) :
         Handed(q)[i] \in Messages /\ fate[Handed(q)[i]] = "drained"
  BY <1>6, ElementOfSeq DEF QueueInv, Placed
<1>11. Placed'
  <2>1. \A k \in Messages : k > minted' => fate'[k] = "unsent" /\ sender'[k] = NoOne
    BY <1>4, <1>5, <1>7 DEF QueueInv, Placed
  <2>2. \A s \in Blades : \A i \in DOMAIN queue'[s] : fate'[queue'[s][i]] = "pending"
    <3> SUFFICES ASSUME NEW s \in Blades, NEW i \in DOMAIN queue'[s]
                 PROVE  fate'[queue'[s][i]] = "pending"
      OBVIOUS
    <3>1. s # r /\ queue'[s] = queue[s] /\ i \in DOMAIN queue[s]
      BY <1>3
    <3>2. queue[s][i] \in Messages /\ fate[queue[s][i]] = "pending"
      BY <1>2, <3>1, ElementOfSeq DEF QueueInv, Placed
    <3>3. queue[s][i] \notin Elems(queue[r])
      BY <1>2, <3>1 DEF QueueInv, Placed, Elems
    <3> QED BY <1>4, <3>1, <3>2, <3>3
  <2>3. \A s, t \in Blades : \A i \in DOMAIN queue'[s], j \in DOMAIN queue'[t] :
          queue'[s][i] = queue'[t][j] => s = t /\ i = j
    BY <1>3 DEF QueueInv, Placed
  <2>4. \A q \in Procs : \A i \in DOMAIN Handed(q)' : fate'[Handed(q)'[i]] = "drained"
    <3>1. \A i \in DOMAIN Handed(p)' : fate'[Handed(p)'[i]] = "drained"
      <4> SUFFICES ASSUME NEW i \in DOMAIN Handed(p)' PROVE fate'[Handed(p)'[i]] = "drained"
        OBVIOUS
      <4>1. CASE i \in 1 .. h
        BY <4>1, <1>4, <1>9, <1>10 DEF H
      <4>2. CASE i \in h + 1 .. h + l
        <5>1. Handed(p)'[i] \in Elems(queue[r])
          BY <4>2, <1>9 DEF Elems
        <5> QED BY <5>1, <1>4, <1>5
      <4> QED BY <4>1, <4>2, <1>9
    <3> QED BY <3>1, <1>4, <1>7, <1>10
  <2>5. \A o, q \in Procs : \A i \in DOMAIN Handed(o)', j \in DOMAIN Handed(q)' :
         Handed(o)'[i] = Handed(q)'[j] => o = q /\ i = j
    <3>1. \A i, j \in DOMAIN Handed(p)' : Handed(p)'[i] = Handed(p)'[j] => i = j
      <4> SUFFICES ASSUME NEW i \in 1 .. h + l, NEW j \in 1 .. h + l,
                          Handed(p)'[i] = Handed(p)'[j]
                   PROVE  i = j
        BY <1>9
      <4>1. ASSUME NEW x \in 1 .. h, NEW y \in h + 1 .. h + l PROVE Handed(p)'[x] # Handed(p)'[y]
        <5>1. fate[Handed(p)'[x]] = "drained" /\ Handed(p)'[y] \in Elems(queue[r])
          BY <1>9, <1>10 DEF H, Elems
        <5> QED BY <5>1, <1>5
      <4>2. CASE i \in 1 .. h /\ j \in 1 .. h
        BY <4>2, <1>9 DEF H, QueueInv, Placed
      <4>3. CASE i \in h + 1 .. h + l /\ j \in h + 1 .. h + l
        <5>1. queue[r][i - h] = queue[r][j - h] /\ i - h \in DOMAIN queue[r] /\ j - h \in DOMAIN queue[r]
          BY <4>3, <1>9
        <5>2. i - h = j - h
          BY <5>1, <1>2 DEF QueueInv, Placed
        <5> QED BY <5>2, <1>9
      <4> QED BY <4>1, <4>2, <4>3, <1>9
    <3>2. ASSUME NEW q \in Procs \ {p}, NEW i \in DOMAIN Handed(p)', NEW j \in DOMAIN Handed(q)'
          PROVE  Handed(p)'[i] # Handed(q)'[j]
      <4>1. Handed(q)' = Handed(q) /\ fate[Handed(q)[j]] = "drained" /\ j \in DOMAIN Handed(q)
        BY <1>7, <1>10
      <4>2. CASE i \in 1 .. h
        BY <4>1, <4>2, <1>9 DEF H, QueueInv, Placed
      <4>3. CASE i \in h + 1 .. h + l
        <5>1. Handed(p)'[i] \in Elems(queue[r])
          BY <4>3, <1>9 DEF Elems
        <5> QED BY <5>1, <4>1, <1>5
      <4> QED BY <4>2, <4>3, <1>9
    <3> QED BY <3>1, <3>2, <1>7 DEF QueueInv, Placed
  <2> QED BY <2>1, <2>2, <2>3, <2>4, <2>5 DEF Placed
<1>12. SenderOrder'
  BY <1>3, <1>7 DEF QueueInv, SenderOrder
<1>13. \A k \in Messages : fate[k] = "unsent" /\ sender[k] # p => fate'[k] = "unsent"
  BY <1>4, <1>5
<1>14. <<>> \in Seq(Messages)
  OBVIOUS
<1> QED BY <1>1, <1>4, <1>11, <1>12, <1>13, <1>14, WriteKeeps

LEMMA AckWritesKeeps ==
    ASSUME QueueInv, NEW p \in Procs, AckWrites(p)
    PROVE  QueueInv'
<1> DEFINE r == call[p].to
           ids == call[p].ids
           K == Without(queue[r], ids)
<1>1. /\ Writes(p, "ack") /\ Done(p) /\ Settle(Elems(call[p].snap) \cap ids, "acked")
      /\ Persist(p, Without(call[p].snap, ids))
  BY DEF AckWrites
<1>2. /\ call[p].op = "ack" /\ r \in Blades
      /\ call[p].snap = queue[r] /\ DOMAIN queue = Blades
      /\ \A s \in Blades : queue[s] \in Seq(Messages)
  BY <1>1, Loaded
<1>3. K \in Seq(Messages) /\ Kept(queue[r], ids, Len(queue[r]), K)
  BY <1>2, WithoutKeeps
<1>4. Persist(p, K) /\ queue'[r] = K /\ \A s \in Blades \ {r} : queue'[s] = queue[s]
  BY <1>1, <1>2 DEF Persist
<1> HIDE DEF K
<1>5. DOMAIN K = 1 .. Len(K) /\ DOMAIN queue[r] = 1 .. Len(queue[r]) /\ Len(K) \in Nat
      /\ Len(queue[r]) \in Nat
  BY <1>2, <1>3
<1>6. PICK e \in [DOMAIN K -> DOMAIN queue[r]] :
        /\ \A i, j \in DOMAIN K : i < j => e[i] < e[j]
        /\ \A i \in DOMAIN K : K[i] = queue[r][e[i]] /\ queue[r][e[i]] \notin ids
  BY <1>3, <1>5 DEF Kept
<1>7. /\ fate' \in [Messages -> {"unsent", "pending", "drained", "acked"}]
      /\ \A m \in Messages : fate'[m] = IF m \in Elems(queue[r]) \cap ids THEN "acked" ELSE fate[m]
  <2>1. fate \in [Messages -> {"unsent", "pending", "drained", "acked"}]
    BY DEF QueueInv, TypeOK
  <2> QED BY <1>1, <1>2, <2>1, SettleIs
<1>8. /\ \A s \in Blades : \A i \in DOMAIN queue[s] :
           queue[s][i] \in Messages /\ fate[queue[s][i]] = "pending"
      /\ \A m \in Elems(queue[r]) : fate[m] = "pending"
  BY <1>2, ElementOfSeq DEF QueueInv, Placed, Elems
<1>9. /\ UNCHANGED <<minted, sender>>
      /\ \A q \in Procs : Handed(q)' = Handed(q)
  BY <1>1, HandedWhile DEF Done
<1>10. \A i, j \in DOMAIN K : e[i] = e[j] => i = j
  BY <1>5, <1>6
<1>11. Placed'
  <2>1. \A k \in Messages : k > minted' => fate'[k] = "unsent" /\ sender'[k] = NoOne
    BY <1>7, <1>8, <1>9 DEF QueueInv, Placed
  <2>2. \A s \in Blades : \A i \in DOMAIN queue'[s] : fate'[queue'[s][i]] = "pending"
    <3> SUFFICES ASSUME NEW s \in Blades, NEW i \in DOMAIN queue'[s]
                 PROVE  fate'[queue'[s][i]] = "pending"
      OBVIOUS
    <3>1. CASE s = r
      <4>1. /\ queue'[s][i] = queue[r][e[i]] /\ e[i] \in DOMAIN queue[r]
            /\ queue[r][e[i]] \notin ids
        BY <3>1, <1>4, <1>6
      <4> QED BY <4>1, <1>7, <1>8, <1>2
    <3>2. CASE s # r
      <4>1. queue'[s] = queue[s] /\ i \in DOMAIN queue[s]
        BY <3>2, <1>4
      <4>2. queue[s][i] \notin Elems(queue[r])
        BY <1>2, <3>2, <4>1 DEF QueueInv, Placed, Elems
      <4> QED BY <1>7, <1>8, <4>1, <4>2
    <3> QED BY <3>1, <3>2
  <2>3. \A s, t \in Blades : \A i \in DOMAIN queue'[s], j \in DOMAIN queue'[t] :
          queue'[s][i] = queue'[t][j] => s = t /\ i = j
    <3>1. \A i, j \in DOMAIN K : K[i] = K[j] => i = j
      BY <1>2, <1>6, <1>10 DEF QueueInv, Placed
    <3>2. \A s \in Blades \ {r} : \A i \in DOMAIN queue[s], j \in DOMAIN K : queue[s][i] # K[j]
      BY <1>2, <1>6 DEF QueueInv, Placed
    <3> QED BY <3>1, <3>2, <1>4 DEF QueueInv, Placed
  <2>4. \A q \in Procs : \A i \in DOMAIN Handed(q)' : fate'[Handed(q)'[i]] = "drained"
    <3> SUFFICES ASSUME NEW q \in Procs, NEW i \in DOMAIN Handed(q)
                 PROVE  fate'[Handed(q)[i]] = "drained"
      BY <1>9
    <3>1. Handed(q)[i] \in Messages /\ fate[Handed(q)[i]] = "drained"
      <4>1. Handed(q) \in Seq(Messages)
        BY HandedIs DEF QueueInv
      <4> QED BY <4>1, ElementOfSeq DEF QueueInv, Placed
    <3> QED BY <3>1, <1>7, <1>8
  <2>5. \A o, q \in Procs : \A i \in DOMAIN Handed(o)', j \in DOMAIN Handed(q)' :
         Handed(o)'[i] = Handed(q)'[j] => o = q /\ i = j
    BY <1>9 DEF QueueInv, Placed
  <2> QED BY <2>1, <2>2, <2>3, <2>4, <2>5 DEF Placed
<1>12. SenderOrder'
  <2>1. ASSUME NEW i \in DOMAIN K, NEW j \in DOMAIN K, i < j, sender[K[i]] = sender[K[j]]
        PROVE  K[i] < K[j]
    <3>1. e[i] < e[j] /\ e[i] \in DOMAIN queue[r] /\ e[j] \in DOMAIN queue[r]
      BY <2>1, <1>6
    <3> QED BY <2>1, <3>1, <1>2, <1>6 DEF QueueInv, SenderOrder
  <2> QED BY <2>1, <1>4, <1>9 DEF QueueInv, SenderOrder
<1>13. \A k \in Messages : fate[k] = "unsent" /\ sender[k] # p => fate'[k] = "unsent"
  BY <1>7, <1>8
<1> QED BY <1>1, <1>3, <1>4, <1>7, <1>11, <1>12, <1>13, WriteKeeps

-----------------------------------------------------------------------------
(* Whoever leaves its operation, with or without what it was to return,    *)
(* gives back the locks it holds.                                          *)
LEMMA LeaveKeeps ==
    ASSUME QueueInv, NEW p \in Procs, Goes(p, Idle),
           flock' \in [Blades -> Procs \cup {NoOne}],
           \A r \in Blades : flock[r] # p => flock'[r] = flock[r],
           UNCHANGED <<queue, minted, sender, fate>>,
           known' \in [Procs -> SUBSET (1 .. minted)],
           got' \in [Procs -> Seq(Messages)], \A q \in Procs \ {p} : got'[q] = got[q],
           peeked' \subseteq Messages,
           DOMAIN got'[p] \subseteq DOMAIN Handed(p),
           \A i \in DOMAIN got'[p] : got'[p][i] = Handed(p)[i]
    PROVE  QueueInv'
<1>1. /\ call' \in [Procs -> Operations] /\ call'[p] = Idle
      /\ \A q \in Procs \ {p} : call'[q] = call[q]
  BY IdleIs, Went DEF QueueInv
<1>2. \A q \in Procs \ {p} : Handed(q)' = Handed(q)
  BY <1>1 DEF Handed
<1>3. Handed(p)' = got'[p]
  <2>1. Handed(p)' = got'[p] \o <<>> /\ got'[p] \in Seq(Messages)
    BY <1>1, IdleIs DEF Handed
  <2> QED BY <2>1
<1>4. Placed' /\ SenderOrder'
  <2>1. minted \in Nat /\ minted' = minted
    BY DEF QueueInv, TypeOK
  <2>2. \A m \in Messages : m > minted' => sender'[m] = NoOne
    BY DEF QueueInv, Placed
  <2> QED BY <2>1, <2>2, <1>2, <1>3, PlacedStays
<1>5. TypeOK'
  <2>1. \A q \in Procs :
          /\ call'[q].op \in {"none", "send", "check_inbox", "peek_inbox", "ack"}
          /\ call'[q].at \in {"idle", "waiting", "loaded", "done"}
          /\ call'[q].to \in Blades \cup {NoOne}
          /\ call'[q].snap \in Seq(Messages)
    BY <1>1 DEF Operations
  <2>2. \A q \in Procs : call'[q].ids \subseteq 1 .. minted'
    BY <1>1, IdleIs DEF QueueInv, TypeOK
  <2> QED BY <2>1, <2>2 DEF QueueInv, TypeOK
<1>6. Locking'
  <2>1. call'[p].at = "idle" /\ call'[p].op = "none"
    BY <1>1, IdleIs
  <2>2. \A q \in Procs \ {p} : call[q].at \in {"loaded", "done"} =>
          call[q].to \in Blades /\ flock[call[q].to] = q /\ flock'[call[q].to] = q
    BY DEF QueueInv, Locking
  <2>3. ASSUME NEW q \in Procs \ {p}
        PROVE  /\ call'[q].at # "idle" => call'[q].to \in Blades
               /\ call'[q].at \in {"loaded", "done"} => flock'[call'[q].to] = q
               /\ call'[q].at = "loaded" => call'[q].snap = queue'[call'[q].to]
               /\ call'[q].op = "peek_inbox" => call'[q].at # "done"
    BY <1>1, <2>2 DEF QueueInv, Locking
  <2> QED BY <2>1, <2>3 DEF Locking
<1>7. Sending'
  <2>1. call'[p].op = "none"
    BY <1>1, IdleIs
  <2> SUFFICES ASSUME NEW q \in Procs, call'[q].op = "send", call'[q].at \in {"waiting", "loaded"}
               PROVE  \E m \in Messages :
                        /\ call'[q].ids = {m} /\ fate'[m] = "unsent" /\ sender'[m] = q
                        /\ \A k \in Messages : sender'[k] = q => k <= m
    BY DEF Sending
  <2>2. call'[q] = call[q]
    BY <2>1, <1>1
  <2>3. PICK m \in Messages :
          /\ call[q].ids = {m} /\ fate[m] = "unsent" /\ sender[m] = q
          /\ \A k \in Messages : sender[k] = q => k <= m
    BY <2>2 DEF QueueInv, Sending
  <2> QED BY <2>2, <2>3
<1> QED BY <1>1, <1>4, <1>5, <1>6, <1>7 DEF QueueInv

LEMMA ReturnKeeps ==
    ASSUME QueueInv, NEW p \in Procs, Return(p)
    PROVE  QueueInv'
<1> DEFINE r == call[p].to
<1>1. /\ call[p] \in Operations /\ call[p].at \in {"loaded", "done"} /\ r \in Blades /\ flock[r] = p
      /\ Goes(p, Idle) /\ flock' = [flock EXCEPT ![r] = NoOne]
      /\ UNCHANGED <<queue, minted, sender, fate>>
  BY DEF Return, Writes, QueueInv, Locking
<1>2. /\ flock' \in [Blades -> Procs \cup {NoOne}]
      /\ \A s \in Blades : flock[s] # p => flock'[s] = flock[s]
  BY <1>1 DEF QueueInv, TypeOK
<1>3. got \in [Procs -> Seq(Messages)] /\ call[p].snap \in Seq(Messages)
  BY DEF QueueInv, TypeOK
<1>4. /\ got' \in [Procs -> Seq(Messages)] /\ \A q \in Procs \ {p} : got'[q] = got[q]
      /\ got'[p] = Handed(p)
  <2>1. CASE call[p].op = "check_inbox"
    <3>1. call[p].at = "done" /\ got' = [got EXCEPT ![p] = @ \o call[p].snap]
      BY <2>1 DEF Return, Writes
    <3>2. got[p] \o call[p].snap \in Seq(Messages)
      BY <1>3, ConcatProperties
    <3> QED BY <2>1, <3>1, <3>2, <1>3 DEF Handed
  <2>2. CASE call[p].op # "check_inbox"
    <3>1. got' = got /\ Handed(p) = got[p] \o <<>>
      BY <2>2 DEF Return, Handed
    <3>2. got[p] \in Seq(Messages)
      BY <1>3
    <3> QED BY <3>1, <3>2, <1>3
  <2> QED BY <2>1, <2>2
<1>5. Elems(call[p].snap) \subseteq Messages
  BY <1>3, ElementOfSeq DEF Elems
<1>6. peeked' \subseteq Messages
  BY <1>5 DEF Return, QueueInv, TypeOK
<1>7. known' \in [Procs -> SUBSET (1 .. minted)]
  <2>1. known \in [Procs -> SUBSET (1 .. minted)]
    BY DEF QueueInv, TypeOK
  <2>2. CASE call[p].op = "peek_inbox"
    <3>1. call[p].at = "loaded" /\ call[p].snap = queue[r]
      BY <1>1, <2>2 DEF QueueInv, Locking
    <3>2. \A m \in Elems(call[p].snap) : m \in Messages /\ fate[m] = "pending"
      BY <3>1, <1>1, <1>5 DEF QueueInv, Placed, Elems
    <3>3. Elems(call[p].snap) \subseteq 1 .. minted
      <4>1. minted \in Nat
        BY DEF QueueInv, TypeOK
      <4> QED BY <4>1, <3>2 DEF QueueInv, Placed, Messages
    <3> QED BY <2>1, <2>2, <3>3 DEF Return
  <2>3. CASE call[p].op # "peek_inbox"
    BY <2>1, <2>3 DEF Return
  <2> QED BY <2>2, <2>3
<1> QED BY <1>1, <1>2, <1>4, <1>6, <1>7, LeaveKeeps

LEMMA DieKeeps ==
    ASSUME QueueInv, NEW p \in Procs, Die(p)
    PROVE  QueueInv'
<1>1. /\ Goes(p, Idle) /\ UNCHANGED <<queue, minted, sender, fate, got, peeked>>
      /\ flock' = [r \in Blades |-> IF flock[r] = p THEN NoOne ELSE flock[r]]
      /\ known' = [known EXCEPT ![p] = {}]
  BY DEF Die
<1>2. /\ flock' \in [Blades -> Procs \cup {NoOne}]
      /\ \A r \in Blades : flock[r] # p => flock'[r] = flock[r]
  BY <1>1 DEF QueueInv, TypeOK
<1>3. /\ peeked' \subseteq Messages
      /\ got' \in [Procs -> Seq(Messages)] /\ \A q \in Procs \ {p} : got'[q] = got[q]
  BY <1>1 DEF QueueInv, TypeOK
<1>6. known' \in [Procs -> SUBSET (1 .. minted)]
  <2>1. known \in [Procs -> SUBSET (1 .. minted)] /\ {} \in SUBSET (1 .. minted)
    BY DEF QueueInv, TypeOK
  <2> QED BY <1>1, <2>1
<1>4. got[p] \in Seq(Messages) /\ call[p].snap \in Seq(Messages)
  BY DEF QueueInv, TypeOK
<1>5. /\ DOMAIN got[p] \subseteq DOMAIN Handed(p)
      /\ \A i \in DOMAIN got[p] : got[p][i] = Handed(p)[i]
  <2>1. CASE call[p].op = "check_inbox" /\ call[p].at = "done"
    <3>1. Handed(p) = got[p] \o call[p].snap
      BY <2>1 DEF Handed
    <3> DEFINE a == got[p]
               b == call[p].snap
    <3>2. a \in Seq(Messages) /\ b \in Seq(Messages)
      BY <1>4
    <3> HIDE DEF a, b
    <3>3. /\ a \o b \in Seq(Messages) /\ Len(a \o b) = Len(a) + Len(b)
          /\ \A i \in 1 .. Len(a) + Len(b) : (a \o b)[i] = IF i <= Len(a) THEN a[i] ELSE b[i - Len(a)]
      BY <3>2, ConcatProperties
    <3>4. Len(a) \in Nat /\ Len(b) \in Nat /\ DOMAIN a = 1 .. Len(a)
          /\ DOMAIN (a \o b) = 1 .. Len(a) + Len(b)
      BY <3>2, <3>3
    <3>5. DOMAIN a \subseteq DOMAIN (a \o b) /\ \A i \in DOMAIN a : (a \o b)[i] = a[i]
      BY <3>3, <3>4
    <3> QED BY <3>1, <3>5 DEF a, b
  <2>2. CASE ~(call[p].op = "check_inbox" /\ call[p].at = "done")
    <3>1. Handed(p) = got[p] \o <<>>
      BY <2>2 DEF Handed
    <3> QED BY <3>1, <1>4
  <2> QED BY <2>1, <2>2
<1> QED BY <1>1, <1>2, <1>3, <1>5, <1>6, LeaveKeeps

LEMMA QueueInit == Init => QueueInv
<1> SUFFICES ASSUME Init PROVE QueueInv
  OBVIOUS
<1>1. /\ call = [p \in Procs |-> Idle] /\ queue = [r \in Blades |-> <<>>]
      /\ flock = [r \in Blades |-> NoOne] /\ minted = 0
      /\ known = [p \in Procs |-> {}] /\ sender = [m \in Messages |-> NoOne]
      /\ fate = [m \in Messages |-> "unsent"] /\ got = [p \in Procs |-> <<>>]
      /\ peeked = {}
  BY DEF Init
<1>2. call \in [Procs -> Operations] /\ \A p \in Procs : call[p] = Idle
  BY <1>1, IdleIs
<1>3. <<>> \in Seq(Messages) /\ DOMAIN <<>> = {} /\ 0 \in 0 .. MaxMessages
  BY MailboxAssumption
<1>4. TypeOK
  <2>1. \A p \in Procs :
          /\ call[p].op \in {"none", "send", "check_inbox", "peek_inbox", "ack"}
          /\ call[p].at \in {"idle", "waiting", "loaded", "done"}
          /\ call[p].to \in Blades \cup {NoOne}
          /\ call[p].snap \in Seq(Messages)
    BY <1>2 DEF Operations
  <2>2. \A p \in Procs : call[p].ids \subseteq 1 .. minted
    BY <1>2, IdleIs
  <2> QED BY <1>1, <1>3, <2>1, <2>2 DEF TypeOK
<1>5. Locking /\ Sending
  BY <1>2, IdleIs DEF Locking, Sending
<1>6. \A p \in Procs : Handed(p) = <<>>
  <2> SUFFICES ASSUME NEW p \in Procs PROVE Handed(p) = <<>>
    OBVIOUS
  <2>1. Handed(p) = got[p] \o <<>> /\ got[p] = <<>>
    BY <1>1, <1>2, IdleIs DEF Handed
  <2>2. <<>> \o <<>> = <<>>
    OBVIOUS
  <2> QED BY <2>1, <2>2
<1>7. Placed /\ SenderOrder
  BY <1>1, <1>3, <1>6 DEF Placed, SenderOrder
<1> QED BY <1>2, <1>4, <1>5, <1>7 DEF QueueInv

LEMMA StutterKeeps == QueueInv /\ UNCHANGED vars => QueueInv'
<1> SUFFICES ASSUME QueueInv, UNCHANGED vars PROVE QueueInv'
  OBVIOUS
<1>1. \A p \in Procs : Handed(p)' = Handed(p)
  BY DEF vars, Handed
<1>2. Placed'
  BY <1>1 DEF vars, QueueInv, Placed
<1>3. TypeOK' /\ Locking' /\ Sending' /\ SenderOrder'
  BY DEF vars, QueueInv, TypeOK, Locking, Sending, SenderOrder
<1> QED BY <1>2, <1>3 DEF vars, QueueInv

LEMMA QueueStep == QueueInv /\ [Next]_vars => QueueInv'
<1> SUFFICES ASSUME QueueInv, [Next]_vars PROVE QueueInv'
  OBVIOUS
<1>1. ASSUME NEW p \in Procs, NEW r \in Blades, CheckInbox(p, r) \/ PeekInbox(p, r) \/ Ack(p, r)
      PROVE  QueueInv'
  <2>1. UNCHANGED <<minted, sender>> /\ sender \in [Messages -> Procs \cup {NoOne}]
    BY <1>1 DEF CheckInbox, PeekInbox, Ack, QueueInv, TypeOK
  <2>2. minted' \in minted .. MaxMessages
    BY <2>1, MailboxAssumption DEF QueueInv, TypeOK
  <2>3. \A m \in Messages : m > minted' => sender'[m] = NoOne
    BY <2>1 DEF QueueInv, Placed
  <2>4. PICK op \in {"check_inbox", "peek_inbox", "ack"}, ids \in SUBSET (1 .. minted) :
          Calls(p, op, r, ids)
    BY <1>1 DEF CheckInbox, PeekInbox, Ack, QueueInv, TypeOK
  <2> QED BY <2>1, <2>2, <2>3, <2>4, BeginsKeeps
<1> QED BY <1>1, SendKeeps, LockKeeps, SendWritesKeeps, CheckInboxWritesKeeps, AckWritesKeeps, ReturnKeeps, DieKeeps, StutterKeeps
        DEF Next

(* Messages in one place each are handed out once: as many as there are    *)
(* places, to one process, and none that is still queued.                  *)
LEMMA DeliveredFromPlaces == QueueInv => DeliveredOnce
<1> SUFFICES ASSUME QueueInv, NEW p \in Procs
             PROVE  /\ Cardinality(Elems(Handed(p))) = Len(Handed(p))
                    /\ \A q \in Procs \ {p} : Elems(Handed(p)) \cap Elems(Handed(q)) = {}
                    /\ \A r \in Blades : Elems(Handed(p)) \cap Elems(queue[r]) = {}
  BY DEF DeliveredOnce
<1>1. Cardinality(Elems(Handed(p))) = Len(Handed(p))
  <2>1. Handed(p) \in Seq(Messages)
    BY HandedIs DEF QueueInv
  <2>2. \A i, j \in DOMAIN Handed(p) : Handed(p)[i] = Handed(p)[j] => i = j
    BY DEF QueueInv, Placed
  <2> QED BY <2>1, <2>2, DistinctElems
<1>2. \A q \in Procs \ {p} : Elems(Handed(p)) \cap Elems(Handed(q)) = {}
  BY DEF QueueInv, Placed, Elems
<1>3. \A r \in Blades : Elems(Handed(p)) \cap Elems(queue[r]) = {}
  BY DEF QueueInv, Placed, Elems
<1> QED BY <1>1, <1>2, <1>3

(* Type correctness of the queues, the locks and the calls (TypeOK).       *)
THEOREM QueuesTypeCorrect == Spec => []TypeOK
<1>1. QueueInv => TypeOK
  BY DEF QueueInv
<1> QED BY <1>1, QueueInit, QueueStep, PTL DEF Spec

(* check_inbox holds the lock across its read and clear: no number of      *)
(* polls, sends, acknowledgements and deaths hands a message out twice, or *)
(* hands out one that is still on disk (DeliveredOnce).                    *)
THEOREM AtMostOnce == Spec => []DeliveredOnce
BY QueueInit, QueueStep, DeliveredFromPlaces, PTL DEF Spec

(* FIFO per sender: send mints before it waits for the lock and a process  *)
(* has one call at a time, so a later message of the same sender is never  *)
(* ahead of an earlier one (SenderOrder).                                  *)
THEOREM OrderKept == Spec => []SenderOrder
<1>1. QueueInv => SenderOrder
  BY DEF QueueInv
<1> QED BY <1>1, QueueInit, QueueStep, PTL DEF Spec

-----------------------------------------------------------------------------
(* The mailbox as a queue per recipient.                                   *)

LEMMA InboxInit == Init => Queues!Init
BY DEF Init, Queues!Init, Messages, Queues!Messages

(* The step of a call that writes is the step of the queue; all others     *)
(* leave it alone.                                                         *)
LEMMA InboxSend ==
    ASSUME QueueInv, NEW p \in Procs, SendWrites(p)
    PROVE  Queues!Next
<1> DEFINE r == call[p].to
<1>1. /\ Writes(p, "send") /\ Settle(call[p].ids, "pending")
      /\ Persist(p, Append(call[p].snap, CHOOSE m \in call[p].ids : TRUE))
  BY DEF SendWrites
<1>2. call[p].op = "send" /\ call[p].at = "loaded" /\ r \in Blades /\ call[p].snap = queue[r]
  BY <1>1, Loaded
<1>3. PICK m \in Messages : call[p].ids = {m} /\ fate[m] = "unsent"
  BY <1>2 DEF QueueInv, Sending
<1>4. queue' = [queue EXCEPT ![r] = Append(@, m)] /\ Settle({m}, "pending")
  BY <1>1, <1>2, <1>3 DEF Persist
<1>5. Queues!Send(r, m)
  BY <1>3, <1>4 DEF Queues!Send, Queues!Settle, Settle, Queues!Messages, Messages
<1> QED BY <1>2, <1>3, <1>5 DEF Queues!Next, Queues!Messages, Messages

LEMMA InboxDrain ==
    ASSUME QueueInv, NEW p \in Procs, CheckInboxWrites(p)
    PROVE  Queues!Next \/ UNCHANGED <<queue, fate>>
<1> DEFINE r == call[p].to
<1>1. /\ Writes(p, "check_inbox") /\ Settle(Elems(call[p].snap), "drained") /\ Persist(p, <<>>)
  BY DEF CheckInboxWrites
<1>2. r \in Blades /\ call[p].snap = queue[r] /\ queue' = [queue EXCEPT ![r] = <<>>]
      /\ queue[r] \in Seq(Messages)
  BY <1>1, Loaded DEF Persist
<1>3. CASE queue[r] = <<>>
  <2>1. queue' = queue
    BY <1>2, <1>3 DEF QueueInv, TypeOK
  <2>2. Elems(call[p].snap) = {}
    BY <1>2, <1>3 DEF Elems
  <2>3. fate' = fate
    BY <1>1, <2>2 DEF Settle, QueueInv, TypeOK
  <2> QED BY <2>1, <2>3
<1>4. CASE queue[r] # <<>>
  <2>1. Queues!Drain(r)
    BY <1>1, <1>2, <1>4 DEF Queues!Drain, Queues!Settle, Settle, Queues!Messages, Messages,
       Queues!Elems, Elems
  <2> QED BY <1>2, <2>1 DEF Queues!Next
<1> QED BY <1>3, <1>4

LEMMA InboxAck ==
    ASSUME QueueInv, NEW p \in Procs, AckWrites(p)
    PROVE  Queues!Next
<1> DEFINE r == call[p].to
           ids == call[p].ids
<1>1. /\ Writes(p, "ack") /\ Settle(Elems(call[p].snap) \cap ids, "acked")
      /\ Persist(p, Without(call[p].snap, ids))
  BY DEF AckWrites
<1>2. /\ r \in Blades /\ call[p].snap = queue[r] /\ ids \in SUBSET Messages
      /\ queue' = [queue EXCEPT ![r] = Without(@, ids)]
  BY <1>1, Loaded DEF Persist, Operations
<1>3. Queues!Without(queue[r], ids) = Without(queue[r], ids)
  BY DEF Queues!Without, Without
<1>4. Queues!Ack(r, ids)
  BY <1>1, <1>2, <1>3 DEF Queues!Ack, Queues!Settle, Settle, Queues!Messages, Messages,
     Queues!Elems, Elems
<1> QED BY <1>2, <1>4 DEF Queues!Next, Queues!Messages, Messages

LEMMA InboxStep == QueueInv /\ [Next]_vars => [Queues!Next]_(Queues!vars)
<1> SUFFICES ASSUME QueueInv, [Next]_vars PROVE Queues!Next \/ UNCHANGED <<queue, fate>>
  BY DEF Queues!vars
<1>1. ASSUME NEW p \in Procs,
             \/ \E r \in Blades : Send(p, r) \/ CheckInbox(p, r) \/ PeekInbox(p, r) \/ Ack(p, r)
             \/ Lock(p) \/ Return(p) \/ Die(p)
      PROVE  UNCHANGED <<queue, fate>>
  BY <1>1 DEF Send, CheckInbox, PeekInbox, Ack, Calls, Lock, Return, Die
<1>2. UNCHANGED vars => UNCHANGED <<queue, fate>>
  BY DEF vars
<1> QED BY <1>1, <1>2, InboxSend, InboxDrain, InboxAck DEF Next

(* Refinement: with files, locks, snapshots and processes that die between *)
(* any two steps, the mailbox is a queue per recipient (ImplementsInbox).  *)
THEOREM MailboxImplementsInbox == Spec => ImplementsInbox
BY QueueInit, QueueStep, InboxInit, InboxStep, PTL DEF Spec, ImplementsInbox, Queues!Spec

-----------------------------------------------------------------------------
(* Acknowledgements.                                                       *)

Fields == {"op", "at", "to", "ids", "snap"}

(* Ids are learnt from peeks only, also those an ack carries already. *)
AckInv ==
    /\ DOMAIN call = Procs /\ \A p \in Procs : DOMAIN call[p] = Fields
    /\ DOMAIN known = Procs /\ \A p \in Procs : known[p] \subseteq peeked
    /\ \A p \in Procs : call[p].op = "ack" => call[p].ids \subseteq peeked
    /\ AckedWasSeen

LEMMA IdleFields == DOMAIN Idle = Fields /\ Idle.op = "none" /\ Idle.ids = {}
BY DEF Idle, Fields

(* A process moves on; it does not begin to carry ids nobody was shown. *)
LEMMA Moves ==
    ASSUME AckInv, NEW p \in Procs, NEW c, Goes(p, c),
           DOMAIN c = Fields, c.op = "ack" => c.ids \subseteq peeked,
           UNCHANGED <<known, peeked>>, AckedWasSeen'
    PROVE  AckInv'
<1>1. DOMAIN call' = Procs /\ \A q \in Procs : call'[q] = IF q = p THEN c ELSE call[q]
  BY DEF Goes, AckInv
<1>2. QED BY <1>1 DEF AckInv

LEMMA Begins ==
    ASSUME AckInv, NEW p \in Procs, NEW op, NEW r, NEW ids, Calls(p, op, r, ids),
           op = "ack" => ids \subseteq known[p]
    PROVE  AckInv'
<1> DEFINE c == [Idle EXCEPT !.op = op, !.at = "waiting", !.to = r, !.ids = ids]
<1>1. DOMAIN c = Fields /\ c.op = op /\ c.ids = ids
  BY DEF Idle, Fields
<1>2. UNCHANGED <<known, peeked>> /\ AckedWasSeen' /\ Goes(p, c)
  BY DEF Calls, AckInv, AckedWasSeen
<1>3. op = "ack" => ids \subseteq peeked
  BY DEF AckInv
<1>4. QED BY <1>1, <1>2, <1>3, Moves

(* A write settles fates and leaves the call as it was. *)
LEMMA Writing ==
    ASSUME AckInv, NEW p \in Procs, Done(p), AckedWasSeen'
    PROVE  AckInv'
<1> DEFINE c == [call[p] EXCEPT !.at = "done"]
<1>1. DOMAIN c = Fields /\ c.op = call[p].op /\ c.ids = call[p].ids
  BY DEF AckInv, Fields
<1>2. UNCHANGED <<known, peeked>> /\ Goes(p, c)
  BY DEF Done
<1>3. QED BY <1>1, <1>2, Moves DEF AckInv

LEMMA AckInit == Init => AckInv
BY IdleFields DEF Init, AckInv, AckedWasSeen

LEMMA AckStep == AckInv /\ [Next]_vars => AckInv'
<1> SUFFICES ASSUME AckInv, [Next]_vars PROVE AckInv'
  OBVIOUS
<1>1. ASSUME NEW p \in Procs, NEW r \in Blades,
             Send(p, r) \/ CheckInbox(p, r) \/ PeekInbox(p, r)
      PROVE  AckInv'
  <2>1. \E op \in {"send", "check_inbox", "peek_inbox"}, ids \in {{}, {minted + 1}} :
          Calls(p, op, r, ids)
    BY <1>1 DEF Send, CheckInbox, PeekInbox
  <2>2. QED BY <2>1, Begins
<1>2. ASSUME NEW p \in Procs, NEW r \in Blades, Ack(p, r) PROVE AckInv'
  <2>1. \E ids \in SUBSET known[p] : Calls(p, "ack", r, ids)
    BY <1>2 DEF Ack
  <2>2. QED BY <2>1, Begins
<1>3. ASSUME NEW p \in Procs, Lock(p) PROVE AckInv'
  <2> DEFINE c == [call[p] EXCEPT !.at = "loaded", !.snap = queue[call[p].to]]
  <2>1. DOMAIN c = Fields /\ c.op = call[p].op /\ c.ids = call[p].ids
    BY DEF AckInv, Fields
  <2>2. Goes(p, c) /\ UNCHANGED <<known, peeked>> /\ AckedWasSeen'
    BY <1>3 DEF Lock, AckInv, AckedWasSeen
  <2>3. QED BY <2>1, <2>2, Moves DEF AckInv
<1>4. ASSUME NEW p \in Procs, SendWrites(p) \/ CheckInboxWrites(p) PROVE AckInv'
  <2>1. Done(p) /\ peeked' = peeked
    BY <1>4 DEF SendWrites, CheckInboxWrites, Done
  <2>2. \A m \in Messages : fate'[m] = "acked" => fate[m] = "acked"
    BY <1>4 DEF SendWrites, CheckInboxWrites, Settle
  <2>3. QED BY <2>1, <2>2, Writing DEF AckInv, AckedWasSeen
<1>5. ASSUME NEW p \in Procs, AckWrites(p) PROVE AckInv'
  <2>1. Done(p) /\ peeked' = peeked /\ call[p].ids \subseteq peeked
    BY <1>5 DEF AckWrites, Writes, Done, AckInv
  <2>2. \A m \in Messages : fate'[m] = "acked" => fate[m] = "acked" \/ m \in call[p].ids
    BY <1>5 DEF AckWrites, Settle
  <2>3. QED BY <2>1, <2>2, Writing DEF AckInv, AckedWasSeen
<1>6. ASSUME NEW p \in Procs, Return(p) PROVE AckInv'
  <2>1. /\ DOMAIN call' = Procs
        /\ \A q \in Procs : call'[q] = IF q = p THEN Idle ELSE call[q]
    BY <1>6 DEF Return, Goes, AckInv
  <2>2. /\ peeked \subseteq peeked' /\ DOMAIN known' = Procs
        /\ \A q \in Procs : known'[q] \subseteq peeked'
    BY <1>6 DEF Return, AckInv
  <2>3. AckedWasSeen'
    BY <1>6, <2>2 DEF Return, AckInv, AckedWasSeen
  <2>4. QED BY <2>1, <2>2, <2>3, IdleFields DEF AckInv
<1>7. ASSUME NEW p \in Procs, Die(p) PROVE AckInv'
  <2>1. /\ DOMAIN call' = Procs
        /\ \A q \in Procs : call'[q] = IF q = p THEN Idle ELSE call[q]
    BY <1>7 DEF Die, Goes, AckInv
  <2>2. QED BY <1>7, <2>1, IdleFields DEF Die, AckInv, AckedWasSeen
<1>8. CASE UNCHANGED vars
  BY <1>8 DEF vars, AckInv, AckedWasSeen
<1>9. QED BY <1>1, <1>2, <1>3, <1>4, <1>5, <1>6, <1>7, <1>8 DEF Next

(* Ack-before-clear loses nothing: what was acknowledged had been shown. *)
THEOREM AcksAreInformed == Spec => []AckedWasSeen
<1>1. AckInv => AckedWasSeen
  BY DEF AckInv
<1>2. QED BY AckInit, AckStep, <1>1, PTL DEF Spec
=============================================================================
