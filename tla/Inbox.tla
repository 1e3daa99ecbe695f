------------------------------- MODULE Inbox --------------------------------
(***************************************************************************)
(* What the mailbox promises, without files, locks or processes: a queue   *)
(* per recipient.  A message enters its recipient's queue once, at the     *)
(* tail, and leaves it once: drained with all that is pending, or because  *)
(* it was acknowledged, which leaves the rest in order; to acknowledge what*)
(* is gone changes nothing.                                                *)
(***************************************************************************)
EXTENDS Pending

CONSTANTS Blades, MaxMessages

VARIABLES queue,  \* queue[r]: the messages pending for r
          fate    \* fate[m]: what became of message m

vars == <<queue, fate>>

Messages == 1 .. MaxMessages
Fates == {"unsent", "pending", "drained", "acked"}

Settle(ms, how) == fate' = [m \in Messages |-> IF m \in ms THEN how ELSE fate[m]]

Init ==
    /\ queue = [r \in Blades |-> <<>>]
    /\ fate = [m \in Messages |-> "unsent"]

Send(r, m) ==
    /\ fate[m] = "unsent"
    /\ queue' = [queue EXCEPT ![r] = Append(@, m)]
    /\ Settle({m}, "pending")

Drain(r) ==
    /\ queue[r] # <<>>
    /\ queue' = [queue EXCEPT ![r] = <<>>]
    /\ Settle(Elems(queue[r]), "drained")

Ack(r, ids) ==
    /\ queue' = [queue EXCEPT ![r] = Without(@, ids)]
    /\ Settle(Elems(queue[r]) \cap ids, "acked")

Next ==
    \E r \in Blades :
        \/ \E m \in Messages : Send(r, m)
        \/ Drain(r)
        \/ \E ids \in SUBSET Messages : Ack(r, ids)

Spec == Init /\ [][Next]_vars
=============================================================================
