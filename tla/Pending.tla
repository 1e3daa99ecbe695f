------------------------------ MODULE Pending ------------------------------
(* Queues of messages as sequences of ids. *)
EXTENDS Naturals, Sequences

Elems(s) == {s[i] : i \in DOMAIN s}

(* What an acknowledgement leaves of a queue: the rest, in order. *)
Without(s, ids) ==
    LET rest[i \in 0 .. Len(s)] ==
            IF i = 0 THEN <<>>
            ELSE IF s[i] \in ids THEN rest[i - 1] ELSE Append(rest[i - 1], s[i])
    IN rest[Len(s)]
=============================================================================
