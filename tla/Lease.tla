------------------------------- MODULE Lease --------------------------------
(***************************************************************************)
(* What the claim store promises its callers, without files, locks, clocks *)
(* or processes.  A task is owned under at most one lease at a time.  A    *)
(* lease is identified by its token; tokens are never reused.  A lease     *)
(* ends exactly once, in one of three ways: its result is accepted, it is  *)
(* released out of band, or the reaper takes it back.                      *)
(***************************************************************************)
EXTENDS Naturals

CONSTANTS Tasks,      \* the task ids that can be claimed
          MaxTokens   \* bound on the leases ever granted

VARIABLES owner,      \* owner[t]: the token t is leased under, 0 if it is free
          fate        \* fate[k]: what became of the lease with token k

vars == <<owner, fate>>

Tokens   == 1 .. MaxTokens
Endings  == {"accepted", "released", "reaped"}
Fates    == {"unminted", "live"} \cup Endings

Init ==
    /\ owner = [t \in Tasks |-> 0]
    /\ fate = [k \in Tokens |-> "unminted"]

(* A free task is leased under a token never seen before. *)
Grant(t, k) ==
    /\ owner[t] = 0
    /\ fate[k] = "unminted"
    /\ owner' = [owner EXCEPT ![t] = k]
    /\ fate' = [fate EXCEPT ![k] = "live"]

(* The lease a task is owned under ends, and the task is free again. *)
End(t, how) ==
    /\ owner[t] # 0
    /\ owner' = [owner EXCEPT ![t] = 0]
    /\ fate' = [fate EXCEPT ![owner[t]] = how]

Next ==
    \E t \in Tasks :
        \/ \E k \in Tokens : Grant(t, k)
        \/ \E how \in Endings : End(t, how)

Spec == Init /\ [][Next]_vars
=============================================================================
