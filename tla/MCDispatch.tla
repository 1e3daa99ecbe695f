----------------------------- MODULE MCDispatch -----------------------------
EXTENDS Dispatch

(* Two dispatches of one CLI. *)
SameBinary == [r \in Requests |-> "claude"]

(* One of them writes two lines, the other none. *)
LinesOf == [r \in Requests |-> IF r = "r1" THEN 2 ELSE 0]
=============================================================================
