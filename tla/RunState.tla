------------------------------ MODULE RunState ------------------------------
(***************************************************************************)
(* The claim lifecycle of crates/apohara-dispatch/src/state.rs: the closed *)
(* set of states, the scheduler's input filter and the legal transitions.  *)
(***************************************************************************)

RunStates == {"Unclaimed", "Claimed", "Running", "RetryQueued", "Released"}

(* The states of a claim somebody is working under: the reaper, the write  *)
(* guard and the pre-filter all test exactly this pair.                    *)
LiveStates == {"Claimed", "Running"}

is_claimable(s) == s \in {"Unclaimed", "Released"}

can_transition(from, to) ==
    <<from, to>> \in
        {<<"Unclaimed", "Claimed">>,
         <<"Claimed", "Running">>,      <<"Claimed", "Released">>,
         <<"Running", "RetryQueued">>,  <<"Running", "Released">>,
         <<"RetryQueued", "Claimed">>,  <<"RetryQueued", "Released">>,
         <<"Released", "Unclaimed">>}
=============================================================================
