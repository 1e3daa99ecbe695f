---------------------------- MODULE MCMeshDriver ----------------------------
(* MeshDriver for TLC: plans of two slices and of none, a roster of two    *)
(* binaries and of one.                                                    *)
EXTENDS MeshDriver
TwoAreas == <<"impl-a", "impl-b">>
NoAreas  == <<>>
TwoBinaries == <<"claude", "codex">>
OneBinary   == <<"claude">>
=============================================================================
