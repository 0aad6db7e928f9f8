----------------------------- MODULE MCVemFleet -----------------------------
(* An instance of VemFleet for TLC: a leader and a follower in one environment. *)
EXTENDS VemFleet

CONSTANTS e1, e2, v1

MCLaunch == [e \in {e1, e2} |-> v1]
=============================================================================
