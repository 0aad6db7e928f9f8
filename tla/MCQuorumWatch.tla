---------------------------- MODULE MCQuorumWatch ----------------------------
(* Instances of QuorumWatch for TLC. *)
EXTENDS QuorumWatch

\* All endpoints are launched; discovery has not begun.
LaunchedInit == QuorumInit /\ \A n \in Nodes : up[n]
LaunchedSpec == LaunchedInit /\ [][QuorumNext]_quorumVars

=============================================================================
