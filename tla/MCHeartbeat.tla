----------------------------- MODULE MCHeartbeat -----------------------------
(* Instances of Heartbeat for TLC. *)
EXTENDS Heartbeat

\* LaunchEndpointNodeUseCase: each node is given the nodes launched before it,
\* here in the order of their ids.
LaunchedUpwards == [n \in Nodes |-> {m \in Nodes : m < n}]

=============================================================================
