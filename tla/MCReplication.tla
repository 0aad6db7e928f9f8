---------------------------- MODULE MCReplication ----------------------------
(* Instances of Replication for TLC. *)
EXTENDS Replication

\* A mesh after discovery, before the first write: every node is running, knows
\* all others and follows the greatest id, and the pulls found nothing.
FormedInit ==
  /\ up = [n \in Nodes |-> TRUE]
  /\ peers = [n \in Nodes |-> Nodes \ {n}]
  /\ view = [n \in Nodes |-> Recompute(InitialView(n), n, Nodes)]
  /\ SyncInit

FormedSpec == FormedInit /\ [][ReplNext]_replVars
FormedFairSpec == FormedSpec /\ ReplFairness

=============================================================================
