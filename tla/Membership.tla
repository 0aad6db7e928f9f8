----------------------------- MODULE Membership -----------------------------
(***************************************************************************)
(* What the leader-election layer of an axo_endpoint mesh offers to the     *)
(* layers above it (replication, slot ledger, result sync).                 *)
(*                                                                          *)
(* Every node keeps a set of peers it believes alive and a leader view      *)
(* (BullyLeaderElector): the greatest id among itself and its peers, with a *)
(* term that counts the view's changes ON THAT NODE.  There is no message   *)
(* exchange between electors; peers appear and disappear in any order.  How *)
(* heartbeats make them do so is the subject of module Heartbeat, which     *)
(* implements this specification.                                           *)
(***************************************************************************)
EXTENDS Integers, FiniteSets

CONSTANTS
  Nodes,    \* endpoint ids; the code orders its string ids, the model numbers
  MaxTerm   \* bound on a node's term: a tick that would exceed it is not taken

ASSUME NodesAssumption == Nodes \subseteq Nat /\ IsFiniteSet(Nodes)
ASSUME MaxTermAssumption == MaxTerm \in Nat

VARIABLES
  up,      \* up[n]: the process of endpoint n is running
  peers,   \* peers[n]: ids in n's HeartbeatSubscriber._peers
  view     \* view[n]: BullyLeaderElector._view of n

memberVars == <<up, peers, view>>

-----------------------------------------------------------------------------

\* LeaderView; leader_ids is a singleton under Bully (leader_set_size = 1).
LeaderView == [leader : Nodes, term : Nat]

\* max(all_ids)
Highest(S) == CHOOSE x \in S : \A y \in S : y <= x

\* BullyLeaderElector.__init__: a fresh node leads itself in term 0.
InitialView(n) == [leader |-> n, term |-> 0]

\* Mutant of Recompute: a leader that is still alive is kept although a greater id
\* has appeared.
RecomputeSticky(v, n, members) ==
  IF v.leader \in members \cup {n}
    THEN v
    ELSE [leader |-> Highest(members \cup {n}), term |-> v.term + 1]

\* BullyLeaderElector.recompute
Recompute(v, n, members) ==
  LET winner == Highest(members \cup {n})
  IN  IF v.leader = winner
        THEN v
        ELSE [leader |-> winner, term |-> v.term + 1]

\* BullyLeaderElector.is_leader(self_id)
IsLeader(n) == view[n].leader = n

\* A node that is down has not been launched yet.
MemberInit ==
  /\ up \in [Nodes -> BOOLEAN]
  /\ peers = [n \in Nodes |-> {}]
  /\ view = [n \in Nodes |-> InitialView(n)]

\* A heartbeat of m makes n remember m.  m may be down by the time n reads it.
Discover(n, m) ==
  /\ up[n] /\ m # n
  /\ peers' = [peers EXCEPT ![n] = @ \cup {m}]
  /\ UNCHANGED <<up, view>>

\* evict_stale: n forgets the peers S it has not heard from for the TTL.
Forget(n, S) ==
  /\ up[n] /\ S \subseteq peers[n]
  /\ peers' = [peers EXCEPT ![n] = @ \ S]
  /\ UNCHANGED <<up, view>>

\* The election part of run_consensus_tick.
Elect(n) ==
  /\ up[n]
  /\ Recompute(view[n], n, peers[n]).term <= MaxTerm
  /\ view' = [view EXCEPT ![n] = Recompute(@, n, peers[n])]
  /\ UNCHANGED <<up, peers>>

\* Nothing of this is persisted: a process that ends takes it along.
Crash(n) ==
  /\ up[n]
  /\ up' = [up EXCEPT ![n] = FALSE]
  /\ UNCHANGED <<peers, view>>

Restart(n) ==
  /\ ~up[n]
  /\ up' = [up EXCEPT ![n] = TRUE]
  /\ peers' = [peers EXCEPT ![n] = {}]
  /\ view' = [view EXCEPT ![n] = InitialView(n)]

MemberNext ==
  \E n \in Nodes :
    \/ \E m \in Nodes : Discover(n, m)
    \/ \E S \in SUBSET Nodes : Forget(n, S)
    \/ Elect(n)
    \/ Crash(n)
    \/ Restart(n)

MemberSpec == MemberInit /\ [][MemberNext]_memberVars

-----------------------------------------------------------------------------

\* Views and peers are of nodes of the mesh.
MemberTypeOK ==
  /\ up \in [Nodes -> BOOLEAN]
  /\ peers \in [Nodes -> SUBSET Nodes]
  /\ view \in [Nodes -> LeaderView]

=============================================================================
