----------------------------- MODULE QuorumWatch -----------------------------
(***************************************************************************)
(* The quorum bookkeeping of run_consensus_tick: a node compares the        *)
(* members it sees with a majority of the most it has ever seen, and emits  *)
(* CLUSTER_QUORUM_LOST and CLUSTER_QUORUM_RESTORED when the comparison      *)
(* turns.  The events are only reports; no operation waits for a quorum.    *)
(***************************************************************************)
EXTENDS Membership

VARIABLES
  high,    \* high[n]: App._cluster_high_water
  seen,    \* seen[n]: App._cluster_member_ids, {} before the first tick
  alarm    \* alarm[n]: the last quorum event of n's process was a LOST

quorumVars == <<up, peers, view, high, seen, alarm>>

\* The tick's bookkeeping: a high water mark of members and the last members seen.
QuorumTypeOK ==
  /\ MemberTypeOK
  /\ high \in [Nodes -> Nat]
  /\ seen \in [Nodes -> SUBSET Nodes]
  /\ alarm \in [Nodes -> BOOLEAN]

QuorumInit ==
  /\ MemberInit
  /\ high = [n \in Nodes |-> 0]
  /\ seen = [n \in Nodes |-> {}]
  /\ alarm = [n \in Nodes |-> FALSE]

-----------------------------------------------------------------------------

\* A strict majority of the high water mark h.
HasQuorum(members, h) == Cardinality(members) >= (h \div 2) + 1

\* max(high_water_mark, len(member_ids))
NewHighWater(n, members) ==
  IF Cardinality(members) > high[n] THEN Cardinality(members) ELSE high[n]

\* Mutant of Alarm: no RESTORED event.
AlarmForGood(n, members) ==
  \/ /\ seen[n] # {}
     /\ HasQuorum(seen[n], high[n])
     /\ ~HasQuorum(members, NewHighWater(n, members))
  \/ alarm[n]

\* What the event of a tick other than the first leaves: a LOST, no RESTORED, or
\* what was.  (A CLUSTER_DEGRADED per evicted peer while the quorum lasts leaves
\* no state.)
Alarm(n, members) ==
  LET had == HasQuorum(seen[n], high[n])
      has == HasQuorum(members, NewHighWater(n, members))
      lost == seen[n] # {} /\ had /\ ~has
      restored == seen[n] # {} /\ ~had /\ has
  IN  lost \/ (alarm[n] /\ ~restored)

\* Mutant of Tick: members that were evicted stay among the members seen.
TickAccumulating(n) ==
  LET members == peers[n] \cup {n} \cup seen[n]
  IN  /\ Elect(n)
      /\ high' = [high EXCEPT ![n] = NewHighWater(n, members)]
      /\ seen' = [seen EXCEPT ![n] = members]
      /\ alarm' = [alarm EXCEPT ![n] = Alarm(n, members)]

\* run_consensus_tick up to the replication.
Tick(n) ==
  LET members == peers[n] \cup {n}
  IN  /\ Elect(n)
      /\ high' = [high EXCEPT ![n] = NewHighWater(n, members)]
      /\ seen' = [seen EXCEPT ![n] = members]
      /\ alarm' = [alarm EXCEPT ![n] = Alarm(n, members)]

QuorumRestart(n) ==
  /\ Restart(n)
  /\ high' = [high EXCEPT ![n] = 0]
  /\ seen' = [seen EXCEPT ![n] = {}]
  /\ alarm' = [alarm EXCEPT ![n] = FALSE]

\* Heartbeats and failures, between ticks.
Between(n) ==
  /\ \/ \E m \in Nodes : Discover(n, m)
     \/ \E S \in SUBSET Nodes : Forget(n, S)
     \/ Crash(n)
  /\ UNCHANGED <<high, seen, alarm>>

QuorumNext == \E n \in Nodes : Tick(n) \/ QuorumRestart(n) \/ Between(n)

QuorumSpec == QuorumInit /\ [][QuorumNext]_quorumVars

-----------------------------------------------------------------------------

\* The events tell the truth: after every tick the last one was a LOST exactly
\* if the members seen are no majority of the high water mark, however the
\* cluster grew and shrank; no turn is missed and none is reported twice.
AlarmIsTruthful ==
  \A n \in Nodes : seen[n] # {} => (alarm[n] <=> ~HasQuorum(seen[n], high[n]))

\* A split leadership is one of blindness, never of a stale view: if two nodes
\* lead, the lower one's last tick did not see the higher one.
RivalIsUnseen ==
  \A n, m \in Nodes : n < m /\ IsLeader(n) /\ IsLeader(m) => m \notin seen[n]

=============================================================================
