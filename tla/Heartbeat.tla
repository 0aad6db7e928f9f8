------------------------------ MODULE Heartbeat ------------------------------
(***************************************************************************)
(* Discovery and failure detection of an axo_endpoint mesh: the heartbeat   *)
(* publish loop, ZmqHeartbeatSubscriber, the PEER_ANNOUNCE exchange and the *)
(* eviction loop.  Implements Membership.                                   *)
(*                                                                          *)
(* Time is abstracted to what evict_stale tells apart.  A peer outlives its *)
(* TTL because its process is down, or because a whole TTL's worth of its   *)
(* heartbeats was lost on the way (at most MaxHbLosses times).              *)
(***************************************************************************)
EXTENDS Membership

CONSTANTS
  Seeds,         \* Seeds[n]: the nodes named in n's AXO_ENDPOINT_SUB_CONNECT
  MaxHbCrashes,  \* bound on process failures
  MaxHbLosses,   \* bound on TTL-long losses between two running nodes
  QuickRestart   \* a process may be back before its peers have evicted it

ASSUME SeedsAssumption == Seeds \in [Nodes -> SUBSET Nodes]
ASSUME BudgetAssumption ==
  MaxHbCrashes \in Nat /\ MaxHbLosses \in Nat /\ QuickRestart \in BOOLEAN

VARIABLES
  subs,       \* subs[n]: nodes n's SUB socket is connected to (_connected)
  announces,  \* PEER_ANNOUNCE commands <<sender, receiver>> in flight
  hbCrashes, hbLosses   \* how much of the two budgets is used

hbVars == <<up, peers, view, subs, announces, hbCrashes, hbLosses>>

\* Peers, views, connections and announcements are of nodes of the mesh.
HbTypeOK ==
  /\ MemberTypeOK
  /\ subs \in [Nodes -> SUBSET Nodes]
  /\ announces \subseteq Nodes \X Nodes
  /\ hbCrashes \in Nat /\ hbLosses \in Nat

HbInit ==
  /\ MemberInit
  /\ subs = Seeds
  /\ announces = {}
  /\ hbCrashes = 0 /\ hbLosses = 0

-----------------------------------------------------------------------------

\* Mutant of ReceiveHeartbeat: the new peer is not sent a PEER_ANNOUNCE.
ReceiveHeartbeatSilently(n, m) ==
  /\ up[n] /\ up[m] /\ n # m
  /\ m \in subs[n]
  /\ peers' = [peers EXCEPT ![n] = @ \cup {m}]
  /\ subs' = [subs EXCEPT ![n] = @ \cup {m}]
  /\ UNCHANGED <<up, view, announces, hbCrashes, hbLosses>>

\* on_heartbeat, and for an unknown peer App._on_new_peer: subscribe to its
\* PUB address and ask it with PEER_ANNOUNCE to subscribe to ours.
ReceiveHeartbeat(n, m) ==
  /\ up[n] /\ up[m] /\ n # m
  /\ m \in subs[n]
  /\ peers' = [peers EXCEPT ![n] = @ \cup {m}]
  /\ subs' = [subs EXCEPT ![n] = @ \cup {m}]
  /\ announces' = IF m \in peers[n] THEN announces
                                    ELSE announces \cup {<<n, m>>}
  /\ UNCHANGED <<up, view, hbCrashes, hbLosses>>

\* PeerAnnounceHandler.handle on m: subscribe to the announcing node n.
ReceiveAnnounce(n, m) ==
  /\ <<n, m>> \in announces
  /\ up[m]
  /\ announces' = announces \ {<<n, m>>}
  /\ subs' = [subs EXCEPT ![m] = @ \cup {n}]
  /\ UNCHANGED <<up, peers, view, hbCrashes, hbLosses>>

\* Fire-and-forget: what is sent to a process that is down is gone after the
\* socket's linger time.
LoseAnnounce(n, m) ==
  /\ <<n, m>> \in announces
  /\ ~up[m]
  /\ announces' = announces \ {<<n, m>>}
  /\ UNCHANGED <<up, peers, view, subs, hbCrashes, hbLosses>>

\* run_heartbeat_gc at n finds m's last heartbeat older than the TTL: m's
\* process is down, ...
EvictDown(n, m) ==
  /\ up[n] /\ m \in peers[n]
  /\ ~up[m]
  /\ peers' = [peers EXCEPT ![n] = @ \ {m}]
  /\ UNCHANGED <<up, view, subs, announces, hbCrashes, hbLosses>>

\* ... or its heartbeats were lost.
EvictLost(n, m) ==
  /\ up[n] /\ m \in peers[n]
  /\ up[m] /\ hbLosses < MaxHbLosses
  /\ hbLosses' = hbLosses + 1
  /\ peers' = [peers EXCEPT ![n] = @ \ {m}]
  /\ UNCHANGED <<up, view, subs, announces, hbCrashes>>

HbElect(n) ==
  /\ Elect(n)
  /\ UNCHANGED <<subs, announces, hbCrashes, hbLosses>>

HbCrash(n) ==
  /\ hbCrashes < MaxHbCrashes
  /\ Crash(n)
  /\ hbCrashes' = hbCrashes + 1
  /\ UNCHANGED <<subs, announces, hbLosses>>

\* No running node has n among its peers: the TTL has passed everywhere.
Unremembered(n) == \A m \in Nodes : up[m] => n \notin peers[m]

\* Mutant of HbRestart: the elector's view outlives the process.
HbRestartWarm(n) ==
  /\ ~up[n]
  /\ QuickRestart \/ Unremembered(n)
  /\ up' = [up EXCEPT ![n] = TRUE]
  /\ peers' = [peers EXCEPT ![n] = {}]
  /\ subs' = [subs EXCEPT ![n] = Seeds[n]]
  /\ UNCHANGED <<view, announces, hbCrashes, hbLosses>>

\* App.__init__ and run() again: only the configured subscriptions remain.
HbRestart(n) ==
  /\ QuickRestart \/ Unremembered(n)
  /\ Restart(n)
  /\ subs' = [subs EXCEPT ![n] = Seeds[n]]
  /\ UNCHANGED <<announces, hbCrashes, hbLosses>>

HbNext ==
  \E n \in Nodes :
    \/ \E m \in Nodes : \/ ReceiveHeartbeat(n, m)
                        \/ ReceiveAnnounce(n, m)
                        \/ LoseAnnounce(n, m)
                        \/ EvictDown(n, m)
                        \/ EvictLost(n, m)
    \/ HbElect(n)
    \/ HbCrash(n)
    \/ HbRestart(n)

\* Every loop of a running endpoint keeps running: the publish loop (the tick,
\* and the heartbeats others receive), the subscriber thread, the router thread
\* and the eviction loop; time passes.  Failures and restarts are not owed.
HbFairness ==
  \A n \in Nodes :
    /\ WF_hbVars(HbElect(n))
    /\ \A m \in Nodes : /\ WF_hbVars(ReceiveHeartbeat(n, m))
                        /\ WF_hbVars(ReceiveAnnounce(n, m))
                        /\ WF_hbVars(EvictDown(n, m))

HbSpec == HbInit /\ [][HbNext]_hbVars /\ HbFairness

-----------------------------------------------------------------------------

HbRunning == {n \in Nodes : up[n]}

\* "every node converges on the same winner independently" (bully.py): once
\* failures and losses end, all running nodes follow the running node with the
\* greatest id.
Converges ==
  <>[](\A n \in HbRunning : view[n].leader = Highest(HbRunning))

\* Discovery is mutual (PeerAnnounceHandler): whenever a running node knows
\* another, that one is subscribed to it or has the request to be under way.  So
\* it is unless a process is back before it was evicted.
DiscoveryIsMutual ==
  \A n, m \in HbRunning :
    m \in peers[n] => \/ n \in subs[m]
                      \/ <<n, m>> \in announces

=============================================================================
