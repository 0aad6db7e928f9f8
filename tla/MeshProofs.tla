----------------------------- MODULE MeshProofs -----------------------------
(***************************************************************************)
(* Theorems about the mesh, for any finite set of nodes: Heartbeat          *)
(* implements Membership, with any seeds and any number of failures;        *)
(* QuorumWatch reports what it sees; Replication, with any catalogs and any *)
(* number of writes, failures and losses and pushes in any order, invents   *)
(* and loses nothing, flushes no function or bucket twice, and in a formed  *)
(* mesh without failures brings followers up to date by every push.         *)
(***************************************************************************)
EXTENDS Heartbeat, QuorumWatch, MCReplication,
        FiniteSetTheorems, WellFoundedInduction, TLAPS

-----------------------------------------------------------------------------
(* Membership: the greatest id exists, and the actions keep the types *)

HasHighest(S) == \E x \in S : \A y \in S : y <= x

\* max() of a non-empty set of ids is defined.  A smallest set without a maximum
\* would have one: that of the set less one element, or that element.
LEMMA HighestExists ==
  ASSUME NEW S \in SUBSET Nodes, S # {}
  PROVE  HasHighest(S)
<1> USE NodesAssumption
<1> DEFINE Bad == {X \in SUBSET Nodes : X # {} /\ ~HasHighest(X)}
           R == StrictSubsetOrdering(Nodes)
<1>1. SUFFICES ASSUME Bad # {} PROVE FALSE
  OBVIOUS
<1>2. IsWellFoundedOn(R, SUBSET Nodes)
  BY FS_StrictSubsetOrderingWellFounded, FS_FiniteSubsetsOfFinite
<1>3. PICK X \in Bad : \A Y \in Bad : <<Y, X>> \notin R
  <2> HIDE DEF R
  <2> QED  BY <1>1, <1>2, WFMin
<1>4. PICK x \in X : x \in Nodes
  OBVIOUS
<1>5. CASE X = {x}
  <2>1. x \in Nat
    BY <1>4
  <2> QED  BY <1>5, <2>1 DEF HasHighest
<1>6. CASE X # {x}
  <2> DEFINE Y == X \ {x}
  <2>1. Y \in SUBSET Nodes /\ Y # {} /\ Y \subseteq X /\ Y # X
    BY <1>6
  <2>2. <<Y, X>> \in R
    BY <2>1 DEF StrictSubsetOrdering
  <2>3. HasHighest(Y)
    BY <1>3, <2>1, <2>2
  <2>4. PICK m \in Y : \A y \in Y : y <= m
    BY <2>3 DEF HasHighest
  <2>5. m \in Nat /\ x \in Nat /\ X \subseteq Nat
    BY <1>4
  <2>6. CASE m <= x
    BY <2>4, <2>5, <2>6 DEF HasHighest
  <2>7. CASE x <= m
    BY <2>4, <2>5, <2>7 DEF HasHighest
  <2> QED  BY <2>5, <2>6, <2>7
<1> QED  BY <1>5, <1>6

LEMMA HighestIsMax ==
  ASSUME NEW S \in SUBSET Nodes, S # {}
  PROVE  Highest(S) \in S /\ \A y \in S : y <= Highest(S)
  BY HighestExists DEF HasHighest, Highest

-----------------------------------------------------------------------------

LEMMA RecomputeType ==
  ASSUME NEW v \in LeaderView, NEW n \in Nodes, NEW S \in SUBSET Nodes
  PROVE  Recompute(v, n, S) \in LeaderView
<1>1. Highest(S \cup {n}) \in Nodes
  BY HighestIsMax
<1> QED  BY <1>1 DEF Recompute, LeaderView

LEMMA MemberTypeInit == MemberInit => MemberTypeOK
  BY NodesAssumption DEF MemberInit, MemberTypeOK, InitialView, LeaderView

LEMMA MemberTypeStep ==
  ASSUME MemberTypeOK, NEW n \in Nodes,
         \/ \E m \in Nodes : Discover(n, m)
         \/ \E S \in SUBSET Nodes : Forget(n, S)
         \/ Elect(n) \/ Crash(n) \/ Restart(n)
         \/ UNCHANGED memberVars
  PROVE  MemberTypeOK'
<1>1. ASSUME NEW m \in Nodes, Discover(n, m) PROVE MemberTypeOK'
  BY <1>1 DEF Discover, MemberTypeOK
<1>2. ASSUME NEW S \in SUBSET Nodes, Forget(n, S) PROVE MemberTypeOK'
  BY <1>2 DEF Forget, MemberTypeOK
<1>3. CASE Elect(n)
  BY <1>3, RecomputeType DEF Elect, MemberTypeOK
<1>4. CASE Crash(n)
  BY <1>4 DEF Crash, MemberTypeOK
<1>5. CASE Restart(n)
  BY <1>5 DEF Restart, MemberTypeOK, InitialView, LeaderView
<1>6. CASE UNCHANGED memberVars
  BY <1>6 DEF memberVars, MemberTypeOK
<1> QED  BY <1>1, <1>2, <1>3, <1>4, <1>5, <1>6

-----------------------------------------------------------------------------
(* Heartbeat *)

\* Every step of the discovery protocol is a step of the election layer's
\* interface, or one it does not see (an announcement travelling).
LEMMA HbStepIsMemberStep == HbNext => [MemberNext]_memberVars
<1> SUFFICES ASSUME HbNext PROVE [MemberNext]_memberVars
  OBVIOUS
<1>1. ASSUME NEW n \in Nodes, NEW m \in Nodes, ReceiveHeartbeat(n, m)
      PROVE  MemberNext
  <2>1. Discover(n, m)
    BY <1>1 DEF ReceiveHeartbeat, Discover
  <2> QED  BY <2>1 DEF MemberNext
<1>2. ASSUME NEW n \in Nodes, NEW m \in Nodes, ReceiveAnnounce(n, m) \/ LoseAnnounce(n, m)
      PROVE  UNCHANGED memberVars
  BY <1>2 DEF ReceiveAnnounce, LoseAnnounce, memberVars
<1>3. ASSUME NEW n \in Nodes, NEW m \in Nodes, EvictDown(n, m) \/ EvictLost(n, m)
      PROVE  MemberNext
  <2>1. Forget(n, {m}) /\ {m} \in SUBSET Nodes
    BY <1>3 DEF EvictDown, EvictLost, Forget
  <2> QED  BY <2>1 DEF MemberNext
<1>4. ASSUME NEW n \in Nodes, HbElect(n) \/ HbCrash(n) \/ HbRestart(n)
      PROVE  MemberNext
  BY <1>4 DEF HbElect, HbCrash, HbRestart, MemberNext
<1> QED  BY <1>1, <1>2, <1>3, <1>4 DEF HbNext

\* Discovery and failure detection provide what the layers above rely on: peers
\* that come and go, an elector that only follows its own node's peers, a state
\* that a restart clears.
THEOREM HeartbeatImplementsMembership == HbSpec => MemberSpec
<1>1. HbInit => MemberInit
  BY DEF HbInit
<1>2. [HbNext]_hbVars => [MemberNext]_memberVars
  BY HbStepIsMemberStep DEF hbVars, memberVars
<1> QED  BY <1>1, <1>2, PTL DEF HbSpec, MemberSpec

-----------------------------------------------------------------------------

LEMMA HbTypeStep ==
  ASSUME HbTypeOK, [HbNext]_hbVars
  PROVE  HbTypeOK'
<1> USE SeedsAssumption, BudgetAssumption
<1>1. MemberTypeOK'
  <2>1. [MemberNext]_memberVars
    BY HbStepIsMemberStep DEF hbVars, memberVars
  <2> QED  BY <2>1, MemberTypeStep DEF HbTypeOK, MemberNext, memberVars, MemberTypeOK
<1>2. ASSUME NEW n \in Nodes, NEW m \in Nodes, ReceiveHeartbeat(n, m)
      PROVE  HbTypeOK'
  BY <1>1, <1>2 DEF ReceiveHeartbeat, HbTypeOK
<1>3. ASSUME NEW n \in Nodes, NEW m \in Nodes, ReceiveAnnounce(n, m)
      PROVE  HbTypeOK'
  BY <1>1, <1>3 DEF ReceiveAnnounce, HbTypeOK
<1>4. ASSUME NEW n \in Nodes, NEW m \in Nodes, LoseAnnounce(n, m)
      PROVE  HbTypeOK'
  BY <1>1, <1>4 DEF LoseAnnounce, HbTypeOK
<1>5. ASSUME NEW n \in Nodes, NEW m \in Nodes, EvictDown(n, m) \/ EvictLost(n, m)
      PROVE  HbTypeOK'
  BY <1>1, <1>5 DEF EvictDown, EvictLost, HbTypeOK
<1>6. ASSUME NEW n \in Nodes, HbElect(n) \/ HbCrash(n)
      PROVE  HbTypeOK'
  BY <1>1, <1>6 DEF HbElect, HbCrash, HbTypeOK
<1>7. ASSUME NEW n \in Nodes, HbRestart(n)
      PROVE  HbTypeOK'
  BY <1>1, <1>7 DEF HbRestart, HbTypeOK
<1>8. CASE UNCHANGED hbVars
  BY <1>1, <1>8 DEF hbVars, HbTypeOK
<1> QED  BY <1>2, <1>3, <1>4, <1>5, <1>6, <1>7, <1>8 DEF HbNext

\* Every variable of the discovery protocol keeps its type.
THEOREM HeartbeatTypeCorrect == HbSpec => []HbTypeOK
<1>1. HbInit => HbTypeOK
  BY MemberTypeInit, SeedsAssumption DEF HbInit, HbTypeOK
<1> QED  BY <1>1, HbTypeStep, PTL DEF HbSpec

-----------------------------------------------------------------------------

\* DiscoveryIsMutual is inductive by itself if a process stays down until it was
\* evicted: what its restart clears, nobody counts on.
LEMMA MutualStep ==
  ASSUME ~QuickRestart, HbTypeOK, DiscoveryIsMutual, [HbNext]_hbVars
  PROVE  DiscoveryIsMutual'
<1> USE DEF DiscoveryIsMutual, HbRunning, HbTypeOK, MemberTypeOK
<1>1. ASSUME NEW n \in Nodes, NEW m \in Nodes, ReceiveHeartbeat(n, m)
      PROVE  DiscoveryIsMutual'
  BY <1>1 DEF ReceiveHeartbeat
<1>2. ASSUME NEW n \in Nodes, NEW m \in Nodes, ReceiveAnnounce(n, m)
      PROVE  DiscoveryIsMutual'
  BY <1>2 DEF ReceiveAnnounce
<1>3. ASSUME NEW n \in Nodes, NEW m \in Nodes, LoseAnnounce(n, m)
      PROVE  DiscoveryIsMutual'
  BY <1>3 DEF LoseAnnounce
<1>4. ASSUME NEW n \in Nodes, NEW m \in Nodes, EvictDown(n, m) \/ EvictLost(n, m)
      PROVE  DiscoveryIsMutual'
  BY <1>4 DEF EvictDown, EvictLost
<1>5. ASSUME NEW n \in Nodes, HbElect(n)
      PROVE  DiscoveryIsMutual'
  BY <1>5 DEF HbElect, Elect
<1>6. ASSUME NEW n \in Nodes, HbCrash(n)
      PROVE  DiscoveryIsMutual'
  BY <1>6 DEF HbCrash, Crash
<1>7. ASSUME NEW n \in Nodes, HbRestart(n)
      PROVE  DiscoveryIsMutual'
  BY <1>7 DEF HbRestart, Restart, Unremembered
<1>8. CASE UNCHANGED hbVars
  BY <1>8 DEF hbVars
<1> QED  BY <1>1, <1>2, <1>3, <1>4, <1>5, <1>6, <1>7, <1>8 DEF HbNext

\* PEER_ANNOUNCE makes discovery mutual, in whatever order nodes are launched,
\* however many heartbeats get lost and however often processes fail, as long as a
\* process that failed is started again only after its peers have evicted it.
THEOREM AnnouncementsMakeMutual ==
  ASSUME ~QuickRestart PROVE HbSpec => []DiscoveryIsMutual
<1>1. HbInit => DiscoveryIsMutual
  BY DEF HbInit, MemberInit, DiscoveryIsMutual, HbRunning
<1>2. HbTypeOK /\ DiscoveryIsMutual /\ [HbNext]_hbVars => DiscoveryIsMutual'
  BY MutualStep
<1> QED  BY <1>1, <1>2, HeartbeatTypeCorrect, PTL DEF HbSpec

-----------------------------------------------------------------------------
(* QuorumWatch *)

\* Before its first tick a process has counted and reported nothing, and from
\* then on its view is the winner among the members of its last tick.
TickInv ==
  \A n \in Nodes :
    /\ seen[n] = {} => high[n] = 0 /\ ~alarm[n]
    /\ seen[n] # {} => view[n].leader = Highest(seen[n])

QuorumInv == TickInv /\ AlarmIsTruthful

-----------------------------------------------------------------------------

LEMMA MembersCount ==
  ASSUME NEW S \in SUBSET Nodes
  PROVE  Cardinality(S) \in Nat /\ (S # {} => Cardinality(S) > 0)
<1>1. IsFiniteSet(S)
  BY NodesAssumption, FS_Subset
<1>2. Cardinality(S) \in Nat /\ (Cardinality(S) = 0 <=> S = {})
  BY <1>1, FS_CardinalityType, FS_EmptySet
<1> QED  BY <1>2

LEMMA QuorumTypeStep ==
  ASSUME QuorumTypeOK, [QuorumNext]_quorumVars
  PROVE  QuorumTypeOK'
<1>1. ASSUME NEW n \in Nodes, Tick(n) PROVE QuorumTypeOK'
  <2> DEFINE members == peers[n] \cup {n}
  <2>1. members \in SUBSET Nodes
    BY DEF QuorumTypeOK, MemberTypeOK
  <2>2. NewHighWater(n, members) \in Nat
    BY <2>1, MembersCount DEF NewHighWater, QuorumTypeOK
  <2>3. Alarm(n, members) \in BOOLEAN
    BY DEF Alarm
  <2>4. MemberTypeOK'
    BY <1>1, MemberTypeStep DEF Tick, QuorumTypeOK
  <2> QED  BY <1>1, <2>1, <2>2, <2>3, <2>4 DEF Tick, QuorumTypeOK
<1>2. ASSUME NEW n \in Nodes, QuorumRestart(n) PROVE QuorumTypeOK'
  <2>1. MemberTypeOK'
    BY <1>2, MemberTypeStep DEF QuorumRestart, QuorumTypeOK
  <2> QED  BY <1>2, <2>1 DEF QuorumRestart, QuorumTypeOK
<1>3. ASSUME NEW n \in Nodes, Between(n) PROVE QuorumTypeOK'
  <2>1. MemberTypeOK'
    BY <1>3, MemberTypeStep DEF Between, QuorumTypeOK
  <2> QED  BY <1>3, <2>1 DEF Between, QuorumTypeOK
<1>4. CASE UNCHANGED quorumVars
  BY <1>4 DEF quorumVars, QuorumTypeOK, MemberTypeOK
<1> QED  BY <1>1, <1>2, <1>3, <1>4 DEF QuorumNext

\* Every variable of the quorum bookkeeping keeps its type.
THEOREM QuorumTypeCorrect == QuorumSpec => []QuorumTypeOK
<1>1. QuorumInit => QuorumTypeOK
  BY MemberTypeInit DEF QuorumInit, QuorumTypeOK
<1> QED  BY <1>1, QuorumTypeStep, PTL DEF QuorumSpec

-----------------------------------------------------------------------------

\* A tick leaves the last event of n's process true.  The first tick reports
\* nothing, rightly: all that are seen are a majority of themselves.
LEMMA TickReports ==
  ASSUME QuorumTypeOK, QuorumInv, NEW n \in Nodes, NEW S \in SUBSET Nodes, S # {}
  PROVE  Alarm(n, S) <=> ~HasQuorum(S, NewHighWater(n, S))
<1> DEFINE had == HasQuorum(seen[n], high[n])
           has == HasQuorum(S, NewHighWater(n, S))
<1>1. CASE seen[n] = {}
  <2>1. high[n] = 0 /\ ~alarm[n]
    BY <1>1 DEF QuorumInv, TickInv
  <2>2. Cardinality(S) \in Nat /\ Cardinality(S) > 0
    BY MembersCount
  <2>3. NewHighWater(n, S) = Cardinality(S)
    BY <2>1, <2>2 DEF NewHighWater
  <2>4. has
    BY <2>2, <2>3 DEF HasQuorum
  <2> QED  BY <1>1, <2>1, <2>4 DEF Alarm
<1>2. CASE seen[n] # {}
  <2>1. alarm[n] <=> ~had
    BY <1>2 DEF QuorumInv, AlarmIsTruthful
  <2>2. Alarm(n, S) <=> (had /\ ~has) \/ (alarm[n] /\ ~(~had /\ has))
    BY <1>2 DEF Alarm
  <2> HIDE DEF had, has
  <2>3. Alarm(n, S) <=> ~has
    BY <2>1, <2>2
  <2> QED  BY <2>3 DEF has
<1> QED  BY <1>1, <1>2

LEMMA QuorumInvStep ==
  ASSUME QuorumTypeOK, QuorumInv, [QuorumNext]_quorumVars
  PROVE  QuorumInv'
<1>1. ASSUME NEW n \in Nodes, Tick(n) PROVE QuorumInv'
  <2> DEFINE members == peers[n] \cup {n}
  <2>1. members \in SUBSET Nodes /\ members # {}
    BY DEF QuorumTypeOK, MemberTypeOK
  <2>2. /\ seen' = [seen EXCEPT ![n] = members]
        /\ high' = [high EXCEPT ![n] = NewHighWater(n, members)]
        /\ alarm' = [alarm EXCEPT ![n] = Alarm(n, members)]
        /\ view' = [view EXCEPT ![n] = Recompute(@, n, peers[n])]
    BY <1>1 DEF Tick, Elect
  <2>3. Recompute(view[n], n, peers[n]).leader = Highest(members)
    BY DEF Recompute
  <2>4. TickInv'
    BY <2>1, <2>2, <2>3 DEF QuorumInv, TickInv, QuorumTypeOK, MemberTypeOK
  <2>5. alarm'[n] <=> ~HasQuorum(seen'[n], high'[n])
    BY <2>1, <2>2, TickReports DEF QuorumTypeOK
  <2>6. AlarmIsTruthful'
    BY <2>2, <2>5 DEF QuorumInv, AlarmIsTruthful, QuorumTypeOK, HasQuorum
  <2> QED  BY <2>4, <2>6 DEF QuorumInv
<1>2. ASSUME NEW n \in Nodes, QuorumRestart(n) PROVE QuorumInv'
  <2>1. TickInv'
    BY <1>2 DEF QuorumRestart, Restart, QuorumInv, TickInv, QuorumTypeOK, MemberTypeOK
  <2>2. AlarmIsTruthful'
    BY <1>2 DEF QuorumRestart, QuorumInv, AlarmIsTruthful, QuorumTypeOK, HasQuorum
  <2> QED  BY <2>1, <2>2 DEF QuorumInv
<1>3. ASSUME NEW n \in Nodes, Between(n) PROVE QuorumInv'
  <2>1. UNCHANGED <<view, high, seen, alarm>>
    BY <1>3 DEF Between, Discover, Forget, Crash
  <2> QED  BY <2>1 DEF QuorumInv, TickInv, AlarmIsTruthful, HasQuorum
<1>4. CASE UNCHANGED quorumVars
  BY <1>4 DEF quorumVars, QuorumInv, TickInv, AlarmIsTruthful, HasQuorum
<1> QED  BY <1>1, <1>2, <1>3, <1>4 DEF QuorumNext

LEMMA QuorumInvHolds == QuorumSpec => []QuorumInv
<1>1. QuorumInit => QuorumInv
  BY DEF QuorumInit, QuorumInv, TickInv, AlarmIsTruthful
<1> QED  BY <1>1, QuorumInvStep, QuorumTypeCorrect, PTL DEF QuorumSpec

\* However a cluster grows and shrinks, the last quorum event of every node
\* matches what its last tick saw.
THEOREM EventsTellTheTruth == QuorumSpec => []AlarmIsTruthful
  BY QuorumInvHolds, PTL DEF QuorumInv

\* Two nodes lead at once only if the lower one does not see the higher one.
THEOREM RivalsAreBlind == QuorumSpec => []RivalIsUnseen
<1>1. QuorumTypeOK /\ QuorumInv => RivalIsUnseen
  <2> SUFFICES ASSUME QuorumTypeOK, QuorumInv, NEW n \in Nodes, NEW m \in Nodes,
                      n < m, IsLeader(n), m \in seen[n]
               PROVE  FALSE
    BY DEF RivalIsUnseen
  <2>1. view[n].leader = Highest(seen[n]) /\ view[n].leader = n
    BY DEF QuorumInv, TickInv, IsLeader
  <2>2. m <= Highest(seen[n])
    BY HighestIsMax DEF QuorumTypeOK
  <2> QED  BY <2>1, <2>2, NodesAssumption
<1> QED  BY <1>1, QuorumInvHolds, QuorumTypeCorrect, PTL

-----------------------------------------------------------------------------
(* Replication *)

(* Operators on catalogs *)

LEMMA EmptyTypes == Empty \in Catalog /\ Empty \in Diff /\ InitialState \in ClusterState
  BY DEF Empty, Catalog, Diff, InitialState, ClusterState

LEMMA OverlayType ==
  ASSUME NEW base \in Diff, NEW diff \in Diff
  PROVE  Overlay(base, diff) \in Diff
  BY DEF Overlay, Diff

LEMMA ApplyIncomingType ==
  ASSUME NEW catalog \in Catalog, NEW diff \in Diff
  PROVE  ApplyIncoming(catalog, diff) \in Catalog
  BY DEF ApplyIncoming, Catalog, Diff

LEMMA EchoType ==
  ASSUME NEW catalog, NEW diff
  PROVE  EchoedTombstones(catalog, diff) \in Diff
  BY DEF EchoedTombstones, Diff

LEMMA ApplyLocalType ==
  ASSUME NEW s \in ClusterState, NEW diff \in Diff
  PROVE  ApplyLocal(s, diff) \in ClusterState
<1>1. Overlay(s.entries, diff) \in Diff
  BY OverlayType DEF ClusterState
<1> QED  BY <1>1 DEF ApplyLocal, ClusterState

LEMMA MergedType ==
  ASSUME NEW local \in ClusterState, NEW p \in Push
  PROVE  Merged(local, p) \in ClusterState
<1>1. Overlay(local.entries, p.diff) \in Diff
  BY OverlayType DEF ClusterState, Push
<1> QED  BY <1>1 DEF Merged, ClusterState, Push

LEMMA ApplyRemoteType ==
  ASSUME NEW s \in ClusterState, NEW incoming \in ClusterState
  PROVE  ApplyRemote(s, incoming) \in ClusterState
  BY DEF ApplyRemote

\* A push handler under way holds a snapshot and a push, a pull that was
\* answered the peer's state.
LEMMA InFlight ==
  ASSUME ReplTypeOK, NEW n \in Nodes
  PROVE  /\ router[n].pc \in {"merge", "store"} =>
              /\ router[n] \in [pc : {"merge", "store"}, local : ClusterState, push : Push]
              /\ router[n].local \in ClusterState /\ router[n].push \in Push
              /\ router[n].push.diff \in Diff
         /\ puller[n].pc = "asked" => puller[n].peer \in Nodes
         /\ puller[n].pc \in {"apply", "store"} =>
              /\ puller[n] \in [pc : {"apply", "store"}, incoming : ClusterState]
              /\ puller[n].incoming \in ClusterState
              /\ puller[n].incoming.entries \in Diff
<1>1. router[n] \in RouterState /\ puller[n] \in PullerState
  BY DEF ReplTypeOK
<1>2. router[n].pc \in {"merge", "store"} =>
        router[n] \in [pc : {"merge", "store"}, local : ClusterState, push : Push]
  BY <1>1 DEF RouterState, Idle
<1>3. puller[n].pc = "asked" => puller[n] \in [pc : {"asked"}, peer : Nodes]
  BY <1>1 DEF PullerState, Idle
<1>4. puller[n].pc \in {"apply", "store"} =>
        puller[n] \in [pc : {"apply", "store"}, incoming : ClusterState]
  BY <1>1 DEF PullerState, Idle
<1>5. \A p \in Push : p.diff \in Diff
  BY DEF Push
<1>6. \A s \in ClusterState : s.entries \in Diff
  BY DEF ClusterState
<1> QED  BY <1>2, <1>3, <1>4, <1>5, <1>6

-----------------------------------------------------------------------------
(* Types *)

\* Absorbing a diff leaves catalogs and trackers well-formed.
LEMMA AbsorbType ==
  ASSUME ReplTypeOK, NEW n \in Nodes, NEW diff \in Diff, Absorb(n, diff)
  PROVE  store' \in [Nodes -> Catalog] /\ pending' \in [Nodes -> Diff]
<1>1. ApplyIncoming(store[n], diff) \in Catalog
  BY ApplyIncomingType DEF ReplTypeOK
<1>2. Overlay(pending[n], EchoedTombstones(store[n], diff)) \in Diff
  BY OverlayType, EchoType DEF ReplTypeOK
<1> QED  BY <1>1, <1>2 DEF Absorb, ReplTypeOK

LEMMA WriteType ==
  ASSUME ReplTypeOK, NEW n \in Nodes, Write(n)
  PROVE  ReplTypeOK'
<1>1. ASSUME NEW k \in Keys, NEW c \in Contents, Accept(n, k, c)
      PROVE  ReplTypeOK'
  <2>1. store' \in [Nodes -> Catalog]
    BY <1>1 DEF Accept, ReplTypeOK, Catalog
  <2>2. pending' \in [Nodes -> Diff]
    BY <1>1 DEF Accept, ReplTypeOK, Diff
  <2> QED  BY <1>1, <2>1, <2>2 DEF Accept, ReplTypeOK, MemberTypeOK
<1>2. ASSUME NEW k \in Keys, Delete(n, k)
      PROVE  ReplTypeOK'
  <2>1. store' \in [Nodes -> Catalog]
    BY <1>2 DEF Delete, ReplTypeOK, Catalog
  <2>2. pending' \in [Nodes -> Diff]
    BY <1>2 DEF Delete, ReplTypeOK, Diff
  <2> QED  BY <1>2, <2>1, <2>2 DEF Delete, ReplTypeOK, MemberTypeOK
<1>3. \A f \in Functions \cup Datasets, v \in Versions : <<f, v>> \in Keys
  BY DEF Keys
<1>4. \A b \in Buckets : <<b, 0>> \in Keys
  BY DEF Keys
<1> QED  BY <1>1, <1>2, <1>3, <1>4 DEF Write, RegisterFunction, UpdateFunction,
            RegisterData, RegisterBucket

LEMMA ReplTypeStep ==
  ASSUME ReplTypeOK, [ReplNext]_replVars
  PROVE  ReplTypeOK'
<1> USE ContentsAssumption
<1>1. ASSUME NEW n \in Nodes, Write(n) PROVE ReplTypeOK'
  BY <1>1, WriteType
<1>2. ASSUME NEW n \in Nodes, TickQuiet(n) PROVE ReplTypeOK'
  <2>1. MemberTypeOK'
    BY <1>2, MemberTypeStep DEF TickQuiet, ReplTypeOK
  <2> QED  BY <1>2, <2>1 DEF TickQuiet, ReplTypeOK, syncVars, budget
<1>3. ASSUME NEW n \in Nodes, TickFlush(n) PROVE ReplTypeOK'
  <2>1. MemberTypeOK'
    BY <1>3, MemberTypeStep DEF TickFlush, ReplTypeOK
  <2>2. state' \in [Nodes -> ClusterState]
    BY <1>3, ApplyLocalType DEF TickFlush, ReplTypeOK
  <2>3. pending' \in [Nodes -> Diff]
    BY <1>3, EmptyTypes DEF TickFlush, ReplTypeOK
  <2>4. pushes' \subseteq Push
    <3>1. state[n].version \in Nat /\ view'[n].term \in Nat /\ pending[n] \in Diff
          /\ peers[n] \subseteq Nodes
      BY <2>1 DEF ReplTypeOK, MemberTypeOK, ClusterState, LeaderView
    <3>2. [to : peers[n], leader : {n}, term : {view'[n].term},
           seq : {state[n].version}, diff : {pending[n]}] \subseteq Push
      BY <3>1 DEF Push
    <3> QED  BY <1>3, <3>2 DEF TickFlush, ReplTypeOK
  <2> QED  BY <1>3, <2>1, <2>2, <2>3, <2>4 DEF TickFlush, ReplTypeOK, budget
<1>4. ASSUME NEW n \in Nodes, NEW p \in pushes, RejectPush(n, p) PROVE ReplTypeOK'
  BY <1>4 DEF RejectPush, ReplTypeOK, MemberTypeOK, budget
<1>5. ASSUME NEW n \in Nodes, NEW p \in pushes, ReadPush(n, p) PROVE ReplTypeOK'
  <2>1. [pc |-> "merge", local |-> state[n], push |-> p] \in RouterState
    BY DEF ReplTypeOK, RouterState
  <2> QED  BY <1>5, <2>1 DEF ReadPush, ReplTypeOK, MemberTypeOK, budget
<1>6. ASSUME NEW n \in Nodes, MergePush(n) PROVE ReplTypeOK'
  <2>1. state' \in [Nodes -> ClusterState]
    BY <1>6, InFlight, MergedType, ApplyRemoteType DEF MergePush, ReplTypeOK
  <2>2. [router[n] EXCEPT !.pc = "store"] \in RouterState
    BY <1>6, InFlight DEF MergePush, RouterState
  <2> QED  BY <1>6, <2>1, <2>2 DEF MergePush, ReplTypeOK, MemberTypeOK, budget
<1>7. ASSUME NEW n \in Nodes, StorePush(n) PROVE ReplTypeOK'
  <2>1. store' \in [Nodes -> Catalog] /\ pending' \in [Nodes -> Diff]
    BY <1>7, InFlight, AbsorbType DEF StorePush
  <2> QED  BY <1>7, <2>1 DEF StorePush, ReplTypeOK, MemberTypeOK, RouterState, budget
<1>8. ASSUME NEW n \in Nodes, NEW m \in Nodes, DiscoverAndAsk(n, m) PROVE ReplTypeOK'
  <2>1. MemberTypeOK'
    BY <1>8, MemberTypeStep DEF DiscoverAndAsk, ReplTypeOK
  <2>2. [pc |-> "asked", peer |-> m] \in PullerState
    BY DEF PullerState
  <2> QED  BY <1>8, <2>1, <2>2 DEF DiscoverAndAsk, ReplTypeOK, budget
<1>9. ASSUME NEW n \in Nodes, ServePull(n) PROVE ReplTypeOK'
  <2>1. [pc |-> "apply", incoming |-> state[puller[n].peer]] \in PullerState
    BY <1>9, InFlight DEF ServePull, ReplTypeOK, PullerState
  <2> QED  BY <1>9, <2>1 DEF ServePull, ReplTypeOK, MemberTypeOK, budget
<1>10. ASSUME NEW n \in Nodes, PullTimeout(n) PROVE ReplTypeOK'
  BY <1>10 DEF PullTimeout, ReplTypeOK, MemberTypeOK, PullerState
<1>11. ASSUME NEW n \in Nodes, ApplyPull(n) PROVE ReplTypeOK'
  <2>1. state' \in [Nodes -> ClusterState]
    BY <1>11, InFlight, ApplyRemoteType DEF ApplyPull, ReplTypeOK
  <2>2. [puller[n] EXCEPT !.pc = "store"] \in PullerState
    BY <1>11, InFlight DEF ApplyPull, PullerState
  <2>3. Idle \in PullerState
    BY DEF PullerState
  <2> QED  BY <1>11, <2>1, <2>2, <2>3 DEF ApplyPull, ReplTypeOK, MemberTypeOK, budget
<1>12. ASSUME NEW n \in Nodes, StorePull(n) PROVE ReplTypeOK'
  <2>1. store' \in [Nodes -> Catalog] /\ pending' \in [Nodes -> Diff]
    BY <1>12, InFlight, AbsorbType DEF StorePull
  <2> QED  BY <1>12, <2>1 DEF StorePull, ReplTypeOK, MemberTypeOK, PullerState, budget
<1>13. ASSUME NEW p \in pushes, LosePush(p) PROVE ReplTypeOK'
  BY <1>13 DEF LosePush, ReplTypeOK, MemberTypeOK
<1>14. ASSUME NEW n \in Nodes, ReplCrash(n) PROVE ReplTypeOK'
  <2>1. MemberTypeOK'
    BY <1>14, MemberTypeStep DEF ReplCrash, ReplTypeOK
  <2> QED  BY <1>14, <2>1 DEF ReplCrash, ReplTypeOK
<1>15. ASSUME NEW n \in Nodes, ReplRestart(n) PROVE ReplTypeOK'
  <2>1. MemberTypeOK'
    BY <1>15, MemberTypeStep DEF ReplRestart, ReplTypeOK
  <2>2. Idle \in RouterState /\ Idle \in PullerState
    BY DEF RouterState, PullerState
  <2> QED  BY <1>15, <2>1, <2>2, EmptyTypes DEF ReplRestart, ReplTypeOK, budget
<1>16. ASSUME NEW n \in Nodes, NEW m \in Nodes, Evict(n, m) PROVE ReplTypeOK'
  <2>1. MemberTypeOK'
    BY <1>16, MemberTypeStep DEF Evict, ReplTypeOK
  <2> QED  BY <1>16, <2>1 DEF Evict, ReplTypeOK, syncVars
<1>17. CASE UNCHANGED replVars
  BY <1>17 DEF replVars, ReplTypeOK, MemberTypeOK
<1> QED  BY <1>1, <1>2, <1>3, <1>4, <1>5, <1>6, <1>7, <1>8, <1>9, <1>10, <1>11, <1>12,
            <1>13, <1>14, <1>15, <1>16, <1>17 DEF ReplNext

\* Every variable keeps its type: catalogs never hold tombstones, and a handler
\* interrupted between two lock regions always has what it needs to resume.
THEOREM ReplTypeCorrect == ReplSpec => []ReplTypeOK
<1>1. ReplInit => ReplTypeOK
  BY MemberTypeInit, EmptyTypes DEF ReplInit, SyncInit, ReplTypeOK, RouterState, PullerState
<1> QED  BY <1>1, ReplTypeStep, PTL DEF ReplSpec

-----------------------------------------------------------------------------
(* Nothing is invented.  The inductive invariant follows entries through    *)
(* everything that carries them: pushes in flight, the snapshot and push a  *)
(* handler holds between two lock regions, the answer to a pull.            *)

\* Every entry of d is in the history A of accepted writes.
From(d, A) == \A k \in Keys : d[k] # None => \E n \in Nodes : <<n, k, d[k]>> \in A

LEMMA GenuineIsFrom == \A d : Genuine(d) <=> From(d, accepted)
  BY DEF Genuine, Dirty, From

LEMMA FromEmpty == \A A : From(Empty, A)
  BY DEF From, Empty

LEMMA FromMonotone ==
  ASSUME NEW d, NEW A, NEW B, A \subseteq B, From(d, A)
  PROVE  From(d, B)
  BY DEF From

LEMMA FromOverlay ==
  ASSUME NEW base, NEW diff, NEW A, From(base, A), From(diff, A)
  PROVE  From(Overlay(base, diff), A)
  BY DEF From, Overlay

LEMMA FromIncoming ==
  ASSUME NEW catalog, NEW diff, NEW A, From(catalog, A), From(diff, A)
  PROVE  From(ApplyIncoming(catalog, diff), A)
  BY DEF From, ApplyIncoming

LEMMA FromEcho ==
  ASSUME NEW catalog, NEW diff, NEW A, From(diff, A)
  PROVE  From(EchoedTombstones(catalog, diff), A)
  BY ContentsAssumption DEF From, EchoedTombstones

LEMMA FromNewEntry ==
  ASSUME NEW d \in Diff, NEW A, NEW n \in Nodes, NEW k \in Keys, NEW c, From(d, A)
  PROVE  From([d EXCEPT ![k] = c], A \cup {<<n, k, c>>})
  BY DEF From, Diff

AllGenuine(A) ==
  /\ \A n \in Nodes : From(store[n], A) /\ From(pending[n], A) /\ From(state[n].entries, A)
  /\ \A p \in pushes : From(p.diff, A)
  /\ \A n \in Nodes :
       /\ router[n].pc \in {"merge", "store"} =>
            From(router[n].local.entries, A) /\ From(router[n].push.diff, A)
       /\ puller[n].pc \in {"apply", "store"} => From(puller[n].incoming.entries, A)

\* Every entry anywhere was accepted under its key.
GenuineInv == AllGenuine(accepted)

LEMMA GenuineImplies == GenuineInv => NoInvention
  BY GenuineIsFrom DEF GenuineInv, AllGenuine, NoInvention

LEMMA AbsorbGenuine ==
  ASSUME ReplTypeOK, GenuineInv, NEW n \in Nodes, NEW diff, From(diff, accepted),
         Absorb(n, diff)
  PROVE  \A m \in Nodes : From(store'[m], accepted) /\ From(pending'[m], accepted)
<1>1. From(ApplyIncoming(store[n], diff), accepted)
  BY FromIncoming DEF GenuineInv, AllGenuine
<1>2. From(Overlay(pending[n], EchoedTombstones(store[n], diff)), accepted)
  BY FromOverlay, FromEcho DEF GenuineInv, AllGenuine
<1> QED  BY <1>1, <1>2 DEF Absorb, GenuineInv, AllGenuine, ReplTypeOK

\* A write puts its entry into the leader's registry and tracker, and into the
\* history.
LEMMA WriteGenuine ==
  ASSUME ReplTypeOK, GenuineInv, NEW n \in Nodes, Write(n)
  PROVE  GenuineInv'
<1>1. ASSUME NEW k \in Keys, NEW c \in Contents, Accept(n, k, c)
      PROVE  GenuineInv'
  <2>1. accepted' = accepted \cup {<<n, k, c>>} /\ accepted \subseteq accepted'
    BY <1>1 DEF Accept
  <2>2. AllGenuine(accepted')
    BY <2>1, FromMonotone DEF GenuineInv, AllGenuine
  <2>3. store[n] \in Diff /\ pending[n] \in Diff
    BY DEF ReplTypeOK, Catalog, Diff
  <2>4. From([store[n] EXCEPT ![k] = c], accepted')
        /\ From([pending[n] EXCEPT ![k] = c], accepted')
    BY <2>1, <2>3, FromNewEntry DEF GenuineInv, AllGenuine
  <2>5. \A m \in Nodes : From(store'[m], accepted') /\ From(pending'[m], accepted')
    BY <1>1, <2>2, <2>4 DEF Accept, AllGenuine, ReplTypeOK
  <2> QED  BY <1>1, <2>2, <2>5 DEF Accept, GenuineInv, AllGenuine
<1>2. ASSUME NEW k \in Keys, Delete(n, k)
      PROVE  GenuineInv'
  <2>1. accepted' = accepted \cup {<<n, k, Tombstone>>} /\ accepted \subseteq accepted'
    BY <1>2 DEF Delete
  <2>2. AllGenuine(accepted')
    BY <2>1, FromMonotone DEF GenuineInv, AllGenuine
  <2>3. store[n] \in Diff /\ pending[n] \in Diff
    BY DEF ReplTypeOK, Catalog, Diff
  <2>4. From([pending[n] EXCEPT ![k] = Tombstone], accepted')
    BY <2>1, <2>3, FromNewEntry DEF GenuineInv, AllGenuine
  <2>5. From([store[n] EXCEPT ![k] = None], accepted')
    BY <2>2, <2>3 DEF AllGenuine, From, Diff
  <2>6. \A m \in Nodes : From(store'[m], accepted') /\ From(pending'[m], accepted')
    BY <1>2, <2>2, <2>4, <2>5 DEF Delete, AllGenuine, ReplTypeOK
  <2> QED  BY <1>2, <2>2, <2>6 DEF Delete, GenuineInv, AllGenuine
<1>3. \A f \in Functions \cup Datasets, v \in Versions : <<f, v>> \in Keys
  BY DEF Keys
<1>4. \A b \in Buckets : <<b, 0>> \in Keys
  BY DEF Keys
<1> QED  BY <1>1, <1>2, <1>3, <1>4 DEF Write, RegisterFunction, UpdateFunction,
            RegisterData, RegisterBucket

LEMMA GenuineStep ==
  ASSUME ReplTypeOK, GenuineInv, [ReplNext]_replVars
  PROVE  GenuineInv'
<1>1. ASSUME NEW n \in Nodes, Write(n) PROVE GenuineInv'
  BY <1>1, WriteGenuine
<1>2. ASSUME NEW n \in Nodes, TickQuiet(n) PROVE GenuineInv'
  BY <1>2 DEF TickQuiet, syncVars, GenuineInv, AllGenuine
<1>3. ASSUME NEW n \in Nodes, TickFlush(n) PROVE GenuineInv'
  <2>1. \A m \in Nodes : From(state'[m].entries, accepted)
    <3>1. From(Overlay(state[n].entries, pending[n]), accepted)
      BY FromOverlay DEF GenuineInv, AllGenuine
    <3>2. state'[n].entries = Overlay(state[n].entries, pending[n])
      BY <1>3 DEF TickFlush, ApplyLocal, ReplTypeOK
    <3> QED  BY <1>3, <3>1, <3>2 DEF TickFlush, GenuineInv, AllGenuine, ReplTypeOK
  <2>2. \A m \in Nodes : From(pending'[m], accepted)
    BY <1>3, FromEmpty DEF TickFlush, GenuineInv, AllGenuine, ReplTypeOK
  <2>3. \A p \in pushes' : From(p.diff, accepted)
    BY <1>3 DEF TickFlush, GenuineInv, AllGenuine
  <2> QED  BY <1>3, <2>1, <2>2, <2>3 DEF TickFlush, GenuineInv, AllGenuine
<1>4. ASSUME NEW n \in Nodes, NEW p \in pushes, RejectPush(n, p) PROVE GenuineInv'
  BY <1>4 DEF RejectPush, GenuineInv, AllGenuine
<1>5. ASSUME NEW n \in Nodes, NEW p \in pushes, ReadPush(n, p) PROVE GenuineInv'
  <2>1. \A m \in Nodes : router'[m].pc \in {"merge", "store"} =>
          From(router'[m].local.entries, accepted) /\ From(router'[m].push.diff, accepted)
    BY <1>5 DEF ReadPush, GenuineInv, AllGenuine, ReplTypeOK
  <2> QED  BY <1>5, <2>1 DEF ReadPush, GenuineInv, AllGenuine
<1>6. ASSUME NEW n \in Nodes, MergePush(n) PROVE GenuineInv'
  <2> DEFINE merged == Merged(router[n].local, router[n].push)
  <2>1. From(merged.entries, accepted)
    BY <1>6, FromOverlay DEF MergePush, Merged, GenuineInv, AllGenuine
  <2>2. \A m \in Nodes : From(state'[m].entries, accepted)
    BY <1>6, <2>1 DEF MergePush, ApplyRemote, GenuineInv, AllGenuine, ReplTypeOK
  <2>3. \A m \in Nodes : router'[m].pc \in {"merge", "store"} =>
          From(router'[m].local.entries, accepted) /\ From(router'[m].push.diff, accepted)
    <3>1. router'[n].local = router[n].local /\ router'[n].push = router[n].push
      BY <1>6, InFlight DEF MergePush, ReplTypeOK
    <3> QED  BY <1>6, <3>1 DEF MergePush, GenuineInv, AllGenuine, ReplTypeOK
  <2> QED  BY <1>6, <2>2, <2>3 DEF MergePush, GenuineInv, AllGenuine
<1>7. ASSUME NEW n \in Nodes, StorePush(n) PROVE GenuineInv'
  <2>1. From(router[n].push.diff, accepted)
    BY <1>7 DEF StorePush, GenuineInv, AllGenuine
  <2>2. \A m \in Nodes : From(store'[m], accepted) /\ From(pending'[m], accepted)
    BY <1>7, <2>1, AbsorbGenuine DEF StorePush
  <2>3. \A m \in Nodes : router'[m].pc \in {"merge", "store"} => router'[m] = router[m]
    BY <1>7 DEF StorePush, Idle, ReplTypeOK
  <2> QED  BY <1>7, <2>2, <2>3 DEF StorePush, GenuineInv, AllGenuine
<1>8. ASSUME NEW n \in Nodes, NEW m \in Nodes, DiscoverAndAsk(n, m) PROVE GenuineInv'
  <2>1. \A x \in Nodes : puller'[x].pc \in {"apply", "store"} => puller'[x] = puller[x]
    BY <1>8 DEF DiscoverAndAsk, ReplTypeOK
  <2> QED  BY <1>8, <2>1 DEF DiscoverAndAsk, GenuineInv, AllGenuine
<1>9. ASSUME NEW n \in Nodes, ServePull(n) PROVE GenuineInv'
  <2>1. puller[n].peer \in Nodes
    BY <1>9, InFlight DEF ServePull
  <2>2. \A x \in Nodes : puller'[x].pc \in {"apply", "store"} =>
          From(puller'[x].incoming.entries, accepted)
    BY <1>9, <2>1 DEF ServePull, GenuineInv, AllGenuine, ReplTypeOK
  <2> QED  BY <1>9, <2>2 DEF ServePull, GenuineInv, AllGenuine
<1>10. ASSUME NEW n \in Nodes, PullTimeout(n) PROVE GenuineInv'
  <2>1. \A x \in Nodes : puller'[x].pc \in {"apply", "store"} => puller'[x] = puller[x]
    BY <1>10 DEF PullTimeout, Idle, ReplTypeOK
  <2> QED  BY <1>10, <2>1 DEF PullTimeout, GenuineInv, AllGenuine
<1>11. ASSUME NEW n \in Nodes, ApplyPull(n) PROVE GenuineInv'
  <2>1. \A m \in Nodes : From(state'[m].entries, accepted)
    BY <1>11 DEF ApplyPull, ApplyRemote, GenuineInv, AllGenuine, ReplTypeOK
  <2>2. \A x \in Nodes : puller'[x].pc \in {"apply", "store"} =>
          puller[x].pc \in {"apply", "store"} /\ puller'[x].incoming = puller[x].incoming
    BY <1>11, InFlight DEF ApplyPull, Idle, ReplTypeOK
  <2> QED  BY <1>11, <2>1, <2>2 DEF ApplyPull, GenuineInv, AllGenuine
<1>12. ASSUME NEW n \in Nodes, StorePull(n) PROVE GenuineInv'
  <2>1. From(puller[n].incoming.entries, accepted)
    BY <1>12 DEF StorePull, GenuineInv, AllGenuine
  <2>2. \A m \in Nodes : From(store'[m], accepted) /\ From(pending'[m], accepted)
    BY <1>12, <2>1, AbsorbGenuine DEF StorePull
  <2>3. \A m \in Nodes : puller'[m].pc \in {"apply", "store"} => puller'[m] = puller[m]
    BY <1>12 DEF StorePull, Idle, ReplTypeOK
  <2> QED  BY <1>12, <2>2, <2>3 DEF StorePull, GenuineInv, AllGenuine
<1>13. ASSUME NEW p \in pushes, LosePush(p) PROVE GenuineInv'
  BY <1>13 DEF LosePush, GenuineInv, AllGenuine
<1>14. ASSUME NEW n \in Nodes, ReplCrash(n) PROVE GenuineInv'
  BY <1>14 DEF ReplCrash, GenuineInv, AllGenuine
<1>15. ASSUME NEW n \in Nodes, ReplRestart(n) PROVE GenuineInv'
  <2>1. \A m \in Nodes : /\ From(store'[m], accepted) /\ From(pending'[m], accepted)
                         /\ From(state'[m].entries, accepted)
    BY <1>15, FromEmpty DEF ReplRestart, InitialState, GenuineInv, AllGenuine, ReplTypeOK
  <2>2. \A m \in Nodes :
          /\ router'[m].pc \in {"merge", "store"} => router'[m] = router[m]
          /\ puller'[m].pc \in {"apply", "store"} => puller'[m] = puller[m]
    BY <1>15 DEF ReplRestart, Idle, ReplTypeOK
  <2> QED  BY <1>15, <2>1, <2>2 DEF ReplRestart, GenuineInv, AllGenuine
<1>16. ASSUME NEW n \in Nodes, NEW m \in Nodes, Evict(n, m) PROVE GenuineInv'
  BY <1>16 DEF Evict, syncVars, GenuineInv, AllGenuine
<1>17. CASE UNCHANGED replVars
  BY <1>17 DEF replVars, GenuineInv, AllGenuine
<1> QED  BY <1>1, <1>2, <1>3, <1>4, <1>5, <1>6, <1>7, <1>8, <1>9, <1>10, <1>11, <1>12,
            <1>13, <1>14, <1>15, <1>16, <1>17 DEF ReplNext

LEMMA GenuineInvHolds == ReplSpec => []GenuineInv
<1>1. ReplInit => GenuineInv
  BY FromEmpty DEF ReplInit, SyncInit, InitialState, Idle, GenuineInv, AllGenuine
<1> QED  BY <1>1, GenuineStep, ReplTypeCorrect, PTL DEF ReplSpec

\* Whatever is lost, reordered, answered late or half done when a process ends:
\* no registry, tracker or replicated state ever holds an entry that no leader's
\* handler accepted under that key.
THEOREM NothingInvented == ReplSpec => []NoInvention
  BY GenuineInvHolds, GenuineImplies, PTL

-----------------------------------------------------------------------------
(* What a step may do to a registry and to a replicated state *)

LEMMA AbsorbKeepsRecords ==
  ASSUME ReplTypeOK, NEW n \in Nodes, NEW diff \in Diff, From(diff, accepted),
         Absorb(n, diff), accepted' = accepted, NEW m \in Nodes, NEW k \in Keys
  PROVE  RecordStep(m, k)
<1>1. CASE m # n
  BY <1>1 DEF Absorb, RecordStep, ReplTypeOK
<1>2. CASE m = n
  <2>1. store'[n][k] = ApplyIncoming(store[n], diff)[k]
    BY DEF Absorb, ReplTypeOK
  <2>2. store[n][k] # None /\ store'[n][k] = None => diff[k] = Tombstone
    BY <2>1 DEF ApplyIncoming
  <2>3. diff[k] = Tombstone => \E x \in Nodes : <<x, k, Tombstone>> \in accepted
    BY ContentsAssumption DEF From
  <2> QED  BY <1>2, <2>2, <2>3 DEF RecordStep
<1> QED  BY <1>1, <1>2

LEMMA RecordsStep ==
  ASSUME ReplTypeOK, GenuineInv, ReplNext, NEW m \in Nodes, NEW k \in Keys
  PROVE  RecordStep(m, k)
<1>1. ASSUME NEW n \in Nodes, NEW x \in Keys, NEW c \in Contents, Accept(n, x, c)
      PROVE  RecordStep(m, k)
  BY <1>1, ContentsAssumption DEF Accept, RecordStep, ReplTypeOK, Catalog
<1>2. ASSUME NEW n \in Nodes, NEW x \in Keys, Delete(n, x)
      PROVE  RecordStep(m, k)
  BY <1>2 DEF Delete, RecordStep, ReplTypeOK, Catalog
<1>3. ASSUME NEW n \in Nodes, Write(n) PROVE RecordStep(m, k)
  <2>1. \A f \in Functions \cup Datasets, v \in Versions : <<f, v>> \in Keys
    BY DEF Keys
  <2>2. \A b \in Buckets : <<b, 0>> \in Keys
    BY DEF Keys
  <2> QED  BY <1>1, <1>2, <1>3, <2>1, <2>2 DEF Write, RegisterFunction, UpdateFunction,
              RegisterData, RegisterBucket
<1>4. ASSUME NEW n \in Nodes, StorePush(n) PROVE RecordStep(m, k)
  <2>1. router[n].push.diff \in Diff /\ From(router[n].push.diff, accepted)
    BY <1>4, InFlight DEF StorePush, GenuineInv, AllGenuine
  <2> QED  BY <1>4, <2>1, AbsorbKeepsRecords DEF StorePush
<1>5. ASSUME NEW n \in Nodes, StorePull(n) PROVE RecordStep(m, k)
  <2>1. puller[n].incoming.entries \in Diff /\ From(puller[n].incoming.entries, accepted)
    BY <1>5, InFlight DEF StorePull, GenuineInv, AllGenuine
  <2> QED  BY <1>5, <2>1, AbsorbKeepsRecords DEF StorePull
<1>6. ASSUME NEW n \in Nodes, ReplRestart(n) PROVE RecordStep(m, k)
  BY <1>6 DEF ReplRestart, Restart, RecordStep, ReplTypeOK
<1>7. CASE UNCHANGED store
  BY <1>7 DEF RecordStep
<1> QED
  BY <1>3, <1>4, <1>5, <1>6, <1>7
  DEF ReplNext, TickQuiet, TickFlush, MergePush, ServePull, PullTimeout, ApplyPull,
      ReplCrash, DiscoverAndAsk, Evict, RejectPush, ReadPush, LosePush, syncVars

\* No order of pushes, pulls, ticks and failovers makes a running node drop a
\* record whose deletion no leader accepted.
THEOREM RecordsAreKept == ReplSpec => OnlyDeletedDisappear
<1>1. ReplTypeOK /\ GenuineInv /\ [ReplNext]_replVars =>
        [\A n \in Nodes : \A k \in Keys : RecordStep(n, k)]_replVars
  BY RecordsStep
<1> QED  BY <1>1, GenuineInvHolds, ReplTypeCorrect, PTL DEF ReplSpec, OnlyDeletedDisappear

LEMMA ApplyRemoteGrows ==
  ASSUME NEW s \in ClusterState, NEW incoming \in ClusterState
  PROVE  ApplyRemote(s, incoming).version >= s.version
  BY DEF ApplyRemote, Supersedes, ClusterState

LEMMA VersionsStep ==
  ASSUME ReplTypeOK, ReplNext, NEW m \in Nodes
  PROVE  VersionStep(m)
<1>0. state[m].version \in Nat
  BY DEF ReplTypeOK, ClusterState
<1>1. ASSUME NEW n \in Nodes, TickFlush(n) PROVE VersionStep(m)
  <2>1. ApplyLocal(state[n], pending[n]).version = state[n].version + 1
    BY DEF ApplyLocal
  <2>2. state' = [state EXCEPT ![n] = ApplyLocal(state[n], pending[n])]
    BY <1>1 DEF TickFlush
  <2> QED  BY <1>0, <2>1, <2>2 DEF VersionStep, ReplTypeOK
<1>2. ASSUME NEW n \in Nodes, MergePush(n) PROVE VersionStep(m)
  <2>1. Merged(router[n].local, router[n].push) \in ClusterState
    BY <1>2, InFlight, MergedType DEF MergePush
  <2> QED  BY <1>0, <1>2, <2>1, ApplyRemoteGrows DEF MergePush, VersionStep, ReplTypeOK
<1>3. ASSUME NEW n \in Nodes, ApplyPull(n) PROVE VersionStep(m)
  <2>1. puller[n].incoming \in ClusterState /\ state[n] \in ClusterState
    BY <1>3, InFlight DEF ApplyPull, ReplTypeOK
  <2>2. state' = [state EXCEPT ![n] = ApplyRemote(state[n], puller[n].incoming)]
    BY <1>3 DEF ApplyPull
  <2> QED  BY <1>0, <2>1, <2>2, ApplyRemoteGrows DEF VersionStep, ReplTypeOK
<1>4. ASSUME NEW n \in Nodes, ReplRestart(n) PROVE VersionStep(m)
  BY <1>0, <1>4 DEF ReplRestart, Restart, VersionStep, ReplTypeOK
<1>5. CASE UNCHANGED state
  BY <1>0, <1>5 DEF VersionStep
<1>6. ASSUME NEW n \in Nodes, Write(n) PROVE UNCHANGED state
  BY <1>6 DEF Write, RegisterFunction, UpdateFunction, RegisterData, RegisterBucket,
              Accept, Delete
<1>7. ASSUME NEW n \in Nodes,
             \/ TickQuiet(n) \/ StorePush(n) \/ ServePull(n) \/ PullTimeout(n)
             \/ StorePull(n) \/ ReplCrash(n)
      PROVE  UNCHANGED state
  BY <1>7 DEF TickQuiet, StorePush, ServePull, PullTimeout, StorePull, ReplCrash, syncVars
<1>8. ASSUME NEW n \in Nodes, NEW x \in Nodes, DiscoverAndAsk(n, x) \/ Evict(n, x)
      PROVE  UNCHANGED state
  BY <1>8 DEF DiscoverAndAsk, Evict, syncVars
<1>9. ASSUME NEW n \in Nodes, NEW p \in pushes,
             RejectPush(n, p) \/ ReadPush(n, p)
      PROVE  UNCHANGED state
  BY <1>9 DEF RejectPush, ReadPush
<1>10. ASSUME NEW p \in pushes, LosePush(p) PROVE UNCHANGED state
  BY <1>10 DEF LosePush
<1> QED  BY <1>1, <1>2, <1>3, <1>4, <1>5, <1>6, <1>7, <1>8, <1>9, <1>10 DEF ReplNext

\* The version of a process's replicated state never falls back, although the
\* push handler merges into a snapshot that may be stale.
THEOREM VersionsGrow == ReplSpec => VersionNeverFallsBack
<1>1. ReplTypeOK /\ [ReplNext]_replVars => [\A n \in Nodes : VersionStep(n)]_replVars
  BY VersionsStep
<1> QED  BY <1>1, ReplTypeCorrect, PTL DEF ReplSpec, VersionNeverFallsBack

-----------------------------------------------------------------------------
(* What a tracker holds, and so what a tick may flush *)

\* Entry c under k in n's tracker is of n's own handlers, or the echo of a dataset's
\* deletion that n absorbed.
OwnOrEcho(n, k, c) ==
  c # None => <<n, k, c>> \in accepted \/ (k[1] \in Datasets /\ c = Tombstone)

OwnInv == \A n \in Nodes, k \in Keys : OwnOrEcho(n, k, pending[n][k])

LEMMA AbsorbOwn ==
  ASSUME ReplTypeOK, OwnInv, NEW n \in Nodes, NEW diff, Absorb(n, diff), accepted' = accepted
  PROVE  OwnInv'
<1> SUFFICES ASSUME NEW m \in Nodes, NEW k \in Keys
             PROVE  OwnOrEcho(m, k, pending[m][k])'
  BY DEF OwnInv
<1>1. OwnOrEcho(m, k, pending[m][k])
  BY DEF OwnInv
<1>2. CASE m # n
  <2>1. pending'[m] = pending[m]
    BY <1>2 DEF Absorb, ReplTypeOK
  <2> QED  BY <1>1, <2>1 DEF OwnOrEcho
<1>3. CASE m = n
  <2>1. pending'[n][k] = IF EchoedTombstones(store[n], diff)[k] = None THEN pending[n][k]
                         ELSE EchoedTombstones(store[n], diff)[k]
    BY DEF Absorb, Overlay, ReplTypeOK
  <2>2. EchoedTombstones(store[n], diff)[k] # None =>
          k[1] \in Datasets /\ EchoedTombstones(store[n], diff)[k] = Tombstone
    BY DEF EchoedTombstones
  <2> QED  BY <1>1, <1>3, <2>1, <2>2 DEF OwnOrEcho
<1> QED  BY <1>2, <1>3

\* A handler marks its own write, and the history keeps it.
LEMMA MarkOwn ==
  ASSUME ReplTypeOK, OwnInv, NEW n \in Nodes, NEW x \in Keys, NEW c,
         pending' = [pending EXCEPT ![n][x] = c], accepted' = accepted \cup {<<n, x, c>>}
  PROVE  OwnInv'
<1> SUFFICES ASSUME NEW m \in Nodes, NEW k \in Keys
             PROVE  OwnOrEcho(m, k, pending[m][k])'
  BY DEF OwnInv
<1>1. OwnOrEcho(m, k, pending[m][k])
  BY DEF OwnInv
<1>2. CASE m = n /\ k = x
  <2>1. pending'[m][k] = c
    BY <1>2 DEF ReplTypeOK, Diff
  <2> QED  BY <1>2, <2>1 DEF OwnOrEcho
<1>3. CASE ~(m = n /\ k = x)
  <2>1. pending'[m][k] = pending[m][k]
    BY <1>3 DEF ReplTypeOK, Diff
  <2> QED  BY <1>1, <2>1 DEF OwnOrEcho
<1> QED  BY <1>2, <1>3

\* A tracker that is emptied owes nothing.
LEMMA EmptiedOwn ==
  ASSUME ReplTypeOK, OwnInv, NEW n \in Nodes, pending' = [pending EXCEPT ![n] = Empty],
         accepted' = accepted
  PROVE  OwnInv'
<1>1. \A m \in Nodes, k \in Keys : pending'[m][k] = pending[m][k] \/ pending'[m][k] = None
  BY DEF ReplTypeOK, Empty
<1> QED  BY <1>1 DEF OwnInv, OwnOrEcho

LEMMA OwnStep ==
  ASSUME ReplTypeOK, OwnInv, [ReplNext]_replVars
  PROVE  OwnInv'
<1>1. CASE UNCHANGED <<pending, accepted>>
  BY <1>1 DEF OwnInv, OwnOrEcho
<1>2. ASSUME NEW n \in Nodes, Write(n) PROVE OwnInv'
  <2>1. ASSUME NEW k \in Keys, NEW c \in Contents, Accept(n, k, c) PROVE OwnInv'
    BY <2>1, MarkOwn DEF Accept
  <2>2. ASSUME NEW k \in Keys, Delete(n, k) PROVE OwnInv'
    BY <2>2, MarkOwn DEF Delete
  <2>3. \A f \in Functions \cup Datasets, v \in Versions : <<f, v>> \in Keys
    BY DEF Keys
  <2>4. \A b \in Buckets : <<b, 0>> \in Keys
    BY DEF Keys
  <2> QED  BY <1>2, <2>1, <2>2, <2>3, <2>4 DEF Write, RegisterFunction, UpdateFunction,
              RegisterData, RegisterBucket
<1>3. ASSUME NEW n \in Nodes, TickFlush(n) PROVE OwnInv'
  BY <1>3, EmptiedOwn DEF TickFlush
<1>4. ASSUME NEW n \in Nodes, StorePush(n) PROVE OwnInv'
  BY <1>4, AbsorbOwn DEF StorePush
<1>5. ASSUME NEW n \in Nodes, StorePull(n) PROVE OwnInv'
  BY <1>5, AbsorbOwn DEF StorePull
<1>6. ASSUME NEW n \in Nodes, ReplRestart(n) PROVE OwnInv'
  BY <1>6, EmptiedOwn DEF ReplRestart
<1>7. ASSUME NEW n \in Nodes,
             \/ TickQuiet(n) \/ MergePush(n) \/ ServePull(n) \/ PullTimeout(n)
             \/ ApplyPull(n) \/ ReplCrash(n)
             \/ \E m \in Nodes : DiscoverAndAsk(n, m) \/ Evict(n, m)
             \/ \E p \in pushes : RejectPush(n, p) \/ ReadPush(n, p)
      PROVE  OwnInv'
  BY <1>7, <1>1 DEF TickQuiet, MergePush, ServePull, PullTimeout, ApplyPull, ReplCrash,
     DiscoverAndAsk, Evict, RejectPush, ReadPush, syncVars
<1>8. ASSUME NEW p \in pushes, LosePush(p) PROVE OwnInv'
  BY <1>8, <1>1 DEF LosePush
<1>9. CASE UNCHANGED replVars
  BY <1>9, <1>1 DEF replVars
<1> QED  BY <1>2, <1>3, <1>4, <1>5, <1>6, <1>7, <1>8, <1>9 DEF ReplNext

\* Under all faults, a tracker holds what its own node's handlers accepted, and nothing of
\* what the node absorbed but the deletion of a dataset.
THEOREM TrackersAreOwn == ReplSpec => []OwnInv
<1>1. ReplInit => OwnInv
  BY DEF ReplInit, SyncInit, Empty, OwnInv, OwnOrEcho
<1> QED  BY <1>1, OwnStep, ReplTypeCorrect, PTL DEF ReplSpec

\* So for functions and buckets a leader flushes only its own writes: what it absorbed as a
\* follower is not flushed again.
THEOREM FlushedWritesAreOwn ==
  ASSUME Datasets = {}
  PROVE  ReplSpec => FlushesOwnWrites
<1>1. OwnInv => [\A n \in Nodes : TickFlush(n) =>
                   \A k \in Dirty(pending[n]) : <<n, k, pending[n][k]>> \in accepted]_replVars
  BY DEF OwnInv, OwnOrEcho, Dirty
<1> QED  BY <1>1, TrackersAreOwn, PTL DEF ReplSpec, FlushesOwnWrites

-----------------------------------------------------------------------------
(* A formed mesh without failures: pushes bring followers up to date *)

\* The circumstances of the claim: pushes are read in the order sent, nothing is lost and
\* nobody fails.
Undisturbed ==
  /\ Nodes # {} /\ InOrder /\ ~Relaunch
  /\ MaxCrashes = 0 /\ MaxLosses = 0 /\ MaxSilences = 0

Top == Highest(Nodes)

\* The mesh stays formed, and only its leader pushes, in a term no state is ahead of.
OneLeader ==
  /\ \A n \in Nodes : /\ up[n] /\ peers[n] = Nodes \ {n}
                      /\ view[n].leader = Top /\ puller[n] = Idle
                      /\ state[n].term <= view[Top].term
                      /\ router[n] # Idle => n # Top /\ router[n].push.term = view[Top].term
  /\ \A p \in pushes : p.leader = Top /\ p.to # Top /\ p.term = view[Top].term

To(n) == {p \in pushes : p.to = n}

\* The number of the push n's router reads next, where n has stored s pushes.
NextRead(n, s) == IF router[n] = Idle THEN s ELSE s + 1

\* Follower n has stored the first s pushes of the leader, whose state was h[i] after i of
\* them; the one its handler holds and those on the way to it are the rest.
Fed(n, h, s) ==
  LET flushed == state[Top].version
  IN  /\ s <= flushed
      /\ store[n] = ApplyIncoming(Empty, h[s])
      /\ router[n] # Idle =>
           /\ router[n].push.leader = Top /\ router[n].push.seq = s /\ s < flushed
           /\ h[s + 1] = Overlay(h[s], router[n].push.diff)
      /\ \A p \in To(n) : /\ NextRead(n, s) <= p.seq /\ p.seq < flushed
                          /\ h[p.seq + 1] = Overlay(h[p.seq], p.diff)
      /\ \A i \in Nat : NextRead(n, s) <= i /\ i < flushed => \E p \in To(n) : p.seq = i
      /\ \A p, q \in To(n) : p.seq = q.seq => p = q

Followers == Nodes \ {Top}

\* One history of the leader's state explains every follower.
FedInv ==
  \E h \in [Nat -> Diff] :
    /\ h[state[Top].version] = state[Top].entries
    /\ \A n \in Followers : \E s \in Nat : Fed(n, h, s)

LEMMA TopIsNode == Undisturbed => Top \in Nodes
  BY HighestIsMax DEF Undisturbed, Top

LEMMA FormedInitially ==
  ASSUME Undisturbed, FormedInit
  PROVE  ReplTypeOK /\ OneLeader /\ FedInv
<1>1. Top \in Nodes /\ Nodes \subseteq Nat
  BY TopIsNode, NodesAssumption
<1>2. \A n \in Nodes : view[n] \in LeaderView /\ view[n].leader = Top
  <2> SUFFICES ASSUME NEW n \in Nodes  PROVE view[n] \in LeaderView /\ view[n].leader = Top
    OBVIOUS
  <2>1. view[n] = Recompute(InitialView(n), n, Nodes) /\ Nodes \cup {n} = Nodes
    BY DEF FormedInit
  <2> QED  BY <1>1, <2>1 DEF Recompute, InitialView, LeaderView, Top
<1>3. MemberTypeOK
  <2>1. view \in [Nodes -> LeaderView]
    BY <1>2 DEF FormedInit
  <2> QED  BY <2>1 DEF FormedInit, MemberTypeOK
<1>4. ReplTypeOK
  BY <1>3, EmptyTypes DEF FormedInit, SyncInit, ReplTypeOK, RouterState, PullerState
<1>5. OneLeader
  <2>1. view[Top].term \in Nat
    BY <1>1, <1>2 DEF LeaderView
  <2> QED  BY <1>2, <2>1 DEF FormedInit, SyncInit, InitialState, OneLeader
<1>6. FedInv
  <2> DEFINE h == [i \in Nat |-> Empty]
  <2>1. h \in [Nat -> Diff]
    BY EmptyTypes
  <2>2. state[Top].version = 0 /\ state[Top].entries = Empty
    BY <1>1 DEF FormedInit, SyncInit, InitialState
  <2>3. ApplyIncoming(Empty, Empty) = Empty
    BY DEF ApplyIncoming, Empty
  <2>4. \A n \in Followers : Fed(n, h, 0)
    BY <2>2, <2>3 DEF FormedInit, SyncInit, Fed, Followers, To, NextRead
  <2>5. h[state[Top].version] = state[Top].entries
    BY <2>2
  <2> HIDE DEF h
  <2> QED  BY <2>1, <2>4, <2>5 DEF FedInv
<1> QED  BY <1>4, <1>5, <1>6

\* In a formed mesh no view changes.
LEMMA ViewStays ==
  ASSUME Undisturbed, ReplTypeOK, OneLeader, NEW n \in Nodes, Elect(n)
  PROVE  UNCHANGED <<up, peers, view>>
<1>1. (Nodes \ {n}) \cup {n} = Nodes
  OBVIOUS
<1>2. Recompute(view[n], n, peers[n]) = view[n]
  BY <1>1 DEF OneLeader, Recompute, Top
<1> QED  BY <1>2 DEF Elect, ReplTypeOK, MemberTypeOK

\* Nothing is lost, nobody fails, and nobody is discovered or forgotten.
LEMMA NothingHappens ==
  ASSUME Undisturbed, ReplTypeOK, OneLeader, NEW n \in Nodes
  PROVE  /\ ~ServePull(n) /\ ~PullTimeout(n) /\ ~ApplyPull(n) /\ ~StorePull(n)
         /\ ~ReplCrash(n) /\ ~ReplRestart(n)
         /\ \A m \in Nodes : ~DiscoverAndAsk(n, m) /\ ~Evict(n, m)
         /\ \A p \in pushes : ~RejectPush(n, p) /\ ~LosePush(p)
<1>1. crashes \in Nat /\ losses \in Nat /\ silences \in Nat
  BY DEF ReplTypeOK
<1>2. puller[n].pc = "idle" /\ up[n]
  BY DEF OneLeader, Idle
<1>3. ~ServePull(n) /\ ~PullTimeout(n) /\ ~ApplyPull(n) /\ ~StorePull(n)
  BY <1>2 DEF ServePull, PullTimeout, ApplyPull, StorePull
<1>4. ~ReplCrash(n) /\ ~ReplRestart(n)
  BY <1>1 DEF ReplCrash, ReplRestart, Undisturbed
<1>5. ASSUME NEW m \in Nodes  PROVE ~DiscoverAndAsk(n, m) /\ ~Evict(n, m)
  BY <1>1 DEF DiscoverAndAsk, Discover, Evict, Undisturbed, OneLeader
<1>6. ASSUME NEW p \in pushes  PROVE ~RejectPush(n, p) /\ ~LosePush(p)
  <2>1. p.to \in Nodes /\ p.term \in Nat /\ p.term = view[Top].term
    BY DEF ReplTypeOK, OneLeader, Push
  <2>2. state[n].term \in Nat /\ state[n].term <= p.term
    BY <2>1 DEF ReplTypeOK, OneLeader, ClusterState
  <2>3. ~RejectPush(n, p)
    BY <2>1, <2>2 DEF RejectPush, StaleTerm
  <2> QED  BY <1>1, <2>1, <2>3 DEF LosePush, Undisturbed, OneLeader
<1> QED  BY <1>3, <1>4, <1>5, <1>6

\* What remains: writes and flushes of the leader, and the followers' push handlers.
LEMMA StepsLeft ==
  ASSUME Undisturbed, ReplTypeOK, OneLeader, [ReplNext]_replVars
  PROVE  \/ UNCHANGED <<up, peers, view, state, router, puller, pushes>>
            /\ (\A n \in Followers : store'[n] = store[n])
         \/ TickFlush(Top) /\ UNCHANGED <<up, peers, view>>
         \/ \E n \in Followers : \/ MergePush(n) \/ StorePush(n)
                                 \/ \E p \in pushes : ReadPush(n, p)
<1>1. Top \in Nodes
  BY TopIsNode
<1>2. ASSUME NEW n \in Nodes, Write(n)
      PROVE  UNCHANGED <<up, peers, view, state, router, puller, pushes>>
             /\ (\A m \in Followers : store'[m] = store[m])
  <2>1. ASSUME NEW k, NEW c, Leading(n),
               store' = [store EXCEPT ![n][k] = c]
        PROVE  \A m \in Followers : store'[m] = store[m]
    BY <2>1 DEF Leading, IsLeader, OneLeader, Followers, ReplTypeOK
  <2>2. ASSUME NEW k, NEW c, Leading(n), Accept(n, k, c)
        PROVE  UNCHANGED <<up, peers, view, state, router, puller, pushes>>
               /\ (\A m \in Followers : store'[m] = store[m])
    BY <2>1, <2>2 DEF Accept
  <2>3. ASSUME NEW k, Delete(n, k)
        PROVE  UNCHANGED <<up, peers, view, state, router, puller, pushes>>
               /\ (\A m \in Followers : store'[m] = store[m])
    BY <2>1, <2>3 DEF Delete
  <2> QED  BY <1>2, <2>2, <2>3 DEF Write, RegisterFunction, UpdateFunction, RegisterData,
              RegisterBucket
<1>3. ASSUME NEW n \in Nodes, TickQuiet(n)
      PROVE  UNCHANGED <<up, peers, view, state, router, puller, pushes, store>>
  BY <1>3, ViewStays DEF TickQuiet, syncVars
<1>4. ASSUME NEW n \in Nodes, TickFlush(n)
      PROVE  n = Top /\ UNCHANGED <<up, peers, view>>
  <2>1. UNCHANGED <<up, peers, view>>
    BY <1>4, ViewStays DEF TickFlush
  <2> QED  BY <1>4, <2>1 DEF TickFlush, OneLeader
<1>5. ASSUME NEW n \in Nodes,
             MergePush(n) \/ StorePush(n) \/ \E p \in pushes : ReadPush(n, p)
      PROVE  n \in Followers
  <2>1. CASE MergePush(n) \/ StorePush(n)
    BY <2>1 DEF MergePush, StorePush, OneLeader, Followers, Idle
  <2>2. CASE \E p \in pushes : ReadPush(n, p)
    BY <2>2 DEF ReadPush, OneLeader, Followers
  <2> QED  BY <1>5, <2>1, <2>2
<1>6. ASSUME NEW p \in pushes  PROVE ~LosePush(p)
  BY <1>1, NothingHappens
<1>7. CASE UNCHANGED replVars
  BY <1>7 DEF replVars
<1> QED  BY <1>2, <1>3, <1>4, <1>5, <1>6, <1>7, NothingHappens DEF ReplNext

LEMMA OneLeaderStep ==
  ASSUME Undisturbed, ReplTypeOK, ReplTypeOK', OneLeader, [ReplNext]_replVars
  PROVE  OneLeader'
<1>1. Top \in Nodes
  BY TopIsNode
<1>2. CASE UNCHANGED <<up, peers, view, state, router, puller, pushes>>
  BY <1>2 DEF OneLeader
<1>3. CASE TickFlush(Top) /\ UNCHANGED <<up, peers, view>>
  <2>1. \A n \in Nodes : state'[n].term = state[n].term
    BY <1>3 DEF TickFlush, ApplyLocal, ReplTypeOK
  <2>2. \A p \in pushes' : p.leader = Top /\ p.to # Top /\ p.term = view[Top].term
    BY <1>1, <1>3 DEF TickFlush, OneLeader
  <2> QED  BY <1>3, <2>1, <2>2 DEF TickFlush, OneLeader
<1>4. ASSUME NEW n \in Followers, MergePush(n)  PROVE OneLeader'
  <2>1. n \in Nodes /\ n # Top
    BY DEF Followers
  <2>2. router[n] # Idle /\ router'[n].push = router[n].push /\ router[n].push \in Push
    BY <1>4, <2>1, InFlight DEF MergePush, ReplTypeOK, Idle
  <2>3. state'[n] = state[n] \/ state'[n].term = router[n].push.term
    BY <1>4, <2>1 DEF MergePush, ApplyRemote, Merged, ReplTypeOK
  <2>4. router[n].push.term = view[Top].term /\ view[Top].term \in Nat
    BY <1>1, <2>1, <2>2 DEF OneLeader, ReplTypeOK, MemberTypeOK, LeaderView
  <2>5. \A m \in Nodes : state'[m].term <= view[Top].term
    BY <1>4, <2>1, <2>3, <2>4 DEF MergePush, OneLeader, ReplTypeOK
  <2>6. \A m \in Nodes : router'[m] # Idle => m # Top /\ router'[m].push.term = view[Top].term
    BY <1>4, <2>1, <2>2, <2>4 DEF MergePush, OneLeader, ReplTypeOK
  <2> QED  BY <1>4, <2>5, <2>6 DEF MergePush, OneLeader
<1>5. ASSUME NEW n \in Followers, StorePush(n)  PROVE OneLeader'
  BY <1>5 DEF StorePush, OneLeader, ReplTypeOK
<1>6. ASSUME NEW n \in Followers, NEW p \in pushes, ReadPush(n, p)  PROVE OneLeader'
  <2>1. \A m \in Nodes : router'[m] # Idle => m # Top /\ router'[m].push.term = view[Top].term
    BY <1>6 DEF ReadPush, OneLeader, ReplTypeOK, Followers
  <2> QED  BY <1>6, <2>1 DEF ReadPush, OneLeader
<1> QED  BY <1>2, <1>3, <1>4, <1>5, <1>6, StepsLeft

\* Storing a diff over the records of a state gives the records of the state that diff is
\* merged into.
LEMMA StoreFollowsState ==
  ASSUME NEW e \in Diff, NEW d \in Diff
  PROVE  ApplyIncoming(ApplyIncoming(Empty, e), d) = ApplyIncoming(Empty, Overlay(e, d))
  BY ContentsAssumption DEF ApplyIncoming, Overlay, Empty, Diff

\* A follower whose store, router and pushes stay is fed as before, as long as the leader's
\* history only grows.
LEMMA FedSame ==
  ASSUME NEW n \in Followers, NEW h, NEW s, Fed(n, h, s), store'[n] = store[n],
         router'[n] = router[n], To(n)' = To(n), state'[Top].version = state[Top].version
  PROVE  Fed(n, h, s)'
  BY DEF Fed, NextRead

LEMMA FedFlush ==
  ASSUME Undisturbed, ReplTypeOK, OneLeader, FedInv, TickFlush(Top), UNCHANGED <<up, peers, view>>
  PROVE  FedInv'
<1>1. Top \in Nodes /\ state[Top].version \in Nat /\ state[Top].entries \in Diff
      /\ pending[Top] \in Diff
  BY TopIsNode DEF ReplTypeOK, ClusterState
<1>2. PICK h \in [Nat -> Diff] :
        /\ h[state[Top].version] = state[Top].entries
        /\ \A n \in Followers : \E s \in Nat : Fed(n, h, s)
  BY DEF FedInv
<1>3. PICK v \in Nat : v = state[Top].version
  BY <1>1
<1>4. PICK d \in Diff : d = pending[Top]
  BY <1>1
<1>5. PICK g \in [Nat -> Diff] : g = [h EXCEPT ![v + 1] = Overlay(h[v], d)]
  BY <1>4, OverlayType
<1>6. g[v + 1] = Overlay(h[v], d) /\ \A i \in Nat : i <= v => g[i] = h[i]
  BY <1>5
<1>7. state'[Top].version = v + 1 /\ state'[Top].entries = Overlay(h[v], d)
  BY <1>1, <1>2, <1>3, <1>4 DEF TickFlush, ApplyLocal, ReplTypeOK
<1>8. ASSUME NEW n \in Followers  PROVE \E s \in Nat : Fed(n, g, s)'
  <2>1. PICK s \in Nat : Fed(n, h, s)
    BY <1>2
  <2>2. s <= v /\ store'[n] = ApplyIncoming(Empty, g[s]) /\ router'[n] = router[n]
    BY <2>1, <1>3, <1>6, <1>8 DEF Fed, TickFlush
  <2> DEFINE new == [to |-> n, leader |-> Top, term |-> view[Top].term, seq |-> v, diff |-> d]
  <2>3. To(n)' = To(n) \cup {new}
    <3>1. pushes' = pushes \cup [to : Nodes \ {Top}, leader : {Top}, term : {view[Top].term},
                                 seq : {v}, diff : {d}]
      BY <1>1, <1>3, <1>4 DEF TickFlush, OneLeader
    <3> QED  BY <3>1 DEF To, Followers
  <2>4. To(n) \subseteq Push
    BY DEF To, ReplTypeOK
  <2>5. router[n] # Idle => /\ router[n].push.leader = Top /\ router[n].push.seq = s /\ s < v
                            /\ g[s + 1] = Overlay(g[s], router[n].push.diff)
    BY <2>1, <1>3, <1>6 DEF Fed
  <2>6. NextRead(n, s) \in Nat /\ NextRead(n, s) <= v /\ NextRead(n, s)' = NextRead(n, s)
    BY <2>2, <2>5 DEF NextRead
  <2>7. \A p \in To(n) : /\ NextRead(n, s) <= p.seq /\ p.seq < v /\ p.seq \in Nat
                         /\ g[p.seq + 1] = Overlay(g[p.seq], p.diff)
    BY <2>1, <2>4, <1>3, <1>6 DEF Fed, Push
  <2>8. \A p \in To(n)' : /\ NextRead(n, s) <= p.seq /\ p.seq < v + 1
                          /\ g[p.seq + 1] = Overlay(g[p.seq], p.diff)
    BY <2>3, <2>6, <2>7, <1>6
  <2>9. \A i \in Nat : NextRead(n, s) <= i /\ i < v + 1 => \E p \in To(n)' : p.seq = i
    <3> SUFFICES ASSUME NEW i \in Nat, NextRead(n, s) <= i, i < v + 1
                 PROVE  \E p \in To(n)' : p.seq = i
      OBVIOUS
    <3>1. CASE i = v
      <4>1. new \in To(n)' /\ new.seq = i
        BY <2>3, <3>1
      <4> QED  BY <4>1
    <3>2. CASE i < v
      BY <2>1, <2>3, <3>2, <1>3 DEF Fed
    <3> QED  BY <3>1, <3>2
  <2>10. \A p, q \in To(n)' : p.seq = q.seq => p = q
    <3>1. \A p, q \in To(n) : p.seq = q.seq => p = q
      BY <2>1 DEF Fed
    <3>2. \A p \in To(n) : p.seq # new.seq
      BY <2>7
    <3> QED  BY <3>1, <3>2, <2>3
  <2>11. Fed(n, g, s)'
    BY <2>2, <2>5, <2>6, <2>8, <2>9, <2>10, <1>7 DEF Fed
  <2> QED  BY <2>11
<1>9. g[state'[Top].version] = state'[Top].entries
  BY <1>6, <1>7
<1> QED  BY <1>8, <1>9 DEF FedInv

\* The push n's router reads is the next one: it is the oldest on its way, none is missing.
LEMMA ReadsNext ==
  ASSUME Undisturbed, ReplTypeOK, OneLeader, NEW n \in Followers, NEW h, NEW s \in Nat,
         Fed(n, h, s), NEW p \in pushes, ReadPush(n, p)
  PROVE  p.seq = s /\ p \in To(n) /\ s < state[Top].version
<1>1. p \in To(n) /\ router[n] = Idle /\ p.seq \in Nat /\ p.seq < state[Top].version
      /\ s <= p.seq /\ state[Top].version \in Nat
  BY TopIsNode DEF ReadPush, To, Fed, NextRead, ReplTypeOK, ClusterState, Push
<1>2. PICK q \in To(n) : q.seq = s
  BY <1>1 DEF Fed, NextRead
<1>3. p.seq <= q.seq
  BY <1>1, <1>2 DEF ReadPush, Readable, Undisturbed, OneLeader, To
<1> QED  BY <1>1, <1>2, <1>3

LEMMA FedRead ==
  ASSUME Undisturbed, ReplTypeOK, OneLeader, NEW n \in Followers, NEW h, NEW s \in Nat,
         Fed(n, h, s), NEW p \in pushes, ReadPush(n, p)
  PROVE  Fed(n, h, s)'
<1>1. p.seq = s /\ p \in To(n) /\ s < state[Top].version
  BY ReadsNext
<1>2. n \in Nodes /\ router[n] = Idle /\ NextRead(n, s) = s
  BY DEF ReadPush, NextRead, Followers
<1>3. router'[n] # Idle /\ router'[n].push = p
  BY <1>2 DEF ReadPush, ReplTypeOK, Idle
<1>4. To(n)' = To(n) \ {p} /\ To(n) \subseteq Push
  BY DEF ReadPush, To, ReplTypeOK
<1>5. NextRead(n, s)' = s + 1
  BY <1>3 DEF NextRead
<1>6. p.leader = Top /\ h[s + 1] = Overlay(h[s], p.diff)
  BY <1>1, <1>2 DEF Fed, OneLeader
<1>7. \A q \in To(n)' : /\ s + 1 <= q.seq /\ q.seq < state[Top].version
                        /\ h[q.seq + 1] = Overlay(h[q.seq], q.diff)
  <2>1. \A q \in To(n)' : q \in To(n) /\ q.seq # s /\ q.seq \in Nat
    BY <1>1, <1>4 DEF Fed, Push
  <2> QED  BY <2>1, <1>2 DEF Fed
<1>8. \A i \in Nat : s + 1 <= i /\ i < state[Top].version => \E q \in To(n)' : q.seq = i
  <2> SUFFICES ASSUME NEW i \in Nat, s + 1 <= i, i < state[Top].version
               PROVE  \E q \in To(n)' : q.seq = i
    OBVIOUS
  <2>1. PICK q \in To(n) : q.seq = i
    BY <1>2 DEF Fed
  <2>2. q # p
    BY <1>1, <2>1
  <2> QED  BY <2>1, <2>2, <1>4
<1>9. state' = state /\ store' = store
  BY DEF ReadPush
<1>10. \A x, y \in To(n)' : x.seq = y.seq => x = y
  BY <1>4 DEF Fed
<1> QED  BY <1>1, <1>3, <1>5, <1>6, <1>7, <1>8, <1>9, <1>10 DEF Fed

LEMMA FedStore ==
  ASSUME Undisturbed, ReplTypeOK, OneLeader, NEW n \in Followers, NEW h \in [Nat -> Diff],
         NEW s \in Nat, Fed(n, h, s), StorePush(n)
  PROVE  Fed(n, h, s + 1)' /\ store'[n] = ApplyIncoming(Empty, h[s + 1])
         /\ router[n].push.seq = s /\ router[n].push.leader = Top
<1>1. n \in Nodes /\ router[n] # Idle /\ router'[n] = Idle /\ router[n].push.diff \in Diff
  BY InFlight DEF StorePush, ReplTypeOK, Idle, Followers
<1>2. router[n].push.leader = Top /\ router[n].push.seq = s /\ s < state[Top].version
      /\ h[s + 1] = Overlay(h[s], router[n].push.diff)
  BY <1>1 DEF Fed
<1>3. store'[n] = ApplyIncoming(store[n], router[n].push.diff)
  BY <1>1 DEF StorePush, Absorb, ReplTypeOK
<1>4. store'[n] = ApplyIncoming(Empty, h[s + 1])
  BY <1>1, <1>2, <1>3, StoreFollowsState DEF Fed
<1>5. NextRead(n, s) = s + 1 /\ NextRead(n, s + 1)' = s + 1
  BY <1>1 DEF NextRead
<1>6. state' = state /\ To(n)' = To(n) /\ state[Top].version \in Nat
  BY TopIsNode DEF StorePush, To, ReplTypeOK, ClusterState
<1>7. s + 1 <= state[Top].version
  BY <1>2, <1>6
<1> QED  BY <1>1, <1>2, <1>4, <1>5, <1>6, <1>7 DEF Fed

LEMMA FedMerge ==
  ASSUME Undisturbed, ReplTypeOK, OneLeader, NEW n \in Followers, NEW h, NEW s \in Nat,
         Fed(n, h, s), MergePush(n)
  PROVE  Fed(n, h, s)'
<1>1. n \in Nodes /\ n # Top /\ router[n] # Idle /\ router'[n] # Idle
      /\ router'[n].push = router[n].push
  BY InFlight DEF MergePush, ReplTypeOK, Idle, Followers
<1>2. state'[Top] = state[Top] /\ To(n)' = To(n) /\ store' = store
  BY <1>1 DEF MergePush, To, ReplTypeOK
<1> QED  BY <1>1, <1>2 DEF Fed, NextRead

\* A step of one follower does not touch the others, nor the leader's state.
LEMMA OthersFed ==
  ASSUME Undisturbed, ReplTypeOK, OneLeader, NEW n \in Followers,
         MergePush(n) \/ StorePush(n) \/ \E p \in pushes : ReadPush(n, p)
  PROVE  /\ state'[Top] = state[Top]
         /\ \A m \in Followers \ {n} : store'[m] = store[m] /\ router'[m] = router[m] /\ To(m)' = To(m)
<1>1. n \in Nodes /\ n # Top
  BY DEF Followers
<1>2. CASE MergePush(n)
  BY <1>1, <1>2 DEF MergePush, ReplTypeOK, To
<1>3. CASE StorePush(n)
  BY <1>1, <1>3 DEF StorePush, Absorb, ReplTypeOK, To
<1>4. CASE \E p \in pushes : ReadPush(n, p)
  BY <1>1, <1>4 DEF ReadPush, ReplTypeOK, To
<1> QED  BY <1>2, <1>3, <1>4

LEMMA FedStep ==
  ASSUME Undisturbed, ReplTypeOK, OneLeader, FedInv, [ReplNext]_replVars
  PROVE  FedInv'
<1>1. PICK h \in [Nat -> Diff] :
        /\ h[state[Top].version] = state[Top].entries
        /\ \A n \in Followers : \E s \in Nat : Fed(n, h, s)
  BY DEF FedInv
<1>2. CASE /\ UNCHANGED <<up, peers, view, state, router, puller, pushes>>
           /\ (\A n \in Followers : store'[n] = store[n])
  <2>1. \A n \in Followers, s \in Nat : Fed(n, h, s) => Fed(n, h, s)'
    BY <1>2, FedSame DEF To
  <2> QED  BY <1>1, <1>2, <2>1 DEF FedInv
<1>3. CASE TickFlush(Top) /\ UNCHANGED <<up, peers, view>>
  BY <1>3, FedFlush
<1>4. ASSUME NEW n \in Followers,
             MergePush(n) \/ StorePush(n) \/ \E p \in pushes : ReadPush(n, p)
      PROVE  FedInv'
  <2>1. /\ state'[Top] = state[Top]
        /\ \A m \in Followers \ {n} : store'[m] = store[m] /\ router'[m] = router[m] /\ To(m)' = To(m)
    BY <1>4, OthersFed
  <2>2. \A m \in Followers \ {n}, s \in Nat : Fed(m, h, s) => Fed(m, h, s)'
    BY <2>1, FedSame
  <2>3. PICK s \in Nat : Fed(n, h, s)
    BY <1>1
  <2>4. \E t \in Nat : Fed(n, h, t)'
    <3>1. Fed(n, h, s)' \/ Fed(n, h, s + 1)'
      BY <1>4, <2>3, FedMerge, FedStore, FedRead
    <3> QED  BY <3>1
  <2>5. ASSUME NEW m \in Followers  PROVE \E t \in Nat : Fed(m, h, t)'
    BY <1>1, <2>2, <2>4
  <2> QED  BY <1>1, <2>1, <2>5 DEF FedInv
<1> QED  BY <1>2, <1>3, <1>4, StepsLeft

LEMMA FormedStays ==
  ASSUME Undisturbed
  PROVE  FormedSpec => [](ReplTypeOK /\ OneLeader /\ FedInv)
<1>1. FormedInit => ReplTypeOK /\ OneLeader /\ FedInv
  BY FormedInitially
<1>2. ReplTypeOK /\ OneLeader /\ FedInv /\ [ReplNext]_replVars
        => (ReplTypeOK /\ OneLeader /\ FedInv)'
  BY ReplTypeStep, OneLeaderStep, FedStep
<1> QED  BY <1>1, <1>2, PTL DEF FormedSpec

\* In a formed mesh of any size in which nothing is lost and nobody fails, a follower that
\* has stored the leader's latest push holds all that the leader has replicated, however
\* writes, flushes and the steps of the push handlers interleave.
THEOREM PushesCatchUp ==
  ASSUME Undisturbed
  PROVE  FormedSpec => PushCatchesUp
<1> DEFINE Step == \A n \in Nodes : StorePush(n) =>
                     LET leader == router[n].push.leader
                     IN  router[n].push.seq + 1 = state[leader].version =>
                           store'[n] = ApplyIncoming(Empty, state[leader].entries)
<1>1. ReplTypeOK /\ OneLeader /\ FedInv => Step
  <2> SUFFICES ASSUME ReplTypeOK, OneLeader, FedInv, NEW n \in Nodes, StorePush(n),
                      router[n].push.seq + 1 = state[router[n].push.leader].version
               PROVE  store'[n] = ApplyIncoming(Empty, state[router[n].push.leader].entries)
    OBVIOUS
  <2>1. PICK h \in [Nat -> Diff] :
          /\ h[state[Top].version] = state[Top].entries
          /\ \A m \in Followers : \E s \in Nat : Fed(m, h, s)
    BY DEF FedInv
  <2>2. n \in Followers
    BY DEF StorePush, OneLeader, Followers, Idle
  <2>3. PICK s \in Nat : Fed(n, h, s)
    BY <2>1, <2>2
  <2>4. /\ store'[n] = ApplyIncoming(Empty, h[s + 1])
        /\ router[n].push.seq = s /\ router[n].push.leader = Top
    BY <2>2, <2>3, FedStore
  <2> QED  BY <2>1, <2>4
<1>2. ReplTypeOK /\ OneLeader /\ FedInv => [Step]_replVars
  BY <1>1
<1> QED  BY <1>2, FormedStays, PTL DEF FormedSpec, PushCatchesUp

=============================================================================
