----------------------------- MODULE Replication -----------------------------
(***************************************************************************)
(* Replication of the function, data and bucket catalogs of an axo_endpoint *)
(* mesh.  A node that believes it leads accepts registrations, updates and  *)
(* deletions into its registries and its DirtyTracker; its consensus tick   *)
(* drains the tracker into its ReplicatedStateMachine and pushes the diff,  *)
(* once, to every peer it knows.  A node that discovers a peer pulls that   *)
(* peer's whole state.                                                      *)
(*                                                                          *)
(* Three threads of a node touch this state: the router thread (commands,   *)
(* STATE_SYNC_PUSH), the heartbeat subscriber thread (STATE_SYNC_PULL on    *)
(* discovery) and the publish loop (the tick).  The push handler and the    *)
(* pull are modelled one lock region at a time.                             *)
(***************************************************************************)
EXTENDS Membership

CONSTANTS
  Functions, Datasets, Buckets,  \* catalog ids (pairwise disjoint)
  MaxVersion,      \* bound on the versions of one function or dataset
  Contents,        \* what a record may hold
  None,            \* no entry under a key
  Tombstone,       \* __tombstone__: the key was deleted
  MaxDirtyCount,   \* DirtyTracker._max_dirty_count
  InOrder,         \* pushes of one process reach a node in the order sent
  Relaunch,        \* an endpoint that is down may be started
  MaxWrites,       \* bound on accepted writes
  MaxCrashes,      \* bound on process failures
  MaxLosses,       \* bound on lost pushes and pulls between running nodes
  MaxSilences      \* bound on TTL-long silences between running nodes

Versions == 1 .. MaxVersion
Keys == ((Functions \cup Datasets) \X Versions) \cup (Buckets \X {0})

ASSUME ContentsAssumption ==
  /\ None \notin Contents /\ Tombstone \notin Contents /\ None # Tombstone
  /\ InOrder \in BOOLEAN /\ Relaunch \in BOOLEAN
  /\ MaxVersion \in Nat /\ MaxWrites \in Nat
  /\ MaxCrashes \in Nat /\ MaxLosses \in Nat /\ MaxSilences \in Nat

VARIABLES
  store,     \* store[n]: the registries' in-memory backends
  pending,   \* pending[n]: DirtyTracker._pending_functions/_data/_buckets
  state,     \* state[n]: InMemoryReplicatedStateMachine._state
  router,    \* router[n]: where n's router thread is in StateSyncPushHandler
  puller,    \* puller[n]: where n's subscriber thread is in _pull_state_sync
  pushes,    \* STATE_SYNC_PUSH commands in flight
  accepted,  \* history: <<node, key, entry>>, what node's own handlers accepted
  writes, crashes, losses, silences   \* how much of the bounds is used

syncVars == <<store, pending, state, router, puller, pushes, accepted>>
budget == <<writes, crashes, losses, silences>>
replVars == <<up, peers, view, store, pending, state, router, puller, pushes,
              accepted, writes, crashes, losses, silences>>

-----------------------------------------------------------------------------
(* Data *)

\* A catalog: every key's record.  A diff also has tombstones.
Catalog == [Keys -> Contents \cup {None}]
Diff == [Keys -> Contents \cup {None, Tombstone}]

Empty == [k \in Keys |-> None]
Dirty(d) == {k \in Keys : d[k] # None}

\* ClusterState; leader_ids and members are shipped but never read.
ClusterState == [term : Nat, version : Nat, entries : Diff]
InitialState == [term |-> 0, version |-> 0, entries |-> Empty]

\* dict.update
Overlay(base, diff) ==
  [k \in Keys |-> IF diff[k] = None THEN base[k] ELSE diff[k]]

\* Mutants of ApplyIncoming: tombstones are ignored; what the diff does not name is
\* dropped.
ApplyIncomingNoDelete(catalog, diff) ==
  [k \in Keys |-> IF diff[k] \in {None, Tombstone} THEN catalog[k] ELSE diff[k]]
ApplyIncomingReplace(catalog, diff) ==
  [k \in Keys |-> IF diff[k] \in {None, Tombstone} THEN None ELSE diff[k]]

\* apply_incoming of the three sync bridges: put the records, delete what has
\* a tombstone.
ApplyIncoming(catalog, diff) ==
  [k \in Keys |-> IF diff[k] = None THEN catalog[k]
                  ELSE IF diff[k] = Tombstone THEN None
                  ELSE diff[k]]

\* Mutant of EchoedTombstones: a record is overwritten by delete() and put.
EchoOfOverwrites(catalog, diff) ==
  [k \in Keys |-> IF diff[k] # None /\ catalog[k] # None THEN Tombstone ELSE None]

\* DataRegistrySyncBridge.apply_incoming deletes through DataRegistry.delete,
\* whose DATA_DELETED_EVENT marks the tombstone dirty on this node too.
EchoedTombstones(catalog, diff) ==
  [k \in Keys |-> IF /\ k[1] \in Datasets
                     /\ diff[k] = Tombstone
                     /\ catalog[k] # None
                  THEN Tombstone ELSE None]

\* InMemoryReplicatedStateMachine.apply_local
ApplyLocal(s, diff) ==
  [term |-> s.term, version |-> s.version + 1, entries |-> Overlay(s.entries, diff)]

\* Mutant of Supersedes: any other version is taken.
SupersedesAnyOther(incoming, s) == incoming.version # s.version

\* apply_remote: TRUE iff the incoming state is taken.
Supersedes(incoming, s) == incoming.version > s.version
ApplyRemote(s, incoming) == IF Supersedes(incoming, s) THEN incoming ELSE s

Push == [to : Nodes, leader : Nodes, term : Nat, seq : Nat, diff : Diff]

\* The push handler read `local` (pc = "merge"), then applied the merged state
\* (pc = "store"); next it writes the registries.
Idle == [pc |-> "idle"]
RouterState ==
  {Idle} \cup [pc : {"merge", "store"}, local : ClusterState, push : Push]

\* The pull was sent to `peer` ("asked"), answered ("apply"), taken ("store").
PullerState ==
  {Idle} \cup [pc : {"asked"}, peer : Nodes]
         \cup [pc : {"apply", "store"}, incoming : ClusterState]

\* Registries, trackers, states and messages hold entries under their keys; the threads
\* are at a known step.
ReplTypeOK ==
  /\ MemberTypeOK
  /\ store \in [Nodes -> Catalog]
  /\ pending \in [Nodes -> Diff]
  /\ state \in [Nodes -> ClusterState]
  /\ router \in [Nodes -> RouterState]
  /\ puller \in [Nodes -> PullerState]
  /\ pushes \subseteq Push
  /\ accepted \subseteq Nodes \X Keys \X (Contents \cup {Tombstone})
  /\ writes \in Nat /\ crashes \in Nat /\ losses \in Nat /\ silences \in Nat

\* Catalogs, tracker and state machine are empty in a fresh process.
SyncInit ==
  /\ store = [n \in Nodes |-> Empty]
  /\ pending = [n \in Nodes |-> Empty]
  /\ state = [n \in Nodes |-> InitialState]
  /\ router = [n \in Nodes |-> Idle]
  /\ puller = [n \in Nodes |-> Idle]
  /\ pushes = {}
  /\ accepted = {}
  /\ writes = 0 /\ crashes = 0 /\ losses = 0 /\ silences = 0

ReplInit == MemberInit /\ SyncInit

-----------------------------------------------------------------------------
(* Writes: the leader-only handlers behind LeaderProxyHandler.  A command   *)
(* given to another node is forwarded to the leader that node knows, or     *)
(* refused; either way it changes state only where it is handled.           *)

Leading(n) == up[n] /\ IsLeader(n) /\ router[n] = Idle

\* The handler put the record, and its event marked it dirty.
Accept(n, k, c) ==
  /\ writes < MaxWrites
  /\ store' = [store EXCEPT ![n][k] = c]
  /\ pending' = [pending EXCEPT ![n][k] = c]
  /\ accepted' = accepted \cup {<<n, k, c>>}
  /\ writes' = writes + 1
  /\ UNCHANGED <<up, peers, view, state, router, puller, pushes, crashes, losses,
                 silences>>

\* FunctionRegistry.register: max(existing versions, default=0) + 1
NextVersion(n, f) ==
  LET existing == {v \in Versions : store[n][<<f, v>>] # None}
  IN  Highest(existing \cup {0}) + 1

RegisterFunction(n, f, c) ==
  /\ Leading(n)
  /\ NextVersion(n, f) \in Versions
  /\ Accept(n, <<f, NextVersion(n, f)>>, c)

\* FunctionRegistry.update: the version stays, the record changes.
UpdateFunction(n, f, v, c) ==
  /\ Leading(n)
  /\ store[n][<<f, v>>] # None
  /\ Accept(n, <<f, v>>, c)

\* DataRegistry.register: the caller names the version; a second registration
\* replaces the first.
RegisterData(n, d, v, c) ==
  /\ Leading(n)
  /\ Accept(n, <<d, v>>, c)

\* BucketRegistry.register refuses a name it has.
RegisterBucket(n, b, c) ==
  /\ Leading(n)
  /\ store[n][<<b, 0>>] = None
  /\ Accept(n, <<b, 0>>, c)

\* FunctionRegistry.delete, DataRegistry.delete: only what is there.  There is
\* no deletion of buckets.
Delete(n, k) ==
  /\ Leading(n)
  /\ k[1] \notin Buckets
  /\ store[n][k] # None
  /\ writes < MaxWrites
  /\ store' = [store EXCEPT ![n][k] = None]
  /\ pending' = [pending EXCEPT ![n][k] = Tombstone]
  /\ accepted' = accepted \cup {<<n, k, Tombstone>>}
  /\ writes' = writes + 1
  /\ UNCHANGED <<up, peers, view, state, router, puller, pushes, crashes, losses,
                 silences>>

-----------------------------------------------------------------------------
(* run_consensus_tick *)

\* Not leader, or not due: nothing pending, or too little for too short a time.
TickQuiet(n) ==
  /\ Elect(n)
  /\ view'[n].leader = n => Cardinality(Dirty(pending[n])) < MaxDirtyCount
  /\ UNCHANGED <<syncVars, budget>>

\* Leader and due (enough is pending, or the last change is idle_seconds old):
\* drain, apply_local, push to every member.
TickFlush(n) ==
  /\ Elect(n)
  /\ view'[n].leader = n
  /\ Dirty(pending[n]) # {}
  /\ pending' = [pending EXCEPT ![n] = Empty]
  /\ state' = [state EXCEPT ![n] = ApplyLocal(@, pending[n])]
  /\ pushes' = pushes \cup
       [to : peers[n], leader : {n}, term : {view'[n].term},
        seq : {state[n].version}, diff : {pending[n]}]
  /\ UNCHANGED <<store, router, puller, accepted, budget>>

-----------------------------------------------------------------------------
(* StateSyncPushHandler.handle, on the router thread *)

\* Each push has a connection of its own, so that only InOrder keeps an older
\* push of the same leader from being read later.
Readable(p) ==
  /\ p \in pushes
  /\ InOrder => \A q \in pushes :
                  q.to = p.to /\ q.leader = p.leader => p.seq <= q.seq

StaleTerm(n, p) == p.term < state[n].term

\* StaleTermError
RejectPush(n, p) ==
  /\ up[n] /\ router[n] = Idle
  /\ Readable(p) /\ p.to = n
  /\ StaleTerm(n, p)
  /\ pushes' = pushes \ {p}
  /\ UNCHANGED <<up, peers, view, store, pending, state, router, puller,
                 accepted, budget>>

\* local = state_machine.snapshot()
ReadPush(n, p) ==
  /\ up[n] /\ router[n] = Idle
  /\ Readable(p) /\ p.to = n
  /\ ~StaleTerm(n, p)
  /\ pushes' = pushes \ {p}
  /\ router' = [router EXCEPT ![n] = [pc |-> "merge", local |-> state[n], push |-> p]]
  /\ UNCHANGED <<up, peers, view, store, pending, state, puller, accepted, budget>>

\* The state the handler builds from the snapshot and the push.
Merged(local, p) ==
  [term |-> p.term, version |-> local.version + 1,
   entries |-> Overlay(local.entries, p.diff)]

\* apply_remote(incoming), whose answer the handler ignores
MergePush(n) ==
  /\ up[n] /\ router[n].pc = "merge"
  /\ state' = [state EXCEPT ![n] = ApplyRemote(@, Merged(router[n].local, router[n].push))]
  /\ router' = [router EXCEPT ![n].pc = "store"]
  /\ UNCHANGED <<up, peers, view, store, pending, puller, pushes, accepted, budget>>

\* Mutant of Absorb: the bridges write through register(), whose events mark the
\* records dirty here too.
AbsorbAndMark(n, diff) ==
  /\ store' = [store EXCEPT ![n] = ApplyIncoming(@, diff)]
  /\ pending' = [pending EXCEPT ![n] = Overlay(@, diff)]

\* apply_incoming of the three bridges
Absorb(n, diff) ==
  /\ store' = [store EXCEPT ![n] = ApplyIncoming(@, diff)]
  /\ pending' = [pending EXCEPT ![n] = Overlay(@, EchoedTombstones(store[n], diff))]

StorePush(n) ==
  /\ up[n] /\ router[n].pc = "store"
  /\ Absorb(n, router[n].push.diff)
  /\ router' = [router EXCEPT ![n] = Idle]
  /\ UNCHANGED <<up, peers, view, state, puller, pushes, accepted, budget>>

-----------------------------------------------------------------------------
(* App._on_new_peer and _pull_state_sync, on the subscriber thread *)

\* A heartbeat of an unknown peer: remember it and ask it for its state.
DiscoverAndAsk(n, m) ==
  /\ puller[n] = Idle
  /\ m \notin peers[n] /\ up[m]
  /\ Discover(n, m)
  /\ puller' = [puller EXCEPT ![n] = [pc |-> "asked", peer |-> m]]
  /\ UNCHANGED <<store, pending, state, router, pushes, accepted, budget>>

\* StateSyncPullHandler.handle on the peer's router thread
ServePull(n) ==
  /\ up[n] /\ puller[n].pc = "asked"
  /\ LET m == puller[n].peer
     IN  /\ up[m] /\ router[m] = Idle
         /\ puller' = [puller EXCEPT ![n] = [pc |-> "apply", incoming |-> state[m]]]
  /\ UNCHANGED <<up, peers, view, store, pending, state, router, pushes,
                 accepted, budget>>

\* _forward_command timed out: the peer is down, or too busy (a loss).
PullTimeout(n) ==
  /\ up[n] /\ puller[n].pc = "asked"
  /\ IF up[puller[n].peer]
       THEN losses < MaxLosses /\ losses' = losses + 1
       ELSE losses' = losses
  /\ puller' = [puller EXCEPT ![n] = Idle]
  /\ UNCHANGED <<up, peers, view, store, pending, state, router, pushes,
                 accepted, writes, crashes, silences>>

\* apply_remote(incoming); the registries follow only if it was taken.
ApplyPull(n) ==
  /\ up[n] /\ puller[n].pc = "apply"
  /\ state' = [state EXCEPT ![n] = ApplyRemote(@, puller[n].incoming)]
  /\ puller' = [puller EXCEPT ![n] =
                  IF Supersedes(puller[n].incoming, state[n])
                    THEN [@ EXCEPT !.pc = "store"] ELSE Idle]
  /\ UNCHANGED <<up, peers, view, store, pending, router, pushes, accepted, budget>>

StorePull(n) ==
  /\ up[n] /\ puller[n].pc = "store"
  /\ Absorb(n, puller[n].incoming.entries)
  /\ puller' = [puller EXCEPT ![n] = Idle]
  /\ UNCHANGED <<up, peers, view, state, router, pushes, accepted, budget>>

-----------------------------------------------------------------------------
(* Failures *)

\* A push that never arrives, or that a node that is down will not read.
LosePush(p) ==
  /\ p \in pushes
  /\ IF up[p.to] THEN losses < MaxLosses /\ losses' = losses + 1
                 ELSE losses' = losses
  /\ pushes' = pushes \ {p}
  /\ UNCHANGED <<up, peers, view, store, pending, state, router, puller,
                 accepted, writes, crashes, silences>>

\* A process that ends takes along the pushes its sockets still hold.
ReplCrash(n) ==
  /\ crashes < MaxCrashes
  /\ Crash(n)
  /\ crashes' = crashes + 1
  /\ \E lost \in SUBSET {p \in pushes : p.leader = n} : pushes' = pushes \ lost
  /\ UNCHANGED <<store, pending, state, router, puller, accepted, writes, losses,
                 silences>>

ReplRestart(n) ==
  /\ Relaunch
  /\ Restart(n)
  /\ store' = [store EXCEPT ![n] = Empty]
  /\ pending' = [pending EXCEPT ![n] = Empty]
  /\ state' = [state EXCEPT ![n] = InitialState]
  /\ router' = [router EXCEPT ![n] = Idle]
  /\ puller' = [puller EXCEPT ![n] = Idle]
  /\ UNCHANGED <<pushes, accepted, budget>>

\* run_heartbeat_gc: the peer is down, or not heard for the TTL (a silence).
Evict(n, m) ==
  /\ m \in peers[n]
  /\ IF up[m] THEN silences < MaxSilences /\ silences' = silences + 1
              ELSE silences' = silences
  /\ Forget(n, {m})
  /\ UNCHANGED <<syncVars, writes, crashes, losses>>

-----------------------------------------------------------------------------

Write(n) ==
  \/ \E f \in Functions, c \in Contents : RegisterFunction(n, f, c)
  \/ \E f \in Functions, v \in Versions, c \in Contents : UpdateFunction(n, f, v, c)
  \/ \E d \in Datasets, v \in Versions, c \in Contents : RegisterData(n, d, v, c)
  \/ \E b \in Buckets, c \in Contents : RegisterBucket(n, b, c)
  \/ \E k \in Keys : Delete(n, k)

ReplNext ==
  \/ \E n \in Nodes :
       \/ Write(n)
       \/ TickQuiet(n) \/ TickFlush(n)
       \/ MergePush(n) \/ StorePush(n)
       \/ ServePull(n) \/ PullTimeout(n) \/ ApplyPull(n) \/ StorePull(n)
       \/ ReplCrash(n) \/ ReplRestart(n)
       \/ \E m \in Nodes : DiscoverAndAsk(n, m) \/ Evict(n, m)
       \/ \E p \in pushes : RejectPush(n, p) \/ ReadPush(n, p)
  \/ \E p \in pushes : LosePush(p)

ReplSpec == ReplInit /\ [][ReplNext]_replVars

\* The threads of a running endpoint keep running: ticks (which flush, for
\* time passes), the router, the subscriber, the eviction loop.  Neither
\* writes nor failures nor restarts are owed.
ReplFairness ==
  \A n \in Nodes :
    /\ WF_replVars(TickQuiet(n)) /\ WF_replVars(TickFlush(n))
    /\ WF_replVars(\E p \in pushes : RejectPush(n, p) \/ ReadPush(n, p))
    /\ WF_replVars(MergePush(n)) /\ WF_replVars(StorePush(n))
    /\ WF_replVars(ServePull(n) \/ PullTimeout(n))
    /\ WF_replVars(ApplyPull(n)) /\ WF_replVars(StorePull(n))
    /\ WF_replVars(\E m \in Nodes : DiscoverAndAsk(n, m))
    /\ WF_replVars(\E m \in Nodes : ~up[m] /\ Evict(n, m))

-----------------------------------------------------------------------------
(* Properties *)

Running == {n \in Nodes : up[n]}

\* Every entry of d was accepted, under that very key, by the handler of a node
\* that then led.
Genuine(d) == \A k \in Dirty(d) : \E n \in Nodes : <<n, k, d[k]>> \in accepted

\* Replication spreads and never makes up: so it is for every record and every
\* tombstone in a registry, a dirty tracker or a replicated state.
NoInvention ==
  \A n \in Nodes :
    Genuine(store[n]) /\ Genuine(pending[n]) /\ Genuine(state[n].entries)

\* A record leaves the registry of a running node only if a leader accepted its
\* deletion: no interleaving of pushes, pulls and failovers drops a record.
RecordStep(n, k) ==
  up[n] /\ up'[n] /\ store[n][k] # None /\ store'[n][k] = None
    => \E m \in Nodes : <<m, k, Tombstone>> \in accepted'
OnlyDeletedDisappear == [][\A n \in Nodes : \A k \in Keys : RecordStep(n, k)]_replVars

\* "incoming.version > local.version" (apply_remote): however pushes, pulls and
\* ticks interleave, the version of a process's state never falls back.
VersionStep(n) == up[n] /\ up'[n] => state'[n].version >= state[n].version
VersionNeverFallsBack == [][\A n \in Nodes : VersionStep(n)]_replVars

\* "a follower receiving this IS the expected receiver" (StateSyncPushHandler):
\* no node rejects a push of the node it follows.
LeaderPushAccepted ==
  [][\A n \in Nodes : \A p \in pushes :
        RejectPush(n, p) => p.leader # view[n].leader]_replVars

\* "Merges the incoming function changes into our local state": once the handler
\* of an accepted push has merged it, the state knows every key pushed.
PushIsMerged ==
  [][\A n \in Nodes :
        MergePush(n) => Dirty(router[n].push.diff) \subseteq Dirty(state'[n].entries)]_replVars

\* "a follower's DirtyTracker is never drained/flushed" (DataRegistrySyncBridge):
\* all that a tick ever flushes was accepted by this node's own handlers, and is
\* no echo of what it absorbed while it followed.  It is so for functions and
\* buckets; a dataset's absorbed deletion is flushed again (EchoedTombstones).
FlushesOwnWrites ==
  [][\A n \in Nodes :
        TickFlush(n) => \A k \in Dirty(pending[n]) : <<n, k, pending[n][k]>> \in accepted
    ]_replVars

\* "a dropped push self-heals via the next flush cycle" (App._push_state_sync):
\* once a node has stored the latest push of a leader, its registries hold what
\* that leader has replicated, earlier pushes included.
PushCatchesUp ==
  [][\A n \in Nodes : StorePush(n) =>
       LET leader == router[n].push.leader
       IN  router[n].push.seq + 1 = state[leader].version =>
             store'[n] = ApplyIncoming(Empty, state[leader].entries)]_replVars

\* Once writes and failures end, all running nodes hold the same catalogs.
Replicates ==
  <>[](\A n, m \in Running : store[n] = store[m])

=============================================================================
