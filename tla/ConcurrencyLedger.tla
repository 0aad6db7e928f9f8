-------------------------- MODULE ConcurrencyLedger --------------------------
(***************************************************************************)
(* The pool slots of one (function, version) under one steady leader: the   *)
(* leader's ConcurrencyLedger, and the claims the endpoints derive from its *)
(* grants.  An endpoint whose containers are all busy asks for a slot, and  *)
(* a claim is what becomes of a grant: the reply under way, the container   *)
(* it is turned into, and the releases still to be sent once the container  *)
(* was dismissed.                                                           *)
(*                                                                          *)
(* The leader's answer "place" (queue behind, or forward to, an owner that  *)
(* looks idle, or any owner once the slots are used up) changes no slot and *)
(* is a stutter here; which owners look idle is gossip, so that a request   *)
(* may or may not be granted while a slot is unused.                        *)
(***************************************************************************)
EXTENDS Integers, FiniteSets

CONSTANTS
  Endpoints,   \* endpoint ids, the leader's among them
  Leader,      \* the endpoint that leads throughout
  Cap,         \* max(1, RuntimeSpec.max_concurrency)
  None,        \* no owner
  Relaunch,    \* an endpoint that crashed may be started again
  MaxGrants,   \* bound on grants
  MaxLosses,   \* bound on commands and replies lost between running endpoints
  MaxCrashes,  \* bound on endpoint crashes
  MaxSilences, \* bound on evictions of an endpoint that is running
  MaxRepeats,  \* bound on releases beyond one per container
  MaxFailedStops  \* bound on containers that could not be stopped

ASSUME LedgerAssumption ==
  /\ Leader \in Endpoints /\ None \notin Endpoints
  /\ Cap \in Nat \ {0}
  /\ Relaunch \in BOOLEAN
  /\ MaxGrants \in Nat /\ MaxLosses \in Nat /\ MaxCrashes \in Nat
  /\ MaxSilences \in Nat /\ MaxRepeats \in Nat /\ MaxFailedStops \in Nat

VARIABLES
  grants,   \* ConcurrencyLedger._grants: the owner of every slot
  claims,   \* what endpoints hold, see Claim
  up,       \* up[e]: the process of e is running
  known,    \* the cluster members of the leader's last tick
  issued,   \* grants given so far (also numbers the claims)
  losses, crashes, silences, repeats, failedStops   \* how much of the bounds is used

budget == <<losses, crashes, silences, repeats, failedStops>>
ledgerVars == <<grants, claims, up, known, issued, losses, crashes, silences, repeats,
                failedStops>>

\* _smallest_unused_index stays below the cap while a slot is unused.
Slots == 0 .. Cap - 1

\* "granted": SlotDecision.granted on its way; "live": a ContainerHandle nobody has
\* dismissed; "stopping": dismissed, `owed` releases to go; "stuck": dismissed, but
\* the container could not be stopped.
Claim == [id : Nat, ep : Endpoints, slot : Slots,
          phase : {"granted", "live", "stopping", "stuck"}, owed : Nat]

\* Grants and claims are of known endpoints and of slots below max_concurrency.
LedgerTypeOK ==
  /\ grants \in [Slots -> Endpoints \cup {None}]
  /\ claims \subseteq Claim
  /\ up \in [Endpoints -> BOOLEAN]
  /\ known \subseteq Endpoints
  /\ issued \in Nat
  /\ losses \in Nat /\ crashes \in Nat /\ silences \in Nat /\ repeats \in Nat
  /\ failedStops \in Nat

LedgerInit ==
  /\ grants = [s \in Slots |-> None]
  /\ claims = {}
  /\ up = [e \in Endpoints |-> TRUE]
  /\ known = Endpoints
  /\ issued = 0
  /\ losses = 0 /\ crashes = 0 /\ silences = 0 /\ repeats = 0 /\ failedStops = 0

Become(c, d) == claims' = (claims \ {c}) \cup {d}
Stopping(c, n) == [id |-> c.id, ep |-> c.ep, slot |-> c.slot, phase |-> "stopping", owed |-> n]

-----------------------------------------------------------------------------
(* Growth *)

\* Mutant of SmallestUnused: the index is len(grants), although slots below it may
\* have been freed.
NextByCount(s) ==
  /\ \E t \in Slots : grants[t] = None
  /\ s = Cardinality({t \in Slots : grants[t] # None})

\* _smallest_unused_index(grants)
SmallestUnused(s) ==
  /\ grants[s] = None
  /\ \A t \in Slots : t < s => grants[t] # None

\* ConcurrencySlotRequestHandler and request_slot, on the leader: there is room,
\* and the requester e owns a slot more.
RequestSlot(e, s) ==
  /\ up[e] /\ issued < MaxGrants
  /\ SmallestUnused(s)
  /\ grants' = [grants EXCEPT ![s] = e]
  /\ claims' = claims \cup {[id |-> issued, ep |-> e, slot |-> s,
                             phase |-> "granted", owed |-> 0]}
  /\ issued' = issued + 1
  /\ UNCHANGED <<up, known, budget>>

\* The requester gave up waiting; the ledger keeps its grant.  The leader's own
\* requests are calls and lose nothing.
LoseGrant(c) ==
  /\ c \in claims /\ c.phase = "granted" /\ c.ep # Leader
  /\ losses < MaxLosses /\ losses' = losses + 1
  /\ claims' = claims \ {c}
  /\ UNCHANGED <<grants, up, known, issued, crashes, silences, repeats, failedStops>>

\* summon_at: reserve a handle at the granted index
SummonAt(c) ==
  /\ c \in claims /\ c.phase = "granted"
  /\ Become(c, [c EXCEPT !.phase = "live"])
  /\ UNCHANGED <<grants, up, known, issued, budget>>

-----------------------------------------------------------------------------
(* Teardown *)

\* ContainerSummoner.dismiss (idle TTL, max invocations, crashed or stale
\* handle): the container is stopped and its CONTAINER_DISMISSED_EVENT releases
\* the slot.
Dismiss(c) ==
  /\ c \in claims /\ c.phase = "live"
  /\ Become(c, Stopping(c, 1))
  /\ UNCHANGED <<grants, up, known, issued, budget>>

\* dismiss() returns where the stop fails: no event, no release; the handle stays
\* in the pool, DISMISSED.
StopFails(c) ==
  /\ c \in claims /\ c.phase = "live"
  /\ failedStops < MaxFailedStops /\ failedStops' = failedStops + 1
  /\ Become(c, [c EXCEPT !.phase = "stuck"])
  /\ UNCHANGED <<grants, up, known, issued, losses, crashes, silences, repeats>>

\* The next summon_at of the function on this endpoint (_dismiss_stale), or a
\* sweep_max_invocations, tries again.
Redismiss(c) ==
  /\ c \in claims /\ c.phase = "stuck"
  /\ Become(c, Stopping(c, 1))
  /\ UNCHANGED <<grants, up, known, issued, budget>>

\* _handle_crash, _handle_timeout and cancel release once more themselves after
\* dismiss() has.
Abort(c) ==
  /\ c \in claims /\ c.phase = "live"
  /\ repeats < MaxRepeats /\ repeats' = repeats + 1
  /\ Become(c, Stopping(c, 2))
  /\ UNCHANGED <<grants, up, known, issued, losses, crashes, silences, failedStops>>

\* While one thread waits for the container to stop, _dismiss_stale or a sweep
\* on another finds the handle still in the pool and dismisses it again.
DismissAgain(c) ==
  /\ c \in claims /\ c.phase = "stopping"
  /\ repeats < MaxRepeats /\ repeats' = repeats + 1
  /\ Become(c, [c EXCEPT !.owed = @ + 1])
  /\ UNCHANGED <<grants, up, known, issued, losses, crashes, silences, failedStops>>

\* Mutants of ReleaseSlot: the owner is not compared; all slots of the endpoint are
\* freed.
ReleaseUnchecked(s, e) == grants' = [grants EXCEPT ![s] = None]
ReleaseAllOf(s, e) == grants' = [t \in Slots |-> IF grants[t] = e THEN None ELSE grants[t]]

\* release_slot: freed only if it still maps to the releasing endpoint
ReleaseSlot(s, e) ==
  grants' = IF grants[s] = e THEN [grants EXCEPT ![s] = None] ELSE grants

\* One release was sent, or given up: the claim ends with its last one.
Sent(c) ==
  claims' = (claims \ {c}) \cup
            (IF c.owed = 1 THEN {} ELSE {[c EXCEPT !.owed = @ - 1]})

\* ConcurrencyClient.release through ConcurrencySlotReleaseHandler
Release(c) ==
  /\ c \in claims /\ c.phase = "stopping"
  /\ ReleaseSlot(c.slot, c.ep)
  /\ Sent(c)
  /\ UNCHANGED <<up, known, issued, budget>>

\* Fire-and-forget: a release that does not arrive is not sent again.
LoseRelease(c) ==
  /\ c \in claims /\ c.phase = "stopping" /\ c.ep # Leader
  /\ losses < MaxLosses /\ losses' = losses + 1
  /\ Sent(c)
  /\ UNCHANGED <<grants, up, known, issued, crashes, silences, repeats, failedStops>>

-----------------------------------------------------------------------------
(* Failures and the leader's tick *)

\* An endpoint's handles end with its process.
EndpointCrash(e) ==
  /\ e # Leader /\ up[e]
  /\ crashes < MaxCrashes /\ crashes' = crashes + 1
  /\ up' = [up EXCEPT ![e] = FALSE]
  /\ claims' = {c \in claims : c.ep # e}
  /\ UNCHANGED <<grants, known, issued, losses, silences, repeats, failedStops>>

EndpointRestart(e) ==
  /\ Relaunch /\ ~up[e]
  /\ up' = [up EXCEPT ![e] = TRUE]
  /\ UNCHANGED <<grants, claims, known, issued, budget>>

\* The heartbeat TTL of e passes: e is down, or silent.
Evict(e) ==
  /\ e \in known /\ e # Leader
  /\ IF up[e] THEN silences < MaxSilences /\ silences' = silences + 1
              ELSE silences' = silences
  /\ known' = known \ {e}
  /\ UNCHANGED <<grants, claims, up, issued, losses, crashes, repeats, failedStops>>

Rediscover(e) ==
  /\ up[e] /\ e \notin known
  /\ known' = known \cup {e}
  /\ UNCHANGED <<grants, claims, up, issued, budget>>

\* Mutant of ReapUnknownOwners: only the first slot is looked at.
ReapFirstSlot ==
  /\ grants[0] \notin known \cup {None}
  /\ grants' = [grants EXCEPT ![0] = None]
  /\ UNCHANGED <<claims, up, known, issued, budget>>

\* reap_unknown_owners, with each tick of the leader
ReapUnknownOwners ==
  /\ \E s \in Slots : grants[s] \notin known \cup {None}
  /\ grants' = [s \in Slots |-> IF grants[s] \in known THEN grants[s] ELSE None]
  /\ UNCHANGED <<claims, up, known, issued, budget>>

-----------------------------------------------------------------------------

LedgerNext ==
  \/ \E e \in Endpoints :
       \/ \E s \in Slots : RequestSlot(e, s)
       \/ EndpointCrash(e) \/ EndpointRestart(e)
       \/ Evict(e) \/ Rediscover(e)
  \/ \E c \in claims :
       \/ SummonAt(c) \/ LoseGrant(c)
       \/ Dismiss(c) \/ Abort(c) \/ DismissAgain(c)
       \/ StopFails(c) \/ Redismiss(c)
       \/ Release(c) \/ LoseRelease(c)
  \/ ReapUnknownOwners

LedgerSpec == LedgerInit /\ [][LedgerNext]_ledgerVars

\* Replies that are not lost arrive, a dismissed container's releases are sent,
\* the leader's eviction loop and ticks run, heartbeats of a running endpoint
\* arrive.  Requests and dismissals are not owed, nor is a
\* second attempt to stop a container: it takes another summon_at, or a limit on
\* invocations, which is off by default.
LedgerFairness ==
  /\ \A i \in 0 .. MaxGrants - 1 :
       /\ WF_ledgerVars(\E c \in claims : c.id = i /\ SummonAt(c))
       /\ WF_ledgerVars(\E c \in claims : c.id = i /\ Release(c))
  /\ \A e \in Endpoints :
       /\ WF_ledgerVars(~up[e] /\ Evict(e))
       /\ WF_ledgerVars(Rediscover(e))
  /\ WF_ledgerVars(ReapUnknownOwners)

LedgerFairSpec == LedgerSpec /\ LedgerFairness

-----------------------------------------------------------------------------

\* "a strict, cluster-wide cap" (ConcurrencyLedger): no two containers, nor a
\* container and a grant under way, share a slot index; the indices being below
\* max_concurrency, never more than that many containers live.
Holding == {c \in claims : c.phase \in {"granted", "live", "stuck"}}
SlotExclusive == \A c, d \in Holding : c.slot = d.slot => c = d

\* The ledger knows who holds a slot.
HeldIsGranted == \A c \in Holding : grants[c.slot] = c.ep

\* release_slot is "defensive against a stale or duplicate release": whatever is
\* repeated, lost or late, a slot is taken from an endpoint the leader knows only
\* by a release of its own, and given to nobody before it was free.
SlotStep(s) ==
  grants[s] # None /\ grants'[s] # grants[s] =>
    /\ grants'[s] = None
    /\ \/ grants[s] \notin known
       \/ \E c \in claims : c.ep = grants[s] /\ c.slot = s /\ c.phase = "stopping"
TakenOnlyByOwner == [][\A s \in Slots : SlotStep(s)]_ledgerVars

\* No slot is lost: however endpoints crash, again and again every owner in the
\* ledger has a container to show for its slot, or a release on its way, so that
\* "place" does not lead to a dead end for ever.
Backed(s) ==
  grants[s] # None =>
    \E c \in claims : c.slot = s /\ c.ep = grants[s] /\ c.phase # "stuck"
LeaksHeal == \A s \in Slots : []<>Backed(s)

=============================================================================
