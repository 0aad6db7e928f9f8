----------------------- MODULE ConcurrencyLedgerProofs -----------------------
(***************************************************************************)
(* Theorems about ConcurrencyLedger, for any number of endpoints, any cap   *)
(* and any bounds.  The cap is strict if a container's slot is released     *)
(* once and the leader takes no running endpoint for dead (Orderly); that a *)
(* slot is taken only from an unknown endpoint or by its owner's release    *)
(* needs neither.                                                           *)
(***************************************************************************)
EXTENDS ConcurrencyLedger, TLAPS

\* One release per container, no silent endpoint, none started again.
Orderly == MaxRepeats = 0 /\ MaxSilences = 0 /\ ~Relaunch

\* What makes SlotExclusive inductive: also a container being stopped still has
\* its slot, and it owes exactly one release; whoever runs is known.
LedgerInv ==
  /\ \A c, d \in claims : c.slot = d.slot => c = d
  /\ \A c \in claims : grants[c.slot] = c.ep
  /\ \A c \in claims : up[c.ep]
  /\ \A c \in claims : c.phase = "stopping" => c.owed = 1
  /\ \A e \in Endpoints : up[e] => e \in known

-----------------------------------------------------------------------------
(* Types *)

LEMMA TypeInit == LedgerInit => LedgerTypeOK
  BY LedgerAssumption DEF LedgerInit, LedgerTypeOK

\* A release leaves claims of the right shape: only a claim with more than one
\* release to go stays.
LEMMA SentTypes ==
  ASSUME LedgerTypeOK, NEW c \in claims, Sent(c), c.owed # 0
  PROVE  claims' \subseteq Claim
<1>1. c \in Claim
  BY DEF LedgerTypeOK
<1>2. CASE c.owed = 1
  BY <1>2 DEF Sent, LedgerTypeOK
<1>3. CASE c.owed # 1
  <2>1. [c EXCEPT !.owed = @ - 1] \in Claim
    BY <1>1, <1>3 DEF Claim
  <2> QED  BY <1>3, <2>1 DEF Sent, LedgerTypeOK
<1> QED  BY <1>2, <1>3

\* Every claim that is being stopped has releases to go.
Owing == \A c \in claims : c.phase = "stopping" => c.owed # 0

LEMMA BecomeTypes ==
  ASSUME LedgerTypeOK, Owing, NEW c, NEW d \in Claim, Become(c, d),
         d.phase = "stopping" => d.owed # 0
  PROVE  claims' \subseteq Claim /\ Owing'
  BY DEF Become, LedgerTypeOK, Owing

LEMMA TypeStep == LedgerTypeOK /\ Owing /\ [LedgerNext]_ledgerVars => LedgerTypeOK' /\ Owing'
<1> SUFFICES ASSUME LedgerTypeOK, Owing, [LedgerNext]_ledgerVars
             PROVE  LedgerTypeOK' /\ Owing'
  OBVIOUS
<1> USE LedgerAssumption
<1>1. CASE UNCHANGED ledgerVars
  BY <1>1 DEF ledgerVars, LedgerTypeOK, Owing
<1>2. ASSUME NEW e \in Endpoints, NEW s \in Slots, RequestSlot(e, s)
      PROVE  LedgerTypeOK' /\ Owing'
  <2> DEFINE new == [id |-> issued, ep |-> e, slot |-> s, phase |-> "granted", owed |-> 0]
  <2>1. new \in Claim
    BY DEF LedgerTypeOK, Claim
  <2>2. claims' = claims \cup {new}
    BY <1>2 DEF RequestSlot
  <2> QED  BY <1>2, <2>1, <2>2 DEF RequestSlot, LedgerTypeOK, Owing, budget
<1>3. ASSUME NEW e \in Endpoints, EndpointCrash(e)
      PROVE  LedgerTypeOK' /\ Owing'
  BY <1>3 DEF EndpointCrash, LedgerTypeOK, Owing
<1>4. ASSUME NEW e \in Endpoints, EndpointRestart(e)
      PROVE  LedgerTypeOK' /\ Owing'
  BY <1>4 DEF EndpointRestart, LedgerTypeOK, Owing, budget
<1>5. ASSUME NEW e \in Endpoints, Evict(e)
      PROVE  LedgerTypeOK' /\ Owing'
  BY <1>5 DEF Evict, LedgerTypeOK, Owing
<1>6. ASSUME NEW e \in Endpoints, Rediscover(e)
      PROVE  LedgerTypeOK' /\ Owing'
  BY <1>6 DEF Rediscover, LedgerTypeOK, Owing, budget
<1>7. ASSUME NEW c \in claims, SummonAt(c)
      PROVE  LedgerTypeOK' /\ Owing'
  <2> DEFINE d == [c EXCEPT !.phase = "live"]
  <2>1. d \in Claim /\ d.phase = "live"
    BY DEF LedgerTypeOK, Claim
  <2>2. claims' \subseteq Claim /\ Owing'
    BY <1>7, <2>1, BecomeTypes DEF SummonAt
  <2> QED  BY <1>7, <2>2 DEF SummonAt, LedgerTypeOK, budget
<1>8. ASSUME NEW c \in claims, LoseGrant(c)
      PROVE  LedgerTypeOK' /\ Owing'
  BY <1>8 DEF LoseGrant, LedgerTypeOK, Owing
<1>9. ASSUME NEW c \in claims, Dismiss(c)
      PROVE  LedgerTypeOK' /\ Owing'
  <2> DEFINE d == Stopping(c, 1)
  <2>1. d \in Claim /\ d.owed = 1
    BY DEF LedgerTypeOK, Claim, Stopping
  <2>2. claims' \subseteq Claim /\ Owing'
    BY <1>9, <2>1, BecomeTypes DEF Dismiss
  <2> QED  BY <1>9, <2>2 DEF Dismiss, LedgerTypeOK, budget
<1>10. ASSUME NEW c \in claims, Abort(c)
       PROVE  LedgerTypeOK' /\ Owing'
  <2> DEFINE d == Stopping(c, 2)
  <2>1. d \in Claim /\ d.owed = 2
    BY DEF LedgerTypeOK, Claim, Stopping
  <2>2. claims' \subseteq Claim /\ Owing'
    BY <1>10, <2>1, BecomeTypes DEF Abort
  <2> QED  BY <1>10, <2>2 DEF Abort, LedgerTypeOK
<1>11. ASSUME NEW c \in claims, DismissAgain(c)
       PROVE  LedgerTypeOK' /\ Owing'
  <2> DEFINE d == [c EXCEPT !.owed = @ + 1]
  <2>1. d \in Claim /\ d.owed # 0
    BY DEF LedgerTypeOK, Claim
  <2>2. claims' \subseteq Claim /\ Owing'
    BY <1>11, <2>1, BecomeTypes DEF DismissAgain
  <2> QED  BY <1>11, <2>2 DEF DismissAgain, LedgerTypeOK
<1>12. ASSUME NEW c \in claims, StopFails(c)
       PROVE  LedgerTypeOK' /\ Owing'
  <2> DEFINE d == [c EXCEPT !.phase = "stuck"]
  <2>1. d \in Claim /\ d.phase = "stuck"
    BY DEF LedgerTypeOK, Claim
  <2>2. claims' \subseteq Claim /\ Owing'
    BY <1>12, <2>1, BecomeTypes DEF StopFails
  <2> QED  BY <1>12, <2>2 DEF StopFails, LedgerTypeOK
<1>13. ASSUME NEW c \in claims, Redismiss(c)
       PROVE  LedgerTypeOK' /\ Owing'
  <2> DEFINE d == Stopping(c, 1)
  <2>1. d \in Claim /\ d.owed = 1
    BY DEF LedgerTypeOK, Claim, Stopping
  <2>2. claims' \subseteq Claim /\ Owing'
    BY <1>13, <2>1, BecomeTypes DEF Redismiss
  <2> QED  BY <1>13, <2>2 DEF Redismiss, LedgerTypeOK, budget
<1>14. ASSUME NEW c \in claims, Release(c)
       PROVE  LedgerTypeOK' /\ Owing'
  <2>1. c \in Claim /\ c.owed # 0
    BY <1>14 DEF Release, LedgerTypeOK, Owing
  <2>2. claims' \subseteq Claim
    BY <1>14, <2>1, SentTypes DEF Release
  <2>3. Owing'
    BY <1>14, <2>1 DEF Release, Sent, Owing, Claim
  <2>4. grants' \in [Slots -> Endpoints \cup {None}]
    BY <1>14, <2>1 DEF Release, ReleaseSlot, LedgerTypeOK, Claim
  <2> QED  BY <1>14, <2>2, <2>3, <2>4 DEF Release, LedgerTypeOK, budget
<1>15. ASSUME NEW c \in claims, LoseRelease(c)
       PROVE  LedgerTypeOK' /\ Owing'
  <2>1. c \in Claim /\ c.owed # 0
    BY <1>15 DEF LoseRelease, LedgerTypeOK, Owing
  <2>2. claims' \subseteq Claim
    BY <1>15, <2>1, SentTypes DEF LoseRelease
  <2>3. Owing'
    BY <1>15, <2>1 DEF LoseRelease, Sent, Owing, Claim
  <2> QED  BY <1>15, <2>2, <2>3 DEF LoseRelease, LedgerTypeOK
<1>16. CASE ReapUnknownOwners
  BY <1>16 DEF ReapUnknownOwners, LedgerTypeOK, Owing, budget
<1> QED  BY <1>1, <1>2, <1>3, <1>4, <1>5, <1>6, <1>7, <1>8, <1>9, <1>10, <1>11,
            <1>14, <1>15, <1>16, <1>12, <1>13 DEF LedgerNext

\* Every variable keeps its type, and a container that is being stopped has
\* releases to send until its claim ends.
THEOREM LedgerTypeCorrect == LedgerSpec => []LedgerTypeOK
<1>1. LedgerInit => LedgerTypeOK /\ Owing
  BY TypeInit DEF LedgerInit, Owing
<1>2. (LedgerTypeOK /\ Owing) /\ [LedgerNext]_ledgerVars => (LedgerTypeOK /\ Owing)'
  BY TypeStep
<1> QED  BY <1>1, <1>2, PTL DEF LedgerSpec

-----------------------------------------------------------------------------
(* The strict cap *)

\* The claim c gives way to d, a claim of the same endpoint on the same slot.
LEMMA BecomeKeepsInv ==
  ASSUME LedgerTypeOK, LedgerInv, NEW c \in claims, NEW d \in Claim,
         d.slot = c.slot, d.ep = c.ep, d.phase = "stopping" => d.owed = 1,
         Become(c, d), UNCHANGED <<grants, up, known>>
  PROVE  LedgerInv'
<1>1. \A x, y \in claims' : x.slot = y.slot => x = y
  BY DEF LedgerInv, Become
<1>2. \A x \in claims' : /\ grants'[x.slot] = x.ep /\ up'[x.ep]
                         /\ x.phase = "stopping" => x.owed = 1
  BY DEF LedgerInv, Become
<1> QED  BY <1>1, <1>2 DEF LedgerInv

LEMMA InvStep ==
  ASSUME Orderly, LedgerTypeOK, LedgerInv, [LedgerNext]_ledgerVars
  PROVE  LedgerInv'
<1> USE LedgerAssumption
<1>1. CASE UNCHANGED ledgerVars
  BY <1>1 DEF ledgerVars, LedgerInv
<1>2. ASSUME NEW e \in Endpoints, NEW s \in Slots, RequestSlot(e, s)
      PROVE  LedgerInv'
  <2> DEFINE new == [id |-> issued, ep |-> e, slot |-> s, phase |-> "granted", owed |-> 0]
  <2>1. claims' = claims \cup {new} /\ new.slot = s /\ new.ep = e /\ new.phase = "granted"
    BY <1>2 DEF RequestSlot
  <2>2. \A c \in claims : c.slot # s /\ c \in Claim
    BY <1>2 DEF RequestSlot, SmallestUnused, LedgerInv, LedgerTypeOK, Claim
  <2>3. \A x, y \in claims' : x.slot = y.slot => x = y
    BY <2>1, <2>2 DEF LedgerInv
  <2>4. \A c \in claims' : grants'[c.slot] = c.ep
    BY <1>2, <2>1, <2>2 DEF LedgerInv, RequestSlot, LedgerTypeOK, Claim
  <2>5. \A c \in claims' : up'[c.ep] /\ (c.phase = "stopping" => c.owed = 1)
    BY <1>2, <2>1 DEF LedgerInv, RequestSlot
  <2> QED  BY <1>2, <2>3, <2>4, <2>5 DEF LedgerInv, RequestSlot
<1>3. ASSUME NEW e \in Endpoints, EndpointCrash(e)
      PROVE  LedgerInv'
  <2>1. \A c \in claims' : c \in claims /\ c.ep # e /\ c.ep \in Endpoints
    BY <1>3 DEF EndpointCrash, LedgerTypeOK, Claim
  <2> QED  BY <1>3, <2>1 DEF EndpointCrash, LedgerInv, LedgerTypeOK
<1>4. ASSUME NEW e \in Endpoints, EndpointRestart(e)
      PROVE  LedgerInv'
  BY <1>4 DEF EndpointRestart, Orderly
<1>5. ASSUME NEW e \in Endpoints, Evict(e)
      PROVE  LedgerInv'
  <2>1. ~ up[e]
    BY <1>5 DEF Evict, Orderly, LedgerTypeOK
  <2> QED  BY <1>5, <2>1 DEF Evict, LedgerInv
<1>6. ASSUME NEW e \in Endpoints, Rediscover(e)
      PROVE  LedgerInv'
  BY <1>6 DEF Rediscover, LedgerInv
<1>7. ASSUME NEW c \in claims, SummonAt(c)
      PROVE  LedgerInv'
  <2> DEFINE d == [c EXCEPT !.phase = "live"]
  <2>1. d \in Claim /\ d.phase = "live" /\ d.slot = c.slot /\ d.ep = c.ep
    BY DEF LedgerTypeOK, Claim
  <2> QED  BY <1>7, <2>1, BecomeKeepsInv DEF SummonAt
<1>8. ASSUME NEW c \in claims, LoseGrant(c)
      PROVE  LedgerInv'
  BY <1>8 DEF LoseGrant, LedgerInv
<1>9. ASSUME NEW c \in claims, Dismiss(c)
      PROVE  LedgerInv'
  <2> DEFINE d == Stopping(c, 1)
  <2>1. d \in Claim /\ d.owed = 1 /\ d.slot = c.slot /\ d.ep = c.ep
    BY DEF LedgerTypeOK, Claim, Stopping
  <2> QED  BY <1>9, <2>1, BecomeKeepsInv DEF Dismiss
<1>10. ASSUME NEW c \in claims, Abort(c) \/ DismissAgain(c)
       PROVE  LedgerInv'
  BY <1>10 DEF Abort, DismissAgain, Orderly, LedgerTypeOK
<1>11. ASSUME NEW c \in claims, StopFails(c)
       PROVE  LedgerInv'
  <2> DEFINE d == [c EXCEPT !.phase = "stuck"]
  <2>1. d \in Claim /\ d.phase = "stuck" /\ d.slot = c.slot /\ d.ep = c.ep
    BY DEF LedgerTypeOK, Claim
  <2> QED  BY <1>11, <2>1, BecomeKeepsInv DEF StopFails
<1>12. ASSUME NEW c \in claims, Redismiss(c)
       PROVE  LedgerInv'
  <2> DEFINE d == Stopping(c, 1)
  <2>1. d \in Claim /\ d.owed = 1 /\ d.slot = c.slot /\ d.ep = c.ep
    BY DEF LedgerTypeOK, Claim, Stopping
  <2> QED  BY <1>12, <2>1, BecomeKeepsInv DEF Redismiss
<1>13. ASSUME NEW c \in claims, Release(c)
       PROVE  LedgerInv'
  <2>1. c \in Claim /\ claims' = claims \ {c}
    BY <1>13 DEF Release, Sent, LedgerInv, LedgerTypeOK
  <2>2. \A x \in claims' : x.slot # c.slot /\ x.slot \in Slots
    BY <2>1 DEF LedgerInv, LedgerTypeOK, Claim
  <2>3. \A x \in claims' : grants'[x.slot] = x.ep
    BY <1>13, <2>1, <2>2 DEF Release, ReleaseSlot, LedgerInv, LedgerTypeOK, Claim
  <2> QED  BY <1>13, <2>1, <2>3 DEF Release, LedgerInv
<1>14. ASSUME NEW c \in claims, LoseRelease(c)
       PROVE  LedgerInv'
  <2>1. claims' = claims \ {c}
    BY <1>14 DEF LoseRelease, Sent, LedgerInv
  <2> QED  BY <1>14, <2>1 DEF LoseRelease, LedgerInv
<1>15. CASE ReapUnknownOwners
  <2>1. \A c \in claims : c.slot \in Slots /\ c.ep \in known
    BY DEF LedgerInv, LedgerTypeOK, Claim
  <2> QED  BY <1>15, <2>1 DEF ReapUnknownOwners, LedgerInv
<1> QED  BY <1>1, <1>2, <1>3, <1>4, <1>5, <1>6, <1>7, <1>8, <1>9, <1>10, <1>13,
            <1>14, <1>15, <1>11, <1>12 DEF LedgerNext

\* max_concurrency is a strict cap: with one release per container and no running
\* endpoint taken for dead, no slot ever serves two grants or containers,
\* whatever else crashes or gets lost.
THEOREM CapIsStrict == ASSUME Orderly PROVE LedgerSpec => []SlotExclusive
<1>1. LedgerInit => LedgerInv
  BY DEF LedgerInit, LedgerInv
<1>2. LedgerTypeOK /\ LedgerInv /\ [LedgerNext]_ledgerVars => LedgerInv'
  BY InvStep
<1>3. LedgerInv => SlotExclusive
  BY DEF LedgerInv, SlotExclusive, Holding
<1> QED  BY <1>1, <1>2, <1>3, LedgerTypeCorrect, PTL DEF LedgerSpec

\* In the same circumstances the ledger knows the holder of every slot, so that
\* neither a reap nor a release takes a slot that is in use.
THEOREM LedgerKnowsHolders == ASSUME Orderly PROVE LedgerSpec => []HeldIsGranted
<1>1. LedgerInit => LedgerInv
  BY DEF LedgerInit, LedgerInv
<1>2. LedgerTypeOK /\ LedgerInv /\ [LedgerNext]_ledgerVars => LedgerInv'
  BY InvStep
<1>3. LedgerInv => HeldIsGranted
  BY DEF LedgerInv, HeldIsGranted, Holding
<1> QED  BY <1>1, <1>2, <1>3, LedgerTypeCorrect, PTL DEF LedgerSpec

-----------------------------------------------------------------------------
(* Releases, without any assumption on faults *)

LEMMA TakenStep ==
  ASSUME LedgerTypeOK, LedgerNext, NEW s \in Slots
  PROVE  SlotStep(s)
<1>1. ASSUME NEW e \in Endpoints, NEW t \in Slots, RequestSlot(e, t)
      PROVE  SlotStep(s)
  BY <1>1 DEF RequestSlot, SmallestUnused, SlotStep, LedgerTypeOK
<1>2. ASSUME NEW c \in claims, Release(c)
      PROVE  SlotStep(s)
  <2>1. c.slot \in Slots
    BY DEF LedgerTypeOK, Claim
  <2> QED  BY <1>2, <2>1 DEF Release, ReleaseSlot, SlotStep, LedgerTypeOK
<1>3. CASE ReapUnknownOwners
  BY <1>3 DEF ReapUnknownOwners, SlotStep
<1>4. CASE UNCHANGED grants
  BY <1>4 DEF SlotStep
<1> QED
  BY <1>1, <1>2, <1>3, <1>4
  DEF LedgerNext, EndpointCrash, EndpointRestart, Evict, Rediscover, SummonAt,
      LoseGrant, Dismiss, Abort, DismissAgain, StopFails, Redismiss, LoseRelease

\* Whatever is repeated, lost, late or silent: release_slot takes nothing from an
\* endpoint that did not ask, and no grant is given over an owner's head.
THEOREM ReleasesAreOwn == LedgerSpec => TakenOnlyByOwner
<1>1. LedgerTypeOK /\ [LedgerNext]_ledgerVars =>
        [\A s \in Slots : SlotStep(s)]_ledgerVars
  BY TakenStep
<1> QED  BY <1>1, LedgerTypeCorrect, PTL DEF LedgerSpec, TakenOnlyByOwner

=============================================================================
