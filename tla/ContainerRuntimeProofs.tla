----------------------- MODULE ContainerRuntimeProofs -----------------------
(***************************************************************************)
(* Theorems about ContainerRuntime, for any jobs, containers, slots and     *)
(* bounds.  A job that waits is in the queue of the one handle it was       *)
(* placed on, or in the hand of that handle's pump; as long as it has not   *)
(* ended it has no report, unless somebody asked to cancel it.  While Docker *)
(* stops what it is told to stop, a handle in the pool with a pump is alive, *)
(* so that a cancel finds its job in the pump's hand and takes the handle    *)
(* away from everybody else.                                                *)
(***************************************************************************)
EXTENDS ContainerRuntime, SequenceTheorems, FiniteSetTheorems, WellFoundedInduction, TLAPS

Hand(j, h) == hd[h].current = j /\ hd[h].pump \in {"sent", "failing"}

NoneTwice(q) == \A i, k \in DOMAIN q : q[i] = q[k] => i = k

\* Handles in the pool have been summoned.
PoolStarted == \A h \in pool : hd[h].starter # "none"

\* A job is queued once, on the handle it was placed on, and in no pump's hand.
QueuesOnce ==
  \A h \in Handles :
    /\ NoneTwice(hd[h].queue)
    /\ \A j \in InQueue(hd[h].queue) : job[j].at = "queued" /\ job[j].on = h /\ ~Hand(j, h)

\* A job in a pump's hand waits for its end, or has been cancelled there.
HandsHold ==
  \A h \in Handles, j \in Jobs : Hand(j, h) =>
    /\ job[j].on = h /\ job[j].at \in {"queued", "ended"}
    /\ j \notin asked => job[j].at = "queued"

\* Nothing is reported of a job before it ends, unless it was to be cancelled.
ReportsFollow ==
  \A j \in Jobs :
    /\ job[j].at = "new" => reports[j] = <<>> /\ j \notin asked
    /\ j \notin asked /\ job[j].at # "ended" => reports[j] = <<>>

\* The pump of a handle is the one known by its name, and was started once the
\* container was ready.
PumpsKnown ==
  \A h \in Handles :
    /\ PumpAlive(h) => pumpOf[hd[h].slot] = h
    /\ hd[h].ready \/ hd[h].pump # "none" => hd[h].starter = "ended"

\* While every container told to stop has stopped, pumps of the pool are at work.
PoolWorks ==
  budget.stops = 0 =>
    \A h \in pool : /\ hd[h].pump \in {"none", "waiting", "sent", "reported"}
                    /\ hd[h].pump # "none" => Live(h)
                    /\ hd[h].current # Nobody => hd[h].pump = "sent"

\* A handle that was dismissed may be alive again: Docker failed, or _enqueue_job marked
\* it BUSY for another job than j.
Revived(j) == budget.stops > 0 \/ \E k \in Jobs \ {j} : job[k].late # "never"

\* A job that was cancelled is over, and the pump that still holds it will find its
\* handle retired.
CancelledIsOver ==
  \A j \in Jobs : "cancelled" \in InQueue(reports[j]) /\ ~Revived(j) =>
    /\ job[j].at = "ended"
    /\ \A h \in Handles : Hand(j, h) => h \notin pool /\ ~Live(h) /\ hd[h].pump = "sent"

Places == QueuesOnce /\ HandsHold /\ ReportsFollow

Pumping == PumpsKnown /\ PoolWorks

ContainerInv ==
  ContainerTypeOK /\ PoolStarted /\ NoSlotLeaks /\ Places /\ Pumping /\ CancelledIsOver

-----------------------------------------------------------------------------
(* Queues *)

LEMMA EmptyQueue == <<>> \in Seq(Jobs) /\ InQueue(<<>>) = {} /\ NoneTwice(<<>>)
  BY DEF InQueue, NoneTwice

\* What is appended comes last: what was there stays, in its place.
LEMMA Appended ==
  ASSUME NEW S, NEW q \in Seq(S), NEW x \in S
  PROVE  /\ Append(q, x) \in Seq(S)
         /\ InQueue(Append(q, x)) = InQueue(q) \cup {x}
         /\ NoneTwice(q) /\ x \notin InQueue(q) => NoneTwice(Append(q, x))
<1> DEFINE a == Append(q, x)
<1>1. /\ a \in Seq(S) /\ Len(a) = Len(q) + 1 /\ a[Len(q) + 1] = x
      /\ \A i \in 1 .. Len(q) : a[i] = q[i]
  BY AppendProperties
<1>2. Len(q) \in Nat /\ DOMAIN q = 1 .. Len(q) /\ DOMAIN a = 1 .. Len(q) + 1
  BY <1>1, LenProperties
<1> HIDE DEF a
<1>3. InQueue(a) = InQueue(q) \cup {x}
  <2>1. \A i \in DOMAIN a : a[i] = x \/ \E k \in DOMAIN q : a[i] = q[k]
    BY <1>1, <1>2
  <2>2. \A k \in DOMAIN q : k \in DOMAIN a /\ a[k] = q[k]
    BY <1>1, <1>2
  <2>3. Len(q) + 1 \in DOMAIN a
    BY <1>2
  <2> QED  BY <1>1, <2>1, <2>2, <2>3 DEF InQueue
<1>4. ASSUME NoneTwice(q), x \notin InQueue(q)  PROVE NoneTwice(a)
  <2> SUFFICES ASSUME NEW i \in DOMAIN a, NEW k \in DOMAIN a, a[i] = a[k]  PROVE i = k
    BY DEF NoneTwice
  <2>1. \A n \in DOMAIN q : a[n] # x
    BY <1>1, <1>2, <1>4 DEF InQueue
  <2>2. \A n \in DOMAIN a : n \in DOMAIN q \/ n = Len(q) + 1
    BY <1>2
  <2>3. i \in DOMAIN q /\ k \in DOMAIN q => i = k
    BY <1>1, <1>2, <1>4 DEF NoneTwice
  <2> QED  BY <1>1, <2>1, <2>2, <2>3
<1> QED  BY <1>1, <1>3, <1>4 DEF a

\* Part of a queue, in its order, holds nothing new and nothing twice.
LEMMA PartOfQueue ==
  ASSUME NEW q \in Seq(Jobs), NEW r \in Seq(Jobs), NEW at \in [DOMAIN r -> DOMAIN q],
         \A i \in DOMAIN r : r[i] = q[at[i]],
         \A i, k \in DOMAIN r : at[i] = at[k] => i = k
  PROVE  InQueue(r) \subseteq InQueue(q) /\ (NoneTwice(q) => NoneTwice(r))
<1>1. InQueue(r) \subseteq InQueue(q)
  BY DEF InQueue
<1>2. ASSUME NoneTwice(q)  PROVE NoneTwice(r)
  BY <1>2 DEF NoneTwice
<1> QED  BY <1>1, <1>2

\* The head of a queue is taken.
LEMMA Taken ==
  ASSUME NEW q \in Seq(Jobs), q # <<>>
  PROVE  /\ Head(q) \in Jobs /\ Head(q) \in InQueue(q) /\ Tail(q) \in Seq(Jobs)
         /\ InQueue(Tail(q)) \subseteq InQueue(q)
         /\ NoneTwice(q) => NoneTwice(Tail(q)) /\ Head(q) \notin InQueue(Tail(q))
<1> DEFINE r == Tail(q)
<1>1. /\ Head(q) \in Jobs /\ r \in Seq(Jobs) /\ Len(r) = Len(q) - 1
      /\ \A i \in 1 .. Len(r) : r[i] = q[i + 1]
  BY HeadTailProperties
<1>2. Len(q) \in Nat \ {0} /\ DOMAIN q = 1 .. Len(q) /\ DOMAIN r = 1 .. Len(q) - 1
  BY <1>1, LenProperties, EmptySeq
<1>3. Head(q) = q[1]
  OBVIOUS
<1> HIDE DEF r
<1>4. InQueue(r) \subseteq InQueue(q) /\ (NoneTwice(q) => NoneTwice(r))
  <2> DEFINE at == [i \in DOMAIN r |-> i + 1]
  <2>1. at \in [DOMAIN r -> DOMAIN q]
    BY <1>2
  <2>2. /\ \A i \in DOMAIN r : r[i] = q[at[i]]
        /\ \A i, k \in DOMAIN r : at[i] = at[k] => i = k
    BY <1>1, <1>2
  <2> HIDE DEF at
  <2> QED  BY <1>1, <2>1, <2>2, PartOfQueue
<1>5. Head(q) \in InQueue(q)
  BY <1>2, <1>3 DEF InQueue
<1>6. ASSUME NoneTwice(q), Head(q) \in InQueue(r)  PROVE FALSE
  <2>1. PICK i \in DOMAIN r : r[i] = Head(q)
    BY <1>6 DEF InQueue
  <2>2. i + 1 \in DOMAIN q /\ 1 \in DOMAIN q /\ q[i + 1] = q[1] /\ i + 1 # 1
    BY <1>1, <1>2, <1>3, <2>1
  <2> QED  BY <1>6, <2>2 DEF NoneTwice
<1> QED  BY <1>1, <1>4, <1>5, <1>6 DEF r

\* A queue is rebuilt without a job that was in it once.
LEMMA RebuiltWithout ==
  ASSUME NEW q \in Seq(Jobs), NEW j \in Jobs
  PROVE  /\ Without(q, j) \in Seq(Jobs)
         /\ InQueue(Without(q, j)) \subseteq InQueue(q)
         /\ NoneTwice(q) => NoneTwice(Without(q, j)) /\ j \notin InQueue(Without(q, j))
<1>1. CASE j \notin InQueue(q)
  BY <1>1 DEF Without
<1>2. CASE j \in InQueue(q)
  <2> DEFINE pos == CHOOSE i \in DOMAIN q : q[i] = j
             at == [i \in 1 .. Len(q) - 1 |-> IF i < pos THEN i ELSE i + 1]
             r == [i \in 1 .. Len(q) - 1 |-> IF i < pos THEN q[i] ELSE q[i + 1]]
  <2>1. Len(q) \in Nat /\ DOMAIN q = 1 .. Len(q) /\ \A i \in DOMAIN q : q[i] \in Jobs
    BY LenProperties, ElementOfSeq
  <2>2. pos \in DOMAIN q /\ q[pos] = j
    BY <1>2 DEF InQueue
  <2>3. r = Without(q, j)
    BY <1>2 DEF Without
  <2> HIDE DEF pos
  <2>4. Len(q) - 1 \in Nat /\ pos \in 1 .. Len(q)
    BY <2>1, <2>2
  <2>5. r \in [1 .. Len(q) - 1 -> Jobs]
    BY <2>1, <2>2, <2>4
  <2>6. r \in Seq(Jobs)
    BY <2>4, <2>5, SeqDef
  <2>7. at \in [DOMAIN r -> DOMAIN q]
    BY <2>1, <2>4
  <2>8. /\ \A i \in DOMAIN r : r[i] = q[at[i]]
        /\ \A i, k \in DOMAIN r : at[i] = at[k] => i = k
        /\ \A i \in DOMAIN r : at[i] # pos
    BY <2>1, <2>4
  <2> HIDE DEF at, r
  <2>9. InQueue(r) \subseteq InQueue(q) /\ (NoneTwice(q) => NoneTwice(r))
    BY <2>6, <2>7, <2>8, PartOfQueue
  <2>10. NoneTwice(q) => j \notin InQueue(r)
    <3> SUFFICES ASSUME NoneTwice(q), NEW i \in DOMAIN r, r[i] = j  PROVE FALSE
      BY DEF InQueue
    <3>1. at[i] \in DOMAIN q /\ q[at[i]] = j /\ at[i] # pos
      BY <2>7, <2>8
    <3> QED  BY <2>2, <3>1 DEF NoneTwice
  <2> QED  BY <2>3, <2>6, <2>9, <2>10
<1> QED  BY <1>1, <1>2

\* The smallest free slot exists.
LEMMA LeastFree ==
  ASSUME NEW T \in SUBSET Slots, T # {}
  PROVE  Min(T) \in T
<1> DEFINE R == OpToRel(<, Nat)
<1>0. T \in SUBSET Nat
  BY ContainerAssumption DEF Slots
<1>1. IsWellFoundedOn(R, Nat)
  BY NatLessThanWellFounded
<1> HIDE DEF R
<1>2. PICK x \in T : \A y \in T : ~ (<<y, x>> \in R)
  BY <1>0, <1>1, WFMin
<1>3. \A a, b \in Nat : a < b => <<a, b>> \in R
  BY DEF R, OpToRel
<1>4. \A y \in T : ~(y < x)
  BY <1>0, <1>2, <1>3
<1>5. \A y \in T : x <= y
  BY <1>0, <1>4
<1> QED  BY <1>5 DEF Min

-----------------------------------------------------------------------------
(* What a step makes of a handle and of a job *)

Becomes(h, st, rd, sr, q, c, p) ==
  /\ hd' \in [Handles -> ContainerHandle]
  /\ hd'[h].slot = hd[h].slot /\ hd'[h].status = st /\ hd'[h].ready = rd /\ hd'[h].starter = sr
  /\ hd'[h].queue = q /\ hd'[h].current = c /\ hd'[h].pump = p
  /\ \A k \in Handles : k # h => hd'[k] = hd[k]

Moves(j, at, on) ==
  /\ job' \in [Jobs -> JobState]
  /\ job'[j].at = at /\ job'[j].on = on /\ (job[j].late # "never" => job'[j].late # "never")
  /\ \A k \in Jobs : k # j => job'[k] = job[k]

LEMMA HandleIs ==
  ASSUME ContainerTypeOK, NEW h \in Handles
  PROVE  /\ hd \in [Handles -> ContainerHandle] /\ hd[h] \in ContainerHandle
         /\ hd[h].status \in ContainerStatus /\ hd[h].slot \in Slots /\ hd[h].ready \in BOOLEAN
         /\ hd[h].starter \in {"none", "spawning", "polling", "ended"}
         /\ hd[h].queue \in Seq(Jobs) /\ hd[h].current \in Jobs \cup {Nobody}
         /\ hd[h].pump \in Pumps /\ hd[h].ending \in {"crashed", "timeout"}
         /\ InQueue(hd[h].queue) \subseteq Jobs
<1>1. /\ hd \in [Handles -> ContainerHandle] /\ hd[h] \in ContainerHandle
  BY DEF ContainerTypeOK
<1>2. /\ hd[h].status \in ContainerStatus /\ hd[h].slot \in Slots /\ hd[h].ready \in BOOLEAN
      /\ hd[h].starter \in {"none", "spawning", "polling", "ended"}
      /\ hd[h].queue \in Seq(Jobs) /\ hd[h].current \in Jobs \cup {Nobody}
      /\ hd[h].pump \in Pumps /\ hd[h].ending \in {"crashed", "timeout"}
  BY <1>1 DEF ContainerHandle
<1>3. InQueue(hd[h].queue) \subseteq Jobs
  BY <1>2, ElementOfSeq, LenProperties DEF InQueue
<1> QED  BY <1>1, <1>2, <1>3

LEMMA JobIs ==
  ASSUME ContainerTypeOK, NEW j \in Jobs
  PROVE  /\ job \in [Jobs -> JobState] /\ job[j] \in JobState
         /\ job[j].at \in Stages /\ job[j].on \in Handles \cup {Nobody}
         /\ job[j].attempts \in 0 .. MaxRetries /\ job[j].late \in {"never", "before", "now"}
         /\ job[j].at \in {"placed", "cold", "enqueue", "queued"} => job[j].on \in Handles
  BY DEF ContainerTypeOK, JobState

LEMMA HandleChanged ==
  ASSUME ContainerTypeOK, NEW h \in Handles, NEW r \in ContainerHandle,
         r.slot = hd[h].slot, hd' = [hd EXCEPT ![h] = r]
  PROVE  Becomes(h, r.status, r.ready, r.starter, r.queue, r.current, r.pump)
<1>1. hd \in [Handles -> ContainerHandle]
  BY DEF ContainerTypeOK
<1>2. hd' \in [Handles -> ContainerHandle] /\ hd'[h] = r
  BY <1>1
<1>3. \A k \in Handles : k # h => hd'[k] = hd[k]
  BY <1>1
<1> QED  BY <1>2, <1>3 DEF Becomes

LEMMA JobChanged ==
  ASSUME ContainerTypeOK, NEW j \in Jobs, NEW r \in JobState,
         job[j].late # "never" => r.late # "never", job' = [job EXCEPT ![j] = r]
  PROVE  Moves(j, r.at, r.on)
<1>1. job \in [Jobs -> JobState]
  BY DEF ContainerTypeOK
<1>2. job' \in [Jobs -> JobState] /\ job'[j] = r
  BY <1>1
<1>3. \A k \in Jobs : k # j => job'[k] = job[k]
  BY <1>1
<1> QED  BY <1>2, <1>3 DEF Moves

\* Most steps change only the stage of a job.
LEMMA StageChanged ==
  ASSUME ContainerTypeOK, NEW j \in Jobs, NEW at \in Stages, job' = [job EXCEPT ![j].at = at]
  PROVE  Moves(j, at, job[j].on)
<1> DEFINE r == [job[j] EXCEPT !.at = at]
<1>1. r \in JobState /\ r.at = at /\ r.on = job[j].on /\ r.late = job[j].late
  BY JobIs DEF JobState
<1>2. job' = [job EXCEPT ![j] = r]
  BY DEF ContainerTypeOK
<1> HIDE DEF r
<1>3. Moves(j, r.at, r.on)
  BY <1>1, <1>2, JobChanged
<1> QED  BY <1>1, <1>3

\* A job ends: its attempts are forgotten.
LEMMA JobEnded ==
  ASSUME ContainerTypeOK, NEW j \in Jobs,
         job' = [job EXCEPT ![j] = [@ EXCEPT !.at = "ended", !.attempts = 0]]
  PROVE  Moves(j, "ended", job[j].on)
<1> DEFINE r == [job[j] EXCEPT !.at = "ended", !.attempts = 0]
<1>1. 0 \in 0 .. MaxRetries
  BY ContainerAssumption
<1>2. r \in JobState /\ r.at = "ended" /\ r.on = job[j].on /\ r.late = job[j].late
  BY <1>1, JobIs DEF JobState, Stages
<1>3. job' = [job EXCEPT ![j] = r]
  BY DEF ContainerTypeOK
<1> HIDE DEF r
<1>4. Moves(j, r.at, r.on)
  BY <1>2, <1>3, JobChanged
<1> QED  BY <1>2, <1>4

\* A job is placed on a handle.
LEMMA JobPlaced ==
  ASSUME ContainerTypeOK, NEW j \in Jobs, NEW h \in Handles,
         job' = [job EXCEPT ![j] = [@ EXCEPT !.at = "placed", !.on = h]]
  PROVE  Moves(j, "placed", h)
<1> DEFINE r == [job[j] EXCEPT !.at = "placed", !.on = h]
<1>2. r \in JobState /\ r.at = "placed" /\ r.on = h /\ r.late = job[j].late
  BY JobIs DEF JobState, Stages
<1>3. job' = [job EXCEPT ![j] = r]
  BY DEF ContainerTypeOK
<1> HIDE DEF r
<1>4. Moves(j, r.at, r.on)
  BY <1>2, <1>3, JobChanged
<1> QED  BY <1>2, <1>4

\* A job is queued on its handle.
LEMMA JobQueued ==
  ASSUME ContainerTypeOK, NEW j \in Jobs, Enqueue(j)
  PROVE  /\ Moves(j, "queued", job[j].on)
         /\ ~Live(job[j].on) => job'[j].late # "never"
<1> DEFINE l == LateNow(j)
           r == [job[j] EXCEPT !.at = "queued", !.late = l]
<1>1. l \in {"never", "before", "now"} /\ (job[j].late # "never" \/ ~Live(job[j].on) => l # "never")
  BY DEF LateNow
<1>2. job' = [job EXCEPT ![j] = r]
  BY DEF Enqueue
<1> HIDE DEF l
<1>3. r \in JobState /\ r.at = "queued" /\ r.on = job[j].on /\ r.late = l
  BY <1>1, JobIs DEF JobState, Stages
<1> HIDE DEF r
<1>4. Moves(j, r.at, r.on)
  BY <1>1, <1>2, <1>3, JobChanged
<1>5. job'[j] = r
  BY <1>2 DEF ContainerTypeOK
<1> QED  BY <1>1, <1>3, <1>4, <1>5

LEMMA StoppedIs ==
  ASSUME NEW h, NEW rec \in ContainerHandle, NEW ok \in BOOLEAN,
         NEW by \in {"no", "stale", "failed", "cancel", "sweep"}
  PROVE  LET s == Stopped(h, ok, by, rec)
         IN  /\ s \in ContainerHandle
             /\ s.status = "DISMISSED" /\ s.slot = rec.slot /\ s.ready = rec.ready
             /\ s.starter = rec.starter /\ s.queue = rec.queue /\ s.current = rec.current
             /\ s.pump = rec.pump
<1> DEFINE b == IF ok /\ rec.box # "none" THEN "removed" ELSE rec.box
           y == IF rec.retired = "no" THEN by ELSE rec.retired
           s1 == [rec EXCEPT !.status = "DISMISSED"]
           s2 == [s1 EXCEPT !.box = b]
           s == [s2 EXCEPT !.retired = y]
<1>1. b \in {"none", "up", "dead", "removed"} /\ y \in {"no", "stale", "failed", "cancel", "sweep"}
  BY DEF ContainerHandle
<1>2. s = Stopped(h, ok, by, rec)
  BY DEF Stopped, ContainerHandle
<1>3. "DISMISSED" \in ContainerStatus
  BY DEF ContainerStatus, Retired
<1> HIDE DEF b, y
<1>4. /\ s1 \in ContainerHandle
      /\ s1.status = "DISMISSED" /\ s1.slot = rec.slot /\ s1.ready = rec.ready
      /\ s1.starter = rec.starter /\ s1.queue = rec.queue /\ s1.current = rec.current
      /\ s1.pump = rec.pump
  BY <1>3 DEF ContainerHandle
<1> HIDE DEF s1
<1>5. /\ s2 \in ContainerHandle
      /\ s2.status = s1.status /\ s2.slot = s1.slot /\ s2.ready = s1.ready
      /\ s2.starter = s1.starter /\ s2.queue = s1.queue /\ s2.current = s1.current
      /\ s2.pump = s1.pump
  BY <1>1, <1>4 DEF ContainerHandle
<1> HIDE DEF s2
<1>6. /\ s \in ContainerHandle
      /\ s.status = s2.status /\ s.slot = s2.slot /\ s.ready = s2.ready
      /\ s.starter = s2.starter /\ s.queue = s2.queue /\ s.current = s2.current
      /\ s.pump = s2.pump
  BY <1>1, <1>5 DEF ContainerHandle
<1> HIDE DEF s
<1> QED  BY <1>2, <1>4, <1>5, <1>6

\* Steps that set one or two fields of a handle.
LEMMA StatusSet ==
  ASSUME ContainerTypeOK, NEW h \in Handles, NEW st \in ContainerStatus,
         hd' = [hd EXCEPT ![h].status = st]
  PROVE  Becomes(h, st, hd[h].ready, hd[h].starter, hd[h].queue, hd[h].current, hd[h].pump)
<1> DEFINE o == hd[h]
           r == [o EXCEPT !.status = st]
<1>1. hd' = [hd EXCEPT ![h] = r]
  BY DEF ContainerTypeOK
<1>2. /\ r \in ContainerHandle /\ r.slot = o.slot /\ r.status = st /\ r.ready = o.ready
      /\ r.starter = o.starter /\ r.queue = o.queue /\ r.current = o.current /\ r.pump = o.pump
  BY HandleIs DEF ContainerHandle
<1> HIDE DEF r
<1>3. Becomes(h, r.status, r.ready, r.starter, r.queue, r.current, r.pump)
  BY <1>1, <1>2, HandleChanged
<1> QED  BY <1>2, <1>3

LEMMA PumpSet ==
  ASSUME ContainerTypeOK, NEW h \in Handles, NEW p \in Pumps, hd' = [hd EXCEPT ![h].pump = p]
  PROVE  Becomes(h, hd[h].status, hd[h].ready, hd[h].starter, hd[h].queue, hd[h].current, p)
<1> DEFINE o == hd[h]
           r == [o EXCEPT !.pump = p]
<1>1. hd' = [hd EXCEPT ![h] = r]
  BY DEF ContainerTypeOK
<1>2. /\ r \in ContainerHandle /\ r.slot = o.slot /\ r.status = o.status /\ r.ready = o.ready
      /\ r.starter = o.starter /\ r.queue = o.queue /\ r.current = o.current /\ r.pump = p
  BY HandleIs DEF ContainerHandle
<1> HIDE DEF r
<1>3. Becomes(h, r.status, r.ready, r.starter, r.queue, r.current, r.pump)
  BY <1>1, <1>2, HandleChanged
<1> QED  BY <1>2, <1>3

LEMMA QueueSet ==
  ASSUME ContainerTypeOK, NEW h \in Handles, NEW q \in Seq(Jobs), hd' = [hd EXCEPT ![h].queue = q]
  PROVE  Becomes(h, hd[h].status, hd[h].ready, hd[h].starter, q, hd[h].current, hd[h].pump)
<1> DEFINE o == hd[h]
           r == [o EXCEPT !.queue = q]
<1>1. hd' = [hd EXCEPT ![h] = r]
  BY DEF ContainerTypeOK
<1>2. /\ r \in ContainerHandle /\ r.slot = o.slot /\ r.status = o.status /\ r.ready = o.ready
      /\ r.starter = o.starter /\ r.queue = q /\ r.current = o.current /\ r.pump = o.pump
  BY HandleIs DEF ContainerHandle
<1> HIDE DEF r
<1>3. Becomes(h, r.status, r.ready, r.starter, r.queue, r.current, r.pump)
  BY <1>1, <1>2, HandleChanged
<1> QED  BY <1>2, <1>3

LEMMA DiesShape ==
  ASSUME ContainerTypeOK, NEW h \in Handles, ContainerDies(h)
  PROVE  Becomes(h, hd[h].status, hd[h].ready, hd[h].starter, hd[h].queue, hd[h].current,
                 hd[h].pump)
<1> DEFINE o == hd[h]
           r == [o EXCEPT !.box = "dead"]
<1>1. hd' = [hd EXCEPT ![h] = r]
  BY DEF ContainerTypeOK, ContainerDies
<1>2. /\ r \in ContainerHandle /\ r.slot = o.slot /\ r.status = o.status /\ r.ready = o.ready
      /\ r.starter = o.starter /\ r.queue = o.queue /\ r.current = o.current /\ r.pump = o.pump
  BY HandleIs DEF ContainerHandle
<1> HIDE DEF r
<1>3. Becomes(h, r.status, r.ready, r.starter, r.queue, r.current, r.pump)
  BY <1>1, <1>2, HandleChanged
<1> QED  BY <1>2, <1>3

LEMMA SpawnShape ==
  ASSUME ContainerTypeOK, NEW h \in Handles, SpawnStep(h)
  PROVE  \E st \in ContainerStatus, rd \in BOOLEAN, sr \in {"polling", "ended"} :
           /\ hd[h].starter \in {"spawning", "polling"} /\ (rd /\ ~hd[h].ready => sr = "ended")
           /\ Becomes(h, st, rd, sr, hd[h].queue, hd[h].current, hd[h].pump)
           /\ UNCHANGED <<job, reports, asked, router, pool, pumpOf, grants, sweeping, budget>>
<1> DEFINE o == hd[h]
<1>1. CASE SpawnOk(h)
  <2> DEFINE s1 == [o EXCEPT !.status = "BOOTSTRAPPING", !.box = "up"]
             r == [s1 EXCEPT !.starter = "polling"]
  <2>1. hd' = [hd EXCEPT ![h] = r]
    BY <1>1 DEF SpawnOk
  <2>2. "BOOTSTRAPPING" \in ContainerStatus
    BY DEF ContainerStatus
  <2>3. /\ s1 \in ContainerHandle /\ s1.slot = o.slot /\ s1.status = "BOOTSTRAPPING"
        /\ s1.ready = o.ready /\ s1.queue = o.queue /\ s1.current = o.current /\ s1.pump = o.pump
    BY <2>2, HandleIs DEF ContainerHandle
  <2> HIDE DEF s1
  <2>4. /\ r \in ContainerHandle /\ r.slot = o.slot /\ r.status = "BOOTSTRAPPING"
        /\ r.starter = "polling"
        /\ r.ready = o.ready /\ r.queue = o.queue /\ r.current = o.current /\ r.pump = o.pump
    BY <2>3 DEF ContainerHandle
  <2> HIDE DEF r
  <2>5. Becomes(h, r.status, r.ready, r.starter, r.queue, r.current, r.pump)
    BY <2>1, <2>4, HandleChanged
  <2> QED  BY <1>1, <2>2, <2>4, <2>5, HandleIs DEF SpawnOk
<1>2. ASSUME NEW st \in ContainerStatus, o.starter \in {"spawning", "polling"},
             hd' = [hd EXCEPT ![h] = [@ EXCEPT !.status = st, !.ready = TRUE,
                                               !.starter = "ended"]]
      PROVE  Becomes(h, st, TRUE, "ended", o.queue, o.current, o.pump)
  <2> DEFINE s1 == [o EXCEPT !.status = st, !.ready = TRUE]
             r == [s1 EXCEPT !.starter = "ended"]
  <2>1. hd' = [hd EXCEPT ![h] = r]
    BY <1>2
  <2>3. /\ s1 \in ContainerHandle /\ s1.slot = o.slot /\ s1.status = st
        /\ s1.ready = TRUE /\ s1.queue = o.queue /\ s1.current = o.current /\ s1.pump = o.pump
    BY HandleIs DEF ContainerHandle
  <2> HIDE DEF s1
  <2>4. /\ r \in ContainerHandle /\ r.slot = o.slot /\ r.status = st /\ r.starter = "ended"
        /\ r.ready = TRUE /\ r.queue = o.queue /\ r.current = o.current /\ r.pump = o.pump
    BY <2>3 DEF ContainerHandle
  <2> HIDE DEF r
  <2>5. Becomes(h, r.status, r.ready, r.starter, r.queue, r.current, r.pump)
    BY <2>1, <2>4, HandleChanged
  <2> QED  BY <2>4, <2>5
<1>3. "CRASHED" \in ContainerStatus /\ "READY" \in ContainerStatus
  BY DEF ContainerStatus, Retired
<1>4. CASE SpawnFails(h) \/ PollTimeout(h)
  <2>1. Becomes(h, "CRASHED", TRUE, "ended", o.queue, o.current, o.pump)
    BY <1>2, <1>3, <1>4 DEF SpawnFails, PollTimeout
  <2> QED  BY <1>3, <1>4, <2>1 DEF SpawnFails, PollTimeout
<1>5. CASE PollReady(h)
  <2>1. Becomes(h, "READY", TRUE, "ended", o.queue, o.current, o.pump)
    BY <1>2, <1>3, <1>5 DEF PollReady
  <2> QED  BY <1>3, <1>5, <2>1 DEF PollReady
<1> QED  BY <1>1, <1>4, <1>5 DEF SpawnStep
\* A pump is started only where none is alive under the name.
LEMMA EnsureShape ==
  ASSUME ContainerTypeOK, NEW h \in Handles, EnsurePump(h)
  PROVE  \/ /\ pumpOf' = pumpOf
            /\ Becomes(h, hd[h].status, hd[h].ready, hd[h].starter, hd[h].queue,
                       hd[h].current, hd[h].pump)
         \/ /\ ~(pumpOf[hd[h].slot] \in Handles /\ PumpAlive(pumpOf[hd[h].slot]))
            /\ pumpOf' = [pumpOf EXCEPT ![hd[h].slot] = h]
            /\ Becomes(h, hd[h].status, hd[h].ready, hd[h].starter, hd[h].queue,
                       hd[h].current, "waiting")
<1> DEFINE o == hd[h]
           holder == pumpOf[o.slot]
<1>0. holder \in Handles \cup {Nobody}
  BY HandleIs DEF ContainerTypeOK
<1>1. CASE holder # Nobody /\ PumpAlive(holder)
  <2>1. PICK b \in BOOLEAN : b = (o.shadowed \/ holder # h)
    OBVIOUS
  <2> DEFINE r == [o EXCEPT !.shadowed = b]
  <2>2. hd' = [hd EXCEPT ![h] = r] /\ pumpOf' = pumpOf
    BY <1>1, <2>1, HandleIs DEF EnsurePump, ContainerHandle
  <2>3. /\ r \in ContainerHandle /\ r.slot = o.slot /\ r.status = o.status /\ r.ready = o.ready
        /\ r.starter = o.starter /\ r.queue = o.queue /\ r.current = o.current /\ r.pump = o.pump
    BY HandleIs DEF ContainerHandle
  <2> HIDE DEF r
  <2>4. Becomes(h, r.status, r.ready, r.starter, r.queue, r.current, r.pump)
    BY <2>2, <2>3, HandleChanged
  <2> QED  BY <2>2, <2>3, <2>4
<1>2. CASE ~(holder # Nobody /\ PumpAlive(holder))
  <2>1. hd' = [hd EXCEPT ![h].pump = "waiting"] /\ pumpOf' = [pumpOf EXCEPT ![o.slot] = h]
    BY <1>2 DEF EnsurePump
  <2>2. "waiting" \in Pumps
    BY DEF Pumps
  <2>3. Becomes(h, o.status, o.ready, o.starter, o.queue, o.current, "waiting")
    BY <2>1, <2>2, PumpSet
  <2>4. holder \in Handles => holder # Nobody
    BY ContainerAssumption
  <2> QED  BY <1>2, <2>1, <2>3, <2>4
<1> QED  BY <1>1, <1>2

LEMMA EnqueueShape ==
  ASSUME ContainerTypeOK, NEW j \in Jobs, Enqueue(j)
  PROVE  LET h == job[j].on
         IN  /\ h \in Handles
             /\ Becomes(h, "BUSY", hd[h].ready, hd[h].starter, Append(hd[h].queue, j),
                        hd[h].current, hd[h].pump)
<1> DEFINE h == job[j].on
           o == hd[h]
           s1 == [o EXCEPT !.status = "BUSY"]
           s2 == [s1 EXCEPT !.count = o.count + 1]
           r == [s2 EXCEPT !.queue = Append(o.queue, j)]
<1>0. h \in Handles
  BY JobIs DEF Enqueue
<1>1. o \in ContainerHandle /\ o.count + 1 \in Nat /\ "BUSY" \in ContainerStatus
  BY <1>0, HandleIs DEF ContainerHandle, ContainerStatus
<1>2. Append(o.queue, j) \in Seq(Jobs)
  BY <1>0, HandleIs, Appended
<1>3. hd' = [hd EXCEPT ![h] = r]
  BY DEF Enqueue
<1>4. /\ s1 \in ContainerHandle /\ s1.slot = o.slot /\ s1.status = "BUSY" /\ s1.ready = o.ready
      /\ s1.starter = o.starter /\ s1.current = o.current /\ s1.pump = o.pump
  BY <1>1 DEF ContainerHandle
<1> HIDE DEF s1
<1>5. /\ s2 \in ContainerHandle /\ s2.slot = o.slot /\ s2.status = "BUSY" /\ s2.ready = o.ready
      /\ s2.starter = o.starter /\ s2.current = o.current /\ s2.pump = o.pump
  BY <1>1, <1>4 DEF ContainerHandle
<1> HIDE DEF s2
<1>6. /\ r \in ContainerHandle /\ r.slot = o.slot /\ r.status = "BUSY" /\ r.ready = o.ready
      /\ r.starter = o.starter /\ r.queue = Append(o.queue, j) /\ r.current = o.current
      /\ r.pump = o.pump
  BY <1>2, <1>5 DEF ContainerHandle
<1> HIDE DEF r
<1>7. Becomes(h, r.status, r.ready, r.starter, r.queue, r.current, r.pump)
  BY <1>0, <1>3, <1>6, HandleChanged
<1> QED  BY <1>0, <1>6, <1>7

LEMMA TakeShape ==
  ASSUME ContainerTypeOK, NEW h \in Handles, PumpTake(h)
  PROVE  Becomes(h, hd[h].status, hd[h].ready, hd[h].starter, Tail(hd[h].queue),
                 Head(hd[h].queue), "sent")
<1> DEFINE o == hd[h]
           s1 == [o EXCEPT !.pump = "sent"]
           s2 == [s1 EXCEPT !.current = Head(o.queue)]
           r == [s2 EXCEPT !.queue = Tail(o.queue)]
<1>1. o \in ContainerHandle /\ "sent" \in Pumps
  BY HandleIs DEF Pumps
<1>2. Head(o.queue) \in Jobs \cup {Nobody} /\ Tail(o.queue) \in Seq(Jobs)
  BY HandleIs, Taken DEF PumpTake
<1>3. hd' = [hd EXCEPT ![h] = r]
  BY DEF PumpTake
<1>4. /\ s1 \in ContainerHandle /\ s1.slot = o.slot /\ s1.status = o.status
      /\ s1.ready = o.ready /\ s1.starter = o.starter /\ s1.pump = "sent"
  BY <1>1 DEF ContainerHandle
<1> HIDE DEF s1
<1>5. /\ s2 \in ContainerHandle /\ s2.slot = o.slot /\ s2.status = o.status
      /\ s2.ready = o.ready /\ s2.starter = o.starter /\ s2.pump = "sent"
      /\ s2.current = Head(o.queue)
  BY <1>2, <1>4 DEF ContainerHandle
<1> HIDE DEF s2
<1>6. /\ r \in ContainerHandle /\ r.slot = o.slot /\ r.status = o.status /\ r.ready = o.ready
      /\ r.starter = o.starter /\ r.queue = Tail(o.queue) /\ r.current = Head(o.queue)
      /\ r.pump = "sent"
  BY <1>2, <1>5 DEF ContainerHandle
<1> HIDE DEF r
<1>7. Becomes(h, r.status, r.ready, r.starter, r.queue, r.current, r.pump)
  BY <1>3, <1>6, HandleChanged
<1> QED  BY <1>6, <1>7

LEMMA PumpShape ==
  ASSUME ContainerTypeOK, NEW h \in Handles
  PROVE  /\ PumpReceive(h) => Becomes(h, hd[h].status, hd[h].ready, hd[h].starter,
                                      hd[h].queue, Nobody, "reported")
         /\ PumpDone(h) => Becomes(h, "IDLE", hd[h].ready, hd[h].starter, hd[h].queue,
                                   hd[h].current, "waiting")
         /\ PumpIdle(h) => Becomes(h, "IDLE", hd[h].ready, hd[h].starter, hd[h].queue,
                                   hd[h].current, hd[h].pump)
         /\ PumpExit(h) => Becomes(h, hd[h].status, hd[h].ready, hd[h].starter, hd[h].queue,
                                   hd[h].current, "ended")
         /\ PumpFinish(h) => Becomes(h, hd[h].status, hd[h].ready, hd[h].starter, <<>>,
                                     hd[h].current, "ended")
<1> DEFINE o == hd[h]
<1>0. /\ o \in ContainerHandle /\ "IDLE" \in ContainerStatus
      /\ {"reported", "waiting", "ended"} \subseteq Pumps
  BY HandleIs DEF ContainerStatus, Pumps
<1>1. ASSUME PumpReceive(h)
      PROVE  Becomes(h, o.status, o.ready, o.starter, o.queue, Nobody, "reported")
  <2> DEFINE r == [o EXCEPT !.pump = "reported", !.current = Nobody]
  <2>1. hd' = [hd EXCEPT ![h] = r]
    BY <1>1 DEF PumpReceive
  <2>2. /\ r \in ContainerHandle /\ r.slot = o.slot /\ r.status = o.status /\ r.ready = o.ready
        /\ r.starter = o.starter /\ r.queue = o.queue /\ r.current = Nobody
        /\ r.pump = "reported"
    BY <1>0 DEF ContainerHandle
  <2> HIDE DEF r
  <2>3. Becomes(h, r.status, r.ready, r.starter, r.queue, r.current, r.pump)
    BY <2>1, <2>2, HandleChanged
  <2> QED  BY <2>2, <2>3
<1>2. ASSUME PumpDone(h)
      PROVE  Becomes(h, "IDLE", o.ready, o.starter, o.queue, o.current, "waiting")
  <2> DEFINE r == [o EXCEPT !.pump = "waiting", !.status = "IDLE"]
  <2>1. hd' = [hd EXCEPT ![h] = r]
    BY <1>2 DEF PumpDone
  <2>2. /\ r \in ContainerHandle /\ r.slot = o.slot /\ r.status = "IDLE" /\ r.ready = o.ready
        /\ r.starter = o.starter /\ r.queue = o.queue /\ r.current = o.current
        /\ r.pump = "waiting"
    BY <1>0 DEF ContainerHandle
  <2> HIDE DEF r
  <2>3. Becomes(h, r.status, r.ready, r.starter, r.queue, r.current, r.pump)
    BY <2>1, <2>2, HandleChanged
  <2> QED  BY <2>2, <2>3
<1>3. ASSUME PumpFinish(h)
      PROVE  Becomes(h, o.status, o.ready, o.starter, <<>>, o.current, "ended")
  <2> DEFINE r == [o EXCEPT !.pump = "ended", !.queue = <<>>]
  <2>1. hd' = [hd EXCEPT ![h] = r]
    BY <1>3 DEF PumpFinish
  <2>2. /\ r \in ContainerHandle /\ r.slot = o.slot /\ r.status = o.status /\ r.ready = o.ready
        /\ r.starter = o.starter /\ r.queue = <<>> /\ r.current = o.current
        /\ r.pump = "ended"
    BY <1>0, EmptyQueue DEF ContainerHandle
  <2> HIDE DEF r
  <2>3. Becomes(h, r.status, r.ready, r.starter, r.queue, r.current, r.pump)
    BY <2>1, <2>2, HandleChanged
  <2> QED  BY <2>2, <2>3
<1>4. PumpIdle(h) => Becomes(h, "IDLE", o.ready, o.starter, o.queue, o.current, o.pump)
  BY <1>0, StatusSet DEF PumpIdle
<1>5. PumpExit(h) => Becomes(h, o.status, o.ready, o.starter, o.queue, o.current, "ended")
  BY <1>0, PumpSet DEF PumpExit
<1> QED  BY <1>1, <1>2, <1>3, <1>4, <1>5
Budgets == [deaths : Nat, sweeps : Nat, cancels : Nat, stops : Nat]

\* A dismissal: the handle leaves the pool and its slot is free, or Docker has failed.
Dismisses(h) ==
  /\ budget' \in Budgets
  /\ \/ /\ pool' = pool \ {h} /\ grants' = grants \ {hd[h].slot}
        /\ budget'.stops = budget.stops
     \/ pool' = pool /\ grants' \subseteq grants /\ budget'.stops > 0

LEMMA BudgetSpent ==
  ASSUME NEW b \in Budgets, NEW n \in Nat, NEW c \in Nat
  PROVE  LET more == [b EXCEPT !.cancels = b.cancels + c, !.stops = b.stops + n]
         IN  more \in Budgets /\ more.stops = b.stops + n
<1>1. b.stops + n \in Nat /\ b.cancels + c \in Nat
  BY DEF Budgets
<1> QED  BY <1>1 DEF Budgets

LEMMA StopsFailed ==
  ASSUME NEW b \in Budgets, NEW n \in Nat
  PROVE  LET more == [b EXCEPT !.stops = b.stops + n]
         IN  /\ more \in Budgets /\ more.stops = b.stops + n /\ more.stops \in Nat
             /\ n > 0 => more.stops > 0
<1>1. b.stops + n \in Nat /\ b.stops \in Nat
  BY DEF Budgets
<1>2. n > 0 => b.stops + n > 0
  BY <1>1
<1> QED  BY <1>1, <1>2 DEF Budgets

LEMMA StopShape ==
  ASSUME ContainerTypeOK, NEW h \in Handles, NEW rec \in ContainerHandle, NEW ok \in BOOLEAN,
         NEW by \in {"no", "stale", "failed", "cancel", "sweep"}, rec.slot = hd[h].slot,
         hd' = [hd EXCEPT ![h] = Stopped(h, ok, by, rec)]
  PROVE  Becomes(h, "DISMISSED", rec.ready, rec.starter, rec.queue, rec.current, rec.pump)
<1> DEFINE s == Stopped(h, ok, by, rec)
<1>1. /\ s \in ContainerHandle
      /\ s.status = "DISMISSED" /\ s.slot = rec.slot /\ s.ready = rec.ready
      /\ s.starter = rec.starter /\ s.queue = rec.queue /\ s.current = rec.current
      /\ s.pump = rec.pump
  BY StoppedIs
<1> HIDE DEF s
<1>2. hd' = [hd EXCEPT ![h] = s]
  BY DEF s
<1>3. Becomes(h, s.status, s.ready, s.starter, s.queue, s.current, s.pump)
  BY <1>1, <1>2, HandleChanged
<1> QED  BY <1>1, <1>3

LEMMA FailShape ==
  ASSUME ContainerTypeOK, NEW h \in Handles, NEW o \in {"crashed", "timeout"}, Fail(h, o)
  PROVE  \/ /\ ~Live(h) /\ UNCHANGED <<pool, grants, budget>>
            /\ Becomes(h, hd[h].status, hd[h].ready, hd[h].starter, hd[h].queue,
                       hd[h].current, "ended")
         \/ /\ Live(h) /\ Dismisses(h)
            /\ Becomes(h, "DISMISSED", hd[h].ready, hd[h].starter, hd[h].queue,
                       hd[h].current, "failing")
<1>0. {"ended", "failing"} \subseteq Pumps /\ budget \in Budgets
  BY DEF Pumps, ContainerTypeOK, Budgets
<1>1. CASE ~Live(h) /\ hd' = [hd EXCEPT ![h].pump = "ended"] /\ UNCHANGED <<pool, grants, budget>>
  BY <1>0, <1>1, PumpSet
<1>2. CASE /\ Live(h)
           /\ \E ok \in {TRUE, ~MayFail({h})} :
                /\ hd' = [hd EXCEPT ![h] = Stopped(h, ok, "failed",
                            [@ EXCEPT !.pump = "failing", !.ending = o])]
                /\ pool' = IF ok THEN pool \ {h} ELSE pool
                /\ grants' = IF ok THEN grants \ {hd[h].slot} ELSE grants
                /\ budget' = IF ok THEN budget ELSE [budget EXCEPT !.stops = @ + 1]
  <2>1. PICK ok \in BOOLEAN :
                /\ hd' = [hd EXCEPT ![h] = Stopped(h, ok, "failed",
                            [@ EXCEPT !.pump = "failing", !.ending = o])]
                /\ pool' = IF ok THEN pool \ {h} ELSE pool
                /\ grants' = IF ok THEN grants \ {hd[h].slot} ELSE grants
                /\ budget' = IF ok THEN budget ELSE [budget EXCEPT !.stops = @ + 1]
    BY <1>2
  <2> DEFINE rec == [hd[h] EXCEPT !.pump = "failing", !.ending = o]
  <2>2. /\ rec \in ContainerHandle /\ rec.slot = hd[h].slot /\ rec.ready = hd[h].ready
        /\ rec.starter = hd[h].starter /\ rec.queue = hd[h].queue
        /\ rec.current = hd[h].current /\ rec.pump = "failing"
    BY <1>0, HandleIs DEF ContainerHandle
  <2>3. hd' = [hd EXCEPT ![h] = Stopped(h, ok, "failed", rec)]
    BY <2>1
  <2> HIDE DEF rec
  <2>4. Becomes(h, "DISMISSED", rec.ready, rec.starter, rec.queue, rec.current, rec.pump)
    BY <2>2, <2>3, StopShape
  <2>5. [budget EXCEPT !.stops = @ + 1] \in Budgets /\ [budget EXCEPT !.stops = @ + 1].stops > 0
    BY <1>0, StopsFailed
  <2>6. Dismisses(h)
    BY <1>0, <2>1, <2>5 DEF Dismisses
  <2> QED  BY <1>2, <2>2, <2>4, <2>6
<1> QED  BY <1>1, <1>2 DEF Fail

LEMMA SweepShape ==
  ASSUME ContainerTypeOK, SweepDismiss
  PROVE  /\ sweeping \in Handles /\ Dismisses(sweeping)
         /\ Becomes(sweeping, "DISMISSED", hd[sweeping].ready, hd[sweeping].starter,
                    hd[sweeping].queue, hd[sweeping].current, hd[sweeping].pump)
<1> DEFINE h == sweeping
<1>0. h \in Handles /\ budget \in Budgets
  BY DEF SweepDismiss, ContainerTypeOK, Budgets
<1>1. PICK ok \in BOOLEAN :
        /\ hd' = [hd EXCEPT ![h] = Stopped(h, ok, "sweep", @)]
        /\ pool' = IF ok THEN pool \ {h} ELSE pool
        /\ grants' = IF ok THEN grants \ {hd[h].slot} ELSE grants
        /\ budget' = IF ok THEN budget ELSE [budget EXCEPT !.stops = @ + 1]
  BY DEF SweepDismiss
<1>2. hd' = [hd EXCEPT ![h] = Stopped(h, ok, "sweep", hd[h])]
  BY <1>1
<1>3. Becomes(h, "DISMISSED", hd[h].ready, hd[h].starter, hd[h].queue, hd[h].current, hd[h].pump)
  BY <1>0, <1>2, HandleIs, StopShape
<1>4. [budget EXCEPT !.stops = @ + 1] \in Budgets /\ [budget EXCEPT !.stops = @ + 1].stops > 0
  BY <1>0, StopsFailed
<1>5. Dismisses(h)
  BY <1>0, <1>1, <1>4 DEF Dismisses
<1> QED  BY <1>0, <1>3, <1>5
\* A step that may end or restart many jobs leaves them on their handles.
Keeps ==
  /\ job' \in [Jobs -> JobState]
  /\ \A k \in Jobs : job'[k].on = job[k].on /\ job'[k].late = job[k].late

LEMMA CancelShape ==
  ASSUME ContainerTypeOK, NEW j \in Jobs, NEW h \in Handles, CancelInFlight(j, h)
  PROVE  /\ Dismisses(h) /\ h \in pool /\ hd[h].current = j /\ job[j].at # "new"
         /\ asked' = asked \cup {j} /\ UNCHANGED <<router, pumpOf, sweeping>>
         /\ Becomes(h, "DISMISSED", hd[h].ready, hd[h].starter, <<>>, hd[h].current, hd[h].pump)
         /\ Keeps
         /\ \A k \in Jobs :
              /\ k # j /\ k \notin InQueue(hd[h].queue) => job'[k] = job[k]
              /\ k = j \/ k \in InQueue(hd[h].queue) =>
                   job'[k].at = IF job[k].at = "queued" /\ job[k].on = h THEN "ended"
                                ELSE job[k].at
<1>0. budget \in Budgets
  BY DEF ContainerTypeOK, Budgets
<1>1. PICK ok \in BOOLEAN :
       /\ hd' = [hd EXCEPT ![h] = Stopped(h, ok, "cancel", [@ EXCEPT !.queue = <<>>])]
       /\ pool' = IF ok THEN pool \ {h} ELSE pool
       /\ budget' = [budget EXCEPT !.cancels = @ + 1, !.stops = IF ok THEN @ ELSE @ + 1]
  BY DEF CancelInFlight
<1>2. Becomes(h, "DISMISSED", hd[h].ready, hd[h].starter, <<>>, hd[h].current, hd[h].pump)
  <2> DEFINE rec == [hd[h] EXCEPT !.queue = <<>>]
  <2>1. /\ rec \in ContainerHandle /\ rec.slot = hd[h].slot /\ rec.ready = hd[h].ready
        /\ rec.starter = hd[h].starter /\ rec.queue = <<>>
        /\ rec.current = hd[h].current /\ rec.pump = hd[h].pump
    BY HandleIs, EmptyQueue DEF ContainerHandle
  <2>2. hd' = [hd EXCEPT ![h] = Stopped(h, ok, "cancel", rec)]
    BY <1>1
  <2> HIDE DEF rec
  <2>3. Becomes(h, "DISMISSED", rec.ready, rec.starter, rec.queue, rec.current, rec.pump)
    BY <2>1, <2>2, StopShape
  <2> QED  BY <2>1, <2>3
<1>3. Dismisses(h)
  <2>1. PICK n \in Nat : n = IF ok THEN 0 ELSE 1
    OBVIOUS
  <2>2. budget' = [budget EXCEPT !.cancels = budget.cancels + 1, !.stops = budget.stops + n]
    <3>1. (IF ok THEN budget.stops ELSE budget.stops + 1) = budget.stops + n
      BY <1>0, <2>1 DEF Budgets
    <3> QED  BY <1>1, <3>1
  <2>3. budget' \in Budgets /\ budget'.stops = budget.stops + n /\ budget.stops \in Nat
    BY <1>0, <2>2, BudgetSpent DEF Budgets
  <2>4. grants' = grants \ {hd[h].slot}
    BY DEF CancelInFlight
  <2> QED  BY <1>1, <2>1, <2>3, <2>4 DEF Dismisses
<1> DEFINE Q == InQueue(hd[h].queue)
           at(k) == IF job[k].at = "queued" /\ job[k].on = h THEN "ended" ELSE job[k].at
           n(k) == IF k = j THEN 0 ELSE job[k].attempts
<1>4. \A k \in Jobs : at(k) \in Stages /\ n(k) \in 0 .. MaxRetries
  BY JobIs, ContainerAssumption DEF Stages
<1>5. \A k \in Jobs : job'[k] = IF k = j \/ k \in Q
                                THEN [job[k] EXCEPT !.at = at(k), !.attempts = n(k)] ELSE job[k]
  BY JobIs DEF CancelInFlight, JobState
<1> HIDE DEF at, n
<1>6. \A k \in Jobs : /\ job'[k] \in JobState /\ job'[k].on = job[k].on /\ job'[k].late = job[k].late
                      /\ k = j \/ k \in Q => job'[k].at = at(k)
  <2> SUFFICES ASSUME NEW k \in Jobs
               PROVE  /\ job'[k] \in JobState /\ job'[k].on = job[k].on /\ job'[k].late = job[k].late
                      /\ k = j \/ k \in Q => job'[k].at = at(k)
    OBVIOUS
  <2>1. job[k] \in JobState
    BY JobIs
  <2>2. CASE k = j \/ k \in Q
    BY <1>4, <1>5, <2>1, <2>2 DEF JobState
  <2>3. CASE ~(k = j \/ k \in Q)
    BY <1>5, <2>1, <2>3
  <2> QED  BY <2>2, <2>3
<1>7. job' = [k \in Jobs |-> job'[k]]
  BY DEF CancelInFlight
<1>8. Keeps
  BY <1>6, <1>7 DEF Keeps
<1> QED  BY <1>2, <1>3, <1>5, <1>6, <1>8 DEF CancelInFlight, MayCancel, at

LEMMA CancelQueuedShape ==
  ASSUME ContainerTypeOK, NEW j \in Jobs, NEW h \in Handles, CancelQueued(j, h)
  PROVE  /\ Becomes(h, hd[h].status, hd[h].ready, hd[h].starter, Without(hd[h].queue, j),
                    hd[h].current, hd[h].pump)
         /\ Moves(j, "ended", job[j].on)
         /\ budget' \in Budgets /\ budget'.stops = budget.stops
<1>1. Without(hd[h].queue, j) \in Seq(Jobs)
  BY HandleIs, RebuiltWithout
<1>2. Moves(j, "ended", job[j].on)
  BY StageChanged DEF CancelQueued, Stages
<1>3. budget \in Budgets /\ budget.cancels + 1 \in Nat
  BY DEF ContainerTypeOK, Budgets
<1> QED  BY <1>1, <1>2, <1>3, QueueSet DEF CancelQueued, Budgets

LEMMA ColdShape ==
  ASSUME ContainerTypeOK, NEW j \in Jobs, Cold(j)
  PROVE  LET h == job[j].on
         IN  /\ h \in Handles
             /\ \E st \in ContainerStatus :
                  /\ st \in Retired <=> hd[h].status \in Retired
                  /\ Becomes(h, st, hd[h].ready, hd[h].starter, hd[h].queue, hd[h].current,
                             hd[h].pump)
<1> DEFINE h == job[j].on
<1>0. h \in Handles
  BY JobIs DEF Cold
<1>1. PICK st \in ContainerStatus : st = IF hd[h].status \in Retired THEN hd[h].status ELSE "BUSY"
  BY <1>0, HandleIs DEF ContainerStatus
<1>2. hd' = [hd EXCEPT ![h].status = st]
  BY <1>1 DEF Cold
<1>3. st \in Retired <=> hd[h].status \in Retired
  BY <1>1 DEF Retired
<1> QED  BY <1>0, <1>2, <1>3, StatusSet

\* A pump that gives up tries its jobs again or ends them.
LEMMA FinishShape ==
  ASSUME ContainerTypeOK, NEW h \in Handles, PumpFinish(h)
  PROVE  /\ Keeps
         /\ \A k \in Jobs :
              LET lost == k = hd[h].current \/ k \in InQueue(hd[h].queue)
              IN  /\ lost /\ MayRetry(k) => job'[k].at = "placing" /\ reports'[k] = reports[k]
                  /\ lost /\ ~MayRetry(k) =>
                       /\ job'[k].at = "ended"
                       /\ reports'[k] = Append(reports[k],
                            IF k = hd[h].current THEN hd[h].ending ELSE "crashed")
                  /\ ~lost => job'[k] = job[k] /\ reports'[k] = reports[k]
<1> DEFINE Lost(k) == k = hd[h].current \/ k \in InQueue(hd[h].queue)
<1>1. \A k \in Jobs :
        /\ Lost(k) /\ MayRetry(k) =>
             job'[k] = [job[k] EXCEPT !.at = "placing", !.attempts = job[k].attempts + 1]
        /\ Lost(k) /\ ~MayRetry(k) => job'[k] = [job[k] EXCEPT !.at = "ended", !.attempts = 0]
        /\ ~Lost(k) => job'[k] = job[k]
  <2> SUFFICES ASSUME NEW k \in Jobs
               PROVE  /\ Lost(k) /\ MayRetry(k) =>
                           job'[k] = [job[k] EXCEPT !.at = "placing", !.attempts = job[k].attempts + 1]
                      /\ Lost(k) /\ ~MayRetry(k) =>
                           job'[k] = [job[k] EXCEPT !.at = "ended", !.attempts = 0]
                      /\ ~Lost(k) => job'[k] = job[k]
    OBVIOUS
  <2> DEFINE L == {hd[h].current} \cup InQueue(hd[h].queue)
  <2>1. job'[k] = CASE k \in L /\ MayRetry(k) ->
                         [job[k] EXCEPT !.at = "placing", !.attempts = @ + 1]
                    [] k \in L /\ ~MayRetry(k) -> [job[k] EXCEPT !.at = "ended", !.attempts = 0]
                    [] OTHER -> job[k]
    BY DEF PumpFinish
  <2>2. Lost(k) <=> k \in L
    OBVIOUS
  <2> HIDE DEF L, Lost
  <2> QED  BY <2>1, <2>2
<1>2. \A k \in Jobs :
        reports'[k] = IF Lost(k) /\ ~MayRetry(k)
                      THEN Append(reports[k], IF k = hd[h].current THEN hd[h].ending ELSE "crashed")
                      ELSE reports[k]
  BY DEF PumpFinish
<1> HIDE DEF Lost
<1>3. \A k \in Jobs :
        /\ job'[k] \in JobState /\ job'[k].on = job[k].on /\ job'[k].late = job[k].late
        /\ Lost(k) /\ MayRetry(k) => job'[k].at = "placing"
        /\ Lost(k) /\ ~MayRetry(k) => job'[k].at = "ended"
  <2> SUFFICES ASSUME NEW k \in Jobs
               PROVE  /\ job'[k] \in JobState /\ job'[k].on = job[k].on
                      /\ job'[k].late = job[k].late
                      /\ Lost(k) /\ MayRetry(k) => job'[k].at = "placing"
                      /\ Lost(k) /\ ~MayRetry(k) => job'[k].at = "ended"
    OBVIOUS
  <2>1. job[k] \in JobState /\ job[k].attempts \in 0 .. MaxRetries /\ MaxRetries \in Nat
    BY JobIs, ContainerAssumption
  <2>2. CASE Lost(k) /\ MayRetry(k)
    <3>1. job[k].attempts + 1 \in 0 .. MaxRetries
      BY <2>1, <2>2 DEF MayRetry
    <3> QED  BY <1>1, <2>1, <2>2, <3>1 DEF JobState, Stages
  <2>3. CASE Lost(k) /\ ~MayRetry(k)
    <3>1. 0 \in 0 .. MaxRetries
      BY <2>1
    <3> QED  BY <1>1, <2>1, <2>3, <3>1 DEF JobState, Stages
  <2>4. CASE ~Lost(k)
    BY <1>1, <2>1, <2>4
  <2> QED  BY <2>2, <2>3, <2>4
<1>4. job' = [k \in Jobs |-> job'[k]]
  BY DEF PumpFinish
<1>5. Keeps
  BY <1>3, <1>4 DEF Keeps
<1> QED  BY <1>1, <1>2, <1>3, <1>5 DEF Lost
-----------------------------------------------------------------------------
(* Placement *)

\* What _dismiss_stale leaves when the containers F cannot be stopped.
Stale == {h \in pool : ~Live(h)}
Rest(F) == pool \ (Stale \ F)
Swept(F) == [h \in Handles |-> IF h \in Stale THEN Stopped(h, h \notin F, "stale", hd[h])
                               ELSE hd[h]]
Free(F) == Slots \ (grants \ {hd[h].slot : h \in Stale \ F})

\* A handle that placement looks at, and one that it summons.
Alike(h) ==
  /\ hd'[h].slot = hd[h].slot /\ hd'[h].ready = hd[h].ready /\ hd'[h].starter = hd[h].starter
  /\ hd'[h].queue = hd[h].queue /\ hd'[h].current = hd[h].current /\ hd'[h].pump = hd[h].pump
  /\ hd'[h].status \in Retired <=> hd[h].status \in Retired

Fresh(h) ==
  /\ hd[h].starter = "none" /\ hd'[h].starter = "spawning" /\ hd'[h].ready = FALSE
  /\ hd'[h].queue = <<>> /\ hd'[h].current = Nobody /\ hd'[h].pump = "none"

LEMMA SweptIs ==
  ASSUME ContainerTypeOK, NEW F \in SUBSET Stale, NEW h \in Handles
  PROVE  /\ Swept(F) \in [Handles -> ContainerHandle]
         /\ Swept(F)[h].slot = hd[h].slot /\ Swept(F)[h].ready = hd[h].ready
         /\ Swept(F)[h].starter = hd[h].starter /\ Swept(F)[h].queue = hd[h].queue
         /\ Swept(F)[h].current = hd[h].current /\ Swept(F)[h].pump = hd[h].pump
         /\ Swept(F)[h].status \in Retired <=> hd[h].status \in Retired
<1>1. \A k \in Handles :
        LET s == Stopped(k, k \notin F, "stale", hd[k])
        IN  /\ s \in ContainerHandle
            /\ s.status = "DISMISSED" /\ s.slot = hd[k].slot /\ s.ready = hd[k].ready
            /\ s.starter = hd[k].starter /\ s.queue = hd[k].queue /\ s.current = hd[k].current
            /\ s.pump = hd[k].pump
  <2> TAKE k \in Handles
  <2>1. PICK ok \in BOOLEAN : ok = (k \notin F)
    OBVIOUS
  <2>2. hd[k] \in ContainerHandle /\ "stale" \in {"no", "stale", "failed", "cancel", "sweep"}
    BY HandleIs
  <2>3. LET s == Stopped(k, ok, "stale", hd[k])
        IN  /\ s \in ContainerHandle
            /\ s.status = "DISMISSED" /\ s.slot = hd[k].slot /\ s.ready = hd[k].ready
            /\ s.starter = hd[k].starter /\ s.queue = hd[k].queue /\ s.current = hd[k].current
            /\ s.pump = hd[k].pump
    BY <2>2, StoppedIs
  <2> QED  BY <2>1, <2>3
<1>2. \A k \in Handles : Swept(F)[k] = IF k \in Stale THEN Stopped(k, k \notin F, "stale", hd[k])
                                       ELSE hd[k]
  BY DEF Swept
<1>3. \A k \in Handles : Swept(F)[k] \in ContainerHandle
  BY <1>1, <1>2, HandleIs
<1>4. Swept(F) \in [Handles -> ContainerHandle]
  BY <1>3 DEF Swept
<1>5. h \in Stale => hd[h].status \in Retired
  BY DEF Stale, Live
<1>6. "DISMISSED" \in Retired
  BY DEF Retired
<1>7. CASE h \in Stale
  BY <1>1, <1>2, <1>4, <1>5, <1>6, <1>7
<1>8. CASE h \notin Stale
  BY <1>2, <1>4, <1>8
<1> QED  BY <1>7, <1>8

\* The slots granted after the sweep belong to handles that stayed.
LEMMA SweptSlots ==
  ASSUME ContainerTypeOK, NoSlotLeaks, NEW F \in SUBSET Stale, NEW s \in Slots \ Free(F)
  PROVE  \E h \in Rest(F) : hd[h].slot = s
<1>1. s \in grants /\ \A h \in Stale \ F : hd[h].slot # s
  BY DEF Free
<1>2. PICK h \in pool : hd[h].slot = s
  BY <1>1 DEF NoSlotLeaks
<1> QED  BY <1>1, <1>2 DEF Rest

LEMMA PlaceShape ==
  ASSUME ContainerTypeOK, PoolStarted, NoSlotLeaks, NEW j \in Jobs, Place(j)
  PROVE  /\ hd' \in [Handles -> ContainerHandle]
         /\ pool' \subseteq Handles /\ grants' \subseteq Slots
         /\ budget' \in Budgets /\ (budget'.stops = 0 => budget.stops = 0)
         /\ \E N \in SUBSET Handles :
              /\ \A h \in N : Fresh(h)
              /\ \A h \in Handles \ N : Alike(h)
              /\ pool' \subseteq pool \cup N
         /\ \/ \E h \in Handles : Moves(j, "placed", h) /\ reports' = reports
            \/ Moves(j, "ended", job[j].on) /\ Report({j}, "refused")
         /\ PoolStarted' /\ NoSlotLeaks'
<1>1. PICK F \in SUBSET Stale :
        /\ budget' = [budget EXCEPT !.stops = @ + Cardinality(F)]
        /\ \/ /\ \E h \in Rest(F) :
                   job' = [job EXCEPT ![j] = [@ EXCEPT !.at = "placed", !.on = h]]
              /\ hd' = Swept(F) /\ pool' = Rest(F) /\ grants' = Slots \ Free(F)
              /\ reports' = reports
           \/ /\ Free(F) # {} /\ reports' = reports
              /\ \E h \in Handles :
                   /\ hd[h].starter = "none"
                   /\ job' = [job EXCEPT ![j] = [@ EXCEPT !.at = "placed", !.on = h]]
                   /\ hd' = [Swept(F) EXCEPT ![h] =
                               [NoHandle EXCEPT !.slot = Min(Free(F)), !.starter = "spawning"]]
                   /\ pool' = Rest(F) \cup {h}
                   /\ grants' = (Slots \ Free(F)) \cup {Min(Free(F))}
           \/ /\ job' = [job EXCEPT ![j] = [@ EXCEPT !.at = "ended", !.attempts = 0]]
              /\ hd' = Swept(F) /\ pool' = Rest(F) /\ grants' = Slots \ Free(F)
              /\ Report({j}, "refused")
  <2>1. PICK F \in SUBSET Stale :
       LET rest  == Rest(F)
           live  == {h \in rest : Live(h)}
           avail == {h \in live : hd[h].status \notin {"BUSY", "STARTING"}}
           swept == Swept(F)
           free  == Free(F)
           least == {h \in live : \A k \in live : hd[h].count <= hd[k].count}
       IN  /\ MayFail(F)
           /\ budget' = [budget EXCEPT !.stops = @ + Cardinality(F)]
           /\ \/ \E h \in avail :
                   /\ job' = [job EXCEPT ![j] = [@ EXCEPT !.at = "placed", !.on = h]]
                   /\ hd' = swept /\ pool' = rest /\ grants' = Slots \ free
                   /\ UNCHANGED reports
              \/ /\ avail = {} /\ free # {}
                 /\ \E h \in Handles :
                      /\ hd[h].starter = "none"
                      /\ job' = [job EXCEPT ![j] = [@ EXCEPT !.at = "placed", !.on = h]]
                      /\ hd' = [swept EXCEPT ![h] = [NoHandle EXCEPT !.slot = Min(free),
                                                                     !.starter = "spawning"]]
                      /\ pool' = rest \cup {h}
                      /\ grants' = (Slots \ free) \cup {Min(free)}
                 /\ UNCHANGED reports
              \/ /\ avail = {} /\ free = {}
                 /\ \E h \in least :
                      job' = [job EXCEPT ![j] = [@ EXCEPT !.at = "placed", !.on = h]]
                 /\ hd' = swept /\ pool' = rest /\ grants' = Slots
                 /\ UNCHANGED reports
              \/ /\ avail = {} /\ free = {} /\ least = {}
                 /\ job' = [job EXCEPT ![j] = [@ EXCEPT !.at = "ended", !.attempts = 0]]
                 /\ hd' = swept /\ pool' = rest /\ grants' = Slots
                 /\ Report({j}, "refused")
    BY Zenon DEF Place, Rest, Swept, Free, Stale
  <2>2. Free(F) = {} => Slots = Slots \ Free(F)
    OBVIOUS
  <2> QED  BY <2>1, <2>2
<1>2. budget' \in Budgets /\ (budget'.stops = 0 => budget.stops = 0)
  <2>1. IsFiniteSet(F)
    BY ContainerAssumption, FS_Subset DEF Stale, ContainerTypeOK
  <2>2. Cardinality(F) \in Nat /\ budget \in Budgets /\ budget.stops \in Nat
    BY <2>1, FS_CardinalityType DEF ContainerTypeOK, Budgets
  <2>3. PICK n \in Nat : n = Cardinality(F)
    BY <2>2
  <2>4. budget' = [budget EXCEPT !.stops = budget.stops + n]
    BY <1>1, <2>2, <2>3 DEF Budgets
  <2>5. budget' \in Budgets /\ budget'.stops = budget.stops + n
    BY <2>2, <2>4, StopsFailed
  <2> QED  BY <2>2, <2>5
<1>3. Rest(F) \subseteq pool /\ pool \subseteq Handles /\ Free(F) \subseteq Slots
  BY DEF Rest, Free, ContainerTypeOK
<1>4. ASSUME hd' = Swept(F), pool' = Rest(F), grants' = Slots \ Free(F)
      PROVE  /\ hd' \in [Handles -> ContainerHandle] /\ pool' \subseteq Handles
             /\ grants' \subseteq Slots
             /\ \A h \in Handles : Alike(h)
             /\ pool' \subseteq pool
             /\ PoolStarted' /\ NoSlotLeaks'
  <2>1. \A h \in Handles : hd' \in [Handles -> ContainerHandle] /\ Alike(h)
    BY <1>4, SweptIs DEF Alike
  <2>2. hd' \in [Handles -> ContainerHandle]
    BY <1>4, SweptIs DEF Swept
  <2>3. PoolStarted'
    BY <1>3, <1>4, <2>1 DEF PoolStarted, Alike
  <2>4. NoSlotLeaks'
    BY <1>3, <1>4, <2>1, SweptSlots DEF NoSlotLeaks, Alike
  <2> QED  BY <1>3, <1>4, <2>1, <2>2, <2>3, <2>4
<1>5. CASE /\ \E h \in Rest(F) :
                   job' = [job EXCEPT ![j] = [@ EXCEPT !.at = "placed", !.on = h]]
           /\ hd' = Swept(F) /\ pool' = Rest(F) /\ grants' = Slots \ Free(F)
           /\ reports' = reports
  <2>1. PICK h \in Rest(F) : job' = [job EXCEPT ![j] = [@ EXCEPT !.at = "placed", !.on = h]]
    BY <1>5
  <2>2. h \in Handles /\ Moves(j, "placed", h)
    BY <1>3, <2>1, JobPlaced
  <2>3. /\ {} \in SUBSET Handles /\ (\A x \in {} : Fresh(x))
        /\ (\A x \in Handles \ {} : Alike(x)) /\ pool' \subseteq pool \cup {}
    BY <1>4, <1>5
  <2> QED  BY <1>2, <1>4, <1>5, <2>2, <2>3
<1>6. CASE /\ job' = [job EXCEPT ![j] = [@ EXCEPT !.at = "ended", !.attempts = 0]]
           /\ hd' = Swept(F) /\ pool' = Rest(F) /\ grants' = Slots \ Free(F)
           /\ Report({j}, "refused")
  <2>1. Moves(j, "ended", job[j].on)
    BY <1>6, JobEnded
  <2>2. /\ {} \in SUBSET Handles /\ (\A h \in {} : Fresh(h))
        /\ (\A h \in Handles \ {} : Alike(h)) /\ pool' \subseteq pool \cup {}
    BY <1>4, <1>6
  <2> QED  BY <1>2, <1>4, <1>6, <2>1, <2>2
<1>7. ASSUME Free(F) # {}, reports' = reports, NEW n \in Handles, hd[n].starter = "none",
             job' = [job EXCEPT ![j] = [@ EXCEPT !.at = "placed", !.on = n]],
             hd' = [Swept(F) EXCEPT ![n] =
                       [NoHandle EXCEPT !.slot = Min(Free(F)), !.starter = "spawning"]],
             pool' = Rest(F) \cup {n},
             grants' = (Slots \ Free(F)) \cup {Min(Free(F))}
      PROVE  /\ hd' \in [Handles -> ContainerHandle]
             /\ pool' \subseteq Handles /\ grants' \subseteq Slots
             /\ Fresh(n) /\ \A h \in Handles \ {n} : Alike(h)
             /\ pool' \subseteq pool \cup {n}
             /\ Moves(j, "placed", n)
             /\ PoolStarted' /\ NoSlotLeaks'
  <2> DEFINE slot == Min(Free(F))
             new == [NoHandle EXCEPT !.slot = slot, !.starter = "spawning"]
  <2>1. slot \in Free(F) /\ slot \in Slots
    BY <1>3, <1>7, LeastFree
  <2> HIDE DEF slot
  <2>2. /\ new \in ContainerHandle /\ new.slot = slot /\ new.starter = "spawning"
        /\ new.ready = FALSE /\ new.queue = <<>> /\ new.current = Nobody /\ new.pump = "none"
    BY <2>1, EmptyQueue DEF NoHandle, ContainerHandle, ContainerStatus, Pumps
  <2> HIDE DEF new
  <2>3. hd' = [Swept(F) EXCEPT ![n] = new] /\ Swept(F) \in [Handles -> ContainerHandle]
    BY <1>7, SweptIs DEF new, slot
  <2>4. /\ hd' \in [Handles -> ContainerHandle] /\ hd'[n] = new
        /\ \A h \in Handles : h # n => hd'[h] = Swept(F)[h]
    BY <2>2, <2>3
  <2>5. Fresh(n)
    BY <1>7, <2>2, <2>4 DEF Fresh
  <2>6. \A h \in Handles \ {n} : Alike(h)
    BY <2>4, SweptIs DEF Alike
  <2>7. n \notin pool
    BY <1>7 DEF PoolStarted
  <2>8. PoolStarted'
    BY <1>3, <1>7, <2>2, <2>4, <2>6 DEF PoolStarted, Alike
  <2>9. NoSlotLeaks'
    <3> SUFFICES ASSUME NEW s \in grants'  PROVE \E h \in pool' : hd'[h].slot = s
      BY DEF NoSlotLeaks
    <3>1. CASE s = slot
      BY <1>7, <2>2, <2>4, <3>1
    <3>2. CASE s \in Slots \ Free(F)
      BY <1>3, <1>7, <2>6, <2>7, <3>2, SweptSlots DEF Alike
    <3> QED  BY <1>7, <3>1, <3>2 DEF slot
  <2> QED  BY <1>3, <1>7, <2>1, <2>4, <2>5, <2>6, <2>8, <2>9, JobPlaced DEF slot
<1>8. ASSUME Free(F) # {}, reports' = reports,
             \E h \in Handles :
                /\ hd[h].starter = "none"
                /\ job' = [job EXCEPT ![j] = [@ EXCEPT !.at = "placed", !.on = h]]
                /\ hd' = [Swept(F) EXCEPT ![h] =
                            [NoHandle EXCEPT !.slot = Min(Free(F)), !.starter = "spawning"]]
                /\ pool' = Rest(F) \cup {h}
                /\ grants' = (Slots \ Free(F)) \cup {Min(Free(F))}
      PROVE  \E n \in Handles :
             /\ hd' \in [Handles -> ContainerHandle]
             /\ pool' \subseteq Handles /\ grants' \subseteq Slots
             /\ Fresh(n) /\ \A h \in Handles \ {n} : Alike(h)
             /\ pool' \subseteq pool \cup {n}
             /\ Moves(j, "placed", n)
             /\ PoolStarted' /\ NoSlotLeaks'
  BY <1>7, <1>8
<1>9. CASE /\ Free(F) # {} /\ reports' = reports
           /\ \E h \in Handles :
                /\ hd[h].starter = "none"
                /\ job' = [job EXCEPT ![j] = [@ EXCEPT !.at = "placed", !.on = h]]
                /\ hd' = [Swept(F) EXCEPT ![h] =
                            [NoHandle EXCEPT !.slot = Min(Free(F)), !.starter = "spawning"]]
                /\ pool' = Rest(F) \cup {h}
                /\ grants' = (Slots \ Free(F)) \cup {Min(Free(F))}
  <2>1. PICK n \in Handles :
             /\ hd' \in [Handles -> ContainerHandle]
             /\ pool' \subseteq Handles /\ grants' \subseteq Slots
             /\ Fresh(n) /\ \A h \in Handles \ {n} : Alike(h)
             /\ pool' \subseteq pool \cup {n}
             /\ Moves(j, "placed", n)
             /\ PoolStarted' /\ NoSlotLeaks'
    BY <1>8, <1>9
  <2>2. {n} \in SUBSET Handles /\ \A h \in {n} : Fresh(h)
    BY <2>1
  <2> QED  BY <1>2, <1>9, <2>1, <2>2
<1> QED  BY <1>1, <1>5, <1>6, <1>9

-----------------------------------------------------------------------------
(* Types *)

JobsOK ==
  /\ job \in [Jobs -> JobState]
  /\ \A j \in Jobs : job[j].at \in {"placed", "cold", "enqueue", "queued"} =>
                      job[j].on \in Handles

HandlesOK ==
  /\ hd \in [Handles -> ContainerHandle]
  /\ \A h \in Handles : hd[h].pump \in {"sent", "failing"} => hd[h].current \in Jobs

ReportsOK == reports \in [Jobs -> Seq(Outcomes)]

OthersOK ==
  /\ asked \subseteq Jobs /\ router \in Jobs \cup {Nobody}
  /\ pool \subseteq Handles /\ grants \subseteq Slots
  /\ pumpOf \in [Slots -> Handles \cup {Nobody}]
  /\ sweeping \in Handles \cup {Nobody}
  /\ budget \in Budgets

LEMMA TypeParts == ContainerTypeOK <=> JobsOK /\ HandlesOK /\ ReportsOK /\ OthersOK
  BY DEF ContainerTypeOK, JobsOK, HandlesOK, ReportsOK, OthersOK, Budgets

LEMMA MovesOK ==
  ASSUME ContainerTypeOK, NEW j \in Jobs, NEW at, NEW on, Moves(j, at, on),
         at \in {"placed", "cold", "enqueue", "queued"} => on \in Handles
  PROVE  JobsOK'
  BY DEF ContainerTypeOK, JobsOK, Moves

LEMMA KeepsOK ==
  ASSUME ContainerTypeOK, Keeps,
         \A k \in Jobs : job'[k].at \in {job[k].at, "placing", "ended"}
  PROVE  JobsOK'
<1>1. job' \in [Jobs -> JobState] /\ \A k \in Jobs : job'[k].on = job[k].on
  BY DEF Keeps
<1>2. \A k \in Jobs : job'[k].at \in {"placed", "cold", "enqueue", "queued"} =>
                       job[k].at = job'[k].at
  OBVIOUS
<1> QED  BY <1>1, <1>2 DEF ContainerTypeOK, JobsOK

LEMMA BecomesOK ==
  ASSUME ContainerTypeOK, NEW h \in Handles, NEW st, NEW rd, NEW sr, NEW q, NEW c, NEW p,
         Becomes(h, st, rd, sr, q, c, p), p \in {"sent", "failing"} => c \in Jobs
  PROVE  HandlesOK'
<1>1. hd' \in [Handles -> ContainerHandle] /\ hd'[h].current = c /\ hd'[h].pump = p
  BY DEF Becomes
<1> SUFFICES ASSUME NEW k \in Handles, hd'[k].pump \in {"sent", "failing"}
             PROVE  hd'[k].current \in Jobs
  BY <1>1 DEF HandlesOK
<1>2. CASE k = h
  BY <1>1, <1>2
<1>3. CASE k # h
  BY <1>3 DEF Becomes, ContainerTypeOK
<1> QED  BY <1>2, <1>3

\* on_complete is called for the jobs J.
LEMMA Reported ==
  ASSUME ContainerTypeOK, NEW J \in SUBSET Jobs, NEW o \in Outcomes, Report(J, o)
  PROVE  /\ ReportsOK'
         /\ \A j \in J : /\ reports'[j] = Append(reports[j], o)
                         /\ InQueue(reports'[j]) = InQueue(reports[j]) \cup {o}
         /\ \A j \in Jobs \ J : reports'[j] = reports[j]
<1>1. \A j \in Jobs : /\ reports[j] \in Seq(Outcomes) /\ Append(reports[j], o) \in Seq(Outcomes)
                      /\ InQueue(Append(reports[j], o)) = InQueue(reports[j]) \cup {o}
  BY Appended DEF ContainerTypeOK
<1>2. \A j \in Jobs : reports'[j] = IF j \in J THEN Append(reports[j], o) ELSE reports[j]
  BY DEF Report
<1>3. \A j \in Jobs : reports'[j] \in Seq(Outcomes)
  BY <1>1, <1>2
<1>4. reports' = [j \in Jobs |-> reports'[j]]
  BY DEF Report
<1>5. ReportsOK'
  BY <1>3, <1>4 DEF ReportsOK
<1> QED  BY <1>1, <1>2, <1>5

LEMMA ReportedOne ==
  ASSUME ContainerTypeOK, NEW j \in Jobs, NEW o \in Outcomes, Report({j}, o)
  PROVE  /\ reports'[j] = Append(reports[j], o)
         /\ InQueue(reports'[j]) = InQueue(reports[j]) \cup {o}
         /\ \A k \in Jobs : k # j => reports'[k] = reports[k]
<1>1. {j} \in SUBSET Jobs /\ j \in {j} /\ \A k \in Jobs : k # j => k \in Jobs \ {j}
  OBVIOUS
<1> QED  BY <1>1, Reported

\* The reports of a pump that gives up, and of a cancel that dismisses a handle.
LEMMA FinishReported ==
  ASSUME ContainerTypeOK, NEW h \in Handles, PumpFinish(h)
  PROVE  /\ ReportsOK'
         /\ \A k \in Jobs : "cancelled" \in InQueue(reports'[k]) =>
                              "cancelled" \in InQueue(reports[k])
<1>1. ASSUME NEW k \in Jobs
      PROVE  /\ reports'[k] \in Seq(Outcomes)
             /\ "cancelled" \in InQueue(reports'[k]) => "cancelled" \in InQueue(reports[k])
  <2>0. PICK o \in {"crashed", "timeout"} :
          o = IF k = hd[h].current THEN hd[h].ending ELSE "crashed"
    BY HandleIs
  <2>1. reports'[k] \in {reports[k], Append(reports[k], o)}
    BY <2>0, FinishShape
  <2>2. reports[k] \in Seq(Outcomes) /\ o \in Outcomes /\ o # "cancelled"
    BY DEF ContainerTypeOK, Outcomes
  <2>3. /\ Append(reports[k], o) \in Seq(Outcomes)
        /\ InQueue(Append(reports[k], o)) = InQueue(reports[k]) \cup {o}
    BY <2>2, Appended
  <2> QED  BY <2>1, <2>2, <2>3
<1>2. reports' = [k \in Jobs |-> reports'[k]]
  BY DEF PumpFinish
<1> QED  BY <1>1, <1>2 DEF ReportsOK

LEMMA CancelReported ==
  ASSUME ContainerTypeOK, NEW j \in Jobs, NEW h \in Handles, CancelInFlight(j, h)
  PROVE  /\ ReportsOK'
         /\ \A k \in Jobs :
              /\ k # j /\ k \notin InQueue(hd[h].queue) => reports'[k] = reports[k]
              /\ k # j /\ k \in InQueue(hd[h].queue) =>
                   reports'[k] = Append(reports[k], "crashed")
              /\ k = j => \/ reports'[k] = Append(reports[k], "cancelled")
                          \/ reports'[k] = Append(Append(reports[k], "cancelled"), "crashed")
              /\ k # j /\ "cancelled" \in InQueue(reports'[k]) =>
                   "cancelled" \in InQueue(reports[k])
<1>1. ASSUME NEW k \in Jobs
      PROVE  /\ reports'[k] \in Seq(Outcomes)
             /\ k # j /\ k \notin InQueue(hd[h].queue) => reports'[k] = reports[k]
             /\ k # j /\ k \in InQueue(hd[h].queue) =>
                  reports'[k] = Append(reports[k], "crashed")
             /\ k = j => \/ reports'[k] = Append(reports[k], "cancelled")
                         \/ reports'[k] = Append(Append(reports[k], "cancelled"), "crashed")
             /\ k # j /\ "cancelled" \in InQueue(reports'[k]) =>
                  "cancelled" \in InQueue(reports[k])
  <2> DEFINE s == IF k = j THEN Append(reports[k], "cancelled") ELSE reports[k]
  <2>0. "cancelled" \in Outcomes /\ "crashed" \in Outcomes
    BY DEF Outcomes
  <2>1. reports[k] \in Seq(Outcomes)
    BY DEF ContainerTypeOK
  <2>2. s \in Seq(Outcomes)
    BY <2>0, <2>1, Appended
  <2>3. reports'[k] = IF k \in InQueue(hd[h].queue) THEN Append(s, "crashed") ELSE s
    BY DEF CancelInFlight
  <2>4. (k = j => s = Append(reports[k], "cancelled")) /\ (k # j => s = reports[k])
    OBVIOUS
  <2> HIDE DEF s
  <2>5. Append(s, "crashed") \in Seq(Outcomes)
        /\ InQueue(Append(s, "crashed")) = InQueue(s) \cup {"crashed"}
    BY <2>0, <2>2, Appended
  <2>6. CASE k \in InQueue(hd[h].queue)
    BY <2>3, <2>4, <2>5, <2>6
  <2>7. CASE k \notin InQueue(hd[h].queue)
    BY <2>2, <2>3, <2>4, <2>7
  <2> QED  BY <2>6, <2>7
<1>2. reports' = [k \in Jobs |-> reports'[k]]
  BY DEF CancelInFlight
<1> QED  BY <1>1, <1>2 DEF ReportsOK

\* Steps that leave the jobs and their reports alone.
HandleStep(h) ==
  \/ SpawnStep(h) \/ PumpTake(h) \/ PumpExit(h) \/ PumpDone(h) \/ PumpCrash(h)
  \/ PumpIdle(h) \/ PumpTimeout(h) \/ ContainerDies(h) \/ SweepPick(h)

LEMMA NextCases ==
  ASSUME ContainerNext
  PROVE  \/ \E j \in Jobs : \/ Submit(j) \/ Refuse(j) \/ Forward(j) \/ Place(j) \/ Warm(j)
                            \/ Cold(j) \/ ColdReady(j) \/ ColdFails(j) \/ Enqueue(j)
         \/ \E h \in Handles : HandleStep(h) \/ PumpReceive(h) \/ PumpFinish(h)
         \/ \E j \in Jobs, h \in Handles : CancelInFlight(j, h) \/ CancelQueued(j, h)
         \/ SweepDismiss
  BY Zenon DEF ContainerNext, InvokeStep, PumpStep, HandleStep

LEMMA HandleStepFrame ==
  ASSUME NEW h \in Handles, HandleStep(h)
  PROVE  UNCHANGED <<job, reports, asked, router, pumpOf>>
  BY DEF HandleStep, SpawnStep, SpawnOk, SpawnFails, PollReady, PollTimeout, PumpTake, PumpExit,
         PumpDone, PumpCrash, PumpIdle, PumpTimeout, ContainerDies, SweepPick

LEMMA JobsStep ==
  ASSUME ContainerTypeOK, PoolStarted, NoSlotLeaks, ContainerNext
  PROVE  JobsOK'
<1>1. ASSUME NEW j \in Jobs, Submit(j)  PROVE JobsOK'
  BY <1>1, StageChanged, MovesOK DEF Submit, Stages
<1>2. ASSUME NEW j \in Jobs, Refuse(j)  PROVE JobsOK'
  BY <1>2, JobEnded, MovesOK DEF Refuse
<1>3. ASSUME NEW j \in Jobs, Forward(j)  PROVE JobsOK'
  BY <1>3, StageChanged, MovesOK DEF Forward, Stages
<1>4. ASSUME NEW j \in Jobs, Place(j)  PROVE JobsOK'
  BY <1>4, PlaceShape, MovesOK
<1>5. ASSUME NEW j \in Jobs, Warm(j)  PROVE JobsOK'
  BY <1>5, JobIs, StageChanged, MovesOK DEF Warm, Stages
<1>6. ASSUME NEW j \in Jobs, Cold(j)  PROVE JobsOK'
  BY <1>6, JobIs, StageChanged, MovesOK DEF Cold, Stages
<1>7. ASSUME NEW j \in Jobs, ColdReady(j)  PROVE JobsOK'
  BY <1>7, JobIs, StageChanged, MovesOK DEF ColdReady, Stages
<1>8. ASSUME NEW j \in Jobs, ColdFails(j)  PROVE JobsOK'
  BY <1>8, StageChanged, MovesOK DEF ColdFails, Stages
<1>9. ASSUME NEW j \in Jobs, Enqueue(j)  PROVE JobsOK'
  BY <1>9, JobIs, JobQueued, MovesOK DEF Enqueue
<1>10. ASSUME NEW h \in Handles, PumpReceive(h)  PROVE JobsOK'
  <2>1. hd[h].current \in Jobs
    BY <1>10 DEF PumpReceive, ContainerTypeOK
  <2> QED  BY <1>10, <2>1, JobEnded, MovesOK DEF PumpReceive
<1>11. ASSUME NEW h \in Handles, PumpFinish(h)  PROVE JobsOK'
  <2>1. Keeps /\ \A k \in Jobs : job'[k].at \in {job[k].at, "placing", "ended"}
    BY <1>11, FinishShape
  <2> QED  BY <2>1, KeepsOK
<1>12. ASSUME NEW j \in Jobs, NEW h \in Handles, CancelInFlight(j, h)  PROVE JobsOK'
  <2>1. Keeps /\ \A k \in Jobs : job'[k].at \in {job[k].at, "placing", "ended"}
    BY <1>12, CancelShape
  <2> QED  BY <2>1, KeepsOK
<1>13. ASSUME NEW j \in Jobs, NEW h \in Handles, CancelQueued(j, h)  PROVE JobsOK'
  BY <1>13, CancelQueuedShape, MovesOK
<1>14. ASSUME UNCHANGED job  PROVE JobsOK'
  BY <1>14, TypeParts DEF JobsOK
<1> QED  BY <1>1, <1>2, <1>3, <1>4, <1>5, <1>6, <1>7, <1>8, <1>9, <1>10, <1>11, <1>12, <1>13,
            <1>14, HandleStepFrame, NextCases DEF SweepDismiss

LEMMA ReportsStep ==
  ASSUME ContainerTypeOK, PoolStarted, NoSlotLeaks, ContainerNext
  PROVE  ReportsOK'
<1>0. "refused" \in Outcomes /\ "notready" \in Outcomes /\ "done" \in Outcomes
      /\ "cancelled" \in Outcomes
  BY DEF Outcomes
<1>1. ASSUME UNCHANGED reports  PROVE ReportsOK'
  BY <1>1, TypeParts DEF ReportsOK
<1>2. ASSUME NEW j \in Jobs, Refuse(j)  PROVE ReportsOK'
  BY <1>0, <1>2, Reported DEF Refuse
<1>3. ASSUME NEW j \in Jobs, Place(j)  PROVE ReportsOK'
  <2>1. reports' = reports \/ Report({j}, "refused")
    BY <1>3, PlaceShape
  <2> QED  BY <1>0, <1>1, <2>1, Reported
<1>4. ASSUME NEW j \in Jobs, ColdFails(j)  PROVE ReportsOK'
  BY <1>0, <1>4, Reported DEF ColdFails
<1>5. ASSUME NEW h \in Handles, PumpReceive(h)  PROVE ReportsOK'
  <2>1. hd[h].current \in Jobs
    BY <1>5 DEF PumpReceive, ContainerTypeOK
  <2> QED  BY <1>0, <1>5, <2>1, Reported DEF PumpReceive
<1>6. ASSUME NEW j \in Jobs, NEW h \in Handles, CancelQueued(j, h)  PROVE ReportsOK'
  BY <1>0, <1>6, Reported DEF CancelQueued
<1>7. ASSUME NEW j \in Jobs, Submit(j) \/ Forward(j) \/ Warm(j) \/ Cold(j) \/ ColdReady(j)
                            \/ Enqueue(j)
      PROVE  UNCHANGED reports
  BY <1>7 DEF Submit, Forward, Warm, Cold, ColdReady, Enqueue
<1> QED  BY <1>1, <1>2, <1>3, <1>4, <1>5, <1>6, <1>7, FinishReported, CancelReported,
            HandleStepFrame, NextCases DEF SweepDismiss

\* Steps that keep what a handle holds.
LEMMA HandlesStep ==
  ASSUME ContainerTypeOK, PoolStarted, NoSlotLeaks, ContainerNext
  PROVE  HandlesOK'
<1>0. \A h \in Handles : hd[h].pump \in {"sent", "failing"} => hd[h].current \in Jobs
  BY DEF ContainerTypeOK
<1>1. ASSUME UNCHANGED hd  PROVE HandlesOK'
  BY <1>1, TypeParts DEF HandlesOK
<1>2. ASSUME NEW j \in Jobs, Submit(j) \/ Refuse(j) \/ Forward(j) \/ ColdFails(j)
      PROVE  UNCHANGED hd
  BY <1>2 DEF Submit, Refuse, Forward, ColdFails
<1>3. ASSUME NEW j \in Jobs, Place(j)  PROVE HandlesOK'
  <2>1. hd' \in [Handles -> ContainerHandle] /\ \A h \in Handles : Fresh(h) \/ Alike(h)
    BY <1>3, PlaceShape
  <2>2. \A h \in Handles : Fresh(h) => hd'[h].pump = "none"
    BY DEF Fresh
  <2>3. \A h \in Handles : Alike(h) => hd'[h].pump = hd[h].pump /\ hd'[h].current = hd[h].current
    BY DEF Alike
  <2> QED  BY <1>0, <2>1, <2>2, <2>3 DEF HandlesOK
<1>4. ASSUME NEW j \in Jobs, Warm(j) \/ ColdReady(j)  PROVE HandlesOK'
  <2>1. job[j].on \in Handles /\ EnsurePump(job[j].on)
    BY <1>4, JobIs DEF Warm, ColdReady
  <2> QED  BY <1>0, <2>1, EnsureShape, BecomesOK
<1>5. ASSUME NEW j \in Jobs, Cold(j)  PROVE HandlesOK'
  BY <1>0, <1>5, ColdShape, BecomesOK
<1>6. ASSUME NEW j \in Jobs, Enqueue(j)  PROVE HandlesOK'
  BY <1>0, <1>6, EnqueueShape, BecomesOK
<1>7. ASSUME NEW h \in Handles, SpawnStep(h)  PROVE HandlesOK'
  BY <1>0, <1>7, SpawnShape, BecomesOK
<1>8. ASSUME NEW h \in Handles, PumpTake(h)  PROVE HandlesOK'
  <2>1. Head(hd[h].queue) \in Jobs
    BY <1>8, HandleIs, Taken DEF PumpTake
  <2> QED  BY <1>8, <2>1, TakeShape, BecomesOK
<1>9. ASSUME NEW h \in Handles, PumpExit(h) \/ PumpDone(h) \/ PumpIdle(h) \/ PumpReceive(h)
                               \/ PumpFinish(h) \/ ContainerDies(h)
      PROVE  HandlesOK'
  BY <1>0, <1>9, PumpShape, DiesShape, BecomesOK
<1>10. ASSUME NEW h \in Handles, PumpCrash(h) \/ PumpTimeout(h)  PROVE HandlesOK'
  <2>1. hd[h].pump = "sent" /\ (Fail(h, "crashed") \/ Fail(h, "timeout"))
    BY <1>10 DEF PumpCrash, PumpTimeout
  <2> QED  BY <1>0, <2>1, FailShape, BecomesOK
<1>11. ASSUME NEW j \in Jobs, NEW h \in Handles, CancelInFlight(j, h)  PROVE HandlesOK'
  BY <1>0, <1>11, CancelShape, BecomesOK
<1>12. ASSUME NEW j \in Jobs, NEW h \in Handles, CancelQueued(j, h)  PROVE HandlesOK'
  BY <1>0, <1>12, CancelQueuedShape, BecomesOK
<1>13. ASSUME SweepDismiss  PROVE HandlesOK'
  BY <1>0, <1>13, SweepShape, BecomesOK
<1>14. ASSUME NEW h \in Handles, SweepPick(h)  PROVE UNCHANGED hd
  BY <1>14 DEF SweepPick
<1> QED  BY <1>1, <1>2, <1>3, <1>4, <1>5, <1>6, <1>7, <1>8, <1>9, <1>10, <1>11, <1>12, <1>13,
            <1>14, NextCases DEF HandleStep

\* A sweep or the death of a container is counted.
LEMMA FaultCounted ==
  ASSUME ContainerTypeOK, NEW h \in Handles, ContainerDies(h) \/ SweepPick(h)
  PROVE  budget' \in Budgets /\ budget'.stops = budget.stops
<1>1. budget \in Budgets /\ budget.deaths \in Nat /\ budget.sweeps \in Nat
  BY DEF ContainerTypeOK, Budgets
<1>2. \/ budget' = [budget EXCEPT !.deaths = budget.deaths + 1]
      \/ budget' = [budget EXCEPT !.sweeps = budget.sweeps + 1]
  BY <1>1 DEF ContainerDies, SweepPick, Budgets
<1>3. budget.deaths + 1 \in Nat /\ budget.sweeps + 1 \in Nat
  BY <1>1
<1> QED  BY <1>1, <1>2, <1>3 DEF Budgets

\* Pool, ledger and budget, and what becomes of them: they stay, or one handle is
\* dismissed, or a slot goes with its handle gone, or a job is placed.
LEMMA PoolStep ==
  ASSUME ContainerTypeOK, PoolStarted, NoSlotLeaks, ContainerNext
  PROVE  /\ pool' \subseteq Handles /\ grants' \subseteq Slots /\ budget' \in Budgets
         /\ budget'.stops = 0 => budget.stops = 0
<1>0. pool \subseteq Handles /\ grants \subseteq Slots /\ budget \in Budgets /\ budget.stops \in Nat
  BY DEF ContainerTypeOK, Budgets
<1>1. ASSUME NEW h \in Handles, Dismisses(h)
      PROVE  /\ pool' \subseteq Handles /\ grants' \subseteq Slots /\ budget' \in Budgets
             /\ budget'.stops = 0 => budget.stops = 0
  BY <1>0, <1>1 DEF Dismisses
<1>2. ASSUME NEW j \in Jobs, \/ Submit(j) \/ Refuse(j) \/ Forward(j) \/ Warm(j) \/ Cold(j)
                             \/ ColdReady(j) \/ ColdFails(j) \/ Enqueue(j)
      PROVE  UNCHANGED <<pool, grants, budget>>
  BY <1>2 DEF Submit, Refuse, Forward, Warm, Cold, ColdReady, ColdFails, Enqueue
<1>3. ASSUME NEW h \in Handles, \/ SpawnStep(h) \/ PumpTake(h) \/ PumpExit(h) \/ PumpDone(h)
                                \/ PumpIdle(h) \/ PumpReceive(h)
      PROVE  UNCHANGED <<pool, grants, budget>>
  BY <1>3 DEF SpawnStep, SpawnOk, SpawnFails, PollReady, PollTimeout, PumpTake, PumpExit,
              PumpDone, PumpIdle, PumpReceive
<1>4. ASSUME NEW h \in Handles, PumpFinish(h)
      PROVE  pool' = pool /\ budget' = budget /\ grants' \subseteq grants
  BY <1>4 DEF PumpFinish
<1>5. ASSUME NEW h \in Handles, PumpCrash(h) \/ PumpTimeout(h)
      PROVE  UNCHANGED <<pool, grants, budget>> \/ Dismisses(h)
  <2>1. Fail(h, "crashed") \/ Fail(h, "timeout")
    BY <1>5 DEF PumpCrash, PumpTimeout
  <2> QED  BY <2>1, FailShape
<1>6. ASSUME NEW h \in Handles, ContainerDies(h) \/ SweepPick(h)
      PROVE  pool' = pool /\ grants' = grants /\ budget' \in Budgets
             /\ budget'.stops = budget.stops
  BY <1>6, FaultCounted DEF ContainerDies, SweepPick
<1>7. ASSUME NEW j \in Jobs, NEW h \in Handles, CancelQueued(j, h)
      PROVE  pool' = pool /\ grants' = grants /\ budget' \in Budgets
             /\ budget'.stops = budget.stops
  BY <1>7, CancelQueuedShape DEF CancelQueued
<1>8. ASSUME NEW j \in Jobs, NEW h \in Handles, CancelInFlight(j, h)
      PROVE  Dismisses(h)
  BY <1>8, CancelShape
<1>9. ASSUME SweepDismiss  PROVE sweeping \in Handles /\ Dismisses(sweeping)
  BY <1>9, SweepShape
<1>10. ASSUME NEW j \in Jobs, Place(j)
       PROVE  /\ pool' \subseteq Handles /\ grants' \subseteq Slots /\ budget' \in Budgets
              /\ budget'.stops = 0 => budget.stops = 0
  BY <1>10, PlaceShape
<1> QED  BY <1>0, <1>1, <1>2, <1>3, <1>4, <1>5, <1>6, <1>7, <1>8, <1>9, <1>10, NextCases
         DEF HandleStep

LEMMA OthersStep ==
  ASSUME ContainerTypeOK, PoolStarted, NoSlotLeaks, ContainerNext
  PROVE  OthersOK'
<1>0. /\ asked \subseteq Jobs /\ router \in Jobs \cup {Nobody}
      /\ sweeping \in Handles \cup {Nobody} /\ pumpOf \in [Slots -> Handles \cup {Nobody}]
  BY DEF ContainerTypeOK
<1>1. asked' \subseteq Jobs /\ router' \in Jobs \cup {Nobody}
  <2>1. ASSUME NEW j \in Jobs, Submit(j)  PROVE router' = j /\ asked' = asked
    BY <2>1 DEF Submit
  <2>2. ASSUME NEW j \in Jobs, \/ Refuse(j) \/ Forward(j) \/ Place(j) \/ Warm(j)
                               \/ Cold(j) \/ ColdReady(j) \/ ColdFails(j) \/ Enqueue(j)
        PROVE  router' \in {router, Nobody} /\ asked' = asked
    BY <2>2 DEF Refuse, Forward, Place, Warm, Cold, ColdReady, ColdFails, Enqueue, Leaves
  <2>3. ASSUME NEW h \in Handles, PumpReceive(h) \/ PumpFinish(h)
        PROVE  UNCHANGED <<router, asked>>
    BY <2>3 DEF PumpReceive, PumpFinish
  <2>4. ASSUME NEW j \in Jobs, NEW h \in Handles, CancelInFlight(j, h) \/ CancelQueued(j, h)
        PROVE  router' = router /\ asked' = asked \cup {j}
    BY <2>4 DEF CancelInFlight, CancelQueued
  <2> QED  BY <1>0, <2>1, <2>2, <2>3, <2>4, HandleStepFrame, NextCases DEF SweepDismiss
<1>2. sweeping' \in Handles \cup {Nobody}
  <2>1. ASSUME NEW j \in Jobs, \/ Submit(j) \/ Refuse(j) \/ Forward(j) \/ Place(j) \/ Warm(j)
                               \/ Cold(j) \/ ColdReady(j) \/ ColdFails(j) \/ Enqueue(j)
        PROVE  UNCHANGED sweeping
    BY <2>1 DEF Submit, Refuse, Forward, Place, Warm, Cold, ColdReady, ColdFails, Enqueue
  <2>2. ASSUME NEW h \in Handles, HandleStep(h) \/ PumpReceive(h) \/ PumpFinish(h)
        PROVE  sweeping' \in {sweeping, h}
    BY <2>2 DEF HandleStep, SpawnStep, SpawnOk, SpawnFails, PollReady, PollTimeout, PumpTake,
                PumpExit, PumpDone, PumpCrash, PumpIdle, PumpTimeout, ContainerDies, SweepPick,
                PumpReceive, PumpFinish
  <2>3. ASSUME NEW j \in Jobs, NEW h \in Handles, CancelInFlight(j, h) \/ CancelQueued(j, h)
        PROVE  UNCHANGED sweeping
    BY <2>3 DEF CancelInFlight, CancelQueued
  <2> QED  BY <1>0, <2>1, <2>2, <2>3, NextCases DEF SweepDismiss
<1>3. pumpOf' \in [Slots -> Handles \cup {Nobody}]
  <2>1. ASSUME NEW j \in Jobs, \/ Submit(j) \/ Refuse(j) \/ Forward(j) \/ Place(j)
                               \/ Cold(j) \/ ColdFails(j) \/ Enqueue(j)
        PROVE  UNCHANGED pumpOf
    BY <2>1 DEF Submit, Refuse, Forward, Place, Cold, ColdFails, Enqueue
  <2>2. ASSUME NEW h \in Handles, PumpReceive(h) \/ PumpFinish(h)
        PROVE  UNCHANGED pumpOf
    BY <2>2 DEF PumpReceive, PumpFinish
  <2>3. ASSUME NEW j \in Jobs, NEW h \in Handles, CancelInFlight(j, h) \/ CancelQueued(j, h)
        PROVE  UNCHANGED pumpOf
    BY <2>3 DEF CancelInFlight, CancelQueued
  <2>4. ASSUME NEW j \in Jobs, Warm(j) \/ ColdReady(j)
        PROVE  pumpOf' \in [Slots -> Handles \cup {Nobody}]
    <3>1. job[j].on \in Handles /\ EnsurePump(job[j].on)
      BY <2>4, JobIs DEF Warm, ColdReady
    <3>2. PICK h \in Handles : pumpOf' = pumpOf \/ pumpOf' = [pumpOf EXCEPT ![hd[h].slot] = h]
      BY <3>1, EnsureShape
    <3> QED  BY <1>0, <3>2
  <2> QED  BY <1>0, <2>1, <2>2, <2>3, <2>4, HandleStepFrame, NextCases DEF SweepDismiss
<1> QED  BY <1>1, <1>2, <1>3, PoolStep DEF OthersOK

LEMMA ContainerTypeStep ==
  ASSUME ContainerTypeOK, PoolStarted, NoSlotLeaks, ContainerNext
  PROVE  ContainerTypeOK'
<1>1. JobsOK' /\ HandlesOK' /\ ReportsOK' /\ OthersOK'
  BY JobsStep, HandlesStep, ReportsStep, OthersStep
<1> QED  BY <1>1 DEF ContainerTypeOK, JobsOK, HandlesOK, ReportsOK, OthersOK, Budgets

-----------------------------------------------------------------------------
(* Slots *)

\* A handle keeps its slot, and once summoned it stays so.
LEMMA SlotsStay ==
  ASSUME ContainerTypeOK, NEW h \in Handles, NEW st, NEW rd, NEW sr, NEW q, NEW c, NEW p,
         Becomes(h, st, rd, sr, q, c, p), sr \in {hd[h].starter, "polling", "ended"}
  PROVE  \A k \in Handles : /\ hd'[k].slot = hd[k].slot
                            /\ hd[k].starter # "none" => hd'[k].starter # "none"
<1> TAKE k \in Handles
<1>1. CASE k = h
  BY <1>1 DEF Becomes
<1>2. CASE k # h
  BY <1>2 DEF Becomes
<1> QED  BY <1>1, <1>2

LEMMA SlotsStep ==
  ASSUME ContainerTypeOK, PoolStarted, NoSlotLeaks, ContainerNext
  PROVE  PoolStarted' /\ NoSlotLeaks'
<1> DEFINE Stay == \A k \in Handles : /\ hd'[k].slot = hd[k].slot
                                      /\ hd[k].starter # "none" => hd'[k].starter # "none"
<1>0. pool \subseteq Handles /\ grants \subseteq Slots
  BY DEF ContainerTypeOK
<1>1. ASSUME Stay, pool' = pool, grants' \subseteq grants  PROVE PoolStarted' /\ NoSlotLeaks'
  BY <1>0, <1>1 DEF PoolStarted, NoSlotLeaks
<1>2. ASSUME Stay, NEW h \in Handles, Dismisses(h)  PROVE PoolStarted' /\ NoSlotLeaks'
  <2>1. CASE pool' = pool \ {h} /\ grants' = grants \ {hd[h].slot}
    <3>1. PoolStarted'
      BY <1>0, <1>2, <2>1 DEF PoolStarted
    <3>2. \A s \in grants' : \E k \in pool : hd[k].slot = s /\ k # h
      BY <2>1 DEF NoSlotLeaks
    <3>3. NoSlotLeaks'
      BY <1>0, <1>2, <2>1, <3>2 DEF NoSlotLeaks
    <3> QED  BY <3>1, <3>3
  <2> QED  BY <1>1, <1>2, <2>1 DEF Dismisses
<1>3. ASSUME NEW j \in Jobs, Submit(j) \/ Refuse(j) \/ Forward(j) \/ ColdFails(j)
      PROVE  UNCHANGED <<hd, pool, grants>>
  BY <1>3 DEF Submit, Refuse, Forward, ColdFails
<1>4. ASSUME NEW j \in Jobs, Warm(j) \/ ColdReady(j)  PROVE Stay /\ UNCHANGED <<pool, grants>>
  <2>1. job[j].on \in Handles /\ EnsurePump(job[j].on)
    BY <1>4, JobIs DEF Warm, ColdReady
  <2>2. Stay
    BY <2>1, EnsureShape, SlotsStay
  <2> QED  BY <1>4, <2>2 DEF Warm, ColdReady
<1>5. ASSUME NEW j \in Jobs, Cold(j) \/ Enqueue(j)  PROVE Stay /\ UNCHANGED <<pool, grants>>
  <2>1. Stay
    BY <1>5, ColdShape, EnqueueShape, SlotsStay
  <2> QED  BY <1>5, <2>1 DEF Cold, Enqueue
<1>6. ASSUME NEW h \in Handles, SpawnStep(h)  PROVE Stay /\ UNCHANGED <<pool, grants>>
  BY <1>6, SpawnShape, SlotsStay
<1>7. ASSUME NEW h \in Handles, \/ PumpTake(h) \/ PumpExit(h) \/ PumpDone(h) \/ PumpIdle(h)
                                \/ PumpReceive(h) \/ PumpFinish(h) \/ ContainerDies(h)
      PROVE  Stay /\ pool' = pool /\ grants' \subseteq grants
  <2>1. Stay
    BY <1>7, TakeShape, PumpShape, DiesShape, SlotsStay
  <2>2. pool' = pool /\ grants' \subseteq grants
    BY <1>7 DEF PumpTake, PumpExit, PumpDone, PumpIdle, PumpReceive, PumpFinish, ContainerDies
  <2> QED  BY <2>1, <2>2
<1>8. ASSUME NEW h \in Handles, PumpCrash(h) \/ PumpTimeout(h)
      PROVE  Stay /\ (UNCHANGED <<pool, grants>> \/ Dismisses(h))
  <2>1. Fail(h, "crashed") \/ Fail(h, "timeout")
    BY <1>8 DEF PumpCrash, PumpTimeout
  <2> QED  BY <2>1, FailShape, SlotsStay
<1>9. ASSUME NEW j \in Jobs, NEW h \in Handles, CancelInFlight(j, h)  PROVE Stay /\ Dismisses(h)
  BY <1>9, CancelShape, SlotsStay
<1>10. ASSUME NEW j \in Jobs, NEW h \in Handles, CancelQueued(j, h)
       PROVE  Stay /\ UNCHANGED <<pool, grants>>
  BY <1>10, CancelQueuedShape, SlotsStay DEF CancelQueued
<1>11. ASSUME SweepDismiss  PROVE Stay /\ sweeping \in Handles /\ Dismisses(sweeping)
  BY <1>11, SweepShape, SlotsStay
<1>12. ASSUME NEW h \in Handles, SweepPick(h)  PROVE UNCHANGED <<hd, pool, grants>>
  BY <1>12 DEF SweepPick
<1>13. ASSUME NEW j \in Jobs, Place(j)  PROVE PoolStarted' /\ NoSlotLeaks'
  BY <1>13, PlaceShape
<1>14. UNCHANGED hd => Stay
  OBVIOUS
<1> HIDE DEF Stay
<1> QED  BY <1>1, <1>2, <1>3, <1>4, <1>5, <1>6, <1>7, <1>8, <1>9, <1>10, <1>11, <1>12, <1>13,
            <1>14, NextCases DEF HandleStep

-----------------------------------------------------------------------------
(* Where a job waits *)

QueueAt(h) ==
  /\ NoneTwice(hd[h].queue)
  /\ \A j \in InQueue(hd[h].queue) : job[j].at = "queued" /\ job[j].on = h /\ ~Hand(j, h)

HandAt(h) ==
  \A j \in Jobs : Hand(j, h) => /\ job[j].on = h /\ job[j].at \in {"queued", "ended"}
                                /\ j \notin asked => job[j].at = "queued"

Waits(h) == QueueAt(h) /\ HandAt(h)

LEMMA PlacesAt == QueuesOnce /\ HandsHold <=> \A h \in Handles : Waits(h)
  BY DEF QueuesOnce, HandsHold, Waits, QueueAt, HandAt

\* Nothing changes at a handle when its queue stays, its pump takes nothing up, and the
\* jobs placed on it stay or are cancelled in the pump's hand.
LEMMA Undisturbed ==
  ASSUME ContainerTypeOK, NEW h \in Handles, Waits(h), hd'[h].queue = hd[h].queue,
         hd'[h].current = hd[h].current \/ hd'[h].pump \notin {"sent", "failing"},
         hd'[h].pump \in {"sent", "failing"} => hd[h].pump \in {"sent", "failing"},
         asked \subseteq asked',
         \A j \in Jobs : job[j].on = h /\ job[j].at \in {"queued", "ended"} =>
                           job'[j].at = job[j].at /\ job'[j].on = job[j].on
  PROVE  Waits(h)'
<1>1. \A j \in Jobs : Hand(j, h)' => Hand(j, h)
  BY DEF Hand
<1>2. InQueue(hd[h].queue) \subseteq Jobs
  BY HandleIs
<1>3. QueueAt(h)'
  BY <1>1, <1>2 DEF Waits, QueueAt
<1>4. HandAt(h)'
  BY <1>1 DEF Waits, HandAt
<1> QED  BY <1>3, <1>4 DEF Waits

\* A job that a thread of its own carries is in no queue and no pump's hand.
LEMMA Moving ==
  ASSUME ContainerTypeOK, \A h \in Handles : Waits(h), NEW j \in Jobs, NEW h \in Handles,
         job[j].at \notin {"queued", "ended"} \/ job[j].on # h
  PROVE  j \notin InQueue(hd[h].queue) /\ ~Hand(j, h)
  BY DEF Waits, QueueAt, HandAt

\* Steps of such a thread: the handles keep what they hold.
LEMMA JobMoves ==
  ASSUME ContainerTypeOK, \A h \in Handles : Waits(h), NEW j \in Jobs, NEW at, NEW on,
         job[j].at \notin {"queued", "ended"}, Moves(j, at, on), asked' = asked,
         NEW k \in Handles, hd'[k].queue = hd[k].queue, hd'[k].current = hd[k].current,
         hd'[k].pump = hd[k].pump \/ hd'[k].pump \notin {"sent", "failing"}
  PROVE  Waits(k)'
<1>1. \A i \in Jobs : job[i].on = k /\ job[i].at \in {"queued", "ended"} =>
                        job'[i].at = job[i].at /\ job'[i].on = job[i].on
  BY DEF Moves
<1> QED  BY <1>1, Undisturbed

LEMMA WaitsFree ==
  ASSUME NEW h \in Handles, hd'[h].queue = <<>>, hd'[h].pump \notin {"sent", "failing"}
  PROVE  Waits(h)'
  BY EmptyQueue DEF Waits, QueueAt, HandAt, Hand

\* Where Becomes leaves a handle.
LEMMA Elsewhere ==
  ASSUME NEW h \in Handles, NEW st, NEW rd, NEW sr, NEW q, NEW c, NEW p,
         Becomes(h, st, rd, sr, q, c, p), NEW k \in Handles, k # h
  PROVE  hd'[k] = hd[k]
  BY DEF Becomes

LEMMA WaitsInvoke ==
  ASSUME ContainerTypeOK, PoolStarted, NoSlotLeaks, \A h \in Handles : Waits(h), NEW j \in Jobs,
         \/ Submit(j) \/ Refuse(j) \/ Forward(j) \/ Place(j) \/ Warm(j) \/ Cold(j)
         \/ ColdReady(j) \/ ColdFails(j),
         NEW k \in Handles
  PROVE  Waits(k)'
<1>1. job[j].at \notin {"queued", "ended"}
  BY DEF Submit, Refuse, Forward, Place, Warm, Cold, ColdReady, ColdFails
<1>2. asked' = asked
  BY DEF Submit, Refuse, Forward, Place, Warm, Cold, ColdReady, ColdFails
<1>3. CASE Submit(j) \/ Forward(j) \/ ColdFails(j)
  <2>1. PICK at \in Stages : job' = [job EXCEPT ![j].at = at]
    BY <1>3 DEF Submit, Forward, ColdFails, Stages
  <2>2. hd' = hd
    BY <1>3 DEF Submit, Forward, ColdFails
  <2> QED  BY <1>1, <1>2, <2>1, <2>2, StageChanged, JobMoves
<1>4. CASE Refuse(j)
  <2>1. hd' = hd /\ Moves(j, "ended", job[j].on)
    BY <1>4, JobEnded DEF Refuse
  <2> QED  BY <1>1, <1>2, <2>1, JobMoves
<1>5. CASE Place(j)
  <2>1. PICK at, on : Moves(j, at, on)
    BY <1>5, PlaceShape
  <2>2. Fresh(k) \/ Alike(k)
    BY <1>5, PlaceShape
  <2>3. CASE Fresh(k)
    BY <2>3, WaitsFree DEF Fresh
  <2>4. CASE Alike(k)
    <3>1. hd'[k].queue = hd[k].queue /\ hd'[k].current = hd[k].current /\ hd'[k].pump = hd[k].pump
      BY <2>4 DEF Alike
    <3> QED  BY <1>1, <1>2, <2>1, <3>1, JobMoves
  <2> QED  BY <2>2, <2>3, <2>4
<1>6. CASE Warm(j) \/ ColdReady(j) \/ Cold(j)
  <2>1. PICK at \in Stages : job' = [job EXCEPT ![j].at = at]
    BY <1>6 DEF Warm, ColdReady, Cold, Stages
  <2>2. job[j].on \in Handles /\ (EnsurePump(job[j].on) \/ Cold(j))
    BY <1>6, JobIs DEF Warm, ColdReady, Cold
  <2>3. \/ hd'[k] = hd[k]
        \/ /\ hd'[k].queue = hd[k].queue /\ hd'[k].current = hd[k].current
           /\ hd'[k].pump = hd[k].pump \/ hd'[k].pump = "waiting"
    BY <2>2, EnsureShape, ColdShape DEF Becomes
  <2> QED  BY <1>1, <1>2, <2>1, <2>3, StageChanged, JobMoves
<1> QED  BY <1>3, <1>4, <1>5, <1>6

LEMMA WaitsEnqueue ==
  ASSUME ContainerTypeOK, \A h \in Handles : Waits(h), NEW j \in Jobs, Enqueue(j),
         NEW k \in Handles
  PROVE  Waits(k)'
<1>0. PICK h \in Handles : h = job[j].on
  BY EnqueueShape
<1>1. /\ h \in Handles
      /\ Becomes(h, "BUSY", hd[h].ready, hd[h].starter, Append(hd[h].queue, j),
                 hd[h].current, hd[h].pump)
  BY <1>0, EnqueueShape
<1>2. Moves(j, "queued", h) /\ job[j].at = "enqueue" /\ asked' = asked
  BY <1>0, JobQueued DEF Enqueue
<1>3. CASE k # h
  <2>1. hd'[k] = hd[k]
    BY <1>1, <1>3 DEF Becomes
  <2> QED  BY <1>2, <2>1, JobMoves
<1>4. CASE k = h
  <2>1. hd'[h].queue = Append(hd[h].queue, j) /\ hd'[h].current = hd[h].current
        /\ hd'[h].pump = hd[h].pump
    BY <1>1 DEF Becomes
  <2>2. j \notin InQueue(hd[h].queue) /\ ~Hand(j, h)
    BY <1>1, <1>2, Moving
  <2>3. \A i \in Jobs : Hand(i, h)' <=> Hand(i, h)
    BY <2>1 DEF Hand
  <2>4. /\ InQueue(hd'[h].queue) = InQueue(hd[h].queue) \cup {j}
        /\ NoneTwice(hd'[h].queue) /\ InQueue(hd[h].queue) \subseteq Jobs
    BY <1>1, <2>1, <2>2, Appended, HandleIs DEF Waits, QueueAt
  <2>5. job'[j].at = "queued" /\ job'[j].on = h /\ \A i \in Jobs : i # j => job'[i] = job[i]
    BY <1>2 DEF Moves
  <2>6. QueueAt(h)'
    <3> SUFFICES ASSUME NEW i \in InQueue(hd'[h].queue)
                 PROVE  job'[i].at = "queued" /\ job'[i].on = h /\ ~Hand(i, h)'
      BY <2>4 DEF QueueAt
    <3>1. CASE i = j
      BY <2>2, <2>3, <2>5, <3>1
    <3>2. CASE i # j
      BY <1>1, <2>3, <2>4, <2>5, <3>2 DEF Waits, QueueAt
    <3> QED  BY <3>1, <3>2
  <2>7. HandAt(h)'
    BY <1>1, <1>2, <2>2, <2>3, <2>5 DEF Waits, HandAt
  <2> QED  BY <1>4, <2>6, <2>7 DEF Waits
<1> QED  BY <1>3, <1>4

LEMMA WaitsTake ==
  ASSUME ContainerTypeOK, \A h \in Handles : Waits(h), NEW h \in Handles, PumpTake(h),
         NEW k \in Handles
  PROVE  Waits(k)'
<1>1. UNCHANGED <<job, asked>> /\ hd[h].queue # <<>>
  BY DEF PumpTake
<1>2. Becomes(h, hd[h].status, hd[h].ready, hd[h].starter, Tail(hd[h].queue),
              Head(hd[h].queue), "sent")
  BY TakeShape
<1>3. CASE k # h
  <2>1. hd'[k] = hd[k]
    BY <1>2, <1>3 DEF Becomes
  <2> QED  BY <1>1, <2>1, Undisturbed
<1>4. CASE k = h
  <2> DEFINE q == hd[h].queue
  <2>1. hd'[h].queue = Tail(q) /\ hd'[h].current = Head(q) /\ hd'[h].pump = "sent"
    BY <1>2 DEF Becomes
  <2>2. /\ Head(q) \in Jobs /\ Head(q) \in InQueue(q) /\ InQueue(Tail(q)) \subseteq InQueue(q)
        /\ NoneTwice(Tail(q)) /\ Head(q) \notin InQueue(Tail(q))
    BY <1>1, HandleIs, Taken DEF Waits, QueueAt
  <2>3. \A i : Hand(i, h)' <=> i = Head(q)
    BY <2>1 DEF Hand
  <2>4. \A i \in InQueue(q) : job[i].at = "queued" /\ job[i].on = h
    BY DEF Waits, QueueAt
  <2> HIDE DEF q
  <2>5. QueueAt(h)'
    BY <1>1, <2>1, <2>2, <2>3, <2>4 DEF QueueAt
  <2>6. HandAt(h)'
    BY <1>1, <2>2, <2>3, <2>4 DEF HandAt
  <2> QED  BY <1>4, <2>5, <2>6 DEF Waits
<1> QED  BY <1>3, <1>4

\* Steps on a handle that neither queue nor take a job.
LEMMA WaitsHandle ==
  ASSUME ContainerTypeOK, \A h \in Handles : Waits(h), NEW h \in Handles, HandleStep(h),
         ~PumpTake(h), NEW k \in Handles
  PROVE  Waits(k)'
<1>1. UNCHANGED <<job, asked>>
  BY HandleStepFrame
<1>2. \/ hd'[k] = hd[k]
      \/ /\ hd'[k].queue = hd[k].queue /\ hd'[k].current = hd[k].current
         /\ hd'[k].pump \in {"sent", "failing"} => hd[k].pump \in {"sent", "failing"}
  <2>1. CASE SpawnStep(h)
    BY <2>1, SpawnShape DEF Becomes
  <2>2. CASE PumpExit(h) \/ PumpDone(h) \/ PumpIdle(h)
    BY <2>2, PumpShape DEF Becomes
  <2>3. CASE PumpCrash(h) \/ PumpTimeout(h)
    <3>1. hd[h].pump = "sent" /\ (Fail(h, "crashed") \/ Fail(h, "timeout"))
      BY <2>3 DEF PumpCrash, PumpTimeout
    <3> QED  BY <3>1, FailShape DEF Becomes
  <2>4. CASE ContainerDies(h)
    BY <2>4, DiesShape DEF Becomes
  <2>5. CASE SweepPick(h)
    BY <2>5 DEF SweepPick
  <2> QED  BY <2>1, <2>2, <2>3, <2>4, <2>5 DEF HandleStep
<1> QED  BY <1>1, <1>2, Undisturbed

LEMMA WaitsSweep ==
  ASSUME ContainerTypeOK, \A h \in Handles : Waits(h), SweepDismiss, NEW k \in Handles
  PROVE  Waits(k)'
<1>1. UNCHANGED <<job, asked>>
  BY DEF SweepDismiss
<1>2. \/ hd'[k] = hd[k]
      \/ /\ hd'[k].queue = hd[k].queue /\ hd'[k].current = hd[k].current
         /\ hd'[k].pump = hd[k].pump
  BY SweepShape DEF Becomes
<1> QED  BY <1>1, <1>2, Undisturbed

\* The pump's job is over: nobody else has it.
LEMMA WaitsReceive ==
  ASSUME ContainerTypeOK, \A h \in Handles : Waits(h), NEW h \in Handles, PumpReceive(h),
         NEW k \in Handles
  PROVE  Waits(k)'
<1>1. PICK j \in Jobs : j = hd[h].current
  BY DEF PumpReceive, ContainerTypeOK
<1>2. Hand(j, h) /\ asked' = asked
  BY <1>1 DEF Hand, PumpReceive
<1>3. Moves(j, "ended", job[j].on)
  BY <1>1, JobEnded DEF PumpReceive
<1>4. Becomes(h, hd[h].status, hd[h].ready, hd[h].starter, hd[h].queue, Nobody, "reported")
  BY PumpShape
<1>5. job[j].on = h /\ \A i \in Jobs : i # j => job'[i] = job[i]
  BY <1>2, <1>3 DEF Moves, Waits, HandAt
<1>6. CASE k # h
  <2>1. hd'[k] = hd[k]
    BY <1>4, <1>6 DEF Becomes
  <2>2. \A i \in Jobs : job[i].on = k /\ job[i].at \in {"queued", "ended"} =>
                          job'[i].at = job[i].at /\ job'[i].on = job[i].on
    BY <1>5, <1>6
  <2> QED  BY <1>2, <2>1, <2>2, Undisturbed
<1>7. CASE k = h
  <2>1. hd'[h].queue = hd[h].queue /\ hd'[h].pump = "reported"
    BY <1>4 DEF Becomes
  <2>2. \A i : ~Hand(i, h)'
    BY <2>1 DEF Hand
  <2>3. j \notin InQueue(hd[h].queue) /\ InQueue(hd[h].queue) \subseteq Jobs
    BY <1>2, HandleIs DEF Waits, QueueAt
  <2>4. QueueAt(h)'
    BY <1>5, <2>1, <2>2, <2>3 DEF Waits, QueueAt
  <2>5. HandAt(h)'
    BY <2>2 DEF HandAt
  <2> QED  BY <1>7, <2>4, <2>5 DEF Waits
<1> QED  BY <1>6, <1>7

\* The jobs a failed pump gives up were its own.
LEMMA LostJobs ==
  ASSUME ContainerTypeOK, \A h \in Handles : Waits(h), NEW h \in Handles, PumpFinish(h),
         NEW j \in Jobs, j = hd[h].current \/ j \in InQueue(hd[h].queue)
  PROVE  /\ job[j].on = h /\ job[j].at \in {"queued", "ended"}
         /\ j \notin asked => job[j].at = "queued"
<1>1. CASE j = hd[h].current
  BY <1>1 DEF PumpFinish, Hand, Waits, HandAt
<1>2. CASE j \in InQueue(hd[h].queue)
  BY <1>2 DEF Waits, QueueAt
<1> QED  BY <1>1, <1>2

LEMMA WaitsFinish ==
  ASSUME ContainerTypeOK, \A h \in Handles : Waits(h), NEW h \in Handles, PumpFinish(h),
         NEW k \in Handles
  PROVE  Waits(k)'
<1>1. Becomes(h, hd[h].status, hd[h].ready, hd[h].starter, <<>>, hd[h].current, "ended")
  BY PumpShape
<1>2. CASE k = h
  BY <1>1, <1>2, WaitsFree DEF Becomes
<1>3. CASE k # h
  <2>1. hd'[k] = hd[k] /\ asked' = asked
    BY <1>1, <1>3 DEF Becomes, PumpFinish
  <2>2. \A i \in Jobs : job[i].on = k => job'[i] = job[i]
    BY <1>3, LostJobs, FinishShape
  <2> QED  BY <2>1, <2>2, Undisturbed
<1> QED  BY <1>2, <1>3

LEMMA WaitsCancelled ==
  ASSUME ContainerTypeOK, \A h \in Handles : Waits(h), NEW j \in Jobs, NEW h \in Handles,
         CancelInFlight(j, h), NEW k \in Handles
  PROVE  Waits(k)'
<1>0. asked' = asked \cup {j} /\ Keeps
  BY CancelShape
<1>1. Becomes(h, "DISMISSED", hd[h].ready, hd[h].starter, <<>>, hd[h].current, hd[h].pump)
  BY CancelShape
<1>2. \A i \in Jobs :
        /\ i # j /\ i \notin InQueue(hd[h].queue) => job'[i] = job[i]
        /\ i = j \/ i \in InQueue(hd[h].queue) =>
             job'[i].at = IF job[i].at = "queued" /\ job[i].on = h THEN "ended" ELSE job[i].at
  BY CancelShape
<1>3. CASE k # h
  <2>1. hd'[k] = hd[k]
    BY <1>1, <1>3 DEF Becomes
  <2>2. \A i \in Jobs : job[i].on = k => job'[i].at = job[i].at /\ job'[i].on = job[i].on
    <3> SUFFICES ASSUME NEW i \in Jobs, job[i].on = k
                 PROVE  job'[i].at = job[i].at /\ job'[i].on = job[i].on
      OBVIOUS
    <3>1. job'[i].at = job[i].at
      BY <1>2, <1>3
    <3> QED  BY <1>0, <3>1 DEF Keeps
  <2> QED  BY <1>0, <2>1, <2>2, Undisturbed
<1>4. CASE k = h
  <2>1. hd'[h].queue = <<>> /\ hd'[h].current = j /\ hd'[h].pump = hd[h].pump
        /\ hd[h].current = j
    BY <1>1, CancelShape DEF Becomes
  <2>2. QueueAt(h)'
    BY <2>1, EmptyQueue DEF QueueAt
  <2>3. HandAt(h)'
    <3> SUFFICES ASSUME NEW i \in Jobs, Hand(i, h)'
                 PROVE  /\ job'[i].on = h /\ job'[i].at \in {"queued", "ended"}
                        /\ i \in asked'
      BY DEF HandAt
    <3>1. i = j /\ Hand(j, h)
      BY <2>1 DEF Hand
    <3>2. job[j].on = h /\ job[j].at \in {"queued", "ended"}
      BY <3>1 DEF Waits, HandAt
    <3>3. job'[j].at \in {"queued", "ended"}
      BY <1>2, <3>2
    <3> QED  BY <1>0, <3>1, <3>2, <3>3 DEF Keeps
  <2> QED  BY <1>4, <2>2, <2>3 DEF Waits
<1> QED  BY <1>3, <1>4

LEMMA WaitsDequeued ==
  ASSUME ContainerTypeOK, \A h \in Handles : Waits(h), NEW j \in Jobs, NEW h \in Handles,
         CancelQueued(j, h), NEW k \in Handles
  PROVE  Waits(k)'
<1>0. asked' = asked \cup {j} /\ j \in InQueue(hd[h].queue)
  BY DEF CancelQueued
<1>1. Becomes(h, hd[h].status, hd[h].ready, hd[h].starter, Without(hd[h].queue, j),
              hd[h].current, hd[h].pump)
  BY CancelQueuedShape
<1>2. job[j].on = h /\ ~Hand(j, h)
  BY <1>0 DEF Waits, QueueAt
<1>3. \A i \in Jobs : i # j => job'[i] = job[i]
  BY CancelQueuedShape DEF Moves
<1>4. CASE k # h
  <2>1. hd'[k] = hd[k]
    BY <1>1, <1>4 DEF Becomes
  <2>2. \A i \in Jobs : job[i].on = k => job'[i] = job[i]
    BY <1>2, <1>3, <1>4
  <2> QED  BY <1>0, <2>1, <2>2, Undisturbed
<1>5. CASE k = h
  <2> DEFINE q == Without(hd[h].queue, j)
  <2>1. hd'[h].queue = q /\ hd'[h].current = hd[h].current /\ hd'[h].pump = hd[h].pump
    BY <1>1 DEF Becomes
  <2>2. /\ InQueue(q) \subseteq InQueue(hd[h].queue) /\ InQueue(hd[h].queue) \subseteq Jobs
        /\ NoneTwice(q) /\ j \notin InQueue(q)
    BY HandleIs, RebuiltWithout DEF Waits, QueueAt
  <2> HIDE DEF q
  <2>3. \A i : Hand(i, h)' <=> Hand(i, h)
    BY <2>1 DEF Hand
  <2>4. QueueAt(h)'
    BY <1>3, <2>1, <2>2, <2>3 DEF Waits, QueueAt
  <2>5. HandAt(h)'
    BY <1>0, <1>2, <1>3, <2>3 DEF Waits, HandAt
  <2> QED  BY <1>5, <2>4, <2>5 DEF Waits
<1> QED  BY <1>4, <1>5

LEMMA WaitsStep ==
  ASSUME ContainerTypeOK, PoolStarted, NoSlotLeaks, QueuesOnce, HandsHold, ContainerNext
  PROVE  QueuesOnce' /\ HandsHold'
<1>0. \A h \in Handles : Waits(h)
  BY PlacesAt
<1> SUFFICES ASSUME NEW k \in Handles  PROVE Waits(k)'
  BY DEF QueuesOnce, HandsHold, Waits, QueueAt, HandAt
<1> QED  BY <1>0, WaitsInvoke, WaitsEnqueue, WaitsTake, WaitsHandle, WaitsSweep, WaitsReceive,
            WaitsFinish, WaitsCancelled, WaitsDequeued, NextCases

-----------------------------------------------------------------------------
(* What is reported of a job *)

\* A report comes with the end of its job or after a cancel, and only a job that was to
\* be cancelled goes on after its end.
LEMMA ReportsKept ==
  ASSUME ReportsFollow, asked \subseteq asked',
         \A j \in Jobs : job'[j].at = "new" =>
           job[j].at = "new" /\ reports'[j] = reports[j] /\ (j \in asked' => j \in asked),
         \A j \in Jobs : reports'[j] = reports[j] \/ job'[j].at = "ended" \/ j \in asked',
         \A j \in Jobs : job[j].at = "ended" => job'[j].at = "ended" \/ j \in asked
  PROVE  ReportsFollow'
  BY DEF ReportsFollow

\* One job moves, or ends with a report.
LEMMA ReportsMoved ==
  ASSUME ContainerTypeOK, ReportsFollow, NEW j \in Jobs, NEW at, NEW on, Moves(j, at, on),
         at # "new", job[j].at = "ended" => at = "ended", asked' = asked,
         \/ reports' = reports
         \/ at = "ended" /\ \E o \in Outcomes : Report({j}, o)
  PROVE  ReportsFollow'
<1>1. job'[j].at = at /\ \A k \in Jobs : k # j => job'[k] = job[k]
  BY DEF Moves
<1>2. \A k \in Jobs : k # j => reports'[k] = reports[k]
  BY ReportedOne
<1>3. reports'[j] = reports[j] \/ at = "ended"
  OBVIOUS
<1> QED  BY <1>1, <1>2, <1>3, ReportsKept

LEMMA ReportsStepFollow ==
  ASSUME ContainerTypeOK, PoolStarted, NoSlotLeaks, Places, ContainerNext
  PROVE  ReportsFollow'
<1>0. \A h \in Handles : Waits(h)
  BY PlacesAt DEF Places
<1>00. ReportsFollow
  BY DEF Places
<1>01. /\ "refused" \in Outcomes /\ "notready" \in Outcomes /\ "done" \in Outcomes
       /\ "cancelled" \in Outcomes
  BY DEF Outcomes
<1>1. ASSUME NEW j \in Jobs, \/ Submit(j) \/ Forward(j) \/ Warm(j) \/ Cold(j) \/ ColdReady(j)
      PROVE  ReportsFollow'
  <2>1. /\ \E at \in Stages \ {"new"} : job' = [job EXCEPT ![j].at = at]
        /\ job[j].at # "ended" /\ reports' = reports /\ asked' = asked
    BY <1>1 DEF Submit, Forward, Warm, Cold, ColdReady, Stages
  <2> QED  BY <1>00, <2>1, StageChanged, ReportsMoved
<1>2. ASSUME NEW j \in Jobs, Enqueue(j)  PROVE ReportsFollow'
  <2>1. Moves(j, "queued", job[j].on) /\ job[j].at = "enqueue" /\ reports' = reports
        /\ asked' = asked
    BY <1>2, JobQueued DEF Enqueue
  <2> QED  BY <1>00, <2>1, ReportsMoved
<1>3. ASSUME NEW j \in Jobs, Refuse(j)  PROVE ReportsFollow'
  <2>1. Moves(j, "ended", job[j].on) /\ Report({j}, "refused") /\ asked' = asked
    BY <1>3, JobEnded DEF Refuse
  <2> QED  BY <1>00, <1>01, <2>1, ReportsMoved
<1>4. ASSUME NEW j \in Jobs, ColdFails(j)  PROVE ReportsFollow'
  <2>1. Moves(j, "ended", job[j].on) /\ Report({j}, "notready") /\ asked' = asked
    BY <1>4, StageChanged DEF ColdFails, Stages
  <2> QED  BY <1>00, <1>01, <2>1, ReportsMoved
<1>5. ASSUME NEW j \in Jobs, Place(j)  PROVE ReportsFollow'
  <2>1. job[j].at # "ended" /\ asked' = asked
    BY <1>5 DEF Place
  <2>2. \/ \E h \in Handles : Moves(j, "placed", h) /\ reports' = reports
        \/ Moves(j, "ended", job[j].on) /\ Report({j}, "refused")
    BY <1>5, PlaceShape
  <2> QED  BY <1>00, <1>01, <2>1, <2>2, ReportsMoved
<1>6. ASSUME NEW h \in Handles, PumpReceive(h)  PROVE ReportsFollow'
  <2>1. PICK j \in Jobs : j = hd[h].current
    BY <1>6 DEF PumpReceive, ContainerTypeOK
  <2>2. Moves(j, "ended", job[j].on) /\ Report({j}, "done") /\ asked' = asked
    BY <1>6, <2>1, JobEnded DEF PumpReceive
  <2> QED  BY <1>00, <1>01, <2>2, ReportsMoved
<1>7. ASSUME NEW h \in Handles, PumpFinish(h)  PROVE ReportsFollow'
  <2>1. ASSUME NEW k \in Jobs
        PROVE  /\ job'[k].at = "new" => job[k].at = "new" /\ reports'[k] = reports[k]
               /\ reports'[k] = reports[k] \/ job'[k].at = "ended"
               /\ job[k].at = "ended" => job'[k].at = "ended" \/ k \in asked
    <3>1. CASE k = hd[h].current \/ k \in InQueue(hd[h].queue)
      <4>1. k \notin asked => job[k].at = "queued"
        BY <1>0, <1>7, <3>1, LostJobs
      <4>2. \/ job'[k].at = "placing" /\ reports'[k] = reports[k]
            \/ job'[k].at = "ended"
        BY <1>7, <3>1, FinishShape
      <4> QED  BY <4>1, <4>2
    <3>2. CASE ~(k = hd[h].current \/ k \in InQueue(hd[h].queue))
      BY <1>7, <3>2, FinishShape
    <3> QED  BY <3>1, <3>2
  <2>2. asked' = asked
    BY <1>7 DEF PumpFinish
  <2> QED  BY <1>00, <2>1, <2>2, ReportsKept
<1>8. ASSUME NEW j \in Jobs, NEW h \in Handles, CancelInFlight(j, h)  PROVE ReportsFollow'
  <2>1. asked' = asked \cup {j} /\ job[j].at # "new"
    BY <1>8, CancelShape
  <2>2. \A k \in Jobs : job'[k].at \in {job[k].at, "ended"}
    BY <1>8, CancelShape
  <2>3. ASSUME NEW k \in Jobs, k # j, k \in InQueue(hd[h].queue)  PROVE job'[k].at = "ended"
    <3>1. job[k].at = "queued" /\ job[k].on = h
      BY <1>0, <2>3 DEF Waits, QueueAt
    <3> QED  BY <1>8, <2>3, <3>1, CancelShape
  <2>4. \A k \in Jobs : k # j /\ k \notin InQueue(hd[h].queue) => reports'[k] = reports[k]
    BY <1>8, CancelReported
  <2>5. \A k \in Jobs : reports'[k] = reports[k] \/ job'[k].at = "ended" \/ k \in asked'
    BY <2>1, <2>3, <2>4
  <2>6. \A k \in Jobs : job'[k].at = "new" => job[k].at = "new" /\ reports'[k] = reports[k]
    BY <2>1, <2>2, <2>3, <2>4
  <2> QED  BY <1>00, <2>1, <2>2, <2>5, <2>6, ReportsKept
<1>9. ASSUME NEW j \in Jobs, NEW h \in Handles, CancelQueued(j, h)  PROVE ReportsFollow'
  <2>1. Moves(j, "ended", job[j].on)
    BY <1>9, CancelQueuedShape
  <2>2. asked' = asked \cup {j} /\ Report({j}, "cancelled")
    BY <1>9 DEF CancelQueued
  <2>3. \A k \in Jobs : k # j => reports'[k] = reports[k] /\ job'[k] = job[k]
    BY <1>01, <2>1, <2>2, ReportedOne DEF Moves
  <2>4. job'[j].at = "ended"
    BY <2>1 DEF Moves
  <2> QED  BY <1>00, <2>2, <2>3, <2>4, ReportsKept
<1>10. ASSUME UNCHANGED <<job, reports, asked>>  PROVE ReportsFollow'
  BY <1>00, <1>10, ReportsKept
<1> QED  BY <1>1, <1>2, <1>3, <1>4, <1>5, <1>6, <1>7, <1>8, <1>9, <1>10, HandleStepFrame,
            NextCases DEF SweepDismiss

-----------------------------------------------------------------------------
(* Pumps *)

KnownAt(h) ==
  /\ PumpAlive(h) => pumpOf[hd[h].slot] = h
  /\ hd[h].ready \/ hd[h].pump # "none" => hd[h].starter = "ended"

LEMMA KnownAll == PumpsKnown <=> \A h \in Handles : KnownAt(h)
  BY DEF PumpsKnown, KnownAt

\* A pump goes on or ends; a handle once ready stays so.
LEMMA KnownKept ==
  ASSUME NEW h \in Handles, KnownAt(h), pumpOf' = pumpOf, hd'[h].slot = hd[h].slot,
         PumpAlive(h)' => PumpAlive(h),
         hd'[h].ready \/ hd'[h].pump # "none" =>
           hd'[h].starter = "ended" \/ ((hd[h].ready \/ hd[h].pump # "none")
                                        /\ hd'[h].starter = hd[h].starter)
  PROVE  KnownAt(h)'
  BY DEF KnownAt

LEMMA KnownSame ==
  ASSUME NEW h \in Handles, KnownAt(h), pumpOf' = pumpOf, hd'[h].slot = hd[h].slot,
         hd'[h].ready = hd[h].ready, hd'[h].starter = hd[h].starter,
         \/ hd'[h].pump = hd[h].pump
         \/ PumpAlive(h) /\ hd'[h].pump # "none"
  PROVE  KnownAt(h)'
<1>1. PumpAlive(h)' => PumpAlive(h)
  BY DEF PumpAlive
<1>2. hd'[h].pump # "none" => hd[h].pump # "none"
  BY DEF PumpAlive
<1> QED  BY <1>1, <1>2, KnownKept

PumpGoesOn(h, p) == p = hd[h].pump \/ (PumpAlive(h) /\ p # "none")

LEMMA KnownBecomes ==
  ASSUME \A i \in Handles : KnownAt(i), NEW h \in Handles, NEW st, NEW rd, NEW sr, NEW q,
         NEW c, NEW p, Becomes(h, st, rd, sr, q, c, p), pumpOf' = pumpOf,
         rd = hd[h].ready, sr = hd[h].starter, PumpGoesOn(h, p)
  PROVE  \A k \in Handles : KnownAt(k)'
<1> TAKE k \in Handles
<1>1. CASE k = h
  BY <1>1, KnownSame DEF Becomes, PumpGoesOn
<1>2. CASE k # h
  BY <1>2, KnownSame DEF Becomes
<1> QED  BY <1>1, <1>2

\* _ensure_pump starts a pump only where no other pump is alive under the name.
LEMMA KnownEnsured ==
  ASSUME ContainerTypeOK, \A h \in Handles : KnownAt(h), NEW h \in Handles, hd[h].ready,
         EnsurePump(h), NEW k \in Handles
  PROVE  KnownAt(k)'
<1>0. PumpGoesOn(h, hd[h].pump)
  BY DEF PumpGoesOn
<1>1. CASE /\ pumpOf' = pumpOf
           /\ Becomes(h, hd[h].status, hd[h].ready, hd[h].starter, hd[h].queue,
                      hd[h].current, hd[h].pump)
  BY <1>0, <1>1, KnownBecomes
<1>2. CASE /\ ~(pumpOf[hd[h].slot] \in Handles /\ PumpAlive(pumpOf[hd[h].slot]))
           /\ pumpOf' = [pumpOf EXCEPT ![hd[h].slot] = h]
           /\ Becomes(h, hd[h].status, hd[h].ready, hd[h].starter, hd[h].queue,
                      hd[h].current, "waiting")
  <2>1. hd[h].slot \in Slots /\ hd[k].slot \in Slots /\ pumpOf \in [Slots -> Handles \cup {Nobody}]
    BY HandleIs DEF ContainerTypeOK
  <2>2. CASE k = h
    <3>1. hd'[h].slot = hd[h].slot /\ hd'[h].starter = hd[h].starter
      BY <1>2 DEF Becomes
    <3>2. pumpOf'[hd[h].slot] = h
      BY <1>2, <2>1
    <3>3. hd[h].starter = "ended"
      BY DEF KnownAt
    <3> QED  BY <2>2, <3>1, <3>2, <3>3 DEF KnownAt
  <2>3. CASE k # h
    <3>1. hd'[k] = hd[k]
      BY <1>2, <2>3 DEF Becomes
    <3>2. PumpAlive(k)' <=> PumpAlive(k)
      BY <3>1 DEF PumpAlive
    <3>3. PumpAlive(k) => pumpOf[hd[k].slot] = k /\ hd[k].slot # hd[h].slot
      BY <1>2 DEF KnownAt
    <3>4. PumpAlive(k) => pumpOf'[hd[k].slot] = k
      BY <1>2, <2>1, <3>3
    <3> QED  BY <3>1, <3>2, <3>4 DEF KnownAt
  <2> QED  BY <2>2, <2>3
<1> QED  BY <1>1, <1>2, EnsureShape

LEMMA PumpsStep ==
  ASSUME ContainerTypeOK, PoolStarted, NoSlotLeaks, PumpsKnown, ContainerNext
  PROVE  PumpsKnown'
<1>0. \A h \in Handles : KnownAt(h)
  BY KnownAll
<1> SUFFICES ASSUME NEW k \in Handles  PROVE KnownAt(k)'
  BY DEF PumpsKnown, KnownAt
<1>a. \A h \in Handles : PumpGoesOn(h, hd[h].pump)
  BY DEF PumpGoesOn
<1>b. \A h \in Handles : PumpAlive(h) => /\ PumpGoesOn(h, "sent") /\ PumpGoesOn(h, "ended")
                                         /\ PumpGoesOn(h, "waiting") /\ PumpGoesOn(h, "reported")
                                         /\ PumpGoesOn(h, "failing")
  BY DEF PumpGoesOn
<1>1. ASSUME NEW j \in Jobs, Submit(j) \/ Refuse(j) \/ Forward(j) \/ ColdFails(j)
      PROVE  UNCHANGED <<hd, pumpOf>>
  BY <1>1 DEF Submit, Refuse, Forward, ColdFails
<1>2. ASSUME UNCHANGED <<hd, pumpOf>>  PROVE KnownAt(k)'
  BY <1>0, <1>2, KnownSame
<1>3. ASSUME NEW j \in Jobs, Place(j)  PROVE KnownAt(k)'
  <2>1. pumpOf' = pumpOf
    BY <1>3 DEF Place
  <2>2. Fresh(k) \/ Alike(k)
    BY <1>3, PlaceShape
  <2>3. CASE Fresh(k)
    BY <2>3 DEF Fresh, KnownAt, PumpAlive
  <2>4. CASE Alike(k)
    <3>1. /\ hd'[k].slot = hd[k].slot /\ hd'[k].ready = hd[k].ready
          /\ hd'[k].starter = hd[k].starter /\ hd'[k].pump = hd[k].pump
      BY <2>4 DEF Alike
    <3> QED  BY <1>0, <2>1, <3>1, KnownSame
  <2> QED  BY <2>2, <2>3, <2>4
<1>4. ASSUME NEW j \in Jobs, Warm(j) \/ ColdReady(j)  PROVE KnownAt(k)'
  <2>1. PICK h \in Handles : EnsurePump(h) /\ hd[h].ready
    BY <1>4, JobIs DEF Warm, ColdReady
  <2> QED  BY <1>0, <2>1, KnownEnsured
<1>5. ASSUME NEW j \in Jobs, Cold(j)  PROVE KnownAt(k)'
  <2>1. pumpOf' = pumpOf
    BY <1>5 DEF Cold
  <2> QED  BY <1>0, <1>a, <1>5, <2>1, ColdShape, KnownBecomes
<1>6. ASSUME NEW j \in Jobs, Enqueue(j)  PROVE KnownAt(k)'
  <2>1. pumpOf' = pumpOf
    BY <1>6 DEF Enqueue
  <2> QED  BY <1>0, <1>a, <1>6, <2>1, EnqueueShape, KnownBecomes
<1>7. ASSUME NEW h \in Handles, SpawnStep(h)  PROVE KnownAt(k)'
  <2>1. PICK st \in ContainerStatus, rd \in BOOLEAN, sr \in {"polling", "ended"} :
           /\ hd[h].starter \in {"spawning", "polling"} /\ (rd /\ ~hd[h].ready => sr = "ended")
           /\ Becomes(h, st, rd, sr, hd[h].queue, hd[h].current, hd[h].pump)
           /\ pumpOf' = pumpOf
    BY <1>7, SpawnShape
  <2>2. ~hd[h].ready /\ hd[h].pump = "none"
    BY <1>0, <2>1 DEF KnownAt
  <2>3. CASE k = h
    <3>1. /\ hd'[h].slot = hd[h].slot /\ hd'[h].ready = rd /\ hd'[h].starter = sr
          /\ hd'[h].pump = hd[h].pump
      BY <2>1 DEF Becomes
    <3>2. ~PumpAlive(h)'
      BY <2>2, <3>1 DEF PumpAlive
    <3> QED  BY <1>0, <2>1, <2>2, <2>3, <3>1, <3>2 DEF KnownAt
  <2>4. CASE k # h
    <3>1. hd'[k] = hd[k]
      BY <2>1, <2>4 DEF Becomes
    <3> QED  BY <1>0, <2>1, <3>1, KnownSame
  <2> QED  BY <2>3, <2>4
<1>8. ASSUME NEW h \in Handles, \/ PumpTake(h) \/ PumpExit(h) \/ PumpDone(h) \/ PumpIdle(h)
                                \/ PumpReceive(h) \/ PumpFinish(h) \/ ContainerDies(h)
      PROVE  KnownAt(k)'
  <2>1. pumpOf' = pumpOf /\ (PumpAlive(h) \/ ContainerDies(h))
    BY <1>8 DEF PumpTake, PumpExit, PumpDone, PumpIdle, PumpReceive, PumpFinish, ContainerDies,
                PumpAlive
  <2> QED  BY <1>0, <1>a, <1>b, <1>8, <2>1, TakeShape, PumpShape, DiesShape, KnownBecomes
<1>9. ASSUME NEW h \in Handles, PumpCrash(h) \/ PumpTimeout(h)  PROVE KnownAt(k)'
  <2>1. (Fail(h, "crashed") \/ Fail(h, "timeout")) /\ pumpOf' = pumpOf /\ PumpAlive(h)
    BY <1>9 DEF PumpCrash, PumpTimeout, PumpAlive
  <2> QED  BY <1>0, <1>b, <2>1, FailShape, KnownBecomes
<1>10. ASSUME NEW j \in Jobs, NEW h \in Handles, CancelInFlight(j, h)  PROVE KnownAt(k)'
  <2>1. /\ Becomes(h, "DISMISSED", hd[h].ready, hd[h].starter, <<>>, hd[h].current, hd[h].pump)
        /\ pumpOf' = pumpOf
    BY <1>10, CancelShape
  <2> QED  BY <1>0, <1>a, <2>1, KnownBecomes
<1>11. ASSUME NEW j \in Jobs, NEW h \in Handles, CancelQueued(j, h)  PROVE KnownAt(k)'
  <2>1. pumpOf' = pumpOf
    BY <1>11 DEF CancelQueued
  <2> QED  BY <1>0, <1>a, <1>11, <2>1, CancelQueuedShape, KnownBecomes
<1>12. ASSUME SweepDismiss  PROVE KnownAt(k)'
  <2>1. pumpOf' = pumpOf
    BY <1>12 DEF SweepDismiss
  <2> QED  BY <1>0, <1>a, <1>12, <2>1, SweepShape, KnownBecomes
<1>13. ASSUME NEW h \in Handles, SweepPick(h)  PROVE UNCHANGED <<hd, pumpOf>>
  BY <1>13 DEF SweepPick
<1> QED  BY <1>1, <1>2, <1>3, <1>4, <1>5, <1>6, <1>7, <1>8, <1>9, <1>10, <1>11, <1>12, <1>13,
            NextCases DEF HandleStep

-----------------------------------------------------------------------------
(* The pumps of the pool *)

WorksAt(h) ==
  /\ hd[h].pump \in {"none", "waiting", "sent", "reported"}
  /\ hd[h].pump # "none" => hd[h].status \notin Retired
  /\ hd[h].current # Nobody => hd[h].pump = "sent"

LEMMA WorksAll == PoolWorks <=> (budget.stops = 0 => \A h \in pool : WorksAt(h))
  BY DEF PoolWorks, WorksAt, Live

\* A handle keeps what matters here; its status may become another live one.
LEMMA WorksSame ==
  ASSUME NEW h \in Handles, WorksAt(h), hd'[h].current = hd[h].current,
         hd'[h].pump = hd[h].pump,
         hd'[h].status \in Retired => hd[h].status \in Retired
  PROVE  WorksAt(h)'
  BY DEF WorksAt

\* Elsewhere than on h nothing changes.
LEMMA WorksBut ==
  ASSUME ContainerTypeOK, \A k \in pool : WorksAt(k), NEW h \in Handles,
         NEW st, NEW rd, NEW sr, NEW q, NEW c, NEW p, Becomes(h, st, rd, sr, q, c, p),
         pool' \subseteq pool, h \in pool' => WorksAt(h)'
  PROVE  \A k \in pool' : WorksAt(k)'
<1> SUFFICES ASSUME NEW k \in pool', k # h  PROVE WorksAt(k)'
  OBVIOUS
<1>1. k \in pool /\ k \in Handles /\ hd'[k] = hd[k]
  BY DEF ContainerTypeOK, Becomes
<1> QED  BY <1>1, WorksSame

\* A dismissal takes the handle out of the pool.
LEMMA WorksDismissed ==
  ASSUME ContainerTypeOK, \A k \in pool : WorksAt(k), NEW h \in Handles,
         NEW st, NEW rd, NEW sr, NEW q, NEW c, NEW p, Becomes(h, st, rd, sr, q, c, p),
         Dismisses(h), budget'.stops = 0
  PROVE  \A k \in pool' : WorksAt(k)'
<1>1. pool' = pool \ {h}
  BY DEF Dismisses, Budgets
<1> QED  BY <1>1, WorksBut

LEMMA WorksStep ==
  ASSUME ContainerTypeOK, PoolStarted, NoSlotLeaks, Pumping, ContainerNext
  PROVE  PoolWorks'
<1> SUFFICES ASSUME budget'.stops = 0  PROVE \A k \in pool' : WorksAt(k)'
  BY DEF PoolWorks, WorksAt, Live
<1>0. \A k \in pool : WorksAt(k)
  BY PoolStep, WorksAll DEF Pumping
<1>00. \A h \in Handles : KnownAt(h)
  BY KnownAll DEF Pumping
<1>a. pool \subseteq Handles
  BY DEF ContainerTypeOK
<1>b. "BUSY" \notin Retired /\ "IDLE" \notin Retired
  BY DEF Retired
<1>1. ASSUME NEW j \in Jobs, Submit(j) \/ Refuse(j) \/ Forward(j) \/ ColdFails(j)
      PROVE  UNCHANGED <<hd, pool>>
  BY <1>1 DEF Submit, Refuse, Forward, ColdFails
<1>2. ASSUME UNCHANGED <<hd, pool>>  PROVE \A k \in pool' : WorksAt(k)'
  BY <1>0, <1>2 DEF WorksAt
<1>3. ASSUME NEW j \in Jobs, Place(j)  PROVE \A k \in pool' : WorksAt(k)'
  <2>1. PICK N \in SUBSET Handles : /\ \A h \in N : Fresh(h)
                                    /\ \A h \in Handles \ N : Alike(h)
                                    /\ pool' \subseteq pool \cup N
    BY <1>3, PlaceShape
  <2> SUFFICES ASSUME NEW k \in pool'  PROVE WorksAt(k)'
    OBVIOUS
  <2>2. CASE k \in N
    BY <2>1, <2>2 DEF Fresh, WorksAt
  <2>3. CASE k \notin N
    <3>1. k \in pool /\ Alike(k)
      BY <1>a, <2>1, <2>3
    <3> QED  BY <1>0, <1>a, <3>1, WorksSame DEF Alike
  <2> QED  BY <2>2, <2>3
<1>4. ASSUME NEW j \in Jobs, Warm(j) \/ ColdReady(j)  PROVE \A k \in pool' : WorksAt(k)'
  <2>1. PICK h \in Handles : EnsurePump(h) /\ hd[h].status \notin Retired
    BY <1>4, JobIs DEF Warm, ColdReady, Live
  <2>2. pool' = pool
    BY <1>4 DEF Warm, ColdReady
  <2>3. CASE Becomes(h, hd[h].status, hd[h].ready, hd[h].starter, hd[h].queue,
                     hd[h].current, hd[h].pump)
    <3>1. h \in pool => WorksAt(h)'
      BY <1>0, <2>3, WorksSame DEF Becomes
    <3> QED  BY <1>0, <2>2, <2>3, <3>1, WorksBut
  <2>4. CASE /\ ~(pumpOf[hd[h].slot] \in Handles /\ PumpAlive(pumpOf[hd[h].slot]))
             /\ Becomes(h, hd[h].status, hd[h].ready, hd[h].starter, hd[h].queue,
                        hd[h].current, "waiting")
    <3>1. ~PumpAlive(h)
      BY <1>00, <2>4 DEF KnownAt
    <3>2. h \in pool => hd[h].current = Nobody
      BY <1>0, <3>1 DEF WorksAt, PumpAlive
    <3>3. h \in pool => WorksAt(h)'
      BY <2>1, <2>4, <3>2 DEF WorksAt, Becomes
    <3> QED  BY <1>0, <2>2, <2>4, <3>3, WorksBut
  <2> QED  BY <2>1, <2>3, <2>4, EnsureShape
<1>5. ASSUME NEW j \in Jobs, Cold(j)  PROVE \A k \in pool' : WorksAt(k)'
  <2>1. PICK h \in Handles, st \in ContainerStatus :
          /\ st \in Retired <=> hd[h].status \in Retired
          /\ Becomes(h, st, hd[h].ready, hd[h].starter, hd[h].queue, hd[h].current, hd[h].pump)
    BY <1>5, ColdShape
  <2>2. h \in pool => WorksAt(h)'
    BY <1>0, <2>1, WorksSame DEF Becomes
  <2>3. pool' = pool
    BY <1>5 DEF Cold
  <2> QED  BY <1>0, <2>1, <2>2, <2>3, WorksBut
<1>6. ASSUME NEW j \in Jobs, Enqueue(j)  PROVE \A k \in pool' : WorksAt(k)'
  <2>1. PICK h \in Handles :
          Becomes(h, "BUSY", hd[h].ready, hd[h].starter, Append(hd[h].queue, j),
                  hd[h].current, hd[h].pump)
    BY <1>6, EnqueueShape
  <2>2. h \in pool => WorksAt(h)'
    BY <1>0, <1>b, <2>1, WorksSame DEF Becomes
  <2>3. pool' = pool
    BY <1>6 DEF Enqueue
  <2> QED  BY <1>0, <2>1, <2>2, <2>3, WorksBut
<1>7. ASSUME NEW h \in Handles, SpawnStep(h)  PROVE \A k \in pool' : WorksAt(k)'
  <2>1. PICK st \in ContainerStatus, rd \in BOOLEAN, sr \in {"polling", "ended"} :
           /\ hd[h].starter \in {"spawning", "polling"}
           /\ Becomes(h, st, rd, sr, hd[h].queue, hd[h].current, hd[h].pump)
           /\ pool' = pool
    BY <1>7, SpawnShape
  <2>2. hd[h].pump = "none"
    BY <1>00, <2>1 DEF KnownAt
  <2>3. h \in pool => WorksAt(h)'
    BY <1>0, <2>1, <2>2 DEF Becomes, WorksAt
  <2> QED  BY <1>0, <2>1, <2>3, WorksBut
<1>8. ASSUME NEW h \in Handles, PumpTake(h)  PROVE \A k \in pool' : WorksAt(k)'
  <2>1. Becomes(h, hd[h].status, hd[h].ready, hd[h].starter, Tail(hd[h].queue),
                Head(hd[h].queue), "sent")
    BY <1>8, TakeShape
  <2>2. hd[h].pump = "waiting" /\ pool' = pool
    BY <1>8 DEF PumpTake
  <2>3. h \in pool => WorksAt(h)'
    BY <1>0, <2>1, <2>2 DEF Becomes, WorksAt
  <2> QED  BY <1>0, <2>1, <2>2, <2>3, WorksBut
<1>9. ASSUME NEW h \in Handles, PumpExit(h)  PROVE \A k \in pool' : WorksAt(k)'
  <2>1. hd[h].pump = "waiting" /\ hd[h].status \in Retired /\ pool' = pool
    BY <1>9 DEF PumpExit, Live
  <2>2. h \notin pool
    BY <1>0, <2>1 DEF WorksAt
  <2> QED  BY <1>0, <1>9, <2>1, <2>2, PumpShape, WorksBut
<1>10. ASSUME NEW h \in Handles, PumpDone(h) \/ PumpIdle(h) \/ PumpReceive(h)
       PROVE  \A k \in pool' : WorksAt(k)'
  <2>1. hd[h].pump # "none" /\ pool' = pool
    BY <1>10 DEF PumpDone, PumpIdle, PumpReceive
  <2>2. CASE PumpDone(h)
    <3>1. Becomes(h, "IDLE", hd[h].ready, hd[h].starter, hd[h].queue, hd[h].current, "waiting")
          /\ hd[h].pump = "reported"
      BY <2>2, PumpShape DEF PumpDone
    <3>2. h \in pool => WorksAt(h)'
      BY <1>0, <1>b, <3>1 DEF Becomes, WorksAt
    <3> QED  BY <1>0, <2>1, <3>1, <3>2, WorksBut
  <2>3. CASE PumpIdle(h)
    <3>1. Becomes(h, "IDLE", hd[h].ready, hd[h].starter, hd[h].queue, hd[h].current,
                  hd[h].pump)
      BY <2>3, PumpShape
    <3>2. h \in pool => WorksAt(h)'
      BY <1>0, <1>b, <3>1 DEF Becomes, WorksAt
    <3> QED  BY <1>0, <2>1, <3>1, <3>2, WorksBut
  <2>4. CASE PumpReceive(h)
    <3>1. Becomes(h, hd[h].status, hd[h].ready, hd[h].starter, hd[h].queue, Nobody, "reported")
      BY <2>4, PumpShape
    <3>2. h \in pool => WorksAt(h)'
      BY <1>0, <2>1, <3>1 DEF Becomes, WorksAt
    <3> QED  BY <1>0, <2>1, <3>1, <3>2, WorksBut
  <2> QED  BY <1>10, <2>2, <2>3, <2>4
<1>11. ASSUME NEW h \in Handles, PumpFinish(h)  PROVE \A k \in pool' : WorksAt(k)'
  <2>1. hd[h].pump = "failing" /\ pool' = pool
    BY <1>11 DEF PumpFinish
  <2>2. h \notin pool
    BY <1>0, <2>1 DEF WorksAt
  <2> QED  BY <1>0, <1>11, <2>1, <2>2, PumpShape, WorksBut
<1>12. ASSUME NEW h \in Handles, ContainerDies(h)  PROVE \A k \in pool' : WorksAt(k)'
  <2>1. Becomes(h, hd[h].status, hd[h].ready, hd[h].starter, hd[h].queue, hd[h].current,
                hd[h].pump)
    BY <1>12, DiesShape
  <2>2. pool' = pool
    BY <1>12 DEF ContainerDies
  <2>3. h \in pool => WorksAt(h)'
    BY <1>0, <2>1, WorksSame DEF Becomes
  <2> QED  BY <1>0, <2>1, <2>2, <2>3, WorksBut
<1>13. ASSUME NEW h \in Handles, PumpCrash(h) \/ PumpTimeout(h)
       PROVE  \A k \in pool' : WorksAt(k)'
  <2>1. hd[h].pump = "sent" /\ (Fail(h, "crashed") \/ Fail(h, "timeout"))
    BY <1>13 DEF PumpCrash, PumpTimeout
  <2>2. CASE /\ ~Live(h) /\ pool' = pool
             /\ Becomes(h, hd[h].status, hd[h].ready, hd[h].starter, hd[h].queue,
                        hd[h].current, "ended")
    <3>1. h \notin pool
      BY <1>0, <2>1, <2>2 DEF WorksAt, Live
    <3> QED  BY <1>0, <2>2, <3>1, WorksBut
  <2>3. CASE /\ Dismisses(h)
             /\ Becomes(h, "DISMISSED", hd[h].ready, hd[h].starter, hd[h].queue,
                        hd[h].current, "failing")
    BY <1>0, <2>3, WorksDismissed
  <2> QED  BY <2>1, <2>2, <2>3, FailShape
<1>14. ASSUME NEW j \in Jobs, NEW h \in Handles, CancelInFlight(j, h)
       PROVE  \A k \in pool' : WorksAt(k)'
  <2>1. /\ Dismisses(h)
        /\ Becomes(h, "DISMISSED", hd[h].ready, hd[h].starter, <<>>, hd[h].current, hd[h].pump)
    BY <1>14, CancelShape
  <2> QED  BY <1>0, <2>1, WorksDismissed
<1>15. ASSUME NEW j \in Jobs, NEW h \in Handles, CancelQueued(j, h)
       PROVE  \A k \in pool' : WorksAt(k)'
  <2>1. Becomes(h, hd[h].status, hd[h].ready, hd[h].starter, Without(hd[h].queue, j),
                hd[h].current, hd[h].pump)
    BY <1>15, CancelQueuedShape
  <2>2. pool' = pool
    BY <1>15 DEF CancelQueued
  <2>3. h \in pool => WorksAt(h)'
    BY <1>0, <2>1, WorksSame DEF Becomes
  <2> QED  BY <1>0, <2>1, <2>2, <2>3, WorksBut
<1>16. ASSUME SweepDismiss  PROVE \A k \in pool' : WorksAt(k)'
  <2>1. PICK h \in Handles :
          /\ Dismisses(h)
          /\ Becomes(h, "DISMISSED", hd[h].ready, hd[h].starter, hd[h].queue, hd[h].current,
                     hd[h].pump)
    BY <1>16, SweepShape
  <2> QED  BY <1>0, <2>1, WorksDismissed
<1>17. ASSUME NEW h \in Handles, SweepPick(h)  PROVE UNCHANGED <<hd, pool>>
  BY <1>17 DEF SweepPick
<1> QED  BY <1>1, <1>2, <1>3, <1>4, <1>5, <1>6, <1>7, <1>8, <1>9, <1>10, <1>11, <1>12, <1>13,
            <1>14, <1>15, <1>16, <1>17, NextCases DEF HandleStep

-----------------------------------------------------------------------------
(* Cancelled jobs *)

\* Over and out of reach of every retry.
Over(j) ==
  /\ job[j].at = "ended"
  /\ \A h \in Handles : Hand(j, h) =>
       h \notin pool /\ hd[h].status \in Retired /\ hd[h].pump = "sent"

LEMMA OverAll ==
  CancelledIsOver <=>
    \A j \in Jobs : "cancelled" \in InQueue(reports[j]) /\ ~Revived(j) => Over(j)
  BY DEF CancelledIsOver, Over, Live

LEMMA JobsMoveOrKeep ==
  ASSUME ContainerTypeOK, PoolStarted, NoSlotLeaks, ContainerNext
  PROVE  Keeps \/ \E j \in Jobs : \E at, on : Moves(j, at, on)
<1>1. ASSUME NEW j \in Jobs, Submit(j) \/ Forward(j) \/ Warm(j) \/ Cold(j) \/ ColdReady(j)
                             \/ ColdFails(j)
      PROVE  \E at, on : Moves(j, at, on)
  <2>1. PICK at \in Stages : job' = [job EXCEPT ![j].at = at]
    BY <1>1 DEF Submit, Forward, Warm, Cold, ColdReady, ColdFails, Stages
  <2> QED  BY <2>1, StageChanged
<1>2. ASSUME NEW j \in Jobs, Refuse(j)  PROVE \E at, on : Moves(j, at, on)
  BY <1>2, JobEnded DEF Refuse
<1>3. ASSUME NEW j \in Jobs, Place(j)  PROVE \E at, on : Moves(j, at, on)
  BY <1>3, PlaceShape
<1>4. ASSUME NEW j \in Jobs, Enqueue(j)  PROVE \E at, on : Moves(j, at, on)
  BY <1>4, JobQueued
<1>5. ASSUME NEW h \in Handles, PumpReceive(h)
      PROVE  \E j \in Jobs : \E at, on : Moves(j, at, on)
  <2>1. hd[h].current \in Jobs
    BY <1>5 DEF PumpReceive, ContainerTypeOK
  <2> QED  BY <1>5, <2>1, JobEnded DEF PumpReceive
<1>6. ASSUME NEW h \in Handles, PumpFinish(h)  PROVE Keeps
  BY <1>6, FinishShape
<1>7. ASSUME NEW j \in Jobs, NEW h \in Handles, CancelInFlight(j, h)  PROVE Keeps
  BY <1>7, CancelShape
<1>8. ASSUME NEW j \in Jobs, NEW h \in Handles, CancelQueued(j, h)
      PROVE  \E at, on : Moves(j, at, on)
  BY <1>8, CancelQueuedShape
<1>9. ASSUME job' = job  PROVE Keeps
  BY <1>9 DEF Keeps, ContainerTypeOK
<1> QED  BY <1>1, <1>2, <1>3, <1>4, <1>5, <1>6, <1>7, <1>8, <1>9, HandleStepFrame, NextCases
         DEF SweepDismiss

\* What may have revived a handle stays on record.
LEMMA RevivedStays ==
  ASSUME ContainerTypeOK, PoolStarted, NoSlotLeaks, ContainerNext, NEW j \in Jobs, Revived(j)
  PROVE  Revived(j)'
<1>1. \A i \in Jobs : job[i].late # "never" => job'[i].late # "never"
  BY JobsMoveOrKeep DEF Keeps, Moves
<1>2. budget.stops > 0 => budget'.stops > 0
  BY PoolStep DEF ContainerTypeOK, Budgets
<1> QED  BY <1>1, <1>2 DEF Revived

\* Only cancel reports a cancelled job.
LEMMA NewlyCancelled ==
  ASSUME ContainerTypeOK, PoolStarted, NoSlotLeaks, ContainerNext, NEW j \in Jobs,
         "cancelled" \in InQueue(reports'[j]), "cancelled" \notin InQueue(reports[j])
  PROVE  \E h \in Handles : CancelInFlight(j, h) \/ CancelQueued(j, h)
<1>0. /\ "refused" \in Outcomes /\ "notready" \in Outcomes /\ "done" \in Outcomes
      /\ "cancelled" \in Outcomes
  BY DEF Outcomes
<1>1. \A i \in Jobs, o \in Outcomes : Report({i}, o) => i = j /\ o = "cancelled"
  BY ReportedOne
<1>2. reports' # reports
  OBVIOUS
<1>3. ASSUME NEW i \in Jobs, Refuse(i) \/ Place(i) \/ ColdFails(i)  PROVE FALSE
  <2>1. reports' = reports \/ Report({i}, "refused") \/ Report({i}, "notready")
    BY <1>3, PlaceShape DEF Refuse, ColdFails
  <2> QED  BY <1>0, <1>1, <1>2, <2>1
<1>4. ASSUME NEW i \in Jobs, Submit(i) \/ Forward(i) \/ Warm(i) \/ Cold(i) \/ ColdReady(i)
                             \/ Enqueue(i)
      PROVE  FALSE
  BY <1>2, <1>4 DEF Submit, Forward, Warm, Cold, ColdReady, Enqueue
<1>5. ASSUME NEW h \in Handles, PumpReceive(h)  PROVE FALSE
  <2>1. PICK i \in Jobs : i = hd[h].current
    BY <1>5 DEF PumpReceive, ContainerTypeOK
  <2>2. Report({i}, "done")
    BY <1>5, <2>1 DEF PumpReceive
  <2> QED  BY <1>0, <1>1, <2>2
<1>6. ASSUME NEW h \in Handles, PumpFinish(h)  PROVE FALSE
  BY <1>6, FinishReported
<1>7. ASSUME NEW i \in Jobs, NEW h \in Handles, CancelInFlight(i, h)  PROVE i = j
  BY <1>7, CancelReported
<1>8. ASSUME NEW i \in Jobs, NEW h \in Handles, CancelQueued(i, h)  PROVE i = j
  <2>1. Report({i}, "cancelled")
    BY <1>8 DEF CancelQueued
  <2> QED  BY <1>0, <1>1, <2>1
<1> QED  BY <1>2, <1>3, <1>4, <1>5, <1>6, <1>7, <1>8, HandleStepFrame, NextCases
         DEF SweepDismiss

\* A job that is over stays ended: it is retried only out of the hand of a failed pump.
LEMMA EndedStays ==
  ASSUME ContainerTypeOK, PoolStarted, NoSlotLeaks, \A h \in Handles : Waits(h),
         ContainerNext, NEW j \in Jobs, Over(j)
  PROVE  job'[j].at = "ended"
<1>0. job[j].at = "ended"
  BY DEF Over
<1>1. ASSUME NEW i \in Jobs, \/ Submit(i) \/ Refuse(i) \/ Forward(i) \/ Place(i) \/ Warm(i)
                             \/ Cold(i) \/ ColdReady(i) \/ ColdFails(i) \/ Enqueue(i)
      PROVE  job'[j] = job[j]
  <2>1. i # j
    BY <1>0, <1>1 DEF Submit, Refuse, Forward, Place, Warm, Cold, ColdReady, ColdFails, Enqueue
  <2>2. \/ \E at \in Stages : job' = [job EXCEPT ![i].at = at]
        \/ Refuse(i) \/ Place(i) \/ Enqueue(i)
    BY <1>1 DEF Submit, Forward, Warm, Cold, ColdReady, ColdFails, Stages
  <2>3. \E at, on : Moves(i, at, on)
    BY <2>2, StageChanged, JobEnded, PlaceShape, JobQueued DEF Refuse
  <2> QED  BY <2>1, <2>3 DEF Moves
<1>2. ASSUME NEW h \in Handles, PumpReceive(h)  PROVE job'[j].at = "ended"
  <2>1. PICK i \in Jobs : i = hd[h].current
    BY <1>2 DEF PumpReceive, ContainerTypeOK
  <2>2. Moves(i, "ended", job[i].on)
    BY <1>2, <2>1, JobEnded DEF PumpReceive
  <2> QED  BY <1>0, <2>2 DEF Moves
<1>3. ASSUME NEW h \in Handles, PumpFinish(h)  PROVE job'[j].at = "ended"
  <2>1. j # hd[h].current
    BY <1>3 DEF Over, Hand, PumpFinish
  <2>2. j \notin InQueue(hd[h].queue)
    BY <1>0 DEF Waits, QueueAt
  <2> QED  BY <1>0, <1>3, <2>1, <2>2, FinishShape
<1>4. ASSUME NEW i \in Jobs, NEW h \in Handles, CancelInFlight(i, h)
      PROVE  job'[j].at = "ended"
  BY <1>0, <1>4, CancelShape
<1>5. ASSUME NEW i \in Jobs, NEW h \in Handles, CancelQueued(i, h)
      PROVE  job'[j].at = "ended"
  BY <1>0, <1>5, CancelQueuedShape DEF Moves
<1> QED  BY <1>0, <1>1, <1>2, <1>3, <1>4, <1>5, HandleStepFrame, NextCases DEF SweepDismiss

\* The pump that still holds such a job, on a handle that leaves it alone.
LEMMA HeldStill ==
  ASSUME NEW j \in Jobs, NEW h \in Handles, Over(j), Hand(j, h)', pool' \subseteq pool,
         hd'[h].current = hd[h].current, hd'[h].pump = hd[h].pump,
         hd[h].status \in Retired => hd'[h].status \in Retired
  PROVE  h \notin pool' /\ hd'[h].status \in Retired /\ hd'[h].pump = "sent"
<1>1. Hand(j, h)
  BY DEF Hand
<1> QED  BY <1>1 DEF Over

LEMMA HeldBut ==
  ASSUME NEW j \in Jobs, NEW h \in Handles, Over(j), Hand(j, h)', pool' \subseteq pool,
         NEW i \in Handles, NEW st, NEW rd, NEW sr, NEW q, NEW c, NEW p,
         Becomes(i, st, rd, sr, q, c, p),
         i = h => /\ c = hd[h].current /\ p = hd[h].pump
                  /\ hd[h].status \in Retired => st \in Retired
  PROVE  h \notin pool' /\ hd'[h].status \in Retired /\ hd'[h].pump = "sent"
<1>1. CASE i = h
  BY <1>1, HeldStill DEF Becomes
<1>2. CASE i # h
  BY <1>2, HeldStill DEF Becomes
<1> QED  BY <1>1, <1>2

LEMMA OverHeld ==
  ASSUME ContainerTypeOK, PoolStarted, NoSlotLeaks, \A h \in Handles : Waits(h), PumpsKnown,
         ContainerNext, NEW j \in Jobs, Over(j), ~Revived(j)', NEW h \in Handles, Hand(j, h)'
  PROVE  h \notin pool' /\ hd'[h].status \in Retired /\ hd'[h].pump = "sent"
<1> DEFINE Out == h \notin pool' /\ hd'[h].status \in Retired /\ hd'[h].pump = "sent"
<1>a. hd'[h].current = j /\ hd'[h].pump \in {"sent", "failing"}
  BY DEF Hand
<1>b. "DISMISSED" \in Retired
  BY DEF Retired
<1>c. job[j].at = "ended"
  BY DEF Over
<1>1. ASSUME UNCHANGED <<hd, pool>>  PROVE Out
  BY <1>1, HeldStill
<1>2. ASSUME NEW i \in Jobs, Submit(i) \/ Refuse(i) \/ Forward(i) \/ ColdFails(i)  PROVE Out
  BY <1>1, <1>2 DEF Submit, Refuse, Forward, ColdFails
<1>3. ASSUME NEW i \in Jobs, Place(i)  PROVE Out
  <2>1. PICK N \in SUBSET Handles : /\ \A k \in N : Fresh(k)
                                    /\ \A k \in Handles \ N : Alike(k)
                                    /\ pool' \subseteq pool \cup N
    BY <1>3, PlaceShape
  <2>2. h \notin N
    BY <1>a, <2>1 DEF Fresh
  <2>3. Alike(h)
    BY <2>1, <2>2
  <2>4. Hand(j, h)
    BY <1>a, <2>3 DEF Alike, Hand
  <2> QED  BY <2>1, <2>2, <2>3, <2>4 DEF Over, Alike
<1>4. ASSUME NEW i \in Jobs, Warm(i) \/ ColdReady(i)  PROVE Out
  <2>1. PICK k \in Handles : EnsurePump(k)
    BY <1>4, JobIs DEF Warm, ColdReady
  <2>2. pool' = pool
    BY <1>4 DEF Warm, ColdReady
  <2>3. CASE Becomes(k, hd[k].status, hd[k].ready, hd[k].starter, hd[k].queue,
                     hd[k].current, hd[k].pump)
    BY <2>2, <2>3, HeldBut
  <2>4. CASE Becomes(k, hd[k].status, hd[k].ready, hd[k].starter, hd[k].queue,
                     hd[k].current, "waiting")
    <3>1. k # h
      BY <1>a, <2>4 DEF Becomes
    <3> QED  BY <2>2, <2>4, <3>1, HeldBut
  <2> QED  BY <2>1, <2>3, <2>4, EnsureShape
<1>5. ASSUME NEW i \in Jobs, Cold(i)  PROVE Out
  <2>1. PICK k \in Handles, st \in ContainerStatus :
          /\ st \in Retired <=> hd[k].status \in Retired
          /\ Becomes(k, st, hd[k].ready, hd[k].starter, hd[k].queue, hd[k].current, hd[k].pump)
    BY <1>5, ColdShape
  <2>2. pool' = pool
    BY <1>5 DEF Cold
  <2> QED  BY <2>1, <2>2, HeldBut
<1>6. ASSUME NEW i \in Jobs, Enqueue(i)  PROVE Out
  <2>1. PICK k \in Handles :
          /\ k = job[i].on
          /\ Becomes(k, "BUSY", hd[k].ready, hd[k].starter, Append(hd[k].queue, i),
                     hd[k].current, hd[k].pump)
    BY <1>6, EnqueueShape
  <2>2. pool' = pool /\ i # j
    BY <1>6, <1>c DEF Enqueue
  <2>3. hd[k].status \in Retired => job'[i].late # "never"
    BY <1>6, <2>1, JobQueued DEF Live
  <2>4. hd[k].status \notin Retired
    BY <2>2, <2>3 DEF Revived
  <2> QED  BY <2>1, <2>2, <2>4, HeldBut
<1>7. ASSUME NEW k \in Handles, SpawnStep(k)  PROVE Out
  <2>1. PICK st \in ContainerStatus, rd \in BOOLEAN, sr \in {"polling", "ended"} :
           /\ hd[k].starter \in {"spawning", "polling"}
           /\ Becomes(k, st, rd, sr, hd[k].queue, hd[k].current, hd[k].pump)
           /\ pool' = pool
    BY <1>7, SpawnShape
  <2>2. hd[k].pump = "none"
    BY <2>1, KnownAll DEF KnownAt
  <2>3. k # h
    BY <1>a, <2>1, <2>2 DEF Becomes
  <2> QED  BY <2>1, <2>3, HeldBut
<1>8. ASSUME NEW k \in Handles, PumpTake(k)  PROVE Out
  <2>1. /\ Becomes(k, hd[k].status, hd[k].ready, hd[k].starter, Tail(hd[k].queue),
                   Head(hd[k].queue), "sent")
        /\ pool' = pool
    BY <1>8, TakeShape DEF PumpTake
  <2>2. Head(hd[k].queue) \in InQueue(hd[k].queue)
    BY <1>8, HandleIs, Taken DEF PumpTake
  <2>3. k # h
    BY <1>a, <1>c, <2>1, <2>2 DEF Becomes, Waits, QueueAt
  <2> QED  BY <2>1, <2>3, HeldBut
<1>9. ASSUME NEW k \in Handles, PumpExit(k) \/ PumpDone(k) \/ PumpIdle(k) \/ PumpReceive(k)
                                \/ PumpFinish(k)
      PROVE  Out
  <2>1. pool' = pool
    BY <1>9 DEF PumpExit, PumpDone, PumpIdle, PumpReceive, PumpFinish
  <2>2. PICK st, q, c, p : /\ Becomes(k, st, hd[k].ready, hd[k].starter, q, c, p)
                           /\ p \in {"ended", "waiting", "reported"}
    BY <1>9, PumpShape DEF PumpIdle
  <2>3. k # h
    BY <1>a, <2>2 DEF Becomes
  <2> QED  BY <2>1, <2>2, <2>3, HeldBut
<1>10. ASSUME NEW k \in Handles, ContainerDies(k)  PROVE Out
  <2>1. /\ Becomes(k, hd[k].status, hd[k].ready, hd[k].starter, hd[k].queue, hd[k].current,
                   hd[k].pump)
        /\ pool' = pool
    BY <1>10, DiesShape DEF ContainerDies
  <2> QED  BY <2>1, HeldBut
<1>11. ASSUME NEW k \in Handles, PumpCrash(k) \/ PumpTimeout(k)  PROVE Out
  <2>1. hd[k].pump = "sent" /\ (Fail(k, "crashed") \/ Fail(k, "timeout"))
    BY <1>11 DEF PumpCrash, PumpTimeout
  <2>2. CASE /\ pool' = pool
             /\ Becomes(k, hd[k].status, hd[k].ready, hd[k].starter, hd[k].queue,
                        hd[k].current, "ended")
    <3>1. k # h
      BY <1>a, <2>2 DEF Becomes
    <3> QED  BY <2>2, <3>1, HeldBut
  <2>3. CASE /\ Live(k) /\ Dismisses(k)
             /\ Becomes(k, "DISMISSED", hd[k].ready, hd[k].starter, hd[k].queue,
                        hd[k].current, "failing")
    <3>1. pool' \subseteq pool
      BY <2>3 DEF Dismisses
    <3>2. ASSUME k = h  PROVE FALSE
      <4>1. hd[h].current = j
        BY <1>a, <2>3, <3>2 DEF Becomes
      <4>2. Hand(j, h)
        BY <2>1, <3>2, <4>1 DEF Hand
      <4> QED  BY <2>3, <3>2, <4>2 DEF Over, Live
    <3> QED  BY <2>3, <3>1, <3>2, HeldBut
  <2> QED  BY <2>1, <2>2, <2>3, FailShape
<1>12. ASSUME NEW i \in Jobs, NEW k \in Handles, CancelInFlight(i, k)  PROVE Out
  <2>1. /\ Dismisses(k)
        /\ Becomes(k, "DISMISSED", hd[k].ready, hd[k].starter, <<>>, hd[k].current, hd[k].pump)
    BY <1>12, CancelShape
  <2>2. pool' \subseteq pool
    BY <2>1 DEF Dismisses
  <2> QED  BY <1>b, <2>1, <2>2, HeldBut
<1>13. ASSUME NEW i \in Jobs, NEW k \in Handles, CancelQueued(i, k)  PROVE Out
  <2>1. /\ Becomes(k, hd[k].status, hd[k].ready, hd[k].starter, Without(hd[k].queue, i),
                   hd[k].current, hd[k].pump)
        /\ pool' = pool
    BY <1>13, CancelQueuedShape DEF CancelQueued
  <2> QED  BY <2>1, HeldBut
<1>14. ASSUME SweepDismiss  PROVE Out
  <2>1. PICK k \in Handles :
          /\ Dismisses(k)
          /\ Becomes(k, "DISMISSED", hd[k].ready, hd[k].starter, hd[k].queue, hd[k].current,
                     hd[k].pump)
    BY <1>14, SweepShape
  <2>2. pool' \subseteq pool
    BY <2>1 DEF Dismisses
  <2> QED  BY <1>b, <2>1, <2>2, HeldBut
<1>15. ASSUME NEW k \in Handles, SweepPick(k)  PROVE Out
  BY <1>1, <1>15 DEF SweepPick
<1> HIDE DEF Out
<1>16. Out
  BY <1>2, <1>3, <1>4, <1>5, <1>6, <1>7, <1>8, <1>9, <1>10, <1>11, <1>12, <1>13, <1>14,
     <1>15, NextCases DEF HandleStep
<1> QED  BY <1>16 DEF Out

LEMMA CancelledStep ==
  ASSUME ContainerInv, ContainerNext, QueuesOnce', HandsHold'
  PROVE  CancelledIsOver'
<1> SUFFICES ASSUME NEW j \in Jobs, "cancelled" \in InQueue(reports'[j]), ~Revived(j)'
             PROVE  Over(j)'
  BY DEF CancelledIsOver, Over, Live
<1>0. ContainerTypeOK /\ PoolStarted /\ NoSlotLeaks /\ PumpsKnown /\ PoolWorks
  BY DEF ContainerInv, Pumping
<1>1. \A h \in Handles : Waits(h)
  BY PlacesAt DEF ContainerInv, Places
<1>2. ~Revived(j)
  BY <1>0, RevivedStays
<1>3. CASE "cancelled" \in InQueue(reports[j])
  <2>1. Over(j)
    BY <1>2, <1>3, OverAll DEF ContainerInv
  <2>2. job'[j].at = "ended"
    BY <1>0, <1>1, <2>1, EndedStays
  <2>3. \A h \in Handles : Hand(j, h)' =>
          h \notin pool' /\ hd'[h].status \in Retired /\ hd'[h].pump = "sent"
    BY <1>0, <1>1, <2>1, OverHeld
  <2> QED  BY <2>2, <2>3 DEF Over
<1>4. CASE "cancelled" \notin InQueue(reports[j])
  <2>1. PICK h \in Handles : CancelInFlight(j, h) \/ CancelQueued(j, h)
    BY <1>0, <1>4, NewlyCancelled
  <2>2. CASE CancelQueued(j, h)
    <3>1. Moves(j, "ended", job[j].on)
      BY <1>0, <2>2, CancelQueuedShape
    <3>2. job'[j].at = "ended" /\ job'[j].on = job[j].on
      BY <3>1 DEF Moves
    <3>3. job[j].on = h /\ ~Hand(j, h)
      BY <1>1, <2>2 DEF CancelQueued, Waits, QueueAt
    <3>4. \A k \in Handles : Hand(j, k)' => k = h
      BY <3>2, <3>3 DEF HandsHold
    <3>5. hd'[h].current = hd[h].current /\ hd'[h].pump = hd[h].pump
      BY <1>0, <2>2, CancelQueuedShape DEF Becomes
    <3>6. \A k \in Handles : ~Hand(j, k)'
      BY <3>3, <3>4, <3>5 DEF Hand
    <3> QED  BY <3>2, <3>6 DEF Over
  <2>3. CASE CancelInFlight(j, h)
    <3>1. /\ Dismisses(h) /\ h \in pool /\ hd[h].current = j /\ Keeps
          /\ Becomes(h, "DISMISSED", hd[h].ready, hd[h].starter, <<>>, hd[h].current, hd[h].pump)
      BY <1>0, <2>3, CancelShape
    <3>2. budget.stops = 0 /\ ~(budget'.stops > 0)
      BY <1>0, <1>2 DEF Revived, ContainerTypeOK
    <3>3. pool' = pool \ {h}
      BY <3>1, <3>2 DEF Dismisses
    <3>4. j # Nobody
      BY ContainerAssumption
    <3>5. hd[h].pump = "sent"
      BY <1>0, <3>1, <3>2, <3>4 DEF PoolWorks
    <3>6. Hand(j, h)
      BY <3>1, <3>5 DEF Hand
    <3>7. job[j].on = h /\ job[j].at \in {"queued", "ended"}
      BY <1>1, <3>6 DEF Waits, HandAt
    <3>8. job'[j].at = "ended"
      BY <1>0, <2>3, <3>7, CancelShape
    <3>9. job'[j].on = h
      BY <3>1, <3>7 DEF Keeps
    <3>10. \A k \in Handles : Hand(j, k)' => k = h
      BY <3>9 DEF HandsHold
    <3>11. hd'[h].status \in Retired /\ hd'[h].pump = "sent"
      BY <3>1, <3>5 DEF Becomes, Retired
    <3> QED  BY <3>3, <3>8, <3>10, <3>11 DEF Over
  <2> QED  BY <2>1, <2>2, <2>3
<1> QED  BY <1>3, <1>4

-----------------------------------------------------------------------------
(* The invariant *)

LEMMA ContainerInitially == ContainerInit => ContainerInv
<1> SUFFICES ASSUME ContainerInit  PROVE ContainerInv
  OBVIOUS
<1>1. /\ job = [j \in Jobs |-> [at |-> "new", on |-> Nobody, attempts |-> 0, late |-> "never"]]
      /\ reports = [j \in Jobs |-> <<>>] /\ asked = {} /\ router = Nobody
      /\ hd = [h \in Handles |-> NoHandle] /\ pool = {}
      /\ pumpOf = [s \in Slots |-> Nobody] /\ grants = {} /\ sweeping = Nobody
      /\ budget = [deaths |-> 0, sweeps |-> 0, cancels |-> 0, stops |-> 0]
  BY DEF ContainerInit
<1>2. /\ NoHandle \in ContainerHandle /\ NoHandle.queue = <<>> /\ NoHandle.pump = "none"
      /\ NoHandle.ready = FALSE
  <2>1. 0 \in Slots /\ <<>> \in Seq(Jobs) /\ 0 \in Nat
    BY ContainerAssumption DEF Slots
  <2>2. "STARTING" \in ContainerStatus
    BY DEF ContainerStatus
  <2> QED  BY <2>1, <2>2 DEF NoHandle, ContainerHandle, Pumps
<1>3. \A h \in Handles : hd[h] = NoHandle
  BY <1>1
<1>4. \A j \in Jobs : job[j].at = "new" /\ reports[j] = <<>>
  BY <1>1
<1>5. JobsOK
  <2>1. 0 \in 0 .. MaxRetries
    BY ContainerAssumption
  <2> QED  BY <1>1, <2>1 DEF JobsOK, JobState, Stages
<1>6. HandlesOK
  BY <1>1, <1>2, <1>3 DEF HandlesOK
<1>7. ReportsOK /\ OthersOK
  BY <1>1 DEF ReportsOK, OthersOK, Budgets
<1>8. PoolStarted /\ NoSlotLeaks /\ PoolWorks
  BY <1>1 DEF PoolStarted, NoSlotLeaks, PoolWorks
<1>9. \A h \in Handles : hd[h].queue = <<>> /\ hd[h].pump = "none" /\ ~hd[h].ready
  BY <1>2, <1>3
<1>10. QueuesOnce /\ HandsHold
  BY <1>9, EmptyQueue DEF QueuesOnce, HandsHold, Hand
<1>11. ReportsFollow
  BY <1>1, <1>4 DEF ReportsFollow
<1>12. PumpsKnown
  BY <1>9 DEF PumpsKnown, PumpAlive
<1>13. CancelledIsOver
  BY <1>4, EmptyQueue DEF CancelledIsOver
<1> QED  BY <1>5, <1>6, <1>7, <1>8, <1>10, <1>11, <1>12, <1>13, TypeParts
         DEF ContainerInv, Places, Pumping

LEMMA ContainerStep == ContainerInv /\ [ContainerNext]_contVars => ContainerInv'
<1> SUFFICES ASSUME ContainerInv, [ContainerNext]_contVars  PROVE ContainerInv'
  OBVIOUS
<1>1. ContainerTypeOK /\ PoolStarted /\ NoSlotLeaks /\ Places /\ Pumping /\ CancelledIsOver
  BY DEF ContainerInv
<1>2. CASE ContainerNext
  <2>1. ContainerTypeOK' /\ PoolStarted' /\ NoSlotLeaks'
    BY <1>1, <1>2, ContainerTypeStep, SlotsStep
  <2>2. QueuesOnce' /\ HandsHold'
    BY <1>1, <1>2, WaitsStep DEF Places
  <2>3. ReportsFollow'
    BY <1>1, <1>2, ReportsStepFollow
  <2>4. PumpsKnown' /\ PoolWorks'
    BY <1>1, <1>2, PumpsStep, WorksStep DEF Pumping
  <2>5. CancelledIsOver'
    BY <1>2, <2>2, CancelledStep
  <2> QED  BY <2>1, <2>2, <2>3, <2>4, <2>5 DEF ContainerInv, Places, Pumping
<1>3. CASE UNCHANGED contVars
  <2>1. UNCHANGED <<job, reports, asked, router, hd, pool, pumpOf, grants, sweeping, budget>>
    BY <1>3 DEF contVars
  <2>2. ContainerTypeOK'
    BY <1>1, <2>1 DEF ContainerTypeOK
  <2>3. PoolStarted' /\ NoSlotLeaks'
    BY <1>1, <2>1 DEF PoolStarted, NoSlotLeaks
  <2>4. Places'
    BY <1>1, <2>1 DEF Places, QueuesOnce, HandsHold, ReportsFollow, Hand
  <2>5. Pumping'
    BY <1>1, <2>1 DEF Pumping, PumpsKnown, PoolWorks, PumpAlive, Live
  <2>6. CancelledIsOver'
    BY <1>1, <2>1 DEF CancelledIsOver, Revived, Hand, Live
  <2> QED  BY <2>2, <2>3, <2>4, <2>5, <2>6 DEF ContainerInv
<1> QED  BY <1>2, <1>3

\* The invariant is inductive: every behaviour stays in it.
THEOREM ContainerInvariant == ContainerSpec => []ContainerInv
<1>1. ContainerInit => ContainerInv
  BY ContainerInitially
<1>2. ContainerInv /\ [ContainerNext]_contVars => ContainerInv'
  BY ContainerStep
<1> QED  BY <1>1, <1>2, PTL DEF ContainerSpec

\* Jobs, handles, slots and reports keep their types: a job that waits is on a handle, a
\* pump at work has a job, and no job is retried more often than max_retries.
THEOREM ContainerTypes == ContainerSpec => []ContainerTypeOK
<1>1. ContainerInv => ContainerTypeOK
  BY DEF ContainerInv
<1> QED  BY <1>1, ContainerInvariant, PTL

\* The leader's ledger never holds a slot for a container that this endpoint has
\* forgotten, whoever dismisses it and whatever Docker fails to stop.
THEOREM SlotsNeverLeak == ContainerSpec => []NoSlotLeaks
<1>1. ContainerInv => NoSlotLeaks
  BY DEF ContainerInv
<1> QED  BY <1>1, ContainerInvariant, PTL

LEMMA NoRetry ==
  ASSUME ContainerInv, [ContainerNext]_contVars, NEW j \in Jobs,
         job[j].at \notin {"new", "placing"}, job'[j].at = "placing",
         "cancelled" \in InQueue(reports[j])
  PROVE  Revived(j)
<1> SUFFICES ASSUME ~Revived(j)  PROVE FALSE
  OBVIOUS
<1>1. Over(j)
  BY OverAll DEF ContainerInv
<1>2. \A h \in Handles : Waits(h)
  BY PlacesAt DEF ContainerInv, Places
<1>3. CASE ContainerNext
  <2>1. job'[j].at = "ended"
    BY <1>1, <1>2, <1>3, EndedStays DEF ContainerInv
  <2> QED  BY <2>1
<1>4. CASE UNCHANGED contVars
  BY <1>4 DEF contVars
<1> QED  BY <1>3, <1>4

\* A cancelled job is never tried again, but for a handle that Docker failed to remove or
\* that _enqueue_job marked BUSY for another job after the cancel had retired it.
THEOREM CancelledNeverRetried == ContainerSpec => CancelIsFinal
<1> DEFINE Final ==
      \A j \in Jobs :
        /\ job[j].at \notin {"new", "placing"} /\ job'[j].at = "placing"
        /\ "cancelled" \in InQueue(reports[j])
        => budget.stops > 0 \/ \E k \in Jobs \ {j} : job[k].late # "never"
<1>1. ContainerInv /\ [ContainerNext]_contVars => Final
  BY NoRetry DEF Revived
<1>2. ContainerInv /\ [ContainerNext]_contVars => [Final]_contVars
  BY <1>1
<1> QED  BY <1>2, ContainerInvariant, PTL DEF ContainerSpec, CancelIsFinal

-----------------------------------------------------------------------------
(* The runtime implements the board: what a poll of job j returns *)

Shown(j) == IF reports[j] # <<>> THEN reports[j][Len(reports[j])]
            ELSE IF job[j].at # "new" THEN "pending" ELSE "unknown"

\* Only a submission makes a job known, and a report comes while the job is under way
\* or has been asked to be cancelled.
Grows(k) ==
  /\ job'[k].at = "new" <=> job[k].at = "new"
  /\ \/ reports'[k] = reports[k]
     \/ /\ reports'[k] # <<>>
        /\ job[k].at # "ended" \/ k \in asked'

LEMMA AppendedSome ==
  ASSUME NEW s \in Seq(Outcomes), NEW o \in Outcomes
  PROVE  Append(s, o) # <<>>
<1>1. /\ Len(s) \in Nat /\ Len(Append(s, o)) = Len(s) + 1 /\ Append(s, o) \in Seq(Outcomes)
  BY LenProperties, AppendProperties
<1>2. Len(Append(s, o)) # 0
  BY <1>1
<1> QED  BY <1>1, <1>2, EmptySeq

LEMMA GrowsMoved ==
  ASSUME ContainerTypeOK, NEW j \in Jobs, NEW at, NEW on, Moves(j, at, on), at # "new",
         job[j].at # "new", job[j].at # "ended" \/ j \in asked',
         reports' = reports \/ \E o \in Outcomes : Report({j}, o), NEW k \in Jobs
  PROVE  Grows(k)
<1>1. CASE k # j
  <2>1. job'[k] = job[k] /\ reports'[k] = reports[k]
    BY <1>1, ReportedOne DEF Moves
  <2> QED  BY <2>1 DEF Grows
<1>2. CASE k = j
  <2>1. job'[j].at = at
    BY DEF Moves
  <2>2. \A o \in Outcomes : Append(reports[j], o) # <<>>
    BY AppendedSome DEF ContainerTypeOK
  <2>3. reports'[j] = reports[j] \/ reports'[j] # <<>>
    BY <2>2, ReportedOne
  <2> QED  BY <1>2, <2>1, <2>3 DEF Grows
<1> QED  BY <1>1, <1>2

LEMMA ReportsGrow ==
  ASSUME ContainerInv, ContainerNext, ~\E j \in Jobs : Submit(j), NEW k \in Jobs
  PROVE  Grows(k)
<1>0. ContainerTypeOK /\ PoolStarted /\ NoSlotLeaks /\ Places
  BY DEF ContainerInv
<1>00. \A h \in Handles : Waits(h)
  BY <1>0, PlacesAt DEF Places
<1>01. /\ "refused" \in Outcomes /\ "notready" \in Outcomes /\ "done" \in Outcomes
       /\ "cancelled" \in Outcomes /\ "crashed" \in Outcomes
  BY DEF Outcomes
<1>02. reports[k] \in Seq(Outcomes)
  BY <1>0 DEF ContainerTypeOK
<1>1. ASSUME NEW j \in Jobs, Refuse(j) \/ Forward(j) \/ Place(j) \/ Warm(j) \/ Cold(j)
                             \/ ColdReady(j) \/ ColdFails(j) \/ Enqueue(j)
      PROVE  Grows(k)
  <2>1. job[j].at # "new" /\ job[j].at # "ended"
    BY <1>1 DEF Refuse, Forward, Place, Warm, Cold, ColdReady, ColdFails, Enqueue
  <2>2. reports' = reports \/ Report({j}, "refused") \/ Report({j}, "notready")
    BY <1>0, <1>1, PlaceShape DEF Refuse, Forward, Warm, Cold, ColdReady, ColdFails, Enqueue
  <2>3. CASE \E at \in Stages \ {"new"} : job' = [job EXCEPT ![j].at = at]
    BY <1>0, <1>01, <2>1, <2>2, <2>3, StageChanged, GrowsMoved
  <2>4. CASE Refuse(j) \/ Place(j) \/ Enqueue(j)
    <3>1. \E at \in Stages \ {"new"} : \E on : Moves(j, at, on)
      BY <1>0, <2>4, JobEnded, PlaceShape, JobQueued DEF Refuse, Stages
    <3> QED  BY <1>0, <1>01, <2>1, <2>2, <3>1, GrowsMoved
  <2> QED  BY <1>1, <2>3, <2>4 DEF Forward, Warm, Cold, ColdReady, ColdFails, Stages
<1>2. ASSUME NEW h \in Handles, PumpReceive(h)  PROVE Grows(k)
  <2>1. PICK j \in Jobs : j = hd[h].current
    BY <1>0, <1>2 DEF PumpReceive, ContainerTypeOK
  <2>2. Moves(j, "ended", job[j].on) /\ Report({j}, "done") /\ asked' = asked
    BY <1>0, <1>2, <2>1, JobEnded DEF PumpReceive
  <2>3. job[j].at \in {"queued", "ended"} /\ (j \notin asked => job[j].at = "queued")
    BY <1>00, <1>2, <2>1 DEF PumpReceive, Hand, Waits, HandAt
  <2> QED  BY <1>0, <1>01, <2>2, <2>3, GrowsMoved
<1>3. ASSUME NEW h \in Handles, PumpFinish(h)  PROVE Grows(k)
  <2>0. asked' = asked
    BY <1>3 DEF PumpFinish
  <2>1. CASE k = hd[h].current \/ k \in InQueue(hd[h].queue)
    <3>1. job[k].at \in {"queued", "ended"} /\ (k \notin asked => job[k].at = "queued")
      BY <1>0, <1>00, <1>3, <2>1, LostJobs
    <3>2. PICK o \in Outcomes : o = IF k = hd[h].current THEN hd[h].ending ELSE "crashed"
      BY <1>0, HandleIs DEF Outcomes
    <3>3. job'[k].at \in {"placing", "ended"} /\ reports'[k] \in {reports[k], Append(reports[k], o)}
      BY <1>0, <1>3, <2>1, <3>2, FinishShape
    <3>4. Append(reports[k], o) # <<>>
      BY <1>02, AppendedSome
    <3> QED  BY <2>0, <3>1, <3>3, <3>4 DEF Grows
  <2>2. CASE ~(k = hd[h].current \/ k \in InQueue(hd[h].queue))
    <3>1. job'[k] = job[k] /\ reports'[k] = reports[k]
      BY <1>0, <1>3, <2>2, FinishShape
    <3> QED  BY <3>1 DEF Grows
  <2> QED  BY <2>1, <2>2
<1>4. ASSUME NEW j \in Jobs, NEW h \in Handles, CancelInFlight(j, h)  PROVE Grows(k)
  <2>0. asked' = asked \cup {j} /\ job[j].at # "new"
    BY <1>0, <1>4, CancelShape
  <2>1. CASE k = j
    <3>1. job'[k].at \in {job[k].at, "ended"}
      BY <1>0, <1>4, CancelShape
    <3>2. Append(reports[k], "cancelled") \in Seq(Outcomes) /\ Append(reports[k], "cancelled") # <<>>
      BY <1>01, <1>02, Appended, AppendedSome
    <3>3. Append(Append(reports[k], "cancelled"), "crashed") # <<>>
      BY <1>01, <3>2, AppendedSome
    <3>4. reports'[k] # <<>>
      BY <1>0, <1>4, <2>1, <3>2, <3>3, CancelReported
    <3> QED  BY <2>0, <2>1, <3>1, <3>4 DEF Grows
  <2>2. CASE k # j /\ k \in InQueue(hd[h].queue)
    <3>1. job[k].at = "queued" /\ job[k].on = h
      BY <1>00, <2>2 DEF Waits, QueueAt
    <3>2. job'[k].at = "ended"
      BY <1>0, <1>4, <2>2, <3>1, CancelShape
    <3>3. reports'[k] = Append(reports[k], "crashed")
      BY <1>0, <1>4, <2>2, CancelReported
    <3> QED  BY <1>01, <1>02, <3>1, <3>2, <3>3, AppendedSome DEF Grows
  <2>3. CASE k # j /\ k \notin InQueue(hd[h].queue)
    <3>1. job'[k] = job[k] /\ reports'[k] = reports[k]
      BY <1>0, <1>4, <2>3, CancelShape, CancelReported
    <3> QED  BY <3>1 DEF Grows
  <2> QED  BY <2>1, <2>2, <2>3
<1>5. ASSUME NEW j \in Jobs, NEW h \in Handles, CancelQueued(j, h)  PROVE Grows(k)
  <2>1. Moves(j, "ended", job[j].on)
    BY <1>0, <1>5, CancelQueuedShape
  <2>2. Report({j}, "cancelled") /\ j \in asked' /\ job[j].at # "new"
    BY <1>5 DEF CancelQueued, MayCancel
  <2> QED  BY <1>0, <1>01, <2>1, <2>2, GrowsMoved
<1>6. ASSUME UNCHANGED <<job, reports>>  PROVE Grows(k)
  BY <1>6 DEF Grows
<1> QED  BY <1>1, <1>2, <1>3, <1>4, <1>5, <1>6, HandleStepFrame, NextCases DEF SweepDismiss

LEMMA BoardInitial == ContainerInit => Board!BoardInit
<1> SUFFICES ASSUME ContainerInit  PROVE Board!BoardInit
  OBVIOUS
<1>1. \A j \in Jobs : reports[j] = <<>> /\ job[j].at = "new"
  BY DEF ContainerInit
<1>2. asked = {}
  BY DEF ContainerInit
<1> QED  BY <1>1, <1>2 DEF Board!BoardInit

\* The last of a job's reports is an outcome.
LEMMA LastReport ==
  ASSUME NEW s \in Seq(Outcomes), s # <<>>
  PROVE  s[Len(s)] \in Outcomes
<1>1. Len(s) \in Nat /\ Len(s) # 0
  BY LenProperties, EmptySeq
<1>2. Len(s) \in 1 .. Len(s)
  BY <1>1
<1> QED  BY <1>2, ElementOfSeq

\* The jobs of which something was reported have ended.
LEMMA BoardEnds ==
  ASSUME ContainerInv, ContainerTypeOK', \A k \in Jobs : Grows(k), NEW A, asked' = A,
         asked \subseteq A, NEW J \in SUBSET Jobs, \A j \in Jobs : j \in J <=> reports'[j] # reports[j]
  PROVE  Board!End(J, A)
<1>1. \A j \in J : reports'[j] # <<>> /\ reports'[j] \in Seq(Outcomes)
  BY DEF Grows, ContainerTypeOK
<1>2. \A j \in J : Shown(j)' \in Outcomes
  BY <1>1, LastReport DEF Shown
<1>3. \A j \in Jobs : j \notin J => Shown(j)' = Shown(j)
  BY DEF Shown, Grows
<1>4. \A j \in J : reports[j] = <<>> \/ j \in A
  <2> SUFFICES ASSUME NEW j \in J, j \notin A  PROVE reports[j] = <<>>
    OBVIOUS
  <2>1. job[j].at # "ended" /\ j \notin asked
    BY DEF Grows
  <2> QED  BY <2>1 DEF ContainerInv, Places, ReportsFollow
<1>5. \A j \in J : Shown(j) \in {"unknown", "pending"} \/ j \in A
  BY <1>4 DEF Shown
<1>6. PICK f \in [J -> Outcomes] : \A j \in J : f[j] = Shown(j)'
  <2> DEFINE g == [j \in J |-> Shown(j)']
  <2>1. g \in [J -> Outcomes] /\ \A j \in J : g[j] = Shown(j)'
    BY <1>2
  <2> QED  BY <2>1
<1>7. [j \in Jobs |-> Shown(j)]' = [j \in Jobs |-> IF j \in J THEN f[j] ELSE Shown(j)]
  BY <1>3, <1>6
<1> QED  BY <1>5, <1>7 DEF Board!End, Shown

\* Every step of the runtime is a step of the board, or one that a poll cannot see.
LEMMA BoardStep ==
  ASSUME ContainerInv, ContainerInv', [ContainerNext]_contVars
  PROVE  [Board!BoardNext]_(Board!boardVars)
<1>1. CASE UNCHANGED contVars
  BY <1>1 DEF contVars, Board!boardVars
<1>2. ASSUME NEW j \in Jobs, Submit(j)  PROVE Board!BoardNext
  <2>1. job[j].at = "new" /\ job' = [job EXCEPT ![j].at = "placing"] /\ UNCHANGED <<reports, asked>>
    BY <1>2 DEF Submit
  <2>2. Moves(j, "placing", job[j].on)
    BY <2>1, StageChanged DEF ContainerInv, Stages
  <2>3. reports[j] = <<>>
    BY <2>1 DEF ContainerInv, Places, ReportsFollow
  <2>4. Shown(j) = "unknown" /\ Shown(j)' = "pending"
    BY <2>1, <2>2, <2>3 DEF Shown, Moves
  <2>5. \A k \in Jobs : k # j => Shown(k)' = Shown(k)
    BY <2>1, <2>2 DEF Shown, Moves
  <2>6. [k \in Jobs |-> Shown(k)]' = [[k \in Jobs |-> Shown(k)] EXCEPT ![j] = "pending"]
    BY <2>4, <2>5
  <2>7. Board!Submit(j)
    BY <2>1, <2>4, <2>6 DEF Board!Submit, Shown
  <2> QED  BY <2>7 DEF Board!BoardNext
<1>3. ASSUME ContainerNext, ~\E j \in Jobs : Submit(j)  PROVE Board!BoardNext
  <2>1. \A k \in Jobs : Grows(k)
    BY <1>3, ReportsGrow
  <2>2. PICK J \in SUBSET Jobs : \A j \in Jobs : j \in J <=> reports'[j] # reports[j]
    <3> DEFINE S == {j \in Jobs : reports'[j] # reports[j]}
    <3>1. S \in SUBSET Jobs /\ \A j \in Jobs : j \in S <=> reports'[j] # reports[j]
      OBVIOUS
    <3> QED  BY <3>1
  <2>3. asked' = asked \/ \E j \in Jobs : asked' = asked \cup {j}
    <3>1. ASSUME NEW j \in Jobs, \/ Submit(j) \/ Refuse(j) \/ Forward(j) \/ Place(j) \/ Warm(j)
                                 \/ Cold(j) \/ ColdReady(j) \/ ColdFails(j) \/ Enqueue(j)
          PROVE  asked' = asked
      BY <3>1 DEF Submit, Refuse, Forward, Place, Warm, Cold, ColdReady, ColdFails, Enqueue
    <3>2. ASSUME NEW h \in Handles, PumpReceive(h) \/ PumpFinish(h)  PROVE asked' = asked
      BY <3>2 DEF PumpReceive, PumpFinish
    <3>3. ASSUME NEW j \in Jobs, NEW h \in Handles, CancelInFlight(j, h) \/ CancelQueued(j, h)
          PROVE  asked' = asked \cup {j}
      BY <3>3 DEF CancelInFlight, CancelQueued
    <3> QED  BY <1>3, <3>1, <3>2, <3>3, HandleStepFrame, NextCases DEF SweepDismiss
  <2>4. PICK A : A = asked'
    OBVIOUS
  <2>5. Board!End(J, A)
    BY <2>1, <2>2, <2>3, <2>4, BoardEnds DEF ContainerInv
  <2>6. CASE asked' = asked
    <3>1. Board!End(J, asked)
      BY <2>4, <2>5, <2>6 DEF Board!End
    <3>2. Board!Settle(J)
      BY <2>6, <3>1 DEF Board!Settle
    <3> QED  BY <3>2 DEF Board!BoardNext
  <2>7. ASSUME NEW j \in Jobs, asked' = asked \cup {j}  PROVE Board!BoardNext
    <3>1. Board!End(J, asked \cup {j})
      BY <2>4, <2>5, <2>7 DEF Board!End
    <3>2. Board!Cancel(j, J)
      BY <2>7, <3>1 DEF Board!Cancel
    <3> QED  BY <3>2 DEF Board!BoardNext
  <2> QED  BY <2>3, <2>6, <2>7
<1> QED  BY <1>1, <1>2, <1>3

\* The containers of an endpoint implement the board for any number of jobs, handles and
\* slots: a result is pending until it is settled, and a settled result changes only for a
\* job somebody asked to cancel, whatever crashes, is swept or is tried again.
THEOREM ContainersImplementBoard == ContainerSpec => ImplementsBoard
<1>1. ContainerInit => Board!BoardInit
  BY BoardInitial
<1>2. ContainerInv /\ ContainerInv' /\ [ContainerNext]_contVars
        => [Board!BoardNext]_(Board!boardVars)
  BY BoardStep
<1> QED  BY <1>1, <1>2, ContainerInvariant, PTL
         DEF ContainerSpec, ImplementsBoard, Board!BoardSpec
=============================================================================
