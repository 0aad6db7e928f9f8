------------------------ MODULE ProcessRuntimeProofs ------------------------
(***************************************************************************)
(* Theorems about ProcessRuntime, for any jobs, workers and bounds.  A job  *)
(* is always in at most one place: with the router that is about to queue   *)
(* it, once in one queue, or in the hand of one pump.  As long as it waits  *)
(* it has no report; the only worker that can report a job after its        *)
(* cancellation is the one the cancellation killed, and it has left the     *)
(* pool, where no second cancel will find it.                               *)
(***************************************************************************)
EXTENDS ProcessRuntime, SequenceTheorems, WellFoundedInduction, TLAPS

NoneTwice(q) == \A i, k \in DOMAIN q : q[i] = q[k] /\ q[i] \in Jobs => i = k

\* A job is in one place at a time.
PlacesUnique ==
  /\ \A w \in Workers : NoneTwice(wk[w].queue)
  /\ \A v, w \in Workers : v # w =>
       JobsIn(wk[v].queue) \cap JobsIn(wk[w].queue) = {}
  /\ \A v, w \in Workers : wk[v].hand \notin JobsIn(wk[w].queue)
  /\ \A v, w \in Workers : v # w /\ wk[v].hand = wk[w].hand => wk[v].hand = Nobody
  /\ call.op = "put" =>
       \A w \in Workers : call.job \notin JobsIn(wk[w].queue) /\ call.job # wk[w].hand

\* Only submitted jobs are anywhere, and only those can be cancelled.
OnlySent ==
  /\ asked \subseteq sent
  /\ call.op \in {"put", "kill", "scan"} => call.job \in sent
  /\ \A w \in Workers : JobsIn(wk[w].queue) \subseteq sent
  /\ \A w \in Workers : wk[w].hand \in sent \cup {Nobody}

\* A pump has a job in its hand between taking it and clearing current_job_id.
HandsFull ==
  \A w \in Workers : (wk[w].hand # Nobody) <=> wk[w].pump \in {"taken", "running", "reported"}

\* What has been reported of a job follows from where it is.
ReportsFollow ==
  /\ \A j \in Jobs : j \notin sent => reports[j] = <<>>
  /\ call.op = "put" => reports[call.job] = <<>>
  /\ \A w \in Workers : \A j \in JobsIn(wk[w].queue) : reports[j] = <<>>
  /\ \A w \in Workers : wk[w].pump \in {"taken", "running"} =>
       \/ reports[wk[w].hand] = <<>>
       \/ wk[w].cancelled /\ wk[w].hand \in asked /\ reports[wk[w].hand] = <<"cancelled">>
  /\ \A w \in Workers : wk[w].pump = "reported" /\ ~wk[w].cancelled =>
       Len(reports[wk[w].hand]) = 1

\* A cancel kills a worker that nobody has cancelled before, and its job is with that
\* worker or nowhere any more.
KillsOnce ==
  /\ \A w \in pool : ~wk[w].cancelled
  /\ call.op \in {"kill", "scan"} => call.job \in asked
  /\ call.op = "kill" =>
       /\ ~wk[call.worker].cancelled
       /\ Len(reports[call.job]) <= 1
       /\ \A w \in Workers : call.job \notin JobsIn(wk[w].queue)
       /\ \A w \in Workers : wk[w].hand = call.job => w = call.worker

ProcessInv ==
  /\ ProcessTypeOK
  /\ PlacesUnique
  /\ OnlySent
  /\ HandsFull
  /\ ReportsFollow
  /\ KillsOnce
  /\ ReportedOnce

-----------------------------------------------------------------------------
(* Queues *)

Items == Jobs \cup {Stop}

\* Every non-empty set of natural numbers has a least element.
LEMMA LeastNumber ==
  ASSUME NEW T \in SUBSET Nat, T # {}
  PROVE  \E x \in T : \A y \in T : x <= y
<1> DEFINE R == OpToRel(<, Nat)
<1>1. IsWellFoundedOn(R, Nat)
  BY NatLessThanWellFounded
<1> HIDE DEF R
<1>2. PICK x \in T : \A y \in T : ~ (<<y, x>> \in R)
  BY <1>1, WFMin
<1>3. \A a, b \in Nat : a < b => <<a, b>> \in R
  BY DEF R, OpToRel
<1>4. \A y \in T : ~(y < x)
  BY <1>2, <1>3
<1>5. \A y \in T : x <= y
  BY <1>4
<1> QED  BY <1>5

LEMMA EmptyQueue == <<>> \in Seq(Items) /\ JobsIn(<<>>) = {} /\ NoneTwice(<<>>)
  BY DEF JobsIn, NoneTwice

\* A request is queued: what was there stays, in its place.
LEMMA Queued ==
  ASSUME NEW q \in Seq(Items), NEW x \in Items
  PROVE  /\ Append(q, x) \in Seq(Items)
         /\ JobsIn(Append(q, x)) = JobsIn(q) \cup ({x} \cap Jobs)
         /\ NoneTwice(q) /\ x \notin JobsIn(q) => NoneTwice(Append(q, x))
<1> DEFINE a == Append(q, x)
<1>1. /\ a \in Seq(Items) /\ Len(a) = Len(q) + 1 /\ a[Len(q) + 1] = x
      /\ \A i \in 1 .. Len(q) : a[i] = q[i]
  BY AppendProperties
<1>2. Len(q) \in Nat /\ DOMAIN q = 1 .. Len(q) /\ DOMAIN a = 1 .. Len(q) + 1
  BY <1>1, LenProperties
<1> HIDE DEF a
<1>3. JobsIn(a) = JobsIn(q) \cup ({x} \cap Jobs)
  <2>1. \A i \in DOMAIN a : a[i] = x \/ \E k \in DOMAIN q : a[i] = q[k]
    BY <1>1, <1>2
  <2>2. \A k \in DOMAIN q : k \in DOMAIN a /\ a[k] = q[k]
    BY <1>1, <1>2
  <2>3. Len(q) + 1 \in DOMAIN a
    BY <1>2
  <2> QED  BY <1>1, <2>1, <2>2, <2>3 DEF JobsIn
<1>4. ASSUME NoneTwice(q), x \notin JobsIn(q)
      PROVE  NoneTwice(a)
  <2> SUFFICES ASSUME NEW i \in DOMAIN a, NEW k \in DOMAIN a, a[i] = a[k], a[i] \in Jobs
               PROVE  i = k
    BY DEF NoneTwice
  <2>1. \A n \in DOMAIN q : a[n] = x /\ x \in Jobs => FALSE
    BY <1>1, <1>2, <1>4 DEF JobsIn
  <2>2. \A n \in DOMAIN a : n \in DOMAIN q \/ n = Len(q) + 1
    BY <1>2
  <2>3. i \in DOMAIN q /\ k \in DOMAIN q => i = k
    BY <1>1, <1>2, <1>4 DEF NoneTwice
  <2> QED  BY <1>1, <2>1, <2>2, <2>3
<1> QED  BY <1>1, <1>3, <1>4 DEF a

\* Part of a queue, in its order, holds nothing new and nothing twice.
LEMMA PartOfQueue ==
  ASSUME NEW q \in Seq(Items), NEW r \in Seq(Items),
         NEW at \in [DOMAIN r -> DOMAIN q],
         \A i \in DOMAIN r : r[i] = q[at[i]],
         \A i, k \in DOMAIN r : at[i] = at[k] => i = k
  PROVE  JobsIn(r) \subseteq JobsIn(q) /\ (NoneTwice(q) => NoneTwice(r))
<1>1. JobsIn(r) \subseteq JobsIn(q)
  BY DEF JobsIn
<1>2. ASSUME NoneTwice(q)  PROVE NoneTwice(r)
  BY <1>2 DEF NoneTwice
<1> QED  BY <1>1, <1>2

\* The head of a queue is taken.
LEMMA Taken ==
  ASSUME NEW q \in Seq(Items), q # <<>>
  PROVE  /\ Head(q) \in Items /\ Tail(q) \in Seq(Items)
         /\ JobsIn(Tail(q)) \subseteq JobsIn(q)
         /\ Head(q) \in Jobs => Head(q) \in JobsIn(q)
         /\ NoneTwice(q) => NoneTwice(Tail(q)) /\ Head(q) \notin JobsIn(Tail(q))
<1> DEFINE r == Tail(q)
<1>1. /\ Head(q) \in Items /\ r \in Seq(Items) /\ Len(r) = Len(q) - 1
      /\ \A i \in 1 .. Len(r) : r[i] = q[i + 1]
  BY HeadTailProperties
<1>2. Len(q) \in Nat \ {0} /\ DOMAIN q = 1 .. Len(q) /\ DOMAIN r = 1 .. Len(q) - 1
  BY <1>1, LenProperties, EmptySeq
<1>3. Head(q) = q[1]
  OBVIOUS
<1> HIDE DEF r
<1>4. JobsIn(r) \subseteq JobsIn(q) /\ (NoneTwice(q) => NoneTwice(r))
  <2> DEFINE at == [i \in DOMAIN r |-> i + 1]
  <2>1. at \in [DOMAIN r -> DOMAIN q]
    BY <1>2
  <2>2. /\ \A i \in DOMAIN r : r[i] = q[at[i]]
        /\ \A i, k \in DOMAIN r : at[i] = at[k] => i = k
    BY <1>1, <1>2
  <2> HIDE DEF at
  <2> QED  BY <1>1, <2>1, <2>2, PartOfQueue
<1>5. Head(q) \in Jobs => Head(q) \in JobsIn(q)
  BY <1>2, <1>3 DEF JobsIn
<1>6. ASSUME NoneTwice(q), Head(q) \in JobsIn(r)  PROVE FALSE
  <2>1. PICK i \in DOMAIN r : r[i] = Head(q) /\ Head(q) \in Jobs
    BY <1>6 DEF JobsIn
  <2>2. i + 1 \in DOMAIN q /\ 1 \in DOMAIN q /\ q[i + 1] = q[1] /\ q[1] \in Jobs /\ i + 1 # 1
    BY <1>1, <1>2, <1>3, <2>1
  <2> QED  BY <1>6, <2>2 DEF NoneTwice
<1> QED  BY <1>1, <1>4, <1>5, <1>6 DEF r

\* Draining stops at the sentinel: the rest of the queue stays.
LEMMA DrainedToStop ==
  ASSUME NEW q \in Seq(Items), HasStop(q)
  PROVE  /\ AfterStop(q) \in Seq(Items)
         /\ JobsIn(AfterStop(q)) \subseteq JobsIn(q)
         /\ NoneTwice(q) => NoneTwice(AfterStop(q))
<1> DEFINE stops == {i \in DOMAIN q : q[i] = Stop}
           first == CHOOSE i \in DOMAIN q : q[i] = Stop /\ \A k \in DOMAIN q : q[k] = Stop => i <= k
           r == SubSeq(q, first + 1, Len(q))
<1>1. Len(q) \in Nat /\ DOMAIN q = 1 .. Len(q) /\ \A i \in DOMAIN q : q[i] \in Items
  BY LenProperties, ElementOfSeq
<1>2. \E i \in DOMAIN q : q[i] = Stop /\ \A k \in DOMAIN q : q[k] = Stop => i <= k
  <2>1. stops \in SUBSET Nat /\ stops # {}
    BY <1>1 DEF HasStop
  <2>2. PICK i \in stops : \A k \in stops : i <= k
    BY <2>1, LeastNumber
  <2> QED  BY <2>2
<1>3. first \in DOMAIN q
  BY <1>2
<1>4. r = AfterStop(q)
  BY DEF AfterStop
<1> HIDE DEF first
<1>5. first \in Nat /\ first + 1 \in Int /\ Len(q) \in Int
  BY <1>1, <1>3
<1>6. /\ r \in Seq(Items)
      /\ Len(r) = IF first + 1 <= Len(q) THEN Len(q) - (first + 1) + 1 ELSE 0
      /\ \A i \in 1 .. Len(q) - (first + 1) + 1 : r[i] = q[first + 1 + i - 1]
  <2>1. \A i \in first + 1 .. Len(q) : q[i] \in Items
    BY <1>1, <1>5
  <2> HIDE DEF r
  <2> QED  BY <1>5, <2>1, SubSeqProperties DEF r
<1> HIDE DEF r
<1>7. DOMAIN r = 1 .. Len(q) - first
  BY <1>1, <1>3, <1>5, <1>6, LenProperties
<1> DEFINE at == [i \in DOMAIN r |-> first + i]
<1>8. at \in [DOMAIN r -> DOMAIN q]
  BY <1>1, <1>3, <1>5, <1>7
<1>9. /\ \A i \in DOMAIN r : r[i] = q[at[i]]
      /\ \A i, k \in DOMAIN r : at[i] = at[k] => i = k
  <2>1. \A i \in 1 .. Len(q) - first : first + 1 + i - 1 = first + i /\ i \in 1 .. Len(q) - (first + 1) + 1
    BY <1>5
  <2>2. \A i \in DOMAIN r : r[i] = q[first + i]
    BY <1>6, <1>7, <2>1
  <2>3. \A i, k \in DOMAIN r : first + i = first + k => i = k
    BY <1>5, <1>7
  <2> QED  BY <2>2, <2>3
<1> HIDE DEF at
<1>10. JobsIn(r) \subseteq JobsIn(q) /\ (NoneTwice(q) => NoneTwice(r))
  BY <1>6, <1>8, <1>9, PartOfQueue
<1> QED  BY <1>4, <1>6, <1>10

\* A queue is rebuilt without a job; if the job was in it once, it is gone.
LEMMA RebuiltWithout ==
  ASSUME NEW q \in Seq(Items), NEW j \in Jobs
  PROVE  /\ Without(q, j) \in Seq(Items)
         /\ JobsIn(Without(q, j)) \subseteq JobsIn(q)
         /\ NoneTwice(q) => NoneTwice(Without(q, j)) /\ j \notin JobsIn(Without(q, j))
<1>1. CASE j \notin JobsIn(q)
  BY <1>1 DEF Without
<1>2. CASE j \in JobsIn(q)
  <2> DEFINE pos == CHOOSE i \in DOMAIN q : q[i] = j
             at == [i \in 1 .. Len(q) - 1 |-> IF i < pos THEN i ELSE i + 1]
             r == [i \in 1 .. Len(q) - 1 |-> IF i < pos THEN q[i] ELSE q[i + 1]]
  <2>1. Len(q) \in Nat /\ DOMAIN q = 1 .. Len(q) /\ \A i \in DOMAIN q : q[i] \in Items
    BY LenProperties, ElementOfSeq
  <2>2. pos \in DOMAIN q /\ q[pos] = j
    BY <1>2 DEF JobsIn
  <2>3. r = Without(q, j)
    BY <1>2 DEF Without
  <2> HIDE DEF pos
  <2>4. Len(q) - 1 \in Nat /\ pos \in 1 .. Len(q)
    BY <2>1, <2>2
  <2>5. r \in [1 .. Len(q) - 1 -> Items]
    BY <2>1, <2>2, <2>4
  <2>6. r \in Seq(Items)
    BY <2>4, <2>5, SeqDef
  <2>7. at \in [DOMAIN r -> DOMAIN q]
    BY <2>1, <2>4
  <2>8. /\ \A i \in DOMAIN r : r[i] = q[at[i]]
        /\ \A i, k \in DOMAIN r : at[i] = at[k] => i = k
        /\ \A i \in DOMAIN r : at[i] # pos
    BY <2>1, <2>4
  <2> HIDE DEF at, r
  <2>9. JobsIn(r) \subseteq JobsIn(q) /\ (NoneTwice(q) => NoneTwice(r))
    BY <2>6, <2>7, <2>8, PartOfQueue
  <2>10. NoneTwice(q) => j \notin JobsIn(r)
    <3> SUFFICES ASSUME NoneTwice(q), NEW i \in DOMAIN r, r[i] = j  PROVE FALSE
      BY DEF JobsIn
    <3>1. at[i] \in DOMAIN q /\ q[at[i]] = j /\ at[i] # pos
      BY <2>7, <2>8
    <3> QED  BY <2>2, <3>1 DEF NoneTwice
  <2> QED  BY <2>3, <2>6, <2>9, <2>10
<1> QED  BY <1>1, <1>2

-----------------------------------------------------------------------------
(* Types *)

LEMMA TypeInit == ProcessInit => ProcessTypeOK
<1> SUFFICES ASSUME ProcessInit  PROVE ProcessTypeOK
  OBVIOUS
<1>1. NoWorker \in WorkerHandle
  BY EmptyQueue DEF NoWorker, WorkerHandle, Pumps, Items
<1>2. <<>> \in Seq(Outcomes)
  BY EmptySeq
<1> QED  BY <1>1, <1>2 DEF ProcessInit, ProcessTypeOK

\* A report is one more outcome of the jobs it is about.
LEMMA ReportTypes ==
  ASSUME ProcessTypeOK, NEW f \in [Jobs -> Outcomes], NEW J,
         reports' = [j \in Jobs |-> IF j \in J THEN Append(reports[j], f[j]) ELSE reports[j]]
  PROVE  reports' \in [Jobs -> Seq(Outcomes)]
<1>1. \A j \in Jobs : reports[j] \in Seq(Outcomes)
  BY DEF ProcessTypeOK
<1>2. \A j \in Jobs : Append(reports[j], f[j]) \in Seq(Outcomes)
  BY <1>1, AppendProperties
<1> QED  BY <1>1, <1>2

\* Jobs that lose their worker get one report each.
LEMMA TeardownReports ==
  ASSUME ProcessTypeOK, NEW a \in Outcomes, NEW b \in Outcomes,
         reports' = [j \in Jobs |-> reports'[j]],
         \A j \in Jobs : reports'[j] \in {reports[j], Append(reports[j], a), Append(reports[j], b)}
  PROVE  reports' \in [Jobs -> Seq(Outcomes)]
<1>1. \A j \in Jobs : reports[j] \in Seq(Outcomes)
  BY DEF ProcessTypeOK
<1>2. \A j \in Jobs : Append(reports[j], a) \in Seq(Outcomes)
                        /\ Append(reports[j], b) \in Seq(Outcomes)
  BY <1>1, AppendProperties
<1>3. \A j \in Jobs : reports'[j] \in Seq(Outcomes)
  BY <1>1, <1>2
<1> QED  BY <1>3

\* What a step that touches one worker makes of it.
Becomes(w, q, p, x, c) ==
  /\ wk' \in [Workers -> WorkerHandle]
  /\ wk'[w].queue = q /\ wk'[w].pump = p /\ wk'[w].hand = x /\ wk'[w].cancelled = c
  /\ \A v \in Workers : v # w => wk'[v] = wk[v]

LEMMA WorkerChanged ==
  ASSUME ProcessTypeOK, NEW w \in Workers, NEW h \in WorkerHandle, wk' = [wk EXCEPT ![w] = h]
  PROVE  Becomes(w, h.queue, h.pump, h.hand, h.cancelled)
<1>1. wk \in [Workers -> WorkerHandle]
  BY DEF ProcessTypeOK
<1>2. wk' \in [Workers -> WorkerHandle] /\ wk'[w] = h
  BY <1>1
<1>3. \A v \in Workers : v # w => wk'[v] = wk[v]
  BY <1>1
<1> QED  BY <1>2, <1>3 DEF Becomes

LEMMA WorkerIs ==
  ASSUME ProcessTypeOK, NEW w \in Workers
  PROVE  /\ wk[w] \in WorkerHandle /\ wk[w].queue \in Seq(Items) /\ wk[w].pump \in Pumps
         /\ wk[w].hand \in Jobs \cup {Nobody} /\ wk[w].cancelled \in BOOLEAN
  BY DEF ProcessTypeOK, WorkerHandle, Items

\* The actions that replace a worker's queue only.
LEMMA QueueChanged ==
  ASSUME ProcessTypeOK, NEW w \in Workers, NEW q \in Seq(Items), wk' = [wk EXCEPT ![w].queue = q]
  PROVE  Becomes(w, q, wk[w].pump, wk[w].hand, wk[w].cancelled)
<1> DEFINE h == [wk[w] EXCEPT !.queue = q]
<1>1. /\ h \in WorkerHandle
      /\ h.queue = q /\ h.pump = wk[w].pump /\ h.hand = wk[w].hand /\ h.cancelled = wk[w].cancelled
  BY WorkerIs DEF WorkerHandle, Items
<1>2. wk' = [wk EXCEPT ![w] = h]
  BY DEF ProcessTypeOK
<1> HIDE DEF h
<1>3. Becomes(w, h.queue, h.pump, h.hand, h.cancelled)
  BY <1>1, <1>2, WorkerChanged
<1> QED  BY <1>1, <1>3

\* The router dies: queues only lose requests.
LEMMA RouterDiesShape ==
  ASSUME ProcessTypeOK, NEW w \in Workers, RouterDies(w)
  PROVE  Becomes(w, AfterStop(wk[w].queue), wk[w].pump, wk[w].hand, wk[w].cancelled)
  BY WorkerIs, DrainedToStop, QueueChanged DEF RouterDies

LEMMA PutShape ==
  ASSUME ProcessTypeOK, Put
  PROVE  /\ call.worker \in Workers /\ call.job \in Jobs
         /\ Becomes(call.worker, Append(wk[call.worker].queue, call.job), wk[call.worker].pump,
                    wk[call.worker].hand, wk[call.worker].cancelled)
<1>1. call.worker \in Workers /\ call.job \in Jobs
  BY DEF Put, ProcessTypeOK, Idle
<1>2. Append(wk[call.worker].queue, call.job) \in Seq(Items)
  BY <1>1, WorkerIs, Queued DEF Items
<1> QED  BY <1>1, <1>2, QueueChanged DEF Put

LEMMA SweepStopShape ==
  ASSUME ProcessTypeOK, SweepStop
  PROVE  /\ sweeping \in Workers
         /\ Becomes(sweeping, Append(wk[sweeping].queue, Stop), wk[sweeping].pump,
                    wk[sweeping].hand, wk[sweeping].cancelled)
<1>1. sweeping \in Workers
  BY DEF SweepStop, ProcessTypeOK
<1>2. Append(wk[sweeping].queue, Stop) \in Seq(Items)
  BY <1>1, WorkerIs, Queued DEF Items
<1> QED  BY <1>1, <1>2, QueueChanged DEF SweepStop

\* The step of a pump or process that leaves the queue alone.
LEMMA PumpShape ==
  ASSUME ProcessTypeOK, NEW w \in Workers
  PROVE  /\ PumpDispatch(w) => Becomes(w, wk[w].queue, "running", wk[w].hand, wk[w].cancelled)
         /\ PumpReceive(w) => Becomes(w, wk[w].queue, "reported", wk[w].hand, wk[w].cancelled)
         /\ PumpNext(w) => Becomes(w, wk[w].queue, "waiting", Nobody, wk[w].cancelled)
         /\ WorkerAnswer(w) \/ WorkerDies(w) \/ SweepKill(w) =>
              Becomes(w, wk[w].queue, wk[w].pump, wk[w].hand, wk[w].cancelled)
<1> DEFINE o == wk[w]
<1>0. wk \in [Workers -> WorkerHandle] /\ o \in WorkerHandle
  BY WorkerIs DEF ProcessTypeOK
<1>1. ASSUME PumpDispatch(w)
      PROVE  Becomes(w, o.queue, "running", o.hand, o.cancelled)
  <2> DEFINE h == [o EXCEPT !.pump = "running"]
  <2>1. /\ h \in WorkerHandle
        /\ h.queue = o.queue /\ h.pump = "running" /\ h.hand = o.hand /\ h.cancelled = o.cancelled
    BY <1>0 DEF WorkerHandle, Pumps
  <2>2. wk' = [wk EXCEPT ![w] = h]
    BY <1>0, <1>1 DEF PumpDispatch
  <2> HIDE DEF h
  <2> QED  BY <2>1, <2>2, WorkerChanged
<1>2. ASSUME PumpReceive(w)
      PROVE  Becomes(w, o.queue, "reported", o.hand, o.cancelled)
  <2> DEFINE h == [o EXCEPT !.pump = "reported", !.answered = FALSE, !.served = o.served + 1]
  <2>1. /\ h \in WorkerHandle
        /\ h.queue = o.queue /\ h.pump = "reported" /\ h.hand = o.hand /\ h.cancelled = o.cancelled
    <3>1. o.served + 1 \in Nat
      BY <1>0 DEF WorkerHandle
    <3> QED  BY <1>0, <3>1 DEF WorkerHandle, Pumps
  <2>2. wk' = [wk EXCEPT ![w] = h]
    BY <1>0, <1>2 DEF PumpReceive, WorkerHandle
  <2> HIDE DEF h
  <2> QED  BY <2>1, <2>2, WorkerChanged
<1>3. ASSUME PumpNext(w)
      PROVE  Becomes(w, o.queue, "waiting", Nobody, o.cancelled)
  <2> DEFINE h == [o EXCEPT !.pump = "waiting", !.hand = Nobody]
  <2>1. /\ h \in WorkerHandle
        /\ h.queue = o.queue /\ h.pump = "waiting" /\ h.hand = Nobody /\ h.cancelled = o.cancelled
    BY <1>0 DEF WorkerHandle, Pumps
  <2>2. wk' = [wk EXCEPT ![w] = h]
    BY <1>0, <1>3 DEF PumpNext, WorkerHandle
  <2> HIDE DEF h
  <2> QED  BY <2>1, <2>2, WorkerChanged
<1>4. ASSUME WorkerAnswer(w)
      PROVE  Becomes(w, o.queue, o.pump, o.hand, o.cancelled)
  <2> DEFINE h == [o EXCEPT !.answered = TRUE]
  <2>1. /\ h \in WorkerHandle
        /\ h.queue = o.queue /\ h.pump = o.pump /\ h.hand = o.hand /\ h.cancelled = o.cancelled
    BY <1>0 DEF WorkerHandle
  <2>2. wk' = [wk EXCEPT ![w] = h]
    BY <1>0, <1>4 DEF WorkerAnswer
  <2> HIDE DEF h
  <2> QED  BY <2>1, <2>2, WorkerChanged
<1>5. ASSUME WorkerDies(w)
      PROVE  Becomes(w, o.queue, o.pump, o.hand, o.cancelled)
  <2> DEFINE h == [o EXCEPT !.alive = FALSE]
  <2>1. /\ h \in WorkerHandle
        /\ h.queue = o.queue /\ h.pump = o.pump /\ h.hand = o.hand /\ h.cancelled = o.cancelled
    BY <1>0 DEF WorkerHandle
  <2>2. wk' = [wk EXCEPT ![w] = h]
    BY <1>0, <1>5 DEF WorkerDies
  <2> HIDE DEF h
  <2> QED  BY <2>1, <2>2, WorkerChanged
<1>6. ASSUME SweepKill(w)
      PROVE  Becomes(w, o.queue, o.pump, o.hand, o.cancelled)
  <2> DEFINE h == [o EXCEPT !.alive = FALSE, !.gone = "swept"]
  <2>1. /\ h \in WorkerHandle
        /\ h.queue = o.queue /\ h.pump = o.pump /\ h.hand = o.hand /\ h.cancelled = o.cancelled
    BY <1>0 DEF WorkerHandle
  <2>2. wk' = [wk EXCEPT ![w] = h]
    BY <1>0, <1>6 DEF SweepKill, WorkerHandle
  <2> HIDE DEF h
  <2> QED  BY <2>1, <2>2, WorkerChanged
<1> QED  BY <1>1, <1>2, <1>3, <1>4, <1>5, <1>6

\* The pump takes the next request: a job comes into its hand, the sentinel ends it.
LEMMA TakeShape ==
  ASSUME ProcessTypeOK, NEW w \in Workers, PumpTake(w)
  PROVE  LET item == Head(wk[w].queue)
         IN  Becomes(w, Tail(wk[w].queue), IF item = Stop THEN "ended" ELSE "taken",
                     IF item = Stop THEN Nobody ELSE item, wk[w].cancelled)
<1> DEFINE o == wk[w]
           item == Head(o.queue)
           h == [o EXCEPT !.queue = Tail(o.queue),
                          !.pump = IF item = Stop THEN "ended" ELSE "taken",
                          !.hand = IF item = Stop THEN Nobody ELSE item]
<1>0. wk \in [Workers -> WorkerHandle] /\ o \in WorkerHandle
  BY WorkerIs DEF ProcessTypeOK
<1>1. item \in Items /\ Tail(o.queue) \in Seq(Items)
  BY WorkerIs, Taken DEF PumpTake
<1>2. /\ h \in WorkerHandle
      /\ h.queue = Tail(o.queue) /\ h.cancelled = o.cancelled
      /\ h.pump = IF item = Stop THEN "ended" ELSE "taken"
      /\ h.hand = IF item = Stop THEN Nobody ELSE item
  BY <1>0, <1>1 DEF WorkerHandle, Pumps, Items
<1>3. wk' = [wk EXCEPT ![w] = h]
  BY <1>0 DEF PumpTake, WorkerHandle
<1> HIDE DEF h
<1>4. Becomes(w, h.queue, h.pump, h.hand, h.cancelled)
  BY <1>2, <1>3, WorkerChanged
<1> QED  BY <1>2, <1>4

\* The worker of a job that is cancelled while it runs.
LEMMA KillShape ==
  ASSUME ProcessTypeOK, CancelKill, ~HasStop(wk[call.worker].queue)
  PROVE  /\ call.worker \in Workers
         /\ Becomes(call.worker, <<>>, wk[call.worker].pump, wk[call.worker].hand, TRUE)
<1> DEFINE w == call.worker
           o == wk[w]
           h == [o EXCEPT !.queue = <<>>, !.cancelled = TRUE, !.alive = FALSE,
                          !.gone = IF w \in pool THEN "cancelled" ELSE o.gone]
<1>0. w \in Workers
  BY DEF CancelKill, ProcessTypeOK, Idle
<1>1. wk \in [Workers -> WorkerHandle] /\ o \in WorkerHandle
  BY <1>0, WorkerIs DEF ProcessTypeOK
<1>2. /\ h \in WorkerHandle
      /\ h.queue = <<>> /\ h.pump = o.pump /\ h.hand = o.hand /\ h.cancelled = TRUE
  BY <1>1, EmptyQueue DEF WorkerHandle, Items
<1>3. wk' = [wk EXCEPT ![w] = h]
  BY <1>0, <1>1 DEF CancelKill, RouterDies, WorkerHandle
<1> HIDE DEF h
<1>4. Becomes(w, h.queue, h.pump, h.hand, h.cancelled)
  BY <1>0, <1>2, <1>3, WorkerChanged
<1> QED  BY <1>0, <1>2, <1>4

\* A worker that is torn down: its pump ends.
LEMMA TeardownShape ==
  ASSUME ProcessTypeOK, NEW w \in Workers, NEW o \in {"crashed", "timeout"}, Teardown(w, o)
  PROVE  LET q == wk[w].queue
         IN  Becomes(w, IF wk[w].cancelled THEN q ELSE IF HasStop(q) THEN AfterStop(q) ELSE <<>>,
                     "ended", Nobody, wk[w].cancelled)
<1> DEFINE q == wk[w].queue
<1>0. wk \in [Workers -> WorkerHandle] /\ wk[w] \in WorkerHandle
  BY WorkerIs DEF ProcessTypeOK
<1>1. CASE wk[w].cancelled
  <2> DEFINE h == [wk[w] EXCEPT !.pump = "ended", !.hand = Nobody]
  <2>1. /\ h \in WorkerHandle
        /\ h.queue = q /\ h.pump = "ended" /\ h.hand = Nobody /\ h.cancelled = wk[w].cancelled
    BY <1>0 DEF WorkerHandle, Pumps
  <2>2. wk' = [wk EXCEPT ![w] = h]
    BY <1>0, <1>1 DEF Teardown, WorkerHandle
  <2> HIDE DEF h
  <2>3. Becomes(w, h.queue, h.pump, h.hand, h.cancelled)
    BY <2>1, <2>2, WorkerChanged
  <2> QED  BY <1>1, <2>1, <2>3
<1>2. CASE ~wk[w].cancelled /\ HasStop(q)
  <2> DEFINE h == [wk[w] EXCEPT !.pump = "ended", !.hand = Nobody, !.queue = AfterStop(q)]
  <2>0. AfterStop(q) \in Seq(Items)
    BY <1>2, WorkerIs, DrainedToStop
  <2>1. /\ h \in WorkerHandle /\ h.queue = AfterStop(q)
        /\ h.pump = "ended" /\ h.hand = Nobody /\ h.cancelled = wk[w].cancelled
    BY <1>0, <2>0 DEF WorkerHandle, Pumps, Items
  <2>2. wk' = [wk EXCEPT ![w] = h]
    BY <1>0, <1>2 DEF Teardown, WorkerHandle
  <2> HIDE DEF h
  <2>3. Becomes(w, h.queue, h.pump, h.hand, h.cancelled)
    BY <2>1, <2>2, WorkerChanged
  <2> QED  BY <1>2, <2>1, <2>3
<1>3. CASE ~wk[w].cancelled /\ ~HasStop(q)
  <2> DEFINE h == [wk[w] EXCEPT !.pump = "ended", !.hand = Nobody, !.queue = <<>>, !.alive = FALSE,
                                !.gone = IF w \in pool THEN o ELSE wk[w].gone]
  <2>1. /\ h \in WorkerHandle /\ h.queue = <<>>
        /\ h.pump = "ended" /\ h.hand = Nobody /\ h.cancelled = wk[w].cancelled
    BY <1>0, EmptyQueue DEF WorkerHandle, Pumps, Items
  <2>2. wk' = [wk EXCEPT ![w] = h]
    BY <1>0, <1>3 DEF Teardown, WorkerHandle
  <2> HIDE DEF h
  <2>3. Becomes(w, h.queue, h.pump, h.hand, h.cancelled)
    BY <2>1, <2>2, WorkerChanged
  <2> QED  BY <1>3, <2>1, <2>3
<1> QED  BY <1>1, <1>2, <1>3, WorkerIs

LEMMA ScanShape ==
  ASSUME ProcessTypeOK, NEW w \in Workers, CancelScan(w), ~HasStop(wk[w].queue)
  PROVE  /\ call \in [op : {"scan"}, job : Jobs, left : SUBSET Workers]
         /\ Becomes(w, Without(wk[w].queue, call.job), wk[w].pump, wk[w].hand, wk[w].cancelled)
<1>1. call \in [op : {"scan"}, job : Jobs, left : SUBSET Workers] /\ call.job \in Jobs
  BY DEF CancelScan, ProcessTypeOK, Idle
<1>2. Without(wk[w].queue, call.job) \in Seq(Items)
  BY <1>1, WorkerIs, RebuiltWithout
<1>3. wk' = [wk EXCEPT ![w].queue = Without(wk[w].queue, call.job)]
  BY DEF CancelScan, RouterDies
<1> QED  BY <1>1, <1>2, <1>3, QueueChanged

\* A submission chooses a worker of the pool or starts one.
LEMMA SelectShape ==
  ASSUME ProcessTypeOK, NEW j \in Jobs, Select(j)
  PROVE  \E w \in Workers :
           /\ call' = [op |-> "put", job |-> j, worker |-> w]
           /\ \/ UNCHANGED <<pool, wk>>
              \/ pool' = pool \cup {w} /\ Becomes(w, <<>>, "waiting", Nobody, FALSE)
<1>1. Fresh \in WorkerHandle
  BY EmptyQueue DEF Fresh, NoWorker, WorkerHandle, Pumps, Items
<1>2. Fresh.queue = <<>> /\ Fresh.pump = "waiting" /\ Fresh.hand = Nobody /\ Fresh.cancelled = FALSE
  BY DEF Fresh, NoWorker
<1>3. CASE UNCHANGED <<pool, wk>>
  BY <1>3 DEF Select, ProcessTypeOK, GetIdleOrNone, LeastLoaded
<1>4. ASSUME NEW w \in Workers, pool' = pool \cup {w}, wk' = [wk EXCEPT ![w] = Fresh],
             call' = [op |-> "put", job |-> j, worker |-> w]
      PROVE  pool' = pool \cup {w} /\ Becomes(w, <<>>, "waiting", Nobody, FALSE)
  BY <1>1, <1>2, <1>4, WorkerChanged
<1> QED  BY <1>3, <1>4 DEF Select

\* Every step leaves workers, queues, reports and the router's call well formed.
LEMMA TypeStep == ProcessTypeOK /\ [ProcessNext]_procVars => ProcessTypeOK'
<1> SUFFICES ASSUME ProcessTypeOK, [ProcessNext]_procVars
             PROVE  ProcessTypeOK'
  OBVIOUS
<1>0. CASE UNCHANGED procVars
  BY <1>0 DEF procVars, ProcessTypeOK
<1>1. ASSUME NEW j \in Jobs, Refuse(j)
      PROVE  ProcessTypeOK'
  <2> DEFINE f == [k \in Jobs |-> "refused"]
  <2>1. f \in [Jobs -> Outcomes]
    BY DEF Outcomes
  <2>2. reports' = [k \in Jobs |-> IF k \in {j} THEN Append(reports[k], f[k]) ELSE reports[k]]
    BY <1>1 DEF Refuse, Report
  <2> HIDE DEF f
  <2>3. reports' \in [Jobs -> Seq(Outcomes)]
    BY <2>1, <2>2, ReportTypes
  <2> QED  BY <1>1, <2>3 DEF Refuse, ProcessTypeOK
<1>2. ASSUME NEW j \in Jobs, Select(j)
      PROVE  ProcessTypeOK'
  <2>1. PICK w \in Workers :
           /\ call' = [op |-> "put", job |-> j, worker |-> w]
           /\ \/ UNCHANGED <<pool, wk>>
              \/ pool' = pool \cup {w} /\ Becomes(w, <<>>, "waiting", Nobody, FALSE)
    BY <1>2, SelectShape
  <2>2. [op |-> "put", job |-> j, worker |-> w] \in [op : {"put", "kill"}, job : Jobs, worker : Workers]
    OBVIOUS
  <2>3. wk' \in [Workers -> WorkerHandle] /\ pool' \subseteq Workers
    BY <2>1 DEF ProcessTypeOK, Becomes
  <2> QED  BY <1>2, <2>1, <2>2, <2>3 DEF Select, ProcessTypeOK
<1>3. ASSUME NEW j \in Jobs, CancelFind(j)
      PROVE  ProcessTypeOK'
  <2>1. call' \in [op : {"put", "kill"}, job : Jobs, worker : Workers]
                   \cup [op : {"scan"}, job : Jobs, left : SUBSET Workers]
    <3> DEFINE on == {w \in pool : Busy(w) /\ wk[w].hand = j}
    <3>1. CASE on # {}
      <4>1. (CHOOSE w \in on : TRUE) \in Workers
        BY <3>1 DEF ProcessTypeOK
      <4> QED  BY <1>3, <3>1, <4>1 DEF CancelFind
    <3>2. CASE on = {}
      BY <1>3, <3>2 DEF CancelFind, ProcessTypeOK
    <3> QED  BY <3>1, <3>2
  <2> QED  BY <1>3, <2>1 DEF CancelFind, ProcessTypeOK
<1>4. ASSUME Put  PROVE ProcessTypeOK'
  BY <1>4, PutShape DEF Put, Becomes, ProcessTypeOK
<1>5. ASSUME CancelKill  PROVE ProcessTypeOK'
  <2>0. call.worker \in Workers
    BY <1>5 DEF CancelKill, ProcessTypeOK, Idle
  <2>1. CASE RouterDies(call.worker)
    <3>1. wk' \in [Workers -> WorkerHandle]
      BY <2>0, <2>1, RouterDiesShape DEF Becomes
    <3> QED  BY <1>5, <2>1, <3>1 DEF CancelKill, RouterDies, ProcessTypeOK
  <2>2. CASE ~HasStop(wk[call.worker].queue)
    <3>1. wk' \in [Workers -> WorkerHandle]
      BY <1>5, <2>2, KillShape DEF Becomes
    <3>2. PICK w : /\ reports' = [j \in Jobs |->
                        CASE j = call.job -> Append(reports[j], "cancelled")
                          [] j # call.job /\ j \in JobsIn(wk[w].queue) -> Append(reports[j], "crashed")
                          [] OTHER -> reports[j]]
                   /\ call' = Idle
      BY <1>5, <2>2 DEF CancelKill, RouterDies
    <3>3. reports' \in [Jobs -> Seq(Outcomes)]
      <4>1. "cancelled" \in Outcomes /\ "crashed" \in Outcomes
        BY DEF Outcomes
      <4>2. /\ reports' = [j \in Jobs |-> reports'[j]]
            /\ \A j \in Jobs : reports'[j] \in
                 {reports[j], Append(reports[j], "cancelled"), Append(reports[j], "crashed")}
        BY <3>2
      <4> QED  BY <4>1, <4>2, TeardownReports
    <3> QED  BY <1>5, <3>1, <3>2, <3>3 DEF CancelKill, ProcessTypeOK
  <2> QED  BY <1>5, <2>1, <2>2 DEF CancelKill
<1>6. ASSUME NEW w \in Workers, CancelScan(w)  PROVE ProcessTypeOK'
  <2>1. CASE RouterDies(w)
    <3>1. wk' \in [Workers -> WorkerHandle]
      BY <2>1, RouterDiesShape DEF Becomes
    <3> QED  BY <1>6, <2>1, <3>1 DEF CancelScan, RouterDies, ProcessTypeOK
  <2>2. CASE ~HasStop(wk[w].queue)
    <3> DEFINE J == IF call.job \in JobsIn(wk[w].queue) THEN {call.job} ELSE {}
               f == [k \in Jobs |-> "cancelled"]
    <3>1. call \in [op : {"scan"}, job : Jobs, left : SUBSET Workers] /\ wk' \in [Workers -> WorkerHandle]
      BY <1>6, <2>2, ScanShape DEF Becomes
    <3>2. reports' = [k \in Jobs |-> IF k \in J THEN Append(reports[k], f[k]) ELSE reports[k]]
      BY <1>6, <2>2 DEF CancelScan, RouterDies, Report
    <3>3. f \in [Jobs -> Outcomes]
      BY DEF Outcomes
    <3> HIDE DEF f, J
    <3>4. reports' \in [Jobs -> Seq(Outcomes)]
      BY <3>2, <3>3, ReportTypes
    <3>5. call' \in {Idle} \cup [op : {"scan"}, job : Jobs, left : SUBSET Workers]
      BY <1>6, <2>2, <3>1 DEF CancelScan, RouterDies
    <3> QED  BY <1>6, <3>1, <3>4, <3>5 DEF CancelScan, ProcessTypeOK
  <2> QED  BY <1>6, <2>1, <2>2 DEF CancelScan
<1>7. ASSUME CancelNotFound \/ DeleteFunction  PROVE ProcessTypeOK'
  BY <1>7 DEF CancelNotFound, DeleteFunction, ProcessTypeOK
<1>8. ASSUME NEW w \in Workers, PumpTake(w)  PROVE ProcessTypeOK'
  BY <1>8, TakeShape DEF Becomes, PumpTake, ProcessTypeOK
<1>9. ASSUME NEW w \in Workers,
             PumpDispatch(w) \/ WorkerAnswer(w) \/ PumpNext(w) \/ WorkerDies(w) \/ SweepKill(w)
      PROVE  ProcessTypeOK'
  <2>1. wk' \in [Workers -> WorkerHandle]
    BY <1>9, PumpShape DEF Becomes
  <2> QED  BY <1>9, <2>1 DEF PumpDispatch, WorkerAnswer, PumpNext, WorkerDies, SweepKill, ProcessTypeOK
<1>10. ASSUME NEW w \in Workers, PumpReceive(w)  PROVE ProcessTypeOK'
  <2> DEFINE f == [k \in Jobs |-> "done"]
  <2>1. f \in [Jobs -> Outcomes]
    BY DEF Outcomes
  <2>2. reports' = [k \in Jobs |-> IF k \in {wk[w].hand} THEN Append(reports[k], f[k]) ELSE reports[k]]
    BY <1>10 DEF PumpReceive, Report
  <2> HIDE DEF f
  <2>3. reports' \in [Jobs -> Seq(Outcomes)]
    BY <2>1, <2>2, ReportTypes
  <2>4. wk' \in [Workers -> WorkerHandle]
    BY <1>10, PumpShape DEF Becomes
  <2> QED  BY <1>10, <2>3, <2>4 DEF PumpReceive, ProcessTypeOK
<1>11. ASSUME NEW w \in Workers, NEW o \in {"crashed", "timeout"}, Teardown(w, o)
       PROVE  /\ wk' \in [Workers -> WorkerHandle] /\ pool' \subseteq Workers
              /\ reports' \in [Jobs -> Seq(Outcomes)]
  <2>1. wk' \in [Workers -> WorkerHandle]
    BY <1>11, TeardownShape DEF Becomes
  <2>2. pool' \subseteq Workers
    BY <1>11 DEF Teardown, ProcessTypeOK
  <2>3. \/ reports' = reports
        \/ reports' = [j \in Jobs |->
              CASE j = wk[w].hand -> Append(reports[j], o)
                [] j # wk[w].hand /\ j \in JobsIn(wk[w].queue) -> Append(reports[j], "crashed")
                [] OTHER -> reports[j]]
    BY <1>11 DEF Teardown
  <2>4. CASE reports' = reports
    BY <2>1, <2>2, <2>4 DEF ProcessTypeOK
  <2>5. CASE reports' # reports
    <3>1. o \in Outcomes /\ "crashed" \in Outcomes
      BY DEF Outcomes
    <3>2. /\ reports' = [j \in Jobs |-> reports'[j]]
          /\ \A j \in Jobs : reports'[j] \in
               {reports[j], Append(reports[j], o), Append(reports[j], "crashed")}
      BY <2>3, <2>5
    <3>3. reports' \in [Jobs -> Seq(Outcomes)]
      BY <3>1, <3>2, TeardownReports
    <3> QED  BY <2>1, <2>2, <3>3
  <2> QED  BY <2>4, <2>5
<1>12. ASSUME NEW w \in Workers, PumpCrash(w) \/ PumpTimeout(w)  PROVE ProcessTypeOK'
  BY <1>11, <1>12 DEF PumpCrash, PumpTimeout, ProcessTypeOK
<1>13. ASSUME SweepStop  PROVE ProcessTypeOK'
  BY <1>13, SweepStopShape DEF SweepStop, Becomes, ProcessTypeOK
<1> QED
  BY <1>0, <1>1, <1>2, <1>3, <1>4, <1>5, <1>6, <1>7, <1>8, <1>9, <1>10, <1>12, <1>13
     DEF ProcessNext, RouterNext, PumpNextStep

\* The registry, the queues and the router's call always have the states the code gives
\* them: in particular what a pump takes in hand is a job, never the sentinel.
THEOREM ProcessTypes == ProcessSpec => []ProcessTypeOK
  BY TypeInit, TypeStep, PTL DEF ProcessSpec

-----------------------------------------------------------------------------
(* A job is in one place at a time *)

Places == PlacesUnique /\ OnlySent /\ HandsFull

\* Steps that only take jobs away from a worker, or leave them there.
LEMMA Shrinks ==
  ASSUME ProcessTypeOK, Places, NEW w \in Workers, NEW q, NEW p, NEW x, NEW c,
         Becomes(w, q, p, x, c), NoneTwice(q), JobsIn(q) \subseteq JobsIn(wk[w].queue),
         x \in {Nobody, wk[w].hand}, (x # Nobody) <=> p \in {"taken", "running", "reported"},
         call'.op # "put" \/ call' = call,
         call'.op \in {"kill", "scan"} => call'.job \in sent,
         sent' = sent, asked' = asked
  PROVE  Places'
<1>1. PlacesUnique'
  <2>1. \A v \in Workers : NoneTwice(wk'[v].queue) /\ JobsIn(wk'[v].queue) \subseteq JobsIn(wk[v].queue)
                             /\ wk'[v].hand \in {Nobody, wk[v].hand}
    BY DEF Becomes, Places, PlacesUnique
  <2>2. \A v, u \in Workers : v # u => JobsIn(wk'[v].queue) \cap JobsIn(wk'[u].queue) = {}
    BY <2>1 DEF Places, PlacesUnique
  <2>3. \A v, u \in Workers : wk'[v].hand \notin JobsIn(wk'[u].queue)
    BY <2>1, ProcessAssumption DEF Places, PlacesUnique, JobsIn
  <2>4. \A v, u \in Workers : v # u /\ wk'[v].hand = wk'[u].hand => wk'[v].hand = Nobody
    BY <2>1 DEF Places, PlacesUnique
  <2>5. call'.op = "put" =>
          \A v \in Workers : call'.job \notin JobsIn(wk'[v].queue) /\ call'.job # wk'[v].hand
    <3> SUFFICES ASSUME call'.op = "put", call' = call, NEW v \in Workers
                 PROVE  call.job \notin JobsIn(wk'[v].queue) /\ call.job # wk'[v].hand
      OBVIOUS
    <3>1. call.job \in Jobs
      BY DEF ProcessTypeOK, Idle
    <3> QED  BY <2>1, <3>1, ProcessAssumption DEF Places, PlacesUnique
  <2> QED  BY <2>1, <2>2, <2>3, <2>4, <2>5 DEF PlacesUnique
<1>2. OnlySent'
  BY DEF Becomes, Places, OnlySent
<1>3. HandsFull'
  BY DEF Becomes, Places, HandsFull
<1> QED  BY <1>1, <1>2, <1>3 DEF Places

\* Steps that touch no worker.
LEMMA PlacesStay ==
  ASSUME Places, wk' = wk, call' = call \/ call'.op \notin {"put", "kill", "scan"},
         sent \subseteq sent', asked' = asked
  PROVE  Places'
<1>1. PlacesUnique'
  BY DEF Places, PlacesUnique
<1>2. OnlySent'
  BY DEF Places, OnlySent
<1>3. HandsFull'
  BY DEF Places, HandsFull
<1> QED  BY <1>1, <1>2, <1>3 DEF Places

LEMMA PlacesInit == ProcessInit => Places
  BY EmptyQueue DEF ProcessInit, Places, PlacesUnique, OnlySent, HandsFull, NoWorker, Idle

\* No step brings a job to a second place.
LEMMA PlacesStep ==
  ASSUME ProcessTypeOK, Places, [ProcessNext]_procVars
  PROVE  Places'
<1>0. CASE UNCHANGED procVars
  BY <1>0, PlacesStay DEF procVars
<1>1. ASSUME NEW j \in Jobs, Refuse(j)  PROVE Places'
  BY <1>1, PlacesStay DEF Refuse
<1>2. ASSUME NEW j \in Jobs, Select(j)  PROVE Places'
  <2>1. PICK w \in Workers :
           /\ call' = [op |-> "put", job |-> j, worker |-> w]
           /\ \/ UNCHANGED <<pool, wk>>
              \/ pool' = pool \cup {w} /\ Becomes(w, <<>>, "waiting", Nobody, FALSE)
    BY <1>2, SelectShape
  <2>2. sent' = sent \cup {j} /\ j \notin sent /\ asked' = asked /\ call'.op = "put" /\ call'.job = j
    BY <1>2, <2>1 DEF Select
  <2>3. \A v \in Workers : \/ wk'[v] = wk[v]
                           \/ wk'[v].queue = <<>> /\ wk'[v].hand = Nobody /\ wk'[v].pump = "waiting"
    BY <2>1 DEF Becomes
  <2>4. \A v \in Workers : NoneTwice(wk'[v].queue) /\ JobsIn(wk'[v].queue) \subseteq JobsIn(wk[v].queue)
                             /\ wk'[v].hand \in {Nobody, wk[v].hand}
    BY <2>3, EmptyQueue DEF Places, PlacesUnique
  <2>5. PlacesUnique'
    <3>1. \A v, u \in Workers : v # u => JobsIn(wk'[v].queue) \cap JobsIn(wk'[u].queue) = {}
      BY <2>4 DEF Places, PlacesUnique
    <3>2. \A v, u \in Workers : wk'[v].hand \notin JobsIn(wk'[u].queue)
      BY <2>4, ProcessAssumption DEF Places, PlacesUnique, JobsIn
    <3>3. \A v, u \in Workers : v # u /\ wk'[v].hand = wk'[u].hand => wk'[v].hand = Nobody
      BY <2>4 DEF Places, PlacesUnique
    <3>4. \A v \in Workers : j \notin JobsIn(wk'[v].queue) /\ j # wk'[v].hand
      BY <2>2, <2>4, ProcessAssumption DEF Places, OnlySent
    <3> QED  BY <2>2, <2>4, <3>1, <3>2, <3>3, <3>4 DEF PlacesUnique
  <2>6. OnlySent'
    BY <2>2, <2>4 DEF Places, OnlySent
  <2>7. HandsFull'
    BY <2>3 DEF Places, HandsFull
  <2> QED  BY <2>5, <2>6, <2>7 DEF Places
<1>3. ASSUME NEW j \in Jobs, CancelFind(j)  PROVE Places'
  <2>1. /\ wk' = wk /\ sent' = sent /\ asked' = asked \cup {j} /\ j \in sent
        /\ call'.op \in {"kill", "scan"} /\ call'.job = j
    BY <1>3 DEF CancelFind
  <2>2. PlacesUnique'
    BY <2>1 DEF Places, PlacesUnique
  <2>3. OnlySent'
    BY <2>1 DEF Places, OnlySent
  <2>4. HandsFull'
    BY <2>1 DEF Places, HandsFull
  <2> QED  BY <2>2, <2>3, <2>4 DEF Places
<1>4. ASSUME Put  PROVE Places'
  <2> DEFINE w == call.worker
             j == call.job
             q == Append(wk[w].queue, j)
  <2>1. w \in Workers /\ j \in Jobs /\ Becomes(w, q, wk[w].pump, wk[w].hand, wk[w].cancelled)
    BY <1>4, PutShape
  <2>2. call.op = "put" /\ call'.op = "idle" /\ sent' = sent /\ asked' = asked
    BY <1>4 DEF Put, Idle
  <2>3. JobsIn(q) = JobsIn(wk[w].queue) \cup {j} /\ NoneTwice(q)
    BY <2>1, <2>2, WorkerIs, Queued DEF Items, Places, PlacesUnique
  <2> HIDE DEF q
  <2>4. PlacesUnique'
    BY <2>1, <2>2, <2>3 DEF Becomes, Places, PlacesUnique
  <2>5. OnlySent'
    BY <2>1, <2>2, <2>3 DEF Becomes, Places, OnlySent
  <2>6. HandsFull'
    BY <2>1 DEF Becomes, Places, HandsFull
  <2> QED  BY <2>4, <2>5, <2>6 DEF Places
<1>5. ASSUME NEW w \in Workers, RouterDies(w), UNCHANGED <<sent, asked>>  PROVE Places'
  <2>1. Becomes(w, AfterStop(wk[w].queue), wk[w].pump, wk[w].hand, wk[w].cancelled)
    BY <1>5, RouterDiesShape
  <2>2. NoneTwice(AfterStop(wk[w].queue)) /\ JobsIn(AfterStop(wk[w].queue)) \subseteq JobsIn(wk[w].queue)
    BY <1>5, WorkerIs, DrainedToStop DEF RouterDies, Places, PlacesUnique
  <2>3. call'.op = "dead"
    BY <1>5 DEF RouterDies
  <2>4. (wk[w].hand # Nobody) <=> wk[w].pump \in {"taken", "running", "reported"}
    BY DEF Places, HandsFull
  <2> QED  BY <1>5, <2>1, <2>2, <2>3, <2>4, Shrinks
<1>6. ASSUME CancelKill  PROVE Places'
  <2> DEFINE w == call.worker
  <2>0. w \in Workers
    BY <1>6 DEF CancelKill, ProcessTypeOK, Idle
  <2>1. CASE RouterDies(w)
    BY <1>5, <1>6, <2>0, <2>1 DEF CancelKill
  <2>2. CASE ~HasStop(wk[w].queue)
    <3>1. Becomes(w, <<>>, wk[w].pump, wk[w].hand, TRUE)
      BY <1>6, <2>2, KillShape
    <3>2. call'.op = "idle" /\ sent' = sent /\ asked' = asked
      BY <1>6, <2>2 DEF CancelKill, RouterDies, Idle
    <3>3. (wk[w].hand # Nobody) <=> wk[w].pump \in {"taken", "running", "reported"}
      BY <2>0 DEF Places, HandsFull
    <3> QED  BY <2>0, <3>1, <3>2, <3>3, EmptyQueue, Shrinks
  <2> QED  BY <1>6, <2>1, <2>2 DEF CancelKill
<1>7. ASSUME NEW w \in Workers, CancelScan(w)  PROVE Places'
  <2>1. CASE RouterDies(w)
    BY <1>5, <1>7, <2>1 DEF CancelScan
  <2>2. CASE ~HasStop(wk[w].queue)
    <3> DEFINE q == Without(wk[w].queue, call.job)
    <3>1. call \in [op : {"scan"}, job : Jobs, left : SUBSET Workers]
            /\ Becomes(w, q, wk[w].pump, wk[w].hand, wk[w].cancelled)
      BY <1>7, <2>2, ScanShape
    <3>2. NoneTwice(q) /\ JobsIn(q) \subseteq JobsIn(wk[w].queue)
      BY <3>1, WorkerIs, RebuiltWithout DEF Places, PlacesUnique
    <3> HIDE DEF q
    <3>3. (wk[w].hand # Nobody) <=> wk[w].pump \in {"taken", "running", "reported"}
      BY DEF Places, HandsFull
    <3>4. /\ sent' = sent /\ asked' = asked /\ call'.op \in {"idle", "scan"}
          /\ call'.op = "scan" => call'.job = call.job
      BY <1>7, <2>2, <3>1 DEF CancelScan, RouterDies, Idle
    <3>5. call.job \in sent
      BY <3>1 DEF Places, OnlySent
    <3> QED  BY <3>1, <3>2, <3>3, <3>4, <3>5, Shrinks
  <2> QED  BY <1>7, <2>1, <2>2 DEF CancelScan
<1>8. ASSUME CancelNotFound \/ DeleteFunction  PROVE Places'
  BY <1>8, PlacesStay DEF CancelNotFound, DeleteFunction, Idle
<1>9. ASSUME NEW w \in Workers, PumpTake(w)  PROVE Places'
  <2> DEFINE q == wk[w].queue
             item == Head(q)
             x == IF item = Stop THEN Nobody ELSE item
             p == IF item = Stop THEN "ended" ELSE "taken"
  <2>1. Becomes(w, Tail(q), p, x, wk[w].cancelled)
    BY <1>9, TakeShape
  <2>2. /\ item \in Items /\ JobsIn(Tail(q)) \subseteq JobsIn(q) /\ NoneTwice(Tail(q))
        /\ item \in Jobs => item \in JobsIn(q) /\ item \notin JobsIn(Tail(q))
    BY <1>9, WorkerIs, Taken DEF PumpTake, Places, PlacesUnique
  <2>3. \/ x = Nobody /\ p = "ended"
        \/ x \in JobsIn(q) /\ x \notin JobsIn(Tail(q)) /\ x \in Jobs /\ p = "taken"
    BY <2>2 DEF Items
  <2>4. sent' = sent /\ asked' = asked /\ call' = call /\ wk[w].hand = Nobody
    BY <1>9 DEF PumpTake, Places, HandsFull
  <2> HIDE DEF x, p
  <2> DEFINE t == Tail(q)
  <2>5. /\ wk'[w].queue = t /\ wk'[w].hand = x /\ wk'[w].pump = p
        /\ \A v \in Workers : v # w => wk'[v] = wk[v]
    BY <2>1 DEF Becomes
  <2> HIDE DEF t, q
  <2>6. PlacesUnique'
    <3>1. \A v \in Workers : NoneTwice(wk'[v].queue) /\ JobsIn(wk'[v].queue) \subseteq JobsIn(wk[v].queue)
      BY <2>2, <2>5 DEF Places, PlacesUnique, q, t
    <3>2. \A v, u \in Workers : v # u => JobsIn(wk'[v].queue) \cap JobsIn(wk'[u].queue) = {}
      BY <3>1 DEF Places, PlacesUnique
    <3>3. \A v \in Workers : x \notin JobsIn(wk'[v].queue)
      <4>1. CASE x = Nobody
        BY <4>1, ProcessAssumption DEF JobsIn
      <4>2. CASE x \in JobsIn(q) /\ x \notin JobsIn(t)
        BY <2>5, <3>1, <4>2 DEF Places, PlacesUnique, q
      <4> QED  BY <2>3, <4>1, <4>2 DEF t
    <3>4. \A v, u \in Workers : wk'[v].hand \notin JobsIn(wk'[u].queue)
      BY <2>5, <3>1, <3>3 DEF Places, PlacesUnique
    <3>5. \A v, u \in Workers : v # u /\ wk'[v].hand = wk'[u].hand => wk'[v].hand = Nobody
      BY <2>3, <2>5 DEF Places, PlacesUnique, q
    <3>6. call.op = "put" =>
            \A v \in Workers : call.job \notin JobsIn(wk'[v].queue) /\ call.job # wk'[v].hand
      <4> SUFFICES ASSUME call.op = "put", NEW v \in Workers
                   PROVE  call.job \notin JobsIn(wk'[v].queue) /\ call.job # wk'[v].hand
        OBVIOUS
      <4>1. call.job \in Jobs
        BY DEF ProcessTypeOK, Idle
      <4> QED  BY <2>3, <2>5, <3>1, <4>1, ProcessAssumption DEF Places, PlacesUnique, q
    <3> QED  BY <2>4, <3>1, <3>2, <3>4, <3>5, <3>6 DEF PlacesUnique
  <2>7. OnlySent'
    BY <2>2, <2>3, <2>4, <2>5 DEF Places, OnlySent, q, t
  <2>8. HandsFull'
    BY <2>3, <2>5, ProcessAssumption DEF Places, HandsFull
  <2> QED  BY <2>6, <2>7, <2>8 DEF Places
<1>10. ASSUME NEW w \in Workers, NEW p, NEW x, NEW c, Becomes(w, wk[w].queue, p, x, c),
              x \in {Nobody, wk[w].hand}, (x # Nobody) <=> p \in {"taken", "running", "reported"},
              UNCHANGED <<call, sent, asked>>
       PROVE  Places'
  <2>1. NoneTwice(wk[w].queue)
    BY DEF Places, PlacesUnique
  <2>2. call'.op \in {"kill", "scan"} => call'.job \in sent
    BY <1>10 DEF Places, OnlySent
  <2> QED  BY <1>10, <2>1, <2>2, Shrinks
<1>11. ASSUME NEW w \in Workers, PumpDispatch(w) \/ WorkerAnswer(w) \/ PumpReceive(w) \/ PumpNext(w)
                                   \/ WorkerDies(w) \/ SweepKill(w)
       PROVE  Places'
  <2>1. (wk[w].hand # Nobody) <=> wk[w].pump \in {"taken", "running", "reported"}
    BY DEF Places, HandsFull
  <2>2. UNCHANGED <<call, sent, asked>>
    BY <1>11 DEF PumpDispatch, WorkerAnswer, PumpReceive, PumpNext, WorkerDies, SweepKill
  <2>3. CASE PumpDispatch(w)
    BY <1>10, <2>1, <2>2, <2>3, PumpShape DEF PumpDispatch
  <2>4. CASE PumpReceive(w)
    BY <1>10, <2>1, <2>2, <2>4, PumpShape DEF PumpReceive
  <2>5. CASE PumpNext(w)
    BY <1>10, <2>1, <2>2, <2>5, PumpShape
  <2>6. CASE WorkerAnswer(w) \/ WorkerDies(w) \/ SweepKill(w)
    BY <1>10, <2>1, <2>2, <2>6, PumpShape
  <2> QED  BY <1>11, <2>3, <2>4, <2>5, <2>6
<1>12. ASSUME NEW w \in Workers, PumpCrash(w) \/ PumpTimeout(w)  PROVE Places'
  <2> DEFINE q == wk[w].queue
             r == IF wk[w].cancelled THEN q ELSE IF HasStop(q) THEN AfterStop(q) ELSE <<>>
  <2>1. Becomes(w, r, "ended", Nobody, wk[w].cancelled)
    <3>1. Teardown(w, "crashed") \/ Teardown(w, "timeout")
      BY <1>12 DEF PumpCrash, PumpTimeout
    <3> QED  BY <3>1, TeardownShape
  <2>2. NoneTwice(r) /\ JobsIn(r) \subseteq JobsIn(q)
    BY WorkerIs, DrainedToStop, EmptyQueue DEF Places, PlacesUnique
  <2> HIDE DEF r
  <2>3. UNCHANGED <<call, sent, asked>>
    BY <1>12 DEF PumpCrash, PumpTimeout
  <2>4. call'.op \in {"kill", "scan"} => call'.job \in sent
    BY <2>3 DEF Places, OnlySent
  <2> QED  BY <2>1, <2>2, <2>3, <2>4, Shrinks
<1>13. ASSUME SweepStop  PROVE Places'
  <2> DEFINE w == sweeping
             q == Append(wk[w].queue, Stop)
  <2>1. w \in Workers /\ Becomes(w, q, wk[w].pump, wk[w].hand, wk[w].cancelled)
    BY <1>13, SweepStopShape
  <2>2. JobsIn(q) \subseteq JobsIn(wk[w].queue) /\ NoneTwice(q)
    <3>1. Stop \notin JobsIn(wk[w].queue) /\ Stop \notin Jobs
      BY ProcessAssumption DEF JobsIn
    <3> QED  BY <2>1, <3>1, WorkerIs, Queued DEF Items, Places, PlacesUnique
  <2> HIDE DEF q
  <2>3. (wk[w].hand # Nobody) <=> wk[w].pump \in {"taken", "running", "reported"}
    BY <2>1 DEF Places, HandsFull
  <2>4. UNCHANGED <<call, sent, asked>>
    BY <1>13 DEF SweepStop
  <2>5. call'.op \in {"kill", "scan"} => call'.job \in sent
    BY <2>4 DEF Places, OnlySent
  <2> QED  BY <2>1, <2>2, <2>3, <2>4, <2>5, Shrinks
<1> QED
  BY <1>0, <1>1, <1>2, <1>3, <1>4, <1>6, <1>7, <1>8, <1>9, <1>11, <1>12, <1>13
     DEF ProcessNext, RouterNext, PumpNextStep

-----------------------------------------------------------------------------
(* A job is reported once *)

Reports == ReportsFollow /\ KillsOnce /\ ReportedOnce

LEMMA ReportsInit == ProcessInit => Reports
<1> SUFFICES ASSUME ProcessInit  PROVE Reports
  OBVIOUS
<1>1. ReportsFollow
  BY EmptyQueue DEF ProcessInit, ReportsFollow, NoWorker, Idle
<1>2. KillsOnce
  BY DEF ProcessInit, KillsOnce, Idle
<1>3. ReportedOnce
  BY DEF ProcessInit, ReportedOnce
<1> QED  BY <1>1, <1>2, <1>3 DEF Reports

\* Steps of one worker that report nothing.
LEMMA Quiet ==
  ASSUME ProcessTypeOK, Places, Reports, NEW w \in Workers, NEW q, NEW p, NEW x,
         Becomes(w, q, p, x, wk[w].cancelled), JobsIn(q) \subseteq JobsIn(wk[w].queue),
         x \in {Nobody, wk[w].hand},
         p \in {"taken", "running"} => x = wk[w].hand /\ wk[w].pump \in {"taken", "running"},
         p = "reported" => x = wk[w].hand /\ wk[w].pump = "reported",
         UNCHANGED <<reports, sent, asked>>, pool' \subseteq pool,
         \/ call' = call
         \/ call'.op \notin {"put", "kill"} /\ (call'.op = "scan" => call'.job \in asked)
  PROVE  Reports'
<1>1. /\ wk'[w].queue = q /\ wk'[w].pump = p /\ wk'[w].hand = x /\ wk'[w].cancelled = wk[w].cancelled
      /\ \A v \in Workers : v # w => wk'[v] = wk[v]
  BY DEF Becomes
<1>2. ReportsFollow'
  <2>1. \A v \in Workers : \A j \in JobsIn(wk'[v].queue) : reports[j] = <<>>
    BY <1>1 DEF Reports, ReportsFollow
  <2>2. \A v \in Workers : wk'[v].pump \in {"taken", "running"} =>
          wk'[v].hand = wk[v].hand /\ wk[v].pump \in {"taken", "running"} /\ wk'[v].cancelled = wk[v].cancelled
    BY <1>1
  <2>3. \A v \in Workers : wk'[v].pump = "reported" =>
          wk'[v].hand = wk[v].hand /\ wk[v].pump = "reported" /\ wk'[v].cancelled = wk[v].cancelled
    BY <1>1
  <2>4. call'.op = "put" => reports[call'.job] = <<>>
    BY DEF Reports, ReportsFollow
  <2> QED  BY <2>1, <2>2, <2>3, <2>4 DEF Reports, ReportsFollow
<1>3. KillsOnce'
  <2>1. \A v \in Workers : wk'[v].cancelled = wk[v].cancelled
                             /\ JobsIn(wk'[v].queue) \subseteq JobsIn(wk[v].queue)
                             /\ wk'[v].hand \in {Nobody, wk[v].hand}
    BY <1>1
  <2>2. \A v \in pool' : ~wk'[v].cancelled
    BY <2>1 DEF Reports, KillsOnce, ProcessTypeOK
  <2>3. call'.op \in {"kill", "scan"} => call'.job \in asked
    BY DEF Reports, KillsOnce
  <2>4. ASSUME call'.op = "kill"
        PROVE  /\ ~wk'[call'.worker].cancelled
               /\ Len(reports[call'.job]) <= 1
               /\ \A v \in Workers : call'.job \notin JobsIn(wk'[v].queue)
               /\ \A v \in Workers : wk'[v].hand = call'.job => v = call'.worker
    <3>1. call' = call /\ call.worker \in Workers /\ call.job \in Jobs
      BY <2>4 DEF ProcessTypeOK, Idle
    <3> QED  BY <2>1, <2>4, <3>1, ProcessAssumption DEF Reports, KillsOnce
  <2> QED  BY <2>2, <2>3, <2>4 DEF KillsOnce
<1>4. ReportedOnce'
  BY DEF Reports, ReportedOnce
<1> QED  BY <1>2, <1>3, <1>4 DEF Reports

\* Steps that touch no worker and report nothing.
LEMMA NothingReported ==
  ASSUME Reports, UNCHANGED <<wk, reports, sent, asked, pool>>,
         call' = call \/ call'.op \notin {"put", "kill", "scan"}
  PROVE  Reports'
<1>1. ReportsFollow'
  BY DEF Reports, ReportsFollow
<1>2. KillsOnce'
  BY DEF Reports, KillsOnce
<1>3. ReportedOnce'
  BY DEF Reports, ReportedOnce
<1> QED  BY <1>1, <1>2, <1>3 DEF Reports

\* The first report of a job, and the second.
LEMMA FirstReport ==
  ASSUME NEW s, NEW o, s = <<>>
  PROVE  Append(s, o) = <<o>> /\ Len(Append(s, o)) = 1
  OBVIOUS

LEMMA LaterReport ==
  ASSUME NEW s \in Seq(Outcomes), NEW o \in Outcomes, Len(s) <= 1
  PROVE  \/ Len(Append(s, o)) <= 1
         \/ Len(Append(s, o)) = 2 /\ Append(s, o)[2] = o
<1>1. Len(s) \in Nat /\ Len(Append(s, o)) = Len(s) + 1 /\ Append(s, o)[Len(s) + 1] = o
  BY LenProperties, AppendProperties
<1>2. Len(s) = 0 \/ Len(s) = 1
  <2>1. \A n \in Nat : n <= 1 => n = 0 \/ n = 1
    OBVIOUS
  <2> QED  BY <1>1, <2>1
<1>3. CASE Len(s) = 0
  BY <1>1, <1>3
<1>4. CASE Len(s) = 1
  BY <1>1, <1>4
<1> QED  BY <1>2, <1>3, <1>4

LEMMA OneReport ==
  ASSUME NEW s, s = <<>> \/ Len(s) = 1
  PROVE  Len(s) <= 1
<1>1. CASE s = <<>>
  BY <1>1
<1>2. CASE Len(s) = 1
  BY <1>2
<1> QED  BY <1>1, <1>2

\* A job that waited in a queue is taken out of it and reported.
LEMMA OneReported ==
  ASSUME ProcessTypeOK, Places, Reports, NEW j \in Jobs, j \in sent,
         Len(reports'[j]) = 1, \A k \in Jobs : k # j => reports'[k] = reports[k],
         \A v \in Workers : JobsIn(wk'[v].queue) \subseteq JobsIn(wk[v].queue) \ {j},
         \A v \in Workers : /\ wk'[v].pump = wk[v].pump /\ wk'[v].hand = wk[v].hand
                            /\ wk'[v].cancelled = wk[v].cancelled,
         \A v \in Workers : wk[v].hand # j,
         UNCHANGED <<sent, asked, pool>>, call'.op = "idle"
  PROVE  Reports'
<1>1. \A v \in Workers : wk[v].pump \in {"taken", "running", "reported"} =>
         reports'[wk[v].hand] = reports[wk[v].hand]
  BY WorkerIs DEF Places, HandsFull
<1>2. \A v \in Workers : \A k \in JobsIn(wk'[v].queue) : reports'[k] = reports[k]
  BY DEF JobsIn
<1>3. ReportsFollow'
  <2>1. \A k \in Jobs : k \notin sent => reports'[k] = <<>>
    BY DEF Reports, ReportsFollow
  <2>2. \A v \in Workers : \A k \in JobsIn(wk'[v].queue) : reports'[k] = <<>>
    BY <1>2 DEF Reports, ReportsFollow
  <2>3. \A v \in Workers : wk'[v].pump \in {"taken", "running"} =>
          \/ reports'[wk'[v].hand] = <<>>
          \/ wk'[v].cancelled /\ wk'[v].hand \in asked /\ reports'[wk'[v].hand] = <<"cancelled">>
    BY <1>1 DEF Reports, ReportsFollow
  <2>4. \A v \in Workers : wk'[v].pump = "reported" /\ ~wk'[v].cancelled =>
          Len(reports'[wk'[v].hand]) = 1
    BY <1>1 DEF Reports, ReportsFollow
  <2> QED  BY <2>1, <2>2, <2>3, <2>4 DEF ReportsFollow
<1>4. KillsOnce'
  BY DEF Reports, KillsOnce, ProcessTypeOK
<1>5. ReportedOnce'
  <2>1. Len(reports'[j]) <= 1
    OBVIOUS
  <2> QED  BY <2>1 DEF Reports, ReportedOnce
<1> QED  BY <1>3, <1>4, <1>5 DEF Reports

\* Only a job without a report, a job whose cancellation raced with its result, or the
\* job of a cancel is reported.
LEMMA ReportsStep ==
  ASSUME ProcessTypeOK, Places, Reports, [ProcessNext]_procVars
  PROVE  Reports'
<1>0. CASE UNCHANGED procVars
  BY <1>0, NothingReported DEF procVars
<1>1. ASSUME NEW j \in Jobs, Refuse(j)  PROVE Reports'
  <2>1. /\ UNCHANGED <<wk, asked, pool, call>> /\ call.op = "idle" /\ j \notin sent /\ sent' = sent \cup {j}
        /\ \A k \in Jobs : k # j => reports'[k] = reports[k]
        /\ reports'[j] = Append(reports[j], "refused")
    BY <1>1 DEF Refuse, Report, Idle
  <2>2. Len(reports'[j]) = 1
    BY <2>1, FirstReport DEF Reports, ReportsFollow
  <2>3. \A w \in Workers : j \notin JobsIn(wk[w].queue) /\ wk[w].hand # j
    BY <2>1, ProcessAssumption DEF Places, OnlySent
  <2>4. \A w \in Workers : JobsIn(wk[w].queue) \subseteq Jobs /\ wk[w].hand \in Jobs \cup {Nobody}
    BY WorkerIs DEF JobsIn
  <2>5. \A w \in Workers : wk[w].pump \in {"taken", "running", "reported"} => wk[w].hand \in Jobs
    BY <2>4 DEF Places, HandsFull
  <2>6. ReportsFollow'
    BY <2>1, <2>3, <2>4, <2>5 DEF Reports, ReportsFollow
  <2>7. KillsOnce'
    BY <2>1 DEF Reports, KillsOnce
  <2>8. ReportedOnce'
    BY <2>1, <2>2 DEF Reports, ReportedOnce
  <2> QED  BY <2>6, <2>7, <2>8 DEF Reports
<1>2. ASSUME NEW j \in Jobs, Select(j)  PROVE Reports'
  <2>1. PICK w \in Workers :
           /\ call' = [op |-> "put", job |-> j, worker |-> w]
           /\ \/ UNCHANGED <<pool, wk>>
              \/ pool' = pool \cup {w} /\ Becomes(w, <<>>, "waiting", Nobody, FALSE)
    BY <1>2, SelectShape
  <2>2. /\ sent' = sent \cup {j} /\ j \notin sent /\ call'.op = "put" /\ call'.job = j
        /\ UNCHANGED <<reports, asked>>
    BY <1>2, <2>1 DEF Select
  <2>3. \A v \in Workers : \/ wk'[v] = wk[v]
                           \/ wk'[v].queue = <<>> /\ wk'[v].pump = "waiting" /\ ~wk'[v].cancelled
    BY <2>1 DEF Becomes
  <2>4. \A v \in pool' : v \in pool \/ ~wk'[v].cancelled
    BY <2>1 DEF Becomes
  <2>5. ReportsFollow'
    BY <2>2, <2>3, EmptyQueue DEF Reports, ReportsFollow
  <2>6. KillsOnce'
    BY <2>2, <2>3, <2>4 DEF Reports, KillsOnce, ProcessTypeOK
  <2>7. ReportedOnce'
    BY <2>2 DEF Reports, ReportedOnce
  <2> QED  BY <2>5, <2>6, <2>7 DEF Reports
<1>3. ASSUME NEW j \in Jobs, CancelFind(j)  PROVE Reports'
  <2> DEFINE on == {w \in pool : Busy(w) /\ wk[w].hand = j}
  <2>1. /\ UNCHANGED <<wk, sent, reports, pool>> /\ asked' = asked \cup {j} /\ j \in sent
        /\ call'.op \in {"kill", "scan"} /\ call'.job = j
        /\ call'.op = "kill" => call'.worker \in on
    BY <1>3 DEF CancelFind
  <2>2. ASSUME call'.op = "kill"
        PROVE  /\ ~wk'[call'.worker].cancelled
               /\ Len(reports'[call'.job]) <= 1
               /\ \A v \in Workers : call'.job \notin JobsIn(wk'[v].queue)
               /\ \A v \in Workers : wk'[v].hand = call'.job => v = call'.worker
    <3> DEFINE w == call'.worker
    <3>1. w \in Workers /\ w \in pool /\ wk[w].pump \in {"running", "reported"} /\ wk[w].hand = j
      BY <2>1, <2>2 DEF ProcessTypeOK, Busy
    <3>2. ~wk[w].cancelled
      BY <3>1 DEF Reports, KillsOnce
    <3>3. Len(reports[j]) <= 1
      <4>1. reports[j] = <<>> \/ Len(reports[j]) = 1
        BY <3>1, <3>2 DEF Reports, ReportsFollow
      <4> QED  BY <4>1, OneReport
    <3>4. \A v \in Workers : j \notin JobsIn(wk[v].queue)
      BY <3>1 DEF Places, PlacesUnique
    <3>5. \A v \in Workers : wk[v].hand = j => v = w
      BY <3>1, ProcessAssumption DEF Places, PlacesUnique
    <3> QED  BY <2>1, <3>2, <3>3, <3>4, <3>5
  <2>3. ReportsFollow'
    BY <2>1 DEF Reports, ReportsFollow
  <2>4. KillsOnce'
    BY <2>1, <2>2 DEF Reports, KillsOnce
  <2>5. ReportedOnce'
    BY <2>1 DEF Reports, ReportedOnce
  <2> QED  BY <2>3, <2>4, <2>5 DEF Reports
<1>4. ASSUME Put  PROVE Reports'
  <2> DEFINE w == call.worker
             j == call.job
             q == Append(wk[w].queue, j)
  <2>1. w \in Workers /\ j \in Jobs /\ Becomes(w, q, wk[w].pump, wk[w].hand, wk[w].cancelled)
    BY <1>4, PutShape
  <2>2. call.op = "put" /\ call'.op = "idle" /\ UNCHANGED <<sent, asked, reports, pool>>
    BY <1>4 DEF Put, Idle
  <2>3. JobsIn(q) = JobsIn(wk[w].queue) \cup ({j} \cap Jobs)
    <3>1. wk[w].queue \in Seq(Items) /\ j \in Items
      BY <2>1, WorkerIs DEF Items
    <3> QED  BY <3>1, Queued
  <2> HIDE DEF q
  <2>4. \A v \in Workers : /\ JobsIn(wk'[v].queue) \subseteq JobsIn(wk[v].queue) \cup {j}
                           /\ wk'[v].pump = wk[v].pump /\ wk'[v].hand = wk[v].hand
                           /\ wk'[v].cancelled = wk[v].cancelled
    BY <2>1, <2>3 DEF Becomes
  <2>5. ReportsFollow'
    <3>1. reports[j] = <<>>
      BY <2>2 DEF Reports, ReportsFollow
    <3>2. \A v \in Workers : \A k \in JobsIn(wk'[v].queue) : reports[k] = <<>>
      BY <2>4, <3>1 DEF Reports, ReportsFollow
    <3> QED  BY <2>2, <2>4, <3>2 DEF Reports, ReportsFollow
  <2>6. KillsOnce'
    BY <2>2, <2>4 DEF Reports, KillsOnce, ProcessTypeOK
  <2>7. ReportedOnce'
    BY <2>2 DEF Reports, ReportedOnce
  <2> QED  BY <2>5, <2>6, <2>7 DEF Reports
<1>5. ASSUME NEW w \in Workers, RouterDies(w), UNCHANGED <<sent, asked>>, pool' \subseteq pool
      PROVE  Reports'
  <2>1. Becomes(w, AfterStop(wk[w].queue), wk[w].pump, wk[w].hand, wk[w].cancelled)
    BY <1>5, RouterDiesShape
  <2>2. JobsIn(AfterStop(wk[w].queue)) \subseteq JobsIn(wk[w].queue)
    BY <1>5, WorkerIs, DrainedToStop DEF RouterDies
  <2>3. call'.op = "dead" /\ reports' = reports
    BY <1>5 DEF RouterDies
  <2> QED  BY <1>5, <2>1, <2>2, <2>3, Quiet
<1>6. ASSUME CancelKill  PROVE Reports'
  <2> DEFINE w == call.worker
             j == call.job
  <2>0. /\ w \in Workers /\ j \in Jobs /\ call.op = "kill"
        /\ pool' = pool \ {w} /\ UNCHANGED <<sent, asked>>
    BY <1>6 DEF CancelKill, ProcessTypeOK, Idle
  <2>1. CASE RouterDies(w)
    BY <1>5, <2>0, <2>1
  <2>2. CASE ~HasStop(wk[w].queue)
    <3>1. Becomes(w, <<>>, wk[w].pump, wk[w].hand, TRUE)
      BY <1>6, <2>2, KillShape
    <3>2. /\ call'.op = "idle"
          /\ \A k \in Jobs : /\ k = j => reports'[k] = Append(reports[k], "cancelled")
                             /\ k # j /\ k \in JobsIn(wk[w].queue) => reports'[k] = Append(reports[k], "crashed")
                             /\ k # j /\ k \notin JobsIn(wk[w].queue) => reports'[k] = reports[k]
      BY <1>6, <2>2 DEF CancelKill, RouterDies, Idle
    <3>3. /\ ~wk[w].cancelled /\ Len(reports[j]) <= 1 /\ j \in asked /\ j \in sent
          /\ \A v \in Workers : j \notin JobsIn(wk[v].queue)
          /\ \A v \in Workers : wk[v].hand = j => v = w
      BY <2>0 DEF Reports, KillsOnce, Places, OnlySent
    <3>4. \A k \in Jobs : k # j /\ k \in JobsIn(wk[w].queue) => Len(reports'[k]) = 1
      <4> SUFFICES ASSUME NEW k \in Jobs, k # j, k \in JobsIn(wk[w].queue)
                   PROVE  Len(reports'[k]) = 1
        OBVIOUS
      <4>1. reports[k] = <<>> /\ reports'[k] = Append(reports[k], "crashed")
        BY <2>0, <3>2 DEF Reports, ReportsFollow
      <4> QED  BY <4>1, FirstReport
    <3>5. \/ Len(reports'[j]) <= 1
          \/ Len(reports'[j]) = 2 /\ reports'[j][2] = "cancelled"
      <4>1. reports[j] \in Seq(Outcomes) /\ "cancelled" \in Outcomes
        BY <2>0 DEF ProcessTypeOK, Outcomes
      <4>2. reports'[j] = Append(reports[j], "cancelled")
        BY <2>0, <3>2
      <4>3. \/ Len(Append(reports[j], "cancelled")) <= 1
            \/ /\ Len(Append(reports[j], "cancelled")) = 2
               /\ Append(reports[j], "cancelled")[2] = "cancelled"
        BY <3>3, <4>1, LaterReport
      <4> QED  BY <4>2, <4>3
    <3>6. reports[j] = <<>> => reports'[j] = <<"cancelled">>
      BY <2>0, <3>2, FirstReport
    <3>7. /\ wk'[w].queue = <<>> /\ wk'[w].pump = wk[w].pump /\ wk'[w].hand = wk[w].hand
          /\ wk'[w].cancelled /\ \A v \in Workers : v # w => wk'[v] = wk[v]
      BY <3>1 DEF Becomes
    <3>8. \A v \in Workers : wk[v].pump \in {"taken", "running", "reported"} =>
             wk[v].hand \in Jobs /\ wk[v].hand \notin JobsIn(wk[w].queue)
      BY <2>0, WorkerIs DEF Places, HandsFull, PlacesUnique
    <3>9. ReportsFollow'
      <4>1. \A k \in Jobs : k \notin sent => reports'[k] = <<>>
        BY <2>0, <3>2, <3>3 DEF Reports, ReportsFollow, Places, OnlySent
      <4>2. \A v \in Workers : \A k \in JobsIn(wk'[v].queue) : reports'[k] = <<>>
        <5> SUFFICES ASSUME NEW v \in Workers, NEW k \in JobsIn(wk'[v].queue)
                     PROVE  reports'[k] = <<>>
          OBVIOUS
        <5>1. v # w
          BY <3>7, EmptyQueue
        <5>2. k \in JobsIn(wk[v].queue) /\ k \in Jobs /\ k # j
          BY <3>3, <3>7, <5>1 DEF JobsIn
        <5>3. k \notin JobsIn(wk[w].queue)
          BY <2>0, <5>1, <5>2 DEF Places, PlacesUnique
        <5> QED  BY <3>2, <5>2, <5>3 DEF Reports, ReportsFollow
      <4>3. \A v \in Workers : v # w =>
              /\ wk'[v].pump \in {"taken", "running"} =>
                   \/ reports'[wk'[v].hand] = <<>>
                   \/ /\ wk'[v].cancelled /\ wk'[v].hand \in asked
                      /\ reports'[wk'[v].hand] = <<"cancelled">>
              /\ wk'[v].pump = "reported" /\ ~wk'[v].cancelled => Len(reports'[wk'[v].hand]) = 1
        <5> SUFFICES ASSUME NEW v \in Workers, v # w
                     PROVE  /\ wk[v].pump \in {"taken", "running"} =>
                                 \/ reports'[wk[v].hand] = <<>>
                                 \/ /\ wk[v].cancelled /\ wk[v].hand \in asked
                                    /\ reports'[wk[v].hand] = <<"cancelled">>
                            /\ wk[v].pump = "reported" /\ ~wk[v].cancelled =>
                                 Len(reports'[wk[v].hand]) = 1
          BY <3>7
        <5>1. wk[v].pump \in {"taken", "running", "reported"} => reports'[wk[v].hand] = reports[wk[v].hand]
          BY <3>2, <3>3, <3>8
        <5> QED  BY <5>1 DEF Reports, ReportsFollow
      <4>4. wk'[w].pump \in {"taken", "running"} =>
              \/ reports'[wk'[w].hand] = <<>>
              \/ wk'[w].hand \in asked /\ reports'[wk'[w].hand] = <<"cancelled">>
        <5> SUFFICES ASSUME wk[w].pump \in {"taken", "running"}
                     PROVE  \/ reports'[wk[w].hand] = <<>>
                            \/ wk[w].hand \in asked /\ reports'[wk[w].hand] = <<"cancelled">>
          BY <3>7
        <5>1. reports[wk[w].hand] = <<>>
          BY <2>0, <3>3 DEF Reports, ReportsFollow
        <5>2. wk[w].hand \in Jobs /\ wk[w].hand \notin JobsIn(wk[w].queue)
          BY <2>0, <3>8
        <5> QED  BY <3>2, <3>3, <3>6, <5>1, <5>2
      <4> QED  BY <2>0, <3>2, <3>7, <4>1, <4>2, <4>3, <4>4 DEF ReportsFollow
    <3>10. KillsOnce'
      BY <2>0, <3>2, <3>7 DEF Reports, KillsOnce, ProcessTypeOK
    <3>11. ReportedOnce'
      <4> SUFFICES ASSUME NEW k \in Jobs
                   PROVE  \/ Len(reports'[k]) <= 1
                          \/ /\ Len(reports'[k]) = 2 /\ k \in asked
                             /\ \/ reports'[k][2] = "cancelled"
                                \/ reports'[k] = <<"cancelled", "done">>
        BY <2>0 DEF ReportedOnce
      <4>1. CASE k = j
        BY <3>3, <3>5, <4>1
      <4>2. CASE k # j
        BY <3>2, <3>4, <4>2 DEF Reports, ReportedOnce
      <4> QED  BY <4>1, <4>2
    <3> QED  BY <3>9, <3>10, <3>11 DEF Reports
  <2> QED  BY <1>6, <2>1, <2>2 DEF CancelKill
<1>8. ASSUME CancelNotFound \/ DeleteFunction  PROVE Reports'
  BY <1>8, NothingReported DEF CancelNotFound, DeleteFunction, Idle
<1>7. ASSUME NEW w \in Workers, CancelScan(w)  PROVE Reports'
  <2>0. pool' = pool /\ UNCHANGED <<sent, asked>>
    BY <1>7 DEF CancelScan
  <2>1. CASE RouterDies(w)
    BY <1>5, <2>0, <2>1
  <2>2. CASE ~HasStop(wk[w].queue)
    <3> DEFINE j == call.job
               q == Without(wk[w].queue, j)
               found == j \in JobsIn(wk[w].queue)
    <3>1. call \in [op : {"scan"}, job : Jobs, left : SUBSET Workers]
            /\ Becomes(w, q, wk[w].pump, wk[w].hand, wk[w].cancelled)
      BY <1>7, <2>2, ScanShape
    <3>2. j \in Jobs /\ j \in asked
      BY <3>1 DEF Reports, KillsOnce
    <3>3. JobsIn(q) \subseteq JobsIn(wk[w].queue) /\ j \notin JobsIn(q)
      BY <3>1, <3>2, WorkerIs, RebuiltWithout DEF Places, PlacesUnique
    <3> HIDE DEF q
    <3>4. CASE ~found
      <4>1. call'.op = "scan" /\ call'.job = j
        BY <1>7, <2>2, <3>1, <3>4 DEF CancelScan, RouterDies
      <4>2. reports' = reports
        <5>1. reports' = [k \in Jobs |-> reports[k]]
          BY <1>7, <2>2, <3>4 DEF CancelScan, RouterDies, Report
        <5> QED  BY <5>1 DEF ProcessTypeOK
      <4> QED  BY <2>0, <3>1, <3>2, <3>3, <4>1, <4>2, Quiet
    <3>5. CASE found
      <4>1. /\ call'.op = "idle" /\ reports'[j] = Append(reports[j], "cancelled")
            /\ \A k \in Jobs : k # j => reports'[k] = reports[k]
        BY <1>7, <2>2, <3>2, <3>5 DEF CancelScan, RouterDies, Report, Idle
      <4>2. reports[j] = <<>>
        BY <3>5 DEF Reports, ReportsFollow
      <4>3. Len(reports'[j]) = 1
        BY <4>1, <4>2, FirstReport
      <4>4. /\ \A v \in Workers : JobsIn(wk'[v].queue) \subseteq JobsIn(wk[v].queue) \ {j}
            /\ \A v \in Workers : /\ wk'[v].pump = wk[v].pump /\ wk'[v].hand = wk[v].hand
                                  /\ wk'[v].cancelled = wk[v].cancelled
        BY <3>1, <3>3, <3>5 DEF Becomes, Places, PlacesUnique
      <4>5. \A v \in Workers : wk[v].hand # j
        BY <3>5 DEF Places, PlacesUnique
      <4>6. j \in sent
        BY <3>5 DEF Places, OnlySent
      <4> QED  BY <2>0, <3>2, <4>1, <4>3, <4>4, <4>5, <4>6, OneReported
    <3> QED  BY <3>4, <3>5
  <2> QED  BY <1>7, <2>1, <2>2 DEF CancelScan
<1>9. ASSUME NEW w \in Workers, PumpTake(w)  PROVE Reports'
  <2> DEFINE q == wk[w].queue
             item == Head(q)
             x == IF item = Stop THEN Nobody ELSE item
             p == IF item = Stop THEN "ended" ELSE "taken"
             t == Tail(q)
  <2>1. Becomes(w, t, p, x, wk[w].cancelled)
    BY <1>9, TakeShape
  <2>2. item \in Items /\ JobsIn(t) \subseteq JobsIn(q) /\ (item \in Jobs => item \in JobsIn(q))
    BY <1>9, WorkerIs, Taken DEF PumpTake
  <2>3. \/ x = Nobody /\ p = "ended"
        \/ x \in JobsIn(q) /\ p = "taken"
    BY <2>2 DEF Items
  <2>4. UNCHANGED <<call, sent, reports, asked, pool>>
    BY <1>9 DEF PumpTake
  <2> HIDE DEF x, p, t, q
  <2>5. /\ wk'[w].queue = t /\ wk'[w].hand = x /\ wk'[w].pump = p /\ wk'[w].cancelled = wk[w].cancelled
        /\ \A v \in Workers : v # w => wk'[v] = wk[v]
    BY <2>1 DEF Becomes
  <2>6. p = "taken" => reports[x] = <<>>
    BY <2>3 DEF Reports, ReportsFollow, q
  <2>7. \A v \in Workers : /\ JobsIn(wk'[v].queue) \subseteq JobsIn(wk[v].queue)
                           /\ wk'[v].cancelled = wk[v].cancelled
    BY <2>2, <2>5 DEF q
  <2>8. ReportsFollow'
    <3>1. \A v \in Workers : \A j \in JobsIn(wk'[v].queue) : reports[j] = <<>>
      BY <2>7 DEF Reports, ReportsFollow
    <3>2. \A v \in Workers : wk'[v].pump \in {"taken", "running"} =>
            \/ reports[wk'[v].hand] = <<>>
            \/ wk'[v].cancelled /\ wk'[v].hand \in asked /\ reports[wk'[v].hand] = <<"cancelled">>
      BY <2>3, <2>5, <2>6 DEF Reports, ReportsFollow
    <3>3. \A v \in Workers : wk'[v].pump = "reported" => wk'[v] = wk[v]
      BY <2>3, <2>5
    <3> QED  BY <2>4, <3>1, <3>2, <3>3 DEF Reports, ReportsFollow
  <2>9. KillsOnce'
    <3>1. ASSUME call.op = "kill"
          PROVE  /\ \A v \in Workers : call.job \notin JobsIn(wk'[v].queue)
                 /\ \A v \in Workers : wk'[v].hand = call.job => v = call.worker
                 /\ call.worker \in Workers
      <4>1. call.job \in Jobs /\ call.worker \in Workers
        BY <3>1 DEF ProcessTypeOK, Idle
      <4>2. call.job # x
        BY <2>3, <3>1, <4>1, ProcessAssumption DEF Reports, KillsOnce, q
      <4> QED  BY <2>5, <2>7, <3>1, <4>1, <4>2 DEF Reports, KillsOnce
    <3> QED  BY <2>4, <2>7, <3>1 DEF Reports, KillsOnce, ProcessTypeOK
  <2>10. ReportedOnce'
    BY <2>4 DEF Reports, ReportedOnce
  <2> QED  BY <2>8, <2>9, <2>10 DEF Reports
<1>10. ASSUME NEW w \in Workers, PumpDispatch(w) \/ WorkerAnswer(w) \/ PumpNext(w)
                                    \/ WorkerDies(w) \/ SweepKill(w)
       PROVE  Reports'
  <2>1. UNCHANGED <<call, reports, sent, asked>> /\ pool' \subseteq pool
    BY <1>10 DEF PumpDispatch, WorkerAnswer, PumpNext, WorkerDies, SweepKill
  <2>2. CASE PumpDispatch(w)
    BY <2>1, <2>2, PumpShape, Quiet DEF PumpDispatch
  <2>3. CASE PumpNext(w)
    BY <2>1, <2>3, PumpShape, Quiet
  <2>4. CASE WorkerAnswer(w) \/ WorkerDies(w) \/ SweepKill(w)
    BY <2>1, <2>4, PumpShape, Quiet
  <2> QED  BY <1>10, <2>2, <2>3, <2>4
<1>11. ASSUME NEW w \in Workers, PumpReceive(w)  PROVE Reports'
  <2> DEFINE j == wk[w].hand
  <2>1. /\ j \in Jobs /\ j \in sent
        /\ \A v \in Workers : j \notin JobsIn(wk[v].queue)
        /\ \A v \in Workers : v # w => wk[v].hand # j
        /\ call.op = "put" => call.job # j
    BY <1>11, WorkerIs, ProcessAssumption DEF PumpReceive, Places, HandsFull, OnlySent, PlacesUnique
  <2>2. /\ wk[w].pump = "running" /\ UNCHANGED <<call, sent, asked, pool>>
        /\ reports'[j] = Append(reports[j], "done") /\ \A k \in Jobs : k # j => reports'[k] = reports[k]
    BY <1>11, <2>1 DEF PumpReceive, Report
  <2>3. /\ wk'[w].queue = wk[w].queue /\ wk'[w].pump = "reported" /\ wk'[w].hand = j
        /\ wk'[w].cancelled = wk[w].cancelled /\ \A v \in Workers : v # w => wk'[v] = wk[v]
    BY <1>11, PumpShape DEF Becomes
  <2>4. \/ reports[j] = <<>>
        \/ wk[w].cancelled /\ j \in asked /\ reports[j] = <<"cancelled">>
    BY <2>2 DEF Reports, ReportsFollow
  <2>5. \/ Len(reports'[j]) = 1
        \/ wk[w].cancelled /\ j \in asked /\ reports'[j] = <<"cancelled", "done">>
    <3>1. Append(<<"cancelled">>, "done") = <<"cancelled", "done">>
      <4>1. /\ <<"cancelled">> \in Seq(Outcomes) /\ "done" \in Outcomes
            /\ <<"cancelled", "done">> \in Seq(Outcomes)
        BY DEF Outcomes
      <4>2. /\ Len(<<"cancelled">>) = 1 /\ Len(<<"cancelled", "done">>) = 2
            /\ <<"cancelled", "done">>[1] = "cancelled" /\ <<"cancelled", "done">>[2] = "done"
            /\ <<"cancelled">>[1] = "cancelled"
        OBVIOUS
      <4> DEFINE a == Append(<<"cancelled">>, "done")
      <4>3. a \in Seq(Outcomes) /\ Len(a) = 2 /\ a[2] = "done" /\ a[1] = "cancelled"
        BY <4>1, <4>2, AppendProperties
      <4> HIDE DEF a
      <4>4. \A i \in 1 .. Len(a) : a[i] = <<"cancelled", "done">>[i]
        BY <4>2, <4>3
      <4> QED  BY <4>1, <4>2, <4>3, <4>4, SeqEqual DEF a
    <3> QED  BY <2>2, <2>4, <3>1, FirstReport
  <2>6. \A v \in Workers : v # w /\ wk[v].pump \in {"taken", "running", "reported"} =>
           reports'[wk[v].hand] = reports[wk[v].hand]
    BY <2>1, <2>2, WorkerIs DEF Places, HandsFull
  <2>7. ReportsFollow'
    <3>1. \A k \in Jobs : k \notin sent => reports'[k] = <<>>
      BY <2>1, <2>2 DEF Reports, ReportsFollow
    <3>2. \A v \in Workers : \A k \in JobsIn(wk'[v].queue) : reports'[k] = <<>>
      <4> SUFFICES ASSUME NEW v \in Workers, NEW k \in JobsIn(wk[v].queue)  PROVE reports'[k] = <<>>
        BY <2>3
      <4>1. k \in Jobs /\ k # j
        BY <2>1 DEF JobsIn
      <4> QED  BY <2>2, <4>1 DEF Reports, ReportsFollow
    <3>3. \A v \in Workers : wk'[v].pump \in {"taken", "running"} =>
            \/ reports'[wk'[v].hand] = <<>>
            \/ wk'[v].cancelled /\ wk'[v].hand \in asked /\ reports'[wk'[v].hand] = <<"cancelled">>
      BY <2>3, <2>6 DEF Reports, ReportsFollow
    <3>4. \A v \in Workers : wk'[v].pump = "reported" /\ ~wk'[v].cancelled =>
            Len(reports'[wk'[v].hand]) = 1
      BY <2>3, <2>5, <2>6 DEF Reports, ReportsFollow
    <3>5. call.op = "put" => reports'[call.job] = <<>>
      BY <2>1, <2>2 DEF Reports, ReportsFollow, ProcessTypeOK, Idle
    <3> QED  BY <2>2, <3>1, <3>2, <3>3, <3>4, <3>5 DEF ReportsFollow
  <2>8. KillsOnce'
    <3>1. \A v \in Workers : /\ wk'[v].queue = wk[v].queue /\ wk'[v].hand = wk[v].hand
                             /\ wk'[v].cancelled = wk[v].cancelled
      BY <2>3
    <3>2. ASSUME call.op = "kill"
          PROVE  Len(reports'[call.job]) <= 1 /\ call.worker \in Workers
      <4>1. call.job \in Jobs /\ call.worker \in Workers
        BY <3>2 DEF ProcessTypeOK, Idle
      <4>2. CASE call.job = j
        <5>1. w = call.worker /\ ~wk[w].cancelled
          BY <3>2, <4>2 DEF Reports, KillsOnce
        <5>2. Len(reports'[j]) = 1
          BY <2>5, <5>1
        <5> QED  BY <4>1, <4>2, <5>2
      <4>3. CASE call.job # j
        BY <2>2, <3>2, <4>1, <4>3 DEF Reports, KillsOnce
      <4> QED  BY <4>2, <4>3
    <3> QED  BY <2>2, <3>1, <3>2 DEF Reports, KillsOnce, ProcessTypeOK
  <2>9. ReportedOnce'
    <3>1. \/ Len(reports'[j]) <= 1
          \/ Len(reports'[j]) = 2 /\ j \in asked /\ reports'[j] = <<"cancelled", "done">>
      <4>1. Len(<<"cancelled", "done">>) = 2
        OBVIOUS
      <4>2. CASE Len(reports'[j]) = 1
        BY <4>2
      <4> QED  BY <2>5, <4>1, <4>2
    <3> QED  BY <2>2, <3>1 DEF Reports, ReportedOnce
  <2> QED  BY <2>7, <2>8, <2>9 DEF Reports
<1>12. ASSUME SweepStop  PROVE Reports'
  <2> DEFINE w == sweeping
             q == Append(wk[w].queue, Stop)
  <2>1. w \in Workers /\ Becomes(w, q, wk[w].pump, wk[w].hand, wk[w].cancelled)
    BY <1>12, SweepStopShape
  <2>2. JobsIn(q) \subseteq JobsIn(wk[w].queue)
    BY <2>1, ProcessAssumption, WorkerIs, Queued DEF Items
  <2> HIDE DEF q
  <2>3. UNCHANGED <<call, reports, sent, asked, pool>>
    BY <1>12 DEF SweepStop
  <2> QED  BY <2>1, <2>2, <2>3, Quiet
<1>13. ASSUME NEW w \in Workers, PumpCrash(w) \/ PumpTimeout(w)  PROVE Reports'
  <2> DEFINE q == wk[w].queue
             j == wk[w].hand
             r == IF wk[w].cancelled THEN q ELSE IF HasStop(q) THEN AfterStop(q) ELSE <<>>
  <2>1. PICK o \in {"crashed", "timeout"} : Teardown(w, o)
    BY <1>13 DEF PumpCrash, PumpTimeout
  <2>2. Becomes(w, r, "ended", Nobody, wk[w].cancelled)
    BY <2>1, TeardownShape
  <2>3. JobsIn(r) \subseteq JobsIn(q)
    BY WorkerIs, DrainedToStop, EmptyQueue
  <2> HIDE DEF r
  <2>4. UNCHANGED <<call, sent, asked>> /\ wk[w].pump \in {"taken", "running"}
    BY <1>13 DEF PumpCrash, PumpTimeout
  <2>5. pool' \subseteq pool
    BY <2>1 DEF Teardown
  <2>6. CASE wk[w].cancelled \/ HasStop(q)
    <3>1. reports' = reports
      BY <2>1, <2>6 DEF Teardown
    <3> QED  BY <2>2, <2>3, <2>4, <2>5, <3>1, Quiet
  <2>7. CASE ~wk[w].cancelled /\ ~HasStop(q)
    <3>1. \A k \in Jobs : /\ k = j => reports'[k] = Append(reports[k], o)
                          /\ k # j /\ k \in JobsIn(q) => reports'[k] = Append(reports[k], "crashed")
                          /\ k # j /\ k \notin JobsIn(q) => reports'[k] = reports[k]
      BY <2>1, <2>7 DEF Teardown
    <3>2. /\ wk'[w].queue = <<>> /\ wk'[w].pump = "ended" /\ wk'[w].hand = Nobody
          /\ wk'[w].cancelled = wk[w].cancelled /\ \A v \in Workers : v # w => wk'[v] = wk[v]
      BY <2>2, <2>7 DEF Becomes, r
    <3>3. /\ j \in Jobs /\ j \in sent /\ JobsIn(q) \subseteq sent
          /\ \A v \in Workers : j \notin JobsIn(wk[v].queue)
          /\ \A v \in Workers : v # w => wk[v].hand # j /\ wk[v].hand \notin JobsIn(q)
          /\ \A v \in Workers : v # w => JobsIn(wk[v].queue) \cap JobsIn(q) = {}
          /\ call.op = "put" => call.job # j /\ call.job \notin JobsIn(q)
      BY <2>4, WorkerIs, ProcessAssumption DEF Places, HandsFull, OnlySent, PlacesUnique
    <3>4. \A k \in Jobs : \/ Len(reports'[k]) = 1 /\ (k = j \/ k \in JobsIn(q))
                          \/ reports'[k] = reports[k] /\ k # j /\ k \notin JobsIn(q)
      <4> SUFFICES ASSUME NEW k \in Jobs, k = j \/ k \in JobsIn(q)
                   PROVE  Len(reports'[k]) = 1
        BY <3>1
      <4>1. reports[k] = <<>>
        BY <2>4, <2>7 DEF Reports, ReportsFollow
      <4>2. reports'[k] = Append(reports[k], o) \/ reports'[k] = Append(reports[k], "crashed")
        BY <3>1
      <4> QED  BY <4>1, <4>2, FirstReport
    <3> HIDE DEF j, q
    <3>5. \A v \in Workers : v # w /\ wk[v].pump \in {"taken", "running", "reported"} =>
             reports'[wk[v].hand] = reports[wk[v].hand]
      BY <3>3, <3>4, WorkerIs DEF Places, HandsFull
    <3>6. ReportsFollow'
      <4>1. \A k \in Jobs : k \notin sent => reports'[k] = <<>>
        BY <3>3, <3>4 DEF Reports, ReportsFollow
      <4>2. \A v \in Workers : \A k \in JobsIn(wk'[v].queue) : reports'[k] = <<>>
        <5> SUFFICES ASSUME NEW v \in Workers, NEW k \in JobsIn(wk'[v].queue)  PROVE reports'[k] = <<>>
          OBVIOUS
        <5>1. v # w /\ k \in JobsIn(wk[v].queue) /\ k \in Jobs
          BY <3>2, EmptyQueue DEF JobsIn
        <5>2. k # j /\ k \notin JobsIn(q)
          BY <3>3, <5>1
        <5> QED  BY <3>4, <5>1, <5>2 DEF Reports, ReportsFollow
      <4>3. \A v \in Workers : wk'[v].pump \in {"taken", "running"} =>
              \/ reports'[wk'[v].hand] = <<>>
              \/ wk'[v].cancelled /\ wk'[v].hand \in asked /\ reports'[wk'[v].hand] = <<"cancelled">>
        BY <3>2, <3>5 DEF Reports, ReportsFollow
      <4>4. \A v \in Workers : wk'[v].pump = "reported" /\ ~wk'[v].cancelled =>
              Len(reports'[wk'[v].hand]) = 1
        BY <3>2, <3>5 DEF Reports, ReportsFollow
      <4>5. call.op = "put" => reports'[call.job] = <<>>
        BY <3>3, <3>4 DEF Reports, ReportsFollow, ProcessTypeOK, Idle
      <4> QED  BY <2>4, <4>1, <4>2, <4>3, <4>4, <4>5 DEF ReportsFollow
    <3>7. KillsOnce'
      <4>1. \A v \in Workers : /\ JobsIn(wk'[v].queue) \subseteq JobsIn(wk[v].queue)
                               /\ wk'[v].hand \in {wk[v].hand, Nobody}
                               /\ wk'[v].cancelled = wk[v].cancelled
        BY <3>2, EmptyQueue
      <4>2. ASSUME call.op = "kill"
            PROVE  Len(reports'[call.job]) <= 1 /\ call.worker \in Workers /\ call.job # Nobody
        <5>1. call.job \in Jobs /\ call.worker \in Workers
          BY <4>2 DEF ProcessTypeOK, Idle
        <5>2. CASE Len(reports'[call.job]) = 1
          BY <5>1, <5>2, ProcessAssumption
        <5>3. CASE reports'[call.job] = reports[call.job]
          BY <4>2, <5>1, <5>3, ProcessAssumption DEF Reports, KillsOnce
        <5> QED  BY <3>4, <5>1, <5>2, <5>3
      <4> QED  BY <2>4, <2>5, <4>1, <4>2 DEF Reports, KillsOnce, ProcessTypeOK
    <3>8. ReportedOnce'
      <4> SUFFICES ASSUME NEW k \in Jobs
                   PROVE  \/ Len(reports'[k]) <= 1
                          \/ /\ Len(reports'[k]) = 2 /\ k \in asked
                             /\ \/ reports'[k][2] = "cancelled"
                                \/ reports'[k] = <<"cancelled", "done">>
        BY <2>4 DEF ReportedOnce
      <4>1. CASE Len(reports'[k]) = 1
        BY <4>1
      <4>2. CASE reports'[k] = reports[k]
        BY <4>2 DEF Reports, ReportedOnce
      <4> QED  BY <3>4, <4>1, <4>2
    <3> QED  BY <3>6, <3>7, <3>8 DEF Reports
  <2> QED  BY <2>6, <2>7
<1> QED
  BY <1>0, <1>1, <1>2, <1>3, <1>4, <1>6, <1>7, <1>8, <1>9, <1>10, <1>11, <1>12, <1>13
     DEF ProcessNext, RouterNext, PumpNextStep

\* The invariant is inductive: every behaviour stays in it.
THEOREM ProcessInvariant == ProcessSpec => []ProcessInv
<1>1. ProcessInit => ProcessTypeOK /\ Places /\ Reports
  BY TypeInit, PlacesInit, ReportsInit
<1>2. ProcessTypeOK /\ Places /\ Reports /\ [ProcessNext]_procVars
        => (ProcessTypeOK /\ Places /\ Reports)'
  BY TypeStep, PlacesStep, ReportsStep
<1>3. ProcessTypeOK /\ Places /\ Reports => ProcessInv
  BY DEF ProcessInv, Places, Reports
<1> QED  BY <1>1, <1>2, <1>3, PTL DEF ProcessSpec

\* A job is reported once; a second report comes only from a cancel racing with the
\* job's end, whatever the pumps, the router and the sweeper do in between.
THEOREM ReportedOnceAlways == ProcessSpec => []ReportedOnce
<1>1. ProcessInv => ReportedOnce
  BY DEF ProcessInv
<1> QED  BY <1>1, ProcessInvariant, PTL

-----------------------------------------------------------------------------
(* The runtime implements the board: what a poll of job j returns *)

Shown(j) == IF reports[j] # <<>> THEN reports[j][Len(reports[j])]
            ELSE IF j \in sent THEN "pending" ELSE "unknown"

\* The last report wins.
LEMMA LastReport ==
  ASSUME NEW s \in Seq(Outcomes), NEW o \in Outcomes
  PROVE  Append(s, o) # <<>> /\ Append(s, o)[Len(Append(s, o))] = o
<1>1. /\ Len(s) \in Nat /\ Len(Append(s, o)) = Len(s) + 1 /\ Append(s, o)[Len(s) + 1] = o
      /\ Append(s, o) \in Seq(Outcomes)
  BY LenProperties, AppendProperties
<1>2. Len(s) + 1 # 0
  BY <1>1
<1>3. Len(Append(s, o)) # 0
  BY <1>1, <1>2
<1> QED  BY <1>1, <1>3, EmptySeq

LEMMA BoardInitial == ProcessInit => Board!BoardInit
<1> SUFFICES ASSUME ProcessInit  PROVE Board!BoardInit
  OBVIOUS
<1>1. /\ reports = [j \in Jobs |-> <<>>] /\ sent = {} /\ asked = {}
  BY DEF ProcessInit
<1> QED  BY <1>1 DEF Board!BoardInit

\* Nothing a poll could see has changed.
LEMMA BoardStutters ==
  ASSUME UNCHANGED <<reports, sent, asked>>
  PROVE  UNCHANGED Board!boardVars
  BY DEF Board!boardVars

\* Jobs end: they had no report, or somebody asked to cancel them.
LEMMA BoardSettles ==
  ASSUME ProcessTypeOK, NEW J \in SUBSET Jobs, NEW f \in [J -> Outcomes],
         \A j \in J : reports'[j] = Append(reports[j], f[j]),
         \A j \in Jobs : j \notin J => reports'[j] = reports[j] /\ (j \in sent' <=> j \in sent),
         \A j \in J : reports[j] = <<>> \/ j \in asked,
         asked' = asked
  PROVE  Board!BoardNext
<1>1. \A j \in J : Shown(j)' = f[j]
  BY LastReport DEF Shown, ProcessTypeOK
<1>2. \A j \in Jobs : j \notin J => Shown(j)' = Shown(j)
  BY DEF Shown
<1>3. \A j \in J : Shown(j) \in {"unknown", "pending"} \/ j \in asked
  BY DEF Shown
<1>4. [j \in Jobs |-> Shown(j)]' = [j \in Jobs |-> IF j \in J THEN f[j] ELSE Shown(j)]
  BY <1>1, <1>2
<1>5. Board!Settle(J)
  BY <1>3, <1>4 DEF Board!Settle, Board!End, Shown
<1> QED  BY <1>5 DEF Board!BoardNext

\* Every step of the runtime is a step of the board, or one that a poll cannot see.
LEMMA BoardStep ==
  ASSUME ProcessTypeOK, Places, Reports, [ProcessNext]_procVars
  PROVE  [Board!BoardNext]_(Board!boardVars)
<1>0. CASE UNCHANGED <<reports, sent, asked>>
  BY <1>0, BoardStutters
<1>1. ASSUME NEW j \in Jobs, Refuse(j)  PROVE Board!BoardNext
  <2> DEFINE f == [k \in {j} |-> "refused"]
  <2>1. reports[j] = <<>> /\ {j} \in SUBSET Jobs
    BY <1>1 DEF Refuse, Reports, ReportsFollow
  <2>2. f \in [{j} -> Outcomes] /\ f[j] = "refused"
    BY DEF Outcomes
  <2>3. /\ reports'[j] = Append(reports[j], "refused") /\ asked' = asked
        /\ \A k \in Jobs : k \notin {j} => reports'[k] = reports[k] /\ (k \in sent' <=> k \in sent)
    BY <1>1 DEF Refuse, Report
  <2> HIDE DEF f
  <2>4. /\ \A k \in {j} : reports'[k] = Append(reports[k], f[k])
        /\ \A k \in {j} : reports[k] = <<>> \/ k \in asked
    BY <2>1, <2>2, <2>3
  <2> QED  BY <2>1, <2>2, <2>3, <2>4, BoardSettles
<1>2. ASSUME NEW j \in Jobs, Select(j)  PROVE Board!BoardNext
  <2>1. j \notin sent /\ sent' = sent \cup {j} /\ UNCHANGED <<reports, asked>> /\ reports[j] = <<>>
    BY <1>2 DEF Select, Reports, ReportsFollow
  <2>2. Shown(j) = "unknown" /\ Shown(j)' = "pending"
    BY <2>1 DEF Shown
  <2>3. \A k \in Jobs : k # j => Shown(k)' = Shown(k)
    BY <2>1 DEF Shown
  <2>4. [k \in Jobs |-> Shown(k)]' = [[k \in Jobs |-> Shown(k)] EXCEPT ![j] = "pending"]
    BY <2>2, <2>3
  <2>5. Board!Submit(j)
    BY <2>1, <2>2, <2>4 DEF Board!Submit, Shown
  <2> QED  BY <2>5 DEF Board!BoardNext
<1>3. ASSUME NEW j \in Jobs, CancelFind(j)  PROVE Board!BoardNext
  <2>1. UNCHANGED <<reports, sent>> /\ asked' = asked \cup {j}
    BY <1>3 DEF CancelFind
  <2>2. Board!Ask(j)
    BY <2>1 DEF Board!Ask
  <2> QED  BY <2>2 DEF Board!BoardNext
<1>4. ASSUME CancelKill, ~UNCHANGED reports  PROVE Board!BoardNext
  <2> DEFINE j == call.job
             q == wk[call.worker].queue
             J == {j} \cup JobsIn(q)
             f == [k \in J |-> IF k = j THEN "cancelled" ELSE "crashed"]
  <2>1. j \in Jobs /\ call.worker \in Workers /\ J \in SUBSET Jobs /\ UNCHANGED <<sent, asked>>
    BY <1>4 DEF CancelKill, ProcessTypeOK, Idle, JobsIn
  <2>2. \A k \in Jobs : /\ k = j => reports'[k] = Append(reports[k], "cancelled")
                        /\ k # j /\ k \in JobsIn(q) => reports'[k] = Append(reports[k], "crashed")
                        /\ k # j /\ k \notin JobsIn(q) => reports'[k] = reports[k]
    BY <1>4 DEF CancelKill, RouterDies
  <2>3. f \in [J -> Outcomes]
    BY DEF Outcomes
  <2>4. \A k \in J : reports'[k] = Append(reports[k], f[k])
    BY <2>1, <2>2
  <2>5. \A k \in J : reports[k] = <<>> \/ k \in asked
    BY <1>4, <2>1 DEF CancelKill, Reports, ReportsFollow, KillsOnce
  <2>6. \A k \in Jobs : k \notin J => reports'[k] = reports[k] /\ (k \in sent' <=> k \in sent)
    BY <2>1, <2>2
  <2> HIDE DEF J, f
  <2> QED  BY <2>1, <2>3, <2>4, <2>5, <2>6, BoardSettles
<1>5. ASSUME NEW w \in Workers, CancelScan(w), ~UNCHANGED reports  PROVE Board!BoardNext
  <2> DEFINE j == call.job
             f == [k \in {j} |-> "cancelled"]
  <2>1. /\ j \in Jobs /\ {j} \in SUBSET Jobs /\ ~HasStop(wk[w].queue)
        /\ UNCHANGED <<sent, asked>>
    BY <1>5 DEF CancelScan, RouterDies, ProcessTypeOK, Idle
  <2>2. j \in JobsIn(wk[w].queue)
    <3> SUFFICES ASSUME j \notin JobsIn(wk[w].queue)  PROVE FALSE
      OBVIOUS
    <3>1. reports' = [k \in Jobs |-> reports[k]]
      BY <1>5, <2>1 DEF CancelScan, RouterDies, Report
    <3> QED  BY <1>5, <3>1 DEF ProcessTypeOK
  <2>3. /\ reports'[j] = Append(reports[j], "cancelled")
        /\ \A k \in Jobs : k \notin {j} => reports'[k] = reports[k]
    BY <1>5, <2>1, <2>2 DEF CancelScan, RouterDies, Report
  <2>4. f \in [{j} -> Outcomes] /\ f[j] = "cancelled"
    BY DEF Outcomes
  <2>5. reports[j] = <<>>
    BY <2>2 DEF Reports, ReportsFollow
  <2> HIDE DEF f
  <2>6. /\ \A k \in {j} : reports'[k] = Append(reports[k], f[k])
        /\ \A k \in {j} : reports[k] = <<>> \/ k \in asked
        /\ \A k \in Jobs : k \notin {j} => reports'[k] = reports[k] /\ (k \in sent' <=> k \in sent)
    BY <2>1, <2>3, <2>4, <2>5
  <2> QED  BY <2>1, <2>4, <2>6, BoardSettles
<1>6. ASSUME NEW w \in Workers, PumpReceive(w)  PROVE Board!BoardNext
  <2> DEFINE j == wk[w].hand
             f == [k \in {j} |-> "done"]
  <2>1. j \in Jobs /\ {j} \in SUBSET Jobs /\ UNCHANGED <<sent, asked>> /\ wk[w].pump = "running"
    BY <1>6, WorkerIs DEF PumpReceive, Places, HandsFull
  <2>2. /\ reports'[j] = Append(reports[j], "done")
        /\ \A k \in Jobs : k \notin {j} => reports'[k] = reports[k]
    BY <1>6, <2>1 DEF PumpReceive, Report
  <2>3. f \in [{j} -> Outcomes] /\ f[j] = "done"
    BY DEF Outcomes
  <2>4. reports[j] = <<>> \/ j \in asked
    BY <2>1 DEF Reports, ReportsFollow
  <2> HIDE DEF f
  <2>5. /\ \A k \in {j} : reports'[k] = Append(reports[k], f[k])
        /\ \A k \in {j} : reports[k] = <<>> \/ k \in asked
        /\ \A k \in Jobs : k \notin {j} => reports'[k] = reports[k] /\ (k \in sent' <=> k \in sent)
    BY <2>1, <2>2, <2>3, <2>4
  <2> QED  BY <2>1, <2>3, <2>5, BoardSettles
<1>7. ASSUME NEW w \in Workers, PumpCrash(w) \/ PumpTimeout(w), ~UNCHANGED reports
      PROVE  Board!BoardNext
  <2>1. PICK o \in {"crashed", "timeout"} : Teardown(w, o)
    BY <1>7 DEF PumpCrash, PumpTimeout
  <2> DEFINE j == wk[w].hand
             q == wk[w].queue
             J == {j} \cup JobsIn(q)
             f == [k \in J |-> IF k = j THEN o ELSE "crashed"]
  <2>2. wk[w].pump \in {"taken", "running"} /\ UNCHANGED <<sent, asked>>
    BY <1>7 DEF PumpCrash, PumpTimeout
  <2>3. j \in Jobs /\ J \in SUBSET Jobs
    BY <2>2, WorkerIs DEF Places, HandsFull, JobsIn
  <2>4. ~wk[w].cancelled
    BY <1>7, <2>1 DEF Teardown
  <2>5. \A k \in Jobs : /\ k = j => reports'[k] = Append(reports[k], o)
                        /\ k # j /\ k \in JobsIn(q) => reports'[k] = Append(reports[k], "crashed")
                        /\ k # j /\ k \notin JobsIn(q) => reports'[k] = reports[k]
    BY <1>7, <2>1 DEF Teardown
  <2>6. f \in [J -> Outcomes]
    BY DEF Outcomes
  <2>7. \A k \in J : reports'[k] = Append(reports[k], f[k])
    BY <2>3, <2>5
  <2>8. \A k \in J : reports[k] = <<>> \/ k \in asked
    BY <2>2, <2>4 DEF Reports, ReportsFollow
  <2>9. \A k \in Jobs : k \notin J => reports'[k] = reports[k] /\ (k \in sent' <=> k \in sent)
    BY <2>2, <2>5
  <2> HIDE DEF J, f
  <2> QED  BY <2>2, <2>3, <2>6, <2>7, <2>8, <2>9, BoardSettles
<1>8. ASSUME NEW w \in Workers, PumpCrash(w) \/ PumpTimeout(w) \/ CancelScan(w), UNCHANGED reports
      PROVE  UNCHANGED <<reports, sent, asked>>
  BY <1>8 DEF PumpCrash, PumpTimeout, CancelScan
<1>9. ASSUME CancelKill, UNCHANGED reports  PROVE UNCHANGED <<reports, sent, asked>>
  BY <1>9 DEF CancelKill
<1>10. ASSUME Put \/ CancelNotFound \/ DeleteFunction \/ SweepStop \/ UNCHANGED procVars
       PROVE  UNCHANGED <<reports, sent, asked>>
  BY <1>10 DEF Put, CancelNotFound, DeleteFunction, SweepStop, procVars
<1>11. ASSUME NEW w \in Workers, PumpTake(w) \/ PumpDispatch(w) \/ PumpNext(w) \/ WorkerAnswer(w)
                                    \/ WorkerDies(w) \/ SweepKill(w)
       PROVE  UNCHANGED <<reports, sent, asked>>
  BY <1>11 DEF PumpTake, PumpDispatch, PumpNext, WorkerAnswer, WorkerDies, SweepKill
<1>12. Board!BoardNext \/ UNCHANGED <<reports, sent, asked>>
  BY <1>1, <1>2, <1>3, <1>4, <1>5, <1>6, <1>7, <1>8, <1>9, <1>10, <1>11
     DEF ProcessNext, RouterNext, PumpNextStep
<1> QED  BY <1>0, <1>12

\* submit_job, cancel and on_complete implement the board for any number of jobs and
\* workers: a result is pending until it is settled, and a settled result changes only
\* for a job somebody asked to cancel.
THEOREM RuntimeImplementsBoard == ProcessSpec => ImplementsBoard
<1>1. ProcessInit => Board!BoardInit
  BY BoardInitial
<1>2. ProcessInv /\ [ProcessNext]_procVars => [Board!BoardNext]_(Board!boardVars)
  BY BoardStep DEF ProcessInv, Places, Reports
<1> QED  BY <1>1, <1>2, ProcessInvariant, PTL DEF ProcessSpec, ImplementsBoard, Board!BoardSpec

====
