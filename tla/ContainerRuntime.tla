-------------------------- MODULE ContainerRuntime --------------------------
(***************************************************************************)
(* ContainerFunctionRuntime and ContainerSummoner: the containers of one   *)
(* function on one endpoint, with cluster placement.                       *)
(*                                                                         *)
(* Threads: the router (one submission or cancel at a time), one thread    *)
(* per retry and per job waiting for a cold container, one per spawn and   *)
(* readiness poll, one pump per container, the sweeper.  They meet in the  *)
(* handles; a handle's lock covers single assignments of its status.       *)
(***************************************************************************)
EXTENDS Naturals, Sequences, FiniteSets, FiniteSetsExt

CONSTANTS Jobs,
          Handles,          \* containers that may be summoned, none twice
          Cap,              \* RuntimeSpec.max_concurrency; slots are 0..Cap-1
          MaxRetries,       \* RuntimeSpec.max_retries
          MaxInvocations,   \* AXO_ENDPOINT_WORKER_MAX_INVOCATIONS, 0 for none
          MaxDeaths,        \* bound: containers that die by themselves
          MaxSweeps,        \* bound: dismissals by the sweeper
          MaxCancels,       \* bound: JOB_CANCEL commands
          MaxStopFailures,  \* bound: Docker calls that fail to stop a container
          MaxFaults,        \* bound: all of these together
          Nobody

ASSUME ContainerAssumption ==
  /\ Cap \in Nat \ {0}
  /\ {MaxRetries, MaxInvocations, MaxDeaths, MaxSweeps, MaxCancels, MaxStopFailures,
      MaxFaults} \subseteq Nat
  /\ Nobody \notin Jobs \cup Handles
  /\ IsFiniteSet(Handles)

VARIABLES
  job,        \* where each job is, on which handle, with how many attempts
              \* (history: enqueued on a retired handle, now or before)
  reports,    \* on_complete calls for each job, oldest first
  asked,      \* jobs a JOB_CANCEL has named (history)
  router,     \* the job whose submission the router thread is carrying out
  hd,         \* the ContainerHandles
  pool,       \* ContainerSummoner._handles
  pumpOf,     \* _pump_threads: the handle of the last pump started for a name
  grants,     \* slots the leader's ledger holds for this endpoint
  sweeping,   \* a handle picked by a sweep and not dismissed yet
  budget      \* failures used up

contVars == <<job, reports, asked, router, hd, pool, pumpOf, grants, sweeping, budget>>

Slots == 0 .. Cap - 1
Retired == {"CRASHED", "DISMISSED"}
ContainerStatus == {"STARTING", "BOOTSTRAPPING", "READY", "BUSY", "IDLE"} \cup Retired
Outcomes == {"done", "refused", "notready", "crashed", "timeout", "cancelled"}

\* box is the container behind the handle.  retired says who dismissed the handle,
\* shadowed that another container's pump held its name (history).
NoHandle == [status |-> "STARTING", slot |-> 0, box |-> "none", ready |-> FALSE,
             starter |-> "none", count |-> 0, queue |-> <<>>, current |-> Nobody,
             pump |-> "none", ending |-> "crashed", retired |-> "no", shadowed |-> FALSE]

ContainerInit ==
  /\ job = [j \in Jobs |-> [at |-> "new", on |-> Nobody, attempts |-> 0, late |-> "never"]]
  /\ reports = [j \in Jobs |-> <<>>]
  /\ asked = {}
  /\ router = Nobody
  /\ hd = [h \in Handles |-> NoHandle]
  /\ pool = {}
  /\ pumpOf = [s \in Slots |-> Nobody]
  /\ grants = {}
  /\ sweeping = Nobody
  /\ budget = [deaths |-> 0, sweeps |-> 0, cancels |-> 0, stops |-> 0]

-----------------------------------------------------------------------------
(* Helpers *)

Live(h) == hd[h].status \notin Retired
InQueue(q) == {q[i] : i \in DOMAIN q}
PumpAlive(h) == hd[h].pump \notin {"none", "ended"}

\* What is put back of a queue that was drained in search of job j: all but j, which
\* is queued only once (QueuesOnce in module ContainerRuntimeProofs).
Without(q, j) ==
  LET at == CHOOSE i \in DOMAIN q : q[i] = j
  IN  IF j \in InQueue(q)
      THEN [i \in 1 .. Len(q) - 1 |-> IF i < at THEN q[i] ELSE q[i + 1]]
      ELSE q

Report(J, o) ==
  reports' = [j \in Jobs |-> IF j \in J THEN Append(reports[j], o) ELSE reports[j]]

\* dismiss: the handle is DISMISSED whatever follows; it leaves the pool and its
\* slot is released by CONTAINER_DISMISSED_EVENT only if Docker stops the container.
Stopped(h, ok, by, rec) ==
  [rec EXCEPT !.status = "DISMISSED",
              !.box = IF ok /\ @ # "none" THEN "removed" ELSE @,
              !.retired = IF @ = "no" THEN by ELSE @]

Spent == budget.deaths + budget.sweeps + budget.cancels + budget.stops

\* The Docker calls that stop the containers H may fail.
MayFail(H) ==
  H = {} \/ (Cardinality(H) + budget.stops <= MaxStopFailures
              /\ Cardinality(H) + Spent <= MaxFaults)

\* _ensure_pump: a thread alive under the container's name is taken for its own.
EnsurePump(h) ==
  LET holder == pumpOf[hd[h].slot]
  IN  IF holder # Nobody /\ PumpAlive(holder)
      THEN /\ hd' = [hd EXCEPT ![h].shadowed = @ \/ holder # h]
           /\ UNCHANGED pumpOf
      ELSE /\ hd' = [hd EXCEPT ![h].pump = "waiting"]
           /\ pumpOf' = [pumpOf EXCEPT ![hd[h].slot] = h]

-----------------------------------------------------------------------------
(* invoke, on the router thread or on a retry's thread *)

\* JOB_SUBMIT reaches invoke.
Submit(j) ==
  /\ router = Nobody /\ job[j].at = "new"
  /\ job' = [job EXCEPT ![j].at = "placing"]
  /\ router' = j
  /\ UNCHANGED <<reports, asked, hd, pool, pumpOf, grants, sweeping, budget>>

Leaves(j) == router' = IF router = j THEN Nobody ELSE router

\* The function is gone, the leader cannot be reached or is reconciling, or the
\* endpoint that should run the job refuses it.
Refuse(j) ==
  /\ job[j].at = "placing"
  /\ job' = [job EXCEPT ![j] = [@ EXCEPT !.at = "ended", !.attempts = 0]]
  /\ Report({j}, "refused")
  /\ Leaves(j)
  /\ UNCHANGED <<asked, hd, pool, pumpOf, grants, sweeping, budget>>

\* The leader places the job with an endpoint that has a container to spare.
Forward(j) ==
  /\ job[j].at = "placing"
  /\ ~ \E h \in pool : Live(h) /\ hd[h].status \notin {"BUSY", "STARTING"}
  /\ job' = [job EXCEPT ![j].at = "forwarded"]
  /\ Leaves(j)
  /\ UNCHANGED <<reports, asked, hd, pool, pumpOf, grants, sweeping, budget>>

\* _resolve_placement: _dismiss_stale (failed of it cannot be stopped), then an
\* available container, a new one in the smallest free slot, or the one with the
\* fewest invocations.
Place(j) ==
  /\ job[j].at = "placing"
  /\ LET stale == {h \in pool : ~Live(h)}
     IN  \E failed \in SUBSET stale :
       LET rest  == pool \ (stale \ failed)
           live  == {h \in rest : Live(h)}
           avail == {h \in live : hd[h].status \notin {"BUSY", "STARTING"}}
           swept == [h \in Handles |->
                       IF h \in stale THEN Stopped(h, h \notin failed, "stale", hd[h])
                       ELSE hd[h]]
           free  == Slots \ (grants \ {hd[h].slot : h \in stale \ failed})
           least == {h \in live : \A k \in live : hd[h].count <= hd[k].count}
       IN  /\ MayFail(failed)
           /\ budget' = [budget EXCEPT !.stops = @ + Cardinality(failed)]
           /\ \/ \E h \in avail :
                   /\ job' = [job EXCEPT ![j] = [@ EXCEPT !.at = "placed", !.on = h]]
                   /\ hd' = swept /\ pool' = rest /\ grants' = Slots \ free
                   /\ UNCHANGED reports
              \/ /\ avail = {} /\ free # {}
                 /\ \E h \in Handles :
                      /\ hd[h].starter = "none"
                      /\ job' = [job EXCEPT ![j] = [@ EXCEPT !.at = "placed", !.on = h]]
                      /\ hd' = [swept EXCEPT ![h] = [NoHandle EXCEPT !.slot = Min(free),
                                                                     !.starter = "spawning"]]
                      /\ pool' = rest \cup {h}
                      /\ grants' = (Slots \ free) \cup {Min(free)}
                 /\ UNCHANGED reports
              \/ /\ avail = {} /\ free = {}
                 /\ \E h \in least :
                      job' = [job EXCEPT ![j] = [@ EXCEPT !.at = "placed", !.on = h]]
                 /\ hd' = swept /\ pool' = rest /\ grants' = Slots
                 /\ UNCHANGED reports
              \/ /\ avail = {} /\ free = {} /\ least = {}
                 /\ job' = [job EXCEPT ![j] = [@ EXCEPT !.at = "ended", !.attempts = 0]]
                 /\ hd' = swept /\ pool' = rest /\ grants' = Slots
                 /\ Report({j}, "refused")
  /\ router' = IF router = j /\ job'[j].at = "ended" THEN Nobody ELSE router
  /\ UNCHANGED <<asked, pumpOf, sweeping>>

\* The rest of invoke on a container that has been ready: the pump is ensured.
Warm(j) ==
  /\ job[j].at = "placed"
  /\ hd[job[j].on].ready /\ Live(job[j].on)
  /\ EnsurePump(job[j].on)
  /\ job' = [job EXCEPT ![j].at = "enqueue"]
  /\ UNCHANGED <<reports, asked, router, pool, grants, sweeping, budget>>

\* ... on a cold one: the handle is claimed and a thread waits for it.
Cold(j) ==
  /\ job[j].at = "placed"
  /\ ~hd[job[j].on].ready \/ ~Live(job[j].on)
  /\ hd' = [hd EXCEPT ![job[j].on].status = IF @ \in Retired THEN @ ELSE "BUSY"]
  /\ job' = [job EXCEPT ![j].at = "cold"]
  /\ Leaves(j)
  /\ UNCHANGED <<reports, asked, pool, pumpOf, grants, sweeping, budget>>

\* _dispatch_once_ready
ColdReady(j) ==
  /\ job[j].at = "cold"
  /\ hd[job[j].on].ready /\ Live(job[j].on)
  /\ EnsurePump(job[j].on)
  /\ job' = [job EXCEPT ![j].at = "enqueue"]
  /\ UNCHANGED <<reports, asked, router, pool, grants, sweeping, budget>>

\* The container failed, or the wait for it timed out.
ColdFails(j) ==
  /\ job[j].at = "cold"
  /\ ~hd[job[j].on].ready \/ ~Live(job[j].on)
  /\ job' = [job EXCEPT ![j].at = "ended"]
  /\ Report({j}, "notready")
  /\ UNCHANGED <<asked, router, hd, pool, pumpOf, grants, sweeping, budget>>

LateNow(j) == IF ~Live(job[j].on) THEN "now"
              ELSE IF job[j].late = "never" THEN "never" ELSE "before"

\* _enqueue_job: BUSY whatever the status has become since it was looked at.
Enqueue(j) ==
  /\ job[j].at = "enqueue"
  /\ LET h == job[j].on
     IN  /\ hd' = [hd EXCEPT ![h] = [hd[h] EXCEPT !.status = "BUSY", !.count = hd[h].count + 1,
                                                  !.queue = Append(hd[h].queue, j)]]
         /\ job' = [job EXCEPT ![j] = [job[j] EXCEPT !.at = "queued", !.late = LateNow(j)]]
  /\ Leaves(j)
  /\ UNCHANGED <<reports, asked, pool, pumpOf, grants, sweeping, budget>>

-----------------------------------------------------------------------------
(* Spawning: _spawn_in_background and _poll_readiness *)

\* Docker refuses a second container of the same name.
NameTaken(h) ==
  \E k \in Handles \ {h} : hd[k].slot = hd[h].slot /\ hd[k].box \in {"up", "dead"}

SpawnOk(h) ==
  /\ hd[h].starter = "spawning" /\ ~NameTaken(h)
  /\ hd' = [hd EXCEPT ![h] = [@ EXCEPT !.status = "BOOTSTRAPPING", !.box = "up",
                                       !.starter = "polling"]]
  /\ UNCHANGED <<job, reports, asked, router, pool, pumpOf, grants, sweeping, budget>>

\* No image, no build, no container.
SpawnFails(h) ==
  /\ hd[h].starter = "spawning"
  /\ hd' = [hd EXCEPT ![h] = [@ EXCEPT !.status = "CRASHED", !.ready = TRUE,
                                       !.starter = "ended"]]
  /\ UNCHANGED <<job, reports, asked, router, pool, pumpOf, grants, sweeping, budget>>

\* /health answers: READY, over a claim too.
PollReady(h) ==
  /\ hd[h].starter = "polling" /\ hd[h].box = "up" /\ Live(h)
  /\ hd' = [hd EXCEPT ![h] = [@ EXCEPT !.status = "READY", !.ready = TRUE,
                                       !.starter = "ended"]]
  /\ UNCHANGED <<job, reports, asked, router, pool, pumpOf, grants, sweeping, budget>>

PollTimeout(h) ==
  /\ hd[h].starter = "polling"
  /\ hd' = [hd EXCEPT ![h] = [@ EXCEPT !.status = "CRASHED", !.ready = TRUE,
                                       !.starter = "ended"]]
  /\ UNCHANGED <<job, reports, asked, router, pool, pumpOf, grants, sweeping, budget>>

-----------------------------------------------------------------------------
(* The pump of a container *)

\* The wait for a job, begun on a live handle, may end on a retired one.
PumpTake(h) ==
  /\ hd[h].pump = "waiting" /\ hd[h].queue # <<>>
  /\ hd' = [hd EXCEPT ![h] = [hd[h] EXCEPT !.pump = "sent", !.current = Head(hd[h].queue),
                                           !.queue = Tail(hd[h].queue)]]
  /\ UNCHANGED <<job, reports, asked, router, pool, pumpOf, grants, sweeping, budget>>

PumpIdle(h) ==
  /\ hd[h].pump = "waiting" /\ hd[h].queue = <<>> /\ hd[h].status = "BUSY"
  /\ hd' = [hd EXCEPT ![h].status = "IDLE"]
  /\ UNCHANGED <<job, reports, asked, router, pool, pumpOf, grants, sweeping, budget>>

PumpExit(h) ==
  /\ hd[h].pump = "waiting" /\ ~Live(h)
  /\ hd' = [hd EXCEPT ![h].pump = "ended"]
  /\ UNCHANGED <<job, reports, asked, router, pool, pumpOf, grants, sweeping, budget>>

\* A result arrives and is reported.
PumpReceive(h) ==
  /\ hd[h].pump = "sent" /\ hd[h].box = "up"
  /\ LET j == hd[h].current
     IN  /\ Report({j}, "done")
         /\ job' = [job EXCEPT ![j] = [@ EXCEPT !.at = "ended", !.attempts = 0]]
  /\ hd' = [hd EXCEPT ![h] = [@ EXCEPT !.pump = "reported", !.current = Nobody]]
  /\ UNCHANGED <<asked, router, pool, pumpOf, grants, sweeping, budget>>

\* IDLE, whatever happened to the handle while the result was being reported.
PumpDone(h) ==
  /\ hd[h].pump = "reported"
  /\ hd' = [hd EXCEPT ![h] = [@ EXCEPT !.pump = "waiting", !.status = "IDLE"]]
  /\ UNCHANGED <<job, reports, asked, router, pool, pumpOf, grants, sweeping, budget>>

\* Mutant of Fail: a handle that a cancel has retired is failed again.
FailRegardless(h, outcome) ==
  /\ hd' = [hd EXCEPT ![h] = Stopped(h, TRUE, "failed",
                                     [@ EXCEPT !.pump = "failing", !.ending = outcome])]
  /\ pool' = pool \ {h}
  /\ grants' = grants \ {hd[h].slot}
  /\ UNCHANGED budget

\* _handle_crash and _handle_timeout up to the end of dismiss; nothing at all when
\* the handle has been retired by somebody else.
Fail(h, outcome) ==
  \/ /\ ~Live(h)
     /\ hd' = [hd EXCEPT ![h].pump = "ended"]
     /\ UNCHANGED <<pool, grants, budget>>
  \/ /\ Live(h)
     /\ \E ok \in {TRUE, ~MayFail({h})} :
          /\ hd' = [hd EXCEPT ![h] = Stopped(h, ok, "failed",
                      [@ EXCEPT !.pump = "failing", !.ending = outcome])]
          /\ pool' = IF ok THEN pool \ {h} ELSE pool
          /\ grants' = IF ok THEN grants \ {hd[h].slot} ELSE grants
          /\ budget' = IF ok THEN budget ELSE [budget EXCEPT !.stops = @ + 1]

\* Heartbeating notices that the container is gone.
PumpCrash(h) ==
  /\ hd[h].pump = "sent" /\ hd[h].box # "up"
  /\ Fail(h, "crashed")
  /\ UNCHANGED <<job, reports, asked, router, pumpOf, sweeping>>

\* max_duration_seconds have passed.
PumpTimeout(h) ==
  /\ hd[h].pump = "sent"
  /\ Fail(h, "timeout")
  /\ UNCHANGED <<job, reports, asked, router, pumpOf, sweeping>>

MayRetry(j) == job[j].attempts < MaxRetries

\* Mutants of PumpFinish: the queue is not drained; a job tried again is failed, too.
PumpFinishInFlight(h) ==
  /\ hd[h].pump = "failing"
  /\ job' = [job EXCEPT ![hd[h].current].at = "ended"]
  /\ Report({hd[h].current}, hd[h].ending)
  /\ hd' = [hd EXCEPT ![h].pump = "ended"]
  /\ UNCHANGED <<asked, router, pool, pumpOf, grants, sweeping, budget>>

PumpFinishReports(h) ==
  /\ hd[h].pump = "failing"
  /\ job' = [job EXCEPT ![hd[h].current] =
               IF MayRetry(hd[h].current)
               THEN [@ EXCEPT !.at = "placing", !.attempts = @ + 1]
               ELSE [@ EXCEPT !.at = "ended"]]
  /\ Report({hd[h].current}, hd[h].ending)
  /\ hd' = [hd EXCEPT ![h].pump = "ended"]
  /\ UNCHANGED <<asked, router, pool, pumpOf, grants, sweeping, budget>>

\* The slot is released once more; the job in flight and those queued behind it
\* are tried again on a thread of their own or failed, and the pump ends.
PumpFinish(h) ==
  /\ hd[h].pump = "failing"
  /\ LET lost == {hd[h].current} \cup InQueue(hd[h].queue)
         outcome(j) == IF j = hd[h].current THEN hd[h].ending ELSE "crashed"
     IN  /\ job' = [j \in Jobs |->
              CASE j \in lost /\ MayRetry(j) ->
                     [job[j] EXCEPT !.at = "placing", !.attempts = @ + 1]
                [] j \in lost /\ ~MayRetry(j) -> [job[j] EXCEPT !.at = "ended", !.attempts = 0]
                [] OTHER -> job[j]]
         /\ reports' = [j \in Jobs |->
              IF j \in lost /\ ~MayRetry(j) THEN Append(reports[j], outcome(j)) ELSE reports[j]]
  /\ hd' = [hd EXCEPT ![h] = [@ EXCEPT !.pump = "ended", !.queue = <<>>]]
  /\ grants' = grants \ {hd[h].slot}
  /\ UNCHANGED <<asked, router, pool, pumpOf, sweeping, budget>>

ContainerDies(h) ==
  /\ hd[h].box = "up" /\ budget.deaths < MaxDeaths /\ Spent < MaxFaults
  /\ hd' = [hd EXCEPT ![h].box = "dead"]
  /\ budget' = [budget EXCEPT !.deaths = @ + 1]
  /\ UNCHANGED <<job, reports, asked, router, pool, pumpOf, grants, sweeping>>

-----------------------------------------------------------------------------
(* cancel, on the router thread *)

MayCancel(j) ==
  /\ router = Nobody /\ job[j].at # "new"
  /\ budget.cancels < MaxCancels /\ Spent < MaxFaults

\* The container whose last job this was is dismissed, and what waits behind it fails;
\* a retry of the job that is on its way goes on.
CancelInFlight(j, h) ==
  /\ MayCancel(j) /\ h \in pool /\ hd[h].current = j
  /\ asked' = asked \cup {j}
  /\ \E ok \in {TRUE, ~MayFail({h})} :
       /\ hd' = [hd EXCEPT ![h] = Stopped(h, ok, "cancel", [@ EXCEPT !.queue = <<>>])]
       /\ pool' = IF ok THEN pool \ {h} ELSE pool
       /\ budget' = [budget EXCEPT !.cancels = @ + 1, !.stops = IF ok THEN @ ELSE @ + 1]
  /\ grants' = grants \ {hd[h].slot}
  /\ LET said(k) == IF k = j THEN Append(reports[k], "cancelled") ELSE reports[k]
     IN  reports' = [k \in Jobs |-> IF k \in InQueue(hd[h].queue)
                                    THEN Append(said(k), "crashed") ELSE said(k)]
  /\ job' = [k \in Jobs |->
       IF k = j \/ k \in InQueue(hd[h].queue)
       THEN [job[k] EXCEPT !.at = IF @ = "queued" /\ job[k].on = h THEN "ended" ELSE @,
                           !.attempts = IF k = j THEN 0 ELSE @]
       ELSE job[k]]
  /\ UNCHANGED <<router, pumpOf, sweeping>>

CancelQueued(j, h) ==
  /\ MayCancel(j) /\ h \in pool /\ hd[h].current # j /\ j \in InQueue(hd[h].queue)
  /\ asked' = asked \cup {j}
  /\ hd' = [hd EXCEPT ![h].queue = Without(@, j)]
  /\ job' = [job EXCEPT ![j].at = "ended"]
  /\ Report({j}, "cancelled")
  /\ budget' = [budget EXCEPT !.cancels = @ + 1]
  /\ UNCHANGED <<router, pool, pumpOf, grants, sweeping>>

-----------------------------------------------------------------------------
(* The sweeper thread: candidates are picked under the lock, dismissed after *)

SweepPick(h) ==
  /\ sweeping = Nobody /\ h \in pool
  /\ budget.sweeps < MaxSweeps /\ Spent < MaxFaults
  /\ \/ hd[h].status = "IDLE"
     \/ MaxInvocations > 0 /\ hd[h].count >= MaxInvocations
     \/ hd[h].status = "CRASHED"
  /\ sweeping' = h
  /\ budget' = [budget EXCEPT !.sweeps = @ + 1]
  /\ UNCHANGED <<job, reports, asked, router, hd, pool, pumpOf, grants>>

\* Mutant of SweepDismiss: the slot is not released.
SweepDismissKeepsSlot ==
  /\ sweeping # Nobody
  /\ hd' = [hd EXCEPT ![sweeping] = Stopped(sweeping, TRUE, "sweep", @)]
  /\ pool' = pool \ {sweeping}
  /\ sweeping' = Nobody
  /\ UNCHANGED <<job, reports, asked, router, pumpOf, grants, budget>>

SweepDismiss ==
  /\ sweeping # Nobody
  /\ \E ok \in {TRUE, ~MayFail({sweeping})} :
       /\ hd' = [hd EXCEPT ![sweeping] = Stopped(sweeping, ok, "sweep", @)]
       /\ pool' = IF ok THEN pool \ {sweeping} ELSE pool
       /\ grants' = IF ok THEN grants \ {hd[sweeping].slot} ELSE grants
       /\ budget' = IF ok THEN budget ELSE [budget EXCEPT !.stops = @ + 1]
  /\ sweeping' = Nobody
  /\ UNCHANGED <<job, reports, asked, router, pumpOf>>

-----------------------------------------------------------------------------
InvokeStep(j) ==
  Place(j) \/ Warm(j) \/ Cold(j) \/ ColdReady(j) \/ ColdFails(j) \/ Enqueue(j)

SpawnStep(h) == SpawnOk(h) \/ SpawnFails(h) \/ PollReady(h) \/ PollTimeout(h)

PumpStep(h) ==
  PumpTake(h) \/ PumpExit(h) \/ PumpDone(h) \/ PumpCrash(h) \/ PumpFinish(h)

ContainerNext ==
  \/ \E j \in Jobs : Submit(j) \/ Refuse(j) \/ Forward(j) \/ InvokeStep(j)
  \/ \E h \in Handles : \/ SpawnStep(h) \/ PumpStep(h) \/ PumpReceive(h) \/ PumpIdle(h)
                        \/ PumpTimeout(h) \/ ContainerDies(h) \/ SweepPick(h)
  \/ \E j \in Jobs, h \in Handles : CancelInFlight(j, h) \/ CancelQueued(j, h)
  \/ SweepDismiss

\* Threads go on; Docker calls and waits end; a job need not, but the function has
\* a max_duration_seconds.
ContainerFairness ==
  /\ \A j \in Jobs : WF_contVars(InvokeStep(j))
  /\ \A h \in Handles : WF_contVars(SpawnStep(h)) /\ WF_contVars(PumpStep(h))
  /\ \A h \in Handles : WF_contVars(PumpTimeout(h))
  /\ WF_contVars(SweepDismiss)

ContainerSpec == ContainerInit /\ [][ContainerNext]_contVars /\ ContainerFairness

-----------------------------------------------------------------------------
(* Properties *)

Stages == {"new", "placing", "placed", "cold", "enqueue", "queued", "forwarded", "ended"}

JobState == [at : Stages, on : Handles \cup {Nobody}, attempts : 0 .. MaxRetries,
             late : {"never", "before", "now"}]

Pumps == {"none", "waiting", "sent", "reported", "failing", "ended"}

ContainerHandle ==
  [status : ContainerStatus, slot : Slots, box : {"none", "up", "dead", "removed"},
   ready : BOOLEAN, starter : {"none", "spawning", "polling", "ended"}, count : Nat,
   queue : Seq(Jobs), current : Jobs \cup {Nobody}, pump : Pumps,
   ending : {"crashed", "timeout"},
   retired : {"no", "stale", "failed", "cancel", "sweep"}, shadowed : BOOLEAN]

\* Handles, jobs and slots have the states the code gives them, no job is retried more
\* often than max_retries, and a job that has been placed is on a handle.
ContainerTypeOK ==
  /\ job \in [Jobs -> JobState]
  /\ reports \in [Jobs -> Seq(Outcomes)]
  /\ asked \subseteq Jobs /\ router \in Jobs \cup {Nobody}
  /\ hd \in [Handles -> ContainerHandle]
  /\ pool \subseteq Handles /\ grants \subseteq Slots
  /\ pumpOf \in [Slots -> Handles \cup {Nobody}]
  /\ sweeping \in Handles \cup {Nobody}
  /\ budget \in [deaths : Nat, sweeps : Nat, cancels : Nat, stops : Nat]
  /\ \A j \in Jobs : job[j].at \in {"placed", "cold", "enqueue", "queued"} =>
                      job[j].on \in Handles
  /\ \A h \in Handles : hd[h].pump \in {"sent", "failing"} => hd[h].current \in Jobs

\* A thread has the job: the one that places it, or a pump that can get at it.
InHand(j) ==
  \/ job[j].at \in {"placing", "placed", "cold", "enqueue"}
  \/ \E h \in Handles : /\ PumpAlive(h)
                        /\ \/ j \in InQueue(hd[h].queue)
                           \/ hd[h].current = j /\ hd[h].pump \in {"sent", "failing"}

Forgotten(j) == job[j].at \notin {"new", "forwarded"} /\ reports[j] = <<>> /\ ~InHand(j)

\* The leader's ledger holds no slot for nothing: a slot granted to the endpoint
\* is the slot of a handle in its pool, which some sweep or placement will see.
NoSlotLeaks == \A s \in grants : \E h \in pool : hd[h].slot = s

\* "A deliberate cancel must never trigger a retry" (cancel): it does only through
\* a handle that Docker failed to remove, or that _enqueue_job marked BUSY again
\* for another job after the cancel had retired it.
CancelIsFinal ==
  [][\A j \in Jobs :
       /\ job[j].at \notin {"new", "placing"} /\ job'[j].at = "placing"
       /\ "cancelled" \in InQueue(reports[j])
       => budget.stops > 0 \/ \E k \in Jobs \ {j} : job[k].late # "never"]_contVars

\* The results an endpoint serves obey the abstract board: the last report wins.
Board == INSTANCE JobBoard WITH
  result <- [j \in Jobs |->
               IF reports[j] # <<>> THEN reports[j][Len(reports[j])]
               ELSE IF job[j].at # "new" THEN "pending" ELSE "unknown"]

\* submit_job, cancel and on_complete together: a result is pending until it is settled,
\* and once settled changes only for a job somebody asked to cancel.
ImplementsBoard == Board!BoardSpec

\* The instance has no handle left to summon.
NoneLeft == \A h \in Handles : hd[h].starter # "none"

\* The container was dismissed under the job by the sweeper or by the cancel of another
\* job, failed between the check of its status and _enqueue_job, or another container's
\* pump held its name.
LostToDismissal(j) ==
  \/ job[j].late = "now"
  \/ job[j].on # Nobody /\ (hd[job[j].on].retired \in {"sweep", "cancel"}
                            \/ hd[job[j].on].shadowed)

\* Every submitted job is reported in the end, or forwarded.  _handle_crash and
\* _handle_timeout leave none behind: a job is forgotten only with a dismissed container.
EveryJobSettles ==
  \A j \in Jobs : (job[j].at # "new") ~>
                    \/ reports[j] # <<>> \/ job[j].at = "forwarded"
                    \/ Forgotten(j) /\ LostToDismissal(j)
                    \/ job[j].at = "placing" /\ NoneLeft
=============================================================================
