--------------------------- MODULE ProcessRuntime ---------------------------
(***************************************************************************)
(* ProcessFunctionRuntime: the worker processes of one function.           *)
(*                                                                         *)
(* The router thread runs one command at a time and makes the calls of     *)
(* invoke and cancel.  Every worker has a request queue and a pump thread  *)
(* that hands its requests to the process.  The sweeper thread retires     *)
(* idle or worn-out workers by killing the process and queueing the        *)
(* shutdown sentinel.  They meet in the registry and the queues, and none  *)
(* of them locks anything for longer than one access.                      *)
(***************************************************************************)
EXTENDS Naturals, Sequences, FiniteSets

CONSTANTS Jobs,
          Workers,          \* processes that may be started, none twice
          MaxConcurrency,   \* RuntimeSpec.max_concurrency
          MaxInvocations,   \* AXO_ENDPOINT_WORKER_MAX_INVOCATIONS, 0 for none
          MaxDeaths,        \* bound: processes that die by themselves
          MaxSweeps,        \* bound: workers retired by the sweeper
          MaxCancels,       \* bound: JOB_CANCEL commands
          Stop,             \* the sentinel None in a request queue
          Nobody            \* no worker, no job

ASSUME ProcessAssumption ==
  /\ MaxConcurrency \in Nat \ {0}
  /\ {MaxInvocations, MaxDeaths, MaxSweeps, MaxCancels} \subseteq Nat
  /\ Stop \notin Jobs /\ Nobody \notin Jobs \cup Workers

VARIABLES
  known,        \* the function is in the registry
  call,         \* what the router thread is doing
  sent,         \* jobs submitted so far
  reports,      \* on_complete calls for each job, oldest first
  asked,        \* jobs a JOB_CANCEL has named (history)
  pool,         \* WorkerRegistry
  wk,           \* the WorkerHandle of each worker, with process and pump
  sweeping,     \* the worker the sweeper is about to send the sentinel
  home,         \* the worker each job was queued on (history)
  late,         \* jobs queued on a worker that had left the pool (history)
  budget        \* failures used up

procVars == <<known, call, sent, reports, asked, pool, wk, sweeping, home, late, budget>>

Outcomes == {"done", "refused", "crashed", "timeout", "cancelled"}
Pumps    == {"none", "waiting", "taken", "running", "reported", "ended"}

\* gone is why the worker left the pool (history).
NoWorker == [alive |-> FALSE, queue |-> <<>>, pump |-> "none", hand |-> Nobody,
             answered |-> FALSE, cancelled |-> FALSE, served |-> 0, gone |-> "no"]
Fresh    == [NoWorker EXCEPT !.alive = TRUE, !.pump = "waiting"]

Idle == [op |-> "idle"]

ProcessInit ==
  /\ known = TRUE
  /\ call = Idle
  /\ sent = {}
  /\ reports = [j \in Jobs |-> <<>>]
  /\ asked = {}
  /\ pool = {}
  /\ wk = [w \in Workers |-> NoWorker]
  /\ sweeping = Nobody
  /\ home = [j \in Jobs |-> Nobody]
  /\ late = {}
  /\ budget = [deaths |-> 0, sweeps |-> 0, cancels |-> 0]

-----------------------------------------------------------------------------
(* Helpers *)

Busy(w) == wk[w].pump \in {"running", "reported"}
JobsIn(q) == {q[i] : i \in DOMAIN q} \cap Jobs
HasStop(q) == \E i \in DOMAIN q : q[i] = Stop

\* What is left of a queue when its draining stops at the sentinel, which is no
\* pair of job and parameters.
AfterStop(q) ==
  LET first == CHOOSE i \in DOMAIN q :
                 q[i] = Stop /\ \A k \in DOMAIN q : q[k] = Stop => i <= k
  IN  SubSeq(q, first + 1, Len(q))

\* What is put back of a queue that was drained in search of job j: all but j, which
\* is queued only once (PlacesUnique in module ProcessRuntimeProofs).
Without(q, j) ==
  LET at == CHOOSE i \in DOMAIN q : q[i] = j
  IN  IF j \in JobsIn(q)
      THEN [i \in 1 .. Len(q) - 1 |-> IF i < at THEN q[i] ELSE q[i + 1]]
      ELSE q

Report(J, o) ==
  reports' = [j \in Jobs |-> IF j \in J THEN Append(reports[j], o) ELSE reports[j]]

-----------------------------------------------------------------------------
(* The router thread *)

GetIdleOrNone == {w \in pool : ~Busy(w) /\ wk[w].queue = <<>>}
LeastLoaded == {w \in pool : \A v \in pool : Len(wk[w].queue) <= Len(wk[v].queue)}

\* JOB_SUBMIT of a function that has been deleted: the result is a failure.
Refuse(j) ==
  /\ call = Idle /\ j \notin sent /\ ~known
  /\ sent' = sent \cup {j}
  /\ Report({j}, "refused")
  /\ UNCHANGED <<known, call, asked, pool, wk, sweeping, home, late, budget>>

\* invoke up to the choice of a worker: an idle one, a new one, the least loaded.
Select(j) ==
  /\ call = Idle /\ j \notin sent /\ known
  /\ sent' = sent \cup {j}
  /\ \/ /\ \E w \in GetIdleOrNone : call' = [op |-> "put", job |-> j, worker |-> w]
        /\ UNCHANGED <<pool, wk>>
     \/ /\ GetIdleOrNone = {}
        /\ Cardinality(pool) < MaxConcurrency
        /\ \E w \in Workers :
             /\ wk[w].pump = "none"
             /\ pool' = pool \cup {w}
             /\ wk' = [wk EXCEPT ![w] = Fresh]
             /\ call' = [op |-> "put", job |-> j, worker |-> w]
     \/ /\ GetIdleOrNone = {}
        /\ Cardinality(pool) >= MaxConcurrency
        /\ \E w \in LeastLoaded : call' = [op |-> "put", job |-> j, worker |-> w]
        /\ UNCHANGED <<pool, wk>>
  /\ UNCHANGED <<known, reports, asked, sweeping, home, late, budget>>

\* The end of invoke: whatever became of the worker, the job is queued on it.
Put ==
  /\ call.op = "put"
  /\ wk' = [wk EXCEPT ![call.worker].queue = Append(@, call.job)]
  /\ home' = [home EXCEPT ![call.job] = call.worker]
  /\ late' = IF call.worker \in pool THEN late ELSE late \cup {call.job}
  /\ call' = Idle
  /\ UNCHANGED <<known, sent, reports, asked, pool, sweeping, budget>>

\* cancel looks for the worker the job is on, else it will look into the queues
\* of the workers registered now.
CancelFind(j) ==
  /\ call = Idle /\ j \in sent
  /\ budget.cancels < MaxCancels
  /\ budget' = [budget EXCEPT !.cancels = @ + 1]
  /\ asked' = asked \cup {j}
  /\ LET on == {w \in pool : Busy(w) /\ wk[w].hand = j}
     IN  call' = IF on # {}
                 THEN [op |-> "kill", job |-> j, worker |-> CHOOSE w \in on : TRUE]
                 ELSE [op |-> "scan", job |-> j, left |-> pool]
  /\ UNCHANGED <<known, sent, reports, pool, wk, sweeping, home, late>>

\* The sentinel cannot be unpacked into job and parameters: the exception ends
\* the router thread, and what was taken from the queue before is lost.
RouterDies(w) ==
  /\ HasStop(wk[w].queue)
  /\ wk' = [wk EXCEPT ![w].queue = AfterStop(@)]
  /\ call' = [op |-> "dead"]
  /\ UNCHANGED reports

\* cancel of a job that a worker was running when it was looked for.
CancelKill ==
  /\ call.op = "kill"
  /\ LET w == call.worker
     IN  /\ pool' = pool \ {w}
         /\ \/ RouterDies(w)
            \/ /\ ~HasStop(wk[w].queue)
               /\ wk' = [wk EXCEPT ![w].queue = <<>>, ![w].cancelled = TRUE, ![w].alive = FALSE,
                                   ![w].gone = IF w \in pool THEN "cancelled" ELSE @]
               /\ reports' = [j \in Jobs |->
                    CASE j = call.job -> Append(reports[j], "cancelled")
                      [] j # call.job /\ j \in JobsIn(wk[w].queue) ->
                           Append(reports[j], "crashed")
                      [] OTHER -> reports[j]]
               /\ call' = Idle
  /\ UNCHANGED <<known, sent, asked, sweeping, home, late, budget>>

\* cancel of a job that was not running: one queue is drained and refilled
\* without the job; the first that held it ends the search.
CancelScan(w) ==
  /\ call.op = "scan" /\ w \in call.left
  /\ \/ RouterDies(w)
     \/ /\ ~HasStop(wk[w].queue)
        /\ LET found == call.job \in JobsIn(wk[w].queue)
           IN  /\ wk' = [wk EXCEPT ![w].queue = Without(@, call.job)]
               /\ Report(IF found THEN {call.job} ELSE {}, "cancelled")
               /\ call' = IF found THEN Idle ELSE [call EXCEPT !.left = @ \ {w}]
  /\ UNCHANGED <<known, sent, asked, pool, sweeping, home, late, budget>>

\* JOB_CANCEL answers "job not found or already finished".
CancelNotFound ==
  /\ call.op = "scan" /\ call.left = {}
  /\ call' = Idle
  /\ UNCHANGED <<known, sent, reports, asked, pool, wk, sweeping, home, late, budget>>

\* FUNCTION_DELETE, which stops no worker.
DeleteFunction ==
  /\ call = Idle /\ known
  /\ known' = FALSE
  /\ UNCHANGED <<call, sent, reports, asked, pool, wk, sweeping, home, late, budget>>

-----------------------------------------------------------------------------
(* Pump threads and their processes *)

\* Mutant of PumpTake: the job stays queued.
PumpTakePeeks(w) ==
  /\ wk[w].pump = "waiting" /\ wk[w].queue # <<>>
  /\ LET item == Head(wk[w].queue)
     IN  wk' = [wk EXCEPT ![w].pump = IF item = Stop THEN "ended" ELSE "taken",
                          ![w].hand = IF item = Stop THEN Nobody ELSE item]
  /\ UNCHANGED <<known, call, sent, reports, asked, pool, sweeping, home, late, budget>>

PumpTake(w) ==
  /\ wk[w].pump = "waiting" /\ wk[w].queue # <<>>
  /\ LET item == Head(wk[w].queue)
     IN  wk' = [wk EXCEPT ![w].queue = Tail(@),
                          ![w].pump = IF item = Stop THEN "ended" ELSE "taken",
                          ![w].hand = IF item = Stop THEN Nobody ELSE item]
  /\ UNCHANGED <<known, call, sent, reports, asked, pool, sweeping, home, late, budget>>

\* busy and current_job_id are set and the job goes down the pipe.
PumpDispatch(w) ==
  /\ wk[w].pump = "taken" /\ wk[w].alive
  /\ wk' = [wk EXCEPT ![w].pump = "running"]
  /\ UNCHANGED <<known, call, sent, reports, asked, pool, sweeping, home, late, budget>>

\* worker_main has run the function, which may have raised.
WorkerAnswer(w) ==
  /\ wk[w].pump = "running" /\ wk[w].alive /\ ~wk[w].answered
  /\ wk' = [wk EXCEPT ![w].answered = TRUE]
  /\ UNCHANGED <<known, call, sent, reports, asked, pool, sweeping, home, late, budget>>

PumpReceive(w) ==
  /\ wk[w].pump = "running" /\ wk[w].answered
  /\ wk' = [wk EXCEPT ![w].pump = "reported", ![w].answered = FALSE, ![w].served = @ + 1]
  /\ Report({wk[w].hand}, "done")
  /\ UNCHANGED <<known, call, sent, asked, pool, sweeping, home, late, budget>>

\* busy and current_job_id are cleared after on_complete has returned.
PumpNext(w) ==
  /\ wk[w].pump = "reported"
  /\ wk' = [wk EXCEPT ![w].pump = "waiting", ![w].hand = Nobody]
  /\ UNCHANGED <<known, call, sent, reports, asked, pool, sweeping, home, late, budget>>

\* Mutants of Teardown: queued jobs are dropped; the cancelled flag is ignored.
TeardownInFlightOnly(w, outcome) ==
  /\ wk' = [wk EXCEPT ![w].pump = "ended", ![w].hand = Nobody, ![w].queue = <<>>,
                      ![w].alive = FALSE, ![w].gone = IF w \in pool THEN outcome ELSE @]
  /\ Report(IF wk[w].cancelled THEN {} ELSE {wk[w].hand}, outcome)
  /\ pool' = pool \ {w}

TeardownAfterCancel(w, outcome) ==
  /\ wk' = [wk EXCEPT ![w].pump = "ended", ![w].hand = Nobody, ![w].queue = <<>>]
  /\ Report({wk[w].hand} \cup JobsIn(wk[w].queue), outcome)
  /\ pool' = pool \ {w}

\* _handle_crash and _handle_timeout: unless cancel was here before, the worker
\* leaves the pool and the jobs on it are reported, unless the sentinel among
\* them ends the thread before any report.
Teardown(w, outcome) ==
  LET q == wk[w].queue
  IN  \/ /\ wk[w].cancelled
         /\ wk' = [wk EXCEPT ![w].pump = "ended", ![w].hand = Nobody]
         /\ UNCHANGED <<pool, reports>>
      \/ /\ ~wk[w].cancelled /\ HasStop(q)
         /\ pool' = pool \ {w}
         /\ wk' = [wk EXCEPT ![w].pump = "ended", ![w].hand = Nobody, ![w].queue = AfterStop(q)]
         /\ UNCHANGED reports
      \/ /\ ~wk[w].cancelled /\ ~HasStop(q)
         /\ pool' = pool \ {w}
         /\ wk' = [wk EXCEPT ![w].pump = "ended", ![w].hand = Nobody, ![w].queue = <<>>,
                             ![w].alive = FALSE, ![w].gone = IF w \in pool THEN outcome ELSE @]
         /\ reports' = [j \in Jobs |->
              CASE j = wk[w].hand -> Append(reports[j], outcome)
                [] j # wk[w].hand /\ j \in JobsIn(q) -> Append(reports[j], "crashed")
                [] OTHER -> reports[j]]

\* The pipe of a dead process is broken, once its last message has been read.
PumpCrash(w) ==
  /\ ~wk[w].alive
  /\ \/ wk[w].pump = "taken"
     \/ wk[w].pump = "running" /\ ~wk[w].answered
  /\ Teardown(w, "crashed")
  /\ UNCHANGED <<known, call, sent, asked, sweeping, home, late, budget>>

\* No answer within max_duration_seconds.
PumpTimeout(w) ==
  /\ wk[w].pump = "running" /\ wk[w].alive /\ ~wk[w].answered
  /\ Teardown(w, "timeout")
  /\ UNCHANGED <<known, call, sent, asked, sweeping, home, late, budget>>

\* A process dies by itself: the limit on memory or processor time, user code.
WorkerDies(w) ==
  /\ wk[w].alive
  /\ budget.deaths < MaxDeaths
  /\ budget' = [budget EXCEPT !.deaths = @ + 1]
  /\ wk' = [wk EXCEPT ![w].alive = FALSE]
  /\ UNCHANGED <<known, call, sent, reports, asked, pool, sweeping, home, late>>

-----------------------------------------------------------------------------
(* The sweeper thread *)

\* A worker that has not served yet counts as idle since the epoch.
IsIdle(w) == ~Busy(w)
ExceededMaxInvocations(w) == MaxInvocations > 0 /\ wk[w].served >= MaxInvocations

SweepKill(w) ==
  /\ sweeping = Nobody /\ w \in pool
  /\ budget.sweeps < MaxSweeps
  /\ IsIdle(w) \/ ExceededMaxInvocations(w)
  /\ budget' = [budget EXCEPT !.sweeps = @ + 1]
  /\ pool' = pool \ {w}
  /\ wk' = [wk EXCEPT ![w].alive = FALSE, ![w].gone = "swept"]
  /\ sweeping' = w
  /\ UNCHANGED <<known, call, sent, reports, asked, home, late>>

SweepStop ==
  /\ sweeping # Nobody
  /\ wk' = [wk EXCEPT ![sweeping].queue = Append(@, Stop)]
  /\ sweeping' = Nobody
  /\ UNCHANGED <<known, call, sent, reports, asked, pool, home, late, budget>>

-----------------------------------------------------------------------------
RouterNext ==
  \/ \E j \in Jobs : Refuse(j) \/ Select(j) \/ CancelFind(j)
  \/ Put \/ CancelKill \/ CancelNotFound \/ DeleteFunction
  \/ \E w \in Workers : CancelScan(w)

PumpNextStep(w) ==
  PumpTake(w) \/ PumpDispatch(w) \/ PumpReceive(w) \/ PumpNext(w) \/ PumpCrash(w)

ProcessNext ==
  \/ RouterNext
  \/ \E w \in Workers : \/ PumpNextStep(w) \/ PumpTimeout(w)
                        \/ WorkerAnswer(w) \/ WorkerDies(w) \/ SweepKill(w)
  \/ SweepStop

\* A thread that can go on does; a job that takes too long is timed out, when
\* the function has a max_duration_seconds.
ProcessFairness ==
  /\ WF_procVars(Put \/ CancelKill \/ CancelNotFound \/ \E w \in Workers : CancelScan(w))
  /\ \A w \in Workers : WF_procVars(PumpNextStep(w))
  /\ \A w \in Workers : WF_procVars(PumpTimeout(w))
  /\ WF_procVars(SweepStop)

ProcessSpec == ProcessInit /\ [][ProcessNext]_procVars /\ ProcessFairness

-----------------------------------------------------------------------------
(* Properties *)

WorkerHandle ==
  [alive : BOOLEAN, queue : Seq(Jobs \cup {Stop}), pump : Pumps, hand : Jobs \cup {Nobody},
   answered : BOOLEAN, cancelled : BOOLEAN, served : Nat,
   gone : {"no", "crashed", "timeout", "swept", "cancelled"}]

\* Workers, pumps, queues and the router's call have the states the code gives them;
\* a pump takes only what was queued on its own worker.
ProcessTypeOK ==
  /\ known \in BOOLEAN
  /\ call \in {Idle, [op |-> "dead"]}
       \cup [op : {"put", "kill"}, job : Jobs, worker : Workers]
       \cup [op : {"scan"}, job : Jobs, left : SUBSET Workers]
  /\ sent \subseteq Jobs /\ asked \subseteq Jobs /\ late \subseteq Jobs
  /\ reports \in [Jobs -> Seq(Outcomes)]
  /\ pool \subseteq Workers
  /\ home \in [Jobs -> Workers \cup {Nobody}]
  /\ wk \in [Workers -> WorkerHandle]
  /\ sweeping \in Workers \cup {Nobody}

\* A thread still has the job: the router, or a pump that can get at it.
InHand(j) ==
  \/ call.op = "put" /\ call.job = j
  \/ \E w \in Workers : wk[w].pump \in {"waiting", "taken", "running", "reported"}
                        /\ (wk[w].hand = j \/ j \in JobsIn(wk[w].queue))

Forgotten(j) == j \in sent /\ reports[j] = <<>> /\ ~InHand(j)

\* A job is reported once.  A second report comes only from a cancel that races
\* with the job's end: the cancellation after the end, or a result that was in
\* the pipe when the process was killed; never a crash after a cancellation.
ReportedOnce ==
  \A j \in Jobs : \/ Len(reports[j]) <= 1
                  \/ /\ Len(reports[j]) = 2
                     /\ j \in asked
                     /\ \/ reports[j][2] = "cancelled"
                        \/ reports[j] = <<"cancelled", "done">>

\* The results an endpoint serves obey the abstract board: the last report wins.
Board == INSTANCE JobBoard WITH
  result <- [j \in Jobs |->
               IF reports[j] # <<>> THEN reports[j][Len(reports[j])]
               ELSE IF j \in sent THEN "pending" ELSE "unknown"]

\* submit_job, cancel and on_complete together: a result is pending until it is settled,
\* and once settled changes only for a job somebody asked to cancel.
ImplementsBoard == Board!BoardSpec

\* Every submitted job is reported in the end.  _handle_crash and _handle_timeout leave
\* none behind: a job is forgotten only when the sweeper retired its worker or a cancel
\* of another job killed it, or when it was queued on a worker that had left the pool.
EveryJobSettles ==
  \A j \in Jobs : (j \in sent) ~>
    \/ reports[j] # <<>>
    \/ Forgotten(j) /\ (j \in late \/ wk[home[j]].gone \in {"swept", "cancelled"})
=============================================================================
