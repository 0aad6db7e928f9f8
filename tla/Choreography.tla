---------------------------- MODULE Choreography ----------------------------
(***************************************************************************)
(* Runs of a saved workflow graph in the VEM.                              *)
(*                                                                         *)
(* A run has an orchestrator thread, a thread per node of the wave under   *)
(* way and one per dispatch of a node fed from a bucket.  They share one   *)
(* run object in memory and save it whole to its document; the cancel      *)
(* request works on a copy of its own and saves that whole.  Jobs run on   *)
(* endpoints and are polled; answers may be lost.                          *)
(***************************************************************************)
EXTENDS Naturals, FiniteSets

CONSTANTS Runs, Nodes,
          Edges,         \* pairs: source, target
          Buckets,       \* the nodes of kind "bucket"
          Items,         \* [Nodes -> Nat]: dispatches of a function node
          Parallelism,   \* dispatches of one node at a time
          MaxConcurrency, \* of every function: RuntimeSpec.max_concurrency
          MaxRetries,    \* [Nodes -> Nat]: node.max_retries
          MaxLost,       \* bound: answers of endpoints lost
          MaxCrashes     \* bound: restarts of the VEM

ASSUME ChoreographyAssumption ==
  /\ Edges \subseteq Nodes \X Nodes /\ Buckets \subseteq Nodes
  /\ Items \in [Nodes -> Nat] /\ MaxRetries \in [Nodes -> Nat]
  /\ {Parallelism, MaxConcurrency} \subseteq Nat \ {0}
  /\ {MaxLost, MaxCrashes} \subseteq Nat

VARIABLES
  saved,     \* the choreography: "there", "deleting", "deleted" or "purged"
  doc,       \* choreography_runs: Absent or the run as saved
  run,       \* the run object of the orchestrator
  pc,        \* the orchestrator thread of each run
  done,      \* the nodes of the waves behind it
  skipped,   \* cancelled_or_failed
  anyFailed,
  stop,      \* stop_flags: "none", "clear" or "set"
  live,      \* live_jobs_by_run
  node,      \* the thread of each node
  task,      \* the dispatches of each node
  job,       \* jobs on the endpoints
  cancel,    \* a cancel request for each run
  adrift,    \* jobs whose answer was lost (history)
  told,      \* runs whose cancellation was confirmed in time (history)
  late,      \* runs launched after the choreography's deletion (history)
  used       \* bounds used up

choreoVars == <<saved, doc, run, pc, done, skipped, anyFailed, stop, live, node, task, job,
                cancel, adrift, told, late, used>>

Absent == [status |-> "absent"]
Active == {"pending", "running"}
NodeStatus == {"pending", "running", "completed", "failed", "cancelled"}
Tasks == UNION {{<<n, i>> : i \in 1 .. Items[n]} : n \in Nodes}
TasksOf(n) == {t \in Tasks : t[1] = n}
Jobs == UNION {{<<r, t, a>> : a \in 0 .. MaxRetries[t[1]]} : r \in Runs, t \in Tasks}

-----------------------------------------------------------------------------
(* graph_ops *)

DependenciesOf(n) == {m \in Nodes : <<m, n>> \in Edges}

\* topological_waves: the wave that follows when the nodes in S are done, and whether
\* it ever gets stuck, with nodes left that wait for one another.
Wave(S) == {n \in Nodes \ S : DependenciesOf(n) \subseteq S}
Cyclic == \E S \in (SUBSET Nodes) \ {{}} : \A n \in S : DependenciesOf(n) \cap S # {}

\* downstream_of: every node that depends on n, through others too; the least set the
\* walk along the edges does not leave.
Dependents(n) == {m \in Nodes : n \in DependenciesOf(m)}
Encloses(S, n) == Dependents(n) \subseteq S /\ \A m \in S : Dependents(m) \subseteq S
Downstream == [n \in Nodes |-> {m \in Nodes : \A S \in SUBSET Nodes : Encloses(S, n) => m \in S}]

\* check_concurrency: an edge from a function counts once, one from a bucket as often as
\* it dispatches at a time.
Required(n) ==
  LET fromBuckets == Cardinality(DependenciesOf(n) \cap Buckets)
      fromOthers == Cardinality(DependenciesOf(n) \ Buckets)
      sum == fromOthers + fromBuckets * Parallelism
  IN  IF sum = 0 THEN 1 ELSE sum
Valid == \A n \in Nodes \ Buckets : Required(n) <= MaxConcurrency

Waiting == [pc |-> "off", attempt |-> 0]

ChoreoInit ==
  /\ saved = "there"
  /\ doc = [r \in Runs |-> Absent]
  /\ run = [r \in Runs |-> Absent]
  /\ pc = [r \in Runs |-> "off"]
  /\ done = [r \in Runs |-> {}]
  /\ skipped = [r \in Runs |-> {}]
  /\ anyFailed = [r \in Runs |-> FALSE]
  /\ stop = [r \in Runs |-> "none"]
  /\ live = [r \in Runs |-> {}]
  /\ node = [r \in Runs |-> [n \in Nodes |-> "off"]]
  /\ task = [r \in Runs |-> [t \in Tasks |-> Waiting]]
  /\ job = [j \in Jobs |-> "none"]
  /\ cancel = [r \in Runs |-> [pc |-> "off"]]
  /\ adrift = {}
  /\ told = {}
  /\ late = {}
  /\ used = [lost |-> 0, crashes |-> 0]

-----------------------------------------------------------------------------
(* The saved choreography *)

HasActiveRun == \E r \in Runs : doc[r].status \in Active

\* Mutant of Delete: a run under way does not stand in the way.
DeleteAnyway ==
  /\ saved = "there"
  /\ saved' = "deleting"
  /\ UNCHANGED <<doc, run, pc, done, skipped, anyFailed, stop, live, node, task, job, cancel,
                 adrift, told, late, used>>

\* DeleteChoreographyUseCase appends the event, the projector marks the document.
Delete ==
  /\ saved = "there" /\ ~HasActiveRun
  /\ saved' = "deleting"
  /\ UNCHANGED <<doc, run, pc, done, skipped, anyFailed, stop, live, node, task, job, cancel,
                 adrift, told, late, used>>

ProjectDelete ==
  /\ saved = "deleting"
  /\ saved' = "deleted"
  /\ UNCHANGED <<doc, run, pc, done, skipped, anyFailed, stop, live, node, task, job, cancel,
                 adrift, told, late, used>>

\* PurgeChoreographyUseCase removes the runs' documents as well.
Purge ==
  /\ saved = "deleted"
  /\ saved' = "purged"
  /\ doc' = [r \in Runs |-> Absent]
  /\ UNCHANGED <<run, pc, done, skipped, anyFailed, stop, live, node, task, job, cancel,
                 adrift, told, late, used>>

-----------------------------------------------------------------------------
(* RunChoreographyUseCase.execute: the check, then the document and the thread *)

Check(r) ==
  /\ pc[r] = "off" /\ doc[r] = Absent
  /\ saved \in {"there", "deleting"} /\ ~HasActiveRun /\ Valid
  /\ pc' = [pc EXCEPT ![r] = "checked"]
  /\ UNCHANGED <<saved, doc, run, done, skipped, anyFailed, stop, live, node, task, job,
                 cancel, adrift, told, late, used>>

Launch(r) ==
  /\ pc[r] = "checked"
  /\ pc' = [pc EXCEPT ![r] = "begin"]
  /\ run' = [run EXCEPT ![r] = [status |-> "pending", nodes |-> [n \in Nodes |-> "pending"]]]
  /\ doc' = [doc EXCEPT ![r] = run'[r]]
  /\ stop' = [stop EXCEPT ![r] = "clear"]
  /\ late' = IF saved = "there" THEN late ELSE late \cup {r}
  /\ UNCHANGED <<saved, done, skipped, anyFailed, live, node, task, job, cancel, adrift,
                 told, used>>

\* _execute_run: a cyclic graph has no wave and fails.
Begin(r) ==
  /\ pc[r] = "begin"
  /\ run' = [run EXCEPT ![r].status = "running"]
  /\ doc' = [doc EXCEPT ![r] = run'[r]]
  /\ done' = [done EXCEPT ![r] = {}]
  /\ anyFailed' = [anyFailed EXCEPT ![r] = Cyclic]
  /\ pc' = [pc EXCEPT ![r] = IF Cyclic THEN "decide" ELSE "wave"]
  /\ UNCHANGED <<saved, skipped, stop, live, node, task, job, cancel, adrift, told, late, used>>

\* The next wave's nodes that are not skipped get a thread each.
EnterWave(r) ==
  /\ pc[r] = "wave"
  /\ LET runnable == Wave(done[r]) \ skipped[r]
         over == stop[r] = "set" \/ Wave(done[r]) = {}
     IN  /\ pc' = [pc EXCEPT ![r] = IF over THEN "decide"
                                    ELSE IF runnable = {} THEN "wave" ELSE "collect"]
         /\ done' = [done EXCEPT ![r] = IF ~over /\ runnable = {} THEN @ \cup Wave(@) ELSE @]
         /\ node' = IF over THEN node
                    ELSE [node EXCEPT ![r] = [n \in Nodes |-> IF n \in runnable THEN "new"
                                                                   ELSE node[r][n]]]
  /\ UNCHANGED <<saved, doc, run, skipped, anyFailed, stop, live, task, job, cancel, adrift,
                 told, late, used>>

\* A node that failed takes with it all that depends on it.
Collect(r, n) ==
  /\ pc[r] = "collect" /\ node[r][n] \in {"good", "bad"}
  /\ LET gone == IF node[r][n] = "bad" THEN Downstream[n] \ skipped[r] ELSE {}
         left == {m \in Nodes : m # n /\ node[r][m] \in {"new", "busy", "good", "bad"}}
     IN  /\ run' = [run EXCEPT ![r].nodes = [m \in Nodes |->
              IF m \in gone /\ run[r].nodes[m] = "pending" THEN "cancelled" ELSE run[r].nodes[m]]]
         /\ doc' = IF gone = {} THEN doc ELSE [doc EXCEPT ![r] = run'[r]]
         /\ skipped' = [skipped EXCEPT ![r] = @ \cup gone]
         /\ anyFailed' = [anyFailed EXCEPT ![r] = @ \/ node[r][n] = "bad"]
         /\ node' = [node EXCEPT ![r][n] = "off"]
         /\ pc' = [pc EXCEPT ![r] = IF left = {} THEN "wave" ELSE "collect"]
         /\ done' = [done EXCEPT ![r] = IF left = {} THEN @ \cup Wave(@) ELSE @]
  /\ UNCHANGED <<saved, stop, live, task, job, cancel, adrift, told, late, used>>

\* Mutant of Decide: the nodes' outcome goes before the stop flag.
DecideByNodes(r) ==
  /\ pc[r] = "decide"
  /\ run' = [run EXCEPT ![r].status = IF anyFailed[r] THEN "failed" ELSE "completed"]
  /\ pc' = [pc EXCEPT ![r] = "save"]
  /\ UNCHANGED <<saved, doc, done, skipped, anyFailed, stop, live, node, task, job, cancel,
                 adrift, told, late, used>>

\* The run's status is decided ...
Decide(r) ==
  /\ pc[r] = "decide"
  /\ run' = [run EXCEPT ![r].status =
       IF stop[r] = "set" THEN "cancelled" ELSE IF anyFailed[r] THEN "failed" ELSE "completed"]
  /\ pc' = [pc EXCEPT ![r] = "save"]
  /\ UNCHANGED <<saved, doc, done, skipped, anyFailed, stop, live, node, task, job, cancel,
                 adrift, told, late, used>>

\* ... and saved, and the orchestrator forgets the run.
Finish(r) ==
  /\ pc[r] = "save"
  /\ doc' = [doc EXCEPT ![r] = run[r]]
  /\ pc' = [pc EXCEPT ![r] = "done"]
  /\ live' = [live EXCEPT ![r] = {}]
  /\ stop' = [stop EXCEPT ![r] = "none"]
  /\ UNCHANGED <<saved, run, done, skipped, anyFailed, node, task, job, cancel, adrift, told, late, used>>

-----------------------------------------------------------------------------
(* _run_node *)

\* A bucket is complete at once; a function's dispatches begin.
NodeStarts(r, n) ==
  /\ node[r][n] = "new"
  /\ run' = [run EXCEPT ![r].nodes[n] = IF n \in Buckets THEN "completed" ELSE "running"]
  /\ doc' = [doc EXCEPT ![r] = run'[r]]
  /\ node' = [node EXCEPT ![r][n] = IF n \in Buckets THEN "good" ELSE "busy"]
  /\ UNCHANGED <<saved, pc, done, skipped, anyFailed, stop, live, task, job, cancel, adrift,
                 told, late, used>>

\* The pool runs Parallelism dispatches of a node at a time.
TaskStarts(r, t) ==
  /\ node[r][t[1]] = "busy" /\ task[r][t].pc = "off"
  /\ Cardinality({u \in TasksOf(t[1]) : task[r][u].pc \in {"try", "submitted", "poll"}})
       < Parallelism
  /\ task' = [task EXCEPT ![r][t] = [pc |-> "try", attempt |-> 0]]
  /\ UNCHANGED <<saved, doc, run, pc, done, skipped, anyFailed, stop, live, node, job, cancel,
                 adrift, told, late, used>>

JobOf(r, t) == <<r, t, task[r][t].attempt>>
Lost == used.lost < MaxLost /\ used' = [used EXCEPT !.lost = @ + 1]

\* _dispatch_with_retries: another attempt, or the dispatch has failed.
AfterFailure(r, t) ==
  IF task[r][t].attempt < MaxRetries[t[1]]
  THEN [pc |-> "try", attempt |-> task[r][t].attempt + 1]
  ELSE [task[r][t] EXCEPT !.pc = "bad"]

\* SubmitFunctionJobUseCase, unless the run is stopped.  The endpoint takes the job,
\* refuses it, or takes it and its answer is lost.
Submit(r, t) ==
  /\ task[r][t].pc = "try"
  /\ \/ /\ stop[r] = "set"
        /\ task' = [task EXCEPT ![r][t].pc = "bad"]
        /\ UNCHANGED <<job, adrift, used>>
     \/ /\ stop[r] # "set"
        /\ task' = [task EXCEPT ![r][t].pc = "submitted"]
        /\ job' = [job EXCEPT ![JobOf(r, t)] = "running"]
        /\ UNCHANGED <<adrift, used>>
     \/ /\ stop[r] # "set"
        /\ task' = [task EXCEPT ![r][t] = AfterFailure(r, t)]
        /\ UNCHANGED <<job, adrift, used>>
     \/ /\ stop[r] # "set" /\ Lost
        /\ task' = [task EXCEPT ![r][t] = AfterFailure(r, t)]
        /\ job' = [job EXCEPT ![JobOf(r, t)] = "running"]
        /\ adrift' = adrift \cup {JobOf(r, t)}
  /\ UNCHANGED <<saved, doc, run, pc, done, skipped, anyFailed, stop, live, node, cancel, told, late>>

\* The job is entered where a cancel request will find it.
Enter(r, t) ==
  /\ task[r][t].pc = "submitted"
  /\ live' = [live EXCEPT ![r] = @ \cup {JobOf(r, t)}]
  /\ task' = [task EXCEPT ![r][t].pc = "poll"]
  /\ UNCHANGED <<saved, doc, run, pc, done, skipped, anyFailed, stop, node, job, cancel,
                 adrift, told, late, used>>

Cancelled(js) == [j \in Jobs |-> IF j \in js /\ job[j] = "running" THEN "failed" ELSE job[j]]

\* Mutant of Poll: a run that is stopped leaves its jobs to the cancel request.
PollLeavesJob(r, t) ==
  LET j == JobOf(r, t)
  IN  /\ task[r][t].pc = "poll"
      /\ task' = [task EXCEPT ![r][t] = AfterFailure(r, t)]
      /\ live' = [live EXCEPT ![r] = @ \ {j}]
      /\ UNCHANGED <<saved, doc, run, pc, done, skipped, anyFailed, stop, node, job, cancel,
                     adrift, told, late, used>>

\* Mutant of Poll: no deadline.
PollForEver(r, t) ==
  LET j == JobOf(r, t)
  IN  /\ task[r][t].pc = "poll" /\ job[j] # "running"
      /\ task' = [task EXCEPT ![r][t].pc = IF job[j] = "done" THEN "good" ELSE "bad"]
      /\ live' = [live EXCEPT ![r] = @ \ {j}]
      /\ UNCHANGED <<saved, doc, run, pc, done, skipped, anyFailed, stop, node, job, cancel,
                     adrift, told, late, used>>

\* _poll_until_terminal: the stop flag first, then the job's state, then the deadline.
Poll(r, t) ==
  LET j == JobOf(r, t)
  IN  /\ task[r][t].pc = "poll"
      /\ \/ /\ stop[r] # "set" /\ job[j] = "done"
            /\ task' = [task EXCEPT ![r][t].pc = "good"]
            /\ UNCHANGED <<job, adrift, used>>
         \/ /\ stop[r] # "set" /\ job[j] = "failed"
            /\ task' = [task EXCEPT ![r][t] = AfterFailure(r, t)]
            /\ UNCHANGED <<job, adrift, used>>
         \/ /\ task' = [task EXCEPT ![r][t] = AfterFailure(r, t)]     \* stopped, or out of time
            /\ job' = Cancelled({j})
            /\ UNCHANGED <<adrift, used>>
         \/ /\ Lost                                     \* no answer, or the cancel is lost
            /\ task' = [task EXCEPT ![r][t] = AfterFailure(r, t)]
            /\ adrift' = adrift \cup {j}
            /\ UNCHANGED job
      /\ live' = [live EXCEPT ![r] = @ \ {j}]
      /\ UNCHANGED <<saved, doc, run, pc, done, skipped, anyFailed, stop, node, cancel, told, late>>

\* Mutant of NodeEnds: one good dispatch is enough.
NodeEndsWithOneGood(r, n) ==
  /\ node[r][n] = "busy"
  /\ \A t \in TasksOf(n) : task[r][t].pc \in {"good", "bad"}
  /\ LET good == \E t \in TasksOf(n) : task[r][t].pc = "good"
     IN  /\ run' = [run EXCEPT ![r].nodes[n] =
               IF \A t \in TasksOf(n) : task[r][t].pc = "good" THEN "completed" ELSE "failed"]
         /\ node' = [node EXCEPT ![r][n] = IF good THEN "good" ELSE "bad"]
  /\ doc' = [doc EXCEPT ![r] = run'[r]]
  /\ UNCHANGED <<saved, pc, done, skipped, anyFailed, stop, live, task, job, cancel, adrift,
                 told, late, used>>

\* All dispatches are over: the node has failed if one of them has.
NodeEnds(r, n) ==
  /\ node[r][n] = "busy"
  /\ \A t \in TasksOf(n) : task[r][t].pc \in {"good", "bad"}
  /\ LET good == \A t \in TasksOf(n) : task[r][t].pc = "good"
     IN  /\ run' = [run EXCEPT ![r].nodes[n] = IF good THEN "completed" ELSE "failed"]
         /\ node' = [node EXCEPT ![r][n] = IF good THEN "good" ELSE "bad"]
  /\ doc' = [doc EXCEPT ![r] = run'[r]]
  /\ UNCHANGED <<saved, pc, done, skipped, anyFailed, stop, live, task, job, cancel, adrift,
                 told, late, used>>

\* Jobs end on their endpoints.
JobEnds(j) ==
  /\ job[j] = "running"
  /\ \E v \in {"done", "failed"} : job' = [job EXCEPT ![j] = v]
  /\ UNCHANGED <<saved, doc, run, pc, done, skipped, anyFailed, stop, live, node, task, cancel,
                 adrift, told, late, used>>

-----------------------------------------------------------------------------
(* CancelChoreographyRunUseCase *)

CancelLoads(r) ==
  /\ cancel[r].pc = "off" /\ doc[r].status \in Active
  /\ cancel' = [cancel EXCEPT ![r] = [pc |-> "loaded", copy |-> doc[r]]]
  /\ UNCHANGED <<saved, doc, run, pc, done, skipped, anyFailed, stop, live, node, task, job,
                 adrift, told, late, used>>

CancelFlags(r) ==
  /\ cancel[r].pc = "loaded"
  /\ stop' = [stop EXCEPT ![r] = IF @ = "none" THEN @ ELSE "set"]
  /\ cancel' = [cancel EXCEPT ![r].pc = "flagged"]
  /\ told' = IF stop[r] # "none" /\ pc[r] \notin {"save", "done"} THEN told \cup {r} ELSE told
  /\ UNCHANGED <<saved, doc, run, pc, done, skipped, anyFailed, live, node, task, job, adrift,
                 late, used>>

CancelSends(r) ==
  /\ cancel[r].pc = "flagged"
  /\ \/ job' = Cancelled(live[r]) /\ UNCHANGED used
     \/ Lost /\ UNCHANGED job
  /\ cancel' = [cancel EXCEPT ![r].pc = "sent"]
  /\ UNCHANGED <<saved, doc, run, pc, done, skipped, anyFailed, stop, live, node, task, adrift,
                 told, late>>

\* The copy, as it was when loaded, is saved with status CANCELLED.
CancelSaves(r) ==
  /\ cancel[r].pc = "sent"
  /\ doc' = [doc EXCEPT ![r] = [cancel[r].copy EXCEPT !.status = "cancelled"]]
  /\ cancel' = [cancel EXCEPT ![r] = [pc |-> "done"]]
  /\ UNCHANGED <<saved, run, pc, done, skipped, anyFailed, stop, live, node, task, job, adrift,
                 told, late, used>>

-----------------------------------------------------------------------------
\* The VEM restarts: threads and what they kept in memory are gone.
Crash ==
  /\ used.crashes < MaxCrashes
  /\ used' = [used EXCEPT !.crashes = @ + 1]
  /\ pc' = [r \in Runs |-> IF pc[r] \in {"off", "done"} THEN pc[r]
                           ELSE IF pc[r] = "checked" THEN "off" ELSE "dead"]
  /\ run' = [r \in Runs |-> Absent]
  /\ stop' = [r \in Runs |-> "none"]
  /\ live' = [r \in Runs |-> {}]
  /\ node' = [r \in Runs |-> [n \in Nodes |-> "off"]]
  /\ task' = [r \in Runs |-> [t \in Tasks |-> Waiting]]
  /\ cancel' = [r \in Runs |-> IF cancel[r].pc = "done" THEN cancel[r] ELSE [pc |-> "off"]]
  /\ UNCHANGED <<saved, doc, done, skipped, anyFailed, job, adrift, told, late>>

RunStep(r) ==
  \/ Launch(r) \/ Begin(r) \/ EnterWave(r) \/ Decide(r) \/ Finish(r)
  \/ \E n \in Nodes : Collect(r, n) \/ NodeStarts(r, n) \/ NodeEnds(r, n)

TaskStep(r, t) == TaskStarts(r, t) \/ Submit(r, t) \/ Enter(r, t) \/ Poll(r, t)

CancelStep(r) == CancelFlags(r) \/ CancelSends(r) \/ CancelSaves(r)

ChoreoNext ==
  \/ Delete \/ ProjectDelete \/ Purge \/ Crash
  \/ \E r \in Runs : Check(r) \/ CancelLoads(r) \/ RunStep(r) \/ CancelStep(r)
  \/ \E r \in Runs, t \in Tasks : TaskStep(r, t)
  \/ \E j \in Jobs : JobEnds(j)

\* Threads go on: a poll ends with its deadline, whatever the job does.
ChoreoFairness ==
  /\ \A r \in Runs : WF_choreoVars(RunStep(r)) /\ WF_choreoVars(CancelStep(r))
  /\ \A r \in Runs, t \in Tasks : WF_choreoVars(TaskStep(r, t))

ChoreoSpec == ChoreoInit /\ [][ChoreoNext]_choreoVars /\ ChoreoFairness

-----------------------------------------------------------------------------
(* Properties *)

RunDoc == [status : {"pending", "running", "completed", "failed", "cancelled"},
           nodes : [Nodes -> NodeStatus]]
Dispatch == [pc : {"off", "try", "submitted", "poll", "good", "bad"}, attempt : Nat]
CancelRequest == [pc : {"off", "done"}] \cup [pc : {"loaded", "flagged", "sent"}, copy : RunDoc]

\* Documents, run objects and threads have the states the code gives them, and no
\* dispatch is tried more often than its node allows.
ChoreoTypeOK ==
  /\ saved \in {"there", "deleting", "deleted", "purged"}
  /\ doc \in [Runs -> RunDoc \cup {Absent}] /\ run \in [Runs -> RunDoc \cup {Absent}]
  /\ pc \in [Runs -> {"off", "checked", "begin", "wave", "collect", "decide", "save", "done", "dead"}]
  /\ done \in [Runs -> SUBSET Nodes] /\ skipped \in [Runs -> SUBSET Nodes] /\ anyFailed \in [Runs -> BOOLEAN]
  /\ stop \in [Runs -> {"none", "clear", "set"}] /\ live \in [Runs -> SUBSET Jobs]
  /\ node \in [Runs -> [Nodes -> {"off", "new", "busy", "good", "bad"}]]
  /\ task \in [Runs -> [Tasks -> Dispatch]]
  /\ \A r \in Runs, t \in Tasks : task[r][t].attempt <= MaxRetries[t[1]]
  /\ job \in [Jobs -> {"none", "running", "done", "failed"}]
  /\ cancel \in [Runs -> CancelRequest]
  /\ adrift \subseteq Jobs /\ told \subseteq Runs /\ late \subseteq Runs

\* A node's jobs are submitted only when all it depends on, through others too, is
\* completed: no wave overtakes a failed or unfinished one.
DependenciesFirst ==
  \A r \in Runs, n \in Nodes :
    run[r] # Absent /\ node[r][n] \in {"new", "busy"} =>
      \A m \in Nodes : n \in Downstream[m] => run[r].nodes[m] = "completed"

\* Once a run is over no job of it runs on, except one whose answer was lost: each was
\* polled to its end or sent a cancel, however the cancel request fell in between.
NoJobLeftBehind ==
  \A r \in Runs : pc[r] = "done" =>
    \A j \in Jobs : j[1] = r /\ job[j] = "running" => j \in adrift

\* A cancel that was answered while the run went on is not undone by the orchestrator's
\* later saves of its own copy.
CancelIsKept ==
  \A r \in Runs : r \in told /\ pc[r] = "done" /\ cancel[r].pc = "done" =>
    doc[r].status \in {"cancelled", "absent"}

\* A run shown as completed has completed every node, one shown as failed has a node
\* that failed, and nothing in it still counts as under way; and a cancel is kept.
OutcomeIsTrue ==
  /\ \A r \in Runs :
       /\ doc[r].status = "completed" => \A n \in Nodes : doc[r].nodes[n] = "completed"
       /\ doc[r].status = "failed" =>
            Cyclic \/ /\ \E n \in Nodes : doc[r].nodes[n] = "failed"
                      /\ \A n \in Nodes : doc[r].nodes[n] \notin {"pending", "running"}
  /\ CancelIsKept

\* A purged run's document comes back only where a thread was still at work on it: its
\* cancel had been answered before it had stopped, or it was launched when the
\* choreography's deletion was already on its way.
PurgedComesBackOnlyAtWork ==
  [][\A r \in Runs : saved = "purged" /\ doc[r] = Absent /\ doc'[r] # Absent =>
       r \in late' \/ cancel[r].pc # "off"]_choreoVars

\* A run ends and its document says so, unless the VEM restarts under it.
RunEnds ==
  \A r \in Runs :
    (pc[r] = "begin") ~> \/ pc[r] = "dead"
                         \/ pc[r] = "done" /\ doc[r].status \notin {"pending", "running"}
=============================================================================
