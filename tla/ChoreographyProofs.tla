------------------------- MODULE ChoreographyProofs -------------------------
(***************************************************************************)
(* Theorems about Choreography, for any runs, any graph, any number of      *)
(* dispatches and retries, and any number of lost answers and restarts.     *)
(* The first invariant is about threads, jobs and documents and holds       *)
(* whatever the graph; the second, about the waves and what has become of   *)
(* each node, rests on three lemmas about the graph.                        *)
(***************************************************************************)
EXTENDS Choreography, TLAPS

\* The orchestrator thread of the run is at work.
AtWork == {"begin", "wave", "collect", "decide", "save"}

\* A job has been submitted for the dispatch and not yet given up or seen to end.
Flying(r, t) == task[r][t].pc \in {"submitted", "poll"}

\* Node threads exist only while the orchestrator collects them, dispatches only while
\* their node is busy, and the stop flag only while the orchestrator is at work.
ThreadsNest ==
  \A r \in Runs :
    /\ pc[r] \in AtWork => run[r] # Absent
    /\ \A n \in Nodes : node[r][n] # "off" => pc[r] = "collect"
    /\ \A t \in Tasks : task[r][t].pc \in {"try", "submitted", "poll"} => node[r][t[1]] = "busy"
    /\ stop[r] # "none" => pc[r] \in AtWork

\* A job that runs is the one its dispatch is waiting for, was lost, or outlived the VEM.
Tracked ==
  \A j \in Jobs : job[j] = "running" /\ j \notin adrift =>
    pc[j[1]] = "dead" \/ (Flying(j[1], j[2]) /\ JobOf(j[1], j[2]) = j)

\* The stop flag stays set until the orchestrator has saved the run as cancelled.
CancelInv ==
  \A r \in told :
    /\ pc[r] \in {"done", "dead"} \/ (pc[r] \in AtWork /\ stop[r] = "set")
    /\ pc[r] = "save" => run[r].status = "cancelled"
    /\ pc[r] = "done" => doc[r].status \in {"cancelled", "absent"}

\* A run at work is shown as active, unless it was cancelled or launched too late; so no
\* other is at work when the choreography is deleted.
ShownAtWork ==
  \A r \in Runs : pc[r] \in AtWork =>
    /\ pc[r] # "save" => run[r].status \in Active
    /\ r \in late \/ cancel[r].pc = "done" \/ (saved = "there" /\ doc[r].status \in Active)

ChoreoInv == ChoreoTypeOK /\ ThreadsNest /\ Tracked /\ CancelInv /\ ShownAtWork

-----------------------------------------------------------------------------
(* Data *)

LEMMA TaskNode ==
  \A t \in Tasks : t[1] \in Nodes
  BY DEF Tasks

LEMMA JobParts ==
  /\ \A j \in Jobs : j[1] \in Runs /\ j[2] \in Tasks
  /\ \A r \in Runs, t \in Tasks : JobOf(r, t)[1] = r /\ JobOf(r, t)[2] = t
<1>1. \A j \in Jobs : j[1] \in Runs /\ j[2] \in Tasks
  BY DEF Jobs
<1>2. \A r \in Runs, t \in Tasks : JobOf(r, t)[1] = r /\ JobOf(r, t)[2] = t
  BY DEF JobOf
<1> QED  BY <1>1, <1>2

LEMMA RetriesAreNat ==
  \A t \in Tasks : MaxRetries[t[1]] \in Nat
  BY TaskNode, ChoreographyAssumption

LEMMA JobOfIs ==
  ASSUME ChoreoTypeOK, NEW r \in Runs, NEW t \in Tasks
  PROVE  JobOf(r, t) \in Jobs
<1>1. task[r][t] \in Dispatch /\ task[r][t].attempt <= MaxRetries[t[1]]
  BY DEF ChoreoTypeOK
<1>2. task[r][t].attempt \in 0 .. MaxRetries[t[1]]
  BY <1>1, RetriesAreNat DEF Dispatch
<1> DEFINE S == {<<r, t, a>> : a \in 0 .. MaxRetries[t[1]]}
<1>3. JobOf(r, t) \in S
  BY <1>2 DEF JobOf
<1>4. S \in {{<<x, u, a>> : a \in 0 .. MaxRetries[u[1]]} : x \in Runs, u \in Tasks}
  OBVIOUS
<1> HIDE DEF S
<1> QED  BY <1>3, <1>4 DEF Jobs

\* A dispatch moves.
TaskIs(d, t) == d \in Dispatch /\ d.attempt <= MaxRetries[t[1]]
TaskTo(r, t, d) == task' = [task EXCEPT ![r][t] = d]

LEMMA TaskSet ==
  ASSUME ChoreoTypeOK, NEW r \in Runs, NEW t \in Tasks, NEW d, TaskIs(d, t), TaskTo(r, t, d)
  PROVE  /\ task' \in [Runs -> [Tasks -> Dispatch]] /\ task'[r][t] = d
         /\ \A x \in Runs, u \in Tasks : task'[x][u].attempt <= MaxRetries[u[1]]
         /\ \A x \in Runs, u \in Tasks : x # r \/ u # t => task'[x][u] = task[x][u]
<1>1. task \in [Runs -> [Tasks -> Dispatch]] /\ d \in Dispatch /\ d.attempt <= MaxRetries[t[1]]
  BY DEF ChoreoTypeOK, TaskIs
<1>2. /\ task' \in [Runs -> [Tasks -> Dispatch]] /\ task'[r][t] = d
      /\ \A x \in Runs, u \in Tasks : x # r \/ u # t => task'[x][u] = task[x][u]
  BY <1>1 DEF TaskTo
<1>3. \A x \in Runs, u \in Tasks : task'[x][u].attempt <= MaxRetries[u[1]]
  <2> SUFFICES ASSUME NEW x \in Runs, NEW u \in Tasks  PROVE task'[x][u].attempt <= MaxRetries[u[1]]
    OBVIOUS
  <2>1. CASE x = r /\ u = t
    BY <1>1, <1>2, <2>1
  <2>2. CASE x # r \/ u # t
    BY <1>2, <2>2 DEF ChoreoTypeOK
  <2> QED  BY <2>1, <2>2
<1> QED  BY <1>2, <1>3

\* What becomes of a dispatch: its place, or the next attempt.
LEMMA TaskMovesTo ==
  ASSUME ChoreoTypeOK, NEW r \in Runs, NEW t \in Tasks,
         NEW p \in {"off", "try", "submitted", "poll", "good", "bad"},
         NEW d, d = [task[r][t] EXCEPT !.pc = p]
  PROVE  TaskIs(d, t) /\ d.pc = p /\ d.attempt = task[r][t].attempt
<1>1. task[r][t] \in Dispatch /\ task[r][t].attempt <= MaxRetries[t[1]]
  BY DEF ChoreoTypeOK
<1> QED  BY <1>1 DEF TaskIs, Dispatch

LEMMA AfterFailureIs ==
  ASSUME ChoreoTypeOK, NEW r \in Runs, NEW t \in Tasks, NEW d, d = AfterFailure(r, t)
  PROVE  TaskIs(d, t) /\ d.pc \in {"try", "bad"}
<1>1. /\ task[r][t] \in Dispatch /\ task[r][t].attempt <= MaxRetries[t[1]] /\ task[r][t].attempt \in Nat
      /\ MaxRetries[t[1]] \in Nat
  BY RetriesAreNat DEF ChoreoTypeOK, Dispatch
<1>2. CASE task[r][t].attempt < MaxRetries[t[1]]
  BY <1>1, <1>2 DEF AfterFailure, TaskIs, Dispatch
<1>3. CASE ~(task[r][t].attempt < MaxRetries[t[1]])
  BY <1>1, <1>3 DEF AfterFailure, TaskIs, Dispatch
<1> QED  BY <1>2, <1>3

\* The run object and its document.
LEMMA RunDocIs ==
  ASSUME NEW x \in RunDoc \cup {Absent}
  PROVE  /\ x # Absent <=> x \in RunDoc
         /\ x # Absent <=> x.status # "absent"
         /\ x = Absent => x.status = "absent"
  BY DEF RunDoc, Absent

LEMMA StatusSet ==
  ASSUME NEW x \in RunDoc, NEW s \in {"pending", "running", "completed", "failed", "cancelled"},
         NEW y, y = [x EXCEPT !.status = s]
  PROVE  y \in RunDoc /\ y.status = s /\ y # Absent
  BY DEF RunDoc, Absent

LEMMA NodesSet ==
  ASSUME NEW x \in RunDoc, NEW f \in [Nodes -> NodeStatus], NEW y, y = [x EXCEPT !.nodes = f]
  PROVE  y \in RunDoc /\ y.status = x.status /\ y # Absent
  BY DEF RunDoc, Absent

LEMMA NodeSet ==
  ASSUME NEW x \in RunDoc, NEW n \in Nodes, NEW v \in NodeStatus, NEW y, y = [x EXCEPT !.nodes[n] = v]
  PROVE  y \in RunDoc /\ y.status = x.status /\ y # Absent
  BY DEF RunDoc, Absent

-----------------------------------------------------------------------------
(* Dispatches *)

\* A job of a busy node's dispatch runs only while the dispatch waits for it.
LEMMA OnlyOwnJob ==
  ASSUME ChoreoInv, NEW r \in Runs, NEW t \in Tasks, node[r][t[1]] = "busy",
         NEW j \in Jobs, j[1] = r, j[2] = t, job[j] = "running", j \notin adrift
  PROVE  Flying(r, t) /\ j = JobOf(r, t)
<1>1. pc[r] = "collect"
  BY TaskNode DEF ChoreoInv, ThreadsNest
<1> QED  BY <1>1 DEF ChoreoInv, Tracked

LEMMA TaskMoves ==
  ASSUME ChoreoInv, NEW r \in Runs, NEW t \in Tasks, node[r][t[1]] = "busy",
         NEW d, TaskIs(d, t), TaskTo(r, t, d),
         UNCHANGED <<saved, doc, run, pc, done, skipped, anyFailed, stop, node, cancel, told, late>>,
         live' \in [Runs -> SUBSET Jobs], job' \in [Jobs -> {"none", "running", "done", "failed"}],
         adrift' \subseteq Jobs,
         \A j \in Jobs : job'[j] = "running" /\ j \notin adrift' =>
           \/ job[j] = "running" /\ j \notin adrift /\ (j[1] # r \/ j[2] # t)
           \/ d.pc \in {"submitted", "poll"} /\ j = JobOf(r, t) /\ d.attempt = task[r][t].attempt
  PROVE  ChoreoInv'
<1>0. ChoreoTypeOK /\ ThreadsNest /\ Tracked
  BY DEF ChoreoInv
<1>1. /\ task' \in [Runs -> [Tasks -> Dispatch]] /\ task'[r][t] = d
      /\ \A x \in Runs, u \in Tasks : task'[x][u].attempt <= MaxRetries[u[1]]
      /\ \A x \in Runs, u \in Tasks : x # r \/ u # t => task'[x][u] = task[x][u]
  BY <1>0, TaskSet
<1>2. ChoreoTypeOK'
  BY <1>0, <1>1 DEF ChoreoTypeOK
<1>3. ThreadsNest'
  BY <1>0, <1>1 DEF ThreadsNest
<1>4. Tracked'
  <2> SUFFICES ASSUME NEW j \in Jobs, job'[j] = "running", j \notin adrift'
               PROVE  pc[j[1]] = "dead" \/ (Flying(j[1], j[2])' /\ JobOf(j[1], j[2])' = j)
    BY DEF Tracked
  <2>1. CASE job[j] = "running" /\ j \notin adrift /\ (j[1] # r \/ j[2] # t)
    BY <1>0, <1>1, <2>1, JobParts DEF Tracked, Flying, JobOf
  <2>2. CASE d.pc \in {"submitted", "poll"} /\ j = JobOf(r, t) /\ d.attempt = task[r][t].attempt
    <3>1. j[1] = r /\ j[2] = t
      BY <2>2, JobParts
    <3> QED  BY <1>1, <2>2, <3>1 DEF Flying, JobOf
  <2> QED  BY <2>1, <2>2
<1>5. CancelInv' /\ ShownAtWork'
  BY DEF ChoreoInv, CancelInv, ShownAtWork
<1> QED  BY <1>2, <1>3, <1>4, <1>5 DEF ChoreoInv

LEMMA JobSet ==
  ASSUME ChoreoTypeOK, NEW j \in Jobs, NEW v \in {"none", "running", "done", "failed"},
         job' = [job EXCEPT ![j] = v]
  PROVE  /\ job' \in [Jobs -> {"none", "running", "done", "failed"}]
         /\ job'[j] = v /\ \A k \in Jobs : k # j => job'[k] = job[k]
  BY DEF ChoreoTypeOK

LEMMA TaskStartsStep ==
  ASSUME ChoreoInv, NEW r \in Runs, NEW t \in Tasks, TaskStarts(r, t)
  PROVE  ChoreoInv'
<1> DEFINE d == [pc |-> "try", attempt |-> 0]
<1>0. ChoreoTypeOK /\ node[r][t[1]] = "busy" /\ task[r][t].pc = "off"
  BY DEF ChoreoInv, TaskStarts
<1>1. TaskIs(d, t) /\ TaskTo(r, t, d)
  BY RetriesAreNat DEF TaskIs, Dispatch, TaskStarts, TaskTo
<1>2. UNCHANGED <<saved, doc, run, pc, done, skipped, anyFailed, stop, live, node, job, cancel, adrift, told, late>>
  BY DEF TaskStarts
<1>3. \A j \in Jobs : job[j] = "running" /\ j \notin adrift => j[1] # r \/ j[2] # t
  BY <1>0, OnlyOwnJob DEF Flying
<1>4. /\ live' \in [Runs -> SUBSET Jobs] /\ job' \in [Jobs -> {"none", "running", "done", "failed"}]
      /\ adrift' \subseteq Jobs
  BY <1>0, <1>2 DEF ChoreoTypeOK
<1> HIDE DEF d
<1> QED  BY <1>0, <1>1, <1>2, <1>3, <1>4, TaskMoves

LEMMA SubmitStep ==
  ASSUME ChoreoInv, NEW r \in Runs, NEW t \in Tasks, Submit(r, t)
  PROVE  ChoreoInv'
<1> DEFINE bad == [task[r][t] EXCEPT !.pc = "bad"]
           sent == [task[r][t] EXCEPT !.pc = "submitted"]
           next == AfterFailure(r, t)
<1>0. ChoreoTypeOK /\ node[r][t[1]] = "busy" /\ task[r][t].pc = "try" /\ JobOf(r, t) \in Jobs
  BY JobOfIs DEF ChoreoInv, ThreadsNest, Submit
<1>1. UNCHANGED <<saved, doc, run, pc, done, skipped, anyFailed, stop, live, node, cancel, told, late>>
  BY DEF Submit
<1>2. \A j \in Jobs : job[j] = "running" /\ j \notin adrift => j[1] # r \/ j[2] # t
  BY <1>0, OnlyOwnJob DEF Flying
<1>3. /\ TaskIs(bad, t) /\ TaskIs(next, t)
      /\ TaskIs(sent, t) /\ sent.pc = "submitted" /\ sent.attempt = task[r][t].attempt
  BY <1>0, TaskMovesTo, AfterFailureIs
<1>4. \/ TaskTo(r, t, bad) /\ UNCHANGED <<job, adrift>>
      \/ TaskTo(r, t, sent) /\ UNCHANGED adrift /\ job' = [job EXCEPT ![JobOf(r, t)] = "running"]
      \/ TaskTo(r, t, next) /\ UNCHANGED <<job, adrift>>
      \/ /\ TaskTo(r, t, next) /\ job' = [job EXCEPT ![JobOf(r, t)] = "running"]
         /\ adrift' = adrift \cup {JobOf(r, t)}
  BY <1>0 DEF Submit, ChoreoTypeOK, TaskTo
<1>5. live' \in [Runs -> SUBSET Jobs] /\ adrift \subseteq Jobs
  BY <1>0, <1>1 DEF ChoreoTypeOK
<1> HIDE DEF bad, sent, next
<1>6. CASE UNCHANGED <<job, adrift>>
  <2>1. job' \in [Jobs -> {"none", "running", "done", "failed"}] /\ adrift' \subseteq Jobs
    BY <1>0, <1>6 DEF ChoreoTypeOK
  <2>2. \A j \in Jobs : job'[j] = "running" /\ j \notin adrift' =>
          job[j] = "running" /\ j \notin adrift /\ (j[1] # r \/ j[2] # t)
    BY <1>2, <1>6
  <2>3. TaskTo(r, t, bad) \/ TaskTo(r, t, next)
        \/ TaskTo(r, t, sent)
    BY <1>4
  <2> QED  BY <1>0, <1>1, <1>3, <1>5, <2>1, <2>2, <2>3, TaskMoves
<1>7. CASE /\ TaskTo(r, t, sent) /\ UNCHANGED adrift
           /\ job' = [job EXCEPT ![JobOf(r, t)] = "running"]
  <2>1. /\ job' \in [Jobs -> {"none", "running", "done", "failed"}]
        /\ \A k \in Jobs : k # JobOf(r, t) => job'[k] = job[k]
    BY <1>0, <1>7, JobSet
  <2>2. \A j \in Jobs : job'[j] = "running" /\ j \notin adrift' =>
          \/ job[j] = "running" /\ j \notin adrift /\ (j[1] # r \/ j[2] # t)
          \/ j = JobOf(r, t)
    BY <1>2, <1>7, <2>1
  <2> QED  BY <1>0, <1>1, <1>3, <1>5, <1>7, <2>1, <2>2, TaskMoves
<1>8. CASE /\ TaskTo(r, t, next) /\ job' = [job EXCEPT ![JobOf(r, t)] = "running"]
           /\ adrift' = adrift \cup {JobOf(r, t)}
  <2>1. /\ job' \in [Jobs -> {"none", "running", "done", "failed"}]
        /\ \A k \in Jobs : k # JobOf(r, t) => job'[k] = job[k]
    BY <1>0, <1>8, JobSet
  <2>2. adrift' \subseteq Jobs /\ \A j \in Jobs : job'[j] = "running" /\ j \notin adrift' =>
          job[j] = "running" /\ j \notin adrift /\ (j[1] # r \/ j[2] # t)
    BY <1>0, <1>2, <1>5, <1>8, <2>1
  <2> QED  BY <1>0, <1>1, <1>3, <1>5, <1>8, <2>1, <2>2, TaskMoves
<1> QED  BY <1>4, <1>6, <1>7, <1>8

LEMMA EnterStep ==
  ASSUME ChoreoInv, NEW r \in Runs, NEW t \in Tasks, Enter(r, t)
  PROVE  ChoreoInv'
<1> DEFINE d == [task[r][t] EXCEPT !.pc = "poll"]
<1>0. ChoreoTypeOK /\ node[r][t[1]] = "busy" /\ task[r][t].pc = "submitted" /\ JobOf(r, t) \in Jobs
  BY JobOfIs DEF ChoreoInv, ThreadsNest, Enter
<1>1. TaskIs(d, t) /\ d.pc = "poll" /\ d.attempt = task[r][t].attempt
  BY <1>0, TaskMovesTo
<1>2. TaskTo(r, t, d)
  BY <1>0 DEF Enter, ChoreoTypeOK, TaskTo
<1>3. UNCHANGED <<saved, doc, run, pc, done, skipped, anyFailed, stop, node, job, cancel, adrift, told, late>>
  BY DEF Enter
<1>4. live' \in [Runs -> SUBSET Jobs]
  BY <1>0 DEF Enter, ChoreoTypeOK
<1>5. job' \in [Jobs -> {"none", "running", "done", "failed"}] /\ adrift' \subseteq Jobs
  BY <1>0, <1>3 DEF ChoreoTypeOK
<1>6. \A j \in Jobs : job'[j] = "running" /\ j \notin adrift' =>
        \/ job[j] = "running" /\ j \notin adrift /\ (j[1] # r \/ j[2] # t)
        \/ j = JobOf(r, t)
  BY <1>0, <1>3, OnlyOwnJob
<1> HIDE DEF d
<1> QED  BY <1>0, <1>1, <1>2, <1>3, <1>4, <1>5, <1>6, TaskMoves

LEMMA CancelledIs ==
  ASSUME ChoreoTypeOK, NEW S, job' = Cancelled(S)
  PROVE  /\ job' \in [Jobs -> {"none", "running", "done", "failed"}]
         /\ \A j \in Jobs : job'[j] = "running" => job[j] = "running" /\ j \notin S
  BY DEF ChoreoTypeOK, Cancelled

LEMMA PollStep ==
  ASSUME ChoreoInv, NEW r \in Runs, NEW t \in Tasks, Poll(r, t)
  PROVE  ChoreoInv'
<1> DEFINE good == [task[r][t] EXCEPT !.pc = "good"]
           next == AfterFailure(r, t)
<1>0. ChoreoTypeOK /\ node[r][t[1]] = "busy" /\ task[r][t].pc = "poll" /\ JobOf(r, t) \in Jobs
  BY JobOfIs DEF ChoreoInv, ThreadsNest, Poll
<1>1. UNCHANGED <<saved, doc, run, pc, done, skipped, anyFailed, stop, node, cancel, told, late>>
  BY DEF Poll
<1>2. \A j \in Jobs : job[j] = "running" /\ j \notin adrift => j[1] # r \/ j[2] # t \/ j = JobOf(r, t)
  BY <1>0, OnlyOwnJob
<1>3. TaskIs(good, t) /\ TaskIs(next, t)
  BY <1>0, TaskMovesTo, AfterFailureIs
<1>4. /\ TaskTo(r, t, good) \/ TaskTo(r, t, next)
      /\ \/ job[JobOf(r, t)] # "running" /\ UNCHANGED <<job, adrift>>
         \/ job' = Cancelled({JobOf(r, t)}) /\ UNCHANGED adrift
         \/ adrift' = adrift \cup {JobOf(r, t)} /\ UNCHANGED job
  BY <1>0 DEF Poll, ChoreoTypeOK, TaskTo
<1>5. live' \in [Runs -> SUBSET Jobs]
  BY <1>0 DEF Poll, ChoreoTypeOK
<1> HIDE DEF good, next
<1>6. /\ job' \in [Jobs -> {"none", "running", "done", "failed"}] /\ adrift' \subseteq Jobs
      /\ \A j \in Jobs : job'[j] = "running" /\ j \notin adrift' =>
           job[j] = "running" /\ j \notin adrift /\ j # JobOf(r, t)
  <2>1. CASE job[JobOf(r, t)] # "running" /\ UNCHANGED <<job, adrift>>
    BY <1>0, <2>1 DEF ChoreoTypeOK
  <2>2. CASE job' = Cancelled({JobOf(r, t)}) /\ UNCHANGED adrift
    <3>1. adrift' \subseteq Jobs
      BY <1>0, <2>2 DEF ChoreoTypeOK
    <3> QED  BY <1>0, <2>2, <3>1, CancelledIs
  <2>3. CASE adrift' = adrift \cup {JobOf(r, t)} /\ UNCHANGED job
    BY <1>0, <2>3 DEF ChoreoTypeOK
  <2> QED  BY <1>4, <2>1, <2>2, <2>3
<1>7. \A j \in Jobs : job'[j] = "running" /\ j \notin adrift' =>
        job[j] = "running" /\ j \notin adrift /\ (j[1] # r \/ j[2] # t)
  BY <1>2, <1>6
<1> QED  BY <1>0, <1>1, <1>3, <1>4, <1>5, <1>6, <1>7, TaskMoves

-----------------------------------------------------------------------------
(* The orchestrator *)

\* What a run's orchestrator and node threads do between its beginning and its end.
Orchestrates(r) ==
  /\ UNCHANGED <<saved, stop, live, task, job, cancel, adrift, told, late>>
  /\ done' \in [Runs -> SUBSET Nodes] /\ skipped' \in [Runs -> SUBSET Nodes] /\ anyFailed' \in [Runs -> BOOLEAN]
  /\ pc' \in [Runs -> AtWork \cup {"off", "checked", "done", "dead"}] /\ pc[r] \in AtWork /\ pc'[r] \in AtWork
  /\ run' \in [Runs -> RunDoc \cup {Absent}] /\ run'[r] \in RunDoc
  /\ doc' \in [Runs -> RunDoc \cup {Absent}] /\ doc'[r] \in {doc[r], run'[r]}
  /\ node' \in [Runs -> [Nodes -> {"off", "new", "busy", "good", "bad"}]]
  /\ \A x \in Runs : x # r =>
       run'[x] = run[x] /\ doc'[x] = doc[x] /\ pc'[x] = pc[x] /\ node'[x] = node[x]
  /\ \A n \in Nodes : node'[r][n] # "off" => pc'[r] = "collect"
  /\ \A t \in Tasks : task[r][t].pc \in {"try", "submitted", "poll"} => node'[r][t[1]] = "busy"
  /\ pc'[r] # "save" => run'[r].status \in Active
  /\ pc'[r] = "save" => doc'[r] = doc[r] /\ (stop[r] = "set" => run'[r].status = "cancelled")

LEMMA OrchestratesKeeps ==
  ASSUME ChoreoInv, NEW r \in Runs, Orchestrates(r)
  PROVE  ChoreoInv'
<1>0. ChoreoTypeOK /\ ThreadsNest /\ Tracked /\ CancelInv /\ ShownAtWork
  BY DEF ChoreoInv
<1>1. ChoreoTypeOK'
  BY <1>0 DEF ChoreoTypeOK, Orchestrates, AtWork
<1>2. ThreadsNest'
  <2> SUFFICES ASSUME NEW x \in Runs
               PROVE  /\ pc'[x] \in AtWork => run'[x] # Absent
                      /\ \A n \in Nodes : node'[x][n] # "off" => pc'[x] = "collect"
                      /\ \A t \in Tasks : task'[x][t].pc \in {"try", "submitted", "poll"} => node'[x][t[1]] = "busy"
                      /\ stop'[x] # "none" => pc'[x] \in AtWork
    BY DEF ThreadsNest
  <2>1. CASE x = r
    <3>1. run'[r] # Absent
      BY <2>1, RunDocIs DEF Orchestrates
    <3> QED  BY <2>1, <3>1 DEF Orchestrates
  <2>2. CASE x # r
    <3>1. /\ run'[x] = run[x] /\ pc'[x] = pc[x] /\ node'[x] = node[x]
          /\ UNCHANGED <<task, stop>>
      BY <2>2 DEF Orchestrates
    <3> QED  BY <1>0, <3>1 DEF ThreadsNest
  <2> QED  BY <2>1, <2>2
<1>3. Tracked'
  <2> SUFFICES ASSUME NEW j \in Jobs, job[j] = "running", j \notin adrift
               PROVE  pc'[j[1]] = "dead" \/ (Flying(j[1], j[2])' /\ JobOf(j[1], j[2])' = j)
    BY DEF Tracked, Orchestrates
  <2>1. pc[j[1]] = "dead" \/ (Flying(j[1], j[2]) /\ JobOf(j[1], j[2]) = j)
    BY <1>0 DEF Tracked
  <2>2. pc[j[1]] = "dead" => pc'[j[1]] = "dead"
    BY JobParts DEF Orchestrates, AtWork
  <2> QED  BY <2>1, <2>2 DEF Orchestrates, Flying, JobOf
<1>4. CancelInv'
  <2> SUFFICES ASSUME NEW x \in told
               PROVE  /\ pc'[x] \in {"done", "dead"} \/ (pc'[x] \in AtWork /\ stop[x] = "set")
                      /\ pc'[x] = "save" => run'[x].status = "cancelled"
                      /\ pc'[x] = "done" => doc'[x].status \in {"cancelled", "absent"}
    BY DEF CancelInv, Orchestrates
  <2>0. x \in Runs
    BY <1>0 DEF ChoreoTypeOK
  <2>1. CASE x = r
    <3>1. stop[r] = "set"
      BY <1>0, <2>1 DEF CancelInv, Orchestrates, AtWork
    <3> QED  BY <2>1, <3>1 DEF Orchestrates, AtWork
  <2>2. CASE x # r
    BY <1>0, <2>0, <2>2 DEF Orchestrates, CancelInv
  <2> QED  BY <2>1, <2>2
<1>5. ShownAtWork'
  <2> SUFFICES ASSUME NEW x \in Runs, pc'[x] \in AtWork
               PROVE  /\ pc'[x] # "save" => run'[x].status \in Active
                      /\ x \in late \/ cancel[x].pc = "done" \/ (saved = "there" /\ doc'[x].status \in Active)
    BY DEF ShownAtWork, Orchestrates
  <2>1. CASE x = r
    BY <1>0, <2>1 DEF Orchestrates, ShownAtWork
  <2>2. CASE x # r
    BY <1>0, <2>2 DEF Orchestrates, ShownAtWork
  <2> QED  BY <2>1, <2>2
<1> QED  BY <1>1, <1>2, <1>3, <1>4, <1>5 DEF ChoreoInv

\* A run at work has its object and, unless it is about to be saved, is active.
LEMMA RunAtWork ==
  ASSUME ChoreoInv, NEW r \in Runs, pc[r] \in AtWork
  PROVE  run[r] \in RunDoc /\ (pc[r] # "save" => run[r].status \in Active)
<1>1. run[r] \in RunDoc \cup {Absent} /\ run[r] # Absent
  BY DEF ChoreoInv, ChoreoTypeOK, ThreadsNest
<1>2. run[r] \in RunDoc
  BY <1>1, RunDocIs
<1> QED  BY <1>2 DEF ChoreoInv, ShownAtWork

\* A run's place is set.
LEMMA PlaceSet ==
  ASSUME ChoreoTypeOK, NEW r \in Runs,
         NEW p \in AtWork \cup {"off", "checked", "done", "dead"}, pc' = [pc EXCEPT ![r] = p]
  PROVE  /\ pc' \in [Runs -> AtWork \cup {"off", "checked", "done", "dead"}] /\ pc'[r] = p
         /\ \A x \in Runs : x # r => pc'[x] = pc[x]
  BY DEF ChoreoTypeOK, AtWork

\* The run object is set, and perhaps its document.
LEMMA RunSet ==
  ASSUME ChoreoTypeOK, NEW r \in Runs, NEW x \in RunDoc, run' = [run EXCEPT ![r] = x],
         doc' = doc \/ doc' = [doc EXCEPT ![r] = run'[r]]
  PROVE  /\ run' \in [Runs -> RunDoc \cup {Absent}] /\ run'[r] = x
         /\ doc' \in [Runs -> RunDoc \cup {Absent}] /\ doc'[r] \in {doc[r], run'[r]}
         /\ \A y \in Runs : y # r => run'[y] = run[y] /\ doc'[y] = doc[y]
<1>1. run \in [Runs -> RunDoc \cup {Absent}] /\ doc \in [Runs -> RunDoc \cup {Absent}]
  BY DEF ChoreoTypeOK
<1>2. run' \in [Runs -> RunDoc \cup {Absent}] /\ run'[r] = x /\ \A y \in Runs : y # r => run'[y] = run[y]
  BY <1>1
<1> QED  BY <1>1, <1>2

LEMMA BeginStep ==
  ASSUME ChoreoInv, NEW r \in Runs, Begin(r)
  PROVE  ChoreoInv'
<1> DEFINE x == [run[r] EXCEPT !.status = "running"]
           p == IF Cyclic THEN "decide" ELSE "wave"
<1>0. ChoreoTypeOK /\ pc[r] = "begin" /\ pc[r] \in AtWork /\ p \in AtWork \ {"save"}
  BY DEF ChoreoInv, Begin, AtWork
<1>1. run[r] \in RunDoc
  BY <1>0, RunAtWork
<1>2. x \in RunDoc /\ x.status = "running"
  BY <1>1, StatusSet
<1>3. run' = [run EXCEPT ![r] = x] /\ pc' = [pc EXCEPT ![r] = p] /\ doc' = [doc EXCEPT ![r] = run'[r]]
  BY <1>0 DEF Begin, ChoreoTypeOK
<1>4. done' \in [Runs -> SUBSET Nodes] /\ skipped' \in [Runs -> SUBSET Nodes] /\ anyFailed' \in [Runs -> BOOLEAN]
  BY <1>0 DEF Begin, ChoreoTypeOK, Cyclic
<1>5. UNCHANGED <<saved, stop, live, task, job, cancel, adrift, told, late, node>>
  BY DEF Begin
<1>6. /\ node' \in [Runs -> [Nodes -> {"off", "new", "busy", "good", "bad"}]]
      /\ \A n \in Nodes : node'[r][n] = "off"
      /\ \A t \in Tasks : task[r][t].pc \in {"try", "submitted", "poll"} => node'[r][t[1]] = "busy"
  BY <1>0, <1>5 DEF ChoreoInv, ChoreoTypeOK, ThreadsNest
<1> HIDE DEF x, p
<1>7. /\ run' \in [Runs -> RunDoc \cup {Absent}] /\ run'[r] = x
      /\ doc' \in [Runs -> RunDoc \cup {Absent}] /\ doc'[r] \in {doc[r], run'[r]}
      /\ \A y \in Runs : y # r => run'[y] = run[y] /\ doc'[y] = doc[y]
  BY <1>0, <1>2, <1>3, RunSet
<1>8. /\ pc' \in [Runs -> AtWork \cup {"off", "checked", "done", "dead"}] /\ pc'[r] = p
      /\ \A y \in Runs : y # r => pc'[y] = pc[y]
  BY <1>0, <1>3, PlaceSet
<1>9. Orchestrates(r)
  BY <1>0, <1>2, <1>4, <1>5, <1>6, <1>7, <1>8 DEF Orchestrates, Active
<1> QED  BY <1>9, OrchestratesKeeps

LEMMA WaveNodes ==
  \A S : Wave(S) \in SUBSET Nodes
  BY DEF Wave

LEMMA EnterWaveStep ==
  ASSUME ChoreoInv, NEW r \in Runs, EnterWave(r)
  PROVE  ChoreoInv'
<1> DEFINE runnable == Wave(done[r]) \ skipped[r]
           over == stop[r] = "set" \/ Wave(done[r]) = {}
           p == IF over THEN "decide" ELSE IF runnable = {} THEN "wave" ELSE "collect"
           threads == [n \in Nodes |-> IF n \in runnable THEN "new" ELSE node[r][n]]
<1>0. ChoreoTypeOK /\ pc[r] = "wave" /\ pc[r] \in AtWork
  BY DEF ChoreoInv, EnterWave, AtWork
<1>1. run[r] \in RunDoc /\ run[r].status \in Active
  BY <1>0, RunAtWork
<1>2. /\ pc' = [pc EXCEPT ![r] = p]
      /\ done' = [done EXCEPT ![r] = IF ~over /\ runnable = {} THEN @ \cup Wave(@) ELSE @]
      /\ node' = IF over THEN node ELSE [node EXCEPT ![r] = threads]
      /\ UNCHANGED <<saved, doc, run, skipped, anyFailed, stop, live, task, job, cancel, adrift, told, late>>
  BY DEF EnterWave
<1>3. p \in AtWork /\ p # "save" /\ (p # "collect" => over \/ runnable = {})
  BY DEF AtWork
<1>4. \A n \in Nodes : node[r][n] = "off"
  BY <1>0 DEF ChoreoInv, ThreadsNest
<1>5. \A t \in Tasks : task[r][t].pc \notin {"try", "submitted", "poll"}
  BY <1>4, TaskNode DEF ChoreoInv, ThreadsNest
<1> HIDE DEF p
<1>6. /\ node' \in [Runs -> [Nodes -> {"off", "new", "busy", "good", "bad"}]]
      /\ \A y \in Runs : y # r => node'[y] = node[y]
      /\ \A n \in Nodes : node'[r][n] # "off" => p = "collect"
  <2>1. node \in [Runs -> [Nodes -> {"off", "new", "busy", "good", "bad"}]]
    BY <1>0 DEF ChoreoTypeOK
  <2>2. threads \in [Nodes -> {"off", "new", "busy", "good", "bad"}]
    BY <2>1
  <2>3. runnable = {} => \A n \in Nodes : threads[n] = "off"
    BY <1>4
  <2> HIDE DEF threads, runnable, over
  <2>4. CASE over
    BY <1>2, <1>4, <2>1, <2>4
  <2>5. CASE ~over
    BY <1>2, <1>3, <2>1, <2>2, <2>3, <2>5
  <2> QED  BY <2>4, <2>5
<1>7. done' \in [Runs -> SUBSET Nodes] /\ skipped' \in [Runs -> SUBSET Nodes] /\ anyFailed' \in [Runs -> BOOLEAN]
  <2> HIDE DEF over, runnable
  <2> QED  BY <1>0, <1>2, WaveNodes DEF ChoreoTypeOK
<1> HIDE DEF over, runnable, threads
<1>8. /\ pc' \in [Runs -> AtWork \cup {"off", "checked", "done", "dead"}] /\ pc'[r] = p
      /\ \A y \in Runs : y # r => pc'[y] = pc[y]
  BY <1>0, <1>2, <1>3, PlaceSet
<1>9. run' \in [Runs -> RunDoc \cup {Absent}] /\ doc' \in [Runs -> RunDoc \cup {Absent}]
  BY <1>0, <1>2 DEF ChoreoTypeOK
<1>10. Orchestrates(r)
  BY <1>0, <1>1, <1>2, <1>3, <1>5, <1>6, <1>7, <1>8, <1>9 DEF Orchestrates
<1> QED  BY <1>10, OrchestratesKeeps

\* A node's thread is set.
ThreadTo(r, n, v) == node' = [node EXCEPT ![r][n] = v]

LEMMA ThreadSet ==
  ASSUME ChoreoTypeOK, NEW r \in Runs, NEW n \in Nodes, NEW v \in {"off", "new", "busy", "good", "bad"},
         ThreadTo(r, n, v)
  PROVE  /\ node' \in [Runs -> [Nodes -> {"off", "new", "busy", "good", "bad"}]] /\ node'[r][n] = v
         /\ \A y \in Runs : y # r => node'[y] = node[y]
         /\ \A m \in Nodes : m # n => node'[r][m] = node[r][m]
  BY DEF ChoreoTypeOK, ThreadTo

LEMMA CollectStep ==
  ASSUME ChoreoInv, NEW r \in Runs, NEW n \in Nodes, Collect(r, n)
  PROVE  ChoreoInv'
<1> DEFINE gone == IF node[r][n] = "bad" THEN Downstream[n] \ skipped[r] ELSE {}
           left == {m \in Nodes : m # n /\ node[r][m] \in {"new", "busy", "good", "bad"}}
           nodes == [m \in Nodes |-> IF m \in gone /\ run[r].nodes[m] = "pending" THEN "cancelled"
                                     ELSE run[r].nodes[m]]
           x == [run[r] EXCEPT !.nodes = nodes]
           p == IF left = {} THEN "wave" ELSE "collect"
<1>0. ChoreoTypeOK /\ pc[r] = "collect" /\ pc[r] \in AtWork /\ node[r][n] \in {"good", "bad"}
  BY DEF ChoreoInv, Collect, AtWork
<1>1. run[r] \in RunDoc /\ run[r].status \in Active
  BY <1>0, RunAtWork
<1>2. x \in RunDoc /\ x.status \in Active
  <2>1. nodes \in [Nodes -> NodeStatus]
    <3> HIDE DEF gone
    <3>1. run[r].nodes \in [Nodes -> NodeStatus]
      BY <1>1 DEF RunDoc
    <3> QED  BY <3>1 DEF NodeStatus
  <2> HIDE DEF nodes
  <2> QED  BY <1>1, <2>1, NodesSet
<1>3. run' = [run EXCEPT ![r] = x] /\ (doc' = doc \/ doc' = [doc EXCEPT ![r] = run'[r]])
  <2>1. run' = [run EXCEPT ![r].nodes = nodes] /\ doc' = IF gone = {} THEN doc ELSE [doc EXCEPT ![r] = run'[r]]
    BY DEF Collect
  <2> HIDE DEF nodes, gone
  <2> QED  BY <1>0, <2>1 DEF ChoreoTypeOK
<1>4. /\ skipped' = [skipped EXCEPT ![r] = @ \cup gone]
      /\ anyFailed' = [anyFailed EXCEPT ![r] = @ \/ node[r][n] = "bad"]
      /\ done' = [done EXCEPT ![r] = IF left = {} THEN @ \cup Wave(@) ELSE @]
      /\ ThreadTo(r, n, "off") /\ pc' = [pc EXCEPT ![r] = p]
      /\ UNCHANGED <<saved, stop, live, task, job, cancel, adrift, told, late>>
  BY DEF Collect, ThreadTo
<1>5. done' \in [Runs -> SUBSET Nodes] /\ anyFailed' \in [Runs -> BOOLEAN]
  <2> HIDE DEF left
  <2> QED  BY <1>0, <1>4, WaveNodes DEF ChoreoTypeOK
<1>6. skipped' \in [Runs -> SUBSET Nodes]
  <2>1. Downstream[n] \subseteq Nodes
    BY DEF Downstream
  <2>2. gone \subseteq Nodes
    BY <2>1
  <2> HIDE DEF gone
  <2> QED  BY <1>0, <1>4, <2>2 DEF ChoreoTypeOK
<1>7. /\ node' \in [Runs -> [Nodes -> {"off", "new", "busy", "good", "bad"}]] /\ node'[r][n] = "off"
      /\ \A y \in Runs : y # r => node'[y] = node[y]
      /\ \A m \in Nodes : m # n => node'[r][m] = node[r][m]
  BY <1>0, <1>4, ThreadSet
<1>8. \A m \in Nodes : node'[r][m] # "off" => p = "collect"
  <2> SUFFICES ASSUME NEW m \in Nodes, node'[r][m] # "off"  PROVE m \in left
    OBVIOUS
  <2>1. m # n /\ node[r][m] # "off" /\ node[r][m] \in {"off", "new", "busy", "good", "bad"}
    BY <1>0, <1>7 DEF ChoreoTypeOK
  <2> QED  BY <2>1
<1>9. \A t \in Tasks : task[r][t].pc \in {"try", "submitted", "poll"} => node'[r][t[1]] = "busy"
  BY <1>0, <1>7, TaskNode DEF ChoreoInv, ThreadsNest
<1>10. p \in AtWork /\ p # "save"
  BY DEF AtWork
<1> HIDE DEF gone, left, nodes, x, p
<1>11. /\ run' \in [Runs -> RunDoc \cup {Absent}] /\ run'[r] = x
       /\ doc' \in [Runs -> RunDoc \cup {Absent}] /\ doc'[r] \in {doc[r], run'[r]}
       /\ \A y \in Runs : y # r => run'[y] = run[y] /\ doc'[y] = doc[y]
  BY <1>0, <1>2, <1>3, RunSet
<1>12. /\ pc' \in [Runs -> AtWork \cup {"off", "checked", "done", "dead"}] /\ pc'[r] = p
       /\ \A y \in Runs : y # r => pc'[y] = pc[y]
  BY <1>0, <1>4, <1>10, PlaceSet
<1>13. Orchestrates(r)
  BY <1>0, <1>2, <1>4, <1>5, <1>6, <1>7, <1>8, <1>9, <1>10, <1>11, <1>12 DEF Orchestrates
<1> QED  BY <1>13, OrchestratesKeeps

LEMMA DecideStep ==
  ASSUME ChoreoInv, NEW r \in Runs, Decide(r)
  PROVE  ChoreoInv'
<1> DEFINE s == IF stop[r] = "set" THEN "cancelled" ELSE IF anyFailed[r] THEN "failed" ELSE "completed"
           x == [run[r] EXCEPT !.status = s]
<1>0. /\ ChoreoTypeOK /\ pc[r] = "decide" /\ pc[r] \in AtWork /\ "save" \in AtWork
      /\ s \in {"cancelled", "failed", "completed"} /\ (stop[r] = "set" => s = "cancelled")
  BY DEF ChoreoInv, Decide, AtWork
<1>1. run[r] \in RunDoc
  BY <1>0, RunAtWork
<1>3. run' = [run EXCEPT ![r] = x] /\ pc' = [pc EXCEPT ![r] = "save"] /\ doc' = doc
  <2>1. run' = [run EXCEPT ![r].status = s] /\ pc' = [pc EXCEPT ![r] = "save"] /\ doc' = doc
    BY DEF Decide
  <2> HIDE DEF s
  <2> QED  BY <1>0, <2>1 DEF ChoreoTypeOK
<1> HIDE DEF s
<1>2. x \in RunDoc /\ x.status = s
  BY <1>0, <1>1, StatusSet
<1>4. UNCHANGED <<saved, doc, done, skipped, anyFailed, stop, live, node, task, job, cancel, adrift, told, late>>
  BY DEF Decide
<1>5. /\ done' \in [Runs -> SUBSET Nodes] /\ skipped' \in [Runs -> SUBSET Nodes] /\ anyFailed' \in [Runs -> BOOLEAN]
      /\ node' \in [Runs -> [Nodes -> {"off", "new", "busy", "good", "bad"}]]
  BY <1>0, <1>4 DEF ChoreoTypeOK
<1>6. /\ \A n \in Nodes : node'[r][n] = "off"
      /\ \A t \in Tasks : task[r][t].pc \in {"try", "submitted", "poll"} => node'[r][t[1]] = "busy"
  BY <1>0, <1>4 DEF ChoreoInv, ThreadsNest
<1> HIDE DEF x
<1>7. /\ run' \in [Runs -> RunDoc \cup {Absent}] /\ run'[r] = x
      /\ doc' \in [Runs -> RunDoc \cup {Absent}] /\ doc'[r] \in {doc[r], run'[r]}
      /\ \A y \in Runs : y # r => run'[y] = run[y] /\ doc'[y] = doc[y]
  BY <1>0, <1>2, <1>3, RunSet
<1>8. /\ pc' \in [Runs -> AtWork \cup {"off", "checked", "done", "dead"}] /\ pc'[r] = "save"
      /\ \A y \in Runs : y # r => pc'[y] = pc[y]
  BY <1>0, <1>3, PlaceSet
<1>9. Orchestrates(r)
  BY <1>0, <1>2, <1>4, <1>5, <1>6, <1>7, <1>8 DEF Orchestrates
<1> QED  BY <1>9, OrchestratesKeeps

\* A node's entry and thread are set together: NodeStarts and NodeEnds.
LEMMA NodeMoves ==
  ASSUME ChoreoInv, NEW r \in Runs, NEW n \in Nodes, node[r][n] # "off",
         NEW v \in NodeStatus, NEW h \in {"busy", "good", "bad"},
         run' = [run EXCEPT ![r].nodes[n] = v], doc' = [doc EXCEPT ![r] = run'[r]],
         ThreadTo(r, n, h),
         h # "busy" => \A t \in TasksOf(n) : task[r][t].pc \notin {"try", "submitted", "poll"},
         UNCHANGED <<saved, pc, done, skipped, anyFailed, stop, live, task, job, cancel, adrift, told, late>>
  PROVE  ChoreoInv'
<1> DEFINE x == [run[r] EXCEPT !.nodes[n] = v]
<1>0. ChoreoTypeOK /\ pc[r] = "collect" /\ pc[r] \in AtWork
  BY DEF ChoreoInv, ThreadsNest, AtWork
<1>1. run[r] \in RunDoc /\ run[r].status \in Active
  BY <1>0, RunAtWork
<1>2. x \in RunDoc /\ x.status \in Active
  BY <1>1, NodeSet
<1>3. run' = [run EXCEPT ![r] = x]
  BY <1>0 DEF ChoreoTypeOK
<1>4. /\ done' \in [Runs -> SUBSET Nodes] /\ skipped' \in [Runs -> SUBSET Nodes] /\ anyFailed' \in [Runs -> BOOLEAN]
      /\ pc' \in [Runs -> AtWork \cup {"off", "checked", "done", "dead"}]
  BY <1>0 DEF ChoreoTypeOK, AtWork
<1>5. /\ node' \in [Runs -> [Nodes -> {"off", "new", "busy", "good", "bad"}]] /\ node'[r][n] = h
      /\ \A y \in Runs : y # r => node'[y] = node[y]
      /\ \A m \in Nodes : m # n => node'[r][m] = node[r][m]
  <2>1. h \in {"off", "new", "busy", "good", "bad"}
    OBVIOUS
  <2> QED  BY <1>0, <2>1, ThreadSet
<1>6. \A t \in Tasks : task[r][t].pc \in {"try", "submitted", "poll"} => node'[r][t[1]] = "busy"
  <2> SUFFICES ASSUME NEW t \in Tasks, task[r][t].pc \in {"try", "submitted", "poll"}
               PROVE  node'[r][t[1]] = "busy"
    OBVIOUS
  <2>1. CASE t[1] = n
    BY <1>5, <2>1 DEF TasksOf
  <2>2. CASE t[1] # n
    BY <1>5, <2>2, TaskNode DEF ChoreoInv, ThreadsNest
  <2> QED  BY <2>1, <2>2
<1> HIDE DEF x
<1>7. /\ run' \in [Runs -> RunDoc \cup {Absent}] /\ run'[r] = x
      /\ doc' \in [Runs -> RunDoc \cup {Absent}] /\ doc'[r] \in {doc[r], run'[r]}
      /\ \A y \in Runs : y # r => run'[y] = run[y] /\ doc'[y] = doc[y]
  BY <1>0, <1>2, <1>3, RunSet
<1>8. Orchestrates(r)
  BY <1>0, <1>2, <1>4, <1>5, <1>6, <1>7 DEF Orchestrates
<1> QED  BY <1>8, OrchestratesKeeps

LEMMA NodeStartsStep ==
  ASSUME ChoreoInv, NEW r \in Runs, NEW n \in Nodes, NodeStarts(r, n)
  PROVE  ChoreoInv'
<1>0. node[r][n] = "new"
  BY DEF NodeStarts
<1>1. \A t \in TasksOf(n) : task[r][t].pc \notin {"try", "submitted", "poll"}
  BY <1>0 DEF ChoreoInv, ThreadsNest, TasksOf
<1>2. PICK v \in NodeStatus, h \in {"busy", "good", "bad"} :
        run' = [run EXCEPT ![r].nodes[n] = v] /\ ThreadTo(r, n, h)
  BY DEF NodeStarts, NodeStatus, ThreadTo
<1>3. doc' = [doc EXCEPT ![r] = run'[r]] /\
      UNCHANGED <<saved, pc, done, skipped, anyFailed, stop, live, task, job, cancel, adrift, told, late>>
  BY DEF NodeStarts
<1> QED  BY <1>0, <1>1, <1>2, <1>3, NodeMoves

LEMMA NodeEndsStep ==
  ASSUME ChoreoInv, NEW r \in Runs, NEW n \in Nodes, NodeEnds(r, n)
  PROVE  ChoreoInv'
<1>0. node[r][n] = "busy"
  BY DEF NodeEnds
<1>1. \A t \in TasksOf(n) : task[r][t].pc \notin {"try", "submitted", "poll"}
  BY DEF NodeEnds
<1>2. PICK v \in NodeStatus, h \in {"busy", "good", "bad"} :
        run' = [run EXCEPT ![r].nodes[n] = v] /\ ThreadTo(r, n, h)
  BY DEF NodeEnds, NodeStatus, ThreadTo
<1>3. doc' = [doc EXCEPT ![r] = run'[r]] /\
      UNCHANGED <<saved, pc, done, skipped, anyFailed, stop, live, task, job, cancel, adrift, told, late>>
  BY DEF NodeEnds
<1> QED  BY <1>0, <1>1, <1>2, <1>3, NodeMoves

-----------------------------------------------------------------------------
(* The beginning and the end of a run *)

\* A run whose orchestrator does not collect has no node thread and no dispatch under way.
LEMMA NothingUnderWay ==
  ASSUME ChoreoInv, NEW r \in Runs, pc[r] # "collect"
  PROVE  /\ \A n \in Nodes : node[r][n] = "off"
         /\ \A t \in Tasks : task[r][t].pc \notin {"try", "submitted", "poll"}
         /\ pc[r] # "dead" => \A j \in Jobs : j[1] = r /\ job[j] = "running" => j \in adrift
<1>1. \A n \in Nodes : node[r][n] = "off"
  BY DEF ChoreoInv, ThreadsNest
<1>2. \A t \in Tasks : task[r][t].pc \notin {"try", "submitted", "poll"}
  BY <1>1, TaskNode DEF ChoreoInv, ThreadsNest
<1>3. pc[r] # "dead" => \A j \in Jobs : j[1] = r /\ job[j] = "running" => j \in adrift
  BY <1>2, JobParts DEF ChoreoInv, Tracked, Flying
<1> QED  BY <1>1, <1>2, <1>3

LEMMA CheckStep ==
  ASSUME ChoreoInv, NEW r \in Runs, Check(r)
  PROVE  ChoreoInv'
<1>0. /\ ChoreoTypeOK /\ ThreadsNest /\ Tracked /\ CancelInv /\ ShownAtWork /\ pc[r] = "off"
      /\ pc' = [pc EXCEPT ![r] = "checked"]
      /\ UNCHANGED <<saved, doc, run, done, skipped, anyFailed, stop, live, node, task, job,
                     cancel, adrift, told, late>>
  BY DEF ChoreoInv, Check
<1>1. /\ pc' \in [Runs -> AtWork \cup {"off", "checked", "done", "dead"}] /\ pc'[r] = "checked"
      /\ \A x \in Runs : x # r => pc'[x] = pc[x]
  BY <1>0, PlaceSet
<1>2. ChoreoTypeOK'
  BY <1>0, <1>1 DEF ChoreoTypeOK, AtWork
<1>3. ThreadsNest'
  BY <1>0, <1>1, NothingUnderWay DEF ThreadsNest, AtWork
<1>4. Tracked'
  BY <1>0, <1>1, JobParts DEF Tracked, Flying, JobOf
<1>5. CancelInv'
  <2>1. r \notin told /\ told \subseteq Runs
    BY <1>0 DEF CancelInv, AtWork, ChoreoTypeOK
  <2> QED  BY <1>0, <1>1, <2>1 DEF CancelInv
<1>6. ShownAtWork'
  BY <1>0, <1>1 DEF ShownAtWork, AtWork
<1> QED  BY <1>2, <1>3, <1>4, <1>5, <1>6 DEF ChoreoInv

LEMMA LaunchStep ==
  ASSUME ChoreoInv, NEW r \in Runs, Launch(r)
  PROVE  ChoreoInv'
<1> DEFINE x == [status |-> "pending", nodes |-> [n \in Nodes |-> "pending"]]
<1>0. /\ ChoreoTypeOK /\ ThreadsNest /\ Tracked /\ CancelInv /\ ShownAtWork /\ pc[r] = "checked"
      /\ pc' = [pc EXCEPT ![r] = "begin"] /\ run' = [run EXCEPT ![r] = x]
      /\ doc' = [doc EXCEPT ![r] = run'[r]] /\ stop' = [stop EXCEPT ![r] = "clear"]
      /\ late' = IF saved = "there" THEN late ELSE late \cup {r}
      /\ UNCHANGED <<saved, done, skipped, anyFailed, live, node, task, job, cancel, adrift, told>>
  BY DEF ChoreoInv, Launch
<1>1. x \in RunDoc /\ x.status \in Active /\ x # Absent
  BY DEF RunDoc, NodeStatus, Active, Absent
<1> HIDE DEF x
<1>2. /\ run' \in [Runs -> RunDoc \cup {Absent}] /\ run'[r] = x
      /\ doc' \in [Runs -> RunDoc \cup {Absent}]
      /\ \A y \in Runs : y # r => run'[y] = run[y] /\ doc'[y] = doc[y]
  BY <1>0, <1>1, RunSet
<1>3. /\ pc' \in [Runs -> AtWork \cup {"off", "checked", "done", "dead"}] /\ pc'[r] = "begin"
      /\ \A y \in Runs : y # r => pc'[y] = pc[y]
  BY <1>0, PlaceSet DEF AtWork
<1>4. doc'[r] = x
  BY <1>0, <1>2 DEF ChoreoTypeOK
<1>5. stop' \in [Runs -> {"none", "clear", "set"}] /\ \A y \in Runs : y # r => stop'[y] = stop[y]
  BY <1>0 DEF ChoreoTypeOK
<1>6. late' \subseteq Runs /\ late \subseteq late' /\ (r \in late' \/ saved = "there")
  BY <1>0 DEF ChoreoTypeOK
<1>7. ChoreoTypeOK'
  BY <1>0, <1>2, <1>3, <1>5, <1>6 DEF ChoreoTypeOK, AtWork
<1>8. ThreadsNest'
  BY <1>0, <1>1, <1>2, <1>3, <1>5, NothingUnderWay DEF ThreadsNest, AtWork
<1>9. Tracked'
  BY <1>0, <1>3, JobParts DEF Tracked, Flying, JobOf
<1>10. CancelInv'
  <2>1. r \notin told /\ told \subseteq Runs
    BY <1>0 DEF CancelInv, AtWork, ChoreoTypeOK
  <2> QED  BY <1>0, <1>2, <1>3, <1>5, <2>1 DEF CancelInv
<1>11. ShownAtWork'
  BY <1>0, <1>1, <1>2, <1>3, <1>4, <1>6 DEF ShownAtWork, AtWork
<1> QED  BY <1>7, <1>8, <1>9, <1>10, <1>11 DEF ChoreoInv

LEMMA FinishStep ==
  ASSUME ChoreoInv, NEW r \in Runs, Finish(r)
  PROVE  ChoreoInv'
<1>0. /\ ChoreoTypeOK /\ ThreadsNest /\ Tracked /\ CancelInv /\ ShownAtWork /\ pc[r] = "save"
      /\ doc' = [doc EXCEPT ![r] = run[r]] /\ pc' = [pc EXCEPT ![r] = "done"]
      /\ live' = [live EXCEPT ![r] = {}] /\ stop' = [stop EXCEPT ![r] = "none"]
      /\ UNCHANGED <<saved, run, done, skipped, anyFailed, node, task, job, cancel, adrift, told, late>>
  BY DEF ChoreoInv, Finish
<1>1. /\ pc' \in [Runs -> AtWork \cup {"off", "checked", "done", "dead"}] /\ pc'[r] = "done"
      /\ \A y \in Runs : y # r => pc'[y] = pc[y]
  BY <1>0, PlaceSet
<1>2. /\ doc' \in [Runs -> RunDoc \cup {Absent}] /\ doc'[r] = run[r]
      /\ \A y \in Runs : y # r => doc'[y] = doc[y]
  BY <1>0 DEF ChoreoTypeOK
<1>3. /\ stop' \in [Runs -> {"none", "clear", "set"}] /\ stop'[r] = "none"
      /\ \A y \in Runs : y # r => stop'[y] = stop[y]
      /\ live' \in [Runs -> SUBSET Jobs]
  BY <1>0 DEF ChoreoTypeOK
<1>4. ChoreoTypeOK'
  BY <1>0, <1>1, <1>2, <1>3 DEF ChoreoTypeOK, AtWork
<1>5. ThreadsNest'
  BY <1>0, <1>1, <1>3, NothingUnderWay DEF ThreadsNest, AtWork
<1>6. Tracked'
  BY <1>0, <1>1, JobParts DEF Tracked, Flying, JobOf
<1>7. CancelInv'
  BY <1>0, <1>1, <1>2, <1>3 DEF CancelInv, ChoreoTypeOK
<1>8. ShownAtWork'
  BY <1>0, <1>1, <1>2 DEF ShownAtWork, AtWork
<1> QED  BY <1>4, <1>5, <1>6, <1>7, <1>8 DEF ChoreoInv

\* The VEM restarts.
LEMMA CrashStep ==
  ASSUME ChoreoInv, Crash
  PROVE  ChoreoInv'
<1>0. /\ ChoreoTypeOK /\ ThreadsNest /\ Tracked /\ CancelInv
      /\ pc' = [r \in Runs |-> IF pc[r] \in {"off", "done"} THEN pc[r]
                               ELSE IF pc[r] = "checked" THEN "off" ELSE "dead"]
      /\ run' = [r \in Runs |-> Absent] /\ stop' = [r \in Runs |-> "none"]
      /\ live' = [r \in Runs |-> {}] /\ node' = [r \in Runs |-> [n \in Nodes |-> "off"]]
      /\ task' = [r \in Runs |-> [t \in Tasks |-> Waiting]]
      /\ cancel' = [r \in Runs |-> IF cancel[r].pc = "done" THEN cancel[r] ELSE [pc |-> "off"]]
      /\ UNCHANGED <<saved, doc, done, skipped, anyFailed, job, adrift, told, late>>
  BY DEF ChoreoInv, Crash
<1>1. \A r \in Runs : pc'[r] \in {"off", "done", "dead"} /\ (pc'[r] = "done" <=> pc[r] = "done")
                      /\ (pc[r] \in AtWork \cup {"dead"} => pc'[r] = "dead")
  BY <1>0 DEF ChoreoTypeOK, AtWork
<1>2. \A r \in Runs, t \in Tasks : task'[r][t] \in Dispatch /\ task'[r][t].attempt = 0 /\ task'[r][t].pc = "off"
  BY <1>0 DEF Waiting, Dispatch
<1>3. ChoreoTypeOK'
  <2>1. cancel' \in [Runs -> CancelRequest]
    <3>1. \A r \in Runs : cancel[r] \in CancelRequest
      BY <1>0 DEF ChoreoTypeOK
    <3>2. [pc |-> "off"] \in CancelRequest
      BY DEF CancelRequest
    <3> QED  BY <1>0, <3>1, <3>2
  <2>2. pc' \in [Runs -> {"off", "checked", "begin", "wave", "collect", "decide", "save", "done", "dead"}]
    BY <1>0 DEF ChoreoTypeOK
  <2>3. task' \in [Runs -> [Tasks -> Dispatch]]
    BY <1>0 DEF Waiting, Dispatch
  <2>4. \A r \in Runs, t \in Tasks : task'[r][t].attempt <= MaxRetries[t[1]]
    BY <1>2, RetriesAreNat
  <2>5. /\ run' \in [Runs -> RunDoc \cup {Absent}] /\ stop' \in [Runs -> {"none", "clear", "set"}]
        /\ live' \in [Runs -> SUBSET Jobs]
        /\ node' \in [Runs -> [Nodes -> {"off", "new", "busy", "good", "bad"}]]
    BY <1>0
  <2> QED  BY <1>0, <2>1, <2>2, <2>3, <2>4, <2>5 DEF ChoreoTypeOK
<1>4. ThreadsNest'
  BY <1>0, <1>1, <1>2 DEF ThreadsNest, AtWork
<1>5. Tracked'
  <2> SUFFICES ASSUME NEW j \in Jobs, job[j] = "running", j \notin adrift  PROVE pc'[j[1]] = "dead"
    BY <1>0 DEF Tracked
  <2>1. j[1] \in Runs
    BY JobParts
  <2>2. pc[j[1]] = "dead" \/ pc[j[1]] = "collect"
    BY <2>1, NothingUnderWay
  <2> QED  BY <1>1, <2>1, <2>2 DEF AtWork
<1>6. CancelInv'
  BY <1>0, <1>1 DEF CancelInv, ChoreoTypeOK
<1>7. ShownAtWork'
  BY <1>1 DEF ShownAtWork, AtWork
<1> QED  BY <1>3, <1>4, <1>5, <1>6, <1>7 DEF ChoreoInv

-----------------------------------------------------------------------------
(* The saved choreography, the endpoints and the cancel request *)

LEMMA DeletionStep ==
  ASSUME ChoreoInv, Delete \/ ProjectDelete \/ Purge
  PROVE  ChoreoInv'
<1>0. /\ UNCHANGED <<run, pc, done, skipped, anyFailed, stop, live, node, task, job, cancel, adrift, told, late>>
      /\ saved' \in {"deleting", "deleted", "purged"}
      /\ doc' \in [Runs -> RunDoc \cup {Absent}]
      /\ \A r \in Runs : doc'[r] = doc[r] \/ doc'[r] = Absent
      /\ saved # "there" \/ \A r \in Runs : doc[r].status \notin Active
  BY DEF ChoreoInv, ChoreoTypeOK, Delete, ProjectDelete, Purge, HasActiveRun
<1>1. ChoreoTypeOK'
  BY <1>0 DEF ChoreoInv, ChoreoTypeOK
<1>2. ThreadsNest' /\ Tracked'
  BY <1>0 DEF ChoreoInv, ThreadsNest, Tracked, Flying, JobOf
<1>3. CancelInv'
  BY <1>0 DEF ChoreoInv, ChoreoTypeOK, CancelInv, Absent
<1>4. ShownAtWork'
  BY <1>0 DEF ChoreoInv, ShownAtWork
<1> QED  BY <1>1, <1>2, <1>3, <1>4 DEF ChoreoInv

LEMMA JobEndsStep ==
  ASSUME ChoreoInv, NEW j \in Jobs, JobEnds(j)
  PROVE  ChoreoInv'
<1>1. PICK v \in {"done", "failed"} : job' = [job EXCEPT ![j] = v]
  BY DEF JobEnds
<1>2. UNCHANGED <<saved, doc, run, pc, done, skipped, anyFailed, stop, live, node, task, cancel, adrift, told, late>>
  BY DEF JobEnds
<1>3. /\ job' \in [Jobs -> {"none", "running", "done", "failed"}]
      /\ \A k \in Jobs : job'[k] = "running" => job[k] = "running"
  BY <1>1 DEF ChoreoInv, ChoreoTypeOK
<1>4. ChoreoTypeOK'
  BY <1>2, <1>3 DEF ChoreoInv, ChoreoTypeOK
<1>5. ThreadsNest' /\ Tracked'
  BY <1>2, <1>3 DEF ChoreoInv, ThreadsNest, Tracked, Flying, JobOf
<1>6. CancelInv' /\ ShownAtWork'
  BY <1>2 DEF ChoreoInv, CancelInv, ShownAtWork
<1> QED  BY <1>4, <1>5, <1>6 DEF ChoreoInv

\* A cancel request goes on: it is no sooner done than its copy is saved.
LEMMA CancelSet ==
  ASSUME ChoreoTypeOK, NEW r \in Runs, NEW c \in CancelRequest, cancel' = [cancel EXCEPT ![r] = c]
  PROVE  /\ cancel' \in [Runs -> CancelRequest] /\ cancel'[r] = c
         /\ \A x \in Runs : x # r => cancel'[x] = cancel[x]
  BY DEF ChoreoTypeOK

LEMMA CancelMoves ==
  ASSUME ChoreoTypeOK, NEW r \in Runs, cancel[r].pc \in {"loaded", "flagged", "sent"},
         NEW p \in {"loaded", "flagged", "sent"}, NEW c, c = [cancel[r] EXCEPT !.pc = p]
  PROVE  c \in CancelRequest /\ c.pc = p /\ cancel[r].copy \in RunDoc
<1>1. cancel[r] \in CancelRequest
  BY DEF ChoreoTypeOK
<1>2. cancel[r] \in [pc : {"loaded", "flagged", "sent"}, copy : RunDoc]
  BY <1>1 DEF CancelRequest
<1>3. c \in [pc : {"loaded", "flagged", "sent"}, copy : RunDoc] /\ c.pc = p /\ cancel[r].copy \in RunDoc
  BY <1>2
<1> QED  BY <1>3 DEF CancelRequest

LEMMA CancelLoadsStep ==
  ASSUME ChoreoInv, NEW r \in Runs, CancelLoads(r)
  PROVE  ChoreoInv'
<1> DEFINE c == [pc |-> "loaded", copy |-> doc[r]]
<1>0. /\ ChoreoTypeOK /\ cancel[r].pc = "off" /\ doc[r].status \in Active
      /\ cancel' = [cancel EXCEPT ![r] = c]
      /\ UNCHANGED <<saved, doc, run, pc, done, skipped, anyFailed, stop, live, node, task, job, adrift, told, late>>
  BY DEF ChoreoInv, CancelLoads
<1>1. doc[r] \in RunDoc
  BY <1>0 DEF ChoreoTypeOK, Absent, Active
<1>2. c \in CancelRequest
  BY <1>1 DEF CancelRequest
<1> HIDE DEF c
<1>3. /\ cancel' \in [Runs -> CancelRequest] /\ cancel'[r] = c
      /\ \A x \in Runs : x # r => cancel'[x] = cancel[x]
  BY <1>0, <1>2, CancelSet
<1>4. ChoreoTypeOK'
  BY <1>0, <1>3 DEF ChoreoTypeOK
<1>5. ThreadsNest' /\ Tracked' /\ CancelInv'
  BY <1>0 DEF ChoreoInv, ThreadsNest, Tracked, Flying, JobOf, CancelInv
<1>6. ShownAtWork'
  BY <1>0, <1>3 DEF ChoreoInv, ShownAtWork
<1> QED  BY <1>4, <1>5, <1>6 DEF ChoreoInv

LEMMA CancelFlagsStep ==
  ASSUME ChoreoInv, NEW r \in Runs, CancelFlags(r)
  PROVE  ChoreoInv'
<1> DEFINE c == [cancel[r] EXCEPT !.pc = "flagged"]
           f == IF stop[r] = "none" THEN "none" ELSE "set"
<1>0. /\ ChoreoTypeOK /\ CancelInv /\ ThreadsNest /\ cancel[r].pc = "loaded"
      /\ cancel' = [cancel EXCEPT ![r] = c] /\ stop' = [stop EXCEPT ![r] = f]
      /\ told' = IF stop[r] # "none" /\ pc[r] \notin {"save", "done"} THEN told \cup {r} ELSE told
      /\ UNCHANGED <<saved, doc, run, pc, done, skipped, anyFailed, live, node, task, job, adrift, late>>
  BY DEF ChoreoInv, CancelFlags, ChoreoTypeOK
<1>1. c \in CancelRequest
  BY <1>0, CancelMoves
<1> HIDE DEF c
<1>2. /\ cancel' \in [Runs -> CancelRequest] /\ cancel'[r] = c
      /\ \A x \in Runs : x # r => cancel'[x] = cancel[x]
  BY <1>0, <1>1, CancelSet
<1>3. /\ stop' \in [Runs -> {"none", "clear", "set"}]
      /\ \A x \in Runs : x # r => stop'[x] = stop[x]
      /\ stop'[r] = f
  BY <1>0 DEF ChoreoTypeOK
<1>4. told' \subseteq Runs
  BY <1>0 DEF ChoreoTypeOK
<1>5. ChoreoTypeOK'
  BY <1>0, <1>2, <1>3, <1>4 DEF ChoreoTypeOK
<1>6. ThreadsNest'
  BY <1>0, <1>3 DEF ThreadsNest
<1>7. Tracked'
  BY <1>0 DEF ChoreoInv, Tracked, Flying, JobOf
<1>8. CancelInv'
  <2> SUFFICES ASSUME NEW x \in told'
               PROVE  /\ pc[x] \in {"done", "dead"} \/ (pc[x] \in AtWork /\ stop'[x] = "set")
                      /\ pc[x] = "save" => run[x].status = "cancelled"
                      /\ pc[x] = "done" => doc[x].status \in {"cancelled", "absent"}
    BY <1>0 DEF CancelInv
  <2>0. x \in Runs
    BY <1>4
  <2>1. CASE x \in told
    BY <1>0, <1>3, <2>0, <2>1 DEF CancelInv
  <2>2. CASE x \notin told
    <3>1. x = r /\ stop[r] # "none" /\ pc[r] \notin {"save", "done"}
      BY <1>0, <2>2
    <3>2. pc[r] \in AtWork
      BY <1>0, <3>1 DEF ThreadsNest
    <3> QED  BY <1>3, <3>1, <3>2
  <2> QED  BY <2>1, <2>2
<1>9. ShownAtWork'
  BY <1>0, <1>2 DEF ChoreoInv, ShownAtWork
<1> QED  BY <1>5, <1>6, <1>7, <1>8, <1>9 DEF ChoreoInv

LEMMA CancelSendsStep ==
  ASSUME ChoreoInv, NEW r \in Runs, CancelSends(r)
  PROVE  ChoreoInv'
<1> DEFINE c == [cancel[r] EXCEPT !.pc = "sent"]
<1>0. /\ ChoreoTypeOK /\ cancel[r].pc = "flagged" /\ cancel' = [cancel EXCEPT ![r] = c]
      /\ job' = Cancelled(live[r]) \/ job' = job
      /\ UNCHANGED <<saved, doc, run, pc, done, skipped, anyFailed, stop, live, node, task, adrift, told, late>>
  BY DEF ChoreoInv, CancelSends, ChoreoTypeOK
<1>1. c \in CancelRequest
  BY <1>0, CancelMoves
<1> HIDE DEF c
<1>2. /\ cancel' \in [Runs -> CancelRequest] /\ cancel'[r] = c
      /\ \A x \in Runs : x # r => cancel'[x] = cancel[x]
  BY <1>0, <1>1, CancelSet
<1>3. /\ job' \in [Jobs -> {"none", "running", "done", "failed"}]
      /\ \A k \in Jobs : job'[k] = "running" => job[k] = "running"
  <2>1. CASE job' = Cancelled(live[r])
    BY <1>0, <2>1, CancelledIs
  <2>2. CASE job' = job
    BY <1>0, <2>2 DEF ChoreoTypeOK
  <2> QED  BY <1>0, <2>1, <2>2
<1>4. ChoreoTypeOK'
  BY <1>0, <1>2, <1>3 DEF ChoreoTypeOK
<1>5. ThreadsNest' /\ CancelInv'
  BY <1>0 DEF ChoreoInv, ThreadsNest, CancelInv
<1>6. Tracked'
  BY <1>0, <1>3 DEF ChoreoInv, Tracked, Flying, JobOf
<1>7. ShownAtWork'
  BY <1>0, <1>2 DEF ChoreoInv, ShownAtWork
<1> QED  BY <1>4, <1>5, <1>6, <1>7 DEF ChoreoInv

LEMMA CancelSavesStep ==
  ASSUME ChoreoInv, NEW r \in Runs, CancelSaves(r)
  PROVE  ChoreoInv'
<1> DEFINE x == [cancel[r].copy EXCEPT !.status = "cancelled"]
           c == [pc |-> "done"]
<1>0. /\ ChoreoTypeOK /\ CancelInv /\ cancel[r].pc = "sent"
      /\ cancel' = [cancel EXCEPT ![r] = c] /\ doc' = [doc EXCEPT ![r] = x]
      /\ UNCHANGED <<saved, run, pc, done, skipped, anyFailed, stop, live, node, task, job, adrift, told, late>>
  BY DEF ChoreoInv, CancelSaves
<1>1. x \in RunDoc /\ x.status = "cancelled"
  <2>1. cancel[r].copy \in RunDoc
    BY <1>0, CancelMoves
  <2> QED  BY <2>1, StatusSet
<1>2. c \in CancelRequest /\ c.pc = "done"
  BY DEF CancelRequest
<1> HIDE DEF c, x
<1>3. /\ cancel' \in [Runs -> CancelRequest] /\ cancel'[r] = c
      /\ \A y \in Runs : y # r => cancel'[y] = cancel[y]
  BY <1>0, <1>2, CancelSet
<1>4. /\ doc' \in [Runs -> RunDoc \cup {Absent}] /\ doc'[r] = x
      /\ \A y \in Runs : y # r => doc'[y] = doc[y]
  BY <1>0, <1>1 DEF ChoreoTypeOK
<1>5. ChoreoTypeOK'
  BY <1>0, <1>3, <1>4 DEF ChoreoTypeOK
<1>6. ThreadsNest' /\ Tracked'
  BY <1>0 DEF ChoreoInv, ThreadsNest, Tracked, Flying, JobOf
<1>7. CancelInv'
  BY <1>0, <1>1, <1>4 DEF CancelInv, ChoreoTypeOK
<1>8. ShownAtWork'
  BY <1>0, <1>2, <1>3, <1>4 DEF ChoreoInv, ShownAtWork
<1> QED  BY <1>5, <1>6, <1>7, <1>8 DEF ChoreoInv

-----------------------------------------------------------------------------
(* Theorems *)

LEMMA ChoreoInitInv ==
  ASSUME ChoreoInit
  PROVE  ChoreoInv
<1>1. ChoreoTypeOK
  <2>1. \A r \in Runs, t \in Tasks : task[r][t] = Waiting
    BY DEF ChoreoInit
  <2>2. Waiting \in Dispatch /\ Waiting.attempt = 0
    BY DEF Waiting, Dispatch
  <2>3. task \in [Runs -> [Tasks -> Dispatch]]
    BY <2>2 DEF ChoreoInit
  <2>4. \A r \in Runs, t \in Tasks : task[r][t].attempt <= MaxRetries[t[1]]
    BY <2>1, <2>2, RetriesAreNat
  <2>5. cancel \in [Runs -> CancelRequest]
    BY DEF ChoreoInit, CancelRequest
  <2> QED  BY <2>3, <2>4, <2>5 DEF ChoreoInit, ChoreoTypeOK
<1>2. ThreadsNest /\ Tracked /\ CancelInv /\ ShownAtWork
  BY DEF ChoreoInit, ThreadsNest, Tracked, CancelInv, ShownAtWork, AtWork, Waiting
<1> QED  BY <1>1, <1>2 DEF ChoreoInv

LEMMA ChoreoStutter ==
  ASSUME ChoreoInv, UNCHANGED choreoVars
  PROVE  ChoreoInv'
<1>1. ChoreoTypeOK'
  BY DEF ChoreoInv, choreoVars, ChoreoTypeOK
<1>2. ThreadsNest' /\ Tracked' /\ CancelInv' /\ ShownAtWork'
  BY DEF ChoreoInv, choreoVars, ThreadsNest, Tracked, Flying, JobOf, CancelInv, ShownAtWork
<1> QED  BY <1>1, <1>2 DEF ChoreoInv

LEMMA ChoreoStep ==
  ASSUME ChoreoInv, [ChoreoNext]_choreoVars
  PROVE  ChoreoInv'
<1>1. CASE Delete \/ ProjectDelete \/ Purge \/ Crash
  BY <1>1, DeletionStep, CrashStep
<1>2. CASE \E r \in Runs : Check(r) \/ CancelLoads(r) \/ RunStep(r) \/ CancelStep(r)
  BY <1>2, CheckStep, CancelLoadsStep, LaunchStep, BeginStep, EnterWaveStep, DecideStep, FinishStep,
     CollectStep, NodeStartsStep, NodeEndsStep, CancelFlagsStep, CancelSendsStep, CancelSavesStep
     DEF RunStep, CancelStep
<1>3. CASE \E r \in Runs, t \in Tasks : TaskStep(r, t)
  BY <1>3, TaskStartsStep, SubmitStep, EnterStep, PollStep DEF TaskStep
<1>4. CASE \E j \in Jobs : JobEnds(j)
  BY <1>4, JobEndsStep
<1>5. CASE UNCHANGED choreoVars
  BY <1>5, ChoreoStutter
<1> QED  BY <1>1, <1>2, <1>3, <1>4, <1>5 DEF ChoreoNext

\* Threads nest, running jobs are accounted for, the stop flag outlives the run and a run
\* at work is shown so: together these are inductive.
THEOREM ChoreoInvariant == ChoreoSpec => []ChoreoInv
<1>1. ChoreoInit => ChoreoInv
  BY ChoreoInitInv
<1>2. ChoreoInv /\ [ChoreoNext]_choreoVars => ChoreoInv'
  BY ChoreoStep
<1> QED  BY <1>1, <1>2, PTL DEF ChoreoSpec

\* Documents, run objects, threads and cancel requests have their types, and no dispatch
\* is tried more often than its node's max_retries allows.
THEOREM ChoreoTypes == ChoreoSpec => []ChoreoTypeOK
<1>1. ChoreoInv => ChoreoTypeOK
  BY DEF ChoreoInv
<1> QED  BY <1>1, ChoreoInvariant, PTL

\* Once a run is over none of its jobs runs on, except those whose answer was lost: the
\* poll of _poll_until_terminal ends or cancels each, whenever the cancel request came.
THEOREM NoJobLeftBehindAlways == ChoreoSpec => []NoJobLeftBehind
<1>1. ChoreoInv => NoJobLeftBehind
  <2> SUFFICES ASSUME ChoreoInv, NEW r \in Runs, pc[r] = "done"
               PROVE  \A j \in Jobs : j[1] = r /\ job[j] = "running" => j \in adrift
    BY DEF NoJobLeftBehind
  <2> QED  BY NothingUnderWay
<1> QED  BY <1>1, ChoreoInvariant, PTL

\* A cancel answered while the run was under way is what its document says in the end:
\* neither the orchestrator's saves of its own copy nor the decision on its nodes undo it.
THEOREM CancelIsKeptAlways == ChoreoSpec => []CancelIsKept
<1>1. ChoreoInv => CancelIsKept
  BY DEF ChoreoInv, CancelInv, CancelIsKept
<1> QED  BY <1>1, ChoreoInvariant, PTL

\* Only its orchestrator, its launch or its cancel request writes a run's document.
LEMMA WhoWrites ==
  ASSUME ChoreoInv, ChoreoNext, NEW r \in Runs, doc'[r] # doc[r], doc'[r] # Absent
  PROVE  \/ pc[r] \in AtWork /\ late' = late
         \/ pc[r] = "checked" /\ (saved # "there" => r \in late')
         \/ cancel[r].pc = "sent"
<1>0. doc \in [Runs -> RunDoc \cup {Absent}]
  BY DEF ChoreoInv, ChoreoTypeOK
<1>1. CASE Delete \/ ProjectDelete \/ Purge \/ Crash
  BY <1>1 DEF Delete, ProjectDelete, Purge, Crash
<1>2. CASE \E x \in Runs : Check(x) \/ CancelLoads(x)
  BY <1>2 DEF Check, CancelLoads
<1>3. CASE \E x \in Runs : RunStep(x)
  <2> PICK x \in Runs : RunStep(x)
    BY <1>3
  <2>1. CASE Launch(x)
    <3>1. x = r
      BY <1>0, <2>1 DEF Launch
    <3> QED  BY <2>1, <3>1 DEF Launch
  <2>2. CASE Begin(x) \/ EnterWave(x) \/ Decide(x) \/ Finish(x)
    <3>1. x = r
      BY <1>0, <2>2 DEF Begin, EnterWave, Decide, Finish
    <3> QED  BY <2>2, <3>1 DEF Begin, EnterWave, Decide, Finish, AtWork
  <2>3. ASSUME NEW n \in Nodes, Collect(x, n) \/ NodeStarts(x, n) \/ NodeEnds(x, n)
        PROVE  pc[r] \in AtWork /\ late' = late
    <3>1. doc' = [doc EXCEPT ![x] = run'[x]] \/ doc' = doc
      BY <2>3 DEF Collect, NodeStarts, NodeEnds
    <3>2. x = r
      BY <1>0, <3>1
    <3>3. node[x][n] # "off" /\ late' = late
      BY <2>3 DEF Collect, NodeStarts, NodeEnds
    <3> QED  BY <3>2, <3>3 DEF ChoreoInv, ThreadsNest, AtWork
  <2> QED  BY <2>1, <2>2, <2>3 DEF RunStep
<1>4. CASE \E x \in Runs : CancelStep(x)
  BY <1>0, <1>4 DEF CancelStep, CancelFlags, CancelSends, CancelSaves
<1>5. CASE \E x \in Runs, t \in Tasks : TaskStep(x, t)
  BY <1>5 DEF TaskStep, TaskStarts, Submit, Enter, Poll
<1>6. CASE \E j \in Jobs : JobEnds(j)
  BY <1>6 DEF JobEnds
<1> QED  BY <1>1, <1>2, <1>3, <1>4, <1>5, <1>6 DEF ChoreoNext

\* A purge is undone only for a run that was launched while the deletion was on its way
\* or had a cancel request: no other run is at work when DeleteChoreographyUseCase passes.
THEOREM PurgedOnlyAtWork == ChoreoSpec => PurgedComesBackOnlyAtWork
<1> DEFINE Back == \A r \in Runs : saved = "purged" /\ doc[r] = Absent /\ doc'[r] # Absent =>
                     r \in late' \/ cancel[r].pc # "off"
<1>1. ChoreoInv /\ [ChoreoNext]_choreoVars => [Back]_choreoVars
  <2> SUFFICES ASSUME ChoreoInv, ChoreoNext, NEW r \in Runs,
                      saved = "purged", doc[r] = Absent, doc'[r] # Absent
               PROVE  r \in late' \/ cancel[r].pc # "off"
    OBVIOUS
  <2>1. CASE pc[r] \in AtWork /\ late' = late
    BY <2>1 DEF ChoreoInv, ShownAtWork
  <2>2. CASE pc[r] = "checked" /\ (saved # "there" => r \in late')
    BY <2>2
  <2>3. CASE cancel[r].pc = "sent"
    BY <2>3
  <2> QED  BY <2>1, <2>2, <2>3, WhoWrites
<1> QED  BY <1>1, ChoreoInvariant, PTL DEF ChoreoSpec, PurgedComesBackOnlyAtWork

-----------------------------------------------------------------------------
(* The graph *)

\* What depends on a node that is not done waits for one that is not done.
LEMMA DownstreamWaits ==
  ASSUME NEW D, \A n \in D : DependenciesOf(n) \subseteq D,
         NEW m \in Nodes, m \notin D, NEW n \in Downstream[m]
  PROVE  ~(DependenciesOf(n) \subseteq D) /\ n \in Nodes
<1> DEFINE S == {k \in Nodes : ~(DependenciesOf(k) \subseteq D)}
<1>1. Dependents(m) \subseteq S
  BY DEF Dependents
<1>2. \A k \in S : k \notin D
  OBVIOUS
<1>3. \A k \in S : Dependents(k) \subseteq S
  BY <1>2 DEF Dependents
<1>4. S \in SUBSET Nodes /\ Encloses(S, m)
  BY <1>1, <1>3 DEF Encloses
<1> HIDE DEF S
<1>5. n \in Nodes /\ n \in S
  BY <1>4 DEF Downstream
<1> QED  BY <1>5 DEF S

\* What depends on a dependent of a node depends on the node.
LEMMA DownstreamTransitive ==
  ASSUME NEW n \in Nodes, NEW m \in Downstream[n]
  PROVE  m \in Nodes /\ Downstream[m] \subseteq Downstream[n]
<1>1. m \in Nodes /\ \A S \in SUBSET Nodes : Encloses(S, n) => m \in S
  BY DEF Downstream
<1>2. \A S \in SUBSET Nodes : Encloses(S, n) => Encloses(S, m)
  BY <1>1 DEF Encloses
<1>3. ASSUME NEW k \in Downstream[m]  PROVE k \in Downstream[n]
  <2>1. k \in Nodes /\ \A S \in SUBSET Nodes : Encloses(S, m) => k \in S
    BY <1>1, <1>3 DEF Downstream
  <2>2. \A S \in SUBSET Nodes : Encloses(S, n) => k \in S
    BY <1>2, <2>1
  <2> QED  BY <2>1, <2>2 DEF Downstream
<1> QED  BY <1>1, <1>3

\* When no node can follow, all are done or the graph has a cycle.
LEMMA NoWaveLeft ==
  ASSUME NEW D \in SUBSET Nodes, Wave(D) = {}, ~Cyclic
  PROVE  D = Nodes
<1> SUFFICES ASSUME Nodes \ D # {}  PROVE FALSE
  OBVIOUS
<1> DEFINE S == Nodes \ D
<1>1. S \in (SUBSET Nodes) \ {{}}
  OBVIOUS
<1>2. \A n \in S : DependenciesOf(n) \cap S # {}
  BY DEF Wave, DependenciesOf
<1> HIDE DEF S
<1> QED  BY <1>1, <1>2 DEF Cyclic

-----------------------------------------------------------------------------
(* How far a run has come.  D are the nodes of the waves behind it, K those skipped, s    *)
(* the nodes' states in the run object, th their threads, af whether one has failed and p *)
(* where the orchestrator is.                                                             *)

Going == {"wave", "collect", "decide"}

\* The waves behind are closed under dependencies, and over.
Behind(D, K, s) ==
  /\ \A n \in D : DependenciesOf(n) \subseteq D
  /\ \A n \in D \ K : s[n] \in {"completed", "failed"}

\* A failed node that was collected has taken with it all that depends on it.
Stranded(K, s, th, af) ==
  /\ \A n \in Nodes : s[n] = "failed" /\ th[n] = "off" => Downstream[n] \subseteq K /\ af
  /\ \A n \in K : s[n] = "cancelled" /\ Downstream[n] \subseteq K /\ af

\* Only nodes of the wave under way have a thread, and it matches the node's state; those
\* collected are over.
InWave(p, D, K, s, th) ==
  /\ \A n \in Nodes : th[n] # "off" => n \in Wave(D) /\ n \notin K
  /\ p = "collect" => \A n \in Wave(D) : n \notin K /\ th[n] = "off" => s[n] \in {"completed", "failed"}
  /\ \A n \in Nodes :
       /\ th[n] = "new" => s[n] = "pending"
       /\ th[n] = "busy" => s[n] = "running"
       /\ th[n] = "good" => s[n] = "completed"
       /\ th[n] = "bad" => s[n] = "failed"

\* Nothing has touched the nodes of the waves to come.
Ahead(p, D, K, s) ==
  \A n \in Nodes : n \notin D /\ n \notin K /\ (n \notin Wave(D) \/ p # "collect") => s[n] = "pending"

\* any_failed tells whether a node has failed, or the graph is cyclic.
FailureKnown(s, af) ==
  /\ Cyclic => af
  /\ af => Cyclic \/ \E n \in Nodes : s[n] = "failed"

Progress(p, D, K, s, th, af) ==
  Behind(D, K, s) /\ Stranded(K, s, th, af) /\ InWave(p, D, K, s, th) /\ Ahead(p, D, K, s)
  /\ FailureKnown(s, af)

\* What a document says of a run that is over.
Final(x) ==
  /\ x.status = "completed" => \A n \in Nodes : x.nodes[n] = "completed"
  /\ x.status = "failed" =>
       Cyclic \/ /\ \E n \in Nodes : x.nodes[n] = "failed"
                 /\ \A n \in Nodes : x.nodes[n] \notin {"pending", "running"}

ProgressOf(r) ==
  /\ pc[r] \in {"off", "checked", "begin"} => skipped[r] = {}
  /\ pc[r] = "begin" => \A n \in Nodes : run[r].nodes[n] = "pending"
  /\ pc[r] \in Going =>
       Progress(pc[r], done[r], skipped[r], run[r].nodes, node[r], anyFailed[r])
  /\ pc[r] = "decide" /\ stop[r] # "set" => Cyclic \/ done[r] = Nodes
  /\ pc[r] = "save" => Final(run[r])
  /\ Final(doc[r])

ProgressInv == \A r \in Runs : ProgressOf(r)

\* The types of what Progress speaks of.
Typed(D, K, s, th, af) ==
  /\ D \in SUBSET Nodes /\ K \in SUBSET Nodes /\ s \in [Nodes -> NodeStatus]
  /\ th \in [Nodes -> {"off", "new", "busy", "good", "bad"}] /\ af \in BOOLEAN

LEMMA ProgressBegins ==
  ASSUME NEW s, NEW th, NEW af, NEW p, p # "collect", af = Cyclic,
         \A n \in Nodes : s[n] = "pending" /\ th[n] = "off"
  PROVE  Progress(p, {}, {}, s, th, af)
  BY DEF Progress, Behind, Stranded, InWave, Ahead, FailureKnown

\* A wave of which no node is left to run is passed over.
LEMMA WavePasses ==
  ASSUME NEW D, NEW K, NEW s, NEW th, NEW af, Typed(D, K, s, th, af), NEW p \in {"wave", "collect"},
         Progress(p, D, K, s, th, af), \A n \in Nodes : th[n] = "off",
         p = "wave" => Wave(D) \ K = {}
  PROVE  Progress("wave", D \cup Wave(D), K, s, th, af)
<1> DEFINE E == D \cup Wave(D)
<1>0. /\ Behind(D, K, s) /\ Stranded(K, s, th, af) /\ InWave(p, D, K, s, th) /\ Ahead(p, D, K, s)
      /\ FailureKnown(s, af)
  BY DEF Progress
<1>1. Behind(E, K, s)
  <2>1. \A n \in E : DependenciesOf(n) \subseteq E
    BY <1>0 DEF Behind, Wave
  <2>2. \A n \in E \ K : s[n] \in {"completed", "failed"}
    <3> SUFFICES ASSUME NEW n \in E, n \notin K  PROVE s[n] \in {"completed", "failed"}
      OBVIOUS
    <3>1. CASE n \in D
      BY <1>0, <3>1 DEF Behind
    <3>2. CASE n \in Wave(D)
      <4>1. n \in Nodes /\ p = "collect"
        BY <3>2 DEF Wave
      <4> QED  BY <1>0, <3>2, <4>1 DEF InWave
    <3> QED  BY <3>1, <3>2
  <2> QED  BY <2>1, <2>2 DEF Behind
<1>2. InWave("wave", E, K, s, th)
  BY DEF InWave
<1>3. Ahead("wave", E, K, s)
  BY <1>0 DEF Ahead
<1> QED  BY <1>0, <1>1, <1>2, <1>3 DEF Progress

\* A wave is entered: its nodes that are not skipped get a thread each.
LEMMA WaveEntered ==
  ASSUME NEW D, NEW K, NEW s, NEW th, NEW af, Typed(D, K, s, th, af),
         Progress("wave", D, K, s, th, af), \A n \in Nodes : th[n] = "off",
         NEW th2, \A n \in Nodes : th2[n] = IF n \in Wave(D) \ K THEN "new" ELSE "off"
  PROVE  Progress("collect", D, K, s, th2, af)
<1>0. /\ Behind(D, K, s) /\ Stranded(K, s, th, af) /\ Ahead("wave", D, K, s) /\ FailureKnown(s, af)
  BY DEF Progress
<1>1. Stranded(K, s, th2, af) /\ Ahead("collect", D, K, s)
  BY <1>0 DEF Stranded, Ahead
<1>2. \A n \in Wave(D) \ K : n \in Nodes /\ s[n] = "pending" /\ th2[n] = "new"
  BY <1>0 DEF Wave, Ahead
<1>3. InWave("collect", D, K, s, th2)
  BY <1>2 DEF InWave
<1> QED  BY <1>0, <1>1, <1>3 DEF Progress

\* A node's thread moves on with its state.
Matches(h, v) ==
  \/ h = "busy" /\ v = "running"
  \/ h = "good" /\ v = "completed"
  \/ h = "bad" /\ v = "failed"
ExceptAt(n, f, g) == \A m \in Nodes : m # n => f[m] = g[m]
AllOff(th) == \A n \in Nodes : th[n] = "off"

LEMMA NodeTurns ==
  ASSUME NEW D, NEW K, NEW s, NEW th, NEW af, Typed(D, K, s, th, af),
         Progress("collect", D, K, s, th, af), NEW n \in Nodes, th[n] \in {"new", "busy"},
         NEW v, NEW h, Matches(h, v),
         NEW s2, NEW th2, s2[n] = v, th2[n] = h, ExceptAt(n, s2, s), ExceptAt(n, th2, th)
  PROVE  Progress("collect", D, K, s2, th2, af)
<1>0. /\ Behind(D, K, s) /\ Stranded(K, s, th, af) /\ InWave("collect", D, K, s, th)
      /\ Ahead("collect", D, K, s) /\ FailureKnown(s, af) /\ D \subseteq Nodes /\ K \subseteq Nodes
  BY DEF Progress, Typed
<1>1. n \in Wave(D) /\ n \notin K /\ n \notin D /\ s[n] # "failed"
  BY <1>0 DEF InWave, Wave
<1>2. h # "off" /\ (h = "busy" => v = "running") /\ (h = "good" => v = "completed") /\ (h = "bad" => v = "failed")
      /\ h # "new"
  BY DEF Matches
<1>3. Behind(D, K, s2)
  BY <1>0, <1>1 DEF Behind, ExceptAt
<1>4. Stranded(K, s2, th2, af)
  BY <1>0, <1>1, <1>2 DEF Stranded, ExceptAt
<1>5. InWave("collect", D, K, s2, th2)
  BY <1>0, <1>1, <1>2 DEF InWave, Wave, ExceptAt
<1>6. Ahead("collect", D, K, s2)
  BY <1>0, <1>1 DEF Ahead, ExceptAt
<1>7. FailureKnown(s2, af)
  BY <1>0, <1>1 DEF FailureKnown, ExceptAt
<1> QED  BY <1>3, <1>4, <1>5, <1>6, <1>7 DEF Progress

\* What a node collected takes with it, and what that does to the run object.
Strikes(n, K, s, th, af, gone, s2, af2) ==
  /\ gone = IF th[n] = "bad" THEN Downstream[n] \ K ELSE {}
  /\ s2 = [m \in Nodes |-> IF m \in gone /\ s[m] = "pending" THEN "cancelled" ELSE s[m]]
  /\ af2 = (af \/ th[n] = "bad")

\* A node's thread is collected; a failed one takes with it all that depends on it, which
\* nothing has touched.
LEMMA NodeCollected ==
  ASSUME NEW D, NEW K, NEW s, NEW th, NEW af, Typed(D, K, s, th, af),
         Progress("collect", D, K, s, th, af), NEW n \in Nodes, th[n] \in {"good", "bad"},
         NEW gone, NEW s2, NEW af2, Strikes(n, K, s, th, af, gone, s2, af2),
         NEW th2, th2[n] = "off", ExceptAt(n, th2, th)
  PROVE  Progress("collect", D, K \cup gone, s2, th2, af2)
<1> USE DEF Strikes
<1> DEFINE L == K \cup gone
<1>0. /\ Behind(D, K, s) /\ Stranded(K, s, th, af) /\ InWave("collect", D, K, s, th)
      /\ Ahead("collect", D, K, s) /\ FailureKnown(s, af) /\ D \subseteq Nodes /\ K \subseteq Nodes
  BY DEF Progress, Typed
<1>1. n \in Wave(D) /\ n \notin K /\ n \notin D /\ s[n] \in {"completed", "failed"}
      /\ (th[n] = "bad" <=> s[n] = "failed")
  BY <1>0 DEF InWave, Wave
<1>2. gone \subseteq Downstream[n] /\ gone \cap K = {} /\ (th[n] = "bad" => Downstream[n] \subseteq L)
      /\ (gone # {} => th[n] = "bad")
  OBVIOUS
<1> HIDE DEF L
<1>3. \A m \in gone : m \in Nodes /\ m \notin D /\ m \notin Wave(D) /\ s[m] = "pending"
  <2> SUFFICES ASSUME NEW m \in gone
               PROVE  m \in Nodes /\ m \notin D /\ m \notin Wave(D) /\ s[m] = "pending"
    OBVIOUS
  <2>1. m \in Nodes /\ ~(DependenciesOf(m) \subseteq D)
    BY <1>0, <1>1, <1>2, DownstreamWaits DEF Behind
  <2>2. m \notin D /\ m \notin Wave(D)
    BY <1>0, <2>1 DEF Behind, Wave
  <2> QED  BY <1>0, <1>2, <2>1, <2>2 DEF Ahead
<1>4. /\ \A m \in gone : s2[m] = "cancelled"
      /\ \A m \in Nodes : m \notin gone => s2[m] = s[m]
      /\ \A m \in L : m \in K \/ m \in gone
      /\ K \subseteq L /\ gone \subseteq L /\ L \subseteq Nodes
      /\ n \notin gone
  BY <1>0, <1>1, <1>3 DEF L
<1>5. Behind(D, L, s2)
  BY <1>0, <1>3, <1>4 DEF Behind
<1>6. Stranded(L, s2, th2, af2)
  <2>1. ASSUME NEW m \in Nodes, s2[m] = "failed", th2[m] = "off"
        PROVE  Downstream[m] \subseteq L /\ af2
    <3>1. m \notin gone /\ s[m] = "failed"
      BY <1>4, <2>1
    <3>2. CASE m = n
      BY <1>1, <1>2, <3>1, <3>2
    <3>3. CASE m # n
      BY <1>0, <1>4, <2>1, <3>1, <3>3 DEF Stranded, ExceptAt
    <3> QED  BY <3>2, <3>3
  <2>2. ASSUME NEW m \in L
        PROVE  s2[m] = "cancelled" /\ Downstream[m] \subseteq L /\ af2
    <3>1. CASE m \in K
      BY <1>0, <1>2, <1>4, <3>1 DEF Stranded
    <3>2. CASE m \in gone
      BY <1>2, <1>4, <3>2, DownstreamTransitive
    <3> QED  BY <1>4, <2>2, <3>1, <3>2
  <2> QED  BY <2>1, <2>2 DEF Stranded
<1>7. InWave("collect", D, L, s2, th2)
  <2>1. \A m \in Nodes : th2[m] # "off" => m # n /\ th2[m] = th[m] /\ m \in Wave(D) /\ m \notin L /\ s2[m] = s[m]
    BY <1>0, <1>3, <1>4 DEF InWave, ExceptAt
  <2>2. \A m \in Wave(D) : m \notin L /\ th2[m] = "off" => s2[m] \in {"completed", "failed"}
    BY <1>0, <1>1, <1>4 DEF InWave, Wave, ExceptAt
  <2> QED  BY <1>0, <2>1, <2>2 DEF InWave
<1>8. Ahead("collect", D, L, s2)
  BY <1>0, <1>4 DEF Ahead
<1>9. FailureKnown(s2, af2)
  <2>1. \A m \in Nodes : s[m] = "failed" => s2[m] = "failed"
    BY <1>3, <1>4
  <2> QED  BY <1>0, <1>1, <2>1 DEF FailureKnown
<1> QED  BY <1>5, <1>6, <1>7, <1>8, <1>9 DEF Progress, L

-----------------------------------------------------------------------------
(* Progress is kept *)

LEMMA RunTyped ==
  ASSUME ChoreoInv, NEW r \in Runs, pc[r] \in AtWork
  PROVE  Typed(done[r], skipped[r], run[r].nodes, node[r], anyFailed[r])
<1>1. run[r] \in RunDoc
  BY RunAtWork
<1>2. run[r].nodes \in [Nodes -> NodeStatus]
  BY <1>1 DEF RunDoc
<1>3. /\ done \in [Runs -> SUBSET Nodes] /\ skipped \in [Runs -> SUBSET Nodes] /\ anyFailed \in [Runs -> BOOLEAN]
      /\ node \in [Runs -> [Nodes -> {"off", "new", "busy", "good", "bad"}]]
  BY DEF ChoreoInv, ChoreoTypeOK
<1> QED  BY <1>2, <1>3 DEF Typed

\* A document that is not that of a completed or failed run promises nothing.
LEMMA OthersFinal ==
  \A x : x.status \notin {"completed", "failed"} => Final(x)
  BY DEF Final

\* A step that leaves a run's place, object and threads alone.
Leaves(r) ==
  /\ pc'[r] = pc[r] /\ run'[r] = run[r] /\ done'[r] = done[r] /\ skipped'[r] = skipped[r]
  /\ anyFailed'[r] = anyFailed[r] /\ node'[r] = node[r]
  /\ stop[r] = "set" /\ pc[r] = "decide" => stop'[r] = "set"

LEMMA LeavesKeeps ==
  ASSUME NEW r \in Runs, ProgressOf(r), Leaves(r), Final(doc'[r])
  PROVE  ProgressOf(r)'
<1>1. pc[r] \in Going =>
        Progress(pc[r], done[r], skipped[r], run[r].nodes, node[r], anyFailed[r])'
  BY DEF ProgressOf, Leaves
<1>2. /\ pc[r] \in {"off", "checked", "begin"} => skipped[r] = {}
      /\ pc[r] = "begin" => \A n \in Nodes : run[r].nodes[n] = "pending"
      /\ pc[r] = "decide" /\ stop[r] # "set" => Cyclic \/ done[r] = Nodes
      /\ pc[r] = "save" => Final(run[r])
  BY DEF ProgressOf
<1>3. Final(run[r]) => Final(run'[r])
  BY DEF Leaves
<1> QED  BY <1>1, <1>2, <1>3 DEF ProgressOf, Leaves

\* What the steps of one run leave of the others.
LeavesOthers(r) ==
  \A x \in Runs : x # r =>
    /\ pc'[x] = pc[x] /\ run'[x] = run[x] /\ done'[x] = done[x] /\ skipped'[x] = skipped[x]
    /\ anyFailed'[x] = anyFailed[x] /\ node'[x] = node[x] /\ stop'[x] = stop[x] /\ doc'[x] = doc[x]

LEMMA OthersKept ==
  ASSUME ProgressInv, NEW r \in Runs, LeavesOthers(r), ProgressOf(r)'
  PROVE  ProgressInv'
<1> SUFFICES ASSUME NEW x \in Runs, x # r  PROVE ProgressOf(x)'
  BY DEF ProgressInv
<1>1. ProgressOf(x) /\ Final(doc[x])
  BY DEF ProgressInv, ProgressOf
<1>2. Leaves(x) /\ doc'[x] = doc[x]
  BY DEF LeavesOthers, Leaves
<1>3. Final(doc'[x])
  BY <1>1, <1>2
<1> QED  BY <1>1, <1>2, <1>3, LeavesKeeps

\* Steps that touch no run's place, object or threads and no document.
LEMMA ElsewhereKept ==
  ASSUME ProgressInv, UNCHANGED <<doc, run, pc, done, skipped, anyFailed, stop, node>>
  PROVE  ProgressInv'
<1> SUFFICES ASSUME NEW x \in Runs  PROVE ProgressOf(x)'
  BY DEF ProgressInv
<1>1. ProgressOf(x) /\ Final(doc[x])
  BY DEF ProgressInv, ProgressOf
<1>2. Leaves(x) /\ doc'[x] = doc[x]
  BY DEF Leaves
<1>3. Final(doc'[x])
  BY <1>1, <1>2
<1> QED  BY <1>1, <1>2, <1>3, LeavesKeeps

LEMMA CheckProgress ==
  ASSUME ChoreoInv, ProgressInv, NEW r \in Runs, Check(r)
  PROVE  ProgressInv'
<1>0. /\ pc[r] = "off" /\ pc'[r] = "checked" /\ \A x \in Runs : x # r => pc'[x] = pc[x]
      /\ UNCHANGED <<doc, run, done, skipped, anyFailed, stop, node>>
  BY DEF Check, ChoreoInv, ChoreoTypeOK
<1>1. skipped[r] = {} /\ Final(doc[r])
  BY <1>0 DEF ProgressInv, ProgressOf
<1>2. Final(doc'[r])
  BY <1>0, <1>1
<1>3. ProgressOf(r)'
  BY <1>0, <1>1, <1>2 DEF ProgressOf, Going
<1>4. LeavesOthers(r)
  BY <1>0 DEF LeavesOthers
<1> QED  BY <1>3, <1>4, OthersKept

LEMMA LaunchProgress ==
  ASSUME ChoreoInv, ProgressInv, NEW r \in Runs, Launch(r)
  PROVE  ProgressInv'
<1> DEFINE z == [status |-> "pending", nodes |-> [n \in Nodes |-> "pending"]]
<1>0. /\ pc[r] = "checked" /\ UNCHANGED <<done, skipped, anyFailed, node>>
      /\ pc' = [pc EXCEPT ![r] = "begin"] /\ run' = [run EXCEPT ![r] = z]
      /\ doc' = [doc EXCEPT ![r] = run'[r]] /\ stop' = [stop EXCEPT ![r] = "clear"]
  BY DEF Launch
<1>1. z.status = "pending" /\ \A n \in Nodes : z.nodes[n] = "pending"
  OBVIOUS
<1>2. skipped[r] = {}
  BY <1>0 DEF ProgressInv, ProgressOf
<1> HIDE DEF z
<1>3. /\ pc'[r] = "begin" /\ run'[r] = z /\ doc'[r] = z
      /\ \A x \in Runs : x # r => pc'[x] = pc[x] /\ run'[x] = run[x] /\ doc'[x] = doc[x] /\ stop'[x] = stop[x]
  BY <1>0 DEF ChoreoInv, ChoreoTypeOK
<1>4. Final(doc'[r])
  BY <1>1, <1>3, OthersFinal
<1>5. ProgressOf(r)'
  BY <1>0, <1>1, <1>2, <1>3, <1>4 DEF ProgressOf, Going
<1>6. LeavesOthers(r)
  BY <1>0, <1>3 DEF LeavesOthers
<1> QED  BY <1>5, <1>6, OthersKept

LEMMA BeginProgress ==
  ASSUME ChoreoInv, ProgressInv, NEW r \in Runs, Begin(r)
  PROVE  ProgressInv'
<1>0. /\ ChoreoTypeOK /\ pc[r] = "begin" /\ UNCHANGED <<skipped, stop, node>>
      /\ run' = [run EXCEPT ![r].status = "running"] /\ doc' = [doc EXCEPT ![r] = run'[r]]
      /\ done' = [done EXCEPT ![r] = {}] /\ anyFailed' = [anyFailed EXCEPT ![r] = Cyclic]
      /\ pc' = [pc EXCEPT ![r] = IF Cyclic THEN "decide" ELSE "wave"]
  BY DEF Begin, ChoreoInv
<1>1. run[r] \in RunDoc /\ skipped[r] = {} /\ \A n \in Nodes : run[r].nodes[n] = "pending"
  BY <1>0, RunAtWork DEF AtWork, ProgressInv, ProgressOf
<1> PICK x : x = [run[r] EXCEPT !.status = "running"]
  OBVIOUS
<1>2. x.status = "running" /\ x.nodes = run[r].nodes
  BY <1>1 DEF RunDoc
<1>3. run' = [run EXCEPT ![r] = x]
  BY <1>0 DEF ChoreoTypeOK
<1> PICK p : p = IF Cyclic THEN "decide" ELSE "wave"
  OBVIOUS
<1>4. /\ pc'[r] = p /\ run'[r] = x /\ doc'[r] = x /\ done'[r] = {} /\ anyFailed'[r] = Cyclic
      /\ \A y \in Runs : y # r => /\ pc'[y] = pc[y] /\ run'[y] = run[y] /\ doc'[y] = doc[y]
                                  /\ done'[y] = done[y] /\ anyFailed'[y] = anyFailed[y]
  BY <1>0, <1>3 DEF ChoreoTypeOK
<1>5. \A n \in Nodes : node'[r][n] = "off"
  BY <1>0 DEF ChoreoInv, ThreadsNest
<1>6. p \in {"decide", "wave"} /\ (p = "decide" => Cyclic)
  OBVIOUS
<1>7. Progress(p, {}, {}, x.nodes, node'[r], anyFailed'[r])
  BY <1>1, <1>2, <1>4, <1>5, <1>6, ProgressBegins
<1>8. Final(doc'[r])
  BY <1>2, <1>4, OthersFinal
<1>9. ProgressOf(r)'
  BY <1>0, <1>1, <1>4, <1>6, <1>7, <1>8 DEF ProgressOf, Going
<1>10. LeavesOthers(r)
  BY <1>0, <1>4 DEF LeavesOthers
<1> QED  BY <1>9, <1>10, OthersKept

\* While a run goes on, its progress is all there is to show.
LEMMA GoesOn ==
  ASSUME NEW r \in Runs, ProgressInv, LeavesOthers(r), pc'[r] \in Going, Final(doc'[r]),
         Progress(pc'[r], done'[r], skipped'[r], run'[r].nodes, node'[r], anyFailed'[r]),
         pc'[r] = "decide" /\ stop'[r] # "set" => Cyclic \/ done'[r] = Nodes
  PROVE  ProgressInv'
<1>1. ProgressOf(r)'
  BY DEF ProgressOf, Going
<1> QED  BY <1>1, OthersKept

LEMMA ProgressNow ==
  ASSUME ChoreoInv, ProgressInv, NEW r \in Runs, pc[r] \in Going
  PROVE  /\ Progress(pc[r], done[r], skipped[r], run[r].nodes, node[r], anyFailed[r]) /\ Final(doc[r])
         /\ Typed(done[r], skipped[r], run[r].nodes, node[r], anyFailed[r])
         /\ run[r] \in RunDoc /\ run[r].status \in Active
<1>1. pc[r] \in AtWork /\ pc[r] # "save"
  BY DEF Going, AtWork
<1> QED  BY <1>1, RunTyped, RunAtWork DEF ProgressInv, ProgressOf

LEMMA EnterWaveProgress ==
  ASSUME ChoreoInv, ProgressInv, NEW r \in Runs, EnterWave(r)
  PROVE  ProgressInv'
<1> PICK D, K, s, th, af : D = done[r] /\ K = skipped[r] /\ s = run[r].nodes /\ th = node[r] /\ af = anyFailed[r]
  OBVIOUS
<1>0. ChoreoTypeOK /\ pc[r] = "wave" /\ pc[r] \in Going
  BY DEF EnterWave, ChoreoInv, Going
<1>1. Progress("wave", D, K, s, th, af) /\ Typed(D, K, s, th, af) /\ Final(doc[r])
  BY <1>0, ProgressNow
<1>2. \A n \in Nodes : th[n] = "off"
  BY <1>0 DEF ChoreoInv, ThreadsNest
<1> DEFINE runnable == Wave(D) \ K
           over == stop[r] = "set" \/ Wave(D) = {}
           p == IF over THEN "decide" ELSE IF runnable = {} THEN "wave" ELSE "collect"
           E == IF ~over /\ runnable = {} THEN D \cup Wave(D) ELSE D
           threads == [n \in Nodes |-> IF n \in runnable THEN "new" ELSE th[n]]
<1>3. /\ pc' = [pc EXCEPT ![r] = p] /\ done' = [done EXCEPT ![r] = E]
      /\ node' = IF over THEN node ELSE [node EXCEPT ![r] = threads]
      /\ UNCHANGED <<doc, run, skipped, anyFailed, stop>>
  BY <1>0 DEF EnterWave, ChoreoTypeOK
<1>4. \A n \in Nodes : threads[n] = IF n \in Wave(D) \ K THEN "new" ELSE "off"
  BY <1>2
<1>5. CASE over
  <2>1. p = "decide" /\ E = D
    BY <1>5
  <2>2. stop[r] # "set" => Cyclic \/ D = Nodes
    BY <1>1, <1>5, NoWaveLeft DEF Typed
  <2> HIDE DEF p, E, over, runnable, threads
  <2>3. pc'[r] = "decide" /\ done'[r] = D /\ LeavesOthers(r) /\ UNCHANGED node
    BY <1>0, <1>3, <1>5, <2>1 DEF ChoreoTypeOK, LeavesOthers
  <2>4. Progress("decide", D, K, s, th, af)
    BY <1>1, <1>2 DEF Progress, InWave, Ahead
  <2>5. Progress(pc'[r], done'[r], skipped'[r], run'[r].nodes, node'[r], anyFailed'[r]) /\ Final(doc'[r])
    BY <1>1, <1>3, <2>3, <2>4
  <2> QED  BY <1>3, <2>2, <2>3, <2>5, GoesOn DEF Going
<1>6. CASE ~over /\ runnable = {}
  <2>1. p = "wave" /\ E = D \cup Wave(D) /\ \A n \in Nodes : threads[n] = "off"
    BY <1>4, <1>6
  <2>2. Progress("wave", D \cup Wave(D), K, s, th, af)
    BY <1>1, <1>2, <1>6, WavePasses
  <2>3. threads = th
    BY <1>1, <1>2, <2>1 DEF Typed
  <2> HIDE DEF p, E, over, runnable, threads
  <2>4. pc'[r] = "wave" /\ done'[r] = E /\ LeavesOthers(r) /\ node'[r] = th
    BY <1>0, <1>3, <1>6, <2>1, <2>3 DEF ChoreoTypeOK, LeavesOthers
  <2>5. Progress(pc'[r], done'[r], skipped'[r], run'[r].nodes, node'[r], anyFailed'[r]) /\ Final(doc'[r])
    BY <1>1, <1>3, <2>1, <2>2, <2>4
  <2> QED  BY <2>4, <2>5, GoesOn DEF Going
<1>7. CASE ~over /\ runnable # {}
  <2>1. p = "collect" /\ E = D
    BY <1>7
  <2>2. Progress("collect", D, K, s, threads, af)
    BY <1>1, <1>2, <1>4, WaveEntered
  <2> HIDE DEF p, E, over, runnable, threads
  <2>3. pc'[r] = "collect" /\ done'[r] = D /\ LeavesOthers(r) /\ node'[r] = threads
    BY <1>0, <1>3, <1>7, <2>1 DEF ChoreoTypeOK, LeavesOthers
  <2>4. Progress(pc'[r], done'[r], skipped'[r], run'[r].nodes, node'[r], anyFailed'[r]) /\ Final(doc'[r])
    BY <1>1, <1>3, <2>2, <2>3
  <2> QED  BY <2>3, <2>4, GoesOn DEF Going
<1> QED  BY <1>5, <1>6, <1>7

LEMMA CollectProgress ==
  ASSUME ChoreoInv, ProgressInv, NEW r \in Runs, NEW n \in Nodes, Collect(r, n)
  PROVE  ProgressInv'
<1> PICK D, K, s, th, af : D = done[r] /\ K = skipped[r] /\ s = run[r].nodes /\ th = node[r] /\ af = anyFailed[r]
  OBVIOUS
<1>0. ChoreoTypeOK /\ pc[r] = "collect" /\ pc[r] \in Going /\ th[n] \in {"good", "bad"}
  BY DEF Collect, ChoreoInv, Going
<1>1. Progress("collect", D, K, s, th, af) /\ Typed(D, K, s, th, af) /\ Final(doc[r])
      /\ run[r] \in RunDoc /\ run[r].status \in Active
  BY <1>0, ProgressNow
<1> PICK gone : gone = IF th[n] = "bad" THEN Downstream[n] \ K ELSE {}
  OBVIOUS
<1> PICK left : left = {m \in Nodes : m # n /\ th[m] \in {"new", "busy", "good", "bad"}}
  OBVIOUS
<1> PICK s2 : s2 = [m \in Nodes |-> IF m \in gone /\ s[m] = "pending" THEN "cancelled" ELSE s[m]]
  OBVIOUS
<1> PICK x : x = [run[r] EXCEPT !.nodes = s2]
  OBVIOUS
<1> PICK p : p = IF left = {} THEN "wave" ELSE "collect"
  OBVIOUS
<1> PICK E : E = IF left = {} THEN D \cup Wave(D) ELSE D
  OBVIOUS
<1> PICK af2 : af2 = (af \/ th[n] = "bad")
  OBVIOUS
<1>2. /\ run' = [run EXCEPT ![r].nodes = s2]
      /\ doc' = (IF gone = {} THEN doc ELSE [doc EXCEPT ![r] = run'[r]])
      /\ skipped' = [skipped EXCEPT ![r] = K \cup gone] /\ anyFailed' = [anyFailed EXCEPT ![r] = af2]
      /\ ThreadTo(r, n, "off") /\ pc' = [pc EXCEPT ![r] = p] /\ done' = [done EXCEPT ![r] = E]
      /\ stop' = stop
  BY <1>0 DEF Collect, ChoreoTypeOK, ThreadTo
<1>3. x.nodes = s2 /\ x.status \in Active
  BY <1>1 DEF RunDoc
<1>4. run' = [run EXCEPT ![r] = x]
  BY <1>0, <1>2 DEF ChoreoTypeOK
<1>5. /\ node'[r][n] = "off" /\ \A y \in Runs : y # r => node'[y] = node[y]
      /\ \A m \in Nodes : m # n => node'[r][m] = th[m]
      /\ node' \in [Runs -> [Nodes -> {"off", "new", "busy", "good", "bad"}]]
  BY <1>0, <1>2, ThreadSet
<1>6. /\ run'[r] = x /\ pc'[r] = p /\ done'[r] = E /\ skipped'[r] = K \cup gone /\ anyFailed'[r] = af2
      /\ doc'[r] = doc[r] \/ doc'[r] = x
      /\ LeavesOthers(r)
  BY <1>0, <1>2, <1>4, <1>5 DEF ChoreoTypeOK, LeavesOthers
<1>7. Final(doc'[r])
  BY <1>1, <1>3, <1>6, OthersFinal DEF Active
<1> PICK th2 : th2 = node'[r]
  OBVIOUS
<1>8. th2[n] = "off" /\ ExceptAt(n, th2, th) /\ Strikes(n, K, s, th, af, gone, s2, af2)
  BY <1>5 DEF ExceptAt, Strikes
<1>9. Progress("collect", D, K \cup gone, s2, th2, af2)
  BY <1>0, <1>1, <1>8, NodeCollected
<1>10. Typed(D, K \cup gone, s2, th2, af2)
  <2>1. Downstream[n] \subseteq Nodes
    BY DEF Downstream
  <2>2. s2 \in [Nodes -> NodeStatus]
    BY <1>1 DEF Typed, NodeStatus
  <2>3. th2 \in [Nodes -> {"off", "new", "busy", "good", "bad"}]
    BY <1>5
  <2> QED  BY <1>1, <2>1, <2>2, <2>3 DEF Typed
<1>11. Progress(p, E, K \cup gone, s2, th2, af2) /\ p \in {"wave", "collect"}
  <2>1. CASE left = {}
    <3>1. \A m \in Nodes : th2[m] = "off"
      BY <1>1, <1>5, <2>1 DEF Typed
    <3>2. Progress("wave", D \cup Wave(D), K \cup gone, s2, th2, af2)
      BY <1>9, <1>10, <3>1, WavePasses
    <3> QED  BY <2>1, <3>2
  <2>2. CASE left # {}
    BY <1>9, <2>2
  <2> QED  BY <2>1, <2>2
<1>12. Progress(pc'[r], done'[r], skipped'[r], run'[r].nodes, node'[r], anyFailed'[r])
  BY <1>3, <1>6, <1>11
<1> QED  BY <1>6, <1>7, <1>11, <1>12, GoesOn DEF Going

\* NodeStarts and NodeEnds: the node's state and its thread go together.
LEMMA NodeProgress ==
  ASSUME ChoreoInv, ProgressInv, NEW r \in Runs, NEW n \in Nodes, node[r][n] \in {"new", "busy"},
         NEW v, NEW h, Matches(h, v),
         run' = [run EXCEPT ![r].nodes[n] = v], doc' = [doc EXCEPT ![r] = run'[r]],
         ThreadTo(r, n, h), UNCHANGED <<pc, done, skipped, anyFailed, stop>>
  PROVE  ProgressInv'
<1> PICK D, K, s, th, af : D = done[r] /\ K = skipped[r] /\ s = run[r].nodes /\ th = node[r] /\ af = anyFailed[r]
  OBVIOUS
<1>0. ChoreoTypeOK /\ pc[r] = "collect" /\ pc[r] \in Going /\ th[n] \in {"new", "busy"}
  BY DEF ChoreoInv, ThreadsNest, Going
<1>1. Progress("collect", D, K, s, th, af) /\ Typed(D, K, s, th, af)
      /\ run[r] \in RunDoc /\ run[r].status \in Active
  BY <1>0, ProgressNow
<1>2. h \in {"off", "new", "busy", "good", "bad"}
  BY DEF Matches
<1>3. /\ node'[r][n] = h /\ \A y \in Runs : y # r => node'[y] = node[y]
      /\ \A m \in Nodes : m # n => node'[r][m] = th[m]
  BY <1>0, <1>2, ThreadSet
<1> PICK x : x = [run[r] EXCEPT !.nodes[n] = v]
  OBVIOUS
<1>4. x.nodes[n] = v /\ x.status = run[r].status /\ \A m \in Nodes : m # n => x.nodes[m] = s[m]
  BY <1>1 DEF RunDoc
<1>5. run' = [run EXCEPT ![r] = x]
  BY <1>0 DEF ChoreoTypeOK
<1>6. run'[r] = x /\ doc'[r] = x /\ LeavesOthers(r)
  BY <1>0, <1>3, <1>5 DEF ChoreoTypeOK, LeavesOthers
<1>7. Progress("collect", D, K, x.nodes, node'[r], af)
  <2>1. ExceptAt(n, x.nodes, s) /\ ExceptAt(n, node'[r], th)
    BY <1>3, <1>4 DEF ExceptAt
  <2> QED  BY <1>0, <1>1, <1>3, <1>4, <2>1, NodeTurns
<1>8. Final(doc'[r])
  BY <1>1, <1>4, <1>6, OthersFinal DEF Active
<1>9. Progress(pc'[r], done'[r], skipped'[r], run'[r].nodes, node'[r], anyFailed'[r]) /\ pc'[r] = "collect"
  BY <1>0, <1>6, <1>7
<1> QED  BY <1>6, <1>8, <1>9, GoesOn DEF Going

LEMMA NodeStartsProgress ==
  ASSUME ChoreoInv, ProgressInv, NEW r \in Runs, NEW n \in Nodes, NodeStarts(r, n)
  PROVE  ProgressInv'
<1> PICK v : v = IF n \in Buckets THEN "completed" ELSE "running"
  OBVIOUS
<1> PICK h : h = IF n \in Buckets THEN "good" ELSE "busy"
  OBVIOUS
<1>1. Matches(h, v)
  BY DEF Matches
<1>2. /\ node[r][n] \in {"new", "busy"} /\ run' = [run EXCEPT ![r].nodes[n] = v]
      /\ doc' = [doc EXCEPT ![r] = run'[r]] /\ ThreadTo(r, n, h)
      /\ UNCHANGED <<pc, done, skipped, anyFailed, stop>>
  BY DEF NodeStarts, ThreadTo
<1> QED  BY <1>1, <1>2, NodeProgress

LEMMA NodeEndsProgress ==
  ASSUME ChoreoInv, ProgressInv, NEW r \in Runs, NEW n \in Nodes, NodeEnds(r, n)
  PROVE  ProgressInv'
<1> PICK good \in BOOLEAN : good = (\A t \in TasksOf(n) : task[r][t].pc = "good")
  OBVIOUS
<1> PICK v : v = IF good THEN "completed" ELSE "failed"
  OBVIOUS
<1> PICK h : h = IF good THEN "good" ELSE "bad"
  OBVIOUS
<1>1. Matches(h, v)
  BY DEF Matches
<1>2. /\ node[r][n] \in {"new", "busy"} /\ run' = [run EXCEPT ![r].nodes[n] = v]
      /\ doc' = [doc EXCEPT ![r] = run'[r]] /\ ThreadTo(r, n, h)
      /\ UNCHANGED <<pc, done, skipped, anyFailed, stop>>
  BY DEF NodeEnds, ThreadTo
<1> QED  BY <1>1, <1>2, NodeProgress

\* When no wave is left, every node has completed, failed or been cancelled with a failed
\* one, and any_failed says which.
DecidedBy(x, s, af) ==
  x.nodes = s /\ (af => x.status = "failed") /\ (~af => x.status = "completed") /\ (Cyclic => af)

LEMMA DecidedRight ==
  ASSUME NEW K, NEW s, NEW th, NEW af, AllOff(th),
         Cyclic \/ Progress("decide", Nodes, K, s, th, af),
         NEW x, DecidedBy(x, s, af)
  PROVE  Final(x)
<1> USE DEF DecidedBy
<1>1. CASE Cyclic
  BY <1>1 DEF Final
<1>2. CASE ~Cyclic
  <2>1. Behind(Nodes, K, s) /\ Stranded(K, s, th, af) /\ FailureKnown(s, af)
    BY <1>2 DEF Progress
  <2>2. CASE af
    <3>1. \E n \in Nodes : s[n] = "failed"
      BY <1>2, <2>1, <2>2 DEF FailureKnown
    <3>2. \A n \in Nodes : s[n] \notin {"pending", "running"}
      BY <2>1 DEF Behind, Stranded
    <3> QED  BY <2>2, <3>1, <3>2 DEF Final
  <2>3. CASE ~af
    <3>1. \A n \in Nodes : s[n] = "completed"
      BY <2>1, <2>3 DEF Behind, Stranded, AllOff
    <3> QED  BY <2>3, <3>1 DEF Final
  <2> QED  BY <2>2, <2>3
<1> QED  BY <1>1, <1>2

LEMMA DecideProgress ==
  ASSUME ChoreoInv, ProgressInv, NEW r \in Runs, Decide(r)
  PROVE  ProgressInv'
<1> PICK v : v = IF stop[r] = "set" THEN "cancelled" ELSE IF anyFailed[r] THEN "failed" ELSE "completed"
  OBVIOUS
<1>0. /\ ChoreoTypeOK /\ pc[r] = "decide" /\ pc[r] \in Going /\ run' = [run EXCEPT ![r].status = v]
      /\ pc' = [pc EXCEPT ![r] = "save"] /\ UNCHANGED <<doc, done, skipped, anyFailed, stop, node>>
  BY DEF Decide, ChoreoInv, Going
<1>1. /\ Progress("decide", done[r], skipped[r], run[r].nodes, node[r], anyFailed[r]) /\ Final(doc[r])
      /\ Typed(done[r], skipped[r], run[r].nodes, node[r], anyFailed[r]) /\ run[r] \in RunDoc
  BY <1>0, ProgressNow
<1> PICK x : x = [run[r] EXCEPT !.status = v]
  OBVIOUS
<1>2. x.status = v /\ x.nodes = run[r].nodes
  BY <1>1 DEF RunDoc
<1>3. run' = [run EXCEPT ![r] = x]
  BY <1>0 DEF ChoreoTypeOK
<1>4. run'[r] = x /\ pc'[r] = "save" /\ LeavesOthers(r)
  BY <1>0, <1>3 DEF ChoreoTypeOK, LeavesOthers
<1>5. AllOff(node[r])
  BY <1>0 DEF ChoreoInv, ThreadsNest, AllOff
<1>6. Final(x)
  <2>1. CASE stop[r] = "set"
    <3>1. x.status = "cancelled"
      BY <1>2, <2>1
    <3> QED  BY <3>1, OthersFinal
  <2>2. CASE stop[r] # "set"
    <3>1. Cyclic \/ done[r] = Nodes
      BY <1>0, <2>2 DEF ProgressInv, ProgressOf
    <3>2. Cyclic => anyFailed[r]
      BY <1>1 DEF Progress, FailureKnown
    <3>3. DecidedBy(x, run[r].nodes, anyFailed[r])
      BY <1>2, <2>2, <3>2 DEF DecidedBy
    <3>4. Cyclic \/ Progress("decide", Nodes, skipped[r], run[r].nodes, node[r], anyFailed[r])
      BY <1>1, <3>1
    <3> QED  BY <1>5, <3>3, <3>4, DecidedRight
  <2> QED  BY <2>1, <2>2
<1>7. ProgressOf(r)'
  <2>1. Final(doc'[r]) /\ Final(run'[r])
    BY <1>0, <1>1, <1>4, <1>6
  <2> QED  BY <1>4, <2>1 DEF ProgressOf, Going
<1> QED  BY <1>4, <1>7, OthersKept

LEMMA FinishProgress ==
  ASSUME ChoreoInv, ProgressInv, NEW r \in Runs, Finish(r)
  PROVE  ProgressInv'
<1>0. /\ ChoreoTypeOK /\ pc[r] = "save" /\ doc' = [doc EXCEPT ![r] = run[r]] /\ pc' = [pc EXCEPT ![r] = "done"]
      /\ stop' = [stop EXCEPT ![r] = "none"] /\ UNCHANGED <<run, done, skipped, anyFailed, node>>
  BY DEF Finish, ChoreoInv
<1>1. Final(run[r])
  BY <1>0 DEF ProgressInv, ProgressOf
<1>2. doc'[r] = run[r] /\ pc'[r] = "done" /\ LeavesOthers(r)
  BY <1>0 DEF ChoreoTypeOK, LeavesOthers
<1>3. ProgressOf(r)'
  <2>1. Final(doc'[r])
    BY <1>1, <1>2
  <2> QED  BY <1>2, <2>1 DEF ProgressOf, Going
<1> QED  BY <1>2, <1>3, OthersKept

\* The cancel request sets the stop flag and saves a document that promises nothing.
LEMMA CancelProgress ==
  ASSUME ChoreoInv, ProgressInv, NEW r \in Runs, CancelFlags(r) \/ CancelSaves(r)
  PROVE  ProgressInv'
<1>0. ChoreoTypeOK /\ ProgressOf(r) /\ Final(doc[r])
  BY DEF ChoreoInv, ProgressInv, ProgressOf
<1>1. CASE CancelFlags(r)
  <2>1. /\ UNCHANGED <<doc, run, pc, done, skipped, anyFailed, node>>
        /\ stop' = [stop EXCEPT ![r] = IF @ = "none" THEN @ ELSE "set"]
    BY <1>1 DEF CancelFlags
  <2>2. Leaves(r) /\ LeavesOthers(r) /\ doc'[r] = doc[r]
    BY <1>0, <2>1 DEF ChoreoTypeOK, Leaves, LeavesOthers
  <2>3. Final(doc'[r])
    BY <1>0, <2>2
  <2> QED  BY <1>0, <2>2, <2>3, LeavesKeeps, OthersKept
<1>2. CASE CancelSaves(r)
  <2> PICK x : x = [cancel[r].copy EXCEPT !.status = "cancelled"]
    OBVIOUS
  <2>1. /\ UNCHANGED <<stop, run, pc, done, skipped, anyFailed, node>> /\ doc' = [doc EXCEPT ![r] = x]
        /\ cancel[r].pc = "sent"
    BY <1>2 DEF CancelSaves
  <2>2. cancel[r].copy \in RunDoc
    BY <1>0, <2>1, CancelMoves
  <2>3. x.status = "cancelled"
    BY <2>2, StatusSet
  <2>4. Leaves(r) /\ LeavesOthers(r) /\ doc'[r] = x
    BY <1>0, <2>1 DEF ChoreoTypeOK, Leaves, LeavesOthers
  <2>5. Final(doc'[r])
    BY <2>3, <2>4, OthersFinal
  <2> QED  BY <1>0, <2>4, <2>5, LeavesKeeps, OthersKept
<1> QED  BY <1>1, <1>2

LEMMA PurgeProgress ==
  ASSUME ChoreoInv, ProgressInv, Purge
  PROVE  ProgressInv'
<1> SUFFICES ASSUME NEW r \in Runs  PROVE ProgressOf(r)'
  BY DEF ProgressInv
<1>1. ProgressOf(r) /\ Leaves(r) /\ doc'[r] = Absent
  BY DEF ProgressInv, Purge, Leaves
<1>2. Final(doc'[r])
  BY <1>1, OthersFinal DEF Absent
<1> QED  BY <1>1, <1>2, LeavesKeeps

LEMMA CrashProgress ==
  ASSUME ChoreoInv, ProgressInv, Crash
  PROVE  ProgressInv'
<1> SUFFICES ASSUME NEW r \in Runs  PROVE ProgressOf(r)'
  BY DEF ProgressInv
<1>1. /\ pc'[r] \in {"off", "done", "dead"} /\ (pc'[r] = "off" => pc[r] \in {"off", "checked"})
      /\ UNCHANGED <<doc, skipped>>
  BY DEF Crash
<1>2. Final(doc[r]) /\ (pc[r] \in {"off", "checked"} => skipped[r] = {})
  BY DEF ProgressInv, ProgressOf
<1>3. Final(doc'[r])
  BY <1>1, <1>2
<1> QED  BY <1>1, <1>2, <1>3 DEF ProgressOf, Going

LEMMA ProgressStep ==
  ASSUME ChoreoInv, ProgressInv, [ChoreoNext]_choreoVars
  PROVE  ProgressInv'
<1>1. CASE Delete \/ ProjectDelete
  BY <1>1, ElsewhereKept DEF Delete, ProjectDelete
<1>2. CASE Purge \/ Crash
  BY <1>2, PurgeProgress, CrashProgress
<1>3. CASE \E r \in Runs : CancelLoads(r) \/ CancelSends(r)
  BY <1>3, ElsewhereKept DEF CancelLoads, CancelSends
<1>4. CASE \E r \in Runs : Check(r) \/ RunStep(r) \/ CancelFlags(r) \/ CancelSaves(r)
  BY <1>4, CheckProgress, LaunchProgress, BeginProgress, EnterWaveProgress, DecideProgress, FinishProgress,
     CollectProgress, NodeStartsProgress, NodeEndsProgress, CancelProgress DEF RunStep
<1>5. CASE \E r \in Runs, t \in Tasks : TaskStep(r, t)
  BY <1>5, ElsewhereKept DEF TaskStep, TaskStarts, Submit, Enter, Poll
<1>6. CASE \E j \in Jobs : JobEnds(j)
  BY <1>6, ElsewhereKept DEF JobEnds
<1>7. CASE UNCHANGED choreoVars
  BY <1>7, ElsewhereKept DEF choreoVars
<1> QED  BY <1>1, <1>2, <1>3, <1>4, <1>5, <1>6, <1>7 DEF ChoreoNext, CancelStep

LEMMA ProgressInit ==
  ASSUME ChoreoInit
  PROVE  ProgressInv
<1> SUFFICES ASSUME NEW r \in Runs  PROVE ProgressOf(r)
  BY DEF ProgressInv
<1>1. doc[r] = Absent /\ pc[r] = "off" /\ skipped[r] = {}
  BY DEF ChoreoInit
<1>2. Final(doc[r])
  BY <1>1, OthersFinal DEF Absent
<1> QED  BY <1>1, <1>2 DEF ProgressOf, Going

\* The waves behind a run are closed under dependencies and over, those ahead untouched,
\* and what a failed node strands is cancelled: _execute_run's bookkeeping is inductive.
THEOREM ProgressInvariant == ChoreoSpec => []ProgressInv
<1>1. ChoreoInit => ProgressInv
  BY ProgressInit
<1>2. ChoreoInv /\ ProgressInv /\ [ChoreoNext]_choreoVars => ProgressInv'
  BY ProgressStep
<1> QED  BY <1>1, <1>2, ChoreoInvariant, PTL DEF ChoreoSpec

\* A node gets its thread, and its jobs are submitted, only when every node it depends on,
\* directly or through others, has completed: for any graph and any failures.
THEOREM DependenciesAlwaysFirst == ChoreoSpec => []DependenciesFirst
<1>1. ChoreoInv /\ ProgressInv => DependenciesFirst
  <2> SUFFICES ASSUME ChoreoInv, ProgressInv, NEW r \in Runs, NEW n \in Nodes, node[r][n] \in {"new", "busy"},
                      NEW m \in Nodes, n \in Downstream[m]
               PROVE  run[r].nodes[m] = "completed"
    BY DEF DependenciesFirst
  <2> PICK D, K, s, th, af : D = done[r] /\ K = skipped[r] /\ s = run[r].nodes /\ th = node[r] /\ af = anyFailed[r]
    OBVIOUS
  <2>1. pc[r] = "collect" /\ pc[r] \in Going
    BY DEF ChoreoInv, ThreadsNest, Going
  <2>2. Progress("collect", D, K, s, th, af) /\ Typed(D, K, s, th, af)
    BY <2>1, ProgressNow
  <2>3. Behind(D, K, s) /\ Stranded(K, s, th, af) /\ InWave("collect", D, K, s, th)
    BY <2>2 DEF Progress
  <2>4. n \in Wave(D) /\ n \notin K
    BY <2>3 DEF InWave
  <2>5. m \in D
    BY <2>3, <2>4, DownstreamWaits DEF Behind, Wave
  <2>6. m \notin K /\ s[m] \in {"completed", "failed"}
    BY <2>3, <2>4, <2>5 DEF Behind, Stranded
  <2>7. th[m] = "off"
    BY <2>3, <2>5 DEF InWave, Wave
  <2>8. s[m] # "failed"
    BY <2>3, <2>4, <2>7 DEF Stranded
  <2> QED  BY <2>6, <2>8
<1> QED  BY <1>1, ChoreoInvariant, ProgressInvariant, PTL

\* A run shown as completed has completed every node, one shown as failed has a node that
\* failed and none under way (or a cyclic graph), and a cancel answered in time is kept:
\* what _execute_run saves is what became of the nodes.
THEOREM OutcomeAlwaysTrue == ChoreoSpec => []OutcomeIsTrue
<1>1. ProgressInv /\ CancelIsKept => OutcomeIsTrue
  BY DEF ProgressInv, ProgressOf, Final, OutcomeIsTrue
<1> QED  BY <1>1, ProgressInvariant, CancelIsKeptAlways, PTL
=============================================================================
