----------------------------- MODULE JobService -----------------------------
(***************************************************************************)
(* Jobs across the mesh: submission, placement on another endpoint, and    *)
(* the replication of results.                                             *)
(*                                                                         *)
(* An endpoint has one router thread, which runs one command to its end    *)
(* before it takes the next, calls to other endpoints included: a caller   *)
(* waits for the other's router thread or for its own timeout.  A command  *)
(* whose caller has given up stays in the queue and is still carried out.  *)
(* Results travel on threads of their own, one per finished job, and on    *)
(* the leader's consistency sweeper.                                       *)
(***************************************************************************)
EXTENDS Naturals, Sequences, FiniteSets, SequencesExt

CONSTANTS Endpoints,
          Leader,         \* who leads; the same throughout
          Jobs,
          MaxTries,       \* AXO_ENDPOINT_RESULT_REPLICATION_MAX_RETRIES
          ChunkSize,      \* AXO_ENDPOINT_RESULT_CONSISTENCY_CHECK_CHUNK_SIZE
          MaxForwards,    \* bound: JOB_FORWARDs
          MaxRivals,      \* bound: jobs reported twice
          MaxChecks,      \* bound: CONSISTENCY_CHECK_REQUESTs
          MaxQueue,       \* bound: commands waiting when the sweeper sends its own
          Nobody

ASSUME JobServiceAssumption ==
  /\ Leader \in Endpoints
  /\ {MaxTries, ChunkSize, MaxQueue} \subseteq Nat \ {0}
  /\ {MaxForwards, MaxRivals, MaxChecks} \subseteq Nat

VARIABLES
  results,    \* results_store of each endpoint
  active,     \* App._active_job_ids
  identity,   \* RouterServer._job_identities: who waits for a push
  running,    \* jobs the endpoint's runtime has accepted and not reported
  runs,       \* executions of each job, where (history)
  inbox,      \* commands waiting for the router thread
  th,         \* threads: routers, result reporters and the sweeper
  hash,       \* ResultConsistencyStore: the result each copy was synced with
  sweeper,    \* ResultConsistencySweeper
  late,       \* jobs for which somebody gave up waiting (history)
  lost,       \* results whose replication was given up (history)
  used        \* bounds used up

jobVars == <<results, active, identity, running, runs, inbox, th, hash, sweeper,
             late, lost, used>>

None    == "none"
Final   == {"done", "failed", "rival"}
Results == {None, "PENDING"} \cup Final

Router(e)      == <<e, "router">>
Reporter(e, j) == <<e, j>>
Sweep          == <<Leader, "sweeper">>
Threads == {Router(e) : e \in Endpoints} \cup {Reporter(e, j) : e \in Endpoints, j \in Jobs}
             \cup {Sweep}

\* Names are kept apart: a client of e is called e, and no job is called like a thread.
ASSUME NamesAssumption ==
  /\ {"router", "sweeper"} \cap Jobs = {}
  /\ Nobody \notin Endpoints \cup Threads
  /\ Endpoints \cap Threads = {}

Idle == [op |-> "idle"]
Peers(e) == Endpoints \ {e}

JobInit ==
  /\ results = [e \in Endpoints |-> [j \in Jobs |-> None]]
  /\ active = [e \in Endpoints |-> {}]
  /\ identity = [e \in Endpoints |-> {}]
  /\ running = [e \in Endpoints |-> {}]
  /\ runs = [e \in Endpoints |-> [j \in Jobs |-> 0]]
  /\ inbox = [e \in Endpoints |-> <<>>]
  /\ th = [t \in Threads |-> Idle]
  /\ hash = [e \in Endpoints |-> [j \in Jobs |-> None]]
  /\ sweeper = [known |-> <<>>, cursor |-> 0, priority |-> {}, targets |-> <<>>]
  /\ late = {}
  /\ lost = {}
  /\ used = [forwards |-> 0, rivals |-> 0, checks |-> 0]

-----------------------------------------------------------------------------
(* Calls between endpoints *)

\* A thread waits for to; the command names the thread to answer.
Waiting(t) == th[t].op # "idle" /\ th[t].to # Nobody /\ th[t].answer = None
Answered(t) == th[t].op # "idle" /\ th[t].to # Nobody /\ th[t].answer # None

Send(e, m) == inbox' = [inbox EXCEPT ![e] = Append(@, m)]

\* The thread goes on to stage s, where it waits for x.
Moves(t, s, x) == th' = [th EXCEPT ![t].stage = s, ![t].to = x, ![t].answer = None]

\* The reply reaches a caller that still waits for it.
WithAnswer(ths, t, a) ==
  IF t = Nobody THEN ths ELSE [ths EXCEPT ![t].answer = a]

\* The call is over: its command, still queued or under way, has no caller.
Orphaned(q, t) == [i \in DOMAIN q |-> IF q[i].from = t THEN [q[i] EXCEPT !.from = Nobody] ELSE q[i]]

\* Mutant of TimesOut: the call has no timeout.
TimesOutNever(t) == t \in {}

\* _forward_command times out while the other router is at something else.
TimesOut(t) ==
  /\ Waiting(t)
  /\ th[Router(th[t].to)] # Idle
  /\ inbox' = [inbox EXCEPT ![th[t].to] = Orphaned(@, t)]
  /\ th' = [u \in Threads |->
       CASE u = t -> [th[t] EXCEPT !.answer = "err"]
         [] u # t /\ th[u].op \in {"submit", "sync"} /\ th[u].caller = t ->
              [th[u] EXCEPT !.caller = Nobody]
         [] OTHER -> th[u]]
  /\ late' = late \cup {th[t].job}
  /\ UNCHANGED <<results, active, identity, running, runs, hash, sweeper, lost, used>>

-----------------------------------------------------------------------------
(* submit_job, for JOB_SUBMIT and JOB_FORWARD *)

\* Mutant of Accept: JOB_SUBMITTED is not emitted.
AcceptUnseen(e, j, caller) ==
  /\ results' = [results EXCEPT ![e][j] = "PENDING"]
  /\ th' = [th EXCEPT ![Router(e)] = [op |-> "submit", job |-> j, caller |-> caller,
                                      stage |-> "place", to |-> Nobody, answer |-> None]]
  /\ UNCHANGED active

Accept(e, j, caller) ==
  /\ results' = [results EXCEPT ![e][j] = "PENDING"]
  /\ active' = [active EXCEPT ![e] = @ \cup {j}]
  /\ th' = [th EXCEPT ![Router(e)] = [op |-> "submit", job |-> j, caller |-> caller,
                                      stage |-> "place", to |-> Nobody, answer |-> None]]

\* JOB_SUBMIT from a client, under a fresh job id.
Submit(e, j) ==
  /\ th[Router(e)] = Idle
  /\ \A x \in Endpoints : results[x][j] = None
  /\ Accept(e, j, e)
  /\ UNCHANGED <<identity, running, runs, inbox, hash, sweeper, late, lost, used>>

Placing(e) == th[Router(e)].op = "submit" /\ th[Router(e)].stage = "place"

\* The runtime accepts the job: a worker or a container at hand, or a new one in
\* a slot the leader granted.
RunHere(e) ==
  /\ Placing(e) \/ (Answered(Router(e)) /\ th[Router(e)].answer = "granted")
  /\ LET j == th[Router(e)].job
     IN  /\ running' = [running EXCEPT ![e] = @ \cup {j}]
         /\ runs' = [runs EXCEPT ![e][j] = @ + 1]
  /\ Moves(Router(e), "ok", Nobody)
  /\ UNCHANGED <<results, active, identity, inbox, hash, sweeper, late, lost, used>>

\* No container at hand: CONCURRENCY_SLOT_REQUEST through the leader proxy.
AskLeader(e) ==
  /\ Placing(e) /\ e # Leader
  /\ Send(Leader, [op |-> "slot", job |-> th[Router(e)].job, from |-> Router(e), val |-> None])
  /\ Moves(Router(e), "slot", Leader)
  /\ UNCHANGED <<results, active, identity, running, runs, hash, sweeper, late, lost, used>>

\* The leader, asked in process or by a call, places the job with x.
ForwardTo(e, x) ==
  /\ x # e
  /\ \/ /\ Placing(e) /\ e = Leader
        /\ used.forwards < MaxForwards
        /\ used' = [used EXCEPT !.forwards = @ + 1]
     \/ /\ Answered(Router(e)) /\ th[Router(e)].answer = "place"
        /\ UNCHANGED used
  /\ Send(x, [op |-> "forward", job |-> th[Router(e)].job, from |-> Router(e), val |-> None])
  /\ Moves(Router(e), "forward", x)
  /\ UNCHANGED <<results, active, identity, running, runs, hash, sweeper, late, lost>>

\* JOB_FORWARD was accepted elsewhere.
Forwarded(e) ==
  /\ Answered(Router(e)) /\ th[Router(e)].stage = "forward" /\ th[Router(e)].answer = "ok"
  /\ Moves(Router(e), "ok", Nobody)
  /\ UNCHANGED <<results, active, identity, running, runs, inbox, hash, sweeper,
                 late, lost, used>>

\* Mutant of InvokeFails: a job that could not be placed elsewhere runs here.
InvokeFailsRunsHere(e) ==
  /\ Answered(Router(e)) /\ th[Router(e)].answer = "err"
  /\ th[Router(e)].op = "submit"
  /\ LET j == th[Router(e)].job
     IN  /\ running' = [running EXCEPT ![e] = @ \cup {j}]
         /\ runs' = [runs EXCEPT ![e][j] = @ + 1]
  /\ Moves(Router(e), "ok", Nobody)
  /\ UNCHANGED <<results, active, identity, inbox, hash, sweeper, late, lost, used>>

\* invoke fails: FAILED is stored, no event is emitted, nothing is replicated.
InvokeFails(e) ==
  /\ Answered(Router(e)) /\ th[Router(e)].answer = "err"
  /\ th[Router(e)].op = "submit"
  /\ results' = [results EXCEPT ![e][th[Router(e)].job] = "failed"]
  /\ Moves(Router(e), "err", Nobody)
  /\ UNCHANGED <<active, identity, running, runs, inbox, hash, sweeper, late, lost, used>>

\* The router sends the reply and, for a client's job, remembers whom to push to:
\* the job may be over by then.
Reply(e) ==
  /\ th[Router(e)].op = "submit" /\ th[Router(e)].stage \in {"ok", "err"}
  /\ LET r == th[Router(e)]
         freed == [th EXCEPT ![Router(e)] = Idle]
     IN  IF r.caller = e
         THEN /\ th' = freed
              /\ identity' = [identity EXCEPT ![e] = IF r.stage = "ok" THEN @ \cup {r.job} ELSE @]
         ELSE /\ th' = WithAnswer(freed, r.caller, r.stage)
              /\ UNCHANGED identity
  /\ UNCHANGED <<results, active, running, runs, inbox, hash, sweeper, late, lost, used>>

\* A poll of a finished job, after which no push is due.
Poll(e, j) ==
  /\ th[Router(e)] = Idle
  /\ j \in identity[e] /\ results[e][j] \in Final
  /\ identity' = [identity EXCEPT ![e] = @ \ {j}]
  /\ UNCHANGED <<results, active, running, runs, inbox, th, hash, sweeper, late, lost, used>>

-----------------------------------------------------------------------------
(* on_complete and the replication of the result *)

\* The bookkeeping of on_complete: store, JOB_COMPLETED or JOB_FAILED, push.
Record(e, j, v) ==
  /\ results' = [results EXCEPT ![e][j] = v]
  /\ active' = [active EXCEPT ![e] = @ \ {j}]
  /\ identity' = [identity EXCEPT ![e] = @ \ {j}]

Report(e, j, v) ==
  [op |-> IF e = Leader THEN "sync" ELSE "report", job |-> j, val |-> v, caller |-> Nobody,
   stage |-> "put", to |-> Nobody, answer |-> None, left |-> Peers(e), tries |-> 0]

Complete(e, j) ==
  /\ j \in running[e]
  /\ running' = [running EXCEPT ![e] = @ \ {j}]
  /\ Record(e, j, "done")
  /\ th' = [th EXCEPT ![Reporter(e, j)] = Report(e, j, "done")]
  /\ UNCHANGED <<runs, inbox, hash, sweeper, late, lost, used>>

\* The runtime reports a job once more: a cancel that raced with its end.
CompleteAgain(e, j) ==
  /\ used.rivals < MaxRivals
  /\ results[e][j] = "done" /\ runs[e][j] > 0 /\ th[Reporter(e, j)] = Idle
  /\ Record(e, j, "rival")
  /\ th' = [th EXCEPT ![Reporter(e, j)] = Report(e, j, "rival")]
  /\ used' = [used EXCEPT !.rivals = @ + 1]
  /\ UNCHANGED <<running, runs, inbox, hash, sweeper, late, lost>>

\* make_replicate_fn on a follower: JOB_RESULT_SYNC through the leader proxy.
SendReport(t) ==
  /\ th[t].op = "report" /\ th[t].to = Nobody /\ th[t].tries < MaxTries
  /\ Send(Leader, [op |-> "sync", job |-> th[t].job, from |-> t, val |-> th[t].val])
  /\ th' = [th EXCEPT ![t].to = Leader, ![t].answer = None, ![t].tries = @ + 1]
  /\ UNCHANGED <<results, active, identity, running, runs, hash, sweeper, late, lost, used>>

\* push_with_retry: done when accepted, again when not, given up after MaxTries.
ReportEnds(t) ==
  /\ th[t].op = "report" /\ Answered(t)
  /\ LET over == th[t].answer = "ok" \/ th[t].tries = MaxTries
     IN  /\ th' = IF over THEN [th EXCEPT ![t] = Idle] ELSE [th EXCEPT ![t].to = Nobody]
         /\ lost' = IF over /\ th[t].answer # "ok" THEN lost \cup {th[t].job} ELSE lost
  /\ UNCHANGED <<results, active, identity, running, runs, inbox, hash, sweeper, late, used>>

\* JobResultSyncHandler: the leader stores its copy ...
SyncPut(t) ==
  /\ th[t].op = "sync" /\ th[t].stage = "put"
  /\ results' = [results EXCEPT ![Leader][th[t].job] = th[t].val]
  /\ th' = [th EXCEPT ![t].stage = "mark"]
  /\ UNCHANGED <<active, identity, running, runs, inbox, hash, sweeper, late, lost, used>>

\* ... marks it synced ...
SyncMark(t) ==
  /\ th[t].op = "sync" /\ th[t].stage = "mark"
  /\ hash' = [hash EXCEPT ![Leader][th[t].job] = th[t].val]
  /\ sweeper' = [sweeper EXCEPT !.known = IF th[t].job \in Range(@) THEN @
                                          ELSE Append(@, th[t].job)]
  /\ th' = [th EXCEPT ![t].stage = "fanout"]
  /\ UNCHANGED <<results, active, identity, running, runs, inbox, late, lost, used>>

Fanning(t) == th[t].op \in {"sync", "verify"} /\ th[t].stage = "fanout"

\* ... and pushes it to one peer after the other (fanout_result_to_peers).
FanOut(t, p) ==
  /\ Fanning(t) /\ th[t].to = Nobody /\ p \in th[t].left
  /\ th[t].op = "verify" => Len(inbox[p]) < MaxQueue
  /\ Send(p, [op |-> "replicate", job |-> th[t].job, from |-> t, val |-> th[t].val,
              hash |-> IF th[t].op = "verify" THEN th[t].hash ELSE th[t].val])
  /\ th' = [th EXCEPT ![t].to = p, ![t].answer = None, ![t].tries = @ + 1]
  /\ UNCHANGED <<results, active, identity, running, runs, hash, sweeper, late, lost, used>>

FanOutEnds(t) ==
  /\ Fanning(t) /\ Answered(t)
  /\ LET over == th[t].answer = "ok" \/ th[t].tries >= MaxTries
     IN  /\ th' = IF over
                  THEN [th EXCEPT ![t].to = Nobody, ![t].left = @ \ {th[t].to}, ![t].tries = 0]
                  ELSE [th EXCEPT ![t].to = Nobody]
         /\ lost' = IF over /\ th[t].answer # "ok" THEN lost \cup {th[t].job} ELSE lost
  /\ UNCHANGED <<results, active, identity, running, runs, inbox, hash, sweeper, late, used>>

\* Every peer has been served: the reporting endpoint gets its reply.
SyncEnds(t) ==
  /\ Fanning(t) /\ th[t].to = Nobody /\ th[t].left = {}
  /\ th' = WithAnswer([th EXCEPT ![t] = Idle], th[t].caller, "ok")
  /\ UNCHANGED <<results, active, identity, running, runs, inbox, hash, sweeper,
                 late, lost, used>>

-----------------------------------------------------------------------------
(* The consistency sweeper of the leader *)

\* _run_step: jobs asked for first, then the next ChunkSize known ones.
Batch ==
  LET n == Len(sweeper.known)
      start == IF n = 0 THEN 0 ELSE sweeper.cursor % n
      size == IF ChunkSize < n THEN ChunkSize ELSE n
  IN  [i \in 1 .. size |-> sweeper.known[((start + i - 1) % n) + 1]]

\* Mutant of SweepStep: only the jobs asked for are verified.
SweepStepAskedOnly ==
  /\ th[Sweep] = Idle /\ sweeper.targets = <<>> /\ sweeper.priority # {}
  /\ sweeper' = [sweeper EXCEPT !.targets = SetToSeq(sweeper.priority), !.priority = {}]
  /\ UNCHANGED <<results, active, identity, running, runs, inbox, th, hash, late, lost, used>>

SweepStep ==
  /\ th[Sweep] = Idle /\ sweeper.targets = <<>>
  /\ sweeper.known # <<>> \/ sweeper.priority # {}
  /\ LET n == Len(sweeper.known)
         first == SetToSeq(sweeper.priority)
     IN  sweeper' = [sweeper EXCEPT
           !.targets = first \o SelectSeq(Batch, LAMBDA j : j \notin sweeper.priority),
           !.priority = {},
           !.cursor = IF n = 0 THEN @ ELSE ((@ % n) + Len(Batch)) % n]
  /\ UNCHANGED <<results, active, identity, running, runs, inbox, th, hash, late, lost, used>>

\* CONSISTENCY_CHECK_REQUEST for one job.
RequestCheck(j) ==
  /\ th[Router(Leader)] = Idle
  /\ j \notin sweeper.priority /\ used.checks < MaxChecks
  /\ sweeper' = [sweeper EXCEPT !.priority = @ \cup {j}]
  /\ used' = [used EXCEPT !.checks = @ + 1]
  /\ UNCHANGED <<results, active, identity, running, runs, inbox, th, hash, late, lost>>

\* results_store.get, which has nothing for an id it does not know.
Stored(e, j) == IF j \in Jobs THEN results[e][j] ELSE None

\* reverify: the leader's copy goes out again, with the hash recorded for it.
Verify ==
  /\ th[Sweep] = Idle /\ sweeper.targets # <<>>
  /\ LET j == Head(sweeper.targets)
         v == Stored(Leader, j)
     IN  th' = [th EXCEPT ![Sweep] =
           IF v = None THEN Idle
           ELSE [op |-> "verify", job |-> j, val |-> v, caller |-> Nobody, stage |-> "fanout",
                 hash |-> IF hash[Leader][j] = None THEN v ELSE hash[Leader][j],
                 to |-> Nobody, answer |-> None, left |-> Peers(Leader), tries |-> 0]]
  /\ sweeper' = [sweeper EXCEPT !.targets = Tail(@)]
  /\ UNCHANGED <<results, active, identity, running, runs, inbox, hash, late, lost, used>>

-----------------------------------------------------------------------------
(* The router thread takes a command from another endpoint *)

Take(e, op) == th[Router(e)] = Idle /\ inbox[e] # <<>> /\ Head(inbox[e]).op = op
Drop(e) == inbox' = [inbox EXCEPT ![e] = Tail(@)]

ReceiveForward(e) ==
  /\ Take(e, "forward")
  /\ Accept(e, Head(inbox[e]).job, Head(inbox[e]).from)
  /\ Drop(e)
  /\ UNCHANGED <<identity, running, runs, hash, sweeper, late, lost, used>>

\* ConcurrencySlotRequestHandler: granted, placed with another, or refused.
ReceiveSlot(e) ==
  /\ Take(e, "slot")
  /\ \E a \in {"granted", "place", "err"} :
       /\ a = "place" => used.forwards < MaxForwards
       /\ used' = [used EXCEPT !.forwards = IF a = "place" THEN @ + 1 ELSE @]
       /\ th' = WithAnswer(th, Head(inbox[e]).from, a)
  /\ Drop(e)
  /\ UNCHANGED <<results, active, identity, running, runs, hash, sweeper, late, lost>>

ReceiveSync(e) ==
  /\ Take(e, "sync")
  /\ LET m == Head(inbox[e])
     IN  th' = [th EXCEPT ![Router(e)] = [Report(e, m.job, m.val) EXCEPT !.caller = m.from]]
  /\ Drop(e)
  /\ UNCHANGED <<results, active, identity, running, runs, hash, sweeper, late, lost, used>>

\* JobResultReplicateHandler: a payload that does not match its hash is refused.
ReceiveReplicate(e) ==
  /\ Take(e, "replicate")
  /\ LET m == Head(inbox[e])
     IN  IF m.hash = m.val
         THEN /\ results' = [results EXCEPT ![e][m.job] = m.val]
              /\ hash' = [hash EXCEPT ![e][m.job] = m.val]
              /\ th' = WithAnswer(th, m.from, "ok")
         ELSE /\ th' = WithAnswer(th, m.from, "err")
              /\ UNCHANGED <<results, hash>>
  /\ Drop(e)
  /\ UNCHANGED <<active, identity, running, runs, sweeper, late, lost, used>>

-----------------------------------------------------------------------------
RouterStep(e) ==
  \/ RunHere(e) \/ AskLeader(e) \/ Forwarded(e) \/ InvokeFails(e) \/ Reply(e)
  \/ \E x \in Endpoints : ForwardTo(e, x)
  \/ ReceiveForward(e) \/ ReceiveSlot(e) \/ ReceiveSync(e) \/ ReceiveReplicate(e)

ThreadStep(t) ==
  \/ TimesOut(t) \/ SendReport(t) \/ ReportEnds(t) \/ SyncPut(t) \/ SyncMark(t)
  \/ \E p \in Endpoints : FanOut(t, p)
  \/ FanOutEnds(t) \/ SyncEnds(t)

JobNext ==
  \/ \E e \in Endpoints, j \in Jobs :
       Submit(e, j) \/ Poll(e, j) \/ Complete(e, j) \/ CompleteAgain(e, j)
  \/ \E e \in Endpoints : RouterStep(e)
  \/ \E t \in Threads : ThreadStep(t)
  \/ SweepStep \/ Verify \/ \E j \in Jobs : RequestCheck(j)

\* The runtime reports every job (JobBoard, which both runtimes implement), threads go
\* on, a call to a busy router times out, and the leader's sweeper comes round again.
JobFairness ==
  /\ \A e \in Endpoints, j \in Jobs : WF_jobVars(Complete(e, j))
  /\ \A e \in Endpoints : WF_jobVars(RouterStep(e))
  /\ \A t \in Threads : WF_jobVars(ThreadStep(t))
  /\ WF_jobVars(SweepStep) /\ WF_jobVars(Verify)

JobSpec == JobInit /\ [][JobNext]_jobVars /\ JobFairness

-----------------------------------------------------------------------------
(* Properties *)

Answers == {None, "granted", "place", "ok", "err"}
Callers == Threads \cup {Nobody}

SubmitCall ==
  [op : {"submit"}, job : Jobs, caller : Callers \cup Endpoints,
   stage : {"place", "slot", "forward", "ok", "err"}, to : Endpoints \cup {Nobody}, answer : Answers]
PushCall ==
  [op : {"report", "sync"}, job : Jobs, val : Results \ {None}, caller : Callers,
   stage : {"put", "mark", "fanout"}, to : Endpoints \cup {Nobody}, answer : Answers,
   left : SUBSET Endpoints, tries : Nat]
VerifyCall ==
  [op : {"verify"}, job : Jobs, val : Results \ {None}, caller : {Nobody}, stage : {"fanout"},
   hash : Results, to : Endpoints \cup {Nobody}, answer : Answers,
   left : SUBSET Endpoints, tries : Nat]
ThreadState == {Idle} \cup SubmitCall \cup PushCall \cup VerifyCall

Message ==
  [op : {"slot", "forward"}, job : Jobs, from : Callers, val : {None}]
    \cup [op : {"sync"}, job : Jobs, from : Callers, val : Results \ {None}]
    \cup [op : {"replicate"}, job : Jobs, from : Callers, val : Results \ {None}, hash : Results]

\* Stores, threads and the commands on their way hold what they are meant to hold: no
\* thread is ever in a state that its handler does not know.
JobTypeOK ==
  /\ results \in [Endpoints -> [Jobs -> Results]]
  /\ hash \in [Endpoints -> [Jobs -> Results]]
  /\ active \in [Endpoints -> SUBSET Jobs]
  /\ identity \in [Endpoints -> SUBSET Jobs]
  /\ running \in [Endpoints -> SUBSET Jobs]
  /\ runs \in [Endpoints -> [Jobs -> Nat]]
  /\ inbox \in [Endpoints -> Seq(Message)]
  /\ th \in [Threads -> ThreadState]
  /\ late \subseteq Jobs /\ lost \subseteq Jobs

\* A job runs at most once in the mesh, whatever waits are given up while it is
\* being placed: no forward is repeated and no caller falls back on itself.
RunsOnce ==
  \A e, x \in Endpoints, j \in Jobs :
    runs[e][j] <= 1 /\ (runs[e][j] = 1 /\ runs[x][j] = 1 => e = x)

\* VIRTUAL_ENV_ASSIGN and the scratch sweep take an endpoint without active job ids
\* for idle.  Nothing runs unseen, and only a job the endpoint did not run itself
\* (forwarded, or refused by the runtime) stays active after its submission.
ActiveIsExplained ==
  \A e \in Endpoints :
    /\ running[e] \subseteq active[e]
    /\ \A j \in active[e] :
         j \in running[e] \/ runs[e][j] = 0 \/ th[Router(e)].op = "submit"

\* Router threads wait for each other, but none for ever.
RoutersReturn ==
  \A e \in Endpoints : (th[Router(e)] # Idle) ~> (th[Router(e)] = Idle)

\* Once the leader has recorded a result, every endpoint ends up with the leader's
\* copy for good: replication that was given up is made good by the sweeper.
ResultsConverge ==
  \A j \in Jobs :
    hash[Leader][j] # None ~>
      [](\A e \in Endpoints : results[e][j] = results[Leader][j])
=============================================================================
