------------------------------ MODULE VemFleet ------------------------------
(***************************************************************************)
(* The endpoints as the VEM sees and manages them.  Endpoints start, stop, *)
(* crash, report, hold function versions and run jobs, and say so in       *)
(* events; the VEM's use cases decide on the documents those events have   *)
(* left, which lag behind, and its liveness worker pings the endpoints     *)
(* that seem silent.                                                       *)
(*                                                                         *)
(* One function is modelled, in all its versions.  The leader stays up:    *)
(* leader changes are the subject of Replication.  A follower's registry   *)
(* is in memory and follows the leader's.                                  *)
(***************************************************************************)
EXTENDS EventPipeline, FiniteSetsExt

CONSTANTS Leader,
          Launch     \* AXO_ENDPOINT_VIRTUAL_ENV_ID of each endpoint

ASSUME FleetAssumption ==
  /\ Leader \in Endpoints
  /\ Launch \in [Endpoints -> Envs \cup {NoEnv}]

VARIABLES
  up,        \* running endpoints
  env,       \* App._virtual_environment_id
  stored,    \* versions in each function registry
  job,       \* each job: its state, where it was placed, of which version, and the
             \* endpoints that have it among their _active_job_ids
  warm,      \* endpoints with a live worker or container, and of which version
  elected,   \* the leader each endpoint elected last
  probe,     \* EndpointLivenessWorker._check under way: whom it pinged, what it publishes
  purge,     \* PurgeEndpointUseCase.execute under way: whose document it will delete
  reused,    \* versions that were registered again after a deletion (history)
  purged     \* endpoints purged, and versions and jobs the cascade wrote off (history)

fleetVars == <<up, env, stored, job, warm, elected, probe, purge, reused, purged>>
vemVars   == <<view, wire, log, failed, tombs, lost, trouble,
               up, env, stored, job, warm, elected, probe, purge, reused, purged>>

Unsent == [state |-> "unsent", at |-> Nobody, held |-> {}, moved |-> FALSE,
            version |-> Unversioned]
Active == {"queued", "started"}
NoProbe == [ep |-> Nobody, type |-> "none"]

\* A mesh at rest, as the VEM shows it.  Version 1 was never registered, or is there,
\* or was deleted.
VemInit ==
  \E past \in {"none", "registered", "deleted"} :
    /\ view = [endpoints |-> [e \in Endpoints |-> [known |-> TRUE, status |-> "running",
                                                   ve |-> Launch[e], bind |-> TRUE]],
               functions |-> [v \in Versions |->
                 IF v = 1 /\ past \in {"registered", "deleted"}
                 THEN [known |-> TRUE, holders |-> Endpoints, deleted |-> past = "deleted",
                       container |-> "none", ve |-> Launch[Leader]]
                 ELSE NoFunction],
               jobs |-> [j \in Jobs |-> NoJob],
               leaders |-> [v \in Envs |-> IF Launch[Leader] = v THEN Leader ELSE Nobody]]
    /\ stored = [e \in Endpoints |-> IF past = "registered" THEN {1} ELSE {}]
    /\ tombs = {}
    /\ wire = [e \in Endpoints |-> <<>>]
    /\ log = <<>> /\ failed = 0
    /\ lost = {} /\ trouble = 0
    /\ up = Endpoints
    /\ env = Launch
    /\ job = [j \in Jobs |-> Unsent]
    /\ warm = {}
    /\ elected = [e \in Endpoints |-> Leader]
    /\ probe = NoProbe
    /\ purge = Nobody
    /\ reused = {}
    /\ purged = {}

\* A command to the VEM and an endpoint's outage count like a failure.
Command == Fault
Outage == Fault

\* Nothing the endpoint said is under way.
Silent(e) == wire[e] = <<>> /\ \A i \in DOMAIN log : log[i].ep # e

-----------------------------------------------------------------------------
(* The life of an endpoint *)

\* App.run: the virtual environment of the launch configuration again; at its first
\* tick the endpoint knows nobody and elects itself.
Boot(e) ==
  /\ e \notin up
  /\ wire[e] = <<>>
  /\ up' = up \cup {e}
  /\ env' = [env EXCEPT ![e] = Launch[e]]
  /\ elected' = [elected EXCEPT ![e] = e]
  /\ Publish(e, <<EndpointEvent("EndpointStarted", e, Launch[e]), LeaderEvent(e, e)>>)
  /\ UNCHANGED <<stored, job, warm, probe, purge, reused, purged,
                 view, log, failed, tombs, lost, trouble>>

\* A later tick sees the leader; bound: nothing of the endpoint is under way.
Elect(e) ==
  /\ e \in up /\ elected[e] # Leader
  /\ Silent(e)
  /\ elected' = [elected EXCEPT ![e] = Leader]
  /\ Publish(e, <<LeaderEvent(e, Leader)>>)
  /\ UNCHANGED <<up, env, stored, job, warm, probe, purge, reused, purged,
                 view, log, failed, tombs, lost, trouble>>

\* _heartbeat_publish_loop; bound: only the reports that will change the document,
\* with nothing of the endpoint under way.
Metrics(e) ==
  /\ e \in up
  /\ Silent(e)
  /\ ~view.endpoints[e].known \/ view.endpoints[e].ve # env[e]
  /\ Publish(e, <<EndpointEvent("EndpointMetricsReported", e, env[e])>>)
  /\ UNCHANGED <<fleetVars, view, log, failed, tombs, lost, trouble>>

\* What an endpoint that goes down takes along.
GoneDown(e) ==
  /\ e \in up \ {Leader}
  /\ Outage
  /\ up' = up \ {e}
  /\ stored' = [stored EXCEPT ![e] = {}]
  /\ warm' = {w \in warm : w[1] # e}
  /\ job' = [j \in Jobs |->
       [job[j] EXCEPT !.held = @ \ {e},
                      !.state = IF job[j].at = e /\ @ \in Active THEN "dead" ELSE @]]
  /\ UNCHANGED <<env, elected, probe, purge, reused, purged, view, log, failed, tombs>>

\* App.stop: EndpointStopped is the last event, and close() lingers for it.
Stop(e) ==
  /\ Publish(e, <<EndpointEvent("EndpointStopped", e, env[e])>>)
  /\ GoneDown(e)
  /\ UNCHANGED lost

\* A crash: what the socket had not sent is gone.
Crash(e) ==
  /\ GoneDown(e)
  /\ wire' = [wire EXCEPT ![e] = <<>>]
  /\ lost' = lost \cup {StreamOf(wire[e][i]) : i \in DOMAIN wire[e]}

\* assign_virtual_environment and VirtualEnvAssignHandler: refused while a job is
\* active; the endpoint, not the VEM, changes and says so.
Assign(e, v) ==
  /\ Command
  /\ view.endpoints[e].known /\ view.endpoints[e].bind
  /\ e \in up
  /\ \A j \in Jobs : e \notin job[j].held
  /\ env' = [env EXCEPT ![e] = v]
  /\ CASE v # NoEnv -> Publish(e, <<EndpointEvent("EndpointVirtualEnvAssigned", e, v)>>)
       [] v = NoEnv /\ env[e] # NoEnv ->
            Publish(e, <<EndpointEvent("EndpointVirtualEnvDetached", e, NoEnv)>>)
       [] OTHER -> UNCHANGED wire
  /\ UNCHANGED <<up, stored, job, warm, elected, probe, purge, reused, purged,
                 view, log, failed, tombs, lost>>

-----------------------------------------------------------------------------
(* EndpointLivenessWorker *)

\* Mutant of Ping: the unreachable are not looked at again.
PingRunning(e) ==
  /\ probe = NoProbe
  /\ view.endpoints[e].bind
  /\ view.endpoints[e].status = "running"
  /\ \/ e \notin up /\ UNCHANGED trouble
     \/ e \in up /\ Fault
  /\ probe' = [ep |-> e, type |-> "EndpointUnreachable"]
  /\ UNCHANGED <<up, env, stored, job, warm, elected, purge, reused, purged,
                 view, wire, log, failed, tombs, lost>>

\* _check reads a document and pings the endpoint; a ping may also be lost.  A
\* running endpoint is pinged when its document has grown old, an unreachable one
\* at every tick, one without status or router_bind never.
Ping(e) ==
  /\ probe = NoProbe
  /\ view.endpoints[e].bind
  /\ \/ /\ view.endpoints[e].status = "running"
        /\ \/ e \notin up /\ UNCHANGED trouble
           \/ e \in up /\ Fault
        /\ probe' = [ep |-> e, type |-> "EndpointUnreachable"]
     \/ /\ view.endpoints[e].status = "unreachable"
        /\ e \in up
        /\ probe' = [ep |-> e, type |-> "EndpointRecovered"]
        /\ UNCHANGED trouble
  /\ UNCHANGED <<up, env, stored, job, warm, elected, purge, reused, purged,
                 view, wire, log, failed, tombs, lost>>

\* _publish: the verdict, whatever has happened since.
Verdict ==
  /\ probe # NoProbe
  /\ AppendAll(<<EndpointEvent(probe.type, probe.ep, NoEnv)>>)
  /\ probe' = NoProbe
  /\ UNCHANGED <<up, env, stored, job, warm, elected, purge, reused, purged,
                 view, wire, failed, tombs, lost, trouble>>

-----------------------------------------------------------------------------
(* Functions *)

\* FunctionRegistry.register: one more than the greatest version still stored.
NextVersion == 1 + Max(stored[Leader] \cup {0})

\* RegisterFunctionUseCase sends FUNCTION_REGISTER to a member of the environment,
\* which passes it to the leader.
Register ==
  /\ Command
  /\ \E v \in Envs, e \in up :
       view.endpoints[e].known /\ view.endpoints[e].bind /\ view.endpoints[e].ve = v
  /\ NextVersion \in Versions
  /\ stored' = [stored EXCEPT ![Leader] = @ \cup {NextVersion}]
  /\ reused' = IF view.functions[NextVersion].known \/ <<"functions", NextVersion>> \in tombs
                 THEN reused \cup {NextVersion} ELSE reused
  /\ Publish(Leader, <<FunctionEvent("FunctionRegistered", Leader, env[Leader], NextVersion)>>)
  /\ UNCHANGED <<up, env, job, warm, elected, probe, purge, purged, view, log, failed, tombs, lost>>

\* RegistrySyncBridge.apply_incoming at a follower: a new record is announced, a
\* deletion is not.
Replicate(e) ==
  /\ e \in up
  /\ stored[e] # stored[Leader]
  /\ stored' = [stored EXCEPT ![e] = stored[Leader]]
  /\ Publish(e, SetToSeq({FunctionEvent("FunctionRegistered", e, env[e], v) :
                            v \in stored[Leader] \ stored[e]}))
  /\ UNCHANGED <<up, env, job, warm, elected, probe, purge, reused, purged,
                 view, log, failed, tombs, lost, trouble>>

ShownActive(j, v) == view.jobs[j].status \in {"QUEUED", "STARTED"} /\ view.jobs[j].version = v

\* Mutant of MayDelete: the jobs are not looked at.
MayDeleteStopped(v) ==
  /\ view.functions[v].known
  /\ view.functions[v].container # "running"
  /\ \E e \in view.functions[v].holders : view.endpoints[e].bind /\ e \in up

\* DeleteFunctionUseCase.execute, as far as the documents tell.
MayDelete(v) ==
  /\ view.functions[v].known
  /\ view.functions[v].container # "running"
  /\ \A j \in Jobs : ~ShownActive(j, v)
  /\ \E e \in view.functions[v].holders : view.endpoints[e].bind /\ e \in up

\* The leader deletes and says so.
Delete(v) ==
  /\ Command
  /\ MayDelete(v)
  /\ v \in stored[Leader]
  /\ stored' = [stored EXCEPT ![Leader] = @ \ {v}]
  /\ Publish(Leader, <<FunctionEvent("FunctionDeleted", Leader, env[Leader], v)>>)
  /\ UNCHANGED <<up, env, job, warm, elected, probe, purge, reused, purged,
                 view, log, failed, tombs, lost>>

\* PurgeFunctionVersionUseCase: the document goes, its stream is tombstoned.
PurgeVersion(v) ==
  /\ Command
  /\ view.functions[v].known /\ view.functions[v].deleted
  /\ view' = [view EXCEPT !.functions[v] = NoFunction]
  /\ tombs' = tombs \cup {<<"functions", v>>}
  /\ UNCHANGED <<up, env, stored, job, warm, elected, probe, purge, reused, purged,
                 wire, log, failed, lost>>

-----------------------------------------------------------------------------
(* Jobs *)

\* SubmitFunctionJobUseCase picks a member of the function's environment; submit_job
\* there finds the function and emits JOB_SUBMITTED before the runtime has the job.
Submit(j, e, v) ==
  /\ Command
  /\ job[j].state = "unsent"
  /\ view.functions[v].known /\ ~view.functions[v].deleted
  /\ view.functions[v].ve # NoEnv /\ view.endpoints[e].ve = view.functions[v].ve
  /\ view.endpoints[e].bind /\ e \in up
  /\ v \in stored[e]
  /\ job' = [job EXCEPT ![j] = [state |-> "queued", at |-> e, held |-> {e}, moved |-> FALSE,
                              version |-> v]]
  /\ Publish(e, <<JobEvent("JobQueued", e, j, v)>>)
  /\ UNCHANGED <<up, env, stored, warm, elected, probe, purge, reused, purged,
                 view, log, failed, tombs, lost>>

\* JOB_FORWARD: the other endpoint submits it again, and the first one never hears
\* of its end.
Forward(j, e) ==
  /\ job[j].state = "queued" /\ ~job[j].moved
  /\ e \in up \ {job[j].at}
  /\ job[j].version \in stored[e]
  /\ job' = [job EXCEPT ![j].at = e, ![j].held = @ \cup {e}, ![j].moved = TRUE]
  /\ Publish(e, <<JobEvent("JobQueued", e, j, job[j].version)>>)
  /\ UNCHANGED <<up, env, stored, warm, elected, probe, purge, reused, purged,
                 view, log, failed, tombs, lost, trouble>>

\* invoke fails: the caller is told and the result kept, but no event is emitted.
Refuse(j) ==
  /\ job[j].state = "queued"
  /\ job' = [job EXCEPT ![j].state = "refused"]
  /\ UNCHANGED <<up, env, stored, warm, elected, probe, purge, reused, purged,
                 view, wire, log, failed, tombs, lost, trouble>>

\* No worker or container for the job: on_function_deploy_failed, and its end.
DeployFails(j) ==
  /\ job[j].state = "queued" /\ <<job[j].at, job[j].version>> \notin warm
  /\ job' = [job EXCEPT ![j].state = "failed", ![j].held = @ \ {job[j].at}]
  /\ LET e == job[j].at  v == job[j].version
     IN  Publish(e, <<FunctionEvent("FunctionDeployFailed", e, env[e], v),
                      JobEvent("JobFailed", e, j, Unversioned),
                      FunctionEvent("FunctionDeactivated", e, env[e], v)>>)
  /\ UNCHANGED <<up, env, stored, warm, elected, probe, purge, reused, purged,
                 view, log, failed, tombs, lost, trouble>>

\* on_function_stopped: the sweep retires an idle worker, long after its last event.
Retire(e, v) ==
  /\ <<e, v>> \in warm
  /\ Silent(e)
  /\ \A j \in Jobs : ~(job[j].at = e /\ job[j].version = v /\ job[j].state \in Active)
  /\ warm' = warm \ {<<e, v>>}
  /\ Publish(e, <<FunctionEvent("FunctionStopped", e, env[e], v)>>)
  /\ UNCHANGED <<up, env, stored, job, elected, probe, purge, reused, purged,
                 view, log, failed, tombs, lost, trouble>>

\* on_job_started, after on_function_deployed where the worker is new.
Start(j) ==
  /\ job[j].state = "queued"
  /\ job' = [job EXCEPT ![j].state = "started"]
  /\ warm' = warm \cup {<<job[j].at, job[j].version>>}
  /\ LET e == job[j].at  v == job[j].version
         new == IF <<e, v>> \in warm THEN <<>>
                ELSE <<FunctionEvent("FunctionDeployed", e, env[e], v)>>
     IN  Publish(e, new \o <<JobEvent("JobStarted", e, j, v),
                             FunctionEvent("FunctionActivated", e, env[e], v)>>)
  /\ UNCHANGED <<up, env, stored, elected, probe, purge, reused, purged,
                 view, log, failed, tombs, lost, trouble>>

\* on_job_finished: a job that started, or one cancelled before.
Finish(j, ok) ==
  /\ job[j].state = "started" \/ (job[j].state = "queued" /\ ~ok)
  /\ job' = [job EXCEPT ![j].state = IF ok THEN "done" ELSE "failed",
                        ![j].held = @ \ {job[j].at}]
  /\ LET e == job[j].at
     IN  Publish(e, <<JobEvent(IF ok THEN "JobCompleted" ELSE "JobFailed", e, j, Unversioned),
                      FunctionEvent("FunctionDeactivated", e, env[e], job[j].version)>>)
  /\ UNCHANGED <<up, env, stored, warm, elected, probe, purge, reused, purged,
                 view, log, failed, tombs, lost, trouble>>

-----------------------------------------------------------------------------
(* PurgeEndpointUseCase *)

\* list_by_endpoint_id
HeldBy(e) == {v \in Versions : /\ view.functions[v].known /\ ~view.functions[v].deleted
                               /\ e \in view.functions[v].holders}

\* The jobs of those functions that were queued at the endpoint and seem unfinished.
WrittenOff(e) == {j \in Jobs : /\ view.jobs[j].ep = e
                               /\ \E v \in HeldBy(e) : ShownActive(j, v)}

LastHolder(e, v) == view.functions[v].holders = {e}

\* The endpoint is shown stopped or unreachable: its jobs are failed, its functions
\* detached, or deleted where nobody else holds them.
PurgeCascade(e) ==
  /\ Command
  /\ purge = Nobody
  /\ view.endpoints[e].known /\ view.endpoints[e].status \in {"stopped", "unreachable"}
  /\ AppendAll(SetToSeq({JobEvent("JobFailed", e, j, Unversioned) : j \in WrittenOff(e)})
                \o SetToSeq({FunctionEvent(IF LastHolder(e, v) THEN "FunctionDeleted"
                                           ELSE "FunctionEndpointDetached", e, NoEnv, v)
                              : v \in HeldBy(e)}))
  /\ purge' = e
  /\ purged' = purged \cup WrittenOff(e) \cup {<<"functions", v>> : v \in HeldBy(e)}
  /\ UNCHANGED <<up, env, stored, job, warm, elected, probe, reused, view, wire, failed, tombs, lost>>

\* Then its document goes, whatever it says by now.
PurgeRemove ==
  /\ purge # Nobody
  /\ view' = [view EXCEPT !.endpoints[purge] = NoEndpoint]
  /\ purged' = purged \cup {purge}
  /\ purge' = Nobody
  /\ UNCHANGED <<up, env, stored, job, warm, elected, probe, reused,
                 wire, log, failed, tombs, lost, trouble>>

-----------------------------------------------------------------------------
EndpointStep ==
  \/ \E e \in Endpoints : Boot(e) \/ Elect(e) \/ Metrics(e) \/ Stop(e) \/ Crash(e) \/ Replicate(e)
  \/ \E e \in Endpoints, v \in Versions : Retire(e, v)
  \/ \E j \in Jobs : \/ Refuse(j) \/ DeployFails(j) \/ Start(j)
                      \/ \E e \in Endpoints : Forward(j, e)
                      \/ \E ok \in BOOLEAN : Finish(j, ok)

VemStep ==
  \/ \E e \in Endpoints : Ping(e) \/ PurgeCascade(e)
  \/ \E e \in Endpoints, v \in Envs \cup {NoEnv} : Assign(e, v)
  \/ Verdict \/ Register \/ PurgeRemove
  \/ \E v \in Versions : Delete(v) \/ PurgeVersion(v)
  \/ \E j \in Jobs, e \in Endpoints, v \in Versions : Submit(j, e, v)

VemNext == EndpointStep \/ VemStep \/ (PipeNext /\ UNCHANGED fleetVars)

VemSpec == VemInit /\ [][VemNext]_vemVars

\* The threads of the VEM and of the running endpoints keep going: frames are
\* ingested, records projected, silent endpoints pinged, metrics reported.
VemFairSpec ==
  /\ VemSpec
  /\ \A e \in Endpoints : /\ WF_vemVars((Ingest(e) \/ IngestGivesUp(e)) /\ UNCHANGED fleetVars)
                           /\ WF_vemVars(Metrics(e))
                           /\ WF_vemVars(Ping(e))
  /\ WF_vemVars((Project \/ Resubscribe) /\ UNCHANGED fleetVars)
  /\ WF_vemVars(Verdict)
  /\ WF_vemVars(PurgeRemove)

-----------------------------------------------------------------------------
\* Documents, frames and records are of known events; the projector is never past the
\* end of the log.
VemTypeOK ==
  /\ view \in Views
  /\ wire \in [Endpoints -> Seq(Events)] /\ log \in Seq(Events)
  /\ Len(log) <= MaxLog /\ \A e \in Endpoints : Len(wire[e]) <= MaxWire
  /\ failed \in 0 .. Len(log)
  /\ tombs \subseteq Streams /\ lost \subseteq Streams
  /\ trouble \in 0 .. MaxTrouble
  /\ up \subseteq Endpoints
  /\ env \in [Endpoints -> Envs \cup {NoEnv}]
  /\ stored \in [Endpoints -> SUBSET Versions]
  /\ job \in [Jobs -> [state : Active \cup {"unsent", "refused", "done", "failed", "dead"},
                       at : Endpoints \cup {Nobody}, held : SUBSET Endpoints,
                       moved : BOOLEAN, version : Versions \cup {Unversioned}]]
  /\ warm \subseteq Endpoints \X Versions
  /\ elected \in [Endpoints -> Endpoints]
  /\ probe \in [ep : Endpoints, type : {"EndpointUnreachable", "EndpointRecovered"}] \cup {NoProbe}
  /\ purge \in Endpoints \cup {Nobody}
  /\ reused \subseteq Versions
  /\ purged \subseteq Endpoints \cup Jobs \cup Streams

\* Once everything under way has been applied, the document of a job that ended where
\* it was submitted tells how it ended, whatever was repeated by the ingestion
\* router's retries or replayed from the checkpoint; not so if one of its events was
\* dropped, if the job was forwarded, or if a purge wrote it off.
JobShownRight ==
  Quiet /\ <<"activity">> \notin lost =>
    \A j \in Jobs \ purged :
      job[j].state \in {"done", "failed"} /\ ~job[j].moved =>
        view.jobs[j].status = IF job[j].state = "done" THEN "COMPLETED" ELSE "FAILED"

\* Once everything under way has been applied, a registered version is shown, not
\* deleted, and held by the leader, unless an event was lost, an endpoint's purge
\* wrote it off, or the version number had been used before: deleted_at stays on the
\* document and a tombstoned stream takes no more events.
RegisteredIsShown ==
  Quiet =>
    \A v \in stored[Leader] \ reused :
      <<"functions", v>> \in lost \cup purged
      \/ /\ view.functions[v].known /\ ~view.functions[v].deleted
         /\ Leader \in view.functions[v].holders

\* A function is deleted under a job that runs only if the documents were behind,
\* one of the job's events was lost, or a purge wrote the job off.
DeletedIdle ==
  [][\A v \in stored[Leader] \ stored'[Leader], j \in Jobs :
       job[j].version = v /\ job[j].state \in Active =>
         ~Quiet \/ <<"activity">> \in lost \/ j \in purged]_vemVars

\* A document the liveness worker can never look at (no status, or no router_bind)
\* belongs to an endpoint that was purged and reported again, or whose
\* EndpointStarted was lost.
UnwatchedIsExplained ==
  \A e \in Endpoints : LET doc == view.endpoints[e]
    IN  doc.known /\ (doc.status = "none" \/ ~doc.bind) =>
          e \in purged \/ <<"endpoints", e>> \in lost

\* Once everything under way has been applied and every endpoint, also one that went
\* down, has last elected the leader, no environment has another leader's flag: what
\* a restarted endpoint said of itself at its first tick does not stay.
LeaderShownRight ==
  Quiet /\ (\A e \in Endpoints : elected[e] = Leader /\ <<"consensus", e>> \notin lost) =>
    \A v \in Envs : view.leaders[v] \in {Leader, Nobody}

\* An endpoint that stays up is in the end shown running, in the environment it is
\* in: metrics repair the environment the liveness worker's events erase.  Without
\* its events (an EndpointStarted dropped, or the document purged) it may not be.  One
\* that stays down is in the end not shown running, even if its last words were lost.
StatusFollows ==
  \A e \in Endpoints :
    /\ <>[](e \in up /\ e \notin purged /\ <<"endpoints", e>> \notin lost) =>
         <>[](view.endpoints[e].status = "running" /\ view.endpoints[e].ve = env[e])
    /\ <>[](e \notin up /\ e \notin purged) => <>[](view.endpoints[e].status # "running")
=============================================================================
