----------------------------- MODULE ReadModel ------------------------------
(***************************************************************************)
(* The VEM's read model: the endpoint, function and job documents, and     *)
(* what the projector's handlers make of each event.                       *)
(*                                                                         *)
(* A document is a record whose field known says whether it exists; an     *)
(* upsert ($set) replaces the fields the event carries and keeps the rest. *)
(* A function version stands for its document, function_id:version.        *)
(***************************************************************************)
EXTENDS Naturals, FiniteSets

CONSTANTS Endpoints,
          Envs,        \* virtual environments
          NoEnv,       \* virtual_environment_id is None
          Jobs,
          MaxVersion,  \* bound: function versions
          Nobody       \* endpoint_id is None

ASSUME ReadModelAssumption ==
  /\ NoEnv \notin Envs
  /\ Nobody \notin Endpoints
  /\ MaxVersion \in Nat \ {0}
  /\ IsFiniteSet(Jobs)

Versions == 1 .. MaxVersion
Unversioned == 0    \* the event or the document has no version

-----------------------------------------------------------------------------
(* Events, by the collection they belong to *)

\* _ENDPOINT_STATUS_BY_EVENT_TYPE
EndpointStatus ==
  [EndpointStarted |-> "running", EndpointStopped |-> "stopped",
   EndpointUnreachable |-> "unreachable", EndpointRecovered |-> "running"]

EndpointTypes == DOMAIN EndpointStatus
  \cup {"EndpointMetricsReported", "EndpointVirtualEnvAssigned", "EndpointVirtualEnvDetached"}

\* _FUNCTION_CONTAINER_STATUS_BY_EVENT_TYPE; FunctionStopped stands for
\* FunctionCrashed too.
ContainerStatus ==
  [FunctionDeployed |-> "running", FunctionDeployFailed |-> "stopped",
   FunctionActivated |-> "running", FunctionDeactivated |-> "stopped",
   FunctionStopped |-> "stopped"]

FunctionTypes == DOMAIN ContainerStatus \cup {"FunctionRegistered"}
RemovalTypes == {"FunctionDeleted", "FunctionEndpointDetached"}

JobStatus ==
  [JobQueued |-> "QUEUED", JobStarted |-> "STARTED",
   JobCompleted |-> "COMPLETED", JobFailed |-> "FAILED"]

JobTypes == DOMAIN JobStatus

\* _LEADER_BEARING_EVENT_TYPES; LeaderElected stands for ConsensusViewChanged too.
LeaderTypes == {"LeaderElected"}

\* An event as it is published: who it is about and what it carries.
EndpointEvent(t, e, v) == [type |-> t, ep |-> e, ve |-> v]
FunctionEvent(t, e, v, n) == [type |-> t, ep |-> e, ve |-> v, version |-> n]
JobEvent(t, e, j, n) == [type |-> t, ep |-> e, job |-> j, version |-> n]
LeaderEvent(e, l) == [type |-> "LeaderElected", ep |-> e, leader |-> l]

Events == [type : EndpointTypes, ep : Endpoints, ve : Envs \cup {NoEnv}]
  \cup [type : FunctionTypes \cup RemovalTypes, ep : Endpoints, ve : Envs \cup {NoEnv},
        version : Versions]
  \cup [type : JobTypes, ep : Endpoints, job : Jobs, version : Versions \cup {Unversioned}]
  \cup [type : LeaderTypes, ep : Endpoints, leader : Endpoints]

\* stream_name_for: one stream per endpoint and per function version; all jobs of a
\* function share one.
StreamOf(ev) ==
  CASE ev.type \in EndpointTypes -> <<"endpoints", ev.ep>>
    [] ev.type \in FunctionTypes \cup RemovalTypes -> <<"functions", ev.version>>
    [] ev.type \in JobTypes -> <<"activity">>
    [] ev.type \in LeaderTypes -> <<"consensus", ev.ep>>

-----------------------------------------------------------------------------
(* Documents *)

NoEndpoint == [known |-> FALSE, status |-> "none", ve |-> NoEnv, bind |-> FALSE]
NoFunction == [known |-> FALSE, holders |-> {}, deleted |-> FALSE, container |-> "none",
               ve |-> NoEnv]
NoJob == [status |-> "none", ep |-> Nobody, version |-> Unversioned]

Views ==
  [endpoints : [Endpoints -> [known : BOOLEAN, ve : Envs \cup {NoEnv}, bind : BOOLEAN,
                              status : {"none", "running", "stopped", "unreachable"}]],
   functions : [Versions -> [known : BOOLEAN, holders : SUBSET Endpoints, deleted : BOOLEAN,
                             container : {"none", "running", "stopped"},
                             ve : Envs \cup {NoEnv}]],
   jobs : [Jobs -> [status : {"none", "QUEUED", "STARTED", "COMPLETED", "FAILED"},
                    ep : Endpoints \cup {Nobody}, version : Versions \cup {Unversioned}]],
   leaders : [Envs -> Endpoints \cup {Nobody}]]

\* Mutant of ApplyEndpoint: the event replaces the document.
ApplyEndpointWhole(doc, ev) ==
  [known  |-> TRUE,
   status |-> IF ev.type \in DOMAIN EndpointStatus THEN EndpointStatus[ev.type] ELSE "none",
   ve     |-> ev.ve,
   bind   |-> doc.bind \/ ev.type = "EndpointStarted"]

\* The event's fields over the document's: every endpoint event carries a
\* virtual_environment_id, the liveness worker's is None; only EndpointStarted
\* carries router_bind.
ApplyEndpoint(doc, ev) ==
  [known  |-> TRUE,
   status |-> IF ev.type \in DOMAIN EndpointStatus THEN EndpointStatus[ev.type] ELSE doc.status,
   ve     |-> ev.ve,
   bind   |-> doc.bind \/ ev.type = "EndpointStarted"]

\* Mutant of ApplyFunction: endpoint_id is among the fields that are set.
ApplyFunctionOverwrites(doc, ev) ==
  [known     |-> TRUE,
   holders   |-> {ev.ep},
   deleted   |-> doc.deleted,
   container |-> IF ev.type \in DOMAIN ContainerStatus THEN ContainerStatus[ev.type]
                 ELSE doc.container,
   ve        |-> ev.ve]

\* endpoint_id accumulates ($addToSet); deleted_at is not among the event's fields.
ApplyFunction(doc, ev) ==
  [known     |-> TRUE,
   holders   |-> doc.holders \cup {ev.ep},
   deleted   |-> doc.deleted,
   container |-> IF ev.type \in DOMAIN ContainerStatus THEN ContainerStatus[ev.type]
                 ELSE doc.container,
   ve        |-> ev.ve]

\* FunctionDeleted upserts deleted_at, FunctionEndpointDetached pulls a holder from
\* a document that is there.
ApplyRemoval(doc, ev) ==
  IF ev.type = "FunctionDeleted" THEN [doc EXCEPT !.known = TRUE, !.deleted = TRUE]
  ELSE [doc EXCEPT !.holders = @ \ {ev.ep}]

\* JobQueued writes the document anew, the others change the one that is there, or a
\* minimal one without an endpoint; only JobStarted brings a version.
ApplyJob(doc, ev) ==
  IF ev.type = "JobQueued"
  THEN [status |-> "QUEUED", ep |-> ev.ep, version |-> ev.version]
  ELSE [doc EXCEPT !.status = JobStatus[ev.type],
                   !.version = IF ev.version = Unversioned THEN @ ELSE ev.version]

\* Mutant of ApplyLeader: whoever says so is flagged, not whom it elected.
ApplyLeaderSpeaker(view, ev) ==
  [v \in Envs |-> IF view.endpoints[ev.ep].ve = v THEN ev.ep ELSE Nobody]

\* _apply_leader_change: whoever was flagged is not any more; the leader is, in the
\* environment its own document names.
ApplyLeader(view, ev) ==
  [v \in Envs |-> IF view.endpoints[ev.leader].ve = v THEN ev.leader ELSE Nobody]

\* apply_event: the handler of the event's collection.
Apply(view, ev) ==
  CASE ev.type \in EndpointTypes -> [view EXCEPT !.endpoints[ev.ep] = ApplyEndpoint(@, ev)]
    [] ev.type \in FunctionTypes -> [view EXCEPT !.functions[ev.version] = ApplyFunction(@, ev)]
    [] ev.type \in RemovalTypes  -> [view EXCEPT !.functions[ev.version] = ApplyRemoval(@, ev)]
    [] ev.type \in JobTypes      -> [view EXCEPT !.jobs[ev.job] = ApplyJob(@, ev)]
    [] ev.type \in LeaderTypes   -> [view EXCEPT !.leaders = ApplyLeader(view, ev)]
=============================================================================
