--------------------------- MODULE EventPipeline ----------------------------
(***************************************************************************)
(* How an endpoint's events reach the read model: a fire-and-forget socket *)
(* per endpoint, the ingestion router that appends each frame to the event *)
(* store, retrying before it gives up, and the projector, which subscribes *)
(* at its checkpoint, applies the records in order and moves the           *)
(* checkpoint after each one it applied.                                   *)
(*                                                                         *)
(* Of the log only the records behind the checkpoint are kept: the first   *)
(* `failed' of them were delivered to the present subscription and could   *)
(* not be applied; it goes on with the next, and the checkpoint passes     *)
(* them as soon as one is applied.                                         *)
(***************************************************************************)
EXTENDS ReadModel, Sequences, SequencesExt

CONSTANTS MaxWire,     \* bound: frames of an endpoint under way
          MaxLog,      \* bound: records behind the checkpoint
          MaxTrouble   \* bound: failures, outages and commands together

ASSUME PipelineAssumption ==
  /\ {MaxWire, MaxLog} \subseteq Nat \ {0}
  /\ MaxTrouble \in Nat

VARIABLES
  view,     \* the read model
  wire,     \* frames between each endpoint and the ingestion router
  log,      \* records behind the projector's checkpoint
  failed,   \* how many of them the present subscription failed to apply
  tombs,    \* streams that were tombstoned
  lost,     \* streams of which an event was lost (history)
  trouble   \* failures, outages and commands so far

pipeVars == <<view, wire, log, failed, tombs, lost, trouble>>

Streams == {<<"endpoints", e>> : e \in Endpoints} \cup {<<"functions", v>> : v \in Versions}
             \cup {<<"consensus", e>> : e \in Endpoints} \cup {<<"activity">>}

Fault == trouble < MaxTrouble /\ trouble' = trouble + 1

\* ZmqEventPublisher.publish: the frames are queued in order.
Publish(e, evs) ==
  /\ Len(wire[e]) + Len(evs) <= MaxWire
  /\ wire' = [wire EXCEPT ![e] = @ \o evs]

\* The VEM appends its own events directly; to a tombstoned stream it cannot.
AppendAll(evs) ==
  /\ Len(log) + Len(evs) <= MaxLog
  /\ \A i \in DOMAIN evs : StreamOf(evs[i]) \notin tombs
  /\ log' = log \o evs

-----------------------------------------------------------------------------
(* The ingestion router: one thread, one frame at a time *)

Frame(e) == wire[e][1]
Taken(e) == wire' = [wire EXCEPT ![e] = Tail(@)]

\* Mutant of Ingest: the newest frame is taken first.
IngestNewest(e) ==
  /\ wire[e] # <<>>
  /\ Len(log) < MaxLog
  /\ StreamOf(Last(wire[e])) \notin tombs
  /\ log' = Append(log, Last(wire[e]))
  /\ wire' = [wire EXCEPT ![e] = Front(@)]
  /\ UNCHANGED <<view, failed, tombs, lost, trouble>>

Ingest(e) ==
  /\ wire[e] # <<>>
  /\ Len(log) < MaxLog
  /\ StreamOf(Frame(e)) \notin tombs
  /\ log' = Append(log, Frame(e))
  /\ Taken(e)
  /\ UNCHANGED <<view, failed, tombs, lost, trouble>>

\* The record was appended but the answer failed: the retry appends it again.
IngestTwice(e) ==
  /\ wire[e] # <<>>
  /\ Len(log) < MaxLog
  /\ StreamOf(Frame(e)) \notin tombs
  /\ Fault
  /\ log' = Append(log, Frame(e))
  /\ UNCHANGED <<view, wire, failed, tombs, lost>>

\* _append_with_retry exhausts its attempts and the frame is dropped: the store is
\* down, or the stream is tombstoned.  A frame dropped by the sender's full buffer
\* is lost in the same way.
IngestGivesUp(e) ==
  /\ wire[e] # <<>>
  /\ \/ StreamOf(Frame(e)) \in tombs /\ UNCHANGED trouble
     \/ StreamOf(Frame(e)) \notin tombs /\ Fault
  /\ lost' = lost \cup {StreamOf(Frame(e))}
  /\ Taken(e)
  /\ UNCHANGED <<view, log, failed, tombs>>

-----------------------------------------------------------------------------
(* The projector *)

\* apply_record: the event is applied, then the checkpoint moves past it and past
\* the records that failed before.
Project ==
  /\ failed < Len(log)
  /\ view' = Apply(view, log[failed + 1])
  /\ log' = SubSeq(log, failed + 2, Len(log))
  /\ failed' = 0
  /\ lost' = lost \cup {StreamOf(log[i]) : i \in 1 .. failed}
  /\ UNCHANGED <<wire, tombs, trouble>>

\* The connection breaks or the process dies between the event and the checkpoint.
ProjectUnmarked ==
  /\ failed < Len(log)
  /\ Fault
  /\ view' = Apply(view, log[failed + 1])
  /\ failed' = 0
  /\ UNCHANGED <<wire, log, tombs, lost>>

\* A record that cannot be applied is logged and skipped, the checkpoint left alone.
ProjectFails ==
  /\ failed < Len(log)
  /\ Fault
  /\ failed' = failed + 1
  /\ UNCHANGED <<view, wire, log, tombs, lost>>

\* The watchdog recycles a silent subscription, the retry loop a broken one: the
\* next starts at the checkpoint.
Resubscribe ==
  /\ failed > 0
  /\ failed' = 0
  /\ UNCHANGED <<view, wire, log, tombs, lost, trouble>>

PipeNext ==
  \/ \E e \in Endpoints : Ingest(e) \/ IngestTwice(e) \/ IngestGivesUp(e)
  \/ Project \/ ProjectUnmarked \/ ProjectFails \/ Resubscribe

\* Nothing is under way.
Quiet == log = <<>> /\ \A e \in Endpoints : wire[e] = <<>>
=============================================================================
