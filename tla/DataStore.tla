----------------------------- MODULE DataStore -----------------------------
(***************************************************************************)
(* Datasets: registration against a bucket's quota, upload in chunks,      *)
(* streams written by running functions, deletion, and the copying of      *)
(* chunks from the leader to a follower.                                   *)
(*                                                                         *)
(* The record of a dataset and its bytes travel on two channels: records   *)
(* with the leader's consensus tick (module Replication has its faults),   *)
(* chunks one by one with the blob replicator, each a message of its own   *)
(* that may be lost or overtaken.  A file is whole or absent: the backend  *)
(* writes a temporary file and renames it.                                 *)
(***************************************************************************)
EXTENDS Naturals, Sequences, FiniteSets, FiniteSetsExt, Functions

CONSTANTS Leader, Follower,
          Items,        \* dataset names at one version, all in one bucket
          Contents,     \* what may be written
          Streamed,     \* the contents functions write as streams
          Lengths,      \* [Contents -> Seq(Nat)]: the lengths of its chunks
          ChunkBytes,
          Quotas,       \* quota_bytes a bucket may be declared with
          Unset,
          MaxWriters,   \* bound: registrations and streams of an item
          MaxDeletes,   \* bound: deletions of an item
          MaxFaults     \* bound: chunks lost on their way, restarts of the follower

Endpoints == {Leader, Follower}
Chunk(c, i) == [of |-> c, at |-> i, len |-> Lengths[c][i]]
Chunks  == UNION {{Chunk(c, i) : i \in DOMAIN Lengths[c]} : c \in Contents}
Indices == UNION {DOMAIN Lengths[c] : c \in Contents}
SizeOf(chunks) == FoldFunction(LAMBDA ch, n : ch.len + n, 0, chunks)
Whole(c) == [i \in DOMAIN Lengths[c] |-> Chunk(c, i)]

ASSUME DataAssumption ==
  /\ Leader # Follower
  /\ Streamed \subseteq Contents
  /\ Lengths \in [Contents -> Seq(Nat \ {0})]
  /\ ChunkBytes \in Nat \ {0}
  /\ Quotas \subseteq Nat
  /\ {MaxWriters, MaxDeletes, MaxFaults} \subseteq Nat

VARIABLES
  quota,       \* BucketRegistry: Unset or the bucket's quota_bytes
  catalog,     \* DataRegistry._catalog of each endpoint
  blobs,       \* chunk files of each endpoint
  completed,   \* DataRegistry._completed_uploads
  hashes,      \* DataRegistry._hash_cache: Unset or what was hashed
  streams,     \* DataRegistry._open_streams: Unset or the chunks appended
  dirty,       \* the leader's DirtyTracker: changes since the last tick
  wire,        \* DATA_CHUNK_PUTs from the leader to the follower
  known,       \* BlobReplicator._peer_status for the follower
  tick,        \* BlobReplicator.run_tick: where it is
  writers,     \* who wrote each item, in order (history)
  used         \* bounds used up

dataVars == <<quota, catalog, blobs, completed, hashes, streams, dirty, wire, known, tick,
              writers, used>>

\* A record: declared_hash is the content, as the hash of no other content.
Record(size, total, hash) == [size |-> size, total |-> total, hash |-> hash]
Resting == [stage |-> "rest"]

DataInit ==
  /\ quota = Unset
  /\ catalog = [e \in Endpoints |-> [d \in Items |-> Unset]]
  /\ blobs = [e \in Endpoints |-> [d \in Items |-> [i \in {} |-> Unset]]]
  /\ completed = [e \in Endpoints |-> {}]
  /\ hashes = [e \in Endpoints |-> [d \in Items |-> Unset]]
  /\ streams = [e \in Endpoints |-> [d \in Items |-> Unset]]
  /\ dirty = [d \in {} |-> Unset]
  /\ wire = {}
  /\ known = [d \in Items |-> "unknown"]
  /\ tick = Resting
  /\ writers = [d \in Items |-> <<>>]
  /\ used = [deletes |-> 0, losses |-> 0, restarts |-> 0]

-----------------------------------------------------------------------------
(* Sizes and presence *)

\* total_chunks_for: a ceiling division, no chunk for no byte.
TotalChunksFor(size) == (size + ChunkBytes - 1) \div ChunkBytes

\* expected_chunk_len; chunks are counted from 1 here.
ExpectedLen(size, i) ==
  IF i = TotalChunksFor(size) THEN size - (i - 1) * ChunkBytes ELSE ChunkBytes

Present(e, d) == {i \in 1 .. catalog[e][d].total : i \in DOMAIN blobs[e][d]}

\* status().complete: every expected chunk key exists, whatever is in it.
Complete(e, d) == catalog[e][d] # Unset /\ Present(e, d) = 1 .. catalog[e][d].total

\* _compute_hash: the chunks in order, a missing one as no bytes.
Bytes(bs, total) == [i \in 1 .. total |-> IF i \in DOMAIN bs THEN bs[i] ELSE Unset]

\* Mutant of HashedBy: an incomplete dataset is hashed too.
HashedEarly(e, d, cat, bs) ==
  IF cat # Unset /\ hashes[e][d] = Unset
  THEN [computed |-> Bytes(bs, cat.total), verified |-> Bytes(bs, cat.total) = cat.hash]
  ELSE hashes[e][d]

\* status(): a complete dataset is hashed once, and the hash is kept.
HashedBy(e, d, cat, bs) ==
  IF cat # Unset /\ hashes[e][d] = Unset /\ (1 .. cat.total) \subseteq DOMAIN bs
  THEN [computed |-> Bytes(bs, cat.total), verified |-> Bytes(bs, cat.total) = cat.hash]
  ELSE hashes[e][d]

Writes(d, w) == /\ Len(writers[d]) < MaxWriters
                /\ writers' = [writers EXCEPT ![d] = Append(@, w)]

-----------------------------------------------------------------------------
(* BUCKET_REGISTER and DATA_REGISTER, at the leader *)

RegisterBucket(q) ==
  /\ quota = Unset
  /\ quota' = q
  /\ UNCHANGED <<catalog, blobs, completed, hashes, streams, dirty, wire, known, tick,
                 writers, used>>

\* _check_bucket_quota: the sizes of all records of the bucket.
BucketUsed == MapThenSumSet(LAMBDA d : catalog[Leader][d].size,
                            {d \in Items : catalog[Leader][d] # Unset})

\* Whether the file is regular: cut into chunks of ChunkBytes, as an upload is.
Regular(size, chunks) ==
  /\ Len(chunks) = TotalChunksFor(size)
  /\ \A i \in DOMAIN chunks : chunks[i].len = ExpectedLen(size, i)

Register(d, c) ==
  LET size == SizeOf(Whole(c))
      record == Record(size, TotalChunksFor(size), Whole(c))
  IN  /\ Regular(size, Whole(c))
      /\ quota # Unset /\ BucketUsed + size <= quota
      /\ Writes(d, [by |-> "client", at |-> Leader, content |-> c])
      /\ catalog' = [catalog EXCEPT ![Leader][d] = record]
      /\ dirty' = [x \in DOMAIN dirty \cup {d} |-> IF x = d THEN record ELSE dirty[x]]
      /\ completed' = [completed EXCEPT ![Leader] =
           IF record.total = 0 THEN @ \cup {d} ELSE @]
      /\ UNCHANGED <<quota, blobs, hashes, streams, wire, known, tick, used>>

-----------------------------------------------------------------------------
(* Chunks *)

\* store_chunk and the status() its handler ends with.  A chunk of the wrong index
\* or length, or of no registered item, is refused.
StoreChunk(e, d, i, ch) ==
  LET r == catalog[e][d]
      bs == [x \in DOMAIN blobs[e][d] \cup {i} |-> IF x = i THEN ch ELSE blobs[e][d][x]]
  IN  IF r # Unset /\ i <= r.total /\ ch.len = ExpectedLen(r.size, i)
      THEN /\ blobs' = [blobs EXCEPT ![e][d] = bs]
           /\ completed' = [completed EXCEPT ![e] =
                IF (1 .. r.total) \subseteq DOMAIN bs THEN @ \cup {d} ELSE @]
           /\ hashes' = [hashes EXCEPT ![e][d] = HashedBy(e, d, r, bs)]
      ELSE UNCHANGED <<blobs, completed, hashes>>

\* DATA_CHUNK_PUT by a client that has registered the content, in any order, again
\* when it has no answer.
PutChunk(d, c, i) ==
  /\ \E w \in Range(writers[d]) : w.by = "client" /\ w.content = c
  /\ i \in DOMAIN Lengths[c]
  /\ StoreChunk(Leader, d, i, Chunk(c, i))
  /\ UNCHANGED <<quota, catalog, streams, dirty, wire, known, tick, writers, used>>

\* DATA_STATUS and DATA_INFO, at either endpoint.
Status(e, d) ==
  /\ catalog[e][d] # Unset
  /\ hashes' = [hashes EXCEPT ![e][d] = HashedBy(e, d, catalog[e][d], blobs[e][d])]
  /\ UNCHANGED <<quota, catalog, blobs, completed, streams, dirty, wire, known, tick,
                 writers, used>>

\* Mutant of Forget: the chunks stay.
ForgetRecordOnly(e, d) ==
  /\ catalog' = [catalog EXCEPT ![e][d] = Unset]
  /\ completed' = [completed EXCEPT ![e] = @ \ {d}]
  /\ hashes' = [hashes EXCEPT ![e][d] = Unset]
  /\ UNCHANGED blobs

\* DataRegistry.delete: the record's chunks, then the record.
Forget(e, d) ==
  /\ catalog' = [catalog EXCEPT ![e][d] = Unset]
  /\ blobs' = [blobs EXCEPT ![e][d] =
       [i \in DOMAIN @ \ (1 .. catalog[e][d].total) |-> @[i]]]
  /\ completed' = [completed EXCEPT ![e] = @ \ {d}]
  /\ hashes' = [hashes EXCEPT ![e][d] = Unset]

\* DATA_DELETE, at the leader.
Delete(d) ==
  /\ used.deletes < MaxDeletes
  /\ catalog[Leader][d] # Unset
  /\ Forget(Leader, d)
  /\ dirty' = [x \in DOMAIN dirty \cup {d} |-> IF x = d THEN Unset ELSE dirty[x]]
  /\ used' = [used EXCEPT !.deletes = @ + 1]
  /\ UNCHANGED <<quota, streams, wire, known, tick, writers>>

-----------------------------------------------------------------------------
(* Streams: dataio.write_chunks of a function running at e *)

OpenStream(e, d, c) ==
  /\ Writes(d, [by |-> "stream", at |-> e, content |-> c])
  /\ streams' = [streams EXCEPT ![e][d] = [content |-> c, next |-> 1]]
  /\ UNCHANGED <<quota, catalog, blobs, completed, hashes, dirty, wire, known, tick, used>>

\* append_chunk stores each chunk as it comes, whatever its length.
AppendChunk(e, d) ==
  LET s == streams[e][d]
  IN  /\ s # Unset /\ s.next \in DOMAIN Lengths[s.content]
      /\ blobs' = [blobs EXCEPT ![e][d] =
           [x \in DOMAIN @ \cup {s.next} |->
              IF x = s.next THEN Chunk(s.content, s.next) ELSE @[x]]]
      /\ streams' = [streams EXCEPT ![e][d].next = @ + 1]
      /\ UNCHANGED <<quota, catalog, completed, hashes, dirty, wire, known, tick, writers, used>>

\* finalize_stream: the record appears, past any quota; only a leader's DirtyTracker
\* is ever flushed.
FinalizeStream(e, d) ==
  LET s == streams[e][d]
      record == Record(SizeOf(Whole(s.content)), Len(Lengths[s.content]), Whole(s.content))
  IN  /\ s # Unset /\ s.next = Len(Lengths[s.content]) + 1
      /\ catalog' = [catalog EXCEPT ![e][d] = record]
      /\ streams' = [streams EXCEPT ![e][d] = Unset]
      /\ completed' = [completed EXCEPT ![e] = @ \cup {d}]
      /\ dirty' = IF e = Leader
                  THEN [x \in DOMAIN dirty \cup {d} |-> IF x = d THEN record ELSE dirty[x]]
                  ELSE dirty
      /\ UNCHANGED <<quota, blobs, hashes, wire, known, tick, writers, used>>

\* The function fails half way: its stream stays open, its chunks stay on disk.

-----------------------------------------------------------------------------
(* Records reach the follower *)

\* DataRegistrySyncBridge.apply_incoming, one change of the tick after the other.
\* A tombstone for an item unknown here removes nothing.
ApplyChange(d) ==
  /\ d \in DOMAIN dirty
  /\ IF dirty[d] # Unset
     THEN catalog' = [catalog EXCEPT ![Follower][d] = dirty[d]]
          /\ UNCHANGED <<blobs, completed, hashes>>
     ELSE IF catalog[Follower][d] # Unset THEN Forget(Follower, d)
     ELSE UNCHANGED <<catalog, blobs, completed, hashes>>
  /\ dirty' = [x \in DOMAIN dirty \ {d} |-> dirty[x]]
  /\ UNCHANGED <<quota, streams, wire, known, tick, writers, used>>

\* The follower restarts: its memory is gone, its disk perhaps too, and it is given
\* the leader's records when it joins again.
Restart(wiped) ==
  /\ used.losses + used.restarts < MaxFaults
  /\ catalog' = [catalog EXCEPT ![Follower] = catalog[Leader]]
  /\ dirty' = [d \in {} |-> Unset]
  /\ blobs' = [blobs EXCEPT ![Follower] =
       IF wiped THEN [d \in Items |-> [i \in {} |-> Unset]] ELSE @]
  /\ completed' = [completed EXCEPT ![Follower] = {}]
  /\ hashes' = [hashes EXCEPT ![Follower] = [d \in Items |-> Unset]]
  /\ streams' = [streams EXCEPT ![Follower] = [d \in Items |-> Unset]]
  /\ used' = [used EXCEPT !.restarts = @ + 1]
  /\ UNCHANGED <<quota, wire, known, tick, writers>>

-----------------------------------------------------------------------------
(* BlobReplicator.run_tick, on a thread of its own *)

\* A complete dataset is considered, unless the follower is known to have it and
\* was asked lately; the leader's status is taken now.
Consider(d) ==
  /\ tick = Resting
  /\ Complete(Leader, d) /\ known[d] # "complete"
  /\ hashes' = [hashes EXCEPT ![Leader][d] =
       HashedBy(Leader, d, catalog[Leader][d], blobs[Leader][d])]
  /\ tick' = [stage |-> "ask", item |-> d, present |-> Present(Leader, d), sent |-> FALSE]
  /\ UNCHANGED <<quota, catalog, blobs, completed, streams, dirty, wire, known, writers, used>>

\* DATA_STATUS of the follower: recorded, and what it lacks is to be pushed.
AskFollower ==
  /\ tick.stage = "ask"
  /\ LET d == tick.item
         has == IF catalog[Follower][d] = Unset THEN {} ELSE Present(Follower, d)
     IN  /\ known' = [known EXCEPT ![d] = IF Complete(Follower, d) THEN "complete" ELSE "partial"]
         /\ tick' = IF Complete(Follower, d) THEN Resting
                    ELSE [tick EXCEPT !.stage = "push", !.present = @ \ has]
         /\ hashes' = [hashes EXCEPT ![Follower][d] =
              HashedBy(Follower, d, catalog[Follower][d], blobs[Follower][d])]
  /\ UNCHANGED <<quota, catalog, blobs, completed, streams, dirty, wire, writers, used>>

\* The lowest missing chunk, read now: it may be gone, or another, by now.
PushChunk ==
  /\ tick.stage = "push" /\ tick.present # {}
  /\ LET d == tick.item
         i == Min(tick.present)
         readable == catalog[Leader][d] # Unset /\ i \in DOMAIN blobs[Leader][d]
     IN  /\ wire' = IF readable
                    THEN wire \cup {[item |-> d, at |-> i, chunk |-> blobs[Leader][d][i]]}
                    ELSE wire
         /\ tick' = [tick EXCEPT !.present = @ \ {i}, !.sent = @ \/ readable]
  /\ UNCHANGED <<quota, catalog, blobs, completed, hashes, streams, dirty, known, writers, used>>

\* All is sent, or the tick's byte budget is.
TickEnds ==
  /\ tick.stage = "push" /\ (tick.present = {} \/ tick.sent)
  /\ tick' = Resting
  /\ UNCHANGED <<quota, catalog, blobs, completed, hashes, streams, dirty, wire, known,
                 writers, used>>

\* Mutant of RecheckDue: an endpoint found complete is never asked again.
RecheckNever(d) == d \notin Items /\ UNCHANGED dataVars

\* recheck_seconds have passed since the follower was found complete.
RecheckDue(d) ==
  /\ known[d] = "complete"
  /\ known' = [known EXCEPT ![d] = "stale"]
  /\ UNCHANGED <<quota, catalog, blobs, completed, hashes, streams, dirty, wire, tick,
                 writers, used>>

Messages == {[item |-> d, at |-> ch.at, chunk |-> ch] : d \in Items, ch \in Chunks}

\* A pushed chunk arrives, in no order, or is lost.
Deliver(m) ==
  /\ m \in wire
  /\ StoreChunk(Follower, m.item, m.at, m.chunk)
  /\ wire' = wire \ {m}
  /\ UNCHANGED <<quota, catalog, streams, dirty, known, tick, writers, used>>

Lose(m) ==
  /\ m \in wire /\ used.losses + used.restarts < MaxFaults
  /\ wire' = wire \ {m}
  /\ used' = [used EXCEPT !.losses = @ + 1]
  /\ UNCHANGED <<quota, catalog, blobs, completed, hashes, streams, dirty, known, tick, writers>>

-----------------------------------------------------------------------------
DataNext ==
  \/ \E q \in Quotas : RegisterBucket(q)
  \/ \E d \in Items, c \in Contents : Register(d, c)
  \/ \E d \in Items, c \in Contents, i \in Indices : PutChunk(d, c, i)
  \/ \E e \in Endpoints, d \in Items : Status(e, d)
  \/ \E e \in Endpoints, d \in Items, c \in Streamed : OpenStream(e, d, c)
  \/ \E e \in Endpoints, d \in Items : AppendChunk(e, d) \/ FinalizeStream(e, d)
  \/ \E d \in Items : Delete(d) \/ ApplyChange(d) \/ Consider(d) \/ RecheckDue(d)
  \/ \E wiped \in BOOLEAN : Restart(wiped)
  \/ AskFollower \/ PushChunk \/ TickEnds
  \/ \E m \in wire : Deliver(m) \/ Lose(m)

\* The replication thread and the consensus tick come round again, and messages that
\* are not lost arrive.  Every dataset is looked at in every tick.
DataFairness ==
  /\ \A d \in Items : WF_dataVars(ApplyChange(d)) /\ WF_dataVars(RecheckDue(d))
                        /\ SF_dataVars(Consider(d))
  /\ WF_dataVars(AskFollower) /\ WF_dataVars(PushChunk) /\ WF_dataVars(TickEnds)
  /\ \A m \in Messages : WF_dataVars(Deliver(m))

DataSpec == DataInit /\ [][DataNext]_dataVars /\ DataFairness

-----------------------------------------------------------------------------
(* Properties *)

OnceWritten(d) == Len(writers[d]) <= 1
SameContent(d) == \A v, w \in Range(writers[d]) : v.content = w.content
StreamedAt(e, d) == \E w \in Range(writers[d]) : w.by = "stream" /\ w.at = e

Records == {Record(SizeOf(Whole(c)), Len(Lengths[c]), Whole(c)) : c \in Contents}
Writers == [by : {"client", "stream"}, at : Endpoints, content : Contents]
Files == UNION {{f \in [D -> Chunks] : \A i \in D : f[i].at = i} : D \in SUBSET Indices}
Hashes == [computed : UNION {[D -> Chunks \cup {Unset}] : D \in SUBSET Indices},
           verified : BOOLEAN]
Streams == [content : Streamed, next : Nat \ {0}]
Ticks == [stage : {"ask", "push"}, item : Items, present : SUBSET Indices, sent : BOOLEAN]

\* Records, files, caches, streams and messages are about chunks of the contents written,
\* each in its place.
DataTypeOK ==
  /\ quota \in Quotas \cup {Unset}
  /\ catalog \in [Endpoints -> [Items -> Records \cup {Unset}]]
  /\ blobs \in [Endpoints -> [Items -> Files]]
  /\ completed \in [Endpoints -> SUBSET Items]
  /\ hashes \in [Endpoints -> [Items -> Hashes \cup {Unset}]]
  /\ streams \in [Endpoints -> [Items -> Streams \cup {Unset}]]
  /\ DOMAIN dirty \subseteq Items /\ \A d \in DOMAIN dirty : dirty[d] \in Records \cup {Unset}
  /\ wire \subseteq Messages
  /\ known \in [Items -> {"unknown", "partial", "complete", "stale"}]
  /\ tick \in Ticks \cup {Resting}
  /\ writers \in [Items -> Seq(Writers)]
  /\ used \in [deletes : Nat, losses : Nat, restarts : Nat]

\* hash_verified is the word a client has that the bytes are the ones declared: it is
\* never stale, at either endpoint, for an item always written with the same content.
VerifiedIsTrue ==
  \A e \in Endpoints, d \in Items :
    hashes[e][d] # Unset /\ SameContent(d) =>
      /\ hashes[e][d].computed = Bytes(blobs[e][d], catalog[e][d].total)
      /\ hashes[e][d].verified

\* The follower's files of an item always written with the same content are that
\* content's: a chunk arriving late never outlives the deletion of its item, unless the
\* follower restarted between.
ReplicaIsFaithful ==
  \A d \in Items :
    /\ SameContent(d) =>
         \A i \in DOMAIN blobs[Follower][d] :
           \A w \in Range(writers[d]) : blobs[Follower][d][i] = Chunk(w.content, i)
    /\ catalog[Follower][d] = Unset /\ SameContent(d) /\ used.restarts = 0
         => DOMAIN blobs[Follower][d] = {} \/ StreamedAt(Follower, d)

\* A dataset complete at the leader and cut into regular chunks becomes complete at
\* the follower in spite of lost chunks, a restart or a wiped disk, unless deleted.
ReplicaCompletes ==
  \A d \in Items :
    (Complete(Leader, d) /\ Regular(catalog[Leader][d].size, catalog[Leader][d].hash)) ~>
      (Complete(Follower, d) \/ catalog[Leader][d] = Unset \/ ~OnceWritten(d))
=============================================================================
