-------------------------- MODULE DataStoreProofs --------------------------
(***************************************************************************)
(* Theorems about DataStore, for every set of items and contents and every *)
(* bound: the types, and that an item always written with the same content *)
(* has, at both endpoints and on the wire, no byte, record or hash of      *)
(* another one.                                                            *)
(***************************************************************************)
EXTENDS DataStore, SequenceTheorems, TLAPS

-----------------------------------------------------------------------------
(* The inductive invariant *)

RecordOf(c) == Record(SizeOf(Whole(c)), Len(Lengths[c]), Whole(c))

\* What the endpoint e keeps of the item d is of the content c.
CatalogOf(e, d, c) == catalog[e][d] \in {Unset, RecordOf(c)}
FilesOf(e, d, c) ==
  \A i \in DOMAIN blobs[e][d] : i \in DOMAIN Lengths[c] /\ blobs[e][d][i] = Chunk(c, i)
StreamOf(e, d, c) ==
  streams[e][d] # Unset => streams[e][d].content = c /\ StreamedAt(e, d)
HashOf(e, d, c) ==
  hashes[e][d] # Unset =>
    /\ catalog[e][d] = RecordOf(c)
    /\ DOMAIN Lengths[c] \subseteq DOMAIN blobs[e][d]
    /\ hashes[e][d].computed = Whole(c) /\ hashes[e][d].verified

\* What is on its way to the follower is of the content c.
DirtyOf(d, c) == d \in DOMAIN dirty => dirty[d] \in {Unset, RecordOf(c)}
WireOf(d, c) ==
  \A m \in wire : m.item = d => m.at \in DOMAIN Lengths[c] /\ m.chunk = Chunk(c, m.at)

\* A follower that never restarted has files beside a record only, or of a stream.
FilesHaveRecord(d) ==
  catalog[Follower][d] = Unset /\ used.restarts = 0
    => DOMAIN blobs[Follower][d] = {} \/ StreamedAt(Follower, d)

Of(d, c) ==
  /\ \A e \in Endpoints :
       CatalogOf(e, d, c) /\ FilesOf(e, d, c) /\ StreamOf(e, d, c) /\ HashOf(e, d, c)
  /\ DirtyOf(d, c)
  /\ WireOf(d, c)
  /\ FilesHaveRecord(d)

WrittenAs(d, c) == \A w \in Range(writers[d]) : w.content = c

\* A hash is kept beside a record only.
HashHasRecord ==
  \A e \in Endpoints, d \in Items : hashes[e][d] # Unset => catalog[e][d] \in Records

DataInv ==
  /\ DataTypeOK
  /\ HashHasRecord
  /\ \A d \in Items, c \in Contents : WrittenAs(d, c) => Of(d, c)

-----------------------------------------------------------------------------
(* Contents, records and chunks *)

LEMMA ContentFacts ==
  ASSUME NEW c \in Contents
  PROVE  /\ Lengths[c] \in Seq(Nat \ {0})
         /\ DOMAIN Lengths[c] = 1 .. Len(Lengths[c])
         /\ Len(Lengths[c]) \in Nat
         /\ DOMAIN Lengths[c] \subseteq Indices
         /\ Len(Whole(c)) = Len(Lengths[c])
<1>1. /\ Lengths[c] \in Seq(Nat \ {0})
      /\ DOMAIN Lengths[c] = 1 .. Len(Lengths[c])
      /\ Len(Lengths[c]) \in Nat
  BY DataAssumption
<1>2. DOMAIN Lengths[c] \subseteq Indices
  BY Zenon DEF Indices
<1>3. DOMAIN Whole(c) = 1 .. Len(Lengths[c])
  BY <1>1 DEF Whole
<1>4. Whole(c) = [i \in 1 .. Len(Lengths[c]) |-> Chunk(c, i)]
  BY <1>1 DEF Whole
<1>5. Len(Whole(c)) = Len(Lengths[c])
  BY <1>1, <1>4
<1> QED BY <1>1, <1>2, <1>5

LEMMA IndexFacts ==
  Indices \subseteq Nat \ {0}
<1> SUFFICES ASSUME NEW i \in Indices PROVE i \in Nat \ {0}
  OBVIOUS
<1>1. PICK c \in Contents : i \in DOMAIN Lengths[c]
  BY DEF Indices
<1> QED BY <1>1, ContentFacts

LEMMA ChunkFacts ==
  ASSUME NEW c \in Contents, NEW i \in DOMAIN Lengths[c]
  PROVE  Chunk(c, i) \in Chunks /\ Chunk(c, i).at = i /\ i \in Indices
<1>0. Chunk(c, i) \in {Chunk(c, x) : x \in DOMAIN Lengths[c]}
  BY Zenon
<1>1. Chunk(c, i) \in Chunks
  BY <1>0 DEF Chunks
<1>2. i \in Indices
  BY Zenon DEF Indices
<1>3. Chunk(c, i).at = i
  BY DEF Chunk
<1> QED BY <1>1, <1>2, <1>3

LEMMA RecordFacts ==
  ASSUME NEW c \in Contents
  PROVE  /\ RecordOf(c) \in Records
         /\ RecordOf(c).total = Len(Lengths[c])
         /\ RecordOf(c).hash = Whole(c)
<1>1. RecordOf(c) \in Records
  BY Zenon DEF Records, RecordOf
<1>2. RecordOf(c).total = Len(Lengths[c]) /\ RecordOf(c).hash = Whole(c)
  BY DEF RecordOf, Record
<1> QED BY <1>1, <1>2

LEMMA RecordsAre ==
  ASSUME NEW r \in Records
  PROVE  \E c \in Contents : r = RecordOf(c)
BY Zenon DEF Records, RecordOf

LEMMA TotalFacts ==
  ASSUME NEW r \in Records
  PROVE  r.total \in Nat /\ 1 .. r.total \subseteq Indices
<1>1. PICK c \in Contents : r = RecordOf(c)
  BY RecordsAre
<1>2. r.total = Len(Lengths[c])
  BY <1>1, RecordFacts
<1> QED BY <1>2, ContentFacts

\* A regular file is registered with as many chunks as it has.
LEMMA RegularRecord ==
  ASSUME NEW c \in Contents, Regular(SizeOf(Whole(c)), Whole(c))
  PROVE  Record(SizeOf(Whole(c)), TotalChunksFor(SizeOf(Whole(c))), Whole(c)) = RecordOf(c)
<1>1. TotalChunksFor(SizeOf(Whole(c))) = Len(Lengths[c])
  BY ContentFacts DEF Regular
<1> QED BY <1>1, Zenon DEF RecordOf

-----------------------------------------------------------------------------
(* Files *)

\* A file with one more chunk in its place.
Stored(f, i, ch) == [x \in DOMAIN f \cup {i} |-> IF x = i THEN ch ELSE f[x]]

LEMMA FileFacts ==
  ASSUME NEW f \in Files
  PROVE  /\ DOMAIN f \subseteq Indices
         /\ f = [i \in DOMAIN f |-> f[i]]
         /\ \A i \in DOMAIN f : f[i] \in Chunks /\ f[i].at = i
<1>1. PICK D \in SUBSET Indices : f \in {g \in [D -> Chunks] : \A i \in D : g[i].at = i}
  BY Zenon DEF Files
<1>2. f \in [D -> Chunks] /\ \A i \in D : f[i].at = i
  BY <1>1
<1> QED BY <1>2

LEMMA FileIntro ==
  ASSUME NEW D \in SUBSET Indices, NEW f \in [D -> Chunks], \A i \in D : f[i].at = i
  PROVE  f \in Files
<1>1. f \in {g \in [D -> Chunks] : \A i \in D : g[i].at = i}
  OBVIOUS
<1> QED BY <1>1, Zenon DEF Files

LEMMA EmptyFile ==
  [i \in {} |-> Unset] \in Files /\ DOMAIN [i \in {} |-> Unset] = {}
<1> PICK f : f = [i \in {} |-> Unset]
  OBVIOUS
<1>1. {} \in SUBSET Indices
  OBVIOUS
<1>2. f \in [{} -> Chunks] /\ \A i \in {} : f[i].at = i
  OBVIOUS
<1>3. f \in Files
  BY <1>1, <1>2, FileIntro
<1> QED BY <1>3

LEMMA StoredFacts ==
  ASSUME NEW f \in Files, NEW i \in Indices, NEW ch \in Chunks, ch.at = i
  PROVE  /\ Stored(f, i, ch) \in Files
         /\ DOMAIN Stored(f, i, ch) = DOMAIN f \cup {i}
         /\ \A x \in DOMAIN f \cup {i} :
              Stored(f, i, ch)[x] = IF x = i THEN ch ELSE f[x]
<1> PICK g : g = Stored(f, i, ch)
  OBVIOUS
<1>1. /\ DOMAIN g = DOMAIN f \cup {i}
      /\ \A x \in DOMAIN f \cup {i} : g[x] = IF x = i THEN ch ELSE f[x]
      /\ g = [x \in DOMAIN f \cup {i} |-> g[x]]
  BY DEF Stored
<1>2. DOMAIN f \cup {i} \in SUBSET Indices
  BY FileFacts
<1>3. \A x \in DOMAIN f : f[x] \in Chunks /\ f[x].at = x
  BY FileFacts
<1>3a. \A x \in DOMAIN f \cup {i} : g[x] \in Chunks /\ g[x].at = x
  BY <1>1, <1>3
<1>3b. g \in [DOMAIN f \cup {i} -> Chunks]
  BY <1>1, <1>3a
<1>4. g \in Files
  BY <1>2, <1>3a, <1>3b, FileIntro
<1> QED BY <1>1, <1>4

LEMMA StoredChunkFacts ==
  ASSUME NEW f \in Files, NEW c \in Contents, NEW i \in DOMAIN Lengths[c]
  PROVE  /\ Stored(f, i, Chunk(c, i)) \in Files
         /\ DOMAIN Stored(f, i, Chunk(c, i)) = DOMAIN f \cup {i}
         /\ \A x \in DOMAIN f \cup {i} :
              Stored(f, i, Chunk(c, i))[x] = IF x = i THEN Chunk(c, i) ELSE f[x]
<1>1. Chunk(c, i) \in Chunks /\ Chunk(c, i).at = i /\ i \in Indices
  BY ChunkFacts
<1>2. /\ DOMAIN Stored(f, i, Chunk(c, i)) = DOMAIN f \cup {i}
      /\ \A x \in DOMAIN f \cup {i} :
           Stored(f, i, Chunk(c, i))[x] = IF x = i THEN Chunk(c, i) ELSE f[x]
  BY DEF Stored
<1>3. Stored(f, i, Chunk(c, i)) \in Files
  BY <1>1, StoredFacts
<1> QED BY <1>2, <1>3

LEMMA RemovedFacts ==
  ASSUME NEW f \in Files, NEW S
  PROVE  /\ [i \in DOMAIN f \ S |-> f[i]] \in Files
         /\ DOMAIN [i \in DOMAIN f \ S |-> f[i]] = DOMAIN f \ S
         /\ \A i \in DOMAIN f \ S : [x \in DOMAIN f \ S |-> f[x]][i] = f[i]
<1> PICK g : g = [i \in DOMAIN f \ S |-> f[i]]
  OBVIOUS
<1>1. DOMAIN f \ S \in SUBSET Indices
  BY FileFacts
<1>2. g \in [DOMAIN f \ S -> Chunks] /\ \A i \in DOMAIN f \ S : g[i].at = i
  BY FileFacts
<1>3. g \in Files
  BY <1>1, <1>2, FileIntro
<1> QED BY <1>3

\* The chunks of the whole content, in order, are the content.
LEMMA BytesOfWhole ==
  ASSUME NEW c \in Contents, NEW f \in Files,
         DOMAIN Lengths[c] \subseteq DOMAIN f,
         \A i \in DOMAIN f : i \in DOMAIN Lengths[c] => f[i] = Chunk(c, i)
  PROVE  Bytes(f, Len(Lengths[c])) = Whole(c)
<1>1. DOMAIN Lengths[c] = 1 .. Len(Lengths[c])
  BY ContentFacts
<1>2. \A i \in 1 .. Len(Lengths[c]) : (IF i \in DOMAIN f THEN f[i] ELSE Unset) = Chunk(c, i)
  BY <1>1
<1> QED BY <1>1, <1>2 DEF Bytes, Whole

-----------------------------------------------------------------------------
(* Hashing *)

LEMMA HashTypes ==
  ASSUME NEW r \in Records, NEW f \in Files, NEW v \in BOOLEAN
  PROVE  [computed |-> Bytes(f, r.total), verified |-> v] \in Hashes
<1> PICK b : b = Bytes(f, r.total)
  OBVIOUS
<1>1. 1 .. r.total \in SUBSET Indices
  BY TotalFacts
<1>2. b \in [1 .. r.total -> Chunks \cup {Unset}]
  BY FileFacts DEF Bytes
<1>3. b \in UNION {[D -> Chunks \cup {Unset}] : D \in SUBSET Indices}
  BY <1>1, <1>2, Zenon
<1> QED BY <1>3 DEF Hashes

LEMMA HashedByTypes ==
  ASSUME DataTypeOK, HashHasRecord, NEW e \in Endpoints, NEW d \in Items,
         NEW f \in Files
  PROVE  /\ HashedBy(e, d, catalog[e][d], f) \in Hashes \cup {Unset}
         /\ HashedBy(e, d, catalog[e][d], f) # Unset => catalog[e][d] \in Records
<1> PICK r : r = catalog[e][d]
  OBVIOUS
<1>0. r \in Records \cup {Unset} /\ hashes[e][d] \in Hashes \cup {Unset}
  BY DEF DataTypeOK
<1>1. CASE r # Unset /\ hashes[e][d] = Unset /\ (1 .. r.total) \subseteq DOMAIN f
  <2> PICK v \in BOOLEAN : v = (Bytes(f, r.total) = r.hash)
    OBVIOUS
  <2>1. HashedBy(e, d, r, f) = [computed |-> Bytes(f, r.total), verified |-> v]
    BY <1>1 DEF HashedBy
  <2>2. r \in Records
    BY <1>0, <1>1
  <2> QED BY <2>1, <2>2, HashTypes
<1>2. CASE ~(r # Unset /\ hashes[e][d] = Unset /\ (1 .. r.total) \subseteq DOMAIN f)
  <2>1. HashedBy(e, d, r, f) = hashes[e][d]
    BY <1>2, Zenon DEF HashedBy
  <2> QED BY <2>1, <1>0 DEF HashHasRecord
<1> QED BY <1>1, <1>2

\* The hash taken of a complete file of one content is that content's, and so is a
\* hash kept from before.
LEMMA HashedByOf ==
  ASSUME NEW c \in Contents, NEW e \in Endpoints, NEW d \in Items, NEW f \in Files,
         NEW r \in {Unset, RecordOf(c)},
         \A i \in DOMAIN f : i \in DOMAIN Lengths[c] /\ f[i] = Chunk(c, i),
         hashes[e][d] # Unset =>
           /\ r = RecordOf(c) /\ DOMAIN Lengths[c] \subseteq DOMAIN f
           /\ hashes[e][d].computed = Whole(c) /\ hashes[e][d].verified,
         HashedBy(e, d, r, f) # Unset
  PROVE  /\ r = RecordOf(c) /\ DOMAIN Lengths[c] \subseteq DOMAIN f
         /\ HashedBy(e, d, r, f).computed = Whole(c) /\ HashedBy(e, d, r, f).verified
<1>1. CASE r # Unset /\ hashes[e][d] = Unset /\ (1 .. r.total) \subseteq DOMAIN f
  <2>1. r = RecordOf(c) /\ r.total = Len(Lengths[c]) /\ r.hash = Whole(c)
    BY <1>1, RecordFacts
  <2>2. DOMAIN Lengths[c] \subseteq DOMAIN f
    BY <1>1, <2>1, ContentFacts
  <2>3. Bytes(f, r.total) = Whole(c)
    BY <2>1, <2>2, BytesOfWhole
  <2> PICK v \in BOOLEAN : v = (Bytes(f, r.total) = r.hash)
    OBVIOUS
  <2>4. v
    BY <2>1, <2>3
  <2>5. HashedBy(e, d, r, f) = [computed |-> Bytes(f, r.total), verified |-> v]
    BY <1>1 DEF HashedBy
  <2> QED BY <2>1, <2>2, <2>3, <2>4, <2>5
<1>2. CASE ~(r # Unset /\ hashes[e][d] = Unset /\ (1 .. r.total) \subseteq DOMAIN f)
  <2>1. HashedBy(e, d, r, f) = hashes[e][d]
    BY <1>2, Zenon DEF HashedBy
  <2> QED BY <2>1
<1> QED BY <1>1, <1>2

-----------------------------------------------------------------------------
(* Who wrote an item *)

LEMMA WritesFacts ==
  ASSUME DataTypeOK, NEW x \in Items, NEW w \in Writers, Writes(x, w)
  PROVE  /\ writers' \in [Items -> Seq(Writers)]
         /\ w \in Range(writers'[x])
         /\ \A d \in Items : Range(writers[d]) \subseteq Range(writers'[d])
<1>1. writers \in [Items -> Seq(Writers)]
  BY DEF DataTypeOK
<1>2. writers' = [writers EXCEPT ![x] = Append(writers[x], w)]
  BY DEF Writes
<1>3. /\ Append(writers[x], w) \in Seq(Writers)
      /\ Len(Append(writers[x], w)) = Len(writers[x]) + 1
      /\ Append(writers[x], w)[Len(writers[x]) + 1] = w
      /\ \A i \in 1 .. Len(writers[x]) : Append(writers[x], w)[i] = writers[x][i]
  BY <1>1, AppendProperties
<1>4. writers' \in [Items -> Seq(Writers)]
  BY <1>1, <1>2, <1>3
<1>5. /\ writers'[x] = Append(writers[x], w)
      /\ DOMAIN writers[x] = 1 .. Len(writers[x])
      /\ Len(writers[x]) \in Nat
      /\ DOMAIN Append(writers[x], w) = 1 .. Len(writers[x]) + 1
  BY <1>1, <1>2, <1>3
<1>6. w \in Range(writers'[x])
  <2>1. Len(writers[x]) + 1 \in DOMAIN writers'[x] /\ writers'[x][Len(writers[x]) + 1] = w
    BY <1>3, <1>5
  <2> QED BY <2>1, Zenon DEF Range
<1>7. ASSUME NEW d \in Items PROVE Range(writers[d]) \subseteq Range(writers'[d])
  <2>1. CASE d # x
    <3>1. writers'[d] = writers[d]
      BY <1>1, <1>2, <2>1
    <3> QED BY <3>1
  <2>2. CASE d = x
    <3> SUFFICES ASSUME NEW v \in Range(writers[x]) PROVE v \in Range(writers'[x])
      BY <2>2
    <3>1. PICK i \in DOMAIN writers[x] : v = writers[x][i]
      BY Zenon DEF Range
    <3>2. i \in DOMAIN writers'[x] /\ v = writers'[x][i]
      BY <1>3, <1>5, <3>1
    <3> QED BY <3>2, Zenon DEF Range
  <2> QED BY <2>1, <2>2
<1> QED BY <1>4, <1>6, <1>7

\* The history only grows.
WritersGrow == \A d \in Items : Range(writers[d]) \subseteq Range(writers'[d])

LEMMA WrittenBefore ==
  ASSUME WritersGrow, NEW d \in Items, NEW c \in Contents, WrittenAs(d, c)'
  PROVE  WrittenAs(d, c)
<1>1. Range(writers[d]) \subseteq Range(writers'[d])
  BY DEF WritersGrow
<1> QED BY <1>1 DEF WrittenAs

LEMMA StreamedStays ==
  ASSUME WritersGrow, NEW d \in Items, NEW e \in Endpoints, StreamedAt(e, d)
  PROVE  StreamedAt(e, d)'
<1>1. Range(writers[d]) \subseteq Range(writers'[d])
  BY DEF WritersGrow
<1> QED BY <1>1 DEF StreamedAt

LEMMA WritersSame ==
  ASSUME UNCHANGED writers
  PROVE  WritersGrow
BY DEF WritersGrow

-----------------------------------------------------------------------------
(* What a step leaves alone *)

OfAt(e, d, c) == CatalogOf(e, d, c) /\ FilesOf(e, d, c) /\ StreamOf(e, d, c) /\ HashOf(e, d, c)

SameAt(e, d) == /\ catalog'[e][d] = catalog[e][d]
                /\ blobs'[e][d] = blobs[e][d]
                /\ streams'[e][d] = streams[e][d]
                /\ hashes'[e][d] = hashes[e][d]

LEMMA OfIs ==
  ASSUME NEW d \in Items, NEW c \in Contents
  PROVE  Of(d, c) <=> /\ \A e \in Endpoints : OfAt(e, d, c)
                      /\ DirtyOf(d, c) /\ WireOf(d, c) /\ FilesHaveRecord(d)
BY DEF Of, OfAt

LEMMA OfIsPrimed ==
  ASSUME NEW d \in Items, NEW c \in Contents,
         \A e \in Endpoints : OfAt(e, d, c)',
         DirtyOf(d, c)', WireOf(d, c)', FilesHaveRecord(d)'
  PROVE  Of(d, c)'
BY DEF Of, OfAt

LEMMA OfAtSame ==
  ASSUME WritersGrow, NEW e \in Endpoints, NEW d \in Items, NEW c \in Contents,
         OfAt(e, d, c), SameAt(e, d)
  PROVE  OfAt(e, d, c)'
<1>1. CatalogOf(e, d, c)'
  BY DEF OfAt, SameAt, CatalogOf
<1>2. FilesOf(e, d, c)'
  BY DEF OfAt, SameAt, FilesOf
<1>3. StreamOf(e, d, c)'
  BY StreamedStays DEF OfAt, SameAt, StreamOf
<1>4. HashOf(e, d, c)'
  BY DEF OfAt, SameAt, HashOf
<1> QED BY <1>1, <1>2, <1>3, <1>4 DEF OfAt

LEMMA FilesHaveRecordSame ==
  ASSUME WritersGrow, NEW d \in Items, FilesHaveRecord(d), SameAt(Follower, d),
         used'.restarts = 0 => used.restarts = 0
  PROVE  FilesHaveRecord(d)'
<1>1. Follower \in Endpoints
  BY DEF Endpoints
<1>2. StreamedAt(Follower, d) => StreamedAt(Follower, d)'
  BY <1>1, StreamedStays
<1> QED BY <1>2 DEF FilesHaveRecord, SameAt

\* A nested function updated in one place.
LEMMA PutAt ==
  ASSUME NEW S, NEW f \in [Endpoints -> [Items -> S]], NEW y \in Endpoints,
         NEW x \in Items, NEW v \in S
  PROVE  /\ [f EXCEPT ![y][x] = v] \in [Endpoints -> [Items -> S]]
         /\ [f EXCEPT ![y][x] = v][y][x] = v
         /\ \A e \in Endpoints, d \in Items :
              (e # y \/ d # x) => [f EXCEPT ![y][x] = v][e][d] = f[e][d]
OBVIOUS

-----------------------------------------------------------------------------
(* Storing a chunk and taking a status *)

LEMMA StoredParts ==
  ASSUME NEW y \in Endpoints, NEW x \in Items, NEW i \in Indices, NEW ch \in Chunks,
         StoreChunk(y, x, i, ch)
  PROVE  \/ UNCHANGED <<blobs, completed, hashes>>
         \/ /\ catalog[y][x] # Unset /\ i <= catalog[y][x].total
            /\ blobs' = [blobs EXCEPT ![y][x] = Stored(blobs[y][x], i, ch)]
            /\ completed' = [completed EXCEPT ![y] =
                 IF (1 .. catalog[y][x].total) \subseteq DOMAIN Stored(blobs[y][x], i, ch)
                 THEN completed[y] \cup {x} ELSE completed[y]]
            /\ hashes' = [hashes EXCEPT ![y][x] =
                 HashedBy(y, x, catalog[y][x], Stored(blobs[y][x], i, ch))]
BY Zenon DEF StoreChunk, Stored

LEMMA StoreChunkTypes ==
  ASSUME DataTypeOK, HashHasRecord, NEW y \in Endpoints, NEW x \in Items,
         NEW i \in Indices, NEW ch \in Chunks, ch.at = i,
         StoreChunk(y, x, i, ch), UNCHANGED <<catalog, streams>>
  PROVE  /\ blobs' \in [Endpoints -> [Items -> Files]]
         /\ completed' \in [Endpoints -> SUBSET Items]
         /\ hashes' \in [Endpoints -> [Items -> Hashes \cup {Unset}]]
         /\ HashHasRecord'
         /\ \A e \in Endpoints, d \in Items : (e # y \/ d # x) => SameAt(e, d)
<1>0. /\ blobs \in [Endpoints -> [Items -> Files]]
      /\ completed \in [Endpoints -> SUBSET Items]
      /\ hashes \in [Endpoints -> [Items -> Hashes \cup {Unset}]]
  BY DEF DataTypeOK
<1>1. CASE UNCHANGED <<blobs, completed, hashes>>
  <2>1. HashHasRecord'
    BY <1>1 DEF HashHasRecord
  <2> QED BY <2>1, <1>0, <1>1 DEF SameAt
<1>2. CASE ~UNCHANGED <<blobs, completed, hashes>>
  <2> PICK bs : bs = Stored(blobs[y][x], i, ch)
    OBVIOUS
  <2> PICK h : h = HashedBy(y, x, catalog[y][x], bs)
    OBVIOUS
  <2>1. blobs' = [blobs EXCEPT ![y][x] = bs] /\ hashes' = [hashes EXCEPT ![y][x] = h]
    BY <1>2, StoredParts
  <2>2. PICK done \in SUBSET Items : completed' = [completed EXCEPT ![y] = done]
    <3>1. completed[y] \in SUBSET Items /\ completed[y] \cup {x} \in SUBSET Items
      BY <1>0
    <3> QED BY <1>2, <3>1, StoredParts
  <2>3. bs \in Files
    <3>1. blobs[y][x] \in Files
      BY <1>0
    <3> QED BY <3>1, StoredFacts, Zenon
  <2>4. h \in Hashes \cup {Unset} /\ (h # Unset => catalog[y][x] \in Records)
    BY <2>3, HashedByTypes
  <2>5. /\ blobs' \in [Endpoints -> [Items -> Files]]
        /\ \A e \in Endpoints, d \in Items : (e # y \/ d # x) => blobs'[e][d] = blobs[e][d]
    BY <1>0, <2>1, <2>3, PutAt
  <2>6. /\ hashes' \in [Endpoints -> [Items -> Hashes \cup {Unset}]]
        /\ hashes'[y][x] = h
        /\ \A e \in Endpoints, d \in Items : (e # y \/ d # x) => hashes'[e][d] = hashes[e][d]
    BY <1>0, <2>1, <2>4, PutAt
  <2>7. completed' \in [Endpoints -> SUBSET Items]
    BY <1>0, <2>2
  <2>8. HashHasRecord'
    BY <2>4, <2>6 DEF HashHasRecord
  <2> QED BY <2>5, <2>6, <2>7, <2>8 DEF SameAt
<1> QED BY <1>1, <1>2

LEMMA StoreChunkOf ==
  ASSUME DataTypeOK, NEW y \in Endpoints, NEW x \in Items, NEW c \in Contents,
         NEW i \in DOMAIN Lengths[c],
         StoreChunk(y, x, i, Chunk(c, i)), UNCHANGED <<catalog, streams, writers>>,
         OfAt(y, x, c)
  PROVE  /\ OfAt(y, x, c)'
         /\ SameAt(y, x) \/ catalog'[y][x] # Unset
<1>0. /\ blobs \in [Endpoints -> [Items -> Files]]
      /\ hashes \in [Endpoints -> [Items -> Hashes \cup {Unset}]]
  BY DEF DataTypeOK
<1>1. CASE UNCHANGED <<blobs, completed, hashes>>
  <2>1. SameAt(y, x)
    BY <1>1 DEF SameAt
  <2> QED BY <2>1, WritersSame, OfAtSame
<1>2. CASE ~UNCHANGED <<blobs, completed, hashes>>
  <2>0. Chunk(c, i) \in Chunks /\ Chunk(c, i).at = i /\ i \in Indices
    BY ChunkFacts
  <2> PICK bs : bs = Stored(blobs[y][x], i, Chunk(c, i))
    OBVIOUS
  <2> PICK r : r = catalog[y][x]
    OBVIOUS
  <2> PICK h : h = HashedBy(y, x, r, bs)
    OBVIOUS
  <2>1. /\ r # Unset
        /\ blobs' = [blobs EXCEPT ![y][x] = bs] /\ hashes' = [hashes EXCEPT ![y][x] = h]
    BY <1>2, <2>0, StoredParts
  <2>2. /\ bs \in Files /\ DOMAIN bs = DOMAIN blobs[y][x] \cup {i}
        /\ \A z \in DOMAIN blobs[y][x] \cup {i} :
             bs[z] = IF z = i THEN Chunk(c, i) ELSE blobs[y][x][z]
    <3>1. blobs[y][x] \in Files
      BY <1>0
    <3> QED BY <3>1, StoredChunkFacts
  <2>3. blobs'[y][x] = bs /\ hashes'[y][x] = h
    BY <1>0, <2>1
  <2>4. \A z \in DOMAIN bs : z \in DOMAIN Lengths[c] /\ bs[z] = Chunk(c, z)
    BY <2>2 DEF OfAt, FilesOf
  <2>5. r \in {Unset, RecordOf(c)}
    BY DEF OfAt, CatalogOf
  <2>6. hashes[y][x] # Unset =>
          /\ r = RecordOf(c) /\ DOMAIN Lengths[c] \subseteq DOMAIN bs
          /\ hashes[y][x].computed = Whole(c) /\ hashes[y][x].verified
    BY <2>2 DEF OfAt, HashOf
  <2>7. h # Unset =>
          /\ r = RecordOf(c) /\ DOMAIN Lengths[c] \subseteq DOMAIN bs
          /\ h.computed = Whole(c) /\ h.verified
    BY <2>2, <2>4, <2>5, <2>6, HashedByOf
  <2>8. HashOf(y, x, c)'
    BY <2>3, <2>7 DEF HashOf
  <2>9. CatalogOf(y, x, c)' /\ StreamOf(y, x, c)'
    BY DEF OfAt, CatalogOf, StreamOf, StreamedAt
  <2>10. FilesOf(y, x, c)'
    BY <2>3, <2>4 DEF FilesOf
  <2> QED BY <2>1, <2>8, <2>9, <2>10 DEF OfAt
<1> QED BY <1>1, <1>2

\* status() of y: its hash is taken, nothing else changes.
HashTaken(y, x) ==
  /\ hashes' = [hashes EXCEPT ![y][x] = HashedBy(y, x, catalog[y][x], blobs[y][x])]
  /\ UNCHANGED <<catalog, blobs, streams, writers>>

LEMMA HashTakenTypes ==
  ASSUME DataTypeOK, HashHasRecord, NEW y \in Endpoints, NEW x \in Items, HashTaken(y, x)
  PROVE  /\ hashes' \in [Endpoints -> [Items -> Hashes \cup {Unset}]]
         /\ HashHasRecord'
         /\ \A e \in Endpoints, d \in Items : (e # y \/ d # x) => SameAt(e, d)
<1> PICK h : h = HashedBy(y, x, catalog[y][x], blobs[y][x])
  OBVIOUS
<1>0. hashes \in [Endpoints -> [Items -> Hashes \cup {Unset}]] /\ blobs[y][x] \in Files
  BY DEF DataTypeOK
<1>1. h \in Hashes \cup {Unset} /\ (h # Unset => catalog[y][x] \in Records)
  BY <1>0, HashedByTypes
<1>2. hashes' = [hashes EXCEPT ![y][x] = h] /\ UNCHANGED <<catalog, blobs, streams>>
  BY DEF HashTaken
<1>3. /\ hashes' \in [Endpoints -> [Items -> Hashes \cup {Unset}]]
      /\ hashes'[y][x] = h
      /\ \A e \in Endpoints, d \in Items : (e # y \/ d # x) => hashes'[e][d] = hashes[e][d]
  BY <1>0, <1>1, <1>2, PutAt
<1>4. HashHasRecord'
  BY <1>1, <1>2, <1>3 DEF HashHasRecord
<1> QED BY <1>2, <1>3, <1>4 DEF SameAt

LEMMA HashTakenOf ==
  ASSUME DataTypeOK, NEW y \in Endpoints, NEW x \in Items, NEW c \in Contents,
         HashTaken(y, x), OfAt(y, x, c)
  PROVE  OfAt(y, x, c)'
<1> PICK r : r = catalog[y][x]
  OBVIOUS
<1> PICK f : f = blobs[y][x]
  OBVIOUS
<1> PICK h : h = HashedBy(y, x, r, f)
  OBVIOUS
<1>0. hashes \in [Endpoints -> [Items -> Hashes \cup {Unset}]] /\ f \in Files
  BY DEF DataTypeOK
<1>1. /\ hashes' = [hashes EXCEPT ![y][x] = h]
      /\ UNCHANGED <<catalog, blobs, streams, writers>>
  BY DEF HashTaken
<1>2. hashes'[y][x] = h
  BY <1>0, <1>1
<1>3. /\ r \in {Unset, RecordOf(c)}
      /\ \A i \in DOMAIN f : i \in DOMAIN Lengths[c] /\ f[i] = Chunk(c, i)
      /\ hashes[y][x] # Unset =>
           /\ r = RecordOf(c) /\ DOMAIN Lengths[c] \subseteq DOMAIN f
           /\ hashes[y][x].computed = Whole(c) /\ hashes[y][x].verified
  BY DEF OfAt, CatalogOf, FilesOf, HashOf
<1>4. h # Unset =>
        /\ r = RecordOf(c) /\ DOMAIN Lengths[c] \subseteq DOMAIN f
        /\ h.computed = Whole(c) /\ h.verified
  BY <1>0, <1>3, HashedByOf
<1>5. HashOf(y, x, c)'
  BY <1>1, <1>2, <1>4 DEF HashOf
<1>6. CatalogOf(y, x, c)' /\ FilesOf(y, x, c)' /\ StreamOf(y, x, c)'
  BY <1>1 DEF OfAt, CatalogOf, FilesOf, StreamOf, StreamedAt
<1> QED BY <1>5, <1>6 DEF OfAt

-----------------------------------------------------------------------------
(* Records written, changed and removed *)

\* A record of c beside what is already of c.
LEMMA RecordPutOf ==
  ASSUME WritersGrow, NEW e \in Endpoints, NEW d \in Items, NEW c \in Contents,
         OfAt(e, d, c), catalog'[e][d] = RecordOf(c), blobs'[e][d] = blobs[e][d],
         hashes'[e][d] = hashes[e][d], streams'[e][d] \in {Unset, streams[e][d]}
  PROVE  OfAt(e, d, c)'
<1>1. CatalogOf(e, d, c)'
  BY DEF CatalogOf
<1>2. FilesOf(e, d, c)'
  BY DEF OfAt, FilesOf
<1>3. StreamOf(e, d, c)'
  BY StreamedStays DEF OfAt, StreamOf
<1>4. HashOf(e, d, c)'
  BY DEF OfAt, HashOf
<1> QED BY <1>1, <1>2, <1>3, <1>4 DEF OfAt

DirtyPut(x, v) == dirty' = [z \in DOMAIN dirty \cup {x} |-> IF z = x THEN v ELSE dirty[z]]

LEMMA DirtyPutTypes ==
  ASSUME DataTypeOK, NEW x \in Items, NEW v \in Records \cup {Unset}, DirtyPut(x, v)
  PROVE  /\ DOMAIN dirty' \subseteq Items
         /\ \A d \in DOMAIN dirty' : dirty'[d] \in Records \cup {Unset}
BY DEF DirtyPut, DataTypeOK

LEMMA DirtyPutOf ==
  ASSUME NEW x \in Items, NEW v, DirtyPut(x, v), NEW d \in Items, NEW c \in Contents,
         DirtyOf(d, c), d = x => v \in {Unset, RecordOf(c)}
  PROVE  DirtyOf(d, c)'
BY DEF DirtyPut, DirtyOf

LEMMA ForgetTypes ==
  ASSUME DataTypeOK, HashHasRecord, NEW y \in Endpoints, NEW x \in Items,
         Forget(y, x), UNCHANGED streams
  PROVE  /\ catalog' \in [Endpoints -> [Items -> Records \cup {Unset}]]
         /\ blobs' \in [Endpoints -> [Items -> Files]]
         /\ completed' \in [Endpoints -> SUBSET Items]
         /\ hashes' \in [Endpoints -> [Items -> Hashes \cup {Unset}]]
         /\ HashHasRecord'
         /\ \A e \in Endpoints, d \in Items : (e # y \/ d # x) => SameAt(e, d)
<1>0. /\ catalog \in [Endpoints -> [Items -> Records \cup {Unset}]]
      /\ blobs \in [Endpoints -> [Items -> Files]]
      /\ completed \in [Endpoints -> SUBSET Items]
      /\ hashes \in [Endpoints -> [Items -> Hashes \cup {Unset}]]
  BY DEF DataTypeOK
<1> PICK f : f = [i \in DOMAIN blobs[y][x] \ (1 .. catalog[y][x].total) |-> blobs[y][x][i]]
  OBVIOUS
<1>1. /\ catalog' = [catalog EXCEPT ![y][x] = Unset]
      /\ blobs' = [blobs EXCEPT ![y][x] = f]
      /\ completed' = [completed EXCEPT ![y] = completed[y] \ {x}]
      /\ hashes' = [hashes EXCEPT ![y][x] = Unset]
  BY DEF Forget
<1>2. f \in Files
  <2>1. blobs[y][x] \in Files
    BY <1>0
  <2> QED BY <2>1, RemovedFacts
<1>3. /\ catalog' \in [Endpoints -> [Items -> Records \cup {Unset}]]
      /\ \A e \in Endpoints, d \in Items : (e # y \/ d # x) => catalog'[e][d] = catalog[e][d]
  BY <1>0, <1>1, PutAt
<1>4. /\ blobs' \in [Endpoints -> [Items -> Files]]
      /\ \A e \in Endpoints, d \in Items : (e # y \/ d # x) => blobs'[e][d] = blobs[e][d]
  BY <1>0, <1>1, <1>2, PutAt
<1>5. /\ hashes' \in [Endpoints -> [Items -> Hashes \cup {Unset}]]
      /\ hashes'[y][x] = Unset
      /\ \A e \in Endpoints, d \in Items : (e # y \/ d # x) => hashes'[e][d] = hashes[e][d]
  BY <1>0, <1>1, PutAt
<1>6. completed' \in [Endpoints -> SUBSET Items]
  <2>1. completed[y] \ {x} \in SUBSET Items
    BY <1>0
  <2> QED BY <2>1, <1>0, <1>1
<1>7. HashHasRecord'
  BY <1>3, <1>5 DEF HashHasRecord
<1> QED BY <1>3, <1>4, <1>5, <1>6, <1>7 DEF SameAt

\* Deletion leaves no file of an item of one content.
LEMMA ForgetOf ==
  ASSUME DataTypeOK, NEW y \in Endpoints, NEW x \in Items, NEW c \in Contents,
         Forget(y, x), catalog[y][x] # Unset, UNCHANGED <<streams, writers>>, OfAt(y, x, c)
  PROVE  OfAt(y, x, c)' /\ DOMAIN blobs'[y][x] = {}
<1>0. /\ catalog \in [Endpoints -> [Items -> Records \cup {Unset}]]
      /\ blobs \in [Endpoints -> [Items -> Files]]
      /\ hashes \in [Endpoints -> [Items -> Hashes \cup {Unset}]]
  BY DEF DataTypeOK
<1> PICK f : f = [i \in DOMAIN blobs[y][x] \ (1 .. catalog[y][x].total) |-> blobs[y][x][i]]
  OBVIOUS
<1>1. /\ catalog' = [catalog EXCEPT ![y][x] = Unset]
      /\ blobs' = [blobs EXCEPT ![y][x] = f]
      /\ hashes' = [hashes EXCEPT ![y][x] = Unset]
  BY DEF Forget
<1>2. catalog'[y][x] = Unset /\ blobs'[y][x] = f /\ hashes'[y][x] = Unset
  BY <1>0, <1>1
<1>3. catalog[y][x].total = Len(Lengths[c])
  BY RecordFacts DEF OfAt, CatalogOf
<1>4. DOMAIN blobs[y][x] \subseteq 1 .. catalog[y][x].total
  BY <1>3, ContentFacts DEF OfAt, FilesOf
<1>5. DOMAIN f = {}
  BY <1>4
<1>6. CatalogOf(y, x, c)' /\ FilesOf(y, x, c)' /\ HashOf(y, x, c)'
  BY <1>2, <1>5 DEF CatalogOf, FilesOf, HashOf
<1>7. StreamOf(y, x, c)'
  BY DEF OfAt, StreamOf, StreamedAt
<1> QED BY <1>2, <1>5, <1>6, <1>7 DEF OfAt

-----------------------------------------------------------------------------
(* The leader's handlers *)

LEMMA EndpointsAre == Leader \in Endpoints /\ Follower \in Endpoints /\ Leader # Follower
BY DataAssumption DEF Endpoints

LEMMA RegisterTypes ==
  ASSUME DataTypeOK, HashHasRecord, NEW x \in Items, NEW k \in Contents, Register(x, k)
  PROVE  DataTypeOK' /\ HashHasRecord'
<1> PICK r : r = RecordOf(k)
  OBVIOUS
<1> PICK w : w = [by |-> "client", at |-> Leader, content |-> k]
  OBVIOUS
<1>1. /\ r = Record(SizeOf(Whole(k)), TotalChunksFor(SizeOf(Whole(k))), Whole(k))
      /\ r \in Records
  BY RegularRecord, RecordFacts, Zenon DEF Register
<1>2. /\ Writes(x, w)
      /\ catalog' = [catalog EXCEPT ![Leader][x] = r]
      /\ DirtyPut(x, r)
      /\ completed' = [completed EXCEPT ![Leader] =
           IF r.total = 0 THEN @ \cup {x} ELSE @]
      /\ UNCHANGED <<quota, blobs, hashes, streams, wire, known, tick, used>>
  BY <1>1, Zenon DEF Register, DirtyPut
<1>3. w \in Writers
  BY EndpointsAre DEF Writers
<1>4. writers' \in [Items -> Seq(Writers)]
  BY <1>2, <1>3, WritesFacts
<1>5. /\ catalog' \in [Endpoints -> [Items -> Records \cup {Unset}]]
      /\ catalog'[Leader][x] = r
      /\ \A e \in Endpoints, d \in Items :
           (e # Leader \/ d # x) => catalog'[e][d] = catalog[e][d]
  <2>1. catalog \in [Endpoints -> [Items -> Records \cup {Unset}]]
    BY DEF DataTypeOK
  <2>2. r \in Records \cup {Unset}
    BY <1>1
  <2> QED BY <2>1, <2>2, <1>2, EndpointsAre, PutAt
<1>6. completed' \in [Endpoints -> SUBSET Items]
  <2>1. completed \in [Endpoints -> SUBSET Items]
    BY DEF DataTypeOK
  <2>2. completed[Leader] \in SUBSET Items /\ completed[Leader] \cup {x} \in SUBSET Items
    BY <2>1, EndpointsAre
  <2> QED BY <2>1, <2>2, <1>2
<1>7. HashHasRecord'
  BY <1>1, <1>2, <1>5 DEF HashHasRecord
<1>8. /\ DOMAIN dirty' \subseteq Items
      /\ \A d \in DOMAIN dirty' : dirty'[d] \in Records \cup {Unset}
  BY <1>1, <1>2, DirtyPutTypes
<1> QED BY <1>2, <1>4, <1>5, <1>6, <1>7, <1>8 DEF DataTypeOK

LEMMA RegisterOf ==
  ASSUME DataTypeOK, NEW x \in Items, NEW k \in Contents, Register(x, k),
         NEW d \in Items, NEW c \in Contents, WrittenAs(d, c)', WrittenAs(d, c) => Of(d, c)
  PROVE  Of(d, c)'
<1> PICK r : r = RecordOf(k)
  OBVIOUS
<1> PICK w : w = [by |-> "client", at |-> Leader, content |-> k]
  OBVIOUS
<1>1. r = Record(SizeOf(Whole(k)), TotalChunksFor(SizeOf(Whole(k))), Whole(k))
  BY RegularRecord, Zenon DEF Register
<1>2. /\ Writes(x, w)
      /\ catalog' = [catalog EXCEPT ![Leader][x] = r]
      /\ DirtyPut(x, r)
      /\ UNCHANGED <<quota, blobs, hashes, streams, wire, known, tick, used>>
  BY <1>1, Zenon DEF Register, DirtyPut
<1>3. w \in Writers
  BY EndpointsAre DEF Writers
<1>4. WritersGrow /\ w \in Range(writers'[x])
  BY <1>2, <1>3, WritesFacts DEF WritersGrow
<1>5. Of(d, c)
  BY <1>4, WrittenBefore
<1>6. (\A e \in Endpoints : OfAt(e, d, c)) /\ DirtyOf(d, c) /\ WireOf(d, c) /\ FilesHaveRecord(d)
  BY <1>5, OfIs
<1>7. d = x => r = RecordOf(c)
  <2>1. d = x => w.content = c
    BY <1>4 DEF WrittenAs
  <2> QED BY <2>1
<1>8. /\ catalog'[Leader][x] = r
      /\ \A e \in Endpoints, z \in Items :
           (e # Leader \/ z # x) => catalog'[e][z] = catalog[e][z]
  BY <1>2, EndpointsAre DEF DataTypeOK
<1>9. ASSUME NEW e \in Endpoints PROVE OfAt(e, d, c)'
  <2>1. CASE e = Leader /\ d = x
    BY <2>1, <1>2, <1>4, <1>6, <1>7, <1>8, RecordPutOf
  <2>2. CASE e # Leader \/ d # x
    <3>1. SameAt(e, d)
      BY <2>2, <1>2, <1>8 DEF SameAt
    <3> QED BY <3>1, <1>4, <1>6, OfAtSame
  <2> QED BY <2>1, <2>2
<1>10. DirtyOf(d, c)'
  BY <1>2, <1>6, <1>7, DirtyPutOf
<1>11. WireOf(d, c)'
  BY <1>2, <1>6 DEF WireOf
<1>12. FilesHaveRecord(d)'
  <2>1. SameAt(Follower, d)
    BY <1>2, <1>8, EndpointsAre DEF SameAt
  <2> QED BY <2>1, <1>2, <1>4, <1>6, FilesHaveRecordSame
<1> QED BY <1>9, <1>10, <1>11, <1>12, OfIsPrimed

LEMMA PutChunkTypes ==
  ASSUME DataTypeOK, HashHasRecord, NEW x \in Items, NEW k \in Contents,
         NEW i \in Indices, PutChunk(x, k, i)
  PROVE  DataTypeOK' /\ HashHasRecord'
<1>1. /\ i \in DOMAIN Lengths[k] /\ StoreChunk(Leader, x, i, Chunk(k, i))
      /\ UNCHANGED <<quota, catalog, streams, dirty, wire, known, tick, writers, used>>
  BY Zenon DEF PutChunk
<1>2. Chunk(k, i) \in Chunks /\ Chunk(k, i).at = i
  BY <1>1, ChunkFacts
<1>3. /\ blobs' \in [Endpoints -> [Items -> Files]]
      /\ completed' \in [Endpoints -> SUBSET Items]
      /\ hashes' \in [Endpoints -> [Items -> Hashes \cup {Unset}]]
      /\ HashHasRecord'
  BY <1>1, <1>2, EndpointsAre, StoreChunkTypes
<1> QED BY <1>1, <1>3 DEF DataTypeOK

LEMMA PutChunkOf ==
  ASSUME DataTypeOK, HashHasRecord, NEW x \in Items, NEW k \in Contents,
         NEW i \in Indices, PutChunk(x, k, i),
         NEW d \in Items, NEW c \in Contents, WrittenAs(d, c)', WrittenAs(d, c) => Of(d, c)
  PROVE  Of(d, c)'
<1>1. /\ i \in DOMAIN Lengths[k] /\ StoreChunk(Leader, x, i, Chunk(k, i))
      /\ UNCHANGED <<quota, catalog, streams, dirty, wire, known, tick, writers, used>>
  BY Zenon DEF PutChunk
<1>2. Chunk(k, i) \in Chunks /\ Chunk(k, i).at = i
  BY <1>1, ChunkFacts
<1>3. WritersGrow /\ WrittenAs(d, c)
  BY <1>1, WritersSame, WrittenBefore
<1>4. d = x => k = c
  BY <1>3 DEF PutChunk, WrittenAs
<1>5. (\A e \in Endpoints : OfAt(e, d, c)) /\ DirtyOf(d, c) /\ WireOf(d, c) /\ FilesHaveRecord(d)
  BY <1>3, OfIs
<1>6. \A e \in Endpoints, z \in Items : (e # Leader \/ z # x) => SameAt(e, z)
  BY <1>1, <1>2, EndpointsAre, StoreChunkTypes
<1>7. ASSUME NEW e \in Endpoints PROVE OfAt(e, d, c)'
  <2>1. CASE e = Leader /\ d = x
    BY <2>1, <1>1, <1>4, <1>5, StoreChunkOf
  <2>2. CASE e # Leader \/ d # x
    BY <2>2, <1>3, <1>5, <1>6, OfAtSame
  <2> QED BY <2>1, <2>2
<1>8. DirtyOf(d, c)' /\ WireOf(d, c)'
  BY <1>1, <1>5 DEF DirtyOf, WireOf
<1>9. FilesHaveRecord(d)'
  BY <1>1, <1>3, <1>5, <1>6, EndpointsAre, FilesHaveRecordSame
<1> QED BY <1>7, <1>8, <1>9, OfIsPrimed

\* Steps that leave records, files, hashes, streams and changes alone.
Quiet ==
  /\ UNCHANGED <<catalog, blobs, completed, hashes, streams, dirty, writers>>
  /\ wire' \subseteq wire
  /\ used'.restarts = used.restarts

LEMMA QuietHash ==
  ASSUME HashHasRecord, Quiet
  PROVE  HashHasRecord'
BY DEF Quiet, HashHasRecord

LEMMA QuietOf ==
  ASSUME Quiet, NEW d \in Items, NEW c \in Contents, WrittenAs(d, c)',
         WrittenAs(d, c) => Of(d, c)
  PROVE  Of(d, c)'
<1>1. WritersGrow /\ WrittenAs(d, c)
  BY WritersSame, WrittenBefore DEF Quiet
<1>2. (\A e \in Endpoints : OfAt(e, d, c)) /\ DirtyOf(d, c) /\ WireOf(d, c) /\ FilesHaveRecord(d)
  BY <1>1, OfIs
<1>3. \A e \in Endpoints : SameAt(e, d)
  BY DEF Quiet, SameAt
<1>4. \A e \in Endpoints : OfAt(e, d, c)'
  BY <1>1, <1>2, <1>3, OfAtSame
<1>5. DirtyOf(d, c)' /\ WireOf(d, c)'
  BY <1>2 DEF Quiet, DirtyOf, WireOf
<1>6. FilesHaveRecord(d)'
  BY <1>1, <1>2, <1>3, EndpointsAre, FilesHaveRecordSame DEF Quiet
<1> QED BY <1>4, <1>5, <1>6, OfIsPrimed

\* Steps that take a status and change no message, change or fault.
LEMMA StatusOf ==
  ASSUME DataTypeOK, HashHasRecord, NEW y \in Endpoints, NEW x \in Items, HashTaken(y, x),
         UNCHANGED <<dirty, wire, used>>,
         NEW d \in Items, NEW c \in Contents, WrittenAs(d, c)', WrittenAs(d, c) => Of(d, c)
  PROVE  Of(d, c)'
<1>1. WritersGrow /\ WrittenAs(d, c)
  BY WritersSame, WrittenBefore DEF HashTaken
<1>2. (\A e \in Endpoints : OfAt(e, d, c)) /\ DirtyOf(d, c) /\ WireOf(d, c) /\ FilesHaveRecord(d)
  BY <1>1, OfIs
<1>3. \A e \in Endpoints, z \in Items : (e # y \/ z # x) => SameAt(e, z)
  BY HashTakenTypes
<1>4. ASSUME NEW e \in Endpoints PROVE OfAt(e, d, c)'
  <2>1. CASE e = y /\ d = x
    BY <2>1, <1>2, HashTakenOf
  <2>2. CASE e # y \/ d # x
    BY <2>2, <1>1, <1>2, <1>3, OfAtSame
  <2> QED BY <2>1, <2>2
<1>5. DirtyOf(d, c)' /\ WireOf(d, c)'
  BY <1>2 DEF DirtyOf, WireOf
<1>6. FilesHaveRecord(d)'
  <2>1. StreamedAt(Follower, d) => StreamedAt(Follower, d)'
    BY <1>1, EndpointsAre, StreamedStays
  <2> QED BY <2>1, <1>2 DEF FilesHaveRecord, HashTaken
<1> QED BY <1>4, <1>5, <1>6, OfIsPrimed

LEMMA UsedFacts ==
  ASSUME DataTypeOK
  PROVE  /\ [used EXCEPT !.deletes = @ + 1] \in [deletes : Nat, losses : Nat, restarts : Nat]
         /\ [used EXCEPT !.losses = @ + 1] \in [deletes : Nat, losses : Nat, restarts : Nat]
         /\ [used EXCEPT !.restarts = @ + 1] \in [deletes : Nat, losses : Nat, restarts : Nat]
         /\ [used EXCEPT !.deletes = @ + 1].restarts = used.restarts
         /\ [used EXCEPT !.losses = @ + 1].restarts = used.restarts
         /\ [used EXCEPT !.restarts = @ + 1].restarts # 0
<1>1. used \in [deletes : Nat, losses : Nat, restarts : Nat]
  BY DEF DataTypeOK
<1>2. PICK a, b, r \in Nat : used = [deletes |-> a, losses |-> b, restarts |-> r]
  BY <1>1
<1> QED BY <1>2

LEMMA DeleteTypes ==
  ASSUME DataTypeOK, HashHasRecord, NEW x \in Items, Delete(x)
  PROVE  DataTypeOK' /\ HashHasRecord'
<1>1. /\ Forget(Leader, x) /\ DirtyPut(x, Unset)
      /\ used' = [used EXCEPT !.deletes = @ + 1]
      /\ UNCHANGED <<quota, streams, wire, known, tick, writers>>
  BY Zenon DEF Delete, DirtyPut
<1>2. /\ catalog' \in [Endpoints -> [Items -> Records \cup {Unset}]]
      /\ blobs' \in [Endpoints -> [Items -> Files]]
      /\ completed' \in [Endpoints -> SUBSET Items]
      /\ hashes' \in [Endpoints -> [Items -> Hashes \cup {Unset}]]
      /\ HashHasRecord'
  BY <1>1, EndpointsAre, ForgetTypes
<1>3. /\ DOMAIN dirty' \subseteq Items
      /\ \A d \in DOMAIN dirty' : dirty'[d] \in Records \cup {Unset}
  BY <1>1, DirtyPutTypes
<1>4. used' \in [deletes : Nat, losses : Nat, restarts : Nat]
  BY <1>1, UsedFacts
<1> QED BY <1>1, <1>2, <1>3, <1>4 DEF DataTypeOK

LEMMA DeleteOf ==
  ASSUME DataTypeOK, HashHasRecord, NEW x \in Items, Delete(x),
         NEW d \in Items, NEW c \in Contents, WrittenAs(d, c)', WrittenAs(d, c) => Of(d, c)
  PROVE  Of(d, c)'
<1>1. /\ catalog[Leader][x] # Unset /\ Forget(Leader, x) /\ DirtyPut(x, Unset)
      /\ used' = [used EXCEPT !.deletes = @ + 1]
      /\ UNCHANGED <<quota, streams, wire, known, tick, writers>>
  BY Zenon DEF Delete, DirtyPut
<1>2. WritersGrow /\ WrittenAs(d, c)
  BY <1>1, WritersSame, WrittenBefore
<1>3. (\A e \in Endpoints : OfAt(e, d, c)) /\ DirtyOf(d, c) /\ WireOf(d, c) /\ FilesHaveRecord(d)
  BY <1>2, OfIs
<1>4. \A e \in Endpoints, z \in Items : (e # Leader \/ z # x) => SameAt(e, z)
  BY <1>1, EndpointsAre, ForgetTypes
<1>5. ASSUME NEW e \in Endpoints PROVE OfAt(e, d, c)'
  <2>1. CASE e = Leader /\ d = x
    BY <2>1, <1>1, <1>3, ForgetOf
  <2>2. CASE e # Leader \/ d # x
    BY <2>2, <1>2, <1>3, <1>4, OfAtSame
  <2> QED BY <2>1, <2>2
<1>6. DirtyOf(d, c)'
  BY <1>1, <1>3, DirtyPutOf
<1>7. WireOf(d, c)'
  BY <1>1, <1>3 DEF WireOf
<1>8. used'.restarts = used.restarts
  BY <1>1, UsedFacts
<1>9. FilesHaveRecord(d)'
  BY <1>2, <1>3, <1>4, <1>8, EndpointsAre, FilesHaveRecordSame
<1> QED BY <1>5, <1>6, <1>7, <1>9, OfIsPrimed

-----------------------------------------------------------------------------
(* Streams *)

LEMMA OpenStreamTypes ==
  ASSUME DataTypeOK, HashHasRecord, NEW y \in Endpoints, NEW x \in Items,
         NEW k \in Streamed, OpenStream(y, x, k)
  PROVE  DataTypeOK' /\ HashHasRecord'
<1> PICK w : w = [by |-> "stream", at |-> y, content |-> k]
  OBVIOUS
<1> PICK s : s = [content |-> k, next |-> 1]
  OBVIOUS
<1>1. /\ Writes(x, w) /\ streams' = [streams EXCEPT ![y][x] = s]
      /\ UNCHANGED <<quota, catalog, blobs, completed, hashes, dirty, wire, known, tick, used>>
  BY Zenon DEF OpenStream
<1>2. w \in Writers
  BY DataAssumption DEF Writers
<1>3. writers' \in [Items -> Seq(Writers)]
  BY <1>1, <1>2, WritesFacts
<1>4. s \in Streams \cup {Unset}
  BY DEF Streams
<1>5. streams' \in [Endpoints -> [Items -> Streams \cup {Unset}]]
  <2>1. streams \in [Endpoints -> [Items -> Streams \cup {Unset}]]
    BY DEF DataTypeOK
  <2> QED BY <2>1, <1>1, <1>4, PutAt
<1>6. HashHasRecord'
  BY <1>1 DEF HashHasRecord
<1> QED BY <1>1, <1>3, <1>5, <1>6 DEF DataTypeOK

LEMMA OpenStreamOf ==
  ASSUME DataTypeOK, NEW y \in Endpoints, NEW x \in Items, NEW k \in Streamed,
         OpenStream(y, x, k),
         NEW d \in Items, NEW c \in Contents, WrittenAs(d, c)', WrittenAs(d, c) => Of(d, c)
  PROVE  Of(d, c)'
<1> PICK w : w = [by |-> "stream", at |-> y, content |-> k]
  OBVIOUS
<1> PICK s : s = [content |-> k, next |-> 1]
  OBVIOUS
<1>1. /\ Writes(x, w) /\ streams' = [streams EXCEPT ![y][x] = s]
      /\ UNCHANGED <<quota, catalog, blobs, completed, hashes, dirty, wire, known, tick, used>>
  BY Zenon DEF OpenStream
<1>2. w \in Writers
  BY DataAssumption DEF Writers
<1>3. WritersGrow /\ w \in Range(writers'[x])
  BY <1>1, <1>2, WritesFacts DEF WritersGrow
<1>4. Of(d, c)
  BY <1>3, WrittenBefore
<1>5. (\A e \in Endpoints : OfAt(e, d, c)) /\ DirtyOf(d, c) /\ WireOf(d, c) /\ FilesHaveRecord(d)
  BY <1>4, OfIs
<1>6. d = x => s.content = c
  <2>1. d = x => w.content = c
    BY <1>3 DEF WrittenAs
  <2> QED BY <2>1
<1>7. StreamedAt(y, x)'
  <2>1. w.by = "stream" /\ w.at = y
    OBVIOUS
  <2> QED BY <1>3, <2>1 DEF StreamedAt
<1>8. /\ streams'[y][x] = s
      /\ \A e \in Endpoints, z \in Items :
           (e # y \/ z # x) => streams'[e][z] = streams[e][z]
  BY <1>1 DEF DataTypeOK
<1>9. ASSUME NEW e \in Endpoints PROVE OfAt(e, d, c)'
  <2>1. CASE e = y /\ d = x
    <3>1. StreamOf(e, d, c)'
      BY <2>1, <1>6, <1>7, <1>8 DEF StreamOf
    <3>2. CatalogOf(e, d, c)' /\ FilesOf(e, d, c)' /\ HashOf(e, d, c)'
      BY <1>1, <1>5 DEF OfAt, CatalogOf, FilesOf, HashOf
    <3> QED BY <3>1, <3>2 DEF OfAt
  <2>2. CASE e # y \/ d # x
    <3>1. SameAt(e, d)
      BY <2>2, <1>1, <1>8 DEF SameAt
    <3> QED BY <3>1, <1>3, <1>5, OfAtSame
  <2> QED BY <2>1, <2>2
<1>10. DirtyOf(d, c)' /\ WireOf(d, c)'
  BY <1>1, <1>5 DEF DirtyOf, WireOf
<1>11. FilesHaveRecord(d)'
  <2>1. StreamedAt(Follower, d) => StreamedAt(Follower, d)'
    BY <1>3, EndpointsAre, StreamedStays
  <2> QED BY <2>1, <1>1, <1>5 DEF FilesHaveRecord
<1> QED BY <1>9, <1>10, <1>11, OfIsPrimed

\* append_chunk, with the chunk and the next index as constants.
Appends(y, x, k, i) ==
  /\ streams[y][x] = [content |-> k, next |-> i] /\ streams[y][x] # Unset
  /\ k \in Contents /\ i \in DOMAIN Lengths[k]
  /\ blobs' = [blobs EXCEPT ![y][x] = Stored(blobs[y][x], i, Chunk(k, i))]
  /\ streams' = [streams EXCEPT ![y][x] = [content |-> k, next |-> i + 1]]
  /\ UNCHANGED <<quota, catalog, completed, hashes, dirty, wire, known, tick,
                 writers, used>>

LEMMA AppendParts ==
  ASSUME DataTypeOK, NEW y \in Endpoints, NEW x \in Items, AppendChunk(y, x)
  PROVE  \E k \in Streamed, i \in Nat \ {0} : Appends(y, x, k, i)
<1>1. streams \in [Endpoints -> [Items -> Streams \cup {Unset}]] /\ streams[y][x] # Unset
  BY DEF DataTypeOK, AppendChunk
<1>2. streams[y][x] \in Streams
  BY <1>1
<1>3. PICK k \in Streamed, i \in Nat \ {0} : streams[y][x] = [content |-> k, next |-> i]
  BY <1>2 DEF Streams
<1>4. k \in Contents /\ i \in DOMAIN Lengths[k]
  BY <1>3, DataAssumption DEF AppendChunk
<1>5. streams[y][x].content = k /\ streams[y][x].next = i
  BY <1>3
<1>6. blobs' = [blobs EXCEPT ![y][x] = Stored(blobs[y][x], i, Chunk(k, i))]
  BY <1>5 DEF AppendChunk, Stored
<1>7. [streams[y][x] EXCEPT !.next = streams[y][x].next + 1] = [content |-> k, next |-> i + 1]
  BY <1>3
<1>8. streams' = [streams EXCEPT ![y][x] = [content |-> k, next |-> i + 1]]
  <2>1. streams' = [streams EXCEPT ![y][x].next = streams[y][x].next + 1]
    BY DEF AppendChunk
  <2> QED BY <2>1, <1>1, <1>3, <1>7
<1>9. UNCHANGED <<quota, catalog, completed, hashes, dirty, wire, known, tick, writers, used>>
  BY DEF AppendChunk
<1> QED BY <1>1, <1>3, <1>4, <1>6, <1>8, <1>9, Zenon DEF Appends

LEMMA AppendChunkTypes ==
  ASSUME DataTypeOK, HashHasRecord, NEW y \in Endpoints, NEW x \in Items, AppendChunk(y, x)
  PROVE  DataTypeOK' /\ HashHasRecord'
<1>0. PICK k \in Streamed, i \in Nat \ {0} : Appends(y, x, k, i)
  BY AppendParts
<1>1. /\ streams[y][x] = [content |-> k, next |-> i] /\ streams[y][x] # Unset
      /\ k \in Contents /\ i \in DOMAIN Lengths[k]
      /\ blobs' = [blobs EXCEPT ![y][x] = Stored(blobs[y][x], i, Chunk(k, i))]
      /\ streams' = [streams EXCEPT ![y][x] = [content |-> k, next |-> i + 1]]
      /\ UNCHANGED <<quota, catalog, completed, hashes, dirty, wire, known, tick,
                     writers, used>>
  BY <1>0, Zenon DEF Appends
<1> PICK bs : bs = Stored(blobs[y][x], i, Chunk(k, i))
  OBVIOUS
<1> PICK s : s = [content |-> k, next |-> i + 1]
  OBVIOUS
<1>2. bs \in Files
  <2>1. blobs[y][x] \in Files
    BY DEF DataTypeOK
  <2> QED BY <2>1, <1>1, StoredChunkFacts
<1>3. s \in Streams \cup {Unset}
  BY DEF Streams
<1>4. blobs' \in [Endpoints -> [Items -> Files]]
  <2>1. blobs \in [Endpoints -> [Items -> Files]] /\ blobs' = [blobs EXCEPT ![y][x] = bs]
    BY <1>1 DEF DataTypeOK
  <2> QED BY <2>1, <1>2, PutAt
<1>5. streams' \in [Endpoints -> [Items -> Streams \cup {Unset}]]
  <2>1. /\ streams \in [Endpoints -> [Items -> Streams \cup {Unset}]]
        /\ streams' = [streams EXCEPT ![y][x] = s]
    BY <1>1 DEF DataTypeOK
  <2> QED BY <2>1, <1>3, PutAt
<1>6. UNCHANGED <<quota, catalog, completed, hashes, dirty, wire, known, tick, writers, used>>
  BY <1>1
<1>7. HashHasRecord'
  BY <1>6 DEF HashHasRecord
<1> QED BY <1>4, <1>5, <1>6, <1>7 DEF DataTypeOK

LEMMA AppendChunkOf ==
  ASSUME DataTypeOK, NEW y \in Endpoints, NEW x \in Items, AppendChunk(y, x),
         NEW d \in Items, NEW c \in Contents, WrittenAs(d, c)', WrittenAs(d, c) => Of(d, c)
  PROVE  Of(d, c)'
<1>0. PICK k \in Streamed, i \in Nat \ {0} : Appends(y, x, k, i)
  BY AppendParts
<1>1. /\ streams[y][x] = [content |-> k, next |-> i] /\ streams[y][x] # Unset
      /\ k \in Contents /\ i \in DOMAIN Lengths[k]
      /\ blobs' = [blobs EXCEPT ![y][x] = Stored(blobs[y][x], i, Chunk(k, i))]
      /\ streams' = [streams EXCEPT ![y][x] = [content |-> k, next |-> i + 1]]
      /\ UNCHANGED <<quota, catalog, completed, hashes, dirty, wire, known, tick,
                     writers, used>>
  BY <1>0, Zenon DEF Appends
<1>2. UNCHANGED <<catalog, hashes, dirty, wire, writers, used>>
  BY <1>1
<1>3. WritersGrow /\ WrittenAs(d, c)
  BY <1>2, WritersSame, WrittenBefore
<1>4. (\A e \in Endpoints : OfAt(e, d, c)) /\ DirtyOf(d, c) /\ WireOf(d, c) /\ FilesHaveRecord(d)
  BY <1>3, OfIs
<1> PICK f : f = blobs[y][x]
  OBVIOUS
<1> PICK bs : bs = Stored(f, i, Chunk(k, i))
  OBVIOUS
<1> PICK s : s = [content |-> k, next |-> i + 1]
  OBVIOUS
<1>5. /\ DOMAIN bs = DOMAIN f \cup {i}
      /\ \A z \in DOMAIN f \cup {i} : bs[z] = IF z = i THEN Chunk(k, i) ELSE f[z]
  BY DEF Stored
<1>6. /\ blobs'[y][x] = bs
      /\ \A e \in Endpoints, z \in Items : (e # y \/ z # x) => blobs'[e][z] = blobs[e][z]
  BY <1>1 DEF DataTypeOK
<1>7. /\ streams'[y][x] = s
      /\ \A e \in Endpoints, z \in Items : (e # y \/ z # x) => streams'[e][z] = streams[e][z]
  BY <1>1 DEF DataTypeOK
<1>8. d = x => k = c /\ StreamedAt(y, x)
  <2>1. streams[y][x].content = k
    BY <1>1
  <2> QED BY <2>1, <1>1, <1>4 DEF OfAt, StreamOf
<1>9. ASSUME NEW e \in Endpoints PROVE OfAt(e, d, c)'
  <2>1. CASE e = y /\ d = x
    <3>1. StreamOf(e, d, c)'
      <4>1. StreamedAt(y, x)'
        BY <2>1, <1>3, <1>8, StreamedStays
      <4>2. s.content = c
        BY <2>1, <1>8
      <4> QED BY <2>1, <4>1, <4>2, <1>7 DEF StreamOf
    <3>2. \A z \in DOMAIN f : z \in DOMAIN Lengths[c] /\ f[z] = Chunk(c, z)
      BY <2>1, <1>4 DEF OfAt, FilesOf
    <3>3. FilesOf(e, d, c)'
      BY <2>1, <1>1, <1>5, <1>6, <1>8, <3>2 DEF FilesOf
    <3>4. CatalogOf(e, d, c)'
      BY <1>2, <1>4 DEF OfAt, CatalogOf
    <3>5. HashOf(e, d, c)'
      BY <2>1, <1>2, <1>4, <1>5, <1>6 DEF OfAt, HashOf
    <3> QED BY <3>1, <3>3, <3>4, <3>5 DEF OfAt
  <2>2. CASE e # y \/ d # x
    <3>1. SameAt(e, d)
      BY <2>2, <1>2, <1>6, <1>7 DEF SameAt
    <3> QED BY <3>1, <1>3, <1>4, OfAtSame
  <2> QED BY <2>1, <2>2
<1>10. DirtyOf(d, c)' /\ WireOf(d, c)'
  BY <1>2, <1>4 DEF DirtyOf, WireOf
<1>11. FilesHaveRecord(d)'
  <2>1. CASE Follower = y /\ d = x
    <3>1. StreamedAt(Follower, d)'
      BY <2>1, <1>3, <1>8, StreamedStays
    <3> QED BY <3>1 DEF FilesHaveRecord
  <2>2. CASE Follower # y \/ d # x
    <3>1. SameAt(Follower, d)
      BY <2>2, <1>2, <1>6, <1>7, EndpointsAre DEF SameAt
    <3> QED BY <3>1, <1>2, <1>3, <1>4, FilesHaveRecordSame
  <2> QED BY <2>1, <2>2
<1> QED BY <1>9, <1>10, <1>11, OfIsPrimed

\* finalize_stream, with the content as a constant.
LEMMA FinalizeParts ==
  ASSUME DataTypeOK, NEW y \in Endpoints, NEW x \in Items, FinalizeStream(y, x)
  PROVE  \E k \in Contents :
           /\ streams[y][x].content = k /\ streams[y][x] # Unset
           /\ catalog' = [catalog EXCEPT ![y][x] = RecordOf(k)]
           /\ streams' = [streams EXCEPT ![y][x] = Unset]
           /\ completed' = [completed EXCEPT ![y] = @ \cup {x}]
           /\ y = Leader => DirtyPut(x, RecordOf(k))
           /\ y # Leader => UNCHANGED dirty
           /\ UNCHANGED <<quota, blobs, hashes, wire, known, tick, writers, used>>
<1>1. streams \in [Endpoints -> [Items -> Streams \cup {Unset}]] /\ streams[y][x] # Unset
  BY DEF DataTypeOK, FinalizeStream
<1>2. streams[y][x] \in Streams
  BY <1>1
<1>3. PICK k \in Contents : streams[y][x].content = k
  BY <1>2, DataAssumption DEF Streams
<1>4. /\ catalog' = [catalog EXCEPT ![y][x] = RecordOf(k)]
      /\ streams' = [streams EXCEPT ![y][x] = Unset]
      /\ completed' = [completed EXCEPT ![y] = @ \cup {x}]
      /\ UNCHANGED <<quota, blobs, hashes, wire, known, tick, writers, used>>
  BY <1>3, Zenon DEF FinalizeStream, RecordOf
<1>5. y = Leader => DirtyPut(x, RecordOf(k))
  BY <1>3, Zenon DEF FinalizeStream, RecordOf, DirtyPut
<1>6. y # Leader => UNCHANGED dirty
  BY Zenon DEF FinalizeStream
<1> QED BY <1>1, <1>3, <1>4, <1>5, <1>6, Zenon

LEMMA FinalizeTypes ==
  ASSUME DataTypeOK, HashHasRecord, NEW y \in Endpoints, NEW x \in Items, FinalizeStream(y, x)
  PROVE  DataTypeOK' /\ HashHasRecord'
<1>1. PICK k \in Contents :
           /\ streams[y][x].content = k /\ streams[y][x] # Unset
           /\ catalog' = [catalog EXCEPT ![y][x] = RecordOf(k)]
           /\ streams' = [streams EXCEPT ![y][x] = Unset]
           /\ completed' = [completed EXCEPT ![y] = @ \cup {x}]
           /\ y = Leader => DirtyPut(x, RecordOf(k))
           /\ y # Leader => UNCHANGED dirty
           /\ UNCHANGED <<quota, blobs, hashes, wire, known, tick, writers, used>>
  BY FinalizeParts, Zenon
<1> PICK r : r = RecordOf(k)
  OBVIOUS
<1>2. r \in Records \cup {Unset} /\ r \in Records
  BY RecordFacts
<1>3. /\ catalog' \in [Endpoints -> [Items -> Records \cup {Unset}]]
      /\ catalog'[y][x] = r
      /\ \A e \in Endpoints, z \in Items : (e # y \/ z # x) => catalog'[e][z] = catalog[e][z]
  <2>1. /\ catalog \in [Endpoints -> [Items -> Records \cup {Unset}]]
        /\ catalog' = [catalog EXCEPT ![y][x] = r]
    BY <1>1 DEF DataTypeOK
  <2> QED BY <2>1, <1>2, PutAt
<1>4. streams' \in [Endpoints -> [Items -> Streams \cup {Unset}]]
  <2>1. streams \in [Endpoints -> [Items -> Streams \cup {Unset}]]
    BY DEF DataTypeOK
  <2> QED BY <2>1, <1>1, PutAt
<1>5. completed' \in [Endpoints -> SUBSET Items]
  <2>1. completed \in [Endpoints -> SUBSET Items]
    BY DEF DataTypeOK
  <2>2. completed[y] \cup {x} \in SUBSET Items
    BY <2>1
  <2> QED BY <2>1, <2>2, <1>1
<1>6. /\ DOMAIN dirty' \subseteq Items
      /\ \A d \in DOMAIN dirty' : dirty'[d] \in Records \cup {Unset}
  <2>1. CASE y = Leader
    BY <2>1, <1>1, <1>2, DirtyPutTypes
  <2>2. CASE y # Leader
    <3>1. UNCHANGED dirty
      BY <2>2, <1>1
    <3> QED BY <3>1 DEF DataTypeOK
  <2> QED BY <2>1, <2>2
<1>7. UNCHANGED <<quota, blobs, hashes, wire, known, tick, writers, used>>
  BY <1>1
<1>8. HashHasRecord'
  BY <1>2, <1>3, <1>7 DEF HashHasRecord
<1> QED BY <1>3, <1>4, <1>5, <1>6, <1>7, <1>8 DEF DataTypeOK

LEMMA FinalizeOf ==
  ASSUME DataTypeOK, NEW y \in Endpoints, NEW x \in Items, FinalizeStream(y, x),
         NEW d \in Items, NEW c \in Contents, WrittenAs(d, c)', WrittenAs(d, c) => Of(d, c)
  PROVE  Of(d, c)'
<1>1. PICK k \in Contents :
           /\ streams[y][x].content = k /\ streams[y][x] # Unset
           /\ catalog' = [catalog EXCEPT ![y][x] = RecordOf(k)]
           /\ streams' = [streams EXCEPT ![y][x] = Unset]
           /\ completed' = [completed EXCEPT ![y] = @ \cup {x}]
           /\ y = Leader => DirtyPut(x, RecordOf(k))
           /\ y # Leader => UNCHANGED dirty
           /\ UNCHANGED <<quota, blobs, hashes, wire, known, tick, writers, used>>
  BY FinalizeParts, Zenon
<1>2. UNCHANGED <<blobs, hashes, wire, writers, used>>
  BY <1>1
<1>3. WritersGrow /\ WrittenAs(d, c)
  BY <1>2, WritersSame, WrittenBefore
<1>4. (\A e \in Endpoints : OfAt(e, d, c)) /\ DirtyOf(d, c) /\ WireOf(d, c) /\ FilesHaveRecord(d)
  BY <1>3, OfIs
<1>5. d = x => k = c /\ StreamedAt(y, x)
  BY <1>1, <1>4 DEF OfAt, StreamOf
<1> PICK r : r = RecordOf(k)
  OBVIOUS
<1>6. /\ catalog'[y][x] = r
      /\ \A e \in Endpoints, z \in Items : (e # y \/ z # x) => catalog'[e][z] = catalog[e][z]
  BY <1>1 DEF DataTypeOK
<1>7. /\ streams'[y][x] = Unset
      /\ \A e \in Endpoints, z \in Items : (e # y \/ z # x) => streams'[e][z] = streams[e][z]
  BY <1>1 DEF DataTypeOK
<1>8. ASSUME NEW e \in Endpoints PROVE OfAt(e, d, c)'
  <2>1. CASE e = y /\ d = x
    <3>1. catalog'[e][d] = RecordOf(c) /\ streams'[e][d] \in {Unset, streams[e][d]}
      BY <2>1, <1>5, <1>6, <1>7
    <3> QED BY <3>1, <1>2, <1>3, <1>4, RecordPutOf
  <2>2. CASE e # y \/ d # x
    <3>1. SameAt(e, d)
      BY <2>2, <1>2, <1>6, <1>7 DEF SameAt
    <3> QED BY <3>1, <1>3, <1>4, OfAtSame
  <2> QED BY <2>1, <2>2
<1>9. DirtyOf(d, c)'
  <2>1. CASE y = Leader
    <3>1. DirtyPut(x, r) /\ (d = x => r \in {Unset, RecordOf(c)})
      BY <2>1, <1>1, <1>5
    <3> QED BY <3>1, <1>4, DirtyPutOf
  <2>2. CASE y # Leader
    <3>1. UNCHANGED dirty
      BY <2>2, <1>1
    <3> QED BY <3>1, <1>4 DEF DirtyOf
  <2> QED BY <2>1, <2>2
<1>10. WireOf(d, c)'
  BY <1>2, <1>4 DEF WireOf
<1>11. FilesHaveRecord(d)'
  <2>1. CASE Follower = y /\ d = x
    <3>1. StreamedAt(Follower, d)'
      BY <2>1, <1>3, <1>5, StreamedStays
    <3> QED BY <3>1 DEF FilesHaveRecord
  <2>2. CASE Follower # y \/ d # x
    <3>1. SameAt(Follower, d)
      BY <2>2, <1>2, <1>6, <1>7, EndpointsAre DEF SameAt
    <3> QED BY <3>1, <1>2, <1>3, <1>4, FilesHaveRecordSame
  <2> QED BY <2>1, <2>2
<1> QED BY <1>8, <1>9, <1>10, <1>11, OfIsPrimed

-----------------------------------------------------------------------------
(* Records reach the follower *)

\* The change of x is applied and leaves the tracker.
LEMMA DirtyTaken ==
  ASSUME DataTypeOK, NEW x \in Items, dirty' = [z \in DOMAIN dirty \ {x} |-> dirty[z]]
  PROVE  /\ DOMAIN dirty' \subseteq Items
         /\ \A d \in DOMAIN dirty' : dirty'[d] \in Records \cup {Unset}
BY DEF DataTypeOK

LEMMA DirtyTakenOf ==
  ASSUME NEW x \in Items, dirty' = [z \in DOMAIN dirty \ {x} |-> dirty[z]],
         NEW d \in Items, NEW c \in Contents, DirtyOf(d, c)
  PROVE  DirtyOf(d, c)'
BY DEF DirtyOf

ChangePut(x) == /\ dirty[x] # Unset
                /\ catalog' = [catalog EXCEPT ![Follower][x] = dirty[x]]
                /\ UNCHANGED <<blobs, completed, hashes>>
ChangeForgets(x) == catalog[Follower][x] # Unset /\ Forget(Follower, x)

LEMMA ApplyParts ==
  ASSUME NEW x \in Items, ApplyChange(x)
  PROVE  /\ x \in DOMAIN dirty
         /\ \/ ChangePut(x) \/ ChangeForgets(x)
            \/ UNCHANGED <<catalog, blobs, completed, hashes>>
         /\ dirty' = [z \in DOMAIN dirty \ {x} |-> dirty[z]]
         /\ UNCHANGED <<quota, streams, wire, known, tick, writers, used>>
BY Zenon DEF ApplyChange, ChangePut, ChangeForgets

LEMMA ApplyTypes ==
  ASSUME DataTypeOK, HashHasRecord, NEW x \in Items, ApplyChange(x)
  PROVE  DataTypeOK' /\ HashHasRecord'
<1>1. /\ x \in DOMAIN dirty
      /\ dirty' = [z \in DOMAIN dirty \ {x} |-> dirty[z]]
      /\ UNCHANGED <<quota, streams, wire, known, tick, writers, used>>
  BY ApplyParts
<1>2. /\ DOMAIN dirty' \subseteq Items
      /\ \A d \in DOMAIN dirty' : dirty'[d] \in Records \cup {Unset}
  BY <1>1, DirtyTaken
<1>3. /\ catalog' \in [Endpoints -> [Items -> Records \cup {Unset}]]
      /\ blobs' \in [Endpoints -> [Items -> Files]]
      /\ completed' \in [Endpoints -> SUBSET Items]
      /\ hashes' \in [Endpoints -> [Items -> Hashes \cup {Unset}]]
      /\ HashHasRecord'
  <2>1. CASE ChangePut(x)
    <3> PICK r : r = dirty[x]
      OBVIOUS
    <3>1. r \in Records /\ r \in Records \cup {Unset}
      BY <2>1, <1>1 DEF ChangePut, DataTypeOK
    <3>2. /\ catalog \in [Endpoints -> [Items -> Records \cup {Unset}]]
          /\ catalog' = [catalog EXCEPT ![Follower][x] = r]
          /\ UNCHANGED <<blobs, completed, hashes>>
      BY <2>1 DEF ChangePut, DataTypeOK
    <3>3. /\ catalog' \in [Endpoints -> [Items -> Records \cup {Unset}]]
          /\ catalog'[Follower][x] = r
          /\ \A e \in Endpoints, z \in Items :
               (e # Follower \/ z # x) => catalog'[e][z] = catalog[e][z]
      BY <3>1, <3>2, EndpointsAre, PutAt
    <3>4. HashHasRecord'
      BY <3>1, <3>2, <3>3 DEF HashHasRecord
    <3> QED BY <3>2, <3>3, <3>4 DEF DataTypeOK
  <2>2. CASE ChangeForgets(x)
    BY <2>2, <1>1, EndpointsAre, ForgetTypes DEF ChangeForgets
  <2>3. CASE UNCHANGED <<catalog, blobs, completed, hashes>>
    BY <2>3 DEF DataTypeOK, HashHasRecord
  <2> QED BY <2>1, <2>2, <2>3, ApplyParts
<1> QED BY <1>1, <1>2, <1>3 DEF DataTypeOK

LEMMA ApplyOf ==
  ASSUME DataTypeOK, HashHasRecord, NEW x \in Items, ApplyChange(x),
         NEW d \in Items, NEW c \in Contents, WrittenAs(d, c)', WrittenAs(d, c) => Of(d, c)
  PROVE  Of(d, c)'
<1>1. /\ x \in DOMAIN dirty
      /\ dirty' = [z \in DOMAIN dirty \ {x} |-> dirty[z]]
      /\ UNCHANGED <<streams, wire, writers, used>>
  BY ApplyParts
<1>2. WritersGrow /\ WrittenAs(d, c)
  BY <1>1, WritersSame, WrittenBefore
<1>3. (\A e \in Endpoints : OfAt(e, d, c)) /\ DirtyOf(d, c) /\ WireOf(d, c) /\ FilesHaveRecord(d)
  BY <1>2, OfIs
<1>4. DirtyOf(d, c)'
  BY <1>1, <1>3, DirtyTakenOf
<1>5. WireOf(d, c)'
  BY <1>1, <1>3 DEF WireOf
<1>6. ASSUME NEW e \in Endpoints, SameAt(e, d) PROVE OfAt(e, d, c)'
  BY <1>2, <1>3, <1>6, OfAtSame
<1>7. ASSUME SameAt(Follower, d) PROVE FilesHaveRecord(d)'
  BY <1>1, <1>2, <1>3, <1>7, FilesHaveRecordSame
<1>8. (\A e \in Endpoints : OfAt(e, d, c)') /\ FilesHaveRecord(d)'
  <2>1. CASE ChangePut(x)
    <3> PICK r : r = dirty[x]
      OBVIOUS
    <3>1. r # Unset /\ UNCHANGED <<blobs, hashes>>
      BY <2>1 DEF ChangePut
    <3>2. /\ catalog'[Follower][x] = r
          /\ \A e \in Endpoints, z \in Items :
               (e # Follower \/ z # x) => catalog'[e][z] = catalog[e][z]
      BY <2>1, EndpointsAre DEF ChangePut, DataTypeOK
    <3>3. d = x => r = RecordOf(c)
      BY <1>1, <1>3, <3>1 DEF DirtyOf
    <3>4. ASSUME NEW e \in Endpoints, e # Follower \/ d # x PROVE SameAt(e, d)
      BY <3>1, <3>2, <3>4, <1>1 DEF SameAt
    <3>5. CASE d = x
      <4>1. catalog'[Follower][d] = RecordOf(c) /\ streams'[Follower][d] \in {Unset, streams[Follower][d]}
        BY <3>2, <3>3, <3>5, <1>1
      <4>2. OfAt(Follower, d, c)'
        BY <4>1, <3>1, <1>2, <1>3, EndpointsAre, RecordPutOf
      <4>3. catalog'[Follower][d] # Unset
        BY <3>1, <3>2, <3>5
      <4>4. FilesHaveRecord(d)'
        BY <4>3 DEF FilesHaveRecord
      <4> QED BY <4>2, <4>4, <3>4, <1>6
    <3>6. CASE d # x
      BY <3>6, <3>4, <1>6, <1>7, EndpointsAre
    <3> QED BY <3>5, <3>6
  <2>2. CASE ChangeForgets(x)
    <3>1. catalog[Follower][x] # Unset /\ Forget(Follower, x)
      BY <2>2 DEF ChangeForgets
    <3>2. \A e \in Endpoints, z \in Items : (e # Follower \/ z # x) => SameAt(e, z)
      BY <3>1, <1>1, EndpointsAre, ForgetTypes
    <3>3. CASE d = x
      <4>1. OfAt(Follower, d, c)' /\ DOMAIN blobs'[Follower][d] = {}
        BY <3>1, <3>3, <1>1, <1>3, EndpointsAre, ForgetOf
      <4>2. FilesHaveRecord(d)'
        BY <4>1 DEF FilesHaveRecord
      <4> QED BY <4>1, <4>2, <3>2, <1>6
    <3>4. CASE d # x
      BY <3>2, <3>4, <1>6, <1>7, EndpointsAre
    <3> QED BY <3>3, <3>4
  <2>3. CASE UNCHANGED <<catalog, blobs, completed, hashes>>
    <3>1. \A e \in Endpoints : SameAt(e, d)
      BY <2>3, <1>1 DEF SameAt
    <3> QED BY <3>1, <1>6, <1>7, EndpointsAre
  <2> QED BY <2>1, <2>2, <2>3, ApplyParts
<1> QED BY <1>4, <1>5, <1>8, OfIsPrimed

LEMMA RestartParts ==
  ASSUME DataTypeOK, NEW wiped \in BOOLEAN, Restart(wiped)
  PROVE  /\ catalog' = [catalog EXCEPT ![Follower] = catalog[Leader]]
         /\ DOMAIN dirty' = {}
         /\ completed' = [completed EXCEPT ![Follower] = {}]
         /\ hashes' = [hashes EXCEPT ![Follower] = [d \in Items |-> Unset]]
         /\ streams' = [streams EXCEPT ![Follower] = [d \in Items |-> Unset]]
         /\ used' = [used EXCEPT !.restarts = @ + 1]
         /\ UNCHANGED <<quota, wire, known, tick, writers>>
         /\ \E b \in [Items -> Files] :
              /\ blobs' = [blobs EXCEPT ![Follower] = b]
              /\ \A d \in Items : b[d] = blobs[Follower][d] \/ DOMAIN b[d] = {}
<1>1. /\ catalog' = [catalog EXCEPT ![Follower] = catalog[Leader]]
      /\ DOMAIN dirty' = {}
      /\ completed' = [completed EXCEPT ![Follower] = {}]
      /\ hashes' = [hashes EXCEPT ![Follower] = [d \in Items |-> Unset]]
      /\ streams' = [streams EXCEPT ![Follower] = [d \in Items |-> Unset]]
      /\ used' = [used EXCEPT !.restarts = @ + 1]
      /\ UNCHANGED <<quota, wire, known, tick, writers>>
  BY DEF Restart
<1>2. \E b \in [Items -> Files] :
        /\ blobs' = [blobs EXCEPT ![Follower] = b]
        /\ \A d \in Items : b[d] = blobs[Follower][d] \/ DOMAIN b[d] = {}
  <2>0. blobs[Follower] \in [Items -> Files]
    BY EndpointsAre DEF DataTypeOK
  <2>1. CASE wiped
    <3> PICK o : o = [i \in {} |-> Unset]
      OBVIOUS
    <3> PICK b : b = [d \in Items |-> o]
      OBVIOUS
    <3>1. o \in Files /\ DOMAIN o = {}
      BY EmptyFile
    <3>2. b \in [Items -> Files] /\ \A d \in Items : DOMAIN b[d] = {}
      BY <3>1
    <3>3. blobs' = [blobs EXCEPT ![Follower] = b]
      BY <2>1 DEF Restart
    <3> QED BY <3>2, <3>3
  <2>2. CASE ~wiped
    <3>1. blobs' = [blobs EXCEPT ![Follower] = blobs[Follower]]
      BY <2>2 DEF Restart
    <3> QED BY <3>1, <2>0
  <2> QED BY <2>1, <2>2
<1> QED BY <1>1, <1>2

LEMMA RestartTypes ==
  ASSUME DataTypeOK, HashHasRecord, NEW wiped \in BOOLEAN, Restart(wiped)
  PROVE  DataTypeOK' /\ HashHasRecord'
<1>1. /\ catalog' = [catalog EXCEPT ![Follower] = catalog[Leader]]
      /\ DOMAIN dirty' = {}
      /\ completed' = [completed EXCEPT ![Follower] = {}]
      /\ hashes' = [hashes EXCEPT ![Follower] = [d \in Items |-> Unset]]
      /\ streams' = [streams EXCEPT ![Follower] = [d \in Items |-> Unset]]
      /\ used' = [used EXCEPT !.restarts = @ + 1]
      /\ UNCHANGED <<quota, wire, known, tick, writers>>
  BY RestartParts
<1>2. blobs' \in [Endpoints -> [Items -> Files]]
  <2>1. PICK b \in [Items -> Files] : blobs' = [blobs EXCEPT ![Follower] = b]
    BY RestartParts
  <2> QED BY <2>1 DEF DataTypeOK
<1>3. catalog' \in [Endpoints -> [Items -> Records \cup {Unset}]]
  BY <1>1, EndpointsAre DEF DataTypeOK
<1>4. completed' \in [Endpoints -> SUBSET Items]
  <2>1. {} \in SUBSET Items
    OBVIOUS
  <2> QED BY <2>1, <1>1 DEF DataTypeOK
<1>5. /\ hashes' \in [Endpoints -> [Items -> Hashes \cup {Unset}]]
      /\ \A d \in Items : hashes'[Follower][d] = Unset
      /\ \A e \in Endpoints : e # Follower => hashes'[e] = hashes[e] /\ catalog'[e] = catalog[e]
  BY <1>1, EndpointsAre DEF DataTypeOK
<1>6. streams' \in [Endpoints -> [Items -> Streams \cup {Unset}]]
  BY <1>1, EndpointsAre DEF DataTypeOK
<1>7. HashHasRecord'
  BY <1>5 DEF HashHasRecord
<1>8. used' \in [deletes : Nat, losses : Nat, restarts : Nat]
  BY <1>1, UsedFacts
<1>9. /\ DOMAIN dirty' \subseteq Items
      /\ \A d \in DOMAIN dirty' : dirty'[d] \in Records \cup {Unset}
  BY <1>1
<1> QED BY <1>1, <1>2, <1>3, <1>4, <1>5, <1>6, <1>7, <1>8, <1>9 DEF DataTypeOK

LEMMA RestartOf ==
  ASSUME DataTypeOK, NEW wiped \in BOOLEAN, Restart(wiped),
         NEW d \in Items, NEW c \in Contents, WrittenAs(d, c)', WrittenAs(d, c) => Of(d, c)
  PROVE  Of(d, c)'
<1>1. /\ catalog' = [catalog EXCEPT ![Follower] = catalog[Leader]]
      /\ DOMAIN dirty' = {}
      /\ hashes' = [hashes EXCEPT ![Follower] = [z \in Items |-> Unset]]
      /\ streams' = [streams EXCEPT ![Follower] = [z \in Items |-> Unset]]
      /\ used' = [used EXCEPT !.restarts = @ + 1]
      /\ UNCHANGED <<wire, writers>>
  BY RestartParts
<1>2. PICK b \in [Items -> Files] :
        /\ blobs' = [blobs EXCEPT ![Follower] = b]
        /\ \A z \in Items : b[z] = blobs[Follower][z] \/ DOMAIN b[z] = {}
  BY RestartParts
<1>3. WritersGrow /\ WrittenAs(d, c)
  BY <1>1, WritersSame, WrittenBefore
<1>4. (\A e \in Endpoints : OfAt(e, d, c)) /\ DirtyOf(d, c) /\ WireOf(d, c) /\ FilesHaveRecord(d)
  BY <1>3, OfIs
<1>5. OfAt(Follower, d, c)'
  <2>1. /\ catalog'[Follower][d] = catalog[Leader][d] /\ hashes'[Follower][d] = Unset
        /\ streams'[Follower][d] = Unset
        /\ blobs'[Follower][d] = blobs[Follower][d] \/ DOMAIN blobs'[Follower][d] = {}
    BY <1>1, <1>2, EndpointsAre DEF DataTypeOK
  <2>2. CatalogOf(Follower, d, c)'
    BY <2>1, <1>4, EndpointsAre DEF OfAt, CatalogOf
  <2>3. FilesOf(Follower, d, c)'
    BY <2>1, <1>4, EndpointsAre DEF OfAt, FilesOf
  <2>4. StreamOf(Follower, d, c)' /\ HashOf(Follower, d, c)'
    BY <2>1 DEF StreamOf, HashOf
  <2> QED BY <2>2, <2>3, <2>4 DEF OfAt
<1>6. OfAt(Leader, d, c)'
  <2>1. SameAt(Leader, d)
    BY <1>1, <1>2, EndpointsAre DEF DataTypeOK, SameAt
  <2> QED BY <2>1, <1>3, <1>4, EndpointsAre, OfAtSame
<1>7. \A e \in Endpoints : OfAt(e, d, c)'
  BY <1>5, <1>6 DEF Endpoints
<1>8. DirtyOf(d, c)' /\ WireOf(d, c)'
  BY <1>1, <1>4 DEF DirtyOf, WireOf
<1>9. FilesHaveRecord(d)'
  <2>1. used'.restarts # 0
    BY <1>1, UsedFacts
  <2> QED BY <2>1 DEF FilesHaveRecord
<1> QED BY <1>7, <1>8, <1>9, OfIsPrimed

-----------------------------------------------------------------------------
(* The blob replicator *)

LEMMA TickAwake ==
  ASSUME DataTypeOK, tick.stage \in {"ask", "push"}
  PROVE  /\ tick \in Ticks /\ tick.item \in Items /\ tick.present \subseteq Indices
         /\ tick.sent \in BOOLEAN
<1>1. tick \in Ticks \cup {Resting}
  BY DEF DataTypeOK
<1>2. Resting.stage = "rest"
  BY DEF Resting
<1>3. tick \in Ticks
  BY <1>1, <1>2
<1> QED BY <1>3 DEF Ticks

LEMMA TickSet ==
  ASSUME NEW s \in {"ask", "push"}, NEW p \in SUBSET Indices, NEW b \in BOOLEAN,
         NEW x \in Items
  PROVE  [stage |-> s, item |-> x, present |-> p, sent |-> b] \in Ticks
BY DEF Ticks

LEMMA PresentIn ==
  ASSUME DataTypeOK, NEW e \in Endpoints, NEW x \in Items
  PROVE  Present(e, x) \in SUBSET Indices
<1>1. blobs[e][x] \in Files
  BY DEF DataTypeOK
<1>2. DOMAIN blobs[e][x] \subseteq Indices
  BY <1>1, FileFacts
<1> QED BY <1>2 DEF Present

LEMMA ConsiderStep ==
  ASSUME DataTypeOK, HashHasRecord, NEW x \in Items, Consider(x)
  PROVE  DataTypeOK' /\ HashHasRecord' /\ HashTaken(Leader, x) /\ UNCHANGED <<dirty, wire, used>>
<1>1. /\ HashTaken(Leader, x)
      /\ UNCHANGED <<quota, catalog, blobs, completed, streams, dirty, wire, known, writers, used>>
  BY DEF Consider, HashTaken
<1>2. hashes' \in [Endpoints -> [Items -> Hashes \cup {Unset}]] /\ HashHasRecord'
  BY <1>1, EndpointsAre, HashTakenTypes
<1> PICK p \in SUBSET Indices : p = Present(Leader, x)
  BY EndpointsAre, PresentIn
<1>3. tick' = [stage |-> "ask", item |-> x, present |-> p, sent |-> FALSE]
  BY DEF Consider
<1>4. tick' \in Ticks
  BY <1>3, TickSet
<1> QED BY <1>1, <1>2, <1>4 DEF DataTypeOK

LEMMA AskStep ==
  ASSUME DataTypeOK, HashHasRecord, AskFollower
  PROVE  /\ DataTypeOK' /\ HashHasRecord' /\ tick.item \in Items
         /\ HashTaken(Follower, tick.item) /\ UNCHANGED <<dirty, wire, used>>
<1>0. tick \in Ticks /\ tick.item \in Items /\ tick.present \subseteq Indices
  BY TickAwake DEF AskFollower
<1> PICK x \in Items : x = tick.item
  BY <1>0
<1>1. /\ HashTaken(Follower, x)
      /\ UNCHANGED <<quota, catalog, blobs, completed, streams, dirty, wire, writers, used>>
  BY DEF AskFollower, HashTaken
<1>2. hashes' \in [Endpoints -> [Items -> Hashes \cup {Unset}]] /\ HashHasRecord'
  BY <1>1, EndpointsAre, HashTakenTypes
<1> PICK ok \in BOOLEAN : ok = Complete(Follower, x)
  BY DEF Complete
<1> PICK has : has = IF catalog[Follower][x] = Unset THEN {} ELSE Present(Follower, x)
  OBVIOUS
<1>3. /\ known' = [known EXCEPT ![x] = IF ok THEN "complete" ELSE "partial"]
      /\ tick' = IF ok THEN Resting ELSE [tick EXCEPT !.stage = "push", !.present = @ \ has]
  BY DEF AskFollower
<1>4. known' \in [Items -> {"unknown", "partial", "complete", "stale"}]
  BY <1>3 DEF DataTypeOK
<1>5. tick' \in Ticks \cup {Resting}
  <2>1. CASE ok
    BY <2>1, <1>3
  <2>2. CASE ~ok
    <3>1. tick' = [tick EXCEPT !.stage = "push", !.present = tick.present \ has]
      BY <2>2, <1>3
    <3>2. tick.present \ has \in SUBSET Indices
      BY <1>0
    <3> QED BY <3>1, <3>2, <1>0 DEF Ticks
  <2> QED BY <2>1, <2>2
<1> QED BY <1>1, <1>2, <1>4, <1>5 DEF DataTypeOK

LEMMA MessageFacts ==
  ASSUME NEW m \in Messages
  PROVE  m.item \in Items /\ m.chunk \in Chunks /\ m.at = m.chunk.at /\ m.at \in Indices
<1>1. PICK x \in Items, ch \in Chunks : m = [item |-> x, at |-> ch.at, chunk |-> ch]
  BY DEF Messages
<1>2. PICK k \in Contents : ch \in {Chunk(k, i) : i \in DOMAIN Lengths[k]}
  BY <1>1 DEF Chunks
<1>3. PICK i \in DOMAIN Lengths[k] : ch = Chunk(k, i)
  BY <1>2
<1>4. ch.at = i /\ i \in Indices
  BY <1>3, ChunkFacts
<1> QED BY <1>1, <1>4

LEMMA PushStep ==
  ASSUME DataTypeOK, HashHasRecord, PushChunk
  PROVE  /\ DataTypeOK' /\ HashHasRecord'
         /\ UNCHANGED <<catalog, blobs, completed, hashes, streams, dirty, writers, used>>
         /\ \E x \in Items : \E i :
              \/ UNCHANGED wire
              \/ /\ i \in DOMAIN blobs[Leader][x]
                 /\ wire' = wire \cup {[item |-> x, at |-> i, chunk |-> blobs[Leader][x][i]]}
<1>0. tick \in Ticks /\ tick.item \in Items /\ tick.present \subseteq Indices
  BY TickAwake DEF PushChunk
<1> PICK x \in Items : x = tick.item
  BY <1>0
<1> PICK i : i = Min(tick.present)
  OBVIOUS
<1> PICK ok \in BOOLEAN : ok = (catalog[Leader][x] # Unset /\ i \in DOMAIN blobs[Leader][x])
  OBVIOUS
<1> PICK m : m = [item |-> x, at |-> i, chunk |-> blobs[Leader][x][i]]
  OBVIOUS
<1>1. /\ UNCHANGED <<quota, catalog, blobs, completed, hashes, streams, dirty, known, writers, used>>
      /\ wire' = IF ok THEN wire \cup {m} ELSE wire
      /\ tick' = [tick EXCEPT !.present = tick.present \ {i}, !.sent = tick.sent \/ ok]
  BY DEF PushChunk
<1>2. HashHasRecord'
  BY <1>1 DEF HashHasRecord
<1>3. tick' \in Ticks
  <2>1. tick.present \ {i} \in SUBSET Indices
    BY <1>0
  <2>2. PICK b \in BOOLEAN : b = (tick.sent \/ ok)
    OBVIOUS
  <2>3. tick' = [tick EXCEPT !.present = tick.present \ {i}, !.sent = b]
    BY <1>1, <2>2
  <2> QED BY <2>1, <2>3, <1>0 DEF Ticks
<1>4. ok => m \in Messages
  <2> SUFFICES ASSUME ok PROVE m \in Messages
    OBVIOUS
  <2> PICK f \in Files : f = blobs[Leader][x]
    BY EndpointsAre DEF DataTypeOK
  <2>1. i \in DOMAIN f
    OBVIOUS
  <2>2. f[i] \in Chunks /\ f[i].at = i
    BY <2>1, FileFacts
  <2> PICK ch \in Chunks : ch = f[i]
    BY <2>2
  <2>3. m = [item |-> x, at |-> ch.at, chunk |-> ch]
    BY <2>2
  <2> QED BY <2>3 DEF Messages
<1>5. wire' \subseteq Messages
  BY <1>1, <1>4 DEF DataTypeOK
<1>6. \/ UNCHANGED wire
      \/ /\ i \in DOMAIN blobs[Leader][x]
         /\ wire' = wire \cup {[item |-> x, at |-> i, chunk |-> blobs[Leader][x][i]]}
  BY <1>1
<1>7. DataTypeOK'
  BY <1>1, <1>3, <1>5 DEF DataTypeOK
<1>8. UNCHANGED <<catalog, blobs, completed, hashes, streams, dirty, writers, used>>
  BY <1>1
<1> QED BY <1>2, <1>6, <1>7, <1>8, Zenon

\* A chunk is read when it is sent: what is sent is what the leader has then.
LEMMA PushOf ==
  ASSUME DataTypeOK, HashHasRecord, PushChunk,
         NEW d \in Items, NEW c \in Contents, WrittenAs(d, c)', WrittenAs(d, c) => Of(d, c)
  PROVE  Of(d, c)'
<1>1. UNCHANGED <<catalog, blobs, completed, hashes, streams, dirty, writers, used>>
  BY PushStep
<1>a. PICK x \in Items : \E i :
        \/ UNCHANGED wire
        \/ /\ i \in DOMAIN blobs[Leader][x]
           /\ wire' = wire \cup {[item |-> x, at |-> i, chunk |-> blobs[Leader][x][i]]}
  BY PushStep
<1>2. PICK i :
        \/ UNCHANGED wire
        \/ /\ i \in DOMAIN blobs[Leader][x]
           /\ wire' = wire \cup {[item |-> x, at |-> i, chunk |-> blobs[Leader][x][i]]}
  BY <1>a
<1>3. WritersGrow /\ WrittenAs(d, c)
  BY <1>1, WritersSame, WrittenBefore
<1>4. (\A e \in Endpoints : OfAt(e, d, c)) /\ DirtyOf(d, c) /\ WireOf(d, c) /\ FilesHaveRecord(d)
  BY <1>3, OfIs
<1>5. \A e \in Endpoints : SameAt(e, d)
  BY <1>1 DEF SameAt
<1>6. \A e \in Endpoints : OfAt(e, d, c)'
  BY <1>3, <1>4, <1>5, OfAtSame
<1>7. WireOf(d, c)'
  <2>1. CASE UNCHANGED wire
    BY <2>1, <1>4 DEF WireOf
  <2>2. CASE ~UNCHANGED wire
    <3>1. \A j \in DOMAIN blobs[Leader][d] :
            j \in DOMAIN Lengths[c] /\ blobs[Leader][d][j] = Chunk(c, j)
      BY <1>4, EndpointsAre DEF OfAt, FilesOf
    <3>2. PICK m : m = [item |-> x, at |-> i, chunk |-> blobs[Leader][x][i]]
      OBVIOUS
    <3>3. wire' = wire \cup {m} /\ i \in DOMAIN blobs[Leader][x]
      BY <1>2, <2>2, <3>2
    <3>4. m.item = d => m.at \in DOMAIN Lengths[c] /\ m.chunk = Chunk(c, m.at)
      BY <3>1, <3>2, <3>3
    <3> QED BY <3>3, <3>4, <1>4 DEF WireOf
  <2> QED BY <2>1, <2>2
<1>8. DirtyOf(d, c)'
  BY <1>1, <1>4 DEF DirtyOf
<1>9. FilesHaveRecord(d)'
  BY <1>1, <1>3, <1>4, <1>5, EndpointsAre, FilesHaveRecordSame
<1> QED BY <1>6, <1>7, <1>8, <1>9, OfIsPrimed

LEMMA DeliverTypes ==
  ASSUME DataTypeOK, HashHasRecord, NEW m \in wire, Deliver(m)
  PROVE  DataTypeOK' /\ HashHasRecord'
<1>0. m \in Messages
  BY DEF DataTypeOK
<1>1. m.item \in Items /\ m.chunk \in Chunks /\ m.at = m.chunk.at /\ m.at \in Indices
  BY <1>0, MessageFacts
<1>2. /\ StoreChunk(Follower, m.item, m.at, m.chunk)
      /\ wire' = wire \ {m}
      /\ UNCHANGED <<quota, catalog, streams, dirty, known, tick, writers, used>>
  BY Zenon DEF Deliver
<1>3. /\ blobs' \in [Endpoints -> [Items -> Files]]
      /\ completed' \in [Endpoints -> SUBSET Items]
      /\ hashes' \in [Endpoints -> [Items -> Hashes \cup {Unset}]]
      /\ HashHasRecord'
  BY <1>1, <1>2, EndpointsAre, StoreChunkTypes
<1> QED BY <1>2, <1>3 DEF DataTypeOK

LEMMA DeliverOf ==
  ASSUME DataTypeOK, HashHasRecord, NEW m \in wire, Deliver(m),
         NEW d \in Items, NEW c \in Contents, WrittenAs(d, c)', WrittenAs(d, c) => Of(d, c)
  PROVE  Of(d, c)'
<1>0. m \in Messages
  BY DEF DataTypeOK
<1>1. m.item \in Items /\ m.chunk \in Chunks /\ m.at = m.chunk.at /\ m.at \in Indices
  BY <1>0, MessageFacts
<1>2. /\ StoreChunk(Follower, m.item, m.at, m.chunk)
      /\ wire' = wire \ {m}
      /\ UNCHANGED <<quota, catalog, streams, dirty, known, tick, writers, used>>
  BY Zenon DEF Deliver
<1>3. WritersGrow /\ WrittenAs(d, c)
  BY <1>2, WritersSame, WrittenBefore
<1>4. (\A e \in Endpoints : OfAt(e, d, c)) /\ DirtyOf(d, c) /\ WireOf(d, c) /\ FilesHaveRecord(d)
  BY <1>3, OfIs
<1>5. \A e \in Endpoints, z \in Items : (e # Follower \/ z # m.item) => SameAt(e, z)
  BY <1>1, <1>2, EndpointsAre, StoreChunkTypes
<1>6. d = m.item => /\ OfAt(Follower, d, c)'
                    /\ SameAt(Follower, d) \/ catalog'[Follower][d] # Unset
  <2> SUFFICES ASSUME d = m.item
               PROVE  /\ OfAt(Follower, d, c)'
                      /\ SameAt(Follower, d) \/ catalog'[Follower][d] # Unset
    OBVIOUS
  <2>1. m.at \in DOMAIN Lengths[c] /\ m.chunk = Chunk(c, m.at)
    BY <1>4 DEF WireOf
  <2>2. PICK i \in DOMAIN Lengths[c] : i = m.at
    BY <2>1
  <2>3. StoreChunk(Follower, d, i, Chunk(c, i))
    BY <1>2, <2>1, <2>2, Zenon
  <2> QED BY <2>3, <1>2, <1>4, EndpointsAre, StoreChunkOf
<1>7. ASSUME NEW e \in Endpoints PROVE OfAt(e, d, c)'
  <2>1. CASE e = Follower /\ d = m.item
    BY <2>1, <1>6
  <2>2. CASE e # Follower \/ d # m.item
    BY <2>2, <1>3, <1>4, <1>5, OfAtSame
  <2> QED BY <2>1, <2>2
<1>8. DirtyOf(d, c)' /\ WireOf(d, c)'
  BY <1>2, <1>4 DEF DirtyOf, WireOf
<1>9. FilesHaveRecord(d)'
  <2>1. CASE SameAt(Follower, d)
    BY <2>1, <1>2, <1>3, <1>4, FilesHaveRecordSame
  <2>2. CASE ~SameAt(Follower, d)
    <3>1. catalog'[Follower][d] # Unset
      BY <2>2, <1>5, <1>6, EndpointsAre
    <3> QED BY <3>1 DEF FilesHaveRecord
  <2> QED BY <2>1, <2>2
<1> QED BY <1>7, <1>8, <1>9, OfIsPrimed

-----------------------------------------------------------------------------
(* The invariant holds *)

LEMMA DataInitInv ==
  ASSUME DataInit
  PROVE  DataInv
<1> PICK o : o = [i \in {} |-> Unset]
  OBVIOUS
<1>0. o \in Files /\ DOMAIN o = {}
  BY EmptyFile
<1>1. /\ quota = Unset
      /\ catalog = [e \in Endpoints |-> [d \in Items |-> Unset]]
      /\ blobs = [e \in Endpoints |-> [d \in Items |-> o]]
      /\ completed = [e \in Endpoints |-> {}]
      /\ hashes = [e \in Endpoints |-> [d \in Items |-> Unset]]
      /\ streams = [e \in Endpoints |-> [d \in Items |-> Unset]]
      /\ DOMAIN dirty = {} /\ wire = {}
      /\ known = [d \in Items |-> "unknown"] /\ tick = Resting
      /\ writers = [d \in Items |-> <<>>]
      /\ used = [deletes |-> 0, losses |-> 0, restarts |-> 0]
  BY DEF DataInit
<1>2. DataTypeOK
  <2>1. /\ quota \in Quotas \cup {Unset}
        /\ catalog \in [Endpoints -> [Items -> Records \cup {Unset}]]
        /\ hashes \in [Endpoints -> [Items -> Hashes \cup {Unset}]]
        /\ streams \in [Endpoints -> [Items -> Streams \cup {Unset}]]
        /\ DOMAIN dirty \subseteq Items /\ \A d \in DOMAIN dirty : dirty[d] \in Records \cup {Unset}
        /\ wire \subseteq Messages
        /\ tick \in Ticks \cup {Resting}
        /\ used \in [deletes : Nat, losses : Nat, restarts : Nat]
        /\ known \in [Items -> {"unknown", "partial", "complete", "stale"}]
    BY <1>1
  <2>2. blobs \in [Endpoints -> [Items -> Files]]
    BY <1>0, <1>1
  <2>3. completed \in [Endpoints -> SUBSET Items]
    <3>1. {} \in SUBSET Items
      OBVIOUS
    <3> QED BY <3>1, <1>1
  <2>4. writers \in [Items -> Seq(Writers)]
    <3>1. <<>> \in Seq(Writers)
      OBVIOUS
    <3> QED BY <3>1, <1>1
  <2> QED BY <2>1, <2>2, <2>3, <2>4 DEF DataTypeOK
<1>3. HashHasRecord
  BY <1>1 DEF HashHasRecord
<1>4. ASSUME NEW d \in Items, NEW c \in Contents PROVE Of(d, c)
  <2>1. ASSUME NEW e \in Endpoints PROVE OfAt(e, d, c)
    BY <1>0, <1>1 DEF OfAt, CatalogOf, FilesOf, StreamOf, HashOf
  <2>2. DirtyOf(d, c) /\ WireOf(d, c)
    BY <1>1 DEF DirtyOf, WireOf
  <2>3. FilesHaveRecord(d)
    BY <1>0, <1>1, EndpointsAre DEF FilesHaveRecord
  <2> QED BY <2>1, <2>2, <2>3, OfIs
<1> QED BY <1>2, <1>3, <1>4 DEF DataInv

\* A step that keeps the types, and keeps every item of one content so.
LEMMA DataInvNext ==
  ASSUME DataTypeOK', HashHasRecord',
         \A d \in Items, c \in Contents : WrittenAs(d, c)' => Of(d, c)'
  PROVE  DataInv'
BY DEF DataInv

LEMMA DataStep ==
  ASSUME DataInv, DataNext
  PROVE  DataInv'
<1>0. DataTypeOK /\ HashHasRecord /\ \A d \in Items, c \in Contents : WrittenAs(d, c) => Of(d, c)
  BY DEF DataInv
<1>1. ASSUME NEW q \in Quotas, RegisterBucket(q) PROVE DataInv'
  <2>1. Quiet /\ quota' \in Quotas /\ UNCHANGED <<wire, known, tick, used>>
    BY <1>1 DEF RegisterBucket, Quiet
  <2>2. DataTypeOK'
    BY <2>1, <1>0 DEF DataTypeOK, Quiet
  <2>3. HashHasRecord'
    BY <2>1, <1>0, QuietHash
  <2>4. \A d \in Items, c \in Contents : WrittenAs(d, c)' => Of(d, c)'
    BY <2>1, <1>0, QuietOf
  <2> QED BY <2>2, <2>3, <2>4, DataInvNext
<1>2. ASSUME NEW x \in Items, NEW k \in Contents, Register(x, k) PROVE DataInv'
  <2>1. DataTypeOK' /\ HashHasRecord'
    BY <1>0, <1>2, RegisterTypes
  <2>2. \A d \in Items, c \in Contents : WrittenAs(d, c)' => Of(d, c)'
    BY <1>0, <1>2, RegisterOf
  <2> QED BY <2>1, <2>2, DataInvNext
<1>3. ASSUME NEW x \in Items, NEW k \in Contents, NEW i \in Indices, PutChunk(x, k, i)
      PROVE  DataInv'
  <2>1. DataTypeOK' /\ HashHasRecord'
    BY <1>0, <1>3, PutChunkTypes
  <2>2. \A d \in Items, c \in Contents : WrittenAs(d, c)' => Of(d, c)'
    BY <1>0, <1>3, PutChunkOf
  <2> QED BY <2>1, <2>2, DataInvNext
<1>4. ASSUME NEW y \in Endpoints, NEW x \in Items, Status(y, x) PROVE DataInv'
  <2>1. /\ HashTaken(y, x)
        /\ UNCHANGED <<quota, catalog, blobs, completed, streams, dirty, wire, known, tick,
                       writers, used>>
    BY <1>4 DEF Status, HashTaken
  <2>2. hashes' \in [Endpoints -> [Items -> Hashes \cup {Unset}]] /\ HashHasRecord'
    BY <2>1, <1>0, HashTakenTypes
  <2>3. DataTypeOK'
    BY <2>1, <2>2, <1>0 DEF DataTypeOK
  <2>4. \A d \in Items, c \in Contents : WrittenAs(d, c)' => Of(d, c)'
    BY <2>1, <1>0, StatusOf
  <2> QED BY <2>2, <2>3, <2>4, DataInvNext
<1>5. ASSUME NEW y \in Endpoints, NEW x \in Items, NEW k \in Streamed, OpenStream(y, x, k)
      PROVE  DataInv'
  <2>1. DataTypeOK' /\ HashHasRecord'
    BY <1>0, <1>5, OpenStreamTypes
  <2>2. \A d \in Items, c \in Contents : WrittenAs(d, c)' => Of(d, c)'
    BY <1>0, <1>5, OpenStreamOf
  <2> QED BY <2>1, <2>2, DataInvNext
<1>6. ASSUME NEW y \in Endpoints, NEW x \in Items, AppendChunk(y, x) PROVE DataInv'
  <2>1. DataTypeOK' /\ HashHasRecord'
    BY <1>0, <1>6, AppendChunkTypes
  <2>2. \A d \in Items, c \in Contents : WrittenAs(d, c)' => Of(d, c)'
    BY <1>0, <1>6, AppendChunkOf
  <2> QED BY <2>1, <2>2, DataInvNext
<1>7. ASSUME NEW y \in Endpoints, NEW x \in Items, FinalizeStream(y, x) PROVE DataInv'
  <2>1. DataTypeOK' /\ HashHasRecord'
    BY <1>0, <1>7, FinalizeTypes
  <2>2. \A d \in Items, c \in Contents : WrittenAs(d, c)' => Of(d, c)'
    BY <1>0, <1>7, FinalizeOf
  <2> QED BY <2>1, <2>2, DataInvNext
<1>8. ASSUME NEW x \in Items, Delete(x) PROVE DataInv'
  <2>1. DataTypeOK' /\ HashHasRecord'
    BY <1>0, <1>8, DeleteTypes
  <2>2. \A d \in Items, c \in Contents : WrittenAs(d, c)' => Of(d, c)'
    BY <1>0, <1>8, DeleteOf
  <2> QED BY <2>1, <2>2, DataInvNext
<1>9. ASSUME NEW x \in Items, ApplyChange(x) PROVE DataInv'
  <2>1. DataTypeOK' /\ HashHasRecord'
    BY <1>0, <1>9, ApplyTypes
  <2>2. \A d \in Items, c \in Contents : WrittenAs(d, c)' => Of(d, c)'
    BY <1>0, <1>9, ApplyOf
  <2> QED BY <2>1, <2>2, DataInvNext
<1>10. ASSUME NEW x \in Items, Consider(x) PROVE DataInv'
  <2>1. DataTypeOK' /\ HashHasRecord' /\ HashTaken(Leader, x) /\ UNCHANGED <<dirty, wire, used>>
    BY <1>0, <1>10, ConsiderStep
  <2>2. \A d \in Items, c \in Contents : WrittenAs(d, c)' => Of(d, c)'
    BY <2>1, <1>0, EndpointsAre, StatusOf
  <2> QED BY <2>1, <2>2, DataInvNext
<1>11. ASSUME NEW x \in Items, RecheckDue(x) PROVE DataInv'
  <2>1. /\ Quiet /\ known' = [known EXCEPT ![x] = "stale"]
        /\ UNCHANGED <<quota, wire, tick, used>>
    BY <1>11 DEF RecheckDue, Quiet
  <2>2. DataTypeOK'
    BY <2>1, <1>0 DEF DataTypeOK, Quiet
  <2>3. HashHasRecord'
    BY <2>1, <1>0, QuietHash
  <2>4. \A d \in Items, c \in Contents : WrittenAs(d, c)' => Of(d, c)'
    BY <2>1, <1>0, QuietOf
  <2> QED BY <2>2, <2>3, <2>4, DataInvNext
<1>12. ASSUME NEW wiped \in BOOLEAN, Restart(wiped) PROVE DataInv'
  <2>1. DataTypeOK' /\ HashHasRecord'
    BY <1>0, <1>12, RestartTypes
  <2>2. \A d \in Items, c \in Contents : WrittenAs(d, c)' => Of(d, c)'
    BY <1>0, <1>12, RestartOf
  <2> QED BY <2>1, <2>2, DataInvNext
<1>13. ASSUME AskFollower PROVE DataInv'
  <2>1. /\ DataTypeOK' /\ HashHasRecord' /\ tick.item \in Items
        /\ HashTaken(Follower, tick.item) /\ UNCHANGED <<dirty, wire, used>>
    BY <1>0, <1>13, AskStep
  <2>2. PICK x \in Items : HashTaken(Follower, x)
    BY <2>1
  <2>3. \A d \in Items, c \in Contents : WrittenAs(d, c)' => Of(d, c)'
    BY <2>1, <2>2, <1>0, EndpointsAre, StatusOf
  <2> QED BY <2>1, <2>3, DataInvNext
<1>14. ASSUME PushChunk PROVE DataInv'
  <2>1. DataTypeOK' /\ HashHasRecord'
    BY <1>0, <1>14, PushStep
  <2>2. \A d \in Items, c \in Contents : WrittenAs(d, c)' => Of(d, c)'
    BY <1>0, <1>14, PushOf
  <2> QED BY <2>1, <2>2, DataInvNext
<1>15. ASSUME TickEnds PROVE DataInv'
  <2>1. Quiet /\ tick' = Resting /\ UNCHANGED <<quota, wire, known, used>>
    BY <1>15 DEF TickEnds, Quiet
  <2>2. DataTypeOK'
    BY <2>1, <1>0 DEF DataTypeOK, Quiet
  <2>3. HashHasRecord'
    BY <2>1, <1>0, QuietHash
  <2>4. \A d \in Items, c \in Contents : WrittenAs(d, c)' => Of(d, c)'
    BY <2>1, <1>0, QuietOf
  <2> QED BY <2>2, <2>3, <2>4, DataInvNext
<1>16. ASSUME NEW m \in wire, Deliver(m) PROVE DataInv'
  <2>1. DataTypeOK' /\ HashHasRecord'
    BY <1>0, <1>16, DeliverTypes
  <2>2. \A d \in Items, c \in Contents : WrittenAs(d, c)' => Of(d, c)'
    BY <1>0, <1>16, DeliverOf
  <2> QED BY <2>1, <2>2, DataInvNext
<1>17. ASSUME NEW m \in wire, Lose(m) PROVE DataInv'
  <2>1. /\ wire' = wire \ {m} /\ used' = [used EXCEPT !.losses = @ + 1]
        /\ UNCHANGED <<quota, catalog, blobs, completed, hashes, streams, dirty, known, tick,
                       writers>>
    BY <1>17 DEF Lose
  <2>2. /\ used'.restarts = used.restarts
        /\ used' \in [deletes : Nat, losses : Nat, restarts : Nat]
    BY <2>1, <1>0, UsedFacts
  <2>3. Quiet
    BY <2>1, <2>2 DEF Quiet
  <2>4. DataTypeOK'
    BY <2>1, <2>2, <1>0 DEF DataTypeOK
  <2>5. HashHasRecord'
    BY <2>3, <1>0, QuietHash
  <2>6. \A d \in Items, c \in Contents : WrittenAs(d, c)' => Of(d, c)'
    BY <2>3, <1>0, QuietOf
  <2> QED BY <2>4, <2>5, <2>6, DataInvNext
<1> QED BY <1>1, <1>2, <1>3, <1>4, <1>5, <1>6, <1>7, <1>8, <1>9, <1>10, <1>11, <1>12,
           <1>13, <1>14, <1>15, <1>16, <1>17, Zenon DEF DataNext

LEMMA DataStutter ==
  ASSUME DataInv, UNCHANGED dataVars
  PROVE  DataInv'
<1>0. DataTypeOK /\ HashHasRecord /\ \A d \in Items, c \in Contents : WrittenAs(d, c) => Of(d, c)
  BY DEF DataInv
<1>1. /\ Quiet
      /\ UNCHANGED <<quota, wire, known, tick, used>>
  BY DEF dataVars, Quiet
<1>2. DataTypeOK'
  BY <1>0, <1>1 DEF DataTypeOK, Quiet
<1>3. HashHasRecord'
  BY <1>0, <1>1, QuietHash
<1>4. \A d \in Items, c \in Contents : WrittenAs(d, c)' => Of(d, c)'
  BY <1>0, <1>1, QuietOf
<1> QED BY <1>2, <1>3, <1>4, DataInvNext

\* The inductive invariant holds in every behaviour.
THEOREM DataInvariant == DataSpec => []DataInv
<1>1. DataInit => DataInv
  BY DataInitInv
<1>2. DataInv /\ [DataNext]_dataVars => DataInv'
  BY DataStep, DataStutter
<1> QED BY <1>1, <1>2, PTL DEF DataSpec

\* Records, files, caches, streams and messages of every endpoint are about chunks of the
\* contents written, each chunk under its own index.
THEOREM DataTypes == DataSpec => []DataTypeOK
<1>1. DataInv => DataTypeOK
  BY DEF DataInv
<1> QED BY <1>1, DataInvariant, PTL

-----------------------------------------------------------------------------
(* What the invariant says *)

\* An item always written with one content is of that content.  One never written is of
\* any content.
LEMMA SameContentOf ==
  ASSUME DataInv, NEW d \in Items, SameContent(d)
  PROVE  \/ Contents = {}
         \/ \E c \in Contents : WrittenAs(d, c) /\ Of(d, c)
<1>0. writers[d] \in Seq(Writers)
  BY DEF DataInv, DataTypeOK
<1>1. CASE Range(writers[d]) = {}
  BY <1>1 DEF DataInv, WrittenAs
<1>2. CASE Range(writers[d]) # {}
  <2>1. PICK w \in Range(writers[d]) : TRUE
    BY <1>2
  <2>2. w.content \in Contents
    <3>1. PICK i \in DOMAIN writers[d] : w = writers[d][i]
      BY <2>1, Zenon DEF Range
    <3>2. w \in Writers
      BY <3>1, <1>0
    <3> QED BY <3>2 DEF Writers
  <2>3. WrittenAs(d, w.content)
    BY <2>1 DEF WrittenAs, SameContent
  <2>4. Of(d, w.content)
    BY <2>2, <2>3, Zenon DEF DataInv
  <2> QED BY <2>2, <2>3, <2>4
<1> QED BY <1>1, <1>2

\* hash_verified is never stale: what was hashed is what the files of the record hold
\* now, at the leader and at the follower, through deletions, replays and restarts.
THEOREM VerifiedStaysTrue == DataSpec => []VerifiedIsTrue
<1>1. DataInv => VerifiedIsTrue
  <2> SUFFICES ASSUME DataInv, NEW e \in Endpoints, NEW d \in Items,
                      hashes[e][d] # Unset, SameContent(d)
               PROVE  /\ hashes[e][d].computed = Bytes(blobs[e][d], catalog[e][d].total)
                      /\ hashes[e][d].verified
    BY Zenon DEF VerifiedIsTrue
  <2>1. Contents # {}
    <3>1. catalog[e][d] \in Records
      BY DEF DataInv, HashHasRecord
    <3> QED BY <3>1, RecordsAre
  <2>2. PICK c \in Contents : Of(d, c)
    BY <2>1, SameContentOf
  <2>3. FilesOf(e, d, c) /\ HashOf(e, d, c)
    BY <2>2 DEF Of
  <2>4. /\ catalog[e][d] = RecordOf(c) /\ DOMAIN Lengths[c] \subseteq DOMAIN blobs[e][d]
        /\ hashes[e][d].computed = Whole(c) /\ hashes[e][d].verified
    BY <2>3 DEF HashOf
  <2>5. catalog[e][d].total = Len(Lengths[c])
    BY <2>4, RecordFacts
  <2>6. blobs[e][d] \in Files
    BY DEF DataInv, DataTypeOK
  <2>7. Bytes(blobs[e][d], Len(Lengths[c])) = Whole(c)
    BY <2>3, <2>4, <2>6, BytesOfWhole DEF FilesOf
  <2> QED BY <2>4, <2>5, <2>7
<1> QED BY <1>1, DataInvariant, PTL

\* A chunk pushed late never leaves a byte of another content at the follower, nor a
\* file of an item deleted there.
THEOREM ReplicaStaysFaithful == DataSpec => []ReplicaIsFaithful
<1>1. DataInv => ReplicaIsFaithful
  <2> SUFFICES ASSUME DataInv, NEW d \in Items, SameContent(d)
               PROVE  /\ \A i \in DOMAIN blobs[Follower][d] :
                           \A w \in Range(writers[d]) : blobs[Follower][d][i] = Chunk(w.content, i)
                      /\ catalog[Follower][d] = Unset /\ used.restarts = 0
                           => DOMAIN blobs[Follower][d] = {} \/ StreamedAt(Follower, d)
    BY Zenon DEF ReplicaIsFaithful
  <2>1. CASE Contents = {}
    <3>1. Indices = {}
      BY <2>1 DEF Indices
    <3>2. blobs[Follower][d] \in Files
      BY EndpointsAre DEF DataInv, DataTypeOK
    <3>3. DOMAIN blobs[Follower][d] = {}
      BY <3>1, <3>2, FileFacts
    <3> QED BY <3>3
  <2>2. CASE Contents # {}
    <3>1. PICK c \in Contents : WrittenAs(d, c) /\ Of(d, c)
      BY <2>2, SameContentOf
    <3>2. FilesOf(Follower, d, c) /\ FilesHaveRecord(d)
      BY <3>1, EndpointsAre DEF Of
    <3>3. \A w \in Range(writers[d]) : w.content = c
      BY <3>1 DEF WrittenAs
    <3>4. \A i \in DOMAIN blobs[Follower][d] : blobs[Follower][d][i] = Chunk(c, i)
      BY <3>2 DEF FilesOf
    <3> QED BY <3>2, <3>3, <3>4 DEF FilesHaveRecord
  <2> QED BY <2>1, <2>2
<1> QED BY <1>1, DataInvariant, PTL
=============================================================================
