----------------------------- MODULE ChunkTable -----------------------------
(***************************************************************************)
(* The chunk table of stdlib/gc.c.  collect builds it from the heap list   *)
(* before it marks: every block is entered in each chunk of the address    *)
(* space that its payload overlaps, so that an address inside a block leads*)
(* to the block's header.  The table is a hash table of chained ChunkInfo  *)
(* records that doubles at 75 % load.                                      *)
(***************************************************************************)
EXTENDS Integers, Sequences, FiniteSetsExt, SequencesExt

CONSTANTS
  Layouts,       \* heap lists: sequences of blocks
  Addr,          \* the addresses that may be looked up
  CHUNK_SIZE,
  InitBuckets,   \* 1 << CHUNK_TABLE_INIT_LOG2
  ChunkHash(_),  \* chunk_hash before the mask
  MallocFails,   \* malloc and calloc may return NULL
  None           \* no chunk, no header

CHUNK_TABLE_GROW_NUM == 3
CHUNK_TABLE_GROW_DEN == 4

(* The payload of a block. *)
Extent == [base : Nat, size : Nat]
FirstChunk(b) == b.base \div CHUNK_SIZE

(* Mutant: the chunks of the size, wherever the block starts. *)
LastChunkBySize(b) == FirstChunk(b) + (b.size - 1) \div CHUNK_SIZE

LastChunk(b) == (b.base + b.size - 1) \div CHUNK_SIZE
ChunksOf(b) == {id \in FirstChunk(b) .. LastChunk(b) : b.size > 0}

ASSUME ChunkAssumption ==
  /\ CHUNK_SIZE \in Nat \ {0} /\ InitBuckets \in Nat \ {0} /\ MallocFails \in BOOLEAN
  /\ Addr \subseteq Nat /\ None \notin Nat /\ None \notin Extent
  /\ \A a \in Addr : ChunkHash(a \div CHUNK_SIZE) \in Nat
  /\ \A heap \in Layouts :
       /\ heap \in Seq(Extent)
       /\ \A i \in DOMAIN heap : \A id \in ChunksOf(heap[i]) : ChunkHash(id) \in Nat
       /\ \A i, j \in DOMAIN heap :
            i # j => heap[i].base + heap[i].size <= heap[j].base
                       \/ heap[j].base + heap[j].size <= heap[i].base

VARIABLES
  todo,               \* blocks of the heap list not yet entered
  done,               \* blocks entered
  cid,                \* next chunk of the block being entered, None between blocks
  chunk_table,        \* the chain of every bucket, << >> if not allocated
  chunk_buckets,      \* 1 << chunk_table_log2
  chunk_table_count,
  lost,               \* history: <<block, chunk>> whose entry could not be stored
  chunk_phase         \* "init", "build", "mark" when complete, "crash"

chunkVars ==
  <<todo, done, cid, chunk_table, chunk_buckets, chunk_table_count, lost, chunk_phase>>

BucketOf(id, n) == ChunkHash(id) % n
NoChains(n) == [i \in 0 .. n - 1 |-> << >>]

ChunkStart ==
  /\ todo \in Layouts /\ done = {} /\ cid = None /\ lost = {} /\ chunk_phase = "init"
  /\ chunk_table = << >> /\ chunk_buckets = InitBuckets /\ chunk_table_count = 0

(* chunk_table_free, which finds nothing, and chunk_table_init. *)
ChunkTableInit ==
  /\ chunk_phase = "init"
  /\ \/ chunk_table' = NoChains(InitBuckets)
     \/ MallocFails /\ chunk_table' = << >>
  /\ chunk_phase' = "build"
  /\ UNCHANGED <<todo, done, cid, chunk_buckets, chunk_table_count, lost>>

(* chunk_table_add_range: nothing for an empty payload or without a table. *)
SkipBlock ==
  /\ chunk_phase = "build" /\ cid = None /\ todo # << >>
  /\ chunk_table = << >> \/ Head(todo).size = 0
  /\ todo' = Tail(todo) /\ done' = done \cup {Head(todo)}
  /\ lost' = lost \cup {<<Head(todo), id>> : id \in ChunksOf(Head(todo))}
  /\ UNCHANGED <<cid, chunk_table, chunk_buckets, chunk_table_count, chunk_phase>>

StartBlock ==
  /\ chunk_phase = "build" /\ cid = None /\ todo # << >>
  /\ chunk_table # << >> /\ Head(todo).size > 0
  /\ cid' = FirstChunk(Head(todo))
  /\ UNCHANGED <<todo, done, chunk_table, chunk_buckets, chunk_table_count, lost, chunk_phase>>

ChunksLoaded ==
  chunk_table_count * CHUNK_TABLE_GROW_DEN >= chunk_buckets * CHUNK_TABLE_GROW_NUM

(* Every record of the old buckets, in order, to the front of its new one. *)
PushRecord(t, n, info) == [t EXCEPT ![BucketOf(info.id, n)] = <<info>> \o @]
PushChain(t, n, chain) == FoldLeft(LAMBDA u, info : PushRecord(u, n, info), t, chain)
Rehashed(t, m, n) ==
  FoldLeft(LAMBDA u, chain : PushChain(u, n, chain), NoChains(n), [i \in 1 .. m |-> t[i - 1]])

ChunkTableGrow ==
  /\ chunk_phase = "build" /\ cid # None /\ ChunksLoaded
  /\ chunk_buckets' = 2 * chunk_buckets
  /\ chunk_table' = Rehashed(chunk_table, chunk_buckets, 2 * chunk_buckets)
  /\ UNCHANGED <<todo, done, cid, chunk_table_count, lost, chunk_phase>>

(* calloc returned NULL in chunk_table_grow: it is stored through. *)
ChunkTableGrowFails ==
  /\ MallocFails /\ chunk_phase = "build" /\ cid # None /\ ChunksLoaded
  /\ chunk_phase' = "crash"
  /\ UNCHANGED <<todo, done, cid, chunk_table, chunk_buckets, chunk_table_count, lost>>

(* After one chunk, the next one of the block or the next block. *)
Advance ==
  IF cid < LastChunk(Head(todo))
  THEN cid' = cid + 1 /\ UNCHANGED <<todo, done>>
  ELSE cid' = None /\ todo' = Tail(todo) /\ done' = done \cup {Head(todo)}

(* The places in a chain of the records of a chunk: the first one counts. *)
RecordsOf(chain, id) == {p \in DOMAIN chain : chain[p].id = id}

(* chunk_table_insert_entry for a chunk that has a record, or a new one. *)
InsertEntry ==
  LET i == BucketOf(cid, chunk_buckets)
      found == RecordsOf(chunk_table[i], cid) IN
  /\ chunk_phase = "build" /\ cid # None /\ ~ChunksLoaded
  /\ \/ /\ found # {}
        /\ chunk_table' =
             [chunk_table EXCEPT ![i][Min(found)].entries = Append(@, Head(todo))]
        /\ UNCHANGED chunk_table_count
     \/ /\ found = {}
        /\ chunk_table' =
             PushRecord(chunk_table, chunk_buckets, [id |-> cid, entries |-> <<Head(todo)>>])
        /\ chunk_table_count' = chunk_table_count + 1
  /\ Advance
  /\ UNCHANGED <<chunk_buckets, lost, chunk_phase>>

(* malloc or realloc returned NULL: the entry is left out, silently. *)
EntryFails ==
  /\ MallocFails /\ chunk_phase = "build" /\ cid # None /\ ~ChunksLoaded
  /\ Advance
  /\ lost' = lost \cup {<<Head(todo), cid>>}
  /\ UNCHANGED <<chunk_table, chunk_buckets, chunk_table_count, chunk_phase>>

BuildEnd ==
  /\ chunk_phase = "build" /\ todo = << >>
  /\ chunk_phase' = "mark"
  /\ UNCHANGED <<todo, done, cid, chunk_table, chunk_buckets, chunk_table_count, lost>>

(* sweep has freed the table again; the next collection finds another heap.*)
ChunkTableFree ==
  /\ chunk_phase = "mark"
  /\ chunk_phase' = "init"
  /\ chunk_table' = << >> /\ chunk_buckets' = InitBuckets /\ chunk_table_count' = 0
  /\ todo' \in Layouts /\ done' = {} /\ lost' = {}
  /\ UNCHANGED cid

ChunkNext ==
  \/ ChunkTableInit \/ SkipBlock \/ StartBlock \/ ChunkTableGrow \/ ChunkTableGrowFails
  \/ InsertEntry \/ EntryFails \/ BuildEnd \/ ChunkTableFree

ChunkSpec == ChunkStart /\ [][ChunkNext]_chunkVars

Hit(b, a) == b.base <= a /\ a < b.base + b.size

(* The first hit in the first record of the address's chunk. *)
ChunkTableLookup(a) ==
  LET id == a \div CHUNK_SIZE
      chain == IF chunk_table = << >> THEN << >> ELSE chunk_table[BucketOf(id, chunk_buckets)]
      found == RecordsOf(chain, id)
      entries == IF found = {} THEN << >> ELSE chain[Min(found)].entries
      hits == {e \in DOMAIN entries : Hit(entries[e], a)} IN
  IF hits = {} THEN None ELSE entries[Min(hits)]

-----------------------------------------------------------------------------
(* Every variable keeps to its type, and the table has the buckets its     *)
(* logarithm says.                                                         *)
ChunkTypeOK ==
  /\ chunk_phase \in {"init", "build", "mark", "crash"}
  /\ chunk_buckets \in Nat \ {0} /\ chunk_table_count \in Nat
  /\ chunk_table # << >> => DOMAIN chunk_table = 0 .. chunk_buckets - 1

Covers(b, a) == b.base <= a /\ a < b.base + b.size

(* During the mark phase an address leads to the block whose payload it    *)
(* lies in, and to none when it lies in no payload, in whatever chunk of   *)
(* the block it is and however often the table has grown.  Entries that    *)
(* could not be stored lose just their own part of a block: the other      *)
(* parts are still found, and no address leads to another block.           *)
InteriorExact ==
  chunk_phase = "mark" =>
    \A a \in Addr :
      LET over == {b \in done : Covers(b, a) /\ <<b, a \div CHUNK_SIZE>> \notin lost} IN
      IF over = {} THEN ChunkTableLookup(a) = None ELSE ChunkTableLookup(a) \in over

(* chunk_table_count, which decides when to grow, counts the records, and  *)
(* a chunk has one record.                                                 *)
RecordPlaces == UNION {{i} \X DOMAIN chunk_table[i] : i \in DOMAIN chunk_table}

OneRecordPerChunk ==
  chunk_table # << >> =>
    /\ Cardinality(RecordPlaces) = chunk_table_count
    /\ \A x, y \in RecordPlaces :
         chunk_table[x[1]][x[2]].id = chunk_table[y[1]][y[2]].id => x = y

(* An address leads to the block whose payload it lies in; a chunk has one *)
(* record, and the table counts its records.                               *)
ChunkTableExact == ChunkTypeOK /\ InteriorExact /\ OneRecordPerChunk
=============================================================================
