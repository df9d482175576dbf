------------------------------ MODULE PtrMap ------------------------------
(***************************************************************************)
(* ptr_map of stdlib/gc.c: the open-addressing table from user pointers to *)
(* GC headers that find_gc_header consults first.  The header of a pointer *)
(* is the word group before it, so a slot is its key.  The collector calls *)
(* it under gc_lock: insert from alloc, rebuild at the end of sweep, free  *)
(* from shutdown.                                                          *)
(***************************************************************************)
EXTENDS Integers, Sequences, FiniteSetsExt, SequencesExt

CONSTANTS
  Pointer,           \* user pointers
  HashRange,         \* values of the hash before it is masked
  PTR_MAP_INIT_CAP,
  Sparse,            \* rebuild halves the table while size * 8 < cap
  MaxMapCap,         \* bound: no insertion that would grow past it
  NoPtr              \* NULL

PTR_MAP_LOAD_MAX_NUM == 3
PTR_MAP_LOAD_MAX_DEN == 4

ASSUME PtrMapAssumption ==
  /\ NoPtr \notin Pointer /\ HashRange \subseteq Nat
  /\ PTR_MAP_INIT_CAP \in Nat /\ PTR_MAP_INIT_CAP >= 4
  /\ MaxMapCap \in Nat /\ PTR_MAP_INIT_CAP <= MaxMapCap
  /\ Sparse \in Nat /\ Sparse >= 2
  /\ \A n \in 1 .. MaxMapCap : NoPtr \notin [0 .. n - 1 -> Pointer \cup {NoPtr}]

VARIABLES
  ptr_hash,      \* the hash function of this execution
  ptr_map,       \* the keys of the slots, NoPtr when it is not allocated
  ptr_map_cap,
  ptr_map_size,
  heap_list,     \* user pointers of the heap list, heap_head first
  map_phase      \* "run", "shrink" inside ptr_map_rebuild, "exit" or "crash"

ptrMapVars == <<ptr_hash, ptr_map, ptr_map_cap, ptr_map_size, heap_list, map_phase>>

EmptyTable(n) == [p \in 0 .. n - 1 |-> NoPtr]

(* Linear probing from the masked hash: the first slot that is empty or    *)
(* holds the key.  When there is none the loop does not end.               *)
Home(k, n) == ptr_hash[k] % n
Probe(k, n, i) == (Home(k, n) + i) % n
Stops(m, n, k) == {i \in 0 .. n - 1 : m[Probe(k, n, i)] \in {NoPtr, k}}
SlotOf(m, n, k) == Probe(k, n, Min(Stops(m, n, k)))

Place(m, n, k) == [m EXCEPT ![SlotOf(m, n, k)] = k]

(* The keys of the slots in index order, put into a table of n slots. *)
SlotsOf(m, n) == [i \in 1 .. n |-> m[i - 1]]

Rehash(keys, n) ==
  FoldLeft(LAMBDA m, k : IF k = NoPtr THEN m ELSE Place(m, n, k), EmptyTable(n), keys)

Entries(m, n) == Cardinality({p \in 0 .. n - 1 : m[p] # NoPtr})

PtrMapLookup(k) ==
  IF ptr_map = NoPtr THEN NoPtr ELSE ptr_map[SlotOf(ptr_map, ptr_map_cap, k)]

PtrMapStart ==
  /\ ptr_hash \in [Pointer -> HashRange]
  /\ ptr_map = NoPtr /\ ptr_map_cap = 0 /\ ptr_map_size = 0 /\ heap_list = << >>
  /\ map_phase = "run"

(* calloc gave a table. *)
PtrMapInit ==
  /\ map_phase = "run" /\ ptr_map = NoPtr
  /\ ptr_map' = EmptyTable(PTR_MAP_INIT_CAP)
  /\ ptr_map_cap' = PTR_MAP_INIT_CAP /\ ptr_map_size' = 0
  /\ UNCHANGED <<ptr_hash, heap_list, map_phase>>

(* Mutant: the table is grown when it is more than full. *)
MapLoadedFull == ptr_map_size > ptr_map_cap

MapLoaded == ptr_map_size * PTR_MAP_LOAD_MAX_DEN >= ptr_map_cap * PTR_MAP_LOAD_MAX_NUM

(* The first step of an insertion into a loaded table. *)
PtrMapGrow ==
  /\ map_phase = "run" /\ ptr_map # NoPtr /\ MapLoaded /\ 2 * ptr_map_cap <= MaxMapCap
  /\ ptr_map_cap' = 2 * ptr_map_cap
  /\ ptr_map' = Rehash(SlotsOf(ptr_map, ptr_map_cap), 2 * ptr_map_cap)
  /\ ptr_map_size' = Entries(ptr_map, ptr_map_cap)
  /\ UNCHANGED <<ptr_hash, heap_list, map_phase>>

(* calloc returned NULL in ptr_map_init or ptr_map_grow. *)
InitOrGrowFails ==
  /\ map_phase = "run" /\ (ptr_map = NoPtr \/ MapLoaded)
  /\ map_phase' = "exit"
  /\ UNCHANGED <<ptr_hash, ptr_map, ptr_map_cap, ptr_map_size, heap_list>>

(* The rest of ptr_map_insert, for a block that alloc has linked. *)
PtrMapInsert(k) ==
  /\ map_phase = "run" /\ ptr_map # NoPtr /\ ~MapLoaded /\ k \notin ToSet(heap_list)
  /\ ptr_map' = Place(ptr_map, ptr_map_cap, k)
  /\ ptr_map_size' = ptr_map_size + 1
  /\ heap_list' = <<k>> \o heap_list
  /\ UNCHANGED <<ptr_hash, ptr_map_cap, map_phase>>

(* The heap list when sweep has unlinked the blocks that are not in S. *)
Survivors(S) ==
  FoldLeft(LAMBDA kept, k : IF k \in S THEN Append(kept, k) ELSE kept, << >>, heap_list)

(* sweep keeps the blocks in S; ptr_map_rebuild clears and refills. *)
PtrMapRebuild(S) ==
  /\ map_phase = "run" /\ ptr_map # NoPtr /\ S \subseteq ToSet(heap_list)
  /\ heap_list' = Survivors(S)
  /\ ptr_map' = Rehash(Survivors(S), ptr_map_cap)
  /\ ptr_map_size' = Len(Survivors(S))
  /\ map_phase' = "shrink"
  /\ UNCHANGED <<ptr_hash, ptr_map_cap>>

TooSparse == ptr_map_cap > PTR_MAP_INIT_CAP /\ ptr_map_size * Sparse < ptr_map_cap

Shrink ==
  /\ map_phase = "shrink" /\ TooSparse /\ ptr_map # NoPtr
  /\ ptr_map_cap' = ptr_map_cap \div 2
  /\ ptr_map' = Rehash(SlotsOf(ptr_map, ptr_map_cap), ptr_map_cap \div 2)
  /\ ptr_map_size' = Entries(ptr_map, ptr_map_cap)
  /\ UNCHANGED <<ptr_hash, heap_list, map_phase>>

(* calloc returned NULL: the refill stores through it if there is a key,   *)
(* and the next round of the loop reads the old table through it.          *)
ShrinkFails ==
  /\ map_phase = "shrink" /\ TooSparse
  /\ map_phase' = IF ptr_map_size > 0 \/ ptr_map = NoPtr THEN "crash" ELSE "shrink"
  /\ ptr_map_cap' = ptr_map_cap \div 2 /\ ptr_map' = NoPtr
  /\ UNCHANGED <<ptr_hash, ptr_map_size, heap_list>>

RebuildEnd ==
  /\ map_phase = "shrink" /\ ~TooSparse
  /\ map_phase' = "run"
  /\ UNCHANGED <<ptr_hash, ptr_map, ptr_map_cap, ptr_map_size, heap_list>>

(* gc_shutdown frees the blocks and the map. *)
PtrMapFree ==
  /\ map_phase = "run"
  /\ ptr_map' = NoPtr /\ ptr_map_cap' = 0 /\ ptr_map_size' = 0 /\ heap_list' = << >>
  /\ UNCHANGED <<ptr_hash, map_phase>>

PtrMapNext ==
  \/ PtrMapInit \/ PtrMapGrow \/ InitOrGrowFails
  \/ \E k \in Pointer : PtrMapInsert(k)
  \/ \E S \in SUBSET ToSet(heap_list) : PtrMapRebuild(S)
  \/ Shrink \/ ShrinkFails \/ RebuildEnd \/ PtrMapFree

PtrMapSpec == PtrMapStart /\ [][PtrMapNext]_ptrMapVars

(***************************************************************************)
(* ptr_map_remove: backward-shift deletion.  A static function that sweep  *)
(* no longer calls.                                                        *)
(***************************************************************************)
(* Mutant: a key whose home is the gap stays. *)
MoveBackStrict(k, gap, j) ==
  \/ j > gap /\ (k < gap \/ k > j)
  \/ j < gap /\ (k < gap /\ k > j)

(* k is the natural slot of the key in slot j. *)
MoveBack(k, gap, j) ==
  \/ j > gap /\ (k <= gap \/ k > j)
  \/ j < gap /\ (k <= gap /\ k > j)

(* One round of the loop, at slot j.  Without an empty slot beside the gap *)
(* it does not end; here it ends after one turn of the table.              *)
ShiftBack(st, n, j) ==
  IF st.stop \/ st.m[j] = NoPtr THEN [st EXCEPT !.stop = TRUE]
  ELSE IF MoveBack(Home(st.m[j], n), st.gap, j)
  THEN [m |-> [st.m EXCEPT ![st.gap] = st.m[j], ![j] = NoPtr], gap |-> j, stop |-> FALSE]
  ELSE st

Removed(m, n, k) ==
  LET i == SlotOf(m, n, k) IN
  FoldLeft(LAMBDA st, d : ShiftBack(st, n, (i + d) % n),
           [m |-> [m EXCEPT ![i] = NoPtr], gap |-> i, stop |-> FALSE],
           [d \in 1 .. n - 1 |-> d]).m

-----------------------------------------------------------------------------
(* Every variable keeps to its type; a table never falls below the initial *)
(* capacity.                                                               *)
PtrMapTypeOK ==
  /\ ptr_map # NoPtr =>
       /\ ptr_map_cap >= PTR_MAP_INIT_CAP
       /\ ptr_map \in [0 .. ptr_map_cap - 1 -> Pointer \cup {NoPtr}]
  /\ ptr_map_cap \in Nat /\ ptr_map_size \in Nat /\ heap_list \in Seq(Pointer)
  /\ map_phase \in {"run", "shrink", "exit", "crash"}

(* Every probe loop ends: an allocated table has an empty slot. *)
ProbesEnd ==
  ptr_map # NoPtr => \E p \in 0 .. ptr_map_cap - 1 : ptr_map[p] = NoPtr

(* find_gc_header finds exactly the blocks of the heap list, however the   *)
(* table was grown, refilled and shrunk, and whatever pointers collide.    *)
LookupExact ==
  map_phase = "run" =>
    /\ \A k \in Pointer : PtrMapLookup(k) = IF k \in ToSet(heap_list) THEN k ELSE NoPtr
    /\ ptr_map_size = Len(heap_list)

(* Deleting a key by backward shift leaves every other key findable. *)
RemoveExact ==
  map_phase = "run" /\ ptr_map # NoPtr =>
    \A k \in ToSet(heap_list) :
      LET m == Removed(ptr_map, ptr_map_cap, k) IN
      \A x \in Pointer :
        m[SlotOf(m, ptr_map_cap, x)] = IF x \in ToSet(heap_list) \ {k} THEN x ELSE NoPtr

(* The pointer map finds exactly the blocks of the heap list, and deleting *)
(* a key by backward shift leaves every other one findable.                *)
PointerMapExact == PtrMapTypeOK /\ LookupExact /\ RemoveExact
=============================================================================
