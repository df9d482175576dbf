---------------------------- MODULE MCStructures ----------------------------
(* The data structures of the runtime for TLC: a behaviour is the life of  *)
(* the task lists, of the pointer map, of a chunk table or of a collection.*)
(* The others keep their first state.                                      *)
EXTENDS TaskLists, PtrMap, ChunkTable, Collections, TLC

VARIABLE part  \* the structure that lives

(* Heap lists of up to three disjoint blocks: one inside a chunk, one that *)
(* ends at a chunk boundary, ones over two and three chunks and an empty   *)
(* payload.                                                                *)
Block(b, n) == [base |-> b, size |-> n]
Pool == {Block(0, 2), Block(2, 2), Block(1, 4), Block(5, 8), Block(13, 3),
         Block(16, 1), Block(20, 0)}
Disjoint(x, y) == x.base + x.size <= y.base \/ y.base + y.size <= x.base
AllLayouts ==
  {s \in UNION {[1 .. n -> Pool] : n \in 1 .. 3} :
     \A i, j \in DOMAIN s : i # j => Disjoint(s[i], s[j])}

(* A hash under which neighbouring chunks share buckets. *)
Spread(id) == 5 * id

(* Keys that collide in one or two groups, around the end of the table. *)
Collisions ==
  LET f(s) == [k \in Key |-> s[IndexFirstSubSeq(<<k>>, SetToSeq(Key))]] IN
  {f(<<0, 0, 2, 2>>), f(<<15, 2, 15, 0>>)}

MCInit ==
  /\ part \in {"lists", "map", "chunks", "collection"}
  /\ Init
  /\ PtrMapStart /\ (part # "map" => \A k \in Pointer : ptr_hash[k] = 0)
  /\ ChunkStart /\ (part # "chunks" => todo = <<Block(0, 2)>>)
  /\ CollectionStart /\ (part # "collection" => kind = "stack")

MCNext ==
  \/ part = "lists" /\ Operate /\ UNCHANGED <<part, ptrMapVars, chunkVars, collVars>>
  \/ part = "map" /\ PtrMapNext /\ UNCHANGED <<part, vars, chunkVars, collVars>>
  \/ part = "chunks" /\ ChunkNext /\ UNCHANGED <<part, vars, ptrMapVars, collVars>>
  \/ part = "collection" /\ CollectionNext /\ UNCHANGED <<part, vars, ptrMapVars, chunkVars>>

MCSpec == MCInit /\ [][MCNext]_<<part, vars, ptrMapVars, chunkVars, collVars>> /\ Fairness

=============================================================================
