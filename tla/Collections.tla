---------------------------- MODULE Collections ----------------------------
(***************************************************************************)
(* The collections of stdlib/runtime.c behind lists, tuples, dicts, sets,  *)
(* stacks, queues and slices.  A behaviour is the life of one of them.     *)
(* Each is an array with a length; abs is what it stands for: a sequence,  *)
(* a set or a map.                                                         *)
(*                                                                         *)
(* A dict is an open-addressing table with tombstones.  dict_new allocates *)
(* its entries with malloc; for a dict literal that does not escape they   *)
(* are an object of the collector (codegenDictExpr).                       *)
(***************************************************************************)
EXTENDS Integers, Sequences, FiniteSetsExt, SequencesExt

CONSTANTS
  Value, Key,
  HashSpan,    \* 2^64: a hash and its sums with a step are taken modulo it
  Hashes,      \* the functions that dict_hash may be on the keys
  InitCap,     \* first capacity of lists and sets
  DictCap,     \* DICT_INIT_CAP
  DictCaps,    \* it and its doublings, as far as the bound leads
  MaxLen,      \* bound: elements of a collection
  Nil          \* what is in a slot that was never written

(* A capacity is a power of two, so it divides the span of the hash.       *)
ASSUME CollectionsAssumption ==
  /\ InitCap \in Nat \ {0} /\ {HashSpan, MaxLen} \subseteq Nat
  /\ Hashes \subseteq [Key -> 0 .. HashSpan - 1]
  /\ DictCaps \subseteq Nat \ {0} /\ DictCap \in DictCaps
  /\ \A c \in DictCaps :
       /\ HashSpan % c = 0
       /\ 7 * c < 10 * (MaxLen + 1) => 2 * c \in DictCaps
  /\ \E c \in DictCaps : MaxLen <= c

VARIABLES
  kind,    \* "list", "tuple", "set", "stack", "queue" or "dict"
  data,    \* the array, indexed from 0; the entries of a dict
  length,
  front,   \* of a queue
  hash,    \* dict_hash of this execution
  owner,   \* who allocated the entries of a dict: "malloc" or "gc"
  abs,     \* history: the value the collection stands for
  status   \* "run", "exit" after a runtime error, "crash"

collVars == <<kind, data, length, front, hash, owner, abs, status>>

Size(t) == Cardinality(DOMAIN t)
capacity == Size(data)
Array(n, v) == [i \in 0 .. n - 1 |-> v]
Live == 0 .. length - 1
Unused == [state |-> "empty", key |-> Nil, value |-> Nil]

(* A dict literal of n entries: the capacity doubles until it holds them.  *)
LiteralCap(n) == Min({c \in DictCaps : n <= c})

(* The arrays of a new collection; a tuple and a dict literal are made for *)
(* the number of their elements.                                           *)
Fresh(k) ==
  CASE k = "tuple" -> {Array(Max({n, 1}), Nil) : n \in 0 .. MaxLen}
    [] k = "dict"  -> {Array(LiteralCap(n), Unused) : n \in 0 .. MaxLen}
    [] OTHER       -> {Array(InitCap, Nil)}

CollectionStart ==
  /\ kind \in {"list", "tuple", "set", "stack", "queue", "dict"}
  /\ data \in Fresh(kind)
  /\ owner \in {"malloc"} \cup (IF kind = "dict" THEN {"gc"} ELSE {})
  /\ kind = "dict" /\ owner = "malloc" => capacity = DictCap
  /\ hash \in IF kind = "dict" THEN Hashes ELSE {[k \in Key |-> 0]}
  /\ length = 0 /\ front = 0 /\ status = "run"
  /\ abs = IF kind = "set" THEN {} ELSE << >>

Alive(kinds) == status = "run" /\ kind \in kinds
Keep == UNCHANGED <<kind, hash, owner, status>>
Become(d, n, a) == data' = d /\ length' = n /\ abs' = a /\ UNCHANGED front /\ Keep

(* An IndexError, KeyError, StackError or QueueError ends the program. *)
Quit == /\ status' = "exit"
        /\ UNCHANGED <<kind, data, length, front, hash, owner, abs>>

-----------------------------------------------------------------------------
Doubled == [i \in 0 .. 2 * capacity - 1 |-> IF i < capacity THEN data[i] ELSE Nil]
Room == IF length >= capacity THEN Doubled ELSE data

(* list_push, also under tuples, stacks and queues. *)
ListPush(v) ==
  /\ Alive({"list", "tuple", "stack", "queue"}) /\ length < MaxLen
  /\ Become([Room EXCEPT ![length] = v], length + 1, Append(abs, v))

ListSet(i, v) ==
  /\ Alive({"list", "tuple"})
  /\ IF i \in Live THEN Become([data EXCEPT ![i] = v], length, [abs EXCEPT ![i + 1] = v])
     ELSE Quit

Shifted(i) ==
  [j \in DOMAIN data |-> IF i <= j /\ j < length - 1 THEN data[j + 1] ELSE data[j]]

ListRemove(i) ==
  /\ Alive({"list", "tuple"})
  /\ IF i \in Live THEN Become(Shifted(i), length - 1, RemoveAt(abs, i + 1)) ELSE Quit

StackPop ==
  /\ Alive({"stack"})
  /\ IF length = 0 THEN Quit ELSE Become(data, length - 1, Front(abs))

Dequeue ==
  /\ Alive({"queue"})
  /\ IF front >= length THEN Quit
     ELSE front' = front + 1 /\ abs' = Tail(abs) /\ UNCHANGED <<data, length>> /\ Keep

SetFind(v) == {i \in Live : data[i] = v}

SetAdd(v) ==
  /\ Alive({"set"}) /\ (SetFind(v) = {} => length < MaxLen)
  /\ IF SetFind(v) # {} THEN Become(data, length, abs \cup {v})
     ELSE Become([Room EXCEPT ![length] = v], length + 1, abs \cup {v})

(* The last element takes the place of the removed one. *)
SetRemove(v) ==
  /\ Alive({"set"})
  /\ IF SetFind(v) = {} THEN Become(data, length, abs \ {v})
     ELSE Become([data EXCEPT ![Min(SetFind(v))] = data[length - 1]], length - 1, abs \ {v})

(***************************************************************************)
(* Dicts.                                                                  *)
(***************************************************************************)
DictProbe(t, k, i) == ((hash[k] % Size(t)) + i) % Size(t)
Holds(e, k) == e.state = "used" /\ e.key = k

(* Mutant: the first tombstone is taken at once. *)
FindSlotEager(t, k) ==
  LET at(i) == t[DictProbe(t, k, i)]
      stops == {i \in DOMAIN t : at(i).state # "used" \/ Holds(at(i), k)} IN
  IF stops = {} THEN -1 ELSE DictProbe(t, k, Min(stops))

(* dict_find_slot: the slot of the key, else the first tombstone passed,   *)
(* else the empty slot the probing ends at.                                *)
Ends(t, k) ==
  {i \in DOMAIN t : LET e == t[DictProbe(t, k, i)] IN e.state = "empty" \/ Holds(e, k)}
Dead(t, k, last) == {i \in DOMAIN t : i < last /\ t[DictProbe(t, k, i)].state = "deleted"}

FindSlot(t, k) ==
  LET ends == Ends(t, k)
      last == IF ends = {} THEN Size(t) ELSE Min(ends)
      slot == DictProbe(t, k, last)
      dead == Dead(t, k, last) IN
  IF ends # {} /\ Holds(t[slot], k) THEN slot
  ELSE IF dead # {} THEN DictProbe(t, k, Min(dead))
  ELSE IF ends # {} THEN slot ELSE -1

(* The loop over the slots in their order. *)
Slots(t) == [i \in 1 .. Size(t) |-> t[i - 1]]
Entered(t, e) == IF e.state = "used" THEN [t EXCEPT ![FindSlot(t, e.key)] = e] ELSE t
Resized(t) ==
  FoldLeft(LAMBDA u, e : Entered(u, e), Array(2 * Size(t), Unused), Slots(t))

(* DICT_LOAD_MAX is 0.7 *)
Loaded == 10 * (length + 1) > 7 * capacity

(* The table that dict_set looks the key up in. *)
Grown(k) == IF Loaded \/ FindSlot(data, k) = -1 THEN Resized(data) ELSE data

DictSet(k, v) ==
  LET t == Grown(k)  slot == FindSlot(t, k)  new == t[slot].state # "used" IN
  /\ Alive({"dict"}) /\ (k \notin DOMAIN abs => length < MaxLen)
  /\ t = data \/ owner = "malloc"
  /\ Become([t EXCEPT ![slot] = [state |-> "used", key |-> k, value |-> v]],
            IF new THEN length + 1 ELSE length,
            [x \in DOMAIN abs \cup {k} |-> IF x = k THEN v ELSE abs[x]])

(* dict_resize ends with free of the old entries, which for a literal are  *)
(* not malloc's.                                                           *)
FreeForeign(k) ==
  /\ Alive({"dict"}) /\ owner = "gc" /\ Grown(k) # data
  /\ status' = "crash"
  /\ UNCHANGED <<kind, data, length, front, hash, owner, abs>>

(* The sum of hash and step is taken in 64 bits before the modulus. *)
RemoveProbe(k, i) == ((hash[k] + i) % HashSpan) % capacity

DictRemove(k) ==
  LET at(i) == data[RemoveProbe(k, i)]
      ends == {i \in DOMAIN data : at(i).state = "empty" \/ Holds(at(i), k)}
      rest == [x \in DOMAIN abs \ {k} |-> abs[x]] IN
  /\ Alive({"dict"})
  /\ IF ends # {} /\ Holds(at(Min(ends)), k)
     THEN Become([data EXCEPT ![RemoveProbe(k, Min(ends))].state = "deleted"], length - 1, rest)
     ELSE Become(data, length, rest)

DictHas(k) == LET s == FindSlot(data, k) IN s >= 0 /\ data[s].state = "used"

DictGet(k) == Alive({"dict"}) /\ ~DictHas(k) /\ Quit

DictKeys ==
  FoldLeft(LAMBDA keys, e : IF e.state = "used" THEN Append(keys, e.key) ELSE keys,
           << >>, Slots(data))

-----------------------------------------------------------------------------
CollectionNext ==
  \/ \E v \in Value : ListPush(v) \/ SetAdd(v) \/ SetRemove(v)
  \/ \E i \in -1 .. MaxLen : ListRemove(i) \/ \E v \in Value : ListSet(i, v)
  \/ \E k \in Key : DictRemove(k) \/ DictGet(k) \/ FreeForeign(k)
                    \/ \E v \in Value : DictSet(k, v)
  \/ StackPop \/ Dequeue

CollectionSpec == CollectionStart /\ [][CollectionNext]_collVars

-----------------------------------------------------------------------------
(***************************************************************************)
(* Slices: a new list or string of the selected elements.                  *)
(***************************************************************************)
(* The positions a loop from start to stop visits. *)
Stepped(start, stop, step) ==
  IF step > 0 THEN [n \in 1 .. Max({0, (stop - start + step - 1) \div step}) |-> start + (n - 1) * step]
  ELSE [n \in 1 .. Max({0, (start - stop - step - 1) \div (-step)}) |-> start + (n - 1) * step]

(* Mutant: a negative bound is not counted from the end. *)
ClampAtZero(i, len) == Min({Max({0, i}), len})

Clamp(i, len) == Min({Max({0, IF i < 0 THEN i + len ELSE i}), len})

ListSlice(len, start, stop, step) ==
  Stepped(Clamp(start, len), Clamp(stop, len), IF step = 0 THEN 1 ELSE step)

StringSlice(len, start, stop, step) ==
  LET a == IF start < 0 THEN start + len ELSE start
      b == IF stop < 0 THEN stop + len ELSE stop IN
  IF step > 0 THEN Stepped(Clamp(start, len), Clamp(stop, len), step)
  ELSE Stepped(IF a < 0 THEN -1 ELSE Min({a, len - 1}), Max({b, -1}), step)

-----------------------------------------------------------------------------
(* Every array stands for its value: the live part of a list, tuple, stack *)
(* or queue is the sequence of what was put in and not taken out, a set    *)
(* holds each of its elements once, and nothing lies past the capacity.    *)
SequencesAndSetsExact ==
  /\ length <= capacity
  /\ kind \in {"list", "tuple", "stack", "queue"} =>
       abs = [i \in 1 .. length - front |-> data[front + i - 1]]
  /\ kind = "set" => /\ abs = {data[i] : i \in Live}
                     /\ Cardinality(abs) = length

(* A dict is a map, however its keys collide and whatever was deleted: a   *)
(* key is found with its last value exactly when it was set and not        *)
(* removed, and iteration meets every key once.                            *)
DictIsMap ==
  kind = "dict" =>
    /\ \A k \in Key : DictHas(k) <=> k \in DOMAIN abs
    /\ \A k \in DOMAIN abs : data[FindSlot(data, k)].value = abs[k]
    /\ ToSet(DictKeys) = DOMAIN abs /\ Len(DictKeys) = Cardinality(DOMAIN abs)
    /\ length = Cardinality(DOMAIN abs)

(* Every collection stands for its abstract value. *)
CollectionsExact == SequencesAndSetsExact /\ DictIsMap

Increasing(s) == \A i, j \in DOMAIN s : i < j => s[i] < s[j]

(* The positions that a slice selects, by its meaning in Python.           *)
Bound(i, len, step) ==
  LET lowest == IF step > 0 THEN 0 ELSE -1 IN
  Min({Max({lowest, IF i < 0 THEN i + len ELSE i}), len + lowest})
Selected(len, start, stop, step) ==
  LET first == Bound(start, len, step)  limit == Bound(stop, len, step) IN
  {i \in 0 .. len - 1 :
     /\ IF step > 0 THEN first <= i /\ i < limit ELSE i <= first /\ i > limit
     /\ (i - first) % (IF step > 0 THEN step ELSE -step) = 0}

(* The sequence has these positions, each once, in the direction of step.  *)
Selects(s, len, start, stop, step) ==
  /\ ToSet(s) = Selected(len, start, stop, step)
  /\ Increasing(IF step > 0 THEN s ELSE [i \in DOMAIN s |-> -s[i]])

(* Slices select what they select in Python, for bounds on both sides of   *)
(* both ends and steps in both directions.  A list sliced backwards from   *)
(* beyond its end reads the slot behind the last element, and one sliced   *)
(* backwards to before its start misses the first; step 0 is an error for  *)
(* strings and 1 for lists.                                                *)
SlicesSelect ==
  kind = "list" =>
    \A start, stop \in -length - 2 .. length + 2 : \A step \in {-3, -2, -1, 1, 2, 3} :
      /\ Selects(StringSlice(length, start, stop, step), length, start, stop, step)
      /\ step > 0 \/ (start < length /\ stop >= -length) =>
           Selects(ListSlice(length, start, stop, step), length, start, stop, step)
=============================================================================
