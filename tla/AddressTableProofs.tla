-------------------------- MODULE AddressTableProofs --------------------------
(***************************************************************************)
(* Proofs about the two tables of the collector that answer whose object   *)
(* an address is.  PtrMap finds exactly the blocks of the heap list for    *)
(* every number of pointers, every hash and every capacity, and every probe*)
(* loop ends.  ChunkTable holds exactly the entries that were made and not *)
(* lost, so that it resolves every interior pointer.                       *)
(***************************************************************************)
EXTENDS PtrMap, ChunkTable, FiniteInduction

(***************************************************************************)
(* The pointer map.                                                        *)
(***************************************************************************)
Tables(n) == [0 .. n - 1 -> Pointer \cup {NoPtr}]

HashTypes == ptr_hash \in [Pointer -> Nat]

(* The slots that a search for a stored key passes hold other keys. *)
Chain(m, n) ==
  \A k \in Pointer, d \in 0 .. n - 1 :
    m[Probe(k, n, d)] = k => \A e \in 0 .. d - 1 : m[Probe(k, n, e)] \notin {NoPtr, k}

Occupants(m, n) == {m[p] : p \in 0 .. n - 1} \ {NoPtr}

HasGap(m, n) == \E p \in 0 .. n - 1 : m[p] = NoPtr

IsTable(m, n) == m \in Tables(n) /\ Chain(m, n)

(* Doublings of the initial capacity. *)
Doubles(S) == PTR_MAP_INIT_CAP \in S /\ \A c \in S : 2 * c \in S
Capacities == {c \in Nat : \A S \in SUBSET Nat : Doubles(S) => c \in S}

(* What holds of an allocated table. *)
TableInv ==
  ptr_map # NoPtr =>
    /\ ptr_map_cap \in Capacities /\ ptr_map_cap <= MaxMapCap
    /\ Chain(ptr_map, ptr_map_cap)
    /\ Occupants(ptr_map, ptr_map_cap) = ToSet(heap_list)
    /\ ptr_map_size < ptr_map_cap

Distinct(s) == \A i, j \in DOMAIN s : s[i] = s[j] => i = j

HeapInv ==
  /\ ptr_map_size = Len(heap_list)
  /\ Distinct(heap_list)
  /\ ptr_map = NoPtr /\ map_phase \in {"run", "shrink"} => heap_list = << >>

PtrMapInv == PtrMapTypeOK /\ HashTypes /\ TableInv /\ HeapInv

(***************************************************************************)
(* Slots.  i places after h, at most one turn of the table.                *)
(***************************************************************************)
Slot(h, i, n) == IF h + i < n THEN h + i ELSE h + i - n

LEMMA HomeType ==
  ASSUME HashTypes, NEW n \in Nat \ {0}, NEW k \in Pointer
  PROVE  Home(k, n) \in 0 .. n - 1
<1>1. ptr_hash[k] \in Nat
  BY DEF HashTypes
<1> QED
  BY <1>1 DEF Home

LEMMA ModSlot ==
  ASSUME NEW n \in Nat \ {0}, NEW h \in 0 .. n - 1, NEW i \in 0 .. n - 1
  PROVE  (h + i) % n = Slot(h, i, n) /\ Slot(h, i, n) \in 0 .. n - 1
BY DEF Slot

LEMMA ProbeSlot ==
  ASSUME HashTypes, NEW n \in Nat \ {0}, NEW k \in Pointer, NEW i \in 0 .. n - 1
  PROVE  Probe(k, n, i) = Slot(Home(k, n), i, n) /\ Probe(k, n, i) \in 0 .. n - 1
BY HomeType, ModSlot DEF Probe

(* A search meets every slot once. *)
LEMMA ProbeMeets ==
  ASSUME HashTypes, NEW n \in Nat \ {0}, NEW k \in Pointer, NEW p \in 0 .. n - 1
  PROVE  \E i \in 0 .. n - 1 : Probe(k, n, i) = p
<1> DEFINE h == Home(k, n)
           i == IF h <= p THEN p - h ELSE p - h + n
<1>1. h \in 0 .. n - 1
  BY HomeType
<1> HIDE DEF h
<1>2. i \in 0 .. n - 1 /\ Slot(h, i, n) = p
  BY <1>1 DEF Slot
<1> HIDE DEF i
<1> QED
  BY <1>2, ProbeSlot DEF h

LEMMA ProbeOnce ==
  ASSUME HashTypes, NEW n \in Nat \ {0}, NEW k \in Pointer,
         NEW i \in 0 .. n - 1, NEW j \in 0 .. n - 1, Probe(k, n, i) = Probe(k, n, j)
  PROVE  i = j
<1> DEFINE h == Home(k, n)
<1>1. h \in 0 .. n - 1
  BY HomeType
<1>2. Slot(h, i, n) = Slot(h, j, n)
  BY ProbeSlot
<1> HIDE DEF h
<1> QED
  BY <1>1, <1>2 DEF Slot

(* A key of the table is in one slot. *)
LEMMA OneSlot ==
  ASSUME HashTypes, NEW n \in Nat \ {0}, NEW m, IsTable(m, n),
         NEW p \in 0 .. n - 1, NEW q \in 0 .. n - 1, m[p] = m[q], m[p] # NoPtr
  PROVE  p = q
<1> DEFINE k == m[p]
<1>1. k \in Pointer /\ m[q] = k
  BY DEF IsTable, Tables
<1> HIDE DEF k
<1>2. PICK i \in 0 .. n - 1 : Probe(k, n, i) = p
  BY <1>1, ProbeMeets
<1>3. PICK j \in 0 .. n - 1 : Probe(k, n, j) = q
  BY <1>1, ProbeMeets
<1>4. m[Probe(k, n, i)] = k /\ m[Probe(k, n, j)] = k
  BY <1>1, <1>2, <1>3 DEF k
<1>5. ~ (i < j) /\ ~ (j < i)
  BY <1>1, <1>4 DEF IsTable, Chain
<1>6. i = j
  BY <1>5
<1> QED
  BY <1>2, <1>3, <1>6

(***************************************************************************)
(* The search.                                                             *)
(***************************************************************************)
LEMMA MinIs ==
  ASSUME NEW S, S \subseteq Nat, NEW d \in S, \A e \in S : d <= e
  PROVE  Min(S) = d
<1>1. Min(S) \in S /\ \A e \in S : Min(S) <= e
  BY DEF Min
<1> HIDE DEF Min
<1>2. Min(S) <= d /\ d <= Min(S) /\ Min(S) \in Nat /\ d \in Nat
  BY <1>1
<1> QED
  BY <1>2

(* It stops at the first slot that is empty or holds the key ... *)
LEMMA FirstStop ==
  ASSUME HashTypes, NEW n \in Nat \ {0}, NEW k \in Pointer, NEW m \in Tables(n), HasGap(m, n)
  PROVE  \E d \in 0 .. n - 1 :
           /\ SlotOf(m, n, k) = Probe(k, n, d)
           /\ m[Probe(k, n, d)] \in {NoPtr, k}
           /\ \A e \in 0 .. d - 1 : m[Probe(k, n, e)] \notin {NoPtr, k}
<1> DEFINE S == Stops(m, n, k)
<1>1. PICK p \in 0 .. n - 1 : m[p] = NoPtr
  BY DEF HasGap
<1>2. PICK i \in 0 .. n - 1 : Probe(k, n, i) = p
  BY ProbeMeets
<1>3. i \in S /\ S \subseteq Nat
  BY <1>1, <1>2 DEF Stops
<1>4. PICK d \in S : \A e \in S : d <= e
  <2> HIDE DEF S
  <2> QED
    BY <1>3, LeastElement
<1>5. Min(S) = d
  <2> HIDE DEF S
  <2> QED
    BY <1>3, <1>4, MinIs
<1>6. d \in 0 .. n - 1 /\ m[Probe(k, n, d)] \in {NoPtr, k}
  BY <1>4 DEF Stops
<1>7. \A e \in 0 .. d - 1 : e \in 0 .. n - 1 /\ ~ (d <= e)
  BY <1>6
<1>8. \A e \in 0 .. d - 1 : m[Probe(k, n, e)] \notin {NoPtr, k}
  BY <1>4, <1>7 DEF Stops
<1> QED
  BY <1>5, <1>6, <1>8 DEF SlotOf

(* ... which is its own slot for a stored key and an empty one for others. *)
LEMMA SearchFinds ==
  ASSUME HashTypes, NEW n \in Nat \ {0}, NEW k \in Pointer, NEW m, IsTable(m, n), HasGap(m, n)
  PROVE  /\ SlotOf(m, n, k) \in 0 .. n - 1
         /\ m[SlotOf(m, n, k)] = IF k \in Occupants(m, n) THEN k ELSE NoPtr
<1>0. m \in Tables(n)
  BY DEF IsTable
<1>1. PICK d \in 0 .. n - 1 :
           /\ SlotOf(m, n, k) = Probe(k, n, d)
           /\ m[Probe(k, n, d)] \in {NoPtr, k}
           /\ \A e \in 0 .. d - 1 : m[Probe(k, n, e)] \notin {NoPtr, k}
  BY <1>0, FirstStop
<1>2. Probe(k, n, d) \in 0 .. n - 1
  BY ProbeSlot
<1>3. NoPtr # k
  BY PtrMapAssumption
<1>4. CASE k \notin Occupants(m, n)
  BY <1>1, <1>2, <1>3, <1>4 DEF Occupants
<1>5. CASE k \in Occupants(m, n)
  <2>1. PICK p \in 0 .. n - 1 : m[p] = k
    BY <1>5 DEF Occupants
  <2>2. PICK i \in 0 .. n - 1 : Probe(k, n, i) = p
    BY ProbeMeets
  <2>3. \A e \in 0 .. i - 1 : m[Probe(k, n, e)] \notin {NoPtr, k}
    BY <2>1, <2>2 DEF IsTable, Chain
  <2>4. ~ (d < i) /\ ~ (i < d)
    BY <1>1, <2>1, <2>2, <2>3
  <2>5. d = i
    BY <2>4
  <2> QED
    BY <1>1, <1>2, <1>5, <2>1, <2>2, <2>5
<1> QED
  BY <1>4, <1>5

(***************************************************************************)
(* Storing a key that the table does not hold.                             *)
(***************************************************************************)
LEMMA PlaceType ==
  ASSUME NEW n, NEW m \in Tables(n), NEW k \in Pointer
  PROVE  Place(m, n, k) \in Tables(n)
BY DEF Place, Tables

LEMMA PlaceStores ==
  ASSUME HashTypes, NEW n \in Nat \ {0}, NEW k \in Pointer, NEW m,
         IsTable(m, n), HasGap(m, n), k \notin Occupants(m, n)
  PROVE  /\ IsTable(Place(m, n, k), n)
         /\ Occupants(Place(m, n, k), n) = Occupants(m, n) \cup {k}
<1> DEFINE w == Place(m, n, k)
           p == SlotOf(m, n, k)
<1>0. m \in Tables(n) /\ w \in Tables(n) /\ NoPtr # k
  BY PlaceType, PtrMapAssumption DEF IsTable
<1>1. PICK d \in 0 .. n - 1 :
           /\ p = Probe(k, n, d)
           /\ m[Probe(k, n, d)] \in {NoPtr, k}
           /\ \A e \in 0 .. d - 1 : m[Probe(k, n, e)] \notin {NoPtr, k}
  BY <1>0, FirstStop
<1>2. p \in 0 .. n - 1 /\ m[p] = NoPtr
  BY SearchFinds
<1>3. w[p] = k /\ \A q \in 0 .. n - 1 : q # p => w[q] = m[q]
  BY <1>0, <1>2 DEF Place, Tables
<1> HIDE DEF p, w
<1>4. \A q \in 0 .. n - 1 : m[q] # k
  BY <1>0 DEF Occupants
<1>5. Occupants(w, n) = Occupants(m, n) \cup {k}
  BY <1>0, <1>2, <1>3 DEF Occupants
<1>6. ASSUME NEW x \in Pointer, NEW i \in 0 .. n - 1, w[Probe(x, n, i)] = x,
             NEW e \in 0 .. i - 1
      PROVE  w[Probe(x, n, e)] \notin {NoPtr, x}
  <2>1. e \in 0 .. n - 1
    OBVIOUS
  <2>2. Probe(x, n, i) \in 0 .. n - 1 /\ Probe(x, n, e) \in 0 .. n - 1
    BY <2>1, ProbeSlot
  <2>3. CASE x = k
    <3>1. Probe(x, n, i) = p
      BY <1>3, <1>4, <1>6, <2>2, <2>3
    <3>2. i = d
      BY <1>1, <2>3, <3>1, ProbeOnce
    <3>3. m[Probe(x, n, e)] \notin {NoPtr, x}
      BY <1>1, <2>3, <3>2
    <3>4. Probe(x, n, e) # p
      BY <1>2, <3>3
    <3> QED
      BY <1>3, <2>2, <3>3, <3>4
  <2>4. CASE x # k
    <3>1. Probe(x, n, i) # p /\ m[Probe(x, n, i)] = x
      BY <1>3, <1>6, <2>2, <2>4
    <3>2. m[Probe(x, n, e)] \notin {NoPtr, x}
      BY <3>1 DEF IsTable, Chain
    <3>3. Probe(x, n, e) # p
      BY <1>2, <3>2
    <3> QED
      BY <1>3, <2>2, <3>2, <3>3
  <2> QED
    BY <2>3, <2>4
<1>7. Chain(w, n)
  BY <1>6 DEF Chain
<1> QED
  BY <1>0, <1>5, <1>7 DEF IsTable, w

LEMMA EmptyIsTable ==
  ASSUME HashTypes, NEW n \in Nat \ {0}
  PROVE  IsTable(EmptyTable(n), n) /\ Occupants(EmptyTable(n), n) = {}
<1>1. EmptyTable(n) \in Tables(n) /\ \A p \in 0 .. n - 1 : EmptyTable(n)[p] = NoPtr
  BY DEF EmptyTable, Tables
<1> HIDE DEF EmptyTable
<1>2. \A k \in Pointer, d \in 0 .. n - 1 : EmptyTable(n)[Probe(k, n, d)] # k
  BY <1>1, ProbeSlot, PtrMapAssumption
<1> QED
  BY <1>1, <1>2 DEF IsTable, Chain, Occupants

(* A table that holds fewer keys than it has slots has an empty one. *)
LEMMA GapRemains ==
  ASSUME NEW n \in Nat \ {0}, NEW m, m \in Tables(n), NEW H, IsFiniteSet(H), Cardinality(H) < n,
         Occupants(m, n) \subseteq H,
         \A p, q \in 0 .. n - 1 : m[p] = m[q] /\ m[p] # NoPtr => p = q
  PROVE  HasGap(m, n)
<1>1. SUFFICES ASSUME \A p \in 0 .. n - 1 : m[p] # NoPtr PROVE FALSE
  BY DEF HasGap
<1>2. \A p \in 0 .. n - 1 : m[p] \in H
  BY <1>1 DEF Occupants
<1>3. IsFiniteSet(0 .. n - 1) /\ Cardinality(0 .. n - 1) = n
  <2>1. 0 \in Int /\ n - 1 \in Int
    OBVIOUS
  <2> QED
    BY <2>1, FS_Interval
<1>4. m \in [0 .. n - 1 -> H]
  BY <1>2 DEF Tables
<1>5. Cardinality(H) < Cardinality(0 .. n - 1)
  BY <1>3
<1>6. \E p, q \in 0 .. n - 1 : p # q /\ m[p] = m[q]
  BY <1>3, <1>4, <1>5, FS_PigeonHole
<1> QED
  BY <1>1, <1>6

(***************************************************************************)
(* Refilling a table.                                                      *)
(***************************************************************************)
Stored(m, n, k) == IF k = NoPtr THEN m ELSE Place(m, n, k)

(* The fold takes the keys one by one. *)
LEMMA RehashUnrolls ==
  ASSUME NEW n \in Nat \ {0}, NEW keys \in Seq(Pointer \cup {NoPtr})
  PROVE  \E R : /\ R[0] = EmptyTable(n)
                /\ \A i \in 1 .. Len(keys) : R[i] = Stored(R[i - 1], n, keys[i])
                /\ Rehash(keys, n) = R[Len(keys)]
<1> DEFINE N == Len(keys)
           Op(s, it) == IF s = {} THEN EmptyTable(n)
                        ELSE Stored(it[s \ {Max(s)}], n, keys[Max(s)])
           Iter == CHOOSE it : it = [s \in SUBSET (1 .. N) |-> Op(s, it)]
<1>1. N \in Nat /\ DOMAIN keys = 1 .. N
  OBVIOUS
<1>2. Rehash(keys, n) = Iter[1 .. N]
  BY <1>1 DEF Rehash, FoldLeft, MapThenFoldSet, Stored
<1>3. \E it : it = [s \in SUBSET (1 .. N) |-> Op(s, it)]
  <2> DEFINE step == [x \in (1 .. N) \X Tables(n) |-> Stored(x[2], n, keys[x[1]])]
  <2>1. EmptyTable(n) \in Tables(n)
    BY DEF EmptyTable, Tables
  <2>2. step \in [(1 .. N) \X Tables(n) -> Tables(n)]
    <3> SUFFICES ASSUME NEW x \in (1 .. N) \X Tables(n) PROVE Stored(x[2], n, keys[x[1]]) \in Tables(n)
      OBVIOUS
    <3> QED
      BY PlaceType DEF Stored
  <2> HIDE DEF N
  <2>3. \A j \in 1 .. N, m \in Tables(n) : step[<<j, m>>] = Stored(m, n, keys[j])
    OBVIOUS
  <2> HIDE DEF step
  <2>4. PICK F \in [SUBSET (1 .. N) -> Tables(n)] : IsFold(F, N, EmptyTable(n), step)
    BY <1>1, <2>1, <2>2, FoldsExist
  <2>5. \A s \in SUBSET (1 .. N) : F[s] = Op(s, F)
    <3> TAKE s \in SUBSET (1 .. N)
    <3>1. CASE s # {}
      <4>1. Max(s) \in 1 .. N /\ s \ {Max(s)} \in SUBSET (1 .. N)
        <5>0. IsFiniteSet(1 .. N) /\ 1 .. N \subseteq Int
          BY <1>1, FS_Interval
        <5>1. s \subseteq Int /\ IsFiniteSet(s)
          BY <5>0, FS_Subset
        <5> QED
          BY <3>1, <5>1, MaxOf
      <4>2. F[s \ {Max(s)}] \in Tables(n)
        BY <4>1
      <4> QED
        BY <2>3, <2>4, <3>1, <4>1, <4>2 DEF IsFold
    <3>2. CASE s = {}
      BY <2>4, <3>2 DEF IsFold
    <3> QED
      BY <3>1, <3>2
  <2> HIDE DEF Op
  <2>6. F = [s \in SUBSET (1 .. N) |-> Op(s, F)]
    BY <2>5
  <2> QED
    BY <2>6
<1>4. Iter = [s \in SUBSET (1 .. N) |-> Op(s, Iter)]
  <2> HIDE DEF Op
  <2> QED
    BY <1>3
<1> HIDE DEF Iter, N
<1>5. \A s \in SUBSET (1 .. N) : Iter[s] = Op(s, Iter)
  <2> HIDE DEF Op
  <2> QED
    BY <1>4
<1> DEFINE R == [i \in 0 .. N |-> Iter[1 .. i]]
<1>6. R[0] = EmptyTable(n)
  <2>1. 1 .. 0 = {} /\ 0 \in 0 .. N
    BY <1>1
  <2> QED
    BY <1>5, <2>1
<1>7. ASSUME NEW i \in 1 .. N PROVE R[i] = Stored(R[i - 1], n, keys[i])
  <2>1. Max(1 .. i) = i /\ (1 .. i) \ {i} = 1 .. i - 1 /\ 1 .. i # {} /\ 1 .. i \in SUBSET (1 .. N)
    BY <1>1, FoldPrefix
  <2>2. Iter[1 .. i] = Stored(Iter[1 .. i - 1], n, keys[i])
    BY <1>5, <2>1
  <2>3. i \in 0 .. N /\ i - 1 \in 0 .. N
    BY <1>1
  <2> QED
    BY <2>2, <2>3
<1>8. R[N] = Iter[1 .. N]
  BY <1>1
<1> HIDE DEF R
<1> QED
  BY <1>2, <1>6, <1>7, <1>8 DEF N

(* Every key is stored when fewer keys than slots are. *)
LEMMA RehashStores ==
  ASSUME HashTypes, NEW n \in Nat \ {0}, NEW keys \in Seq(Pointer \cup {NoPtr}),
         \A i, j \in DOMAIN keys : keys[i] = keys[j] /\ keys[i] # NoPtr => i = j,
         NEW H, IsFiniteSet(H), Cardinality(H) < n, ToSet(keys) \ {NoPtr} \subseteq H
  PROVE  /\ IsTable(Rehash(keys, n), n)
         /\ Occupants(Rehash(keys, n), n) = ToSet(keys) \ {NoPtr}
<1> DEFINE N == Len(keys)
<1>1. N \in Nat /\ DOMAIN keys = 1 .. N /\ \A i \in 1 .. N : keys[i] \in Pointer \cup {NoPtr}
  OBVIOUS
<1>2. PICK R : /\ R[0] = EmptyTable(n)
               /\ \A i \in 1 .. N : R[i] = Stored(R[i - 1], n, keys[i])
               /\ Rehash(keys, n) = R[N]
  BY RehashUnrolls
<1> DEFINE Upto(i) == {keys[j] : j \in 1 .. i} \ {NoPtr}
           Good(i) == IsTable(R[i], n) /\ Occupants(R[i], n) = Upto(i)
           C == {i \in 0 .. N : ~ Good(i)}
<1> HIDE DEF N
<1>3. C = {}
  <2>1. SUFFICES ASSUME C # {} PROVE FALSE
    OBVIOUS
  <2>2. PICK i \in C : \A k \in C : i <= k
    <3>1. C \subseteq Nat
      BY <1>1
    <3> HIDE DEF C
    <3> QED
      BY <2>1, <3>1, LeastElement
  <2>3. i \in 0 .. N /\ ~ Good(i)
    OBVIOUS
  <2> HIDE DEF C
  <2>4. CASE i = 0
    <3>1. Upto(0) = {}
      OBVIOUS
    <3> QED
      BY <1>2, <2>3, <2>4, <3>1, EmptyIsTable
  <2>5. CASE i # 0
    <3>1. i \in 1 .. N /\ i - 1 \in 0 .. N /\ ~ (i <= i - 1)
      BY <1>1, <2>3, <2>5
    <3>2. Good(i - 1)
      BY <2>2, <3>1 DEF C
    <3>3. R[i] = Stored(R[i - 1], n, keys[i])
      BY <1>2, <3>1
    <3>4. Upto(i) = Upto(i - 1) \cup ({keys[i]} \ {NoPtr})
      <4>1. 1 .. i = (1 .. i - 1) \cup {i}
        BY <3>1
      <4> QED
        BY <4>1
    <3>5. CASE keys[i] = NoPtr
      BY <2>3, <3>2, <3>3, <3>4, <3>5 DEF Stored
    <3>6. CASE keys[i] # NoPtr
      <4>1. keys[i] \in Pointer
        BY <1>1, <3>1, <3>6
      <4>2. keys[i] \notin Upto(i - 1)
        <5>1. \A j \in 1 .. i - 1 : j \in DOMAIN keys /\ i \in DOMAIN keys /\ j # i
          BY <1>1, <3>1
        <5> QED
          BY <3>6, <5>1
      <4>3. Upto(i - 1) \subseteq H
        <5>1. \A j \in 1 .. i - 1 : j \in DOMAIN keys
          BY <1>1, <3>1
        <5> QED
          BY <5>1 DEF ToSet
      <4>4. R[i - 1] \in Tables(n) /\ Occupants(R[i - 1], n) \subseteq H
        BY <3>2, <4>3 DEF IsTable
      <4>5. \A p, q \in 0 .. n - 1 : R[i - 1][p] = R[i - 1][q] /\ R[i - 1][p] # NoPtr => p = q
        BY <3>2, OneSlot
      <4>6. HasGap(R[i - 1], n)
        BY <4>4, <4>5, GapRemains
      <4>7. R[i] = Place(R[i - 1], n, keys[i])
        BY <3>3, <3>6 DEF Stored
      <4>8. {keys[i]} \ {NoPtr} = {keys[i]}
        BY <3>6
      <4> HIDE DEF Upto
      <4> QED
        BY <2>3, <3>2, <3>4, <4>1, <4>2, <4>6, <4>7, <4>8, PlaceStores
    <3> QED
      BY <3>5, <3>6
  <2> QED
    BY <2>4, <2>5
<1>4. Good(N)
  <2>1. N \in 0 .. N
    BY <1>1
  <2> QED
    BY <1>3, <2>1
<1>5. Upto(N) = ToSet(keys) \ {NoPtr}
  BY <1>1 DEF ToSet
<1> QED
  BY <1>2, <1>4, <1>5

(***************************************************************************)
(* Sweeping the heap list.                                                 *)
(***************************************************************************)
Kept(s, S, k) == IF k \in S THEN Append(s, k) ELSE s

LEMMA SurvivorsUnroll ==
  ASSUME NEW S, heap_list \in Seq(Pointer)
  PROVE  \E R : /\ R[0] = << >>
                /\ \A i \in 1 .. Len(heap_list) : R[i] = Kept(R[i - 1], S, heap_list[i])
                /\ Survivors(S) = R[Len(heap_list)]
<1> DEFINE N == Len(heap_list)
           Op(s, it) == IF s = {} THEN << >>
                        ELSE Kept(it[s \ {Max(s)}], S, heap_list[Max(s)])
           Iter == CHOOSE it : it = [s \in SUBSET (1 .. N) |-> Op(s, it)]
<1>1. N \in Nat /\ DOMAIN heap_list = 1 .. N
  OBVIOUS
<1>2. Survivors(S) = Iter[1 .. N]
  BY <1>1 DEF Survivors, FoldLeft, MapThenFoldSet, Kept
<1>3. \E it : it = [s \in SUBSET (1 .. N) |-> Op(s, it)]
  <2> DEFINE step == [x \in (1 .. N) \X Seq(Pointer) |-> Kept(x[2], S, heap_list[x[1]])]
  <2>1. << >> \in Seq(Pointer)
    OBVIOUS
  <2>2. step \in [(1 .. N) \X Seq(Pointer) -> Seq(Pointer)]
    <3> SUFFICES ASSUME NEW x \in (1 .. N) \X Seq(Pointer)
                 PROVE  Kept(x[2], S, heap_list[x[1]]) \in Seq(Pointer)
      OBVIOUS
    <3>1. x[2] \in Seq(Pointer) /\ heap_list[x[1]] \in Pointer
      OBVIOUS
    <3> QED
      BY <3>1 DEF Kept
  <2> HIDE DEF N
  <2>3. \A j \in 1 .. N, m \in Seq(Pointer) : step[<<j, m>>] = Kept(m, S, heap_list[j])
    OBVIOUS
  <2> HIDE DEF step
  <2>4. PICK F \in [SUBSET (1 .. N) -> Seq(Pointer)] : IsFold(F, N, << >>, step)
    BY <1>1, <2>1, <2>2, FoldsExist
  <2>5. \A s \in SUBSET (1 .. N) : F[s] = Op(s, F)
    <3> TAKE s \in SUBSET (1 .. N)
    <3>1. CASE s # {}
      <4>1. Max(s) \in 1 .. N /\ s \ {Max(s)} \in SUBSET (1 .. N)
        <5>0. IsFiniteSet(1 .. N) /\ 1 .. N \subseteq Int
          BY <1>1, FS_Interval
        <5>1. s \subseteq Int /\ IsFiniteSet(s)
          BY <5>0, FS_Subset
        <5> QED
          BY <3>1, <5>1, MaxOf
      <4>2. F[s \ {Max(s)}] \in Seq(Pointer)
        BY <4>1
      <4> QED
        BY <2>3, <2>4, <3>1, <4>1, <4>2 DEF IsFold
    <3>2. CASE s = {}
      BY <2>4, <3>2 DEF IsFold
    <3> QED
      BY <3>1, <3>2
  <2> HIDE DEF Op
  <2>6. F = [s \in SUBSET (1 .. N) |-> Op(s, F)]
    BY <2>5
  <2> QED
    BY <2>6
<1>4. Iter = [s \in SUBSET (1 .. N) |-> Op(s, Iter)]
  <2> HIDE DEF Op
  <2> QED
    BY <1>3
<1> HIDE DEF Iter, N
<1>5. \A s \in SUBSET (1 .. N) : Iter[s] = Op(s, Iter)
  <2> HIDE DEF Op
  <2> QED
    BY <1>4
<1> DEFINE R == [i \in 0 .. N |-> Iter[1 .. i]]
<1>6. R[0] = << >>
  <2>1. 1 .. 0 = {} /\ 0 \in 0 .. N
    BY <1>1
  <2> QED
    BY <1>5, <2>1
<1>7. ASSUME NEW i \in 1 .. N PROVE R[i] = Kept(R[i - 1], S, heap_list[i])
  <2>1. Max(1 .. i) = i /\ (1 .. i) \ {i} = 1 .. i - 1 /\ 1 .. i # {} /\ 1 .. i \in SUBSET (1 .. N)
    BY <1>1, FoldPrefix
  <2>2. Iter[1 .. i] = Kept(Iter[1 .. i - 1], S, heap_list[i])
    BY <1>5, <2>1
  <2>3. i \in 0 .. N /\ i - 1 \in 0 .. N
    BY <1>1
  <2> QED
    BY <2>2, <2>3
<1>8. R[N] = Iter[1 .. N]
  BY <1>1
<1> HIDE DEF R
<1> QED
  BY <1>2, <1>6, <1>7, <1>8 DEF N

(* The blocks of S stay, each once. *)
LEMMA SurvivorsAre ==
  ASSUME NEW S, heap_list \in Seq(Pointer), Distinct(heap_list), S \subseteq ToSet(heap_list)
  PROVE  /\ Survivors(S) \in Seq(Pointer) /\ Distinct(Survivors(S))
         /\ ToSet(Survivors(S)) = S /\ Len(Survivors(S)) <= Len(heap_list)
<1> DEFINE N == Len(heap_list)
<1>1. N \in Nat /\ DOMAIN heap_list = 1 .. N /\ \A i \in 1 .. N : heap_list[i] \in Pointer
  OBVIOUS
<1>2. PICK R : /\ R[0] = << >>
               /\ \A i \in 1 .. N : R[i] = Kept(R[i - 1], S, heap_list[i])
               /\ Survivors(S) = R[N]
  BY SurvivorsUnroll
<1> DEFINE Upto(i) == {heap_list[j] : j \in 1 .. i} \cap S
           Good(i) == /\ R[i] \in Seq(Pointer) /\ Distinct(R[i])
                      /\ ToSet(R[i]) = Upto(i) /\ Len(R[i]) <= i
           C == {i \in 0 .. N : ~ Good(i)}
<1> HIDE DEF N
<1>3. C = {}
  <2>1. SUFFICES ASSUME C # {} PROVE FALSE
    OBVIOUS
  <2>2. PICK i \in C : \A k \in C : i <= k
    <3>1. C \subseteq Nat
      BY <1>1
    <3> HIDE DEF C
    <3> QED
      BY <2>1, <3>1, LeastElement
  <2>3. i \in 0 .. N /\ ~ Good(i)
    OBVIOUS
  <2> HIDE DEF C
  <2>4. CASE i = 0
    <3>1. Upto(0) = {}
      OBVIOUS
    <3>2. << >> \in Seq(Pointer) /\ Distinct(<< >>) /\ ToSet(<< >>) = {} /\ Len(<< >>) = 0
      BY DEF Distinct, ToSet
    <3> HIDE DEF Upto
    <3>3. Len(R[0]) <= 0
      <4>1. Len(R[0]) = 0
        BY <1>2, <3>2, Zenon
      <4> QED
        BY <4>1
    <3>4. Good(0)
      BY <1>2, <3>1, <3>2, <3>3, Zenon
    <3> QED
      BY <2>3, <2>4, <3>4, Zenon
  <2>5. CASE i # 0
    <3>1. i \in 1 .. N /\ i - 1 \in 0 .. N /\ ~ (i <= i - 1)
      BY <1>1, <2>3, <2>5
    <3>2. Good(i - 1)
      BY <2>2, <3>1 DEF C
    <3> DEFINE k == heap_list[i]
               s == R[i - 1]
    <3>3. R[i] = Kept(s, S, k) /\ k \in Pointer
      BY <1>1, <1>2, <3>1
    <3>4. Upto(i) = Upto(i - 1) \cup ({k} \cap S)
      <4>1. 1 .. i = (1 .. i - 1) \cup {i}
        BY <3>1
      <4> QED
        BY <4>1
    <3>5. CASE k \notin S
      <4>1. {k} \cap S = {}
        BY <3>5
      <4>2. R[i] = s
        BY <3>3, <3>5 DEF Kept
      <4>3. Len(s) <= i - 1 => Len(s) <= i
        BY <3>1, <3>2
      <4> HIDE DEF Upto, k
      <4> QED
        BY <2>3, <3>2, <3>4, <4>1, <4>2, <4>3
    <3>6. CASE k \in S
      <4>1. k \notin Upto(i - 1)
        <5>1. \A j \in 1 .. i - 1 : j \in DOMAIN heap_list /\ i \in DOMAIN heap_list /\ j # i
          BY <1>1, <3>1
        <5> QED
          BY <5>1 DEF Distinct
      <4>2. R[i] = Append(s, k) /\ {k} \cap S = {k}
        BY <3>3, <3>6 DEF Kept
      <4> HIDE DEF Upto, k, s
      <4>3. s \in Seq(Pointer) /\ Distinct(s) /\ ToSet(s) = Upto(i - 1) /\ Len(s) <= i - 1
        BY <3>2 DEF s
      <4>4. /\ Append(s, k) \in Seq(Pointer) /\ Len(Append(s, k)) = Len(s) + 1
            /\ \A j \in 1 .. Len(s) : Append(s, k)[j] = s[j]
            /\ Append(s, k)[Len(s) + 1] = k
            /\ DOMAIN Append(s, k) = 1 .. Len(s) + 1 /\ DOMAIN s = 1 .. Len(s) /\ Len(s) \in Nat
        BY <3>3, <4>3
      <4>5. 1 .. Len(s) + 1 = (1 .. Len(s)) \cup {Len(s) + 1}
        BY <4>4
      <4>6. \A j \in 1 .. Len(s) : s[j] # k
        BY <4>1, <4>3, <4>4 DEF ToSet
      <4>7. Distinct(Append(s, k))
        BY <4>3, <4>4, <4>5, <4>6 DEF Distinct
      <4>8. ToSet(Append(s, k)) = Upto(i - 1) \cup {k}
        BY <4>3, <4>4, <4>5 DEF ToSet
      <4>9. Len(Append(s, k)) <= i
        BY <3>1, <4>3, <4>4
      <4> QED
        BY <2>3, <3>4, <4>2, <4>4, <4>7, <4>8, <4>9
    <3> QED
      BY <3>5, <3>6
  <2> QED
    BY <2>4, <2>5
<1>4. Good(N)
  <2>1. N \in 0 .. N
    BY <1>1
  <2> QED
    BY <1>3, <2>1
<1>5. Upto(N) = S
  BY <1>1 DEF ToSet
<1> QED
  BY <1>2, <1>4, <1>5 DEF N

(***************************************************************************)
(* Capacities and sizes.                                                   *)
(***************************************************************************)
LEMMA CapacityFirst == PTR_MAP_INIT_CAP \in Capacities
BY PtrMapAssumption DEF Capacities, Doubles

LEMMA CapacityDoubles ==
  ASSUME NEW c \in Capacities
  PROVE  2 * c \in Capacities
<1>1. c \in Nat /\ 2 * c \in Nat
  BY DEF Capacities
<1> QED
  BY <1>1 DEF Capacities, Doubles

LEMMA CapacityBound ==
  ASSUME NEW c \in Capacities
  PROVE  c \in Nat /\ c >= PTR_MAP_INIT_CAP /\ c >= 4
<1> DEFINE S == {x \in Nat : x >= PTR_MAP_INIT_CAP}
<1>1. S \in SUBSET Nat /\ PTR_MAP_INIT_CAP \in S
  BY PtrMapAssumption
<1>2. \A x \in S : 2 * x \in S
  BY PtrMapAssumption
<1>3. c \in S
  <2> HIDE DEF S
  <2> QED
    BY <1>1, <1>2 DEF Capacities, Doubles
<1> QED
  BY <1>3, PtrMapAssumption

(* A table that is halved was doubled before. *)
LEMMA CapacityHalves ==
  ASSUME NEW c \in Capacities, c > PTR_MAP_INIT_CAP
  PROVE  c \div 2 \in Capacities /\ c = 2 * (c \div 2)
<1> DEFINE S == {x \in Capacities : x = PTR_MAP_INIT_CAP \/ \E h \in Capacities : x = 2 * h}
<1>1. S \in SUBSET Nat
  BY CapacityBound
<1>2. PTR_MAP_INIT_CAP \in S
  BY CapacityFirst
<1>3. \A x \in S : 2 * x \in S
  BY CapacityDoubles
<1>4. c \in S
  <2> HIDE DEF S
  <2> QED
    BY <1>1, <1>2, <1>3 DEF Capacities, Doubles
<1>5. c # PTR_MAP_INIT_CAP
  BY PtrMapAssumption
<1>6. PICK h \in Capacities : c = 2 * h
  BY <1>4, <1>5
<1>7. h \in Nat
  BY CapacityBound
<1>8. c \div 2 = h
  BY <1>6, <1>7
<1> QED
  BY <1>6, <1>8

(* An allocated table is not NULL. *)
LEMMA TableIsAllocated ==
  ASSUME NEW n \in 1 .. MaxMapCap, NEW m \in Tables(n)
  PROVE  m # NoPtr
BY PtrMapAssumption DEF Tables

(* A list without repetitions has as many members as it is long. *)
LEMMA CountIsLength ==
  ASSUME NEW s \in Seq(Pointer), Distinct(s)
  PROVE  IsFiniteSet(ToSet(s)) /\ Cardinality(ToSet(s)) = Len(s)
<1>1. Len(s) \in Nat /\ DOMAIN s = 1 .. Len(s)
  OBVIOUS
<1>2. s \in Bijection(1 .. Len(s), ToSet(s))
  BY <1>1 DEF Bijection, Injection, Surjection, IsInjective, Distinct, ToSet
<1>3. IsFiniteSet(1 .. Len(s)) /\ Cardinality(1 .. Len(s)) = Len(s)
  <2>1. 1 \in Int /\ Len(s) \in Int
    BY <1>1
  <2>2. (1 > Len(s)) => Len(s) = 0
    BY <1>1
  <2> QED
    BY <1>1, <2>1, <2>2, FS_Interval
<1> QED
  BY <1>2, <1>3, FS_Bijection DEF ExistsBijection

LEMMA EntriesCount ==
  ASSUME HashTypes, NEW n \in Nat \ {0}, NEW m, IsTable(m, n)
  PROVE  Entries(m, n) = Cardinality(Occupants(m, n))
<1> DEFINE P == {p \in 0 .. n - 1 : m[p] # NoPtr}
           f == [p \in P |-> m[p]]
<1>1. \A p, q \in 0 .. n - 1 : m[p] = m[q] /\ m[p] # NoPtr => p = q
  BY OneSlot
<1>2. f \in Bijection(P, Occupants(m, n))
  BY <1>1 DEF Bijection, Injection, Surjection, IsInjective, Occupants
<1>3. IsFiniteSet(P)
  <2>1. IsFiniteSet(0 .. n - 1)
    <3>1. 0 \in Int /\ n - 1 \in Int
      OBVIOUS
    <3> QED
      BY <3>1, FS_Interval
  <2> QED
    BY <2>1, FS_Subset
<1> HIDE DEF f
<1>4. Cardinality(P) = Cardinality(Occupants(m, n))
  <2> HIDE DEF P
  <2> QED
    BY <1>2, <1>3, FS_Bijection DEF ExistsBijection
<1> QED
  BY <1>4 DEF Entries

LEMMA SlotsAreKeys ==
  ASSUME HashTypes, NEW n \in Nat \ {0}, NEW m, IsTable(m, n)
  PROVE  /\ SlotsOf(m, n) \in Seq(Pointer \cup {NoPtr})
         /\ ToSet(SlotsOf(m, n)) \ {NoPtr} = Occupants(m, n)
         /\ \A i, j \in DOMAIN SlotsOf(m, n) :
              SlotsOf(m, n)[i] = SlotsOf(m, n)[j] /\ SlotsOf(m, n)[i] # NoPtr => i = j
<1> DEFINE s == SlotsOf(m, n)
<1>1. DOMAIN s = 1 .. n /\ \A i \in 1 .. n : s[i] = m[i - 1] /\ i - 1 \in 0 .. n - 1
  BY DEF SlotsOf
<1>2. \A i \in 1 .. n : m[i - 1] \in Pointer \cup {NoPtr}
  BY <1>1 DEF IsTable, Tables
<1>3. s \in Seq(Pointer \cup {NoPtr})
  BY <1>2 DEF SlotsOf
<1> HIDE DEF s
<1>4. \A p \in 0 .. n - 1 : p + 1 \in 1 .. n /\ (p + 1) - 1 = p
  OBVIOUS
<1>5. ToSet(s) \ {NoPtr} = Occupants(m, n)
  <2>1. \A p \in 0 .. n - 1 : s[p + 1] = m[p]
    BY <1>1, <1>4
  <2> QED
    BY <1>1, <1>4, <2>1 DEF ToSet, Occupants
<1>6. ASSUME NEW i \in 1 .. n, NEW j \in 1 .. n, s[i] = s[j], s[i] # NoPtr PROVE i = j
  <2>1. i - 1 = j - 1
    BY <1>1, <1>6, OneSlot
  <2> QED
    BY <2>1
<1> QED
  BY <1>1, <1>3, <1>5, <1>6 DEF s

(* The loop over the slots of the old table, in a table with room. *)
LEMMA Refilled ==
  ASSUME PtrMapInv, ptr_map # NoPtr, NEW n \in Nat \ {0}, ptr_map_size < n
  PROVE  /\ IsTable(Rehash(SlotsOf(ptr_map, ptr_map_cap), n), n)
         /\ Occupants(Rehash(SlotsOf(ptr_map, ptr_map_cap), n), n) = ToSet(heap_list)
         /\ Entries(ptr_map, ptr_map_cap) = ptr_map_size
<1> DEFINE keys == SlotsOf(ptr_map, ptr_map_cap)
<1>1. /\ HashTypes /\ ptr_map_cap \in Nat \ {0} /\ IsTable(ptr_map, ptr_map_cap)
      /\ Occupants(ptr_map, ptr_map_cap) = ToSet(heap_list)
      /\ heap_list \in Seq(Pointer) /\ Distinct(heap_list) /\ ptr_map_size = Len(heap_list)
  BY PtrMapAssumption DEF PtrMapInv, PtrMapTypeOK, TableInv, HeapInv, IsTable, Tables
<1>2. IsFiniteSet(ToSet(heap_list)) /\ Cardinality(ToSet(heap_list)) = ptr_map_size
  BY <1>1, CountIsLength
<1>3. /\ keys \in Seq(Pointer \cup {NoPtr}) /\ ToSet(keys) \ {NoPtr} = ToSet(heap_list)
      /\ \A i, j \in DOMAIN keys : keys[i] = keys[j] /\ keys[i] # NoPtr => i = j
  BY <1>1, SlotsAreKeys
<1> HIDE DEF keys
<1>4. /\ IsTable(Rehash(keys, n), n) /\ Occupants(Rehash(keys, n), n) = ToSet(keys) \ {NoPtr}
  BY <1>1, <1>2, <1>3, RehashStores
<1>5. Entries(ptr_map, ptr_map_cap) = ptr_map_size
  BY <1>1, <1>2, EntriesCount
<1> QED
  BY <1>3, <1>4, <1>5 DEF keys

(***************************************************************************)
(* The invariant.                                                          *)
(***************************************************************************)
LEMMA AllocatedTable ==
  ASSUME PtrMapInv, ptr_map # NoPtr
  PROVE  /\ HashTypes /\ ptr_map_cap \in Nat \ {0} /\ IsTable(ptr_map, ptr_map_cap)
         /\ HasGap(ptr_map, ptr_map_cap)
         /\ Occupants(ptr_map, ptr_map_cap) = ToSet(heap_list)
<1>1. /\ HashTypes /\ ptr_map_cap \in Nat \ {0} /\ IsTable(ptr_map, ptr_map_cap)
      /\ Occupants(ptr_map, ptr_map_cap) = ToSet(heap_list)
      /\ heap_list \in Seq(Pointer) /\ Distinct(heap_list) /\ ptr_map_size = Len(heap_list)
      /\ ptr_map_size < ptr_map_cap
  BY PtrMapAssumption DEF PtrMapInv, PtrMapTypeOK, TableInv, HeapInv, IsTable, Tables
<1>2. IsFiniteSet(ToSet(heap_list)) /\ Cardinality(ToSet(heap_list)) = ptr_map_size
  BY <1>1, CountIsLength
<1>3. \A p, q \in 0 .. ptr_map_cap - 1 : ptr_map[p] = ptr_map[q] /\ ptr_map[p] # NoPtr => p = q
  BY <1>1, OneSlot
<1>4. ptr_map \in Tables(ptr_map_cap)
  BY <1>1 DEF IsTable
<1>5. HasGap(ptr_map, ptr_map_cap)
  BY <1>1, <1>2, <1>3, <1>4, GapRemains
<1> QED
  BY <1>1, <1>5

(* A new table is in order when it holds the blocks and has room. *)
LEMMA NewTable ==
  ASSUME HashTypes, ptr_hash' = ptr_hash, NEW n \in Capacities, NEW w,
         ptr_map' = w, ptr_map_cap' = n, n <= MaxMapCap, IsTable(w, n),
         Occupants(w, n) = ToSet(heap_list'), ptr_map_size' < n
  PROVE  /\ HashTypes' /\ TableInv' /\ ptr_map' # NoPtr
         /\ ptr_map_cap' \in Nat /\ ptr_map_cap' >= PTR_MAP_INIT_CAP
         /\ ptr_map' \in [0 .. ptr_map_cap' - 1 -> Pointer \cup {NoPtr}]
<1>1. n \in Nat /\ n >= PTR_MAP_INIT_CAP /\ n \in 1 .. MaxMapCap
  BY CapacityBound, PtrMapAssumption
<1>2. w \in Tables(n) /\ Chain(w, n)
  BY DEF IsTable
<1>3. w # NoPtr
  BY <1>1, <1>2, TableIsAllocated
<1>4. Chain(ptr_map, ptr_map_cap)'
  BY <1>2 DEF Chain, Probe, Home
<1>5. Occupants(ptr_map, ptr_map_cap)' = ToSet(heap_list')
  BY DEF Occupants
<1>6. TableInv'
  BY <1>4, <1>5 DEF TableInv
<1>7. HashTypes'
  BY DEF HashTypes
<1> QED
  BY <1>1, <1>2, <1>3, <1>6, <1>7 DEF Tables

(* alloc links a block in front. *)
LEMMA PushFront ==
  ASSUME NEW s \in Seq(Pointer), Distinct(s), NEW k \in Pointer, k \notin ToSet(s)
  PROVE  /\ <<k>> \o s \in Seq(Pointer) /\ Distinct(<<k>> \o s)
         /\ ToSet(<<k>> \o s) = ToSet(s) \cup {k} /\ Len(<<k>> \o s) = Len(s) + 1
<1> DEFINE t == <<k>> \o s
<1>1. Len(s) \in Nat /\ DOMAIN s = 1 .. Len(s)
  OBVIOUS
<1>2. t \in Seq(Pointer) /\ Len(t) = Len(s) + 1 /\ DOMAIN t = 1 .. Len(s) + 1
  OBVIOUS
<1>3. t[1] = k /\ \A i \in 1 .. Len(s) : t[i + 1] = s[i]
  OBVIOUS
<1> HIDE DEF t
<1>4. \A i \in 1 .. Len(s) + 1 : i = 1 \/ (i - 1 \in 1 .. Len(s) /\ (i - 1) + 1 = i)
  BY <1>1
<1>5. \A i \in 1 .. Len(s) + 1 : i # 1 => t[i] = s[i - 1]
  BY <1>3, <1>4
<1>6. \A i \in 1 .. Len(s) : s[i] # k
  BY <1>1 DEF ToSet
<1>7. ASSUME NEW i \in 1 .. Len(s) + 1, NEW j \in 1 .. Len(s) + 1, t[i] = t[j]
      PROVE  i = j
  <2>1. i = 1 <=> j = 1
    BY <1>3, <1>4, <1>5, <1>6, <1>7
  <2>2. i # 1 => i - 1 = j - 1
    BY <1>1, <1>4, <1>5, <1>7, <2>1 DEF Distinct
  <2> QED
    BY <2>1, <2>2
<1>8. ToSet(t) = ToSet(s) \cup {k}
  <2>1. \A i \in 1 .. Len(s) : i + 1 \in 1 .. Len(s) + 1
    BY <1>1
  <2>2. 1 \in 1 .. Len(s) + 1
    BY <1>1
  <2>3. ToSet(t) = {t[i] : i \in 1 .. Len(s) + 1} /\ ToSet(s) = {s[i] : i \in 1 .. Len(s)}
    BY <1>1, <1>2 DEF ToSet
  <2>4. ASSUME NEW x \in ToSet(t) PROVE x \in ToSet(s) \cup {k}
    <3>1. PICK i \in 1 .. Len(s) + 1 : x = t[i]
      BY <2>3
    <3> QED
      BY <1>3, <1>4, <1>5, <2>3, <3>1
  <2>5. ASSUME NEW x \in ToSet(s) \cup {k} PROVE x \in ToSet(t)
    <3>1. CASE x = k
      BY <1>3, <2>2, <2>3, <3>1
    <3>2. CASE x \in ToSet(s)
      <4>1. PICK i \in 1 .. Len(s) : x = s[i]
        BY <2>3, <3>2
      <4> QED
        BY <1>3, <2>1, <2>3, <4>1
    <3> QED
      BY <3>1, <3>2
  <2> QED
    BY <2>4, <2>5
<1> QED
  BY <1>2, <1>7, <1>8 DEF Distinct, t

LEMMA PtrMapStartInv ==
  ASSUME PtrMapStart
  PROVE  PtrMapInv
<1>1. PtrMapTypeOK
  BY DEF PtrMapStart, PtrMapTypeOK
<1>2. HashTypes
  BY PtrMapAssumption DEF PtrMapStart, HashTypes
<1>3. TableInv
  BY DEF PtrMapStart, TableInv
<1>4. HeapInv
  BY DEF PtrMapStart, HeapInv, Distinct
<1> QED
  BY <1>1, <1>2, <1>3, <1>4 DEF PtrMapInv

LEMMA PtrMapStepInv ==
  ASSUME PtrMapInv, [PtrMapNext]_ptrMapVars
  PROVE  PtrMapInv'
<1>0. /\ HashTypes /\ heap_list \in Seq(Pointer) /\ Distinct(heap_list)
      /\ ptr_map_size = Len(heap_list) /\ ptr_map_size \in Nat /\ ptr_map_cap \in Nat
  BY DEF PtrMapInv, PtrMapTypeOK, HeapInv
<1>00. ptr_map # NoPtr => ptr_map_cap \in Capacities /\ ptr_map_cap <= MaxMapCap
                          /\ ptr_map_size < ptr_map_cap
  BY DEF PtrMapInv, TableInv
<1>1. CASE PtrMapInit
  <2> DEFINE n == PTR_MAP_INIT_CAP
  <2>1. /\ ptr_map' = EmptyTable(n) /\ ptr_map_cap' = n /\ ptr_map_size' = 0
        /\ ptr_hash' = ptr_hash /\ heap_list' = heap_list /\ map_phase' = map_phase
        /\ heap_list = << >>
    BY <1>1 DEF PtrMapInit, PtrMapInv, HeapInv
  <2>2. n \in Capacities /\ n \in Nat \ {0} /\ n <= MaxMapCap /\ 0 < n
    BY CapacityFirst, PtrMapAssumption
  <2>3. IsTable(EmptyTable(n), n) /\ Occupants(EmptyTable(n), n) = ToSet(heap_list')
    <3>1. ToSet(heap_list') = {}
      BY <2>1 DEF ToSet
    <3> QED
      BY <1>0, <2>2, <3>1, EmptyIsTable
  <2> HIDE DEF n
  <2>4. /\ HashTypes' /\ TableInv' /\ ptr_map' # NoPtr
         /\ ptr_map_cap' \in Nat /\ ptr_map_cap' >= PTR_MAP_INIT_CAP
         /\ ptr_map' \in [0 .. ptr_map_cap' - 1 -> Pointer \cup {NoPtr}]
    BY <1>0, <2>1, <2>2, <2>3, NewTable
  <2>5. PtrMapTypeOK'
    BY <1>0, <2>1, <2>4 DEF PtrMapTypeOK, PtrMapInv
  <2>6. HeapInv'
    BY <1>0, <2>1, <2>4 DEF HeapInv
  <2> QED
    BY <2>4, <2>5, <2>6 DEF PtrMapInv
<1>2. CASE PtrMapGrow
  <2> DEFINE n == 2 * ptr_map_cap
             w == Rehash(SlotsOf(ptr_map, ptr_map_cap), n)
  <2>1. /\ ptr_map # NoPtr /\ ptr_map' = w /\ ptr_map_cap' = n
        /\ ptr_map_size' = Entries(ptr_map, ptr_map_cap) /\ n <= MaxMapCap
        /\ ptr_hash' = ptr_hash /\ heap_list' = heap_list /\ map_phase' = map_phase
    BY <1>2 DEF PtrMapGrow
  <2>20. ptr_map_cap \in Capacities /\ ptr_map_cap >= 4 /\ ptr_map_size < ptr_map_cap
    BY <1>00, <2>1, CapacityBound
  <2>21. n \in Capacities
    BY <2>20, CapacityDoubles
  <2>2. n \in Capacities /\ n \in Nat \ {0} /\ ptr_map_size < n
    BY <1>0, <2>20, <2>21
  <2> HIDE DEF n
  <2>3. /\ IsTable(w, n) /\ Occupants(w, n) = ToSet(heap_list)
        /\ Entries(ptr_map, ptr_map_cap) = ptr_map_size
    BY <2>1, <2>2, Refilled
  <2> HIDE DEF w
  <2>4. /\ HashTypes' /\ TableInv' /\ ptr_map' # NoPtr
         /\ ptr_map_cap' \in Nat /\ ptr_map_cap' >= PTR_MAP_INIT_CAP
         /\ ptr_map' \in [0 .. ptr_map_cap' - 1 -> Pointer \cup {NoPtr}]
    BY <1>0, <2>1, <2>2, <2>3, NewTable
  <2>5. PtrMapTypeOK'
    BY <1>0, <2>1, <2>3, <2>4 DEF PtrMapTypeOK, PtrMapInv
  <2>6. HeapInv'
    BY <1>0, <2>1, <2>3, <2>4 DEF HeapInv
  <2> QED
    BY <2>4, <2>5, <2>6 DEF PtrMapInv
<1>3. CASE InitOrGrowFails
  <2>1. /\ ptr_map' = ptr_map /\ ptr_map_cap' = ptr_map_cap /\ ptr_map_size' = ptr_map_size
        /\ ptr_hash' = ptr_hash /\ heap_list' = heap_list /\ map_phase' = "exit"
    BY <1>3 DEF InitOrGrowFails
  <2>2. PtrMapTypeOK' /\ HashTypes' /\ HeapInv'
    BY <2>1 DEF PtrMapInv, PtrMapTypeOK, HashTypes, HeapInv
  <2>3. TableInv'
    BY <2>1 DEF PtrMapInv, TableInv, Chain, Occupants, Probe, Home
  <2> QED
    BY <2>2, <2>3 DEF PtrMapInv
<1>4. ASSUME NEW k \in Pointer, PtrMapInsert(k) PROVE PtrMapInv'
  <2> DEFINE n == ptr_map_cap
             w == Place(ptr_map, n, k)
  <2>1. /\ ptr_map # NoPtr /\ ptr_map' = w /\ ptr_map_cap' = n /\ ~MapLoaded
        /\ ptr_map_size' = ptr_map_size + 1 /\ k \notin ToSet(heap_list)
        /\ ptr_hash' = ptr_hash /\ heap_list' = <<k>> \o heap_list /\ map_phase' = map_phase
    BY <1>4 DEF PtrMapInsert
  <2>2. /\ IsTable(ptr_map, n) /\ HasGap(ptr_map, n) /\ n \in Nat \ {0}
        /\ Occupants(ptr_map, n) = ToSet(heap_list)
    BY <2>1, AllocatedTable
  <2>3. n \in Capacities /\ n <= MaxMapCap /\ n >= 4
    BY <1>00, <2>1, CapacityBound
  <2>4. ptr_map_size + 1 < n
    BY <1>0, <2>1, <2>3 DEF MapLoaded, PTR_MAP_LOAD_MAX_DEN, PTR_MAP_LOAD_MAX_NUM
  <2> HIDE DEF n
  <2>5. IsTable(w, n) /\ Occupants(w, n) = ToSet(heap_list) \cup {k}
    BY <1>0, <2>1, <2>2, PlaceStores
  <2> HIDE DEF w
  <2>6. /\ heap_list' \in Seq(Pointer) /\ Distinct(heap_list')
        /\ ToSet(heap_list') = ToSet(heap_list) \cup {k} /\ Len(heap_list') = Len(heap_list) + 1
    BY <1>0, <2>1, PushFront
  <2>7. /\ HashTypes' /\ TableInv' /\ ptr_map' # NoPtr
         /\ ptr_map_cap' \in Nat /\ ptr_map_cap' >= PTR_MAP_INIT_CAP
         /\ ptr_map' \in [0 .. ptr_map_cap' - 1 -> Pointer \cup {NoPtr}]
    BY <1>0, <2>1, <2>3, <2>4, <2>5, <2>6, NewTable
  <2>8. PtrMapTypeOK'
    BY <1>0, <2>1, <2>6, <2>7 DEF PtrMapTypeOK, PtrMapInv
  <2>9. HeapInv'
    BY <1>0, <2>1, <2>6, <2>7 DEF HeapInv, Distinct
  <2> QED
    BY <2>7, <2>8, <2>9 DEF PtrMapInv
<1>5. ASSUME NEW S \in SUBSET ToSet(heap_list), PtrMapRebuild(S) PROVE PtrMapInv'
  <2> DEFINE n == ptr_map_cap
             live == Survivors(S)
             w == Rehash(live, n)
  <2>1. /\ ptr_map # NoPtr /\ ptr_map' = w /\ ptr_map_cap' = n
        /\ ptr_map_size' = Len(live)
        /\ ptr_hash' = ptr_hash /\ heap_list' = live /\ map_phase' = "shrink"
    BY <1>5 DEF PtrMapRebuild
  <2>2. /\ live \in Seq(Pointer) /\ Distinct(live)
        /\ ToSet(live) = S /\ Len(live) <= Len(heap_list)
    BY <1>0, SurvivorsAre
  <2> HIDE DEF live
  <2>3. n \in Capacities /\ n <= MaxMapCap /\ n >= 4 /\ n \in Nat \ {0}
    BY <1>00, <2>1, CapacityBound
  <2>4. Len(live) \in Nat /\ Len(live) < n
    BY <1>0, <1>00, <2>1, <2>2, <2>3
  <2> HIDE DEF n
  <2>5. IsFiniteSet(S) /\ Cardinality(S) = Len(live)
    BY <2>2, CountIsLength
  <2>6. /\ live \in Seq(Pointer \cup {NoPtr}) /\ ToSet(live) \ {NoPtr} = S
        /\ \A i, j \in DOMAIN live : live[i] = live[j] /\ live[i] # NoPtr => i = j
    <3>1. S \subseteq Pointer
      BY <2>2 DEF ToSet
    <3> QED
      BY <2>2, <3>1, PtrMapAssumption DEF Distinct
  <2>7. IsTable(w, n) /\ Occupants(w, n) = S
    BY <1>0, <2>3, <2>4, <2>5, <2>6, RehashStores
  <2> HIDE DEF w
  <2>8. /\ HashTypes' /\ TableInv' /\ ptr_map' # NoPtr
         /\ ptr_map_cap' \in Nat /\ ptr_map_cap' >= PTR_MAP_INIT_CAP
         /\ ptr_map' \in [0 .. ptr_map_cap' - 1 -> Pointer \cup {NoPtr}]
    <3>1. Occupants(w, n) = ToSet(heap_list')
      BY <2>1, <2>2, <2>7
    <3> QED
      BY <1>0, <2>1, <2>3, <2>4, <2>7, <3>1, NewTable
  <2>9. PtrMapTypeOK'
    BY <2>1, <2>2, <2>4, <2>8 DEF PtrMapTypeOK
  <2>10. HeapInv'
    BY <2>1, <2>2, <2>8 DEF HeapInv, Distinct
  <2> QED
    BY <2>8, <2>9, <2>10 DEF PtrMapInv
<1>6. CASE Shrink
  <2> DEFINE n == ptr_map_cap \div 2
             w == Rehash(SlotsOf(ptr_map, ptr_map_cap), n)
  <2>1. /\ ptr_map # NoPtr /\ ptr_map' = w /\ ptr_map_cap' = n /\ TooSparse
        /\ ptr_map_size' = Entries(ptr_map, ptr_map_cap)
        /\ ptr_hash' = ptr_hash /\ heap_list' = heap_list /\ map_phase' = map_phase
    BY <1>6 DEF Shrink
  <2>2. n \in Capacities /\ ptr_map_cap = 2 * n
    BY <1>00, <2>1, CapacityHalves DEF TooSparse
  <2> HIDE DEF n
  <2>3. n \in Nat \ {0} /\ n <= MaxMapCap
    BY <1>00, <2>1, <2>2, CapacityBound, PtrMapAssumption
  <2>4. ptr_map_size < n
    <3>1. ptr_map_size * Sparse < 2 * n
      BY <2>1, <2>2 DEF TooSparse
    <3>2. 2 * ptr_map_size <= ptr_map_size * Sparse
      <4>1. Sparse \in Nat /\ Sparse >= 2
        BY PtrMapAssumption
      <4>2. PICK x \in Nat : Sparse = 2 + x
        <5>1. Sparse - 2 \in Nat /\ Sparse = 2 + (Sparse - 2)
          BY <4>1
        <5> QED
          BY <5>1
      <4>3. ptr_map_size * (2 + x) = 2 * ptr_map_size + ptr_map_size * x
        BY <1>0
      <4>4. ptr_map_size * x \in Nat
        BY <1>0
      <4> QED
        BY <1>0, <4>2, <4>3, <4>4
    <3>3. ptr_map_size * Sparse \in Nat
      BY <1>0, PtrMapAssumption
    <3> QED
      BY <1>0, <2>3, <3>1, <3>2, <3>3
  <2>5. /\ IsTable(w, n) /\ Occupants(w, n) = ToSet(heap_list)
        /\ Entries(ptr_map, ptr_map_cap) = ptr_map_size
    BY <2>1, <2>3, <2>4, Refilled
  <2> HIDE DEF w
  <2>6. /\ HashTypes' /\ TableInv' /\ ptr_map' # NoPtr
         /\ ptr_map_cap' \in Nat /\ ptr_map_cap' >= PTR_MAP_INIT_CAP
         /\ ptr_map' \in [0 .. ptr_map_cap' - 1 -> Pointer \cup {NoPtr}]
    BY <1>0, <2>1, <2>2, <2>3, <2>4, <2>5, NewTable
  <2>7. PtrMapTypeOK'
    BY <1>0, <2>1, <2>5, <2>6 DEF PtrMapTypeOK, PtrMapInv
  <2>8. HeapInv'
    BY <1>0, <2>1, <2>5, <2>6 DEF HeapInv
  <2> QED
    BY <2>6, <2>7, <2>8 DEF PtrMapInv
<1>7. CASE ShrinkFails
  <2>1. /\ ptr_map' = NoPtr /\ ptr_map_cap' = ptr_map_cap \div 2 /\ ptr_map_size' = ptr_map_size
        /\ ptr_hash' = ptr_hash /\ heap_list' = heap_list
        /\ map_phase' = IF ptr_map_size > 0 \/ ptr_map = NoPtr THEN "crash" ELSE "shrink"
    BY <1>7 DEF ShrinkFails
  <2>2. PtrMapTypeOK' /\ HashTypes' /\ TableInv'
    BY <1>0, <2>1 DEF PtrMapTypeOK, HashTypes, TableInv
  <2>3. map_phase' \in {"run", "shrink"} => heap_list = << >>
    <3>1. map_phase' \in {"run", "shrink"} => ptr_map_size = 0
      BY <1>0, <2>1
    <3> QED
      BY <1>0, <3>1
  <2>4. HeapInv'
    BY <1>0, <2>1, <2>3 DEF HeapInv, Distinct
  <2> QED
    BY <2>2, <2>4 DEF PtrMapInv
<1>8. CASE RebuildEnd
  <2>1. /\ ptr_map' = ptr_map /\ ptr_map_cap' = ptr_map_cap /\ ptr_map_size' = ptr_map_size
        /\ ptr_hash' = ptr_hash /\ heap_list' = heap_list /\ map_phase' = "run"
        /\ map_phase = "shrink"
    BY <1>8 DEF RebuildEnd
  <2>2. PtrMapTypeOK' /\ HashTypes' /\ HeapInv'
    BY <2>1 DEF PtrMapInv, PtrMapTypeOK, HashTypes, HeapInv
  <2>3. TableInv'
    BY <2>1 DEF PtrMapInv, TableInv, Chain, Occupants, Probe, Home
  <2> QED
    BY <2>2, <2>3 DEF PtrMapInv
<1>9. CASE PtrMapFree
  <2>1. /\ ptr_map' = NoPtr /\ ptr_map_cap' = 0 /\ ptr_map_size' = 0 /\ heap_list' = << >>
        /\ ptr_hash' = ptr_hash /\ map_phase' = map_phase
    BY <1>9 DEF PtrMapFree
  <2>2. PtrMapTypeOK' /\ HashTypes' /\ TableInv'
    BY <2>1 DEF PtrMapInv, PtrMapTypeOK, HashTypes, TableInv
  <2>3. HeapInv'
    BY <2>1 DEF HeapInv, Distinct
  <2> QED
    BY <2>2, <2>3 DEF PtrMapInv
<1>10. CASE UNCHANGED ptrMapVars
  <2>1. /\ ptr_map' = ptr_map /\ ptr_map_cap' = ptr_map_cap /\ ptr_map_size' = ptr_map_size
        /\ ptr_hash' = ptr_hash /\ heap_list' = heap_list /\ map_phase' = map_phase
    BY <1>10 DEF ptrMapVars
  <2>2. PtrMapTypeOK' /\ HashTypes' /\ HeapInv'
    BY <2>1 DEF PtrMapInv, PtrMapTypeOK, HashTypes, HeapInv
  <2>3. TableInv'
    BY <2>1 DEF PtrMapInv, TableInv, Chain, Occupants, Probe, Home
  <2> QED
    BY <2>2, <2>3 DEF PtrMapInv
<1> QED
  BY <1>1, <1>2, <1>3, <1>4, <1>5, <1>6, <1>7, <1>8, <1>9, <1>10 DEF PtrMapNext

(***************************************************************************)
(* ptr_map_remove.  Seen from an empty slot z on, no search of a stored key*)
(* turns past the end: t is the table and H[k] the home of k seen from z,  *)
(* and the keys between its home and its slot are on a line.  While the    *)
(* gap g moves to the right, only searches that pass it may be cut off.    *)
(***************************************************************************)
Rank(z, p, n) == IF z <= p THEN p - z ELSE p - z + n
Turned(m, n, z) == [c \in 0 .. n - 1 |-> m[Slot(z, c, n)]]
HomeRank(n, z) == [k \in Pointer |-> Rank(z, Home(k, n), n)]

Line(t, H, n, g) ==
  \A c \in 0 .. n - 1 : t[c] # NoPtr =>
    /\ H[t[c]] <= c
    /\ \A e \in H[t[c]] .. c - 1 : (t[e] # NoPtr \/ e = g) /\ t[e] # t[c]

(* No search for a key before slot x passes the gap. *)
Settled(t, H, g, x) ==
  \A c \in g + 1 .. x - 1 : t[c] # NoPtr => H[t[c]] > g

LEMMA SlotRank ==
  ASSUME NEW n \in Nat \ {0}, NEW z \in 0 .. n - 1
  PROVE  /\ \A c \in 0 .. n - 1 : Slot(z, c, n) \in 0 .. n - 1 /\ Rank(z, Slot(z, c, n), n) = c
         /\ \A p \in 0 .. n - 1 : Rank(z, p, n) \in 0 .. n - 1 /\ Slot(z, Rank(z, p, n), n) = p
         /\ Slot(z, 0, n) = z
BY DEF Slot, Rank

LEMMA RankTypes ==
  ASSUME HashTypes, NEW n \in Nat \ {0}, NEW z \in 0 .. n - 1
  PROVE  /\ HomeRank(n, z) \in [Pointer -> 0 .. n - 1]
         /\ \A k \in Pointer : Home(k, n) = Slot(z, HomeRank(n, z)[k], n)
<1>1. \A k \in Pointer : Home(k, n) \in 0 .. n - 1
  BY HomeType
<1>2. \A p \in 0 .. n - 1 : Rank(z, p, n) \in 0 .. n - 1 /\ Slot(z, Rank(z, p, n), n) = p
  BY SlotRank
<1> QED
  BY <1>1, <1>2 DEF HomeRank

LEMMA TurnedType ==
  ASSUME NEW n \in Nat \ {0}, NEW z \in 0 .. n - 1, NEW m \in Tables(n)
  PROVE  Turned(m, n, z) \in Tables(n)
BY SlotRank DEF Turned, Tables

(* Further from the home, on the line. *)
LEMMA ProbeRank ==
  ASSUME HashTypes, NEW n \in Nat \ {0}, NEW z \in 0 .. n - 1, NEW k \in Pointer,
         NEW d \in 0 .. n - 1, HomeRank(n, z)[k] + d < n
  PROVE  Probe(k, n, d) = Slot(z, HomeRank(n, z)[k] + d, n)
<1> DEFINE h == HomeRank(n, z)[k]
<1>1. h \in 0 .. n - 1 /\ Home(k, n) = Slot(z, h, n)
  BY RankTypes
<1>2. Probe(k, n, d) = Slot(Slot(z, h, n), d, n)
  BY <1>1, ProbeSlot
<1>3. h + d < n
  OBVIOUS
<1> HIDE DEF h
<1>4. Slot(Slot(z, h, n), d, n) = Slot(z, h + d, n)
  BY <1>1, <1>3 DEF Slot
<1> QED
  BY <1>2, <1>4 DEF h

LEMMA TableIsLine ==
  ASSUME HashTypes, NEW n \in Nat \ {0}, NEW z \in 0 .. n - 1, NEW m, IsTable(m, n), m[z] = NoPtr
  PROVE  Line(Turned(m, n, z), HomeRank(n, z), n, n)
<1> DEFINE t == Turned(m, n, z)
           H == HomeRank(n, z)
<1> SUFFICES ASSUME NEW c \in 0 .. n - 1, t[c] # NoPtr
             PROVE  /\ H[t[c]] <= c
                    /\ \A e \in H[t[c]] .. c - 1 : (t[e] # NoPtr \/ e = n) /\ t[e] # t[c]
  BY DEF Line
<1> DEFINE k == t[c]
           p == Slot(z, c, n)
<1>1. p \in 0 .. n - 1 /\ m[p] = k /\ m \in Tables(n)
  BY SlotRank DEF Turned, IsTable
<1>2. k \in Pointer
  BY <1>1 DEF Tables
<1>3. H \in [Pointer -> 0 .. n - 1] /\ Home(k, n) = Slot(z, H[k], n) /\ H[k] \in 0 .. n - 1
  BY <1>2, RankTypes
<1>4. PICK d \in 0 .. n - 1 : Probe(k, n, d) = p
  BY <1>1, <1>2, ProbeMeets
<1>5. \A e \in 0 .. d - 1 : m[Probe(k, n, e)] \notin {NoPtr, k}
  BY <1>1, <1>2, <1>4 DEF IsTable, Chain
<1>6. \A c1 \in 0 .. n - 1 : t[c1] = m[Slot(z, c1, n)]
  BY DEF Turned
<1>7. k # NoPtr
  OBVIOUS
<1> HIDE DEF t, H, k, p
<1>8. H[k] + d < n
  <2>1. SUFFICES ASSUME ~ (H[k] + d < n) PROVE FALSE
    OBVIOUS
  <2> DEFINE e == n - H[k]
             h == H[k]
  <2>2. h \in 0 .. n - 1 /\ h + d >= n
    BY <1>3, <2>1
  <2>3. e \in 0 .. n - 1 /\ e <= d
    <3>1. h # 0
      BY <2>2
    <3> QED
      BY <2>2, <3>1
  <2>4. Probe(k, n, e) = z
    <3>1. Probe(k, n, e) = Slot(Slot(z, h, n), e, n)
      BY <1>2, <1>3, <2>3, ProbeSlot
    <3>2. Slot(Slot(z, h, n), n - h, n) = z
      <4> HIDE DEF h
      <4> QED
        BY <2>2 DEF Slot
    <3> QED
      BY <3>1, <3>2
  <2> HIDE DEF e, h
  <2>5. CASE e = d
    BY <1>1, <1>4, <1>7, <2>4, <2>5
  <2>6. CASE e # d
    <3>1. e \in 0 .. d - 1
      BY <2>3, <2>6
    <3> QED
      BY <1>5, <2>4, <3>1
  <2> QED
    BY <2>5, <2>6
<1>9. p = Slot(z, H[k] + d, n) /\ H[k] + d \in 0 .. n - 1
  BY <1>2, <1>3, <1>4, <1>8, ProbeRank DEF H
<1>10. H[k] + d = c
  <2>1. \A c1 \in 0 .. n - 1 : Rank(z, Slot(z, c1, n), n) = c1
    BY SlotRank
  <2>2. Rank(z, p, n) = H[k] + d /\ Rank(z, p, n) = c
    <3>1. Rank(z, p, n) = c
      BY <2>1 DEF p
    <3> QED
      BY <1>9, <2>1, <3>1
  <2> QED
    BY <2>2
<1>11. ASSUME NEW e \in H[k] .. c - 1 PROVE t[e] # NoPtr /\ t[e] # k
  <2>1. e - H[k] \in 0 .. d - 1 /\ e \in 0 .. n - 1 /\ H[k] + (e - H[k]) = e
        /\ e - H[k] \in 0 .. n - 1 /\ e < n
    BY <1>3, <1>10
  <2>2. Probe(k, n, e - H[k]) = Slot(z, e, n)
    BY <1>2, <2>1, ProbeRank DEF H
  <2>3. m[Probe(k, n, e - H[k])] \notin {NoPtr, k}
    BY <1>5, <2>1
  <2> QED
    BY <1>6, <2>1, <2>2, <2>3
<1>12. H[k] <= c
  BY <1>3, <1>10
<1> QED
  BY <1>11, <1>12 DEF k

LEMMA LineIsTable ==
  ASSUME HashTypes, NEW n \in Nat \ {0}, NEW z \in 0 .. n - 1, NEW m \in Tables(n),
         Line(Turned(m, n, z), HomeRank(n, z), n, n)
  PROVE  IsTable(m, n)
<1> DEFINE t == Turned(m, n, z)
           H == HomeRank(n, z)
<1> SUFFICES ASSUME NEW k \in Pointer, NEW d \in 0 .. n - 1, m[Probe(k, n, d)] = k,
                    NEW e \in 0 .. d - 1
             PROVE  m[Probe(k, n, e)] \notin {NoPtr, k}
  BY DEF IsTable, Chain
<1>1. \A c1 \in 0 .. n - 1 : t[c1] = m[Slot(z, c1, n)]
  BY DEF Turned
<1>2. H[k] \in 0 .. n - 1
  BY RankTypes
<1>3. k # NoPtr
  BY PtrMapAssumption
<1> DEFINE c == Rank(z, Probe(k, n, d), n)
<1>4. c \in 0 .. n - 1 /\ Slot(z, c, n) = Probe(k, n, d)
  <2>1. Probe(k, n, d) \in 0 .. n - 1
    BY ProbeSlot
  <2> QED
    BY <2>1, SlotRank
<1> HIDE DEF c
<1>5. t[c] = k
  BY <1>1, <1>4
<1>6. H[k] <= c /\ \A e1 \in H[k] .. c - 1 : (t[e1] # NoPtr \/ e1 = n) /\ t[e1] # k
  BY <1>3, <1>4, <1>5 DEF Line
<1> HIDE DEF t, H
<1>7. c - H[k] \in 0 .. n - 1 /\ H[k] + (c - H[k]) = c /\ c < n
  BY <1>2, <1>4, <1>6
<1>8. Probe(k, n, c - H[k]) = Probe(k, n, d)
  BY <1>4, <1>7, ProbeRank DEF H
<1>9. c - H[k] = d
  BY <1>7, <1>8, ProbeOnce
<1>10. H[k] + e \in H[k] .. c - 1 /\ H[k] + e # n /\ H[k] + e \in 0 .. n - 1 /\ e \in 0 .. n - 1
       /\ H[k] + e < n
  BY <1>2, <1>4, <1>9
<1>11. Probe(k, n, e) = Slot(z, H[k] + e, n)
  BY <1>10, ProbeRank DEF H
<1>12. m[Probe(k, n, e)] = t[H[k] + e]
  BY <1>1, <1>10, <1>11
<1> QED
  BY <1>6, <1>10, <1>12

(* The test of the code: the gap is between the home and the slot. *)
LEMMA MoveBackMeans ==
  ASSUME NEW n \in Nat \ {0}, NEW z \in 0 .. n - 1, NEW x \in 0 .. n - 1,
         NEW h \in 0 .. x, NEW g \in 0 .. x - 1
  PROVE  MoveBack(Slot(z, h, n), Slot(z, g, n), Slot(z, x, n)) <=> h <= g
BY DEF MoveBack, Slot

(* One round on the line: the key in x moves into the gap ... *)
LEMMA ShiftMoves ==
  ASSUME NEW n \in Nat \ {0}, NEW H \in [Pointer -> 0 .. n - 1], NEW t \in Tables(n),
         NEW x \in 0 .. n - 1, NEW g \in 1 .. x - 1, Line(t, H, n, g), t[g] = NoPtr,
         t[x] # NoPtr, H[t[x]] <= g,
         NEW u \in Tables(n), u[g] = t[x], u[x] = NoPtr,
         \A c \in 0 .. n - 1 : c # g /\ c # x => u[c] = t[c]
  PROVE  Line(u, H, n, x) /\ Settled(u, H, x, x + 1)
<1> DEFINE y == t[x]
<1>1. y \in Pointer /\ y # NoPtr /\ H[y] \in 0 .. n - 1
  BY DEF Tables
<1>2. \A e \in H[y] .. x - 1 : (t[e] # NoPtr \/ e = g) /\ t[e] # y
  BY DEF Line
<1>3. ASSUME NEW c \in 0 .. n - 1, u[c] # NoPtr
      PROVE  /\ H[u[c]] <= c
             /\ \A e \in H[u[c]] .. c - 1 : (u[e] # NoPtr \/ e = x) /\ u[e] # u[c]
  <2>1. CASE c = g
    <3>1. u[c] = y /\ H[y] <= c
      BY <2>1
    <3>2. ASSUME NEW e \in H[y] .. c - 1 PROVE u[e] # NoPtr /\ u[e] # y
      <4>1. e \in H[y] .. x - 1 /\ e # g /\ e # x /\ e \in 0 .. n - 1
        BY <1>1, <2>1
      <4> QED
        BY <1>2, <4>1
    <3> QED
      BY <3>1, <3>2
  <2>2. CASE c # g
    <3>1. c # x /\ u[c] = t[c] /\ t[c] # NoPtr
      BY <1>3, <2>2
    <3>2. t[c] \in Pointer /\ H[t[c]] \in 0 .. n - 1
      BY <3>1 DEF Tables
    <3>3. H[t[c]] <= c /\ \A e \in H[t[c]] .. c - 1 : (t[e] # NoPtr \/ e = g) /\ t[e] # t[c]
      BY <3>1 DEF Line
    <3>4. t[c] # y
      <4>1. SUFFICES ASSUME t[c] = y PROVE FALSE
        OBVIOUS
      <4>2. CASE c < x
        <5>1. c \in H[y] .. x - 1
          BY <3>3, <4>1, <4>2, <1>1
        <5> QED
          BY <1>2, <4>1, <5>1
      <4>3. CASE c > x
        <5>0. H[y] <= x
          BY DEF Line
        <5>1. x \in H[t[c]] .. c - 1
          BY <1>1, <4>1, <4>3, <5>0
        <5> QED
          BY <3>3, <4>1, <5>1
      <4> QED
        BY <3>1, <4>2, <4>3
    <3>5. ASSUME NEW e \in H[t[c]] .. c - 1 PROVE (u[e] # NoPtr \/ e = x) /\ u[e] # t[c]
      <4>1. e \in 0 .. n - 1
        BY <3>2
      <4>2. CASE e = g
        BY <1>1, <3>4, <4>2
      <4>3. CASE e = x
        BY <3>1, <4>3
      <4>4. CASE e # g /\ e # x
        BY <3>3, <4>1, <4>4
      <4> QED
        BY <4>2, <4>3, <4>4
    <3> QED
      BY <3>1, <3>3, <3>5
  <2> QED
    BY <2>1, <2>2
<1>4. Line(u, H, n, x)
  BY <1>3 DEF Line
<1>5. Settled(u, H, x, x + 1)
  BY DEF Settled
<1> QED
  BY <1>4, <1>5

(* ... and at an empty slot, or the end of the line, nothing is cut off. *)
LEMMA ShiftEnds ==
  ASSUME NEW n \in Nat \ {0}, NEW H \in [Pointer -> 0 .. n - 1], NEW t \in Tables(n),
         NEW x \in 1 .. n, NEW g \in 1 .. x - 1, Line(t, H, n, g), t[g] = NoPtr,
         Settled(t, H, g, x), x # n => t[x] = NoPtr
  PROVE  Line(t, H, n, n)
<1> SUFFICES ASSUME NEW c \in 0 .. n - 1, t[c] # NoPtr, NEW e \in H[t[c]] .. c - 1, e = g
             PROVE  FALSE
  BY DEF Line
<1>1. t[c] \in Pointer /\ H[t[c]] \in 0 .. n - 1 /\ H[t[c]] <= g /\ g < c
  BY DEF Tables
<1>2. CASE c < x
  <2>1. c \in g + 1 .. x - 1
    BY <1>1, <1>2
  <2> QED
    BY <1>1, <2>1 DEF Settled
<1>3. CASE c > x
  <2>1. x \in H[t[c]] .. c - 1 /\ x # n /\ x # g
    BY <1>1, <1>3
  <2> QED
    BY <2>1 DEF Line
<1>4. c # x
  OBVIOUS
<1> QED
  BY <1>2, <1>3, <1>4

(* The fold of ptr_map_remove, round by round. *)
Rounds(n) == [m : Tables(n), gap : 0 .. n - 1, stop : BOOLEAN]

LEMMA ShiftType ==
  ASSUME NEW n \in Nat \ {0}, NEW st \in Rounds(n), NEW j \in 0 .. n - 1
  PROVE  ShiftBack(st, n, j) \in Rounds(n)
BY DEF ShiftBack, Rounds, Tables

LEMMA RemovedUnrolls ==
  ASSUME NEW n \in Nat \ {0}, NEW m \in Tables(n), NEW k, SlotOf(m, n, k) \in 0 .. n - 1
  PROVE  \E R : /\ R[0] = [m |-> [m EXCEPT ![SlotOf(m, n, k)] = NoPtr],
                            gap |-> SlotOf(m, n, k), stop |-> FALSE]
                /\ \A d \in 1 .. n - 1 :
                     R[d] = ShiftBack(R[d - 1], n, (SlotOf(m, n, k) + d) % n)
                /\ Removed(m, n, k) = R[n - 1].m
<1> DEFINE i == SlotOf(m, n, k)
           base == [m |-> [m EXCEPT ![i] = NoPtr], gap |-> i, stop |-> FALSE]
           N == n - 1
           ds == [d \in 1 .. N |-> d]
           Op(s, it) == IF s = {} THEN base
                        ELSE ShiftBack(it[s \ {Max(s)}], n, (i + ds[Max(s)]) % n)
           Iter == CHOOSE it : it = [s \in SUBSET (1 .. N) |-> Op(s, it)]
<1>1. N \in Nat /\ DOMAIN ds = 1 .. N /\ \A d \in 1 .. N : ds[d] = d
  OBVIOUS
<1>2. Removed(m, n, k) = Iter[1 .. N].m
  BY <1>1 DEF Removed, FoldLeft, MapThenFoldSet
<1>3. \E it : it = [s \in SUBSET (1 .. N) |-> Op(s, it)]
  <2> DEFINE step == [x \in (1 .. N) \X Rounds(n) |-> ShiftBack(x[2], n, (i + ds[x[1]]) % n)]
  <2>1. base \in Rounds(n)
    BY DEF Rounds, Tables
  <2> HIDE DEF base, ds, N
  <2>0. \A d \in 1 .. N : (i + ds[d]) % n \in 0 .. n - 1
    <3> HIDE DEF i
    <3> QED
      BY <1>1 DEF i
  <2>2. step \in [(1 .. N) \X Rounds(n) -> Rounds(n)]
    <3> SUFFICES ASSUME NEW x \in (1 .. N) \X Rounds(n)
                 PROVE  ShiftBack(x[2], n, (i + ds[x[1]]) % n) \in Rounds(n)
      OBVIOUS
    <3>1. x[2] \in Rounds(n) /\ (i + ds[x[1]]) % n \in 0 .. n - 1
      BY <2>0
    <3> QED
      BY <3>1, ShiftType
  <2>3. \A j \in 1 .. N, st \in Rounds(n) : step[<<j, st>>] = ShiftBack(st, n, (i + ds[j]) % n)
    OBVIOUS
  <2> HIDE DEF step
  <2>4. PICK F \in [SUBSET (1 .. N) -> Rounds(n)] : IsFold(F, N, base, step)
    BY <1>1, <2>1, <2>2, FoldsExist
  <2>5. \A s \in SUBSET (1 .. N) : F[s] = Op(s, F)
    <3> TAKE s \in SUBSET (1 .. N)
    <3>1. CASE s # {}
      <4>1. Max(s) \in 1 .. N /\ s \ {Max(s)} \in SUBSET (1 .. N)
        <5>0. IsFiniteSet(1 .. N) /\ 1 .. N \subseteq Int
          BY <1>1, FS_Interval
        <5>1. s \subseteq Int /\ IsFiniteSet(s)
          BY <5>0, FS_Subset
        <5> QED
          BY <3>1, <5>1, MaxOf
      <4>2. F[s \ {Max(s)}] \in Rounds(n)
        BY <4>1
      <4> QED
        BY <2>3, <2>4, <3>1, <4>1, <4>2 DEF IsFold
    <3>2. CASE s = {}
      BY <2>4, <3>2 DEF IsFold
    <3> QED
      BY <3>1, <3>2
  <2> HIDE DEF Op
  <2>6. F = [s \in SUBSET (1 .. N) |-> Op(s, F)]
    BY <2>5
  <2> QED
    BY <2>6
<1>4. Iter = [s \in SUBSET (1 .. N) |-> Op(s, Iter)]
  <2> HIDE DEF Op
  <2> QED
    BY <1>3
<1> HIDE DEF Iter, N, base, ds, i
<1>5. \A s \in SUBSET (1 .. N) : Iter[s] = Op(s, Iter)
  <2> HIDE DEF Op
  <2> QED
    BY <1>4
<1> DEFINE R == [d \in 0 .. N |-> Iter[1 .. d]]
<1>6. R[0] = base
  <2>1. 1 .. 0 = {} /\ 0 \in 0 .. N
    BY <1>1
  <2> QED
    BY <1>5, <2>1
<1>7. ASSUME NEW d \in 1 .. N PROVE R[d] = ShiftBack(R[d - 1], n, (i + d) % n)
  <2>1. Max(1 .. d) = d /\ (1 .. d) \ {d} = 1 .. d - 1 /\ 1 .. d # {} /\ 1 .. d \in SUBSET (1 .. N)
    BY <1>1, FoldPrefix
  <2>2. Iter[1 .. d] = ShiftBack(Iter[1 .. d - 1], n, (i + d) % n)
    BY <1>1, <1>5, <2>1
  <2>3. d \in 0 .. N /\ d - 1 \in 0 .. N
    BY <1>1
  <2> QED
    BY <2>2, <2>3
<1>8. R[N] = Iter[1 .. N]
  BY <1>1
<1> HIDE DEF R
<1> QED
  BY <1>2, <1>6, <1>7, <1>8 DEF N, base, i

(* The keys of a table after one of them has moved to an empty slot. *)
LEMMA MoveKeeps ==
  ASSUME NEW n \in Nat \ {0}, NEW m \in Tables(n), NEW p \in 0 .. n - 1, NEW q \in 0 .. n - 1,
         p # q, m[p] = NoPtr, m[q] # NoPtr
  PROVE  Occupants([m EXCEPT ![p] = m[q], ![q] = NoPtr], n) = Occupants(m, n)
<1> DEFINE w == [m EXCEPT ![p] = m[q], ![q] = NoPtr]
<1>1. w[p] = m[q] /\ w[q] = NoPtr /\ \A r \in 0 .. n - 1 : r # p /\ r # q => w[r] = m[r]
  BY DEF Tables
<1> HIDE DEF w
<1>2. Occupants(w, n) = Occupants(m, n)
  <2>1. ASSUME NEW x \in Occupants(w, n) PROVE x \in Occupants(m, n)
    BY <1>1 DEF Occupants
  <2>2. ASSUME NEW x \in Occupants(m, n) PROVE x \in Occupants(w, n)
    BY <1>1 DEF Occupants
  <2> QED
    BY <2>1, <2>2
<1> QED
  BY <1>2 DEF w

(* Before the round at x, seen from z: the gap lies before x and cuts off  *)
(* no key before x; after the stop it cuts off none.                       *)
InOrder(st, n, z, x, O) ==
  /\ st \in Rounds(n) /\ st.m[z] = NoPtr /\ Occupants(st.m, n) = O
  /\ st.stop => Line(Turned(st.m, n, z), HomeRank(n, z), n, n)
  /\ ~ st.stop =>
       /\ x <= n
       /\ \E g \in 1 .. x - 1 :
            /\ st.gap = Slot(z, g, n) /\ Turned(st.m, n, z)[g] = NoPtr
            /\ Line(Turned(st.m, n, z), HomeRank(n, z), n, g)
            /\ Settled(Turned(st.m, n, z), HomeRank(n, z), g, x)

LEMMA RoundKeepsOrder ==
  ASSUME HashTypes, NEW n \in Nat \ {0}, NEW z \in 0 .. n - 1, NEW x \in Nat \ {0}, NEW O, NEW st,
         InOrder(st, n, z, x, O), NEW j \in 0 .. n - 1,
         x < n => j = Slot(z, x, n), x = n => j = z
  PROVE  InOrder(ShiftBack(st, n, j), n, z, x + 1, O)
<1> DEFINE t == Turned(st.m, n, z)
           H == HomeRank(n, z)
           new == ShiftBack(st, n, j)
<1>1. st \in Rounds(n) /\ st.m[z] = NoPtr /\ Occupants(st.m, n) = O /\ new \in Rounds(n)
  BY ShiftType DEF InOrder
<1>2. /\ st.m \in Tables(n) /\ st.gap \in 0 .. n - 1 /\ st.stop \in BOOLEAN
      /\ st = [m |-> st.m, gap |-> st.gap, stop |-> st.stop]
  BY <1>1 DEF Rounds
<1>3. t \in Tables(n) /\ \A c \in 0 .. n - 1 : t[c] = st.m[Slot(z, c, n)]
  BY <1>2, TurnedType DEF Turned
<1>4. H \in [Pointer -> 0 .. n - 1] /\ \A k \in Pointer : Home(k, n) = Slot(z, H[k], n)
  BY RankTypes
<1> HIDE DEF t, H, new
<1>5. CASE st.stop
  <2>1. Line(t, H, n, n)
    BY <1>5 DEF InOrder, t, H
  <2>2. new = st
    BY <1>2, <1>5 DEF ShiftBack, new
  <2> QED
    BY <1>1, <1>5, <2>1, <2>2 DEF InOrder, t, H, new
<1>6. CASE ~ st.stop
  <2>1. PICK g \in 1 .. x - 1 : st.gap = Slot(z, g, n) /\ t[g] = NoPtr /\ Line(t, H, n, g)
                                /\ Settled(t, H, g, x)
    BY <1>6 DEF InOrder, t, H
  <2>2. x \in 1 .. n /\ g \in 0 .. n - 1
    BY <1>6 DEF InOrder
  <2>3. CASE st.m[j] = NoPtr
    <3>1. x # n => t[x] = NoPtr
      BY <1>3, <2>2, <2>3
    <3>2. Line(t, H, n, n)
      BY <1>3, <1>4, <2>1, <2>2, <3>1, ShiftEnds
    <3>3. new.m = st.m /\ new.stop
      BY <1>2, <2>3 DEF ShiftBack, new
    <3> QED
      BY <1>1, <3>2, <3>3 DEF InOrder, t, H, new
  <2>4. CASE st.m[j] # NoPtr
    <3>1. x \in 0 .. n - 1 /\ j = Slot(z, x, n) /\ x < n
      BY <1>1, <2>2, <2>4
    <3>2. t[x] = st.m[j]
      BY <1>3, <3>1
    <3> DEFINE y == t[x]
    <3>3. y \in Pointer /\ H[y] \in 0 .. x /\ Home(y, n) = Slot(z, H[y], n)
      <4>1. y \in Pointer
        BY <1>3, <2>4, <3>1, <3>2 DEF Tables
      <4>2. H[y] <= x
        BY <2>1, <2>4, <3>1, <3>2 DEF Line
      <4> QED
        BY <1>4, <4>1, <4>2
    <3> HIDE DEF y
    <3>4. g \in 0 .. x - 1
      BY <2>1
    <3>5. MoveBack(Home(y, n), st.gap, j) <=> H[y] <= g
      BY <2>1, <3>1, <3>3, <3>4, MoveBackMeans
    <3>6. CASE H[y] <= g
      <4> DEFINE w == [st.m EXCEPT ![st.gap] = st.m[j], ![j] = NoPtr]
                 u == Turned(w, n, z)
      <4>1. new = [m |-> w, gap |-> j, stop |-> FALSE]
        BY <1>6, <2>4, <3>2, <3>5, <3>6 DEF ShiftBack, new, y
      <4>2. st.m[st.gap] = NoPtr /\ st.gap # j
        BY <1>3, <2>1, <2>2, <2>4
      <4>3. w \in Tables(n)
        BY <1>2 DEF Tables
      <4>4. w[st.gap] = st.m[j] /\ w[j] = NoPtr
            /\ \A r \in 0 .. n - 1 : r # st.gap /\ r # j => w[r] = st.m[r]
        BY <1>2, <4>2 DEF Tables
      <4>5. Occupants(w, n) = O
        BY <1>1, <1>2, <2>4, <4>2, MoveKeeps
      <4> HIDE DEF w
      <4>6. u \in Tables(n) /\ \A c \in 0 .. n - 1 : u[c] = w[Slot(z, c, n)]
        BY <4>3, TurnedType DEF Turned
      <4> HIDE DEF u
      <4>7. \A c \in 0 .. n - 1 : Slot(z, c, n) \in 0 .. n - 1
              /\ (Slot(z, c, n) = st.gap <=> c = g) /\ (Slot(z, c, n) = j <=> c = x)
        <5>1. \A c \in 0 .. n - 1 : Slot(z, c, n) \in 0 .. n - 1 /\ Rank(z, Slot(z, c, n), n) = c
          BY SlotRank
        <5>2. Rank(z, st.gap, n) = g /\ Rank(z, j, n) = x
          BY <2>1, <2>2, <3>1, <5>1
        <5> QED
          BY <2>1, <3>1, <5>1, <5>2
      <4>8. u[g] = y /\ u[x] = NoPtr /\ \A c \in 0 .. n - 1 : c # g /\ c # x => u[c] = t[c]
        BY <1>3, <2>1, <2>2, <3>1, <3>2, <4>4, <4>6, <4>7 DEF y
      <4>9. Line(u, H, n, x) /\ Settled(u, H, x, x + 1)
        <5>1. t[x] # NoPtr
          BY <2>4, <3>2
        <5> QED
          BY <1>3, <1>4, <2>1, <3>1, <3>6, <4>6, <4>8, <5>1, ShiftMoves DEF y
      <4>10. w[z] = NoPtr
        <5>1. z # st.gap
          <6>1. Slot(z, 0, n) = z /\ 0 \in 0 .. n - 1 /\ g # 0
            BY SlotRank
          <6> QED
            BY <4>7, <6>1
        <5> QED
          BY <1>1, <4>4, <5>1
      <4>11. x \in 1 .. (x + 1) - 1 /\ x + 1 <= n
        BY <3>1
      <4>12. /\ new.m = w /\ new.gap = Slot(z, x, n) /\ ~ new.stop
        BY <3>1, <4>1
      <4> QED
        BY <1>1, <4>5, <4>8, <4>9, <4>10, <4>11, <4>12 DEF InOrder, H, u, new
    <3>7. CASE ~ (H[y] <= g)
      <4>1. new = st
        BY <1>6, <2>4, <3>2, <3>5, <3>7 DEF ShiftBack, new, y
      <4>2. Settled(t, H, g, x + 1)
        <5> SUFFICES ASSUME NEW c \in g + 1 .. (x + 1) - 1, t[c] # NoPtr PROVE H[t[c]] > g
          BY DEF Settled
        <5>1. CASE c = x
          BY <3>3, <3>7, <5>1 DEF y
        <5>2. CASE c # x
          <6>1. c \in g + 1 .. x - 1
            BY <5>2
          <6> QED
            BY <2>1, <6>1 DEF Settled
        <5> QED
          BY <5>1, <5>2
      <4>3. g \in 1 .. (x + 1) - 1 /\ x + 1 <= n
        BY <3>1
      <4> QED
        BY <1>1, <1>6, <2>1, <4>1, <4>2, <4>3 DEF InOrder, t, H, new
    <3> QED
      BY <3>6, <3>7
  <2> QED
    BY <2>3, <2>4
<1> QED
  BY <1>5, <1>6

(* Deleting a key leaves a table of the others. *)
LEMMA RemovedIsTable ==
  ASSUME HashTypes, NEW n \in Nat \ {0}, NEW m, IsTable(m, n), HasGap(m, n),
         NEW k \in Occupants(m, n)
  PROVE  /\ IsTable(Removed(m, n, k), n) /\ HasGap(Removed(m, n, k), n)
         /\ Occupants(Removed(m, n, k), n) = Occupants(m, n) \ {k}
<1> DEFINE i == SlotOf(m, n, k)
           m0 == [m EXCEPT ![i] = NoPtr]
           O == Occupants(m, n) \ {k}
<1>1. m \in Tables(n) /\ k \in Pointer /\ k # NoPtr
  BY DEF IsTable, Tables, Occupants
<1>2. i \in 0 .. n - 1 /\ m[i] = k
  BY <1>1, SearchFinds
<1> HIDE DEF i
<1>3. PICK z \in 0 .. n - 1 : m[z] = NoPtr
  BY DEF HasGap
<1> DEFINE a == Rank(z, i, n)
           t == Turned(m, n, z)
           t0 == Turned(m0, n, z)
<1>4. a \in 1 .. n - 1 /\ Slot(z, a, n) = i
  <2>0. /\ \A p \in 0 .. n - 1 : Rank(z, p, n) \in 0 .. n - 1 /\ Slot(z, Rank(z, p, n), n) = p
        /\ Slot(z, 0, n) = z
    BY SlotRank
  <2>1. a \in 0 .. n - 1 /\ Slot(z, a, n) = i /\ Slot(z, 0, n) = z
    BY <1>2, <2>0
  <2> HIDE DEF a
  <2>2. a # 0
    BY <1>1, <1>2, <1>3, <2>1
  <2> QED
    BY <2>1, <2>2
<1> HIDE DEF a
<1>5. m0 \in Tables(n) /\ m0[i] = NoPtr /\ \A p \in 0 .. n - 1 : p # i => m0[p] = m[p]
  BY <1>1, <1>2 DEF Tables
<1> HIDE DEF m0
<1>6. Occupants(m0, n) = O
  <2>1. \A p \in 0 .. n - 1 : m[p] = k => p = i
    BY <1>1, <1>2, OneSlot
  <2> QED
    BY <1>1, <1>2, <1>5, <2>1 DEF Occupants
<1>7. PICK R : /\ R[0] = [m |-> m0, gap |-> i, stop |-> FALSE]
               /\ \A d \in 1 .. n - 1 : R[d] = ShiftBack(R[d - 1], n, (i + d) % n)
               /\ Removed(m, n, k) = R[n - 1].m
  BY <1>1, <1>2, RemovedUnrolls DEF i, m0
<1> HIDE DEF O
<1>8. InOrder(R[0], n, z, a + 1, O)
  <2>1. Line(t, HomeRank(n, z), n, n)
    BY <1>3, TableIsLine
  <2>2. \A c \in 0 .. n - 1 : /\ t[c] = m[Slot(z, c, n)] /\ t0[c] = m0[Slot(z, c, n)]
                              /\ Slot(z, c, n) \in 0 .. n - 1
                              /\ (Slot(z, c, n) = i <=> c = a)
    <3>1. \A c \in 0 .. n - 1 : Slot(z, c, n) \in 0 .. n - 1 /\ Rank(z, Slot(z, c, n), n) = c
      BY SlotRank
    <3>2. Rank(z, i, n) = a
      BY <1>4, <3>1
    <3> QED
      BY <1>4, <3>1, <3>2 DEF Turned
  <2>3. \A c \in 0 .. n - 1 : c # a => t0[c] = t[c]
    BY <1>5, <2>2
  <2>4. t0[a] = NoPtr
    BY <1>4, <1>5, <2>2
  <2> HIDE DEF t, t0
  <2>5. Line(t0, HomeRank(n, z), n, a)
    <3> SUFFICES ASSUME NEW c \in 0 .. n - 1, t0[c] # NoPtr
                 PROVE  /\ HomeRank(n, z)[t0[c]] <= c
                        /\ \A e \in HomeRank(n, z)[t0[c]] .. c - 1 :
                             (t0[e] # NoPtr \/ e = a) /\ t0[e] # t0[c]
      BY DEF Line
    <3>1. c # a /\ t0[c] = t[c] /\ t[c] # NoPtr
      BY <2>3, <2>4
    <3>2. /\ HomeRank(n, z)[t[c]] <= c
          /\ \A e \in HomeRank(n, z)[t[c]] .. c - 1 : (t[e] # NoPtr \/ e = n) /\ t[e] # t[c]
      BY <2>1, <3>1 DEF Line
    <3>3. HomeRank(n, z)[t[c]] \in 0 .. n - 1
      <4>1. t[c] \in Pointer
        BY <1>1, <2>2, <3>1 DEF Tables
      <4> QED
        BY <4>1, RankTypes
    <3>4. ASSUME NEW e \in HomeRank(n, z)[t[c]] .. c - 1
          PROVE  (t0[e] # NoPtr \/ e = a) /\ t0[e] # t0[c]
      <4>1. e \in 0 .. n - 1 /\ e # n
        BY <3>3
      <4>2. t[e] # NoPtr /\ t[e] # t[c]
        BY <3>2, <4>1
      <4> QED
        BY <2>3, <2>4, <3>1, <4>1, <4>2
    <3> QED
      BY <3>1, <3>2, <3>4
  <2>6. Settled(t0, HomeRank(n, z), a, a + 1)
    BY <1>4 DEF Settled
  <2>7. m0[z] = NoPtr
    BY <1>3, <1>5
  <2>8. R[0] \in Rounds(n) /\ R[0].m = m0 /\ R[0].gap = i /\ ~ R[0].stop
    BY <1>2, <1>5, <1>7 DEF Rounds
  <2>9. a \in 1 .. (a + 1) - 1 /\ a + 1 <= n
    BY <1>4
  <2> QED
    BY <1>4, <1>6, <2>4, <2>5, <2>6, <2>7, <2>8, <2>9 DEF InOrder, t0
<1> DEFINE Good(d) == InOrder(R[d], n, z, a + d + 1, O)
           C == {d \in 0 .. n - 1 : ~ Good(d)}
<1>9. C = {}
  <2>1. SUFFICES ASSUME C # {} PROVE FALSE
    OBVIOUS
  <2>2. PICK d \in C : \A e \in C : d <= e
    <3>1. C \subseteq Nat
      OBVIOUS
    <3> HIDE DEF C
    <3> QED
      BY <2>1, <3>1, LeastElement
  <2>3. d \in 0 .. n - 1 /\ ~ Good(d)
    OBVIOUS
  <2>4. CASE d = 0
    <3>1. a + 0 + 1 = a + 1
      BY <1>4
    <3> QED
      BY <1>8, <2>3, <2>4, <3>1
  <2>5. CASE d # 0
    <3>1. d \in 1 .. n - 1 /\ d - 1 \in 0 .. n - 1 /\ ~ (d <= d - 1)
      BY <2>3, <2>5
    <3>2. Good(d - 1)
      BY <2>2, <3>1
    <3> DEFINE x == a + d
               j == (i + d) % n
    <3>3. a + (d - 1) + 1 = x /\ x \in Nat \ {0}
      BY <1>4, <3>1
    <3>4. j \in 0 .. n - 1 /\ (x < n => j = Slot(z, x, n)) /\ (x = n => j = z)
      <4>1. j = Slot(i, d, n) /\ Slot(i, d, n) \in 0 .. n - 1
        BY <1>2, <3>1, ModSlot
      <4>2. i = Slot(z, a, n)
        BY <1>4
      <4> HIDE DEF j
      <4> QED
        BY <1>4, <3>1, <4>1, <4>2 DEF Slot
    <3>5. R[d] = ShiftBack(R[d - 1], n, j)
      BY <1>7, <3>1
    <3>6. InOrder(R[d - 1], n, z, x, O)
      BY <3>2, <3>3
    <3> HIDE DEF x, j
    <3>7. InOrder(R[d], n, z, x + 1, O)
      BY <3>3, <3>4, <3>5, <3>6, RoundKeepsOrder
    <3> QED
      BY <2>3, <3>7 DEF x
  <2> QED
    BY <2>4, <2>5
<1> DEFINE st == R[n - 1]
<1>10. InOrder(st, n, z, a + (n - 1) + 1, O)
  <2>1. n - 1 \in 0 .. n - 1
    OBVIOUS
  <2> QED
    BY <1>9, <2>1
<1> HIDE DEF st
<1>11. st.stop /\ st \in Rounds(n)
  <2>1. ~ (a + (n - 1) + 1 <= n)
    BY <1>4
  <2> QED
    BY <1>10, <2>1 DEF InOrder
<1>12. st.m \in Tables(n) /\ st.m[z] = NoPtr /\ Occupants(st.m, n) = O
       /\ Line(Turned(st.m, n, z), HomeRank(n, z), n, n)
  BY <1>10, <1>11 DEF InOrder, Rounds
<1>13. IsTable(st.m, n) /\ HasGap(st.m, n)
  BY <1>12, LineIsTable DEF HasGap
<1> QED
  BY <1>7, <1>12, <1>13 DEF st, O

(***************************************************************************)
(* The theorems.                                                           *)
(***************************************************************************)
(* In every reachable state the table is in order.                         *)
THEOREM PtrMapAlways == PtrMapSpec => []PtrMapInv
<1>1. PtrMapStart => PtrMapInv
  BY PtrMapStartInv
<1>2. PtrMapInv /\ [PtrMapNext]_ptrMapVars => PtrMapInv'
  BY PtrMapStepInv
<1> QED
  BY <1>1, <1>2, PTL DEF PtrMapSpec

(* Every probe loop of ptr_map ends: the table is grown before it is full, *)
(* also after any number of sweeps, refills and halvings.                  *)
THEOREM ProbesAlwaysEnd == PtrMapSpec => []ProbesEnd
<1>1. PtrMapInv => ProbesEnd
  BY AllocatedTable DEF ProbesEnd, HasGap
<1> QED
  BY <1>1, PtrMapAlways, PTL

LEMMA LookupIsExact ==
  ASSUME PtrMapInv
  PROVE  LookupExact
<1> SUFFICES ASSUME map_phase = "run"
             PROVE  /\ \A k \in Pointer :
                         PtrMapLookup(k) = IF k \in ToSet(heap_list) THEN k ELSE NoPtr
                    /\ ptr_map_size = Len(heap_list)
  BY DEF LookupExact
<1>1. ptr_map_size = Len(heap_list)
  BY DEF PtrMapInv, HeapInv
<1>2. ASSUME NEW k \in Pointer
      PROVE  PtrMapLookup(k) = IF k \in ToSet(heap_list) THEN k ELSE NoPtr
  <2>1. CASE ptr_map = NoPtr
    <3>1. heap_list = << >>
      BY <2>1 DEF PtrMapInv, HeapInv
    <3>2. ToSet(heap_list) = {}
      BY <3>1 DEF ToSet
    <3> QED
      BY <2>1, <3>2 DEF PtrMapLookup
  <2>2. CASE ptr_map # NoPtr
    <3>1. /\ HashTypes /\ ptr_map_cap \in Nat \ {0} /\ IsTable(ptr_map, ptr_map_cap)
          /\ HasGap(ptr_map, ptr_map_cap)
          /\ Occupants(ptr_map, ptr_map_cap) = ToSet(heap_list)
      BY <2>2, AllocatedTable
    <3> QED
      BY <2>2, <3>1, SearchFinds DEF PtrMapLookup
  <2> QED
    BY <2>1, <2>2
<1> QED
  BY <1>1, <1>2

LEMMA RemoveIsExact ==
  ASSUME PtrMapInv
  PROVE  RemoveExact
<1> SUFFICES ASSUME ptr_map # NoPtr, NEW k \in ToSet(heap_list), NEW x \in Pointer
             PROVE  Removed(ptr_map, ptr_map_cap, k)
                      [SlotOf(Removed(ptr_map, ptr_map_cap, k), ptr_map_cap, x)] =
                    IF x \in ToSet(heap_list) \ {k} THEN x ELSE NoPtr
  BY DEF RemoveExact
<1>1. /\ HashTypes /\ ptr_map_cap \in Nat \ {0} /\ IsTable(ptr_map, ptr_map_cap)
      /\ HasGap(ptr_map, ptr_map_cap)
      /\ Occupants(ptr_map, ptr_map_cap) = ToSet(heap_list)
  BY AllocatedTable
<1> DEFINE m == Removed(ptr_map, ptr_map_cap, k)
<1>2. /\ IsTable(m, ptr_map_cap) /\ HasGap(m, ptr_map_cap)
      /\ Occupants(m, ptr_map_cap) = ToSet(heap_list) \ {k}
  BY <1>1, RemovedIsTable
<1> HIDE DEF m
<1>3. m[SlotOf(m, ptr_map_cap, x)] = IF x \in ToSet(heap_list) \ {k} THEN x ELSE NoPtr
  BY <1>1, <1>2, SearchFinds
<1> QED
  BY <1>3 DEF m

(* find_gc_header finds exactly the blocks of the heap list, through every *)
(* sequence of insertions, growths, sweeps, halvings and failures of       *)
(* calloc, for every hash; and the deletion by backward shift, which sweep *)
(* no longer uses, leaves every other key findable.                        *)
THEOREM MapFindsHeap == PtrMapSpec => []PointerMapExact
<1>1. PtrMapInv => PointerMapExact
  BY LookupIsExact, RemoveIsExact DEF PtrMapInv, PointerMapExact
<1> QED
  BY <1>1, PtrMapAlways, PTL

(***************************************************************************)
(* The chunk table: what its loops do to the set of records of a table.    *)
(***************************************************************************)
ChunkIds == {id \in Nat : ChunkHash(id) \in Nat}
Record == [id : ChunkIds, entries : Seq(Extent)]
ChunkTables(n) == [0 .. n - 1 -> Seq(Record)]

(* The records of a table, and the <<block, chunk>> entered in some.       *)
Records(t, n) == UNION {ToSet(t[i]) : i \in 0 .. n - 1}
IdsOf(t, n) == {r.id : r \in Records(t, n)}
Held(t, n) == UNION {ToSet(r.entries) \X {r.id} : r \in Records(t, n)}

(* Every record is in the bucket of its chunk, the only one of its chunk.  *)
WellPlaced(t, n) ==
  /\ t \in ChunkTables(n)
  /\ \A i \in 0 .. n - 1 : \A p \in DOMAIN t[i] : BucketOf(t[i][p].id, n) = i
  /\ \A i \in 0 .. n - 1 : \A p, q \in DOMAIN t[i] : t[i][p].id = t[i][q].id => p = q

LEMMA BucketType ==
  ASSUME NEW id \in ChunkIds, NEW n \in Nat \ {0}
  PROVE  BucketOf(id, n) \in 0 .. n - 1
BY DEF BucketOf, ChunkIds

LEMMA RecordIn ==
  ASSUME NEW n \in Nat \ {0}, NEW t, NEW r
  PROVE  r \in Records(t, n) <=> \E i \in 0 .. n - 1 : \E p \in DOMAIN t[i] : r = t[i][p]
BY DEF Records, ToSet

LEMMA RecordType ==
  ASSUME NEW n \in Nat \ {0}, NEW t \in ChunkTables(n)
  PROVE  Records(t, n) \subseteq Record
<1> SUFFICES ASSUME NEW i \in 0 .. n - 1, NEW p \in DOMAIN t[i] PROVE t[i][p] \in Record
  BY RecordIn
<1>1. t[i] \in Seq(Record)
  BY DEF ChunkTables
<1> QED
  BY <1>1

LEMMA HeldIn ==
  ASSUME NEW n \in Nat \ {0}, NEW t, NEW b, NEW id
  PROVE  <<b, id>> \in Held(t, n)
           <=> \E r \in Records(t, n) : r.id = id /\ \E e \in DOMAIN r.entries : r.entries[e] = b
BY DEF Held, ToSet

(* What a record at the front of a chain does to the indices.              *)
LEMMA PushedChain ==
  ASSUME NEW S, NEW s \in Seq(S), NEW r \in S
  PROVE  LET u == <<r>> \o s IN
         /\ u \in Seq(S) /\ DOMAIN u = 1 .. Len(s) + 1 /\ u[1] = r
         /\ \A p \in DOMAIN s : p + 1 \in DOMAIN u /\ u[p + 1] = s[p]
         /\ \A q \in DOMAIN u : q # 1 => q - 1 \in DOMAIN s /\ u[q] = s[q - 1]
OBVIOUS

LEMMA PushType ==
  ASSUME NEW n \in Nat \ {0}, NEW t \in ChunkTables(n), NEW r \in Record
  PROVE  PushRecord(t, n, r) \in ChunkTables(n)
<1>1. BucketOf(r.id, n) \in 0 .. n - 1
  BY BucketType DEF Record
<1>2. t[BucketOf(r.id, n)] \in Seq(Record)
  BY <1>1 DEF ChunkTables
<1>3. <<r>> \o t[BucketOf(r.id, n)] \in Seq(Record)
  BY <1>2
<1> QED
  BY <1>1, <1>3 DEF PushRecord, ChunkTables

(* A record of a new chunk, pushed, is one more record of the table.       *)
LEMMA PushAdds ==
  ASSUME NEW n \in Nat \ {0}, NEW t, WellPlaced(t, n), NEW r \in Record, r.id \notin IdsOf(t, n)
  PROVE  /\ WellPlaced(PushRecord(t, n, r), n)
         /\ Records(PushRecord(t, n, r), n) = Records(t, n) \cup {r}
<1> DEFINE k == BucketOf(r.id, n)
           u == PushRecord(t, n, r)
<1>1. t \in ChunkTables(n) /\ u \in ChunkTables(n) /\ k \in 0 .. n - 1
  BY PushType, BucketType DEF WellPlaced, Record
<1>2. /\ t[k] \in Seq(Record) /\ u[k] = <<r>> \o t[k]
      /\ \A i \in 0 .. n - 1 : i # k => u[i] = t[i]
  BY <1>1 DEF PushRecord, ChunkTables
<1>3. /\ DOMAIN u[k] = 1 .. Len(t[k]) + 1 /\ u[k][1] = r
      /\ \A p \in DOMAIN t[k] : p + 1 \in DOMAIN u[k] /\ u[k][p + 1] = t[k][p]
      /\ \A q \in DOMAIN u[k] : q # 1 => q - 1 \in DOMAIN t[k] /\ u[k][q] = t[k][q - 1]
  <2> HIDE DEF u, k
  <2> QED
    BY <1>2, PushedChain
<1>4. 1 \in DOMAIN u[k] /\ DOMAIN u[k] \subseteq Int
  <2>1. Len(t[k]) \in Nat
    BY <1>2
  <2> QED
    BY <1>3, <2>1
<1>5. \A i \in 0 .. n - 1 : \A p \in DOMAIN t[i] : t[i][p].id # r.id
  BY RecordIn DEF IdsOf
<1> HIDE DEF u
<1>6. \A i \in 0 .. n - 1 : \A p \in DOMAIN u[i] : BucketOf(u[i][p].id, n) = i
  <2> TAKE i \in 0 .. n - 1
  <2> TAKE p \in DOMAIN u[i]
  <2>1. CASE i # k
    BY <1>2, <2>1 DEF WellPlaced
  <2>2. CASE i = k /\ p = 1
    BY <1>3, <2>2
  <2>3. CASE i = k /\ p # 1
    <3>1. p - 1 \in DOMAIN t[k] /\ u[k][p] = t[k][p - 1]
      BY <1>3, <2>3
    <3> QED
      BY <1>1, <2>3, <3>1 DEF WellPlaced
  <2> QED
    BY <2>1, <2>2, <2>3
<1>7. \A i \in 0 .. n - 1 : \A p, q \in DOMAIN u[i] : u[i][p].id = u[i][q].id => p = q
  <2> TAKE i \in 0 .. n - 1
  <2>1. CASE i # k
    BY <1>2, <2>1 DEF WellPlaced
  <2>2. CASE i = k
    <3> SUFFICES ASSUME NEW p \in DOMAIN u[k], NEW q \in DOMAIN u[k], u[k][p].id = u[k][q].id
                 PROVE  p = q
      BY <2>2
    <3>1. CASE p # 1 /\ q # 1
      <4>1. /\ p - 1 \in DOMAIN t[k] /\ u[k][p] = t[k][p - 1]
            /\ q - 1 \in DOMAIN t[k] /\ u[k][q] = t[k][q - 1]
        BY <1>3, <3>1
      <4>2. p - 1 = q - 1
        BY <1>1, <4>1 DEF WellPlaced
      <4> QED
        BY <1>4, <4>2
    <3>2. CASE p = 1 /\ q # 1
      <4>1. q - 1 \in DOMAIN t[k] /\ u[k][q] = t[k][q - 1]
        BY <1>3, <3>2
      <4> QED
        BY <1>1, <1>3, <1>5, <3>2, <4>1
    <3>3. CASE p # 1 /\ q = 1
      <4>1. p - 1 \in DOMAIN t[k] /\ u[k][p] = t[k][p - 1]
        BY <1>3, <3>3
      <4> QED
        BY <1>1, <1>3, <1>5, <3>3, <4>1
    <3> QED
      BY <3>1, <3>2, <3>3
  <2> QED
    BY <2>1, <2>2
<1>8. \A x : x \in Records(u, n) <=> x \in Records(t, n) \/ x = r
  <2> TAKE x
  <2>1. ASSUME x \in Records(u, n) PROVE x \in Records(t, n) \/ x = r
    <3>0. PICK i \in 0 .. n - 1 : \E p \in DOMAIN u[i] : x = u[i][p]
      BY <2>1, RecordIn
    <3>1. PICK p \in DOMAIN u[i] : x = u[i][p]
      BY <3>0
    <3>2. CASE i # k
      <4>1. p \in DOMAIN t[i] /\ x = t[i][p]
        BY <1>2, <3>1, <3>2
      <4> QED
        BY <4>1, RecordIn
    <3>3. CASE i = k
      BY <1>1, <1>3, <3>1, <3>3, RecordIn
    <3> QED
      BY <3>2, <3>3
  <2>2. ASSUME x \in Records(t, n) PROVE x \in Records(u, n)
    <3>0. PICK i \in 0 .. n - 1 : \E p \in DOMAIN t[i] : x = t[i][p]
      BY <2>2, RecordIn
    <3>1. PICK p \in DOMAIN t[i] : x = t[i][p]
      BY <3>0
    <3>2. \E q \in DOMAIN u[i] : x = u[i][q]
      BY <1>2, <1>3, <3>1
    <3> QED
      BY <3>2, RecordIn
  <2>3. r \in Records(u, n)
    BY <1>1, <1>3, <1>4, RecordIn
  <2> QED
    BY <2>1, <2>2, <2>3
<1> QED
  BY <1>1, <1>6, <1>7, <1>8 DEF WellPlaced, u

(***************************************************************************)
(* The two loops of chunk_table_grow.                                      *)
(***************************************************************************)

(* The inner one takes one step for every record of a chain.               *)
LEMMA PushChainUnrolls ==
  ASSUME NEW n \in Nat \ {0}, NEW t \in ChunkTables(n), NEW chain \in Seq(Record)
  PROVE  \E R \in [0 .. Len(chain) -> ChunkTables(n)] :
           /\ R[0] = t
           /\ \A i \in 1 .. Len(chain) : R[i] = PushRecord(R[i - 1], n, chain[i])
           /\ PushChain(t, n, chain) = R[Len(chain)]
<1> DEFINE N == Len(chain)
           Op(s, it) == IF s = {} THEN t
                        ELSE PushRecord(it[s \ {Max(s)}], n, chain[Max(s)])
           Iter == CHOOSE it : it = [s \in SUBSET (1 .. N) |-> Op(s, it)]
           step == [x \in (1 .. N) \X ChunkTables(n) |-> PushRecord(x[2], n, chain[x[1]])]
<1>1. N \in Nat /\ DOMAIN chain = 1 .. N /\ \A i \in 1 .. N : chain[i] \in Record
  OBVIOUS
<1>2. PushChain(t, n, chain) = Iter[1 .. N]
  BY <1>1 DEF PushChain, FoldLeft, MapThenFoldSet
<1> HIDE DEF N
<1>3. step \in [(1 .. N) \X ChunkTables(n) -> ChunkTables(n)]
  <2> SUFFICES ASSUME NEW x \in (1 .. N) \X ChunkTables(n)
               PROVE  PushRecord(x[2], n, chain[x[1]]) \in ChunkTables(n)
    OBVIOUS
  <2>1. x[2] \in ChunkTables(n) /\ chain[x[1]] \in Record
    BY <1>1
  <2> QED
    BY <2>1, PushType
<1>4. \A j \in 1 .. N, m \in ChunkTables(n) : step[<<j, m>>] = PushRecord(m, n, chain[j])
  OBVIOUS
<1> HIDE DEF step
<1>5. PICK F \in [SUBSET (1 .. N) -> ChunkTables(n)] : IsFold(F, N, t, step)
  BY <1>1, <1>3, FoldsExist
<1>6. \A s \in SUBSET (1 .. N) : F[s] = Op(s, F)
  <2> TAKE s \in SUBSET (1 .. N)
  <2>1. CASE s # {}
    <3>1. Max(s) \in 1 .. N /\ s \ {Max(s)} \in SUBSET (1 .. N)
      BY <1>1, <2>1, GreatestOfPrefix
    <3>2. F[s \ {Max(s)}] \in ChunkTables(n)
      BY <3>1
    <3> QED
      BY <1>4, <1>5, <2>1, <3>1, <3>2 DEF IsFold
  <2>2. CASE s = {}
    BY <1>5, <2>2 DEF IsFold
  <2> QED
    BY <2>1, <2>2
<1>7. F = [s \in SUBSET (1 .. N) |-> Op(s, F)]
  <2> HIDE DEF Op
  <2> QED
    BY <1>6
<1>8. Iter = [s \in SUBSET (1 .. N) |-> Op(s, Iter)]
  <2> HIDE DEF Op
  <2> QED
    BY <1>7
<1> HIDE DEF Iter
<1>9. \A s \in SUBSET (1 .. N) : Iter[s] = Op(s, Iter)
  <2> HIDE DEF Op
  <2> QED
    BY <1>8
<1> DEFINE R == [i \in 0 .. N |-> Iter[1 .. i]]
<1>10. R[0] = t
  <2>1. 1 .. 0 = {} /\ 0 \in 0 .. N
    BY <1>1
  <2> QED
    BY <1>9, <2>1
<1>11. ASSUME NEW i \in 1 .. N PROVE R[i] = PushRecord(R[i - 1], n, chain[i])
  <2>1. Max(1 .. i) = i /\ (1 .. i) \ {i} = 1 .. i - 1 /\ 1 .. i # {} /\ 1 .. i \in SUBSET (1 .. N)
    BY <1>1, FoldPrefix
  <2>2. Iter[1 .. i] = PushRecord(Iter[1 .. i - 1], n, chain[i])
    BY <1>9, <2>1
  <2>3. i \in 0 .. N /\ i - 1 \in 0 .. N
    BY <1>1
  <2> QED
    BY <2>2, <2>3
<1>12. R[N] = Iter[1 .. N] /\ DOMAIN R = 0 .. N
  BY <1>1
<1> HIDE DEF R
<1>13. \A i \in 0 .. N : R[i] \in ChunkTables(n)
  <2> DEFINE C == {i \in 0 .. N : R[i] \notin ChunkTables(n)}
  <2>1. SUFFICES ASSUME C # {} PROVE FALSE
    OBVIOUS
  <2>2. PICK i \in C : \A k \in C : i <= k
    <3>1. C \subseteq Nat
      BY <1>1
    <3> HIDE DEF C
    <3> QED
      BY <2>1, <3>1, LeastElement
  <2>3. i # 0
    BY <1>10
  <2>4. i \in 1 .. N /\ i - 1 \in 0 .. N /\ ~ (i <= i - 1)
    BY <1>1, <2>3
  <2>5. R[i - 1] \in ChunkTables(n)
    BY <2>2, <2>4
  <2>6. R[i] \in ChunkTables(n)
    BY <1>1, <1>11, <2>4, <2>5, PushType
  <2> QED
    BY <2>6
<1>14. R \in [0 .. N -> ChunkTables(n)]
  BY <1>12, <1>13 DEF R
<1> QED
  BY <1>2, <1>10, <1>11, <1>12, <1>14 DEF N

(* The records of the chain join those of the table.                       *)
LEMMA PushChainAdds ==
  ASSUME NEW n \in Nat \ {0}, NEW t, WellPlaced(t, n), NEW chain \in Seq(Record),
         \A p, q \in DOMAIN chain : chain[p].id = chain[q].id => p = q,
         \A p \in DOMAIN chain : chain[p].id \notin IdsOf(t, n)
  PROVE  /\ WellPlaced(PushChain(t, n, chain), n)
         /\ Records(PushChain(t, n, chain), n) = Records(t, n) \cup ToSet(chain)
<1> DEFINE N == Len(chain)
<1>1. N \in Nat /\ DOMAIN chain = 1 .. N /\ \A i \in 1 .. N : chain[i] \in Record
  OBVIOUS
<1>2. PICK R \in [0 .. Len(chain) -> ChunkTables(n)] :
           /\ R[0] = t
           /\ \A i \in 1 .. Len(chain) : R[i] = PushRecord(R[i - 1], n, chain[i])
           /\ PushChain(t, n, chain) = R[Len(chain)]
  <2>1. t \in ChunkTables(n)
    BY DEF WellPlaced
  <2> QED
    BY <2>1, PushChainUnrolls
<1> DEFINE Upto(i) == {chain[j] : j \in 1 .. i}
           Good(i) == WellPlaced(R[i], n) /\ Records(R[i], n) = Records(t, n) \cup Upto(i)
           C == {i \in 0 .. N : ~ Good(i)}
<1> HIDE DEF N
<1>3. C = {}
  <2>1. SUFFICES ASSUME C # {} PROVE FALSE
    OBVIOUS
  <2>2. PICK i \in C : \A k \in C : i <= k
    <3>1. C \subseteq Nat
      BY <1>1
    <3> HIDE DEF C
    <3> QED
      BY <2>1, <3>1, LeastElement
  <2>3. i \in 0 .. N /\ ~ Good(i)
    OBVIOUS
  <2> HIDE DEF C
  <2>4. CASE i = 0
    <3>1. Upto(0) = {}
      OBVIOUS
    <3> QED
      BY <1>2, <2>3, <2>4, <3>1
  <2>5. CASE i # 0
    <3>1. i \in 1 .. N /\ i - 1 \in 0 .. N /\ ~ (i <= i - 1)
      BY <1>1, <2>3, <2>5
    <3>2. Good(i - 1)
      BY <2>2, <3>1 DEF C
    <3>3. R[i] = PushRecord(R[i - 1], n, chain[i])
      BY <1>2, <3>1 DEF N
    <3>4. Upto(i) = Upto(i - 1) \cup {chain[i]}
      <4>1. 1 .. i = (1 .. i - 1) \cup {i}
        BY <3>1
      <4> QED
        BY <4>1
    <3>5. chain[i].id \notin IdsOf(R[i - 1], n)
      <4>1. SUFFICES ASSUME NEW r \in Records(R[i - 1], n), r.id = chain[i].id PROVE FALSE
        BY DEF IdsOf
      <4>2. r \in Records(t, n) \/ r \in Upto(i - 1)
        BY <3>2
      <4>3. r \notin Records(t, n)
        BY <1>1, <3>1, <4>1 DEF IdsOf
      <4>4. PICK j \in 1 .. i - 1 : r = chain[j]
        BY <4>2, <4>3
      <4>5. j \in 1 .. N /\ j # i
        BY <1>1, <3>1
      <4> QED
        BY <1>1, <3>1, <4>1, <4>4, <4>5
    <3> HIDE DEF Upto
    <3>6. WellPlaced(R[i], n) /\ Records(R[i], n) = Records(R[i - 1], n) \cup {chain[i]}
      BY <1>1, <3>1, <3>2, <3>3, <3>5, PushAdds
    <3>7. Good(i)
      BY <3>2, <3>4, <3>6
    <3> QED
      BY <2>3, <3>7
  <2> QED
    BY <2>4, <2>5
<1>4. Good(N)
  <2>1. N \in 0 .. N
    BY <1>1
  <2> QED
    BY <1>3, <2>1
<1>5. Upto(N) = ToSet(chain)
  BY <1>1 DEF ToSet
<1> QED
  BY <1>2, <1>4, <1>5 DEF N

LEMMA PushChainType ==
  ASSUME NEW n \in Nat \ {0}, NEW t \in ChunkTables(n), NEW chain \in Seq(Record)
  PROVE  PushChain(t, n, chain) \in ChunkTables(n)
<1>1. PICK R \in [0 .. Len(chain) -> ChunkTables(n)] : PushChain(t, n, chain) = R[Len(chain)]
  BY PushChainUnrolls
<1>2. Len(chain) \in 0 .. Len(chain)
  OBVIOUS
<1> QED
  BY <1>1, <1>2

LEMMA NoChainsType ==
  ASSUME NEW n \in Nat \ {0}
  PROVE  NoChains(n) \in ChunkTables(n) /\ WellPlaced(NoChains(n), n) /\ Records(NoChains(n), n) = {}
<1>1. NoChains(n) \in ChunkTables(n) /\ \A i \in 0 .. n - 1 : DOMAIN NoChains(n)[i] = {}
  BY DEF NoChains, ChunkTables
<1>2. \A x : x \notin Records(NoChains(n), n)
  BY <1>1, RecordIn
<1> QED
  BY <1>1, <1>2 DEF WellPlaced

(* The outer one pushes the chains of the old buckets, in order.           *)
LEMMA RehashedUnrolls ==
  ASSUME NEW m \in Nat \ {0}, NEW t \in ChunkTables(m), NEW n \in Nat \ {0}
  PROVE  \E R \in [0 .. m -> ChunkTables(n)] :
           /\ R[0] = NoChains(n)
           /\ \A i \in 1 .. m : R[i] = PushChain(R[i - 1], n, t[i - 1])
           /\ Rehashed(t, m, n) = R[m]
<1> DEFINE N == m
           ch == [i \in 1 .. m |-> t[i - 1]]
           Op(s, it) == IF s = {} THEN NoChains(n)
                        ELSE PushChain(it[s \ {Max(s)}], n, ch[Max(s)])
           Iter == CHOOSE it : it = [s \in SUBSET (1 .. N) |-> Op(s, it)]
           step == [x \in (1 .. N) \X ChunkTables(n) |-> PushChain(x[2], n, ch[x[1]])]
<1>1. /\ N \in Nat /\ ch \in Seq(Seq(Record)) /\ Len(ch) = N
      /\ \A i \in 1 .. N : ch[i] = t[i - 1] /\ ch[i] \in Seq(Record)
  <2>1. \A i \in 1 .. m : i - 1 \in 0 .. m - 1
    OBVIOUS
  <2>2. \A i \in 1 .. m : t[i - 1] \in Seq(Record)
    BY <2>1 DEF ChunkTables
  <2> QED
    BY <2>2
<1>2. Rehashed(t, m, n) = Iter[1 .. N]
  BY <1>1 DEF Rehashed, FoldLeft, MapThenFoldSet
<1> HIDE DEF N, ch
<1>3. step \in [(1 .. N) \X ChunkTables(n) -> ChunkTables(n)]
  <2> SUFFICES ASSUME NEW x \in (1 .. N) \X ChunkTables(n)
               PROVE  PushChain(x[2], n, ch[x[1]]) \in ChunkTables(n)
    OBVIOUS
  <2>1. x[2] \in ChunkTables(n) /\ ch[x[1]] \in Seq(Record)
    BY <1>1
  <2> QED
    BY <2>1, PushChainType
<1>4. \A j \in 1 .. N, u \in ChunkTables(n) : step[<<j, u>>] = PushChain(u, n, ch[j])
  OBVIOUS
<1> HIDE DEF step
<1>5. PICK F \in [SUBSET (1 .. N) -> ChunkTables(n)] : IsFold(F, N, NoChains(n), step)
  BY <1>1, <1>3, NoChainsType, FoldsExist
<1>6. \A s \in SUBSET (1 .. N) : F[s] = Op(s, F)
  <2> TAKE s \in SUBSET (1 .. N)
  <2>1. CASE s # {}
    <3>1. Max(s) \in 1 .. N /\ s \ {Max(s)} \in SUBSET (1 .. N)
      BY <1>1, <2>1, GreatestOfPrefix
    <3>2. F[s \ {Max(s)}] \in ChunkTables(n)
      BY <3>1
    <3> QED
      BY <1>4, <1>5, <2>1, <3>1, <3>2 DEF IsFold
  <2>2. CASE s = {}
    BY <1>5, <2>2 DEF IsFold
  <2> QED
    BY <2>1, <2>2
<1>7. F = [s \in SUBSET (1 .. N) |-> Op(s, F)]
  <2> HIDE DEF Op
  <2> QED
    BY <1>6
<1>8. Iter = [s \in SUBSET (1 .. N) |-> Op(s, Iter)]
  <2> HIDE DEF Op
  <2> QED
    BY <1>7
<1> HIDE DEF Iter
<1>9. \A s \in SUBSET (1 .. N) : Iter[s] = Op(s, Iter)
  <2> HIDE DEF Op
  <2> QED
    BY <1>8
<1> DEFINE R == [i \in 0 .. N |-> Iter[1 .. i]]
<1>10. R[0] = NoChains(n)
  <2>1. 1 .. 0 = {} /\ 0 \in 0 .. N
    BY <1>1
  <2> QED
    BY <1>9, <2>1
<1>11. ASSUME NEW i \in 1 .. N PROVE R[i] = PushChain(R[i - 1], n, ch[i])
  <2>1. Max(1 .. i) = i /\ (1 .. i) \ {i} = 1 .. i - 1 /\ 1 .. i # {} /\ 1 .. i \in SUBSET (1 .. N)
    BY <1>1, FoldPrefix
  <2>2. Iter[1 .. i] = PushChain(Iter[1 .. i - 1], n, ch[i])
    BY <1>9, <2>1
  <2>3. i \in 0 .. N /\ i - 1 \in 0 .. N
    BY <1>1
  <2> QED
    BY <2>2, <2>3
<1>12. R[N] = Iter[1 .. N] /\ DOMAIN R = 0 .. N
  BY <1>1
<1> HIDE DEF R
<1>13. \A i \in 0 .. N : R[i] \in ChunkTables(n)
  <2> DEFINE C == {i \in 0 .. N : R[i] \notin ChunkTables(n)}
  <2>1. SUFFICES ASSUME C # {} PROVE FALSE
    OBVIOUS
  <2>2. PICK i \in C : \A k \in C : i <= k
    <3>1. C \subseteq Nat
      BY <1>1
    <3> HIDE DEF C
    <3> QED
      BY <2>1, <3>1, LeastElement
  <2>3. i # 0
    BY <1>10, NoChainsType
  <2>4. i \in 1 .. N /\ i - 1 \in 0 .. N /\ ~ (i <= i - 1)
    BY <1>1, <2>3
  <2>5. R[i - 1] \in ChunkTables(n)
    BY <2>2, <2>4
  <2>6. R[i] \in ChunkTables(n)
    BY <1>1, <1>11, <2>4, <2>5, PushChainType
  <2> QED
    BY <2>6
<1>14. R \in [0 .. N -> ChunkTables(n)]
  BY <1>12, <1>13 DEF R
<1> QED
  BY <1>1, <1>2, <1>10, <1>11, <1>12, <1>14 DEF N

(* A table of another size holds the same records.                         *)
LEMMA RehashedKeeps ==
  ASSUME NEW m \in Nat \ {0}, NEW t, WellPlaced(t, m), NEW n \in Nat \ {0}
  PROVE  /\ WellPlaced(Rehashed(t, m, n), n)
         /\ Records(Rehashed(t, m, n), n) = Records(t, m)
<1>1. t \in ChunkTables(m)
  BY DEF WellPlaced
<1>2. PICK R \in [0 .. m -> ChunkTables(n)] :
        /\ R[0] = NoChains(n)
        /\ \A i \in 1 .. m : R[i] = PushChain(R[i - 1], n, t[i - 1])
        /\ Rehashed(t, m, n) = R[m]
  BY <1>1, RehashedUnrolls
<1> DEFINE Upto(i) == UNION {ToSet(t[j]) : j \in 0 .. i - 1}
           Good(i) == WellPlaced(R[i], n) /\ Records(R[i], n) = Upto(i)
           C == {i \in 0 .. m : ~ Good(i)}
<1>3. C = {}
  <2>1. SUFFICES ASSUME C # {} PROVE FALSE
    OBVIOUS
  <2>2. PICK i \in C : \A k \in C : i <= k
    <3>1. C \subseteq Nat
      OBVIOUS
    <3> HIDE DEF C
    <3> QED
      BY <2>1, <3>1, LeastElement
  <2>3. i \in 0 .. m /\ ~ Good(i)
    OBVIOUS
  <2> HIDE DEF C
  <2>4. CASE i = 0
    <3>1. Upto(0) = {}
      OBVIOUS
    <3> QED
      BY <1>2, <2>3, <2>4, <3>1, NoChainsType
  <2>5. CASE i # 0
    <3>1. i \in 1 .. m /\ i - 1 \in 0 .. m /\ ~ (i <= i - 1) /\ i - 1 \in 0 .. m - 1
      BY <2>3, <2>5
    <3>2. Good(i - 1)
      BY <2>2, <3>1 DEF C
    <3>3. R[i] = PushChain(R[i - 1], n, t[i - 1])
      BY <1>2, <3>1
    <3>4. Upto(i) = Upto(i - 1) \cup ToSet(t[i - 1])
      <4>1. 0 .. i - 1 = (0 .. i - 1 - 1) \cup {i - 1}
        BY <3>1
      <4> QED
        BY <4>1
    <3>5. t[i - 1] \in Seq(Record)
      BY <1>1, <3>1 DEF ChunkTables
    <3>6. \A p, q \in DOMAIN t[i - 1] : t[i - 1][p].id = t[i - 1][q].id => p = q
      BY <3>1 DEF WellPlaced
    <3>7. \A p \in DOMAIN t[i - 1] : t[i - 1][p].id \notin IdsOf(R[i - 1], n)
      <4> SUFFICES ASSUME NEW p \in DOMAIN t[i - 1],
                          NEW r \in Records(R[i - 1], n), r.id = t[i - 1][p].id
                   PROVE  FALSE
        BY DEF IdsOf
      <4>1. PICK j \in 0 .. i - 1 - 1 : r \in ToSet(t[j])
        BY <3>2
      <4>2. PICK q \in DOMAIN t[j] : r = t[j][q]
        BY <4>1 DEF ToSet
      <4>3. j \in 0 .. m - 1 /\ j # i - 1
        BY <3>1
      <4>4. BucketOf(t[j][q].id, m) = j
        BY <4>2, <4>3 DEF WellPlaced
      <4>5. BucketOf(t[i - 1][p].id, m) = i - 1
        BY <3>1 DEF WellPlaced
      <4> QED
        BY <4>2, <4>3, <4>4, <4>5
    <3> HIDE DEF Upto
    <3>8. WellPlaced(R[i], n) /\ Records(R[i], n) = Records(R[i - 1], n) \cup ToSet(t[i - 1])
      BY <3>2, <3>3, <3>5, <3>6, <3>7, PushChainAdds
    <3> QED
      BY <2>3, <3>2, <3>4, <3>8
  <2> QED
    BY <2>4, <2>5
<1>4. Good(m)
  <2>1. m \in 0 .. m
    OBVIOUS
  <2> QED
    BY <1>3, <2>1
<1> QED
  BY <1>2, <1>4 DEF Records

(***************************************************************************)
(* What an operation does to the chunks of a table and to its entries.     *)
(***************************************************************************)
LEMMA SameRecords ==
  ASSUME NEW n, NEW t, NEW m, NEW u, Records(t, n) = Records(u, m)
  PROVE  IdsOf(t, n) = IdsOf(u, m) /\ Held(t, n) = Held(u, m)
BY DEF IdsOf, Held

(* A record of a new chunk with its one entry.                             *)
LEMMA PushEnters ==
  ASSUME NEW n \in Nat \ {0}, NEW t, WellPlaced(t, n), NEW id \in ChunkIds, NEW b \in Extent,
         id \notin IdsOf(t, n)
  PROVE  LET u == PushRecord(t, n, [id |-> id, entries |-> <<b>>]) IN
         /\ WellPlaced(u, n)
         /\ IdsOf(u, n) = IdsOf(t, n) \cup {id}
         /\ Held(u, n) = Held(t, n) \cup {<<b, id>>}
<1> DEFINE r == [id |-> id, entries |-> <<b>>]
           u == PushRecord(t, n, r)
<1>1. r \in Record /\ r.id = id /\ ToSet(r.entries) = {b}
  BY DEF Record, ToSet
<1> HIDE DEF r
<1>2. WellPlaced(u, n) /\ Records(u, n) = Records(t, n) \cup {r}
  BY <1>1, PushAdds
<1> HIDE DEF u
<1>3. IdsOf(u, n) = IdsOf(t, n) \cup {id}
  BY <1>1, <1>2 DEF IdsOf
<1>4. Held(u, n) = Held(t, n) \cup ToSet(r.entries) \X {r.id}
  BY <1>2 DEF Held
<1>5. ToSet(r.entries) \X {r.id} = {<<b, id>>}
  BY <1>1
<1> QED
  BY <1>2, <1>3, <1>4, <1>5 DEF u, r

LEMMA EntriesReplaced ==
  ASSUME NEW I, NEW E, NEW r \in [id : I, entries : E], NEW s \in E
  PROVE  LET u == [r EXCEPT !.entries = s] IN
         u \in [id : I, entries : E] /\ u.id = r.id /\ u.entries = s
OBVIOUS

(* The tables t and u differ in the entries of one record.                 *)
EntryAppended(t, u, n, i, p, b) ==
  /\ u \in ChunkTables(n) /\ DOMAIN u[i] = DOMAIN t[i]
  /\ u[i][p].id = t[i][p].id /\ u[i][p].entries = Append(t[i][p].entries, b)
  /\ \A q \in DOMAIN t[i] : q # p => u[i][q] = t[i][q]
  /\ \A j \in 0 .. n - 1 : j # i => u[j] = t[j]

LEMMA AppendIsOne ==
  ASSUME NEW n \in Nat \ {0}, NEW t \in ChunkTables(n), NEW i \in 0 .. n - 1,
         NEW p \in DOMAIN t[i], NEW b \in Extent
  PROVE  EntryAppended(t, [t EXCEPT ![i][p].entries = Append(@, b)], n, i, p, b)
<1> DEFINE u == [t EXCEPT ![i][p].entries = Append(@, b)]
           old == t[i][p]
           new == [old EXCEPT !.entries = Append(old.entries, b)]
<1>1. t[i] \in Seq(Record) /\ old \in Record
  <2>1. t[i] \in Seq(Record)
    BY DEF ChunkTables
  <2> QED
    BY <2>1
<1>2. new \in Record /\ new.id = old.id /\ new.entries = Append(old.entries, b)
  <2> HIDE DEF old
  <2>1. old.id \in ChunkIds /\ old.entries \in Seq(Extent)
    BY <1>1 DEF Record
  <2>2. Append(old.entries, b) \in Seq(Extent)
    BY <2>1
  <2> QED
    BY <1>1, <2>2, EntriesReplaced DEF Record
<1> HIDE DEF new
<1>3. u = [t EXCEPT ![i] = [t[i] EXCEPT ![p] = new]]
  BY DEF new
<1>4. [t[i] EXCEPT ![p] = new] \in Seq(Record)
  BY <1>1, <1>2
<1>5. /\ u \in ChunkTables(n) /\ DOMAIN u[i] = DOMAIN t[i] /\ u[i][p] = new
      /\ \A q \in DOMAIN t[i] : q # p => u[i][q] = t[i][q]
      /\ \A j \in 0 .. n - 1 : j # i => u[j] = t[j]
  BY <1>1, <1>3, <1>4 DEF ChunkTables
<1> HIDE DEF u
<1>6. EntryAppended(t, u, n, i, p, b)
  BY <1>2, <1>5 DEF EntryAppended
<1> QED
  BY <1>6 DEF u

(* One more entry in the record of a chunk.                                *)
LEMMA AppendEnters ==
  ASSUME NEW n \in Nat \ {0}, NEW t, WellPlaced(t, n), NEW i \in 0 .. n - 1,
         NEW p \in DOMAIN t[i], NEW b \in Extent, NEW u, EntryAppended(t, u, n, i, p, b)
  PROVE  /\ WellPlaced(u, n)
         /\ IdsOf(u, n) = IdsOf(t, n)
         /\ Held(u, n) = Held(t, n) \cup {<<b, t[i][p].id>>}
<1> DEFINE old == t[i][p]
           new == u[i][p]
<1>1. old \in Record
  <2>1. t[i] \in Seq(Record)
    BY DEF WellPlaced, ChunkTables
  <2> QED
    BY <2>1
<1>2. /\ new.id = old.id
      /\ DOMAIN new.entries = DOMAIN old.entries \cup {Len(old.entries) + 1}
      /\ Len(old.entries) + 1 \notin DOMAIN old.entries
      /\ new.entries[Len(old.entries) + 1] = b
      /\ \A e \in DOMAIN old.entries : new.entries[e] = old.entries[e]
  <2>1. new.id = old.id /\ new.entries = Append(old.entries, b)
    BY DEF EntryAppended
  <2> HIDE DEF old, new
  <2>2. old.entries \in Seq(Extent)
    BY <1>1 DEF Record
  <2> QED
    BY <2>1, <2>2
<1>5. /\ u \in ChunkTables(n) /\ DOMAIN u[i] = DOMAIN t[i] /\ u[i][p] = new
      /\ \A q \in DOMAIN t[i] : q # p => u[i][q] = t[i][q]
      /\ \A j \in 0 .. n - 1 : j # i => u[j] = t[j]
  BY DEF EntryAppended
<1> HIDE DEF new
<1>6. \A j \in 0 .. n - 1 : /\ DOMAIN u[j] = DOMAIN t[j]
                            /\ \A q \in DOMAIN t[j] : u[j][q].id = t[j][q].id
  BY <1>2, <1>5
<1>7. WellPlaced(u, n)
  BY <1>5, <1>6 DEF WellPlaced
<1>8. \A id : id \in IdsOf(u, n) <=> id \in IdsOf(t, n)
  <2> TAKE id
  <2>1. ASSUME id \in IdsOf(u, n) PROVE id \in IdsOf(t, n)
    <3>1. PICK r \in Records(u, n) : id = r.id
      BY <2>1 DEF IdsOf
    <3>2. PICK j \in 0 .. n - 1 : \E q \in DOMAIN u[j] : r = u[j][q]
      BY <3>1, RecordIn
    <3>3. \E q \in DOMAIN t[j] : id = t[j][q].id
      BY <1>6, <3>1, <3>2
    <3> QED
      BY <3>3, RecordIn DEF IdsOf
  <2>2. ASSUME id \in IdsOf(t, n) PROVE id \in IdsOf(u, n)
    <3>1. PICK r \in Records(t, n) : id = r.id
      BY <2>2 DEF IdsOf
    <3>2. PICK j \in 0 .. n - 1 : \E q \in DOMAIN t[j] : r = t[j][q]
      BY <3>1, RecordIn
    <3>3. \E q \in DOMAIN u[j] : id = u[j][q].id
      BY <1>6, <3>1, <3>2
    <3> QED
      BY <3>3, RecordIn DEF IdsOf
  <2> QED
    BY <2>1, <2>2
<1>9. \A c, id : <<c, id>> \in Held(u, n) <=> <<c, id>> \in Held(t, n) \/ (c = b /\ id = old.id)
  <2> TAKE c, id
  <2>1. ASSUME <<c, id>> \in Held(u, n) PROVE <<c, id>> \in Held(t, n) \/ (c = b /\ id = old.id)
    <3>1. PICK r \in Records(u, n) : r.id = id /\ \E e \in DOMAIN r.entries : r.entries[e] = c
      BY <2>1, HeldIn
    <3>2. PICK j \in 0 .. n - 1 : \E q \in DOMAIN u[j] : r = u[j][q]
      BY RecordIn
    <3>3. PICK q \in DOMAIN u[j] : r = u[j][q]
      BY <3>2
    <3>4. CASE j = i /\ q = p
      <4>1. r = new
        BY <1>5, <3>3, <3>4
      <4>2. old \in Records(t, n)
        BY RecordIn
      <4>3. c = b \/ \E e \in DOMAIN old.entries : old.entries[e] = c
        BY <1>2, <3>1, <4>1
      <4> QED
        BY <1>2, <3>1, <4>1, <4>2, <4>3, HeldIn
    <3>5. CASE ~ (j = i /\ q = p)
      <4>1. q \in DOMAIN t[j] /\ r = t[j][q]
        BY <1>5, <3>3, <3>5
      <4>2. r \in Records(t, n)
        BY <4>1, RecordIn
      <4> QED
        BY <3>1, <4>2, HeldIn
    <3> QED
      BY <3>4, <3>5
  <2>2. ASSUME <<c, id>> \in Held(t, n) PROVE <<c, id>> \in Held(u, n)
    <3>1. PICK r \in Records(t, n) : r.id = id /\ \E e \in DOMAIN r.entries : r.entries[e] = c
      BY <2>2, HeldIn
    <3>2. PICK j \in 0 .. n - 1 : \E q \in DOMAIN t[j] : r = t[j][q]
      BY RecordIn
    <3>3. PICK q \in DOMAIN t[j] : r = t[j][q]
      BY <3>2
    <3>4. u[j][q] \in Records(u, n)
      BY <1>6, RecordIn
    <3>5. u[j][q].id = id /\ \E e \in DOMAIN u[j][q].entries : u[j][q].entries[e] = c
      BY <1>2, <1>5, <3>1, <3>3
    <3> QED
      BY <3>4, <3>5, HeldIn
  <2>3. <<b, old.id>> \in Held(u, n)
    <3>1. new \in Records(u, n)
      BY <1>5, RecordIn
    <3> QED
      BY <1>2, <3>1, HeldIn
  <2> QED
    BY <2>1, <2>2, <2>3
<1>10. \A x : x \in Held(u, n) \/ x \in Held(t, n) => \E c, id : x = <<c, id>>
  BY DEF Held
<1>11. Held(u, n) = Held(t, n) \cup {<<b, old.id>>}
  BY <1>9, <1>10
<1> QED
  BY <1>7, <1>8, <1>11

(* A table has as many places with a record as chunks.                     *)
LEMMA PlacesCounted ==
  ASSUME NEW n \in Nat \ {0}, NEW t, WellPlaced(t, n), IsFiniteSet(IdsOf(t, n))
  PROVE  LET P == UNION {{i} \X DOMAIN t[i] : i \in 0 .. n - 1} IN
         /\ Cardinality(P) = Cardinality(IdsOf(t, n))
         /\ \A x, y \in P : t[x[1]][x[2]].id = t[y[1]][y[2]].id => x = y
<1> DEFINE P == UNION {{i} \X DOMAIN t[i] : i \in 0 .. n - 1}
           f == [x \in P |-> t[x[1]][x[2]].id]
<1>1. \A x : x \in P <=> \E i \in 0 .. n - 1 : \E p \in DOMAIN t[i] : x = <<i, p>>
  OBVIOUS
<1> HIDE DEF P
<1>2. \A x \in P : x = <<x[1], x[2]>> /\ x[1] \in 0 .. n - 1 /\ x[2] \in DOMAIN t[x[1]]
  BY <1>1
<1>3. \A x, y \in P : t[x[1]][x[2]].id = t[y[1]][y[2]].id => x = y
  <2> TAKE x, y \in P
  <2> HAVE t[x[1]][x[2]].id = t[y[1]][y[2]].id
  <2>1. x[1] = y[1]
    BY <1>2 DEF WellPlaced
  <2>2. x[2] = y[2]
    BY <1>2, <2>1 DEF WellPlaced
  <2> QED
    BY <1>2, <2>1, <2>2
<1>4. \A x \in P : t[x[1]][x[2]] \in Records(t, n)
  BY <1>2, RecordIn
<1>5. f \in [P -> IdsOf(t, n)]
  BY <1>4 DEF IdsOf
<1>6. f \in Injection(P, IdsOf(t, n))
  BY <1>3, <1>5 DEF Injection, IsInjective
<1>7. f \in Surjection(P, IdsOf(t, n))
  <2> SUFFICES ASSUME NEW id \in IdsOf(t, n) PROVE \E x \in P : f[x] = id
    BY <1>5 DEF Surjection
  <2>1. PICK r \in Records(t, n) : r.id = id
    BY DEF IdsOf
  <2>2. PICK i \in 0 .. n - 1 : \E p \in DOMAIN t[i] : r = t[i][p]
    BY RecordIn
  <2>3. PICK p \in DOMAIN t[i] : r = t[i][p]
    BY <2>2
  <2>4. <<i, p>> \in P
    BY <1>1
  <2> QED
    BY <2>1, <2>3, <2>4
<1> HIDE DEF f
<1>8. Cardinality(P) = Cardinality(IdsOf(t, n))
  BY <1>6, <1>7, FS_Injection
<1> QED
  BY <1>3, <1>8 DEF P

(***************************************************************************)
(* The blocks and their chunks.                                            *)
(***************************************************************************)
Apart(b, c) == b.base + b.size <= c.base \/ c.base + c.size <= b.base

(* The rest of a heap list.                                                *)
Pending(s) ==
  /\ s \in Seq(Extent)
  /\ \A i \in DOMAIN s : ChunksOf(s[i]) \subseteq ChunkIds
  /\ \A i, j \in DOMAIN s : i # j => Apart(s[i], s[j])

LEMMA ChunkSize == CHUNK_SIZE \in Nat \ {0} /\ InitBuckets \in Nat \ {0} /\ None \notin Nat
BY ChunkAssumption

LEMMA DivMonotone ==
  ASSUME NEW a \in Nat, NEW b \in Nat, a <= b
  PROVE  a \div CHUNK_SIZE \in Nat /\ b \div CHUNK_SIZE \in Nat
         /\ a \div CHUNK_SIZE <= b \div CHUNK_SIZE
BY ChunkSize

LEMMA ChunkRange ==
  ASSUME NEW b \in Extent
  PROVE  /\ b.size = 0 => ChunksOf(b) = {}
         /\ b.size > 0 => /\ FirstChunk(b) \in Nat /\ LastChunk(b) \in Nat
                          /\ FirstChunk(b) <= LastChunk(b)
                          /\ ChunksOf(b) = FirstChunk(b) .. LastChunk(b)
<1>1. b.base \in Nat /\ b.size \in Nat
  BY DEF Extent
<1>2. CASE b.size = 0
  BY <1>2 DEF ChunksOf
<1>3. CASE b.size > 0
  <2>1. b.base + b.size - 1 \in Nat /\ b.base <= b.base + b.size - 1
    BY <1>1, <1>3
  <2>2. /\ FirstChunk(b) \in Nat /\ LastChunk(b) \in Nat
        /\ FirstChunk(b) <= LastChunk(b)
    BY <1>1, <2>1, DivMonotone DEF FirstChunk, LastChunk
  <2> QED
    BY <1>3, <2>2 DEF ChunksOf
<1> QED
  BY <1>1, <1>2, <1>3

(* An address in a payload is in one of the chunks of the block.           *)
LEMMA HitChunk ==
  ASSUME NEW b \in Extent, NEW a \in Nat, Covers(b, a)
  PROVE  a \div CHUNK_SIZE \in ChunksOf(b)
<1>1. b.base \in Nat /\ b.size \in Nat /\ b.base <= a /\ a < b.base + b.size
  BY DEF Extent, Covers
<1>2. b.size > 0 /\ b.base + b.size - 1 \in Nat /\ a <= b.base + b.size - 1
  BY <1>1
<1>3. /\ a \div CHUNK_SIZE \in Nat
      /\ FirstChunk(b) <= a \div CHUNK_SIZE /\ a \div CHUNK_SIZE <= LastChunk(b)
  BY <1>1, <1>2, DivMonotone DEF FirstChunk, LastChunk
<1>4. FirstChunk(b) \in Nat /\ LastChunk(b) \in Nat /\ ChunksOf(b) = FirstChunk(b) .. LastChunk(b)
  BY <1>2, ChunkRange
<1> QED
  BY <1>3, <1>4

LEMMA LayoutPending ==
  ASSUME NEW heap \in Layouts
  PROVE  Pending(heap)
<1>1. /\ heap \in Seq(Extent)
      /\ \A i \in DOMAIN heap : \A id \in ChunksOf(heap[i]) : ChunkHash(id) \in Nat
      /\ \A i, j \in DOMAIN heap : i # j => Apart(heap[i], heap[j])
  BY ChunkAssumption DEF Apart
<1>2. ASSUME NEW i \in DOMAIN heap PROVE ChunksOf(heap[i]) \subseteq ChunkIds
  <2>1. heap[i] \in Extent
    BY <1>1
  <2>2. heap[i].size = 0 \/ heap[i].size > 0
    BY <2>1 DEF Extent
  <2>3. ChunksOf(heap[i]) \subseteq Nat
    BY <2>1, <2>2, ChunkRange
  <2> QED
    BY <1>1, <2>3 DEF ChunkIds
<1> QED
  BY <1>1, <1>2 DEF Pending

LEMMA PendingTail ==
  ASSUME NEW s, Pending(s), s # << >>
  PROVE  /\ Head(s) \in Extent /\ ChunksOf(Head(s)) \subseteq ChunkIds
         /\ Pending(Tail(s))
         /\ \A i \in DOMAIN Tail(s) : Apart(Head(s), Tail(s)[i])
         /\ \A i \in DOMAIN Tail(s) : i + 1 \in DOMAIN s /\ Tail(s)[i] = s[i + 1]
<1>1. s \in Seq(Extent)
  BY DEF Pending
<1>2. /\ Head(s) = s[1] /\ 1 \in DOMAIN s /\ Tail(s) \in Seq(Extent)
      /\ \A i \in DOMAIN Tail(s) : i \in Nat /\ i + 1 \in DOMAIN s /\ Tail(s)[i] = s[i + 1] /\ i + 1 # 1
  BY <1>1
<1>3. Head(s) \in Extent /\ ChunksOf(Head(s)) \subseteq ChunkIds
  BY <1>1, <1>2 DEF Pending
<1>4. \A i \in DOMAIN Tail(s) : Apart(Head(s), Tail(s)[i]) /\ ChunksOf(Tail(s)[i]) \subseteq ChunkIds
  BY <1>2 DEF Pending
<1>5. \A i, j \in DOMAIN Tail(s) : i # j => Apart(Tail(s)[i], Tail(s)[j])
  <2> TAKE i, j \in DOMAIN Tail(s)
  <2> HAVE i # j
  <2>1. i + 1 # j + 1
    BY <1>2
  <2> QED
    BY <1>2, <2>1 DEF Pending
<1> QED
  BY <1>2, <1>3, <1>4, <1>5 DEF Pending

(***************************************************************************)
(* The invariant: of the blocks done and the one being entered the table   *)
(* holds exactly the entries that are not lost.                            *)
(***************************************************************************)
SpansOf(d) == UNION {{b} \X ChunksOf(b) : b \in d}

EnteredOf(d, s, c) ==
  SpansOf(d)
    \cup (IF c = None THEN {} ELSE {Head(s)} \X (FirstChunk(Head(s)) .. c - 1))

BlocksInv ==
  /\ Pending(todo) /\ done \subseteq Extent
  /\ \A b \in done : \A i \in DOMAIN todo : Apart(b, todo[i])

ChunkTableInv ==
  /\ WellPlaced(chunk_table, chunk_buckets)
  /\ IsFiniteSet(IdsOf(chunk_table, chunk_buckets))
  /\ Cardinality(IdsOf(chunk_table, chunk_buckets)) = chunk_table_count
  /\ Held(chunk_table, chunk_buckets) = EnteredOf(done, todo, cid) \ lost

ControlInv ==
  /\ chunk_phase \in {"init", "build", "mark", "crash"}
  /\ chunk_buckets \in Nat \ {0} /\ chunk_table_count \in Nat
  /\ cid # None => /\ todo # << >> /\ chunk_table # << >>
                   /\ Head(todo).size > 0 /\ cid \in ChunksOf(Head(todo))
                   /\ chunk_phase \in {"build", "crash"}
  /\ chunk_phase = "mark" => todo = << >>
  /\ chunk_phase = "init" =>
       /\ done = {} /\ lost = {}
       /\ chunk_table = << >> /\ chunk_buckets = InitBuckets /\ chunk_table_count = 0

ChunkInv ==
  /\ ControlInv
  /\ BlocksInv
  /\ lost \subseteq EnteredOf(done, todo, cid)
  /\ IF chunk_table = << >> THEN lost = EnteredOf(done, todo, cid) ELSE ChunkTableInv

(* What advancing to the next chunk or block enters.                       *)
LEMMA AdvanceEnters ==
  ASSUME ControlInv, BlocksInv, cid # None, Advance
  PROVE  /\ <<Head(todo), cid>> \notin EnteredOf(done, todo, cid)
         /\ EnteredOf(done', todo', cid') = EnteredOf(done, todo, cid) \cup {<<Head(todo), cid>>}
         /\ BlocksInv'
         /\ cid' # None => /\ todo' # << >>
                           /\ Head(todo').size > 0 /\ cid' \in ChunksOf(Head(todo'))
         /\ Head(todo) \in Extent /\ cid \in ChunkIds
<1> DEFINE b == Head(todo)
<1>1. /\ todo # << >> /\ b \in Extent /\ ChunksOf(b) \subseteq ChunkIds /\ Pending(Tail(todo))
      /\ \A i \in DOMAIN Tail(todo) : Apart(b, Tail(todo)[i])
      /\ \A i \in DOMAIN Tail(todo) : i + 1 \in DOMAIN todo /\ Tail(todo)[i] = todo[i + 1]
  BY PendingTail DEF ControlInv, BlocksInv
<1>2. /\ FirstChunk(b) \in Nat /\ LastChunk(b) \in Nat /\ b.size > 0
      /\ cid \in FirstChunk(b) .. LastChunk(b) /\ ChunksOf(b) = FirstChunk(b) .. LastChunk(b)
      /\ cid \in ChunkIds
  BY <1>1, ChunkRange DEF ControlInv
<1>3. b \notin done
  <2>1. SUFFICES ASSUME b \in done PROVE FALSE
    OBVIOUS
  <2>2. 1 \in DOMAIN todo /\ b = todo[1]
    BY <1>1 DEF BlocksInv, Pending
  <2>3. Apart(b, b)
    BY <2>1, <2>2 DEF BlocksInv
  <2>4. b.base \in Nat /\ b.size \in Nat
    BY <1>1 DEF Extent
  <2> QED
    BY <1>2, <2>3, <2>4 DEF Apart
<1> HIDE DEF b
<1>4. <<b, cid>> \notin EnteredOf(done, todo, cid)
  BY <1>2, <1>3 DEF EnteredOf, SpansOf, b
<1>5. CASE cid < LastChunk(b)
  <2>1. cid' = cid + 1 /\ todo' = todo /\ done' = done
    BY <1>5 DEF Advance, b
  <2>2. cid' \in ChunksOf(b) /\ cid' # None
    BY <1>2, <1>5, <2>1, ChunkSize
  <2>3. FirstChunk(b) .. cid' - 1 = (FirstChunk(b) .. cid - 1) \cup {cid}
    BY <1>2, <2>1
  <2>4. EnteredOf(done', todo', cid') = EnteredOf(done, todo, cid) \cup {<<b, cid>>}
    BY <2>1, <2>2, <2>3 DEF EnteredOf, b
  <2>5. BlocksInv'
    BY <2>1 DEF BlocksInv
  <2> QED
    BY <1>1, <1>2, <1>4, <2>1, <2>2, <2>4, <2>5 DEF b
<1>6. CASE ~ (cid < LastChunk(b))
  <2>1. cid' = None /\ todo' = Tail(todo) /\ done' = done \cup {b}
    BY <1>6 DEF Advance, b
  <2>2. ChunksOf(b) = (FirstChunk(b) .. cid - 1) \cup {cid}
    BY <1>2, <1>6
  <2>3. EnteredOf(done', todo', cid') = EnteredOf(done, todo, cid) \cup {<<b, cid>>}
    <3>1. EnteredOf(done', todo', cid') = SpansOf(done) \cup {b} \X ChunksOf(b)
      BY <2>1 DEF EnteredOf, SpansOf
    <3>2. EnteredOf(done, todo, cid) = SpansOf(done)
                                         \cup {b} \X (FirstChunk(b) .. cid - 1)
      BY DEF EnteredOf, b
    <3>3. {b} \X ChunksOf(b) = {b} \X (FirstChunk(b) .. cid - 1) \cup {<<b, cid>>}
      BY <2>2
    <3> QED
      BY <3>1, <3>2, <3>3
  <2>4. BlocksInv'
    BY <1>1, <2>1 DEF BlocksInv
  <2> QED
    BY <1>1, <1>2, <1>4, <2>1, <2>3, <2>4 DEF b
<1> QED
  BY <1>5, <1>6

LEMMA TableThere ==
  ASSUME NEW n \in Nat \ {0}, NEW t, WellPlaced(t, n)
  PROVE  t # << >>
<1>1. DOMAIN t = 0 .. n - 1 /\ 0 \in 0 .. n - 1
  BY DEF WellPlaced, ChunkTables
<1>2. DOMAIN << >> = {}
  OBVIOUS
<1> QED
  BY <1>1, <1>2

LEMMA ChunkStartInv == ASSUME ChunkStart PROVE ChunkInv
<1>1. Pending(todo)
  BY LayoutPending DEF ChunkStart
<1>2. SpansOf(done) = {} /\ EnteredOf(done, todo, cid) = {}
  BY DEF ChunkStart, EnteredOf, SpansOf
<1>3. BlocksInv
  BY <1>1 DEF ChunkStart, BlocksInv
<1>4. ControlInv
  BY ChunkSize DEF ChunkStart, ControlInv
<1> QED
  BY <1>2, <1>3, <1>4 DEF ChunkStart, ChunkInv

LEMMA ChunkTableInitStep == ASSUME ChunkInv, ChunkTableInit PROVE ChunkInv'
<1>1. /\ done = {} /\ lost = {} /\ chunk_buckets = InitBuckets /\ chunk_table_count = 0 /\ cid = None
      /\ chunk_table = << >>
  BY DEF ChunkInv, ControlInv, ChunkTableInit
<1>2. EnteredOf(done', todo', cid') = {}
  BY <1>1 DEF ChunkTableInit, EnteredOf, SpansOf
<1>3. BlocksInv'
  BY DEF ChunkInv, BlocksInv, ChunkTableInit
<1>4. ControlInv'
  BY <1>1, ChunkSize DEF ControlInv, ChunkTableInit
<1>5. CASE chunk_table' = NoChains(InitBuckets)
  <2>1. WellPlaced(chunk_table', InitBuckets) /\ Records(chunk_table', InitBuckets) = {}
    BY <1>5, ChunkSize, NoChainsType
  <2>2. IdsOf(chunk_table', InitBuckets) = {} /\ Held(chunk_table', InitBuckets) = {}
    BY <2>1 DEF IdsOf, Held
  <2>3. IsFiniteSet({}) /\ Cardinality({}) = 0
    BY FS_EmptySet
  <2>4. chunk_buckets' = InitBuckets /\ chunk_table_count' = 0 /\ lost' = {}
    BY <1>1 DEF ChunkTableInit
  <2>5. chunk_table' # << >>
    BY <2>1, ChunkSize, TableThere
  <2>6. ChunkTableInv'
    BY <1>2, <2>1, <2>2, <2>3, <2>4 DEF ChunkTableInv
  <2> QED
    BY <1>2, <1>3, <1>4, <2>4, <2>5, <2>6 DEF ChunkInv
<1>6. CASE chunk_table' = << >>
  BY <1>1, <1>2, <1>3, <1>4, <1>6 DEF ChunkInv, ChunkTableInit
<1> QED
  BY <1>5, <1>6 DEF ChunkTableInit

LEMMA SkipBlockStep == ASSUME ChunkInv, SkipBlock PROVE ChunkInv'
<1> DEFINE b == Head(todo)
           S == {<<b, id>> : id \in ChunksOf(b)}
<1>1. /\ b \in Extent /\ Pending(Tail(todo))
      /\ \A i \in DOMAIN Tail(todo) : Apart(b, Tail(todo)[i])
      /\ \A i \in DOMAIN Tail(todo) : i + 1 \in DOMAIN todo /\ Tail(todo)[i] = todo[i + 1]
  BY PendingTail DEF SkipBlock, ChunkInv, BlocksInv
<1>2. /\ cid = None /\ cid' = None /\ todo' = Tail(todo) /\ done' = done \cup {b} /\ lost' = lost \cup S
      /\ UNCHANGED <<chunk_table, chunk_buckets, chunk_table_count, chunk_phase>>
      /\ chunk_phase = "build"
  BY DEF SkipBlock
<1> HIDE DEF b
<1>3. EnteredOf(done', todo', cid') = EnteredOf(done, todo, cid) \cup S
  BY <1>2 DEF EnteredOf, SpansOf
<1>4. BlocksInv'
  BY <1>1, <1>2 DEF ChunkInv, BlocksInv
<1>5. ControlInv'
  BY <1>2 DEF ChunkInv, ControlInv
<1>6. CASE chunk_table = << >>
  BY <1>2, <1>3, <1>4, <1>5, <1>6 DEF ChunkInv
<1>7. CASE chunk_table # << >>
  <2>1. S = {}
    <3>1. b.size = 0
      BY <1>7 DEF SkipBlock, b
    <3> QED
      BY <1>1, <3>1, ChunkRange
  <2>2. ChunkTableInv'
    BY <1>2, <1>3, <1>7, <2>1 DEF ChunkInv, ChunkTableInv
  <2> QED
    BY <1>2, <1>3, <1>4, <1>5, <1>7, <2>1, <2>2 DEF ChunkInv
<1> QED
  BY <1>6, <1>7

LEMMA StartBlockStep == ASSUME ChunkInv, StartBlock PROVE ChunkInv'
<1> DEFINE b == Head(todo)
<1>1. b \in Extent
  BY PendingTail DEF StartBlock, ChunkInv, BlocksInv
<1>2. /\ cid = None /\ cid' = FirstChunk(b) /\ b.size > 0 /\ chunk_phase = "build" /\ chunk_table # << >>
      /\ UNCHANGED <<todo, done, chunk_table, chunk_buckets, chunk_table_count, lost, chunk_phase>>
      /\ todo # << >>
  BY DEF StartBlock
<1>3. /\ FirstChunk(b) \in Nat /\ LastChunk(b) \in Nat /\ FirstChunk(b) <= LastChunk(b)
      /\ ChunksOf(b) = FirstChunk(b) .. LastChunk(b)
  BY <1>1, <1>2, ChunkRange
<1>4. cid' \in ChunksOf(b) /\ FirstChunk(b) .. cid' - 1 = {} /\ cid' # None
  BY <1>2, <1>3, ChunkSize
<1>5. EnteredOf(done', todo', cid') = EnteredOf(done, todo, cid)
  BY <1>2, <1>4 DEF EnteredOf
<1>6. BlocksInv'
  BY <1>2 DEF ChunkInv, BlocksInv
<1>7. ControlInv'
  BY <1>2, <1>4 DEF ChunkInv, ControlInv
<1>8. ChunkTableInv'
  BY <1>2, <1>5 DEF ChunkInv, ChunkTableInv
<1> QED
  BY <1>2, <1>5, <1>6, <1>7, <1>8 DEF ChunkInv

LEMMA ChunkTableGrowStep == ASSUME ChunkInv, ChunkTableGrow PROVE ChunkInv'
<1>1. /\ chunk_buckets' = 2 * chunk_buckets /\ cid # None /\ chunk_phase = "build"
      /\ chunk_table' = Rehashed(chunk_table, chunk_buckets, chunk_buckets')
      /\ UNCHANGED <<todo, done, cid, chunk_table_count, lost, chunk_phase>>
  BY DEF ChunkTableGrow
<1>2. chunk_table # << >> /\ chunk_buckets \in Nat \ {0}
  BY <1>1 DEF ChunkInv, ControlInv
<1>3. chunk_buckets' \in Nat \ {0}
  BY <1>1, <1>2
<1>4. ChunkTableInv
  BY <1>2 DEF ChunkInv
<1>5. /\ WellPlaced(chunk_table', chunk_buckets')
      /\ Records(chunk_table', chunk_buckets') = Records(chunk_table, chunk_buckets)
  BY <1>1, <1>2, <1>3, <1>4, RehashedKeeps DEF ChunkTableInv
<1>6. /\ IdsOf(chunk_table', chunk_buckets') = IdsOf(chunk_table, chunk_buckets)
      /\ Held(chunk_table', chunk_buckets') = Held(chunk_table, chunk_buckets)
  BY <1>5, SameRecords
<1>7. ChunkTableInv'
  BY <1>1, <1>4, <1>5, <1>6 DEF ChunkTableInv
<1>8. chunk_table' # << >>
  BY <1>3, <1>5, TableThere
<1>9. BlocksInv'
  BY <1>1 DEF ChunkInv, BlocksInv
<1>10. ControlInv'
  BY <1>1, <1>3, <1>8 DEF ChunkInv, ControlInv
<1> QED
  BY <1>1, <1>7, <1>8, <1>9, <1>10 DEF ChunkInv

LEMMA ChunkTableGrowFailsStep == ASSUME ChunkInv, ChunkTableGrowFails PROVE ChunkInv'
<1>1. BlocksInv'
  BY DEF ChunkTableGrowFails, ChunkInv, BlocksInv
<1>2. ControlInv'
  BY DEF ChunkTableGrowFails, ChunkInv, ControlInv
<1>3. chunk_table # << >> => ChunkTableInv'
  BY DEF ChunkTableGrowFails, ChunkInv, ChunkTableInv
<1> QED
  BY <1>1, <1>2, <1>3 DEF ChunkTableGrowFails, ChunkInv

LEMMA InsertEntryStep == ASSUME ChunkInv, InsertEntry PROVE ChunkInv'
<1> DEFINE b == Head(todo)
           n == chunk_buckets
           i == BucketOf(cid, n)
           found == RecordsOf(chunk_table[i], cid)
           p == Min(found)
<1>1. /\ cid # None /\ Advance /\ chunk_phase = "build"
      /\ UNCHANGED <<chunk_buckets, lost, chunk_phase>>
  BY DEF InsertEntry
<1>2. /\ <<b, cid>> \notin EnteredOf(done, todo, cid)
      /\ EnteredOf(done', todo', cid') = EnteredOf(done, todo, cid) \cup {<<b, cid>>}
      /\ BlocksInv'
      /\ cid' # None => /\ todo' # << >>
                        /\ Head(todo').size > 0 /\ cid' \in ChunksOf(Head(todo'))
      /\ b \in Extent /\ cid \in ChunkIds
  BY <1>1, AdvanceEnters DEF ChunkInv
<1>3. n \in Nat \ {0} /\ chunk_table # << >> /\ ChunkTableInv
  BY <1>1 DEF ChunkInv, ControlInv
<1>4. i \in 0 .. n - 1
  BY <1>2, <1>3, BucketType
<1>5. chunk_table[i] \in Seq(Record)
  BY <1>3, <1>4 DEF ChunkTableInv, WellPlaced, ChunkTables
<1>6. found \subseteq DOMAIN chunk_table[i] /\ found \subseteq Nat
  BY <1>5 DEF RecordsOf
<1>7. /\ WellPlaced(chunk_table', n)
      /\ IsFiniteSet(IdsOf(chunk_table', n))
      /\ Cardinality(IdsOf(chunk_table', n)) = chunk_table_count'
      /\ chunk_table_count' \in Nat
      /\ Held(chunk_table', n) = Held(chunk_table, n) \cup {<<b, cid>>}
  <2>1. CASE /\ found # {}
             /\ chunk_table' = [chunk_table EXCEPT ![i][p].entries = Append(@, b)]
             /\ UNCHANGED chunk_table_count
    <3>1. p \in found
      BY <1>6, <2>1, MinOf
    <3>2. p \in DOMAIN chunk_table[i] /\ chunk_table[i][p].id = cid
      BY <3>1 DEF RecordsOf
    <3> HIDE DEF p, found
    <3>3. /\ WellPlaced(chunk_table', n) /\ IdsOf(chunk_table', n) = IdsOf(chunk_table, n)
          /\ Held(chunk_table', n) = Held(chunk_table, n) \cup {<<b, chunk_table[i][p].id>>}
      <4>1. WellPlaced(chunk_table, n)
        BY <1>3 DEF ChunkTableInv
      <4>2. chunk_table' = [chunk_table EXCEPT ![i][p].entries = Append(@, b)]
        BY <2>1 DEF p, found
      <4>3. chunk_table \in ChunkTables(n)
        BY <4>1 DEF WellPlaced
      <4> HIDE DEF i, b, n
      <4>4. EntryAppended(chunk_table, [chunk_table EXCEPT ![i][p].entries = Append(@, b)], n, i, p, b)
        BY <1>2, <1>3, <1>4, <3>2, <4>3, AppendIsOne
      <4>5. EntryAppended(chunk_table, chunk_table', n, i, p, b)
        BY <4>2, <4>4
      <4> QED
        BY <1>2, <1>3, <1>4, <3>2, <4>1, <4>5, AppendEnters
    <3>4. /\ chunk_table_count \in Nat /\ IsFiniteSet(IdsOf(chunk_table, n))
          /\ Cardinality(IdsOf(chunk_table, n)) = chunk_table_count
      BY <1>3 DEF ChunkTableInv, ChunkInv, ControlInv
    <3> QED
      BY <2>1, <3>2, <3>3, <3>4
  <2>2. CASE /\ found = {}
             /\ chunk_table' = PushRecord(chunk_table, n, [id |-> cid, entries |-> <<b>>])
             /\ chunk_table_count' = chunk_table_count + 1
    <3>1. cid \notin IdsOf(chunk_table, n)
      <4>1. SUFFICES ASSUME NEW r \in Records(chunk_table, n), r.id = cid PROVE FALSE
        BY DEF IdsOf
      <4>2. PICK j \in 0 .. n - 1 : \E q \in DOMAIN chunk_table[j] : r = chunk_table[j][q]
        BY <1>3, RecordIn
      <4>3. PICK q \in DOMAIN chunk_table[j] : r = chunk_table[j][q]
        BY <4>2
      <4>4. j = i
        BY <1>3, <4>1, <4>3 DEF ChunkTableInv, WellPlaced
      <4> QED
        BY <2>2, <4>1, <4>3, <4>4 DEF RecordsOf
    <3> HIDE DEF p, found, i
    <3>2. /\ WellPlaced(chunk_table', n) /\ IdsOf(chunk_table', n) = IdsOf(chunk_table, n) \cup {cid}
          /\ Held(chunk_table', n) = Held(chunk_table, n) \cup {<<b, cid>>}
      <4>1. WellPlaced(chunk_table, n)
        BY <1>3 DEF ChunkTableInv
      <4> HIDE DEF b, n
      <4> QED
        BY <1>2, <1>3, <2>2, <3>1, <4>1, PushEnters
    <3>3. /\ IsFiniteSet(IdsOf(chunk_table, n) \cup {cid})
          /\ Cardinality(IdsOf(chunk_table, n) \cup {cid}) = Cardinality(IdsOf(chunk_table, n)) + 1
      BY <1>3, <3>1, FS_AddElement DEF ChunkTableInv
    <3>4. chunk_table_count \in Nat /\ Cardinality(IdsOf(chunk_table, n)) = chunk_table_count
      BY <1>3 DEF ChunkTableInv, ChunkInv, ControlInv
    <3>5. /\ chunk_table_count' = Cardinality(IdsOf(chunk_table', n)) /\ chunk_table_count' \in Nat
          /\ IsFiniteSet(IdsOf(chunk_table', n))
      BY <2>2, <3>2, <3>3, <3>4
    <3> QED
      BY <3>2, <3>5
  <2> QED
    BY <2>1, <2>2 DEF InsertEntry
<1>8. chunk_table' # << >>
  BY <1>3, <1>7, TableThere
<1>9. /\ <<b, cid>> \notin lost /\ lost \subseteq EnteredOf(done, todo, cid)
      /\ Held(chunk_table, n) = EnteredOf(done, todo, cid) \ lost
  BY <1>2, <1>3 DEF ChunkInv, ChunkTableInv
<1> HIDE DEF b, i, found, p
<1>10. Held(chunk_table', n) = EnteredOf(done', todo', cid') \ lost'
  <2>1. Held(chunk_table', n) = Held(chunk_table, n) \cup {<<b, cid>>}
    BY <1>7
  <2> QED
    BY <1>1, <1>2, <1>9, <2>1
<1>11. lost' \subseteq EnteredOf(done', todo', cid')
  BY <1>1, <1>2, <1>9
<1>12. ChunkTableInv'
  BY <1>1, <1>7, <1>10 DEF ChunkTableInv
<1>13. ControlInv'
  BY <1>1, <1>2, <1>3, <1>7, <1>8 DEF ChunkInv, ControlInv
<1> QED
  BY <1>2, <1>8, <1>11, <1>12, <1>13 DEF ChunkInv

LEMMA EntryFailsStep == ASSUME ChunkInv, EntryFails PROVE ChunkInv'
<1> DEFINE b == Head(todo)
<1>1. /\ cid # None /\ Advance /\ chunk_phase = "build" /\ lost' = lost \cup {<<b, cid>>}
      /\ UNCHANGED <<chunk_table, chunk_buckets, chunk_table_count, chunk_phase>>
  BY DEF EntryFails
<1>2. /\ <<b, cid>> \notin EnteredOf(done, todo, cid)
      /\ EnteredOf(done', todo', cid') = EnteredOf(done, todo, cid) \cup {<<b, cid>>}
      /\ BlocksInv'
      /\ cid' # None => /\ todo' # << >>
                        /\ Head(todo').size > 0 /\ cid' \in ChunksOf(Head(todo'))
  BY <1>1, AdvanceEnters DEF ChunkInv
<1>3. chunk_table # << >> /\ ChunkTableInv /\ lost \subseteq EnteredOf(done, todo, cid)
  BY <1>1 DEF ChunkInv, ControlInv
<1> HIDE DEF b
<1>4. EnteredOf(done, todo, cid) \ lost = EnteredOf(done', todo', cid') \ lost'
  BY <1>1, <1>2
<1>5. ChunkTableInv'
  BY <1>1, <1>3, <1>4 DEF ChunkTableInv
<1>6. ControlInv'
  BY <1>1, <1>2, <1>3 DEF ChunkInv, ControlInv
<1> QED
  BY <1>1, <1>2, <1>3, <1>5, <1>6 DEF ChunkInv

LEMMA BuildEndStep == ASSUME ChunkInv, BuildEnd PROVE ChunkInv'
<1>1. BlocksInv'
  BY DEF BuildEnd, ChunkInv, BlocksInv
<1>2. ControlInv'
  BY DEF BuildEnd, ChunkInv, ControlInv
<1>3. chunk_table # << >> => ChunkTableInv'
  BY DEF BuildEnd, ChunkInv, ChunkTableInv
<1> QED
  BY <1>1, <1>2, <1>3 DEF BuildEnd, ChunkInv

LEMMA ChunkTableFreeStep == ASSUME ChunkInv, ChunkTableFree PROVE ChunkInv'
<1>1. cid = None /\ cid' = None
  BY DEF ChunkInv, ControlInv, ChunkTableFree
<1>2. Pending(todo')
  BY LayoutPending DEF ChunkTableFree
<1>3. EnteredOf(done', todo', cid') = {}
  BY <1>1 DEF ChunkTableFree, EnteredOf, SpansOf
<1>4. BlocksInv'
  BY <1>2 DEF ChunkTableFree, BlocksInv
<1>5. ControlInv'
  BY <1>1, ChunkSize DEF ChunkTableFree, ControlInv
<1> QED
  BY <1>3, <1>4, <1>5 DEF ChunkTableFree, ChunkInv

LEMMA ChunkStep == ASSUME ChunkInv, [ChunkNext]_chunkVars PROVE ChunkInv'
<1>1. CASE UNCHANGED chunkVars
  <2>1. BlocksInv' /\ ControlInv'
    BY <1>1 DEF chunkVars, ChunkInv, BlocksInv, ControlInv
  <2>2. chunk_table # << >> => ChunkTableInv'
    BY <1>1 DEF chunkVars, ChunkInv, ChunkTableInv
  <2> QED
    BY <1>1, <2>1, <2>2 DEF chunkVars, ChunkInv
<1>2. CASE ChunkNext
  BY <1>2, ChunkTableInitStep, SkipBlockStep, StartBlockStep, ChunkTableGrowStep,
     ChunkTableGrowFailsStep, InsertEntryStep, EntryFailsStep, BuildEndStep, ChunkTableFreeStep
     DEF ChunkNext
<1> QED
  BY <1>1, <1>2

(***************************************************************************)
(* The lookup.                                                             *)
(***************************************************************************)

(* It finds one of the entries of the address's chunk, if one is a hit.    *)
LEMMA LookupFinds ==
  ASSUME ControlInv, ChunkTableInv, NEW a \in Addr,
         NEW over, over = {b \in Extent : Covers(b, a) /\ <<b, a \div CHUNK_SIZE>>
                                            \in Held(chunk_table, chunk_buckets)}
  PROVE  IF over = {} THEN ChunkTableLookup(a) = None ELSE ChunkTableLookup(a) \in over
<1> DEFINE n == chunk_buckets
           id == a \div CHUNK_SIZE
           i == BucketOf(id, n)
           chain == chunk_table[i]
           found == RecordsOf(chain, id)
           entries == IF found = {} THEN << >> ELSE chain[Min(found)].entries
           hits == {e \in DOMAIN entries : Hit(entries[e], a)}
<1>1. n \in Nat \ {0} /\ WellPlaced(chunk_table, n) /\ chunk_table # << >>
  BY TableThere DEF ControlInv, ChunkTableInv
<1>2. id \in ChunkIds
  <2>1. a \in Nat /\ ChunkHash(id) \in Nat
    BY ChunkAssumption
  <2>2. id \in Nat
    BY <2>1, DivMonotone
  <2> QED
    BY <2>1, <2>2 DEF ChunkIds
<1>3. ChunkTableLookup(a) = IF hits = {} THEN None ELSE entries[Min(hits)]
  BY <1>1 DEF ChunkTableLookup
<1> HIDE DEF id
<1>4. i \in 0 .. n - 1
  BY <1>1, <1>2, BucketType
<1>5. chain \in Seq(Record)
  BY <1>1, <1>4 DEF WellPlaced, ChunkTables
<1>6. found \subseteq DOMAIN chain /\ found \subseteq Nat
  BY <1>5 DEF RecordsOf
<1>7. found # {} => /\ Min(found) \in DOMAIN chain /\ chain[Min(found)].id = id
                    /\ chain[Min(found)] \in Records(chunk_table, n)
                    /\ chain[Min(found)] \in Record
  <2> HAVE found # {}
  <2>1. Min(found) \in found
    BY <1>6, MinOf
  <2>2. Min(found) \in DOMAIN chain /\ chain[Min(found)].id = id
    BY <2>1 DEF RecordsOf
  <2> HIDE DEF found
  <2>3. chain[Min(found)] \in Record
    BY <1>5, <2>2
  <2>4. chain[Min(found)] \in Records(chunk_table, n)
    BY <1>1, <1>4, <2>2, RecordIn
  <2> QED
    BY <2>2, <2>3, <2>4
<1>8. entries \in Seq(Extent)
  <2>1. CASE found = {}
    BY <2>1
  <2>2. CASE found # {}
    BY <1>7, <2>2 DEF Record
  <2> QED
    BY <2>1, <2>2
<1> HIDE DEF i
<1>9. ASSUME NEW e \in hits PROVE entries[e] \in over
  <2>1. e \in DOMAIN entries /\ Covers(entries[e], a)
    BY DEF Hit, Covers
  <2>2. entries[e] \in Extent
    BY <1>8, <2>1
  <2>3. found # {}
    BY <2>1
  <2>4. entries = chain[Min(found)].entries
    BY <2>3
  <2> HIDE DEF entries, found, chain
  <2>5. <<entries[e], id>> \in Held(chunk_table, n)
    BY <1>1, <1>7, <2>1, <2>3, <2>4, HeldIn
  <2> QED
    BY <2>1, <2>2, <2>5 DEF id
<1>10. ASSUME NEW b \in over PROVE hits # {}
  <2>1. PICK r \in Records(chunk_table, n) : r.id = id /\ \E e \in DOMAIN r.entries : r.entries[e] = b
    BY <1>1, HeldIn DEF id
  <2>2. PICK j \in 0 .. n - 1 : \E q \in DOMAIN chunk_table[j] : r = chunk_table[j][q]
    BY <1>1, RecordIn
  <2>3. PICK q \in DOMAIN chunk_table[j] : r = chunk_table[j][q]
    BY <2>2
  <2>4. j = i
    BY <1>1, <2>1, <2>3 DEF WellPlaced, i
  <2>5. q \in found
    BY <2>1, <2>3, <2>4 DEF RecordsOf
  <2>6. Min(found) = q
    <3>1. Min(found) \in DOMAIN chain /\ chain[Min(found)].id = id
      BY <1>7, <2>5
    <3> HIDE DEF found
    <3> QED
      BY <1>1, <1>4, <2>1, <2>3, <2>4, <3>1 DEF WellPlaced
  <2>7. entries = r.entries
    BY <2>3, <2>4, <2>5, <2>6
  <2>8. Hit(b, a)
    BY DEF Hit, Covers
  <2> HIDE DEF entries
  <2> QED
    BY <2>1, <2>7, <2>8
<1>11. hits # {} => Min(hits) \in hits
  <2>1. hits \subseteq Nat
    BY <1>8
  <2> HIDE DEF hits
  <2> QED
    BY <2>1, MinOf
<1> HIDE DEF hits, entries
<1>12. CASE over = {}
  BY <1>3, <1>9, <1>11, <1>12
<1>13. CASE over # {}
  BY <1>3, <1>9, <1>10, <1>11, <1>13
<1> QED
  BY <1>12, <1>13

LEMMA ChunkInvExact == ASSUME ChunkInv PROVE ChunkTableExact
<1>1. ChunkTypeOK
  <2>1. chunk_table # << >> => DOMAIN chunk_table = 0 .. chunk_buckets - 1
    BY DEF ChunkInv, ChunkTableInv, WellPlaced, ChunkTables
  <2> QED
    BY <2>1 DEF ChunkInv, ControlInv, ChunkTypeOK
<1>2. InteriorExact
  <2> SUFFICES ASSUME chunk_phase = "mark", NEW a \in Addr
               PROVE  LET over == {b \in done : Covers(b, a) /\ <<b, a \div CHUNK_SIZE>> \notin lost} IN
                      IF over = {} THEN ChunkTableLookup(a) = None ELSE ChunkTableLookup(a) \in over
    BY DEF InteriorExact
  <2> DEFINE over == {b \in done : Covers(b, a) /\ <<b, a \div CHUNK_SIZE>> \notin lost}
  <2>1. cid = None /\ EnteredOf(done, todo, cid) = SpansOf(done)
    BY DEF ChunkInv, ControlInv, EnteredOf
  <2>2. done \subseteq Extent /\ a \in Nat
    BY ChunkAssumption DEF ChunkInv, BlocksInv
  <2>3. \A b \in Extent : Covers(b, a) => a \div CHUNK_SIZE \in ChunksOf(b)
    BY <2>2, HitChunk
  <2>4. \A b \in Extent : Covers(b, a) => (b \in done <=> <<b, a \div CHUNK_SIZE>> \in SpansOf(done))
    BY <2>2, <2>3 DEF SpansOf
  <2>5. CASE chunk_table = << >>
    <3>1. over = {}
      BY <2>1, <2>2, <2>4, <2>5 DEF ChunkInv
    <3>2. ChunkTableLookup(a) = None
      BY <2>5 DEF ChunkTableLookup, RecordsOf
    <3> QED
      BY <3>1, <3>2
  <2>6. CASE chunk_table # << >>
    <3>1. ControlInv /\ ChunkTableInv
      BY <2>6 DEF ChunkInv
    <3>2. over = {b \in Extent : Covers(b, a) /\ <<b, a \div CHUNK_SIZE>>
                                                  \in Held(chunk_table, chunk_buckets)}
      BY <2>1, <2>2, <2>4, <3>1 DEF ChunkTableInv
    <3> HIDE DEF over
    <3>3. IF over = {} THEN ChunkTableLookup(a) = None ELSE ChunkTableLookup(a) \in over
      BY <3>1, <3>2, LookupFinds
    <3> QED
      BY <3>3 DEF over
  <2> QED
    BY <2>5, <2>6
<1>3. OneRecordPerChunk
  <2> SUFFICES ASSUME chunk_table # << >>
               PROVE  /\ Cardinality(RecordPlaces) = chunk_table_count
                      /\ \A x, y \in RecordPlaces :
                           chunk_table[x[1]][x[2]].id = chunk_table[y[1]][y[2]].id => x = y
    BY DEF OneRecordPerChunk
  <2>1. /\ chunk_buckets \in Nat \ {0} /\ WellPlaced(chunk_table, chunk_buckets)
        /\ IsFiniteSet(IdsOf(chunk_table, chunk_buckets))
        /\ Cardinality(IdsOf(chunk_table, chunk_buckets)) = chunk_table_count
    BY DEF ChunkInv, ControlInv, ChunkTableInv
  <2> DEFINE P == UNION {{i} \X DOMAIN chunk_table[i] : i \in 0 .. chunk_buckets - 1}
  <2>2. RecordPlaces = P
    BY <2>1 DEF RecordPlaces, WellPlaced, ChunkTables
  <2>3. /\ Cardinality(P) = Cardinality(IdsOf(chunk_table, chunk_buckets))
        /\ \A x, y \in P :
             chunk_table[x[1]][x[2]].id = chunk_table[y[1]][y[2]].id => x = y
    BY <2>1, PlacesCounted
  <2> HIDE DEF P
  <2>4. /\ Cardinality(RecordPlaces) = Cardinality(IdsOf(chunk_table, chunk_buckets))
        /\ \A x, y \in RecordPlaces :
             chunk_table[x[1]][x[2]].id = chunk_table[y[1]][y[2]].id => x = y
    BY <2>2, <2>3
  <2> QED
    BY <2>1, <2>4
<1> QED
  BY <1>1, <1>2, <1>3 DEF ChunkTableExact

(***************************************************************************)
(* Whatever the heap list, the hash, the sizes of chunks and table, and    *)
(* whichever of its allocations fail: during the mark phase an address     *)
(* leads to the block whose payload it lies in and whose entry for this    *)
(* chunk is in the table, and to none if there is no such block; a chunk   *)
(* has one record, and chunk_table_count counts them.                      *)
(***************************************************************************)
THEOREM ChunkTableAlways == ChunkSpec => []ChunkTableExact
<1>1. ChunkStart => ChunkInv
  BY ChunkStartInv
<1>2. ChunkInv /\ [ChunkNext]_chunkVars => ChunkInv'
  BY ChunkStep
<1>3. ChunkInv => ChunkTableExact
  BY ChunkInvExact
<1> QED
  BY <1>1, <1>2, <1>3, PTL DEF ChunkSpec
=============================================================================
