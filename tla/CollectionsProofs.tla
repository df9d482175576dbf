------------------------- MODULE CollectionsProofs -------------------------
(***************************************************************************)
(* Proofs about Collections: every array stands for its abstract value, for*)
(* every set of values and keys, every hash and every capacity; slices     *)
(* select what they select in Python.                                      *)
(***************************************************************************)
EXTENDS Collections, FiniteInduction

Kinds == {"list", "tuple", "set", "stack", "queue", "dict"}
Ordered == {"list", "tuple", "stack", "queue"}
Arrays(n) == [0 .. n - 1 -> Value \cup {Nil}]

(* An array with room for what lives in it. *)
ArrayInv == capacity \in Nat \ {0} /\ data \in Arrays(capacity) /\ length <= capacity

(* The sequence a is what d holds from f on, up to l. *)
Spells(a, d, f, l) ==
  a \in Seq(Value) /\ Len(a) = l - f /\ \A i \in 1 .. l - f : a[i] = d[f + i - 1]

OrderedInv ==
  kind \in Ordered =>
    /\ ArrayInv /\ front <= length /\ (kind # "queue" => front = 0)
    /\ Spells(abs, data, front, length)

SetInv ==
  kind = "set" =>
    /\ ArrayInv /\ abs = {data[i] : i \in Live}
    /\ \A i, j \in Live : data[i] = data[j] => i = j

(***************************************************************************)
(* Arrays.                                                                 *)
(***************************************************************************)
LEMMA SizeIs ==
  ASSUME NEW n \in Nat, NEW t, DOMAIN t = 0 .. n - 1
  PROVE  Size(t) = n
<1>1. 0 \in Int /\ n - 1 \in Int
  OBVIOUS
<1>2. Cardinality(0 .. n - 1) = n
  BY <1>1, FS_Interval
<1> QED
  BY <1>2 DEF Size

LEMMA ArrayKept ==
  ASSUME NEW n \in Nat \ {0}, NEW d, d \in Arrays(n)
  PROVE  Size(d) = n
<1>1. DOMAIN d = 0 .. n - 1
  BY DEF Arrays
<1> QED
  BY <1>1, SizeIs

(* There is room for one more, and what was there stays. *)
LEMMA RoomForOne ==
  ASSUME ArrayInv, length \in Nat
  PROVE  \E n \in Nat \ {0} :
           /\ Room \in Arrays(n) /\ length < n
           /\ \A j \in 0 .. length - 1 : Room[j] = data[j]
<1> DEFINE c == capacity
<1>1. c \in Nat \ {0} /\ data \in Arrays(c) /\ length <= c
  BY DEF ArrayInv
<1>2. CASE length >= c
  <2>1. length = c /\ 2 * c \in Nat \ {0} /\ length < 2 * c
    BY <1>1, <1>2
  <2>2. Room = [i \in 0 .. 2 * c - 1 |-> IF i < c THEN data[i] ELSE Nil]
    BY <1>2 DEF Room, Doubled
  <2> HIDE DEF c
  <2>3. Room \in Arrays(2 * c) /\ \A j \in 0 .. length - 1 : Room[j] = data[j]
    BY <1>1, <2>1, <2>2 DEF Arrays
  <2> QED
    BY <2>1, <2>3
<1>3. CASE ~ (length >= c)
  <2>1. Room = data
    BY <1>3 DEF Room
  <2> HIDE DEF c
  <2> QED
    BY <1>1, <1>3, <2>1
<1> QED
  BY <1>2, <1>3

(***************************************************************************)
(* Lists, tuples, stacks and queues.                                       *)
(***************************************************************************)
Numbers == length \in Nat /\ front \in Nat

LEMMA PushSpells ==
  ASSUME NEW v \in Value, Numbers, OrderedInv, ListPush(v)
  PROVE  OrderedInv' /\ Numbers'
<1>1. /\ kind \in Ordered /\ ArrayInv /\ front <= length /\ (kind # "queue" => front = 0)
      /\ Spells(abs, data, front, length)
  BY DEF ListPush, Alive, OrderedInv, Ordered
<1>2. /\ data' = [Room EXCEPT ![length] = v] /\ length' = length + 1 /\ abs' = Append(abs, v)
      /\ front' = front /\ kind' = kind
  BY DEF ListPush, Become, Keep
<1>3. PICK n \in Nat \ {0} :
           /\ Room \in Arrays(n) /\ length < n
           /\ \A j \in 0 .. length - 1 : Room[j] = data[j]
  BY <1>1, RoomForOne DEF Numbers
<1> HIDE DEF Room
<1>4. data' \in Arrays(n) /\ data'[length] = v /\ \A j \in 0 .. length - 1 : data'[j] = data[j]
  BY <1>2, <1>3 DEF Arrays, Numbers
<1>5. capacity' = n
  BY <1>4, ArrayKept DEF capacity
<1>6. ArrayInv' /\ Numbers' /\ front' <= length'
  <2>1. capacity' \in Nat \ {0} /\ data' \in Arrays(capacity') /\ length' <= capacity'
    BY <1>2, <1>3, <1>4, <1>5 DEF Numbers
  <2>2. ArrayInv'
    BY <2>1 DEF ArrayInv, Arrays
  <2> QED
    BY <1>1, <1>2, <2>2 DEF Numbers
<1>7. Spells(abs', data', front', length')
  <2>1. abs \in Seq(Value) /\ Len(abs) = length - front
        /\ \A i \in 1 .. length - front : abs[i] = data[front + i - 1]
    BY <1>1 DEF Spells
  <2>2. abs' \in Seq(Value) /\ Len(abs') = length' - front'
    <3>1. abs' \in Seq(Value) /\ Len(abs') = Len(abs) + 1
      BY <1>2, <2>1
    <3> QED
      BY <1>2, <2>1, <3>1 DEF Numbers
  <2>3. ASSUME NEW i \in 1 .. length' - front' PROVE abs'[i] = data'[front' + i - 1]
    <3>1. CASE i <= length - front
      <4>1. i \in 1 .. length - front /\ front + i - 1 \in 0 .. length - 1
        BY <1>2, <2>3, <3>1 DEF Numbers
      <4>2. abs'[i] = abs[i]
        BY <1>2, <2>1, <4>1
      <4> QED
        BY <1>2, <1>4, <2>1, <4>1, <4>2
    <3>2. CASE ~ (i <= length - front)
      <4>1. i = length - front + 1 /\ front + i - 1 = length
        BY <1>1, <1>2, <2>3, <3>2 DEF Numbers
      <4>2. abs'[i] = v
        BY <1>2, <2>1, <4>1
      <4> QED
        BY <1>2, <1>4, <4>1, <4>2
    <3> QED
      BY <3>1, <3>2
  <2> QED
    BY <2>2, <2>3 DEF Spells
<1> QED
  BY <1>1, <1>2, <1>6, <1>7 DEF OrderedInv

LEMMA SetSpells ==
  ASSUME NEW i \in Int, NEW v \in Value, Numbers, OrderedInv, ListSet(i, v)
  PROVE  OrderedInv' /\ Numbers'
<1>1. /\ kind \in Ordered /\ kind # "queue" /\ ArrayInv /\ front = 0
      /\ Spells(abs, data, front, length)
  BY DEF ListSet, Alive, OrderedInv, Ordered
<1>2. CASE i \in Live
  <2>1. /\ data' = [data EXCEPT ![i] = v] /\ length' = length /\ abs' = [abs EXCEPT ![i + 1] = v]
        /\ front' = front /\ kind' = kind
    BY <1>2 DEF ListSet, Become, Keep
  <2> DEFINE n == capacity
  <2>2. n \in Nat \ {0} /\ data \in Arrays(n) /\ length <= n
    BY <1>1 DEF ArrayInv
  <2>3. n = capacity
    OBVIOUS
  <2> HIDE DEF n
  <2>4. data' \in Arrays(n)
    BY <2>1, <2>2 DEF Arrays
  <2>5. capacity' = n
    BY <2>2, <2>4, ArrayKept DEF capacity
  <2>6. ArrayInv' /\ Numbers'
    <3>1. capacity' \in Nat \ {0} /\ data' \in Arrays(capacity') /\ length' <= capacity'
      BY <2>1, <2>2, <2>4, <2>5
    <3> QED
      BY <2>1, <3>1 DEF ArrayInv, Arrays, Numbers
  <2>7. Spells(abs', data', front', length')
    BY <1>1, <1>2, <2>1, <2>2 DEF Spells, Arrays, Live, Numbers
  <2> QED
    BY <1>1, <2>1, <2>6, <2>7 DEF OrderedInv, Numbers
<1>3. CASE i \notin Live
  <2>1. UNCHANGED <<data, length, abs, front, kind>>
    BY <1>3 DEF ListSet, Quit
  <2> QED
    BY <2>1 DEF OrderedInv, Numbers, ArrayInv, capacity, Size, Arrays
<1> QED
  BY <1>2, <1>3

LEMMA RemoveSpells ==
  ASSUME NEW i \in Int, Numbers, OrderedInv, ListRemove(i)
  PROVE  OrderedInv' /\ Numbers'
<1>1. /\ kind \in Ordered /\ kind # "queue" /\ ArrayInv /\ front = 0
      /\ Spells(abs, data, front, length)
  BY DEF ListRemove, Alive, OrderedInv, Ordered
<1>2. CASE i \in Live
  <2>1. /\ data' = Shifted(i) /\ length' = length - 1 /\ abs' = RemoveAt(abs, i + 1)
        /\ front' = front /\ kind' = kind
    BY <1>2 DEF ListRemove, Become, Keep
  <2> DEFINE n == capacity
  <2>2. n \in Nat \ {0} /\ data \in Arrays(n) /\ length <= n
    BY <1>1 DEF ArrayInv
  <2>3. n = capacity
    OBVIOUS
  <2> HIDE DEF n
  <2>4. i \in 0 .. length - 1 /\ length \in Nat /\ length - 1 \in Nat
    BY <1>2 DEF Live, Numbers
  <2>5. data' \in Arrays(n)
        /\ \A j \in 0 .. n - 1 : data'[j] = IF i <= j /\ j < length - 1 THEN data[j + 1] ELSE data[j]
    BY <2>1, <2>2, <2>4 DEF Arrays, Shifted
  <2>6. capacity' = n
    BY <2>2, <2>5, ArrayKept DEF capacity
  <2>7. ArrayInv' /\ Numbers'
    <3>1. capacity' \in Nat \ {0} /\ data' \in Arrays(capacity') /\ length' <= capacity'
      BY <2>1, <2>2, <2>4, <2>5, <2>6
    <3> QED
      BY <2>1, <2>4, <3>1 DEF ArrayInv, Arrays, Numbers
  <2>8. Spells(abs', data', front', length')
    <3>1. abs \in Seq(Value) /\ Len(abs) = length /\ \A j \in 1 .. length : abs[j] = data[j - 1]
      BY <1>1, <2>4 DEF Spells
    <3> DEFINE low == SubSeq(abs, 1, i)
               high == SubSeq(abs, i + 2, length)
    <3>2. abs' = low \o high
      BY <2>1, <2>4, <3>1 DEF RemoveAt
    <3>3. low \in Seq(Value) /\ Len(low) = i /\ \A j \in 1 .. i : low[j] = abs[j]
      BY <2>4, <3>1
    <3>4. high \in Seq(Value) /\ Len(high) = length - 1 - i
          /\ \A j \in 1 .. length - 1 - i : high[j] = abs[i + 1 + j]
      BY <2>4, <3>1
    <3> HIDE DEF low, high
    <3>5. abs' \in Seq(Value) /\ Len(abs') = length - 1
      BY <2>4, <3>2, <3>3, <3>4
    <3>6. ASSUME NEW j \in 1 .. length - 1 PROVE abs'[j] = data'[j - 1]
      <4>1. abs'[j] = IF j <= i THEN abs[j] ELSE abs[j + 1]
        <5>1. CASE j <= i
          BY <2>4, <3>2, <3>3, <3>4, <5>1
        <5>2. CASE ~ (j <= i)
          <6>1. j - i \in 1 .. length - 1 - i /\ i + 1 + (j - i) = j + 1
            BY <2>4, <3>6, <5>2
          <6>2. abs'[j] = high[j - i]
            BY <2>4, <3>2, <3>3, <3>4, <5>2, <6>1
          <6> QED
            BY <3>4, <5>2, <6>1, <6>2
        <5> QED
          BY <5>1, <5>2
      <4>2. j - 1 \in 0 .. n - 1 /\ j \in 1 .. length /\ j + 1 \in 1 .. length
        BY <2>2, <2>4, <3>6
      <4>3. data'[j - 1] = IF j <= i THEN data[j - 1] ELSE data[j]
        BY <2>4, <2>5, <3>6, <4>2
      <4> QED
        BY <3>1, <4>1, <4>2, <4>3
    <3> QED
      BY <1>1, <2>1, <2>4, <3>5, <3>6 DEF Spells
  <2> QED
    BY <1>1, <2>1, <2>4, <2>7, <2>8 DEF OrderedInv
<1>3. CASE i \notin Live
  <2>1. UNCHANGED <<data, length, abs, front, kind>>
    BY <1>3 DEF ListRemove, Quit
  <2> QED
    BY <2>1 DEF OrderedInv, Numbers, ArrayInv, capacity, Size, Arrays
<1> QED
  BY <1>2, <1>3

LEMMA PopSpells ==
  ASSUME Numbers, OrderedInv, StackPop
  PROVE  OrderedInv' /\ Numbers'
<1>1. /\ kind \in Ordered /\ kind # "queue" /\ ArrayInv /\ front = 0
      /\ Spells(abs, data, front, length)
  BY DEF StackPop, Alive, OrderedInv, Ordered
<1>2. CASE length # 0
  <2>1. data' = data /\ length' = length - 1 /\ abs' = Front(abs) /\ front' = front /\ kind' = kind
    BY <1>2 DEF StackPop, Become, Keep
  <2>2. length - 1 \in Nat
    BY <1>2 DEF Numbers
  <2>3. ArrayInv' /\ Numbers'
    <3>1. length' <= capacity
      BY <1>1, <2>1, <2>2 DEF ArrayInv, Numbers
    <3> QED
      BY <1>1, <2>1, <2>2, <3>1 DEF ArrayInv, Arrays, Numbers, capacity, Size
  <2>4. Spells(abs', data', front', length')
    <3>1. abs \in Seq(Value) /\ Len(abs) = length /\ \A j \in 1 .. length : abs[j] = data[j - 1]
      BY <1>1 DEF Spells, Numbers
    <3>2. abs' = SubSeq(abs, 1, length - 1)
      BY <2>1, <3>1 DEF Front
    <3>3. abs' \in Seq(Value) /\ Len(abs') = length - 1 /\ \A j \in 1 .. length - 1 : abs'[j] = abs[j]
      BY <2>2, <3>1, <3>2
    <3> QED
      BY <1>1, <2>1, <2>2, <3>1, <3>3 DEF Spells
  <2> QED
    BY <1>1, <2>1, <2>2, <2>3, <2>4 DEF OrderedInv
<1>3. CASE length = 0
  <2>1. UNCHANGED <<data, length, abs, front, kind>>
    BY <1>3 DEF StackPop, Quit
  <2> QED
    BY <2>1 DEF OrderedInv, Numbers, ArrayInv, capacity, Size, Arrays
<1> QED
  BY <1>2, <1>3

LEMMA DequeueSpells ==
  ASSUME Numbers, OrderedInv, Dequeue
  PROVE  OrderedInv' /\ Numbers'
<1>1. /\ kind \in Ordered /\ kind = "queue" /\ ArrayInv /\ front <= length
      /\ Spells(abs, data, front, length)
  BY DEF Dequeue, Alive, OrderedInv, Ordered
<1>2. CASE ~ (front >= length)
  <2>1. UNCHANGED <<data, length, kind>> /\ front' = front + 1 /\ abs' = Tail(abs)
    BY <1>2 DEF Dequeue, Keep
  <2>2. front < length /\ front' \in Nat /\ front' <= length'
    BY <1>1, <1>2, <2>1 DEF Numbers
  <2>3. ArrayInv'
    BY <1>1, <2>1 DEF ArrayInv, Arrays, capacity, Size
  <2>4. Spells(abs', data', front', length')
    <3>1. abs \in Seq(Value) /\ Len(abs) = length - front /\ abs # << >>
          /\ \A j \in 1 .. length - front : abs[j] = data[front + j - 1]
      BY <1>1, <2>2 DEF Spells, Numbers
    <3>2. /\ abs' \in Seq(Value) /\ Len(abs') = Len(abs) - 1
          /\ \A j \in 1 .. Len(abs) - 1 : abs'[j] = abs[j + 1]
      BY <2>1, <3>1
    <3>3. length' - front' = length - front - 1
      BY <2>1 DEF Numbers
    <3>4. ASSUME NEW j \in 1 .. length' - front' PROVE abs'[j] = data'[front' + j - 1]
      <4>1. j \in 1 .. Len(abs) - 1 /\ j + 1 \in 1 .. length - front
        BY <3>1, <3>3 DEF Numbers
      <4>2. front + (j + 1) - 1 = front' + j - 1
        BY <2>1 DEF Numbers
      <4> QED
        BY <2>1, <3>1, <3>2, <4>1, <4>2
    <3> QED
      BY <3>1, <3>2, <3>3, <3>4 DEF Spells
  <2> QED
    BY <1>1, <2>1, <2>2, <2>3, <2>4 DEF OrderedInv, Numbers
<1>3. CASE front >= length
  <2>1. UNCHANGED <<data, length, abs, front, kind>>
    BY <1>3 DEF Dequeue, Quit
  <2> QED
    BY <2>1 DEF OrderedInv, Numbers, ArrayInv, capacity, Size, Arrays
<1> QED
  BY <1>2, <1>3

(***************************************************************************)
(* Sets: distinct elements, so there are as many as the length says.       *)
(***************************************************************************)
LEMMA SetAddKeeps ==
  ASSUME NEW v \in Value, Numbers, SetInv, SetAdd(v)
  PROVE  SetInv' /\ Numbers'
<1>1. kind = "set" /\ ArrayInv /\ abs = {data[i] : i \in Live}
      /\ \A i, j \in Live : data[i] = data[j] => i = j
  BY DEF SetAdd, Alive, SetInv
<1>2. CASE SetFind(v) = {}
  <2>1. /\ data' = [Room EXCEPT ![length] = v] /\ length' = length + 1
        /\ abs' = abs \cup {v} /\ front' = front /\ kind' = kind
    BY <1>2 DEF SetAdd, Become, Keep
  <2>2. PICK n \in Nat \ {0} :
             /\ Room \in Arrays(n) /\ length < n
             /\ \A j \in 0 .. length - 1 : Room[j] = data[j]
    BY <1>1, RoomForOne DEF Numbers
  <2> HIDE DEF Room
  <2>3. data' \in Arrays(n) /\ data'[length] = v /\ \A j \in 0 .. length - 1 : data'[j] = data[j]
    BY <2>1, <2>2 DEF Arrays, Numbers
  <2>4. capacity' = n
    BY <2>3, ArrayKept DEF capacity
  <2>5. ArrayInv' /\ Numbers'
    <3>1. capacity' \in Nat \ {0} /\ data' \in Arrays(capacity') /\ length' <= capacity'
      BY <2>1, <2>2, <2>3, <2>4 DEF Numbers
    <3>2. ArrayInv'
      BY <3>1 DEF ArrayInv, Arrays
    <3> QED
      BY <2>1, <3>2 DEF Numbers
  <2>6. Live' = Live \cup {length} /\ \A i \in Live : i # length
    BY <2>1 DEF Live, Numbers
  <2>7. \A i \in Live : data'[i] = data[i] /\ data[i] # v
    BY <1>2, <2>3 DEF Live, SetFind
  <2>8. abs' = {data'[i] : i \in Live'}
    BY <1>1, <2>1, <2>3, <2>6, <2>7
  <2>9. \A i, j \in Live' : data'[i] = data'[j] => i = j
    BY <1>1, <2>3, <2>6, <2>7
  <2> QED
    BY <1>1, <2>1, <2>5, <2>8, <2>9 DEF SetInv
<1>3. CASE SetFind(v) # {}
  <2>1. UNCHANGED <<data, length, abs, front, kind>>
    <3>1. v \in abs
      BY <1>1, <1>3 DEF SetFind
    <3> QED
      BY <1>3, <3>1 DEF SetAdd, Become, Keep
  <2> QED
    BY <2>1 DEF SetInv, Numbers, ArrayInv, capacity, Size, Arrays, Live
<1> QED
  BY <1>2, <1>3

LEMMA SetRemoveKeeps ==
  ASSUME NEW v \in Value, Numbers, SetInv, SetRemove(v)
  PROVE  SetInv' /\ Numbers'
<1>1. kind = "set" /\ ArrayInv /\ abs = {data[i] : i \in Live}
      /\ \A i, j \in Live : data[i] = data[j] => i = j
  BY DEF SetRemove, Alive, SetInv
<1>2. CASE SetFind(v) # {}
  <2> DEFINE p == Min(SetFind(v))
             n == capacity
  <2>1. /\ data' = [data EXCEPT ![p] = data[length - 1]] /\ length' = length - 1
        /\ abs' = abs \ {v} /\ front' = front /\ kind' = kind
    BY <1>2 DEF SetRemove, Become, Keep
  <2>2. p \in Live /\ data[p] = v
    <3>1. SetFind(v) \subseteq Nat
      BY DEF SetFind, Live, Numbers
    <3>2. p \in SetFind(v)
      BY <1>2, <3>1, MinOf
    <3> QED
      BY <3>2 DEF SetFind
  <2>3. n \in Nat \ {0} /\ data \in Arrays(n) /\ length <= n /\ n = capacity
    BY <1>1 DEF ArrayInv
  <2> HIDE DEF p, n
  <2>4. length - 1 \in Live /\ length - 1 \in Nat /\ Live' = Live \ {length - 1}
    BY <2>1, <2>2 DEF Live, Numbers
  <2>5. p \in 0 .. n - 1 /\ length - 1 \in 0 .. n - 1 /\ Live \subseteq 0 .. n - 1
    BY <2>2, <2>3, <2>4 DEF Live, Numbers
  <2>6. data' \in Arrays(n) /\ \A i \in Live : data'[i] = IF i = p THEN data[length - 1] ELSE data[i]
    BY <2>1, <2>3, <2>5 DEF Arrays
  <2>7. capacity' = n
    BY <2>3, <2>6, ArrayKept DEF capacity
  <2>8. ArrayInv' /\ Numbers'
    <3>1. capacity' \in Nat \ {0} /\ data' \in Arrays(capacity') /\ length' <= capacity'
      BY <2>1, <2>3, <2>4, <2>6, <2>7 DEF Numbers
    <3> QED
      BY <2>1, <2>4, <3>1 DEF ArrayInv, Arrays, Numbers
  <2>9. abs' = {data'[i] : i \in Live'}
    <3>1. \A i \in Live' : data'[i] \in abs /\ data'[i] # v
      BY <1>1, <2>2, <2>4, <2>6
    <3>2. ASSUME NEW x \in abs, x # v PROVE \E i \in Live' : data'[i] = x
      <4>1. PICK i \in Live : data[i] = x
        BY <1>1
      <4>2. i # p
        BY <2>2, <3>2, <4>1
      <4>3. CASE i = length - 1
        BY <2>2, <2>4, <2>6, <4>1, <4>2, <4>3
      <4>4. CASE i # length - 1
        BY <2>4, <2>6, <4>1, <4>2, <4>4
      <4> QED
        BY <4>3, <4>4
    <3> QED
      BY <2>1, <3>1, <3>2
  <2>10. \A i, j \in Live' : data'[i] = data'[j] => i = j
    BY <1>1, <2>2, <2>4, <2>6
  <2> QED
    BY <1>1, <2>1, <2>8, <2>9, <2>10 DEF SetInv
<1>3. CASE SetFind(v) = {}
  <2>1. UNCHANGED <<data, length, abs, front, kind>>
    <3>1. v \notin abs
      BY <1>1, <1>3 DEF SetFind
    <3> QED
      BY <1>3, <3>1 DEF SetRemove, Become, Keep
  <2> QED
    BY <2>1 DEF SetInv, Numbers, ArrayInv, capacity, Size, Arrays, Live
<1> QED
  BY <1>2, <1>3

(* The invariants of the arrays are what the run checks of them. *)
LEMMA SequencesAndSetsFollow ==
  ASSUME Numbers, OrderedInv, SetInv, kind \in Ordered \cup {"set"}
  PROVE  SequencesAndSetsExact
<1>1. ArrayInv
  BY DEF OrderedInv, SetInv
<1>2. kind \in Ordered => abs = [i \in 1 .. length - front |-> data[front + i - 1]]
  BY DEF OrderedInv, Spells
<1>3. kind = "set" => abs = {data[i] : i \in Live} /\ Cardinality(abs) = length
  <2> SUFFICES ASSUME kind = "set" PROVE abs = {data[i] : i \in Live} /\ Cardinality(abs) = length
    OBVIOUS
  <2>1. abs = {data[i] : i \in Live} /\ \A i, j \in Live : data[i] = data[j] => i = j
    BY DEF SetInv
  <2>2. IsFiniteSet(Live) /\ Cardinality(Live) = length
    <3>1. 0 \in Int /\ length - 1 \in Int /\ length \in Nat
      BY DEF Numbers
    <3> QED
      BY <3>1, FS_Interval DEF Live
  <2> DEFINE f == [i \in Live |-> data[i]]
  <2>3. f \in Bijection(Live, abs)
    BY <2>1 DEF Bijection, Injection, IsInjective, Surjection
  <2>4. Cardinality(abs) = Cardinality(Live)
    BY <2>2, <2>3, FS_Bijection DEF ExistsBijection
  <2> QED
    BY <2>1, <2>2, <2>4
<1> QED
  BY <1>1, <1>2, <1>3 DEF SequencesAndSetsExact, ArrayInv, Ordered

(***************************************************************************)
(* Slices.                                                                 *)
(***************************************************************************)
Steps == {-3, -2, -1, 1, 2, 3}

LEMMA MaxTwo ==
  ASSUME NEW a \in Int, NEW b \in Int
  PROVE  Max({a, b}) = IF a <= b THEN b ELSE a
<1> DEFINE m == IF a <= b THEN b ELSE a
<1>1. {a, b} \subseteq Int /\ m \in {a, b} /\ \A e \in {a, b} : e <= m
  OBVIOUS
<1> HIDE DEF m
<1>2. Max({a, b}) = m
  BY <1>1, MaxIs
<1> QED
  BY <1>2 DEF m

LEMMA MinTwo ==
  ASSUME NEW a \in Int, NEW b \in Int
  PROVE  Min({a, b}) = IF a <= b THEN a ELSE b
<1>1. \E m \in {a, b} : \A e \in {a, b} : m <= e
  OBVIOUS
<1>2. Min({a, b}) \in {a, b} /\ \A e \in {a, b} : Min({a, b}) <= e
  BY <1>1 DEF Min
<1> HIDE DEF Min
<1> QED
  BY <1>2

(* A loop upwards visits every step-th position from its start. *)
LEMMA SteppedUp ==
  ASSUME NEW a \in Int, NEW b \in Int, NEW step \in {1, 2, 3}
  PROVE  /\ ToSet(Stepped(a, b, step)) = {i \in Int : a <= i /\ i < b /\ (i - a) % step = 0}
         /\ Increasing(Stepped(a, b, step))
<1> DEFINE n == Max({0, (b - a + step - 1) \div step})
           s == Stepped(a, b, step)
           S == {i \in Int : a <= i /\ i < b /\ (i - a) % step = 0}
<1>1. n = IF 0 <= (b - a + step - 1) \div step THEN (b - a + step - 1) \div step ELSE 0
  <2>1. (b - a + step - 1) \div step \in Int
    OBVIOUS
  <2> QED
    BY <2>1, MaxTwo
<1>2. s = [i \in 1 .. n |-> a + (i - 1) * step]
  <2>1. step > 0
    OBVIOUS
  <2> QED
    BY <2>1, Zenon DEF Stepped
<1> HIDE DEF n, s
<1>3. n \in Nat
  BY <1>1
<1>4. \A i \in 1 .. n : a <= a + (i - 1) * step /\ a + (i - 1) * step < b
                        /\ ((a + (i - 1) * step) - a) % step = 0
  BY <1>1
<1>5. \A i \in S : \E j \in 1 .. n : i = a + (j - 1) * step
  <2> SUFFICES ASSUME NEW i \in S PROVE \E j \in 1 .. n : i = a + (j - 1) * step
    OBVIOUS
  <2> DEFINE j == (i - a) \div step + 1
  <2>1. j \in 1 .. n /\ i = a + (j - 1) * step
    BY <1>1
  <2> QED
    BY <2>1
<1>6. ToSet(s) = S
  <2>1. \A i \in 1 .. n : s[i] \in S
    BY <1>2, <1>4
  <2>2. \A i \in S : \E j \in 1 .. n : s[j] = i
    BY <1>2, <1>5
  <2> HIDE DEF S
  <2> QED
    BY <1>2, <2>1, <2>2 DEF ToSet
<1>7. Increasing(s)
  BY <1>2, <1>3 DEF Increasing
<1> QED
  BY <1>6, <1>7 DEF s

(* And downwards. *)
LEMMA SteppedDown ==
  ASSUME NEW a \in Int, NEW b \in Int, NEW step \in {-1, -2, -3}
  PROVE  /\ ToSet(Stepped(a, b, step)) = {i \in Int : i <= a /\ i > b /\ (i - a) % (-step) = 0}
         /\ Increasing([i \in DOMAIN Stepped(a, b, step) |-> -Stepped(a, b, step)[i]])
<1> DEFINE n == Max({0, (a - b - step - 1) \div (-step)})
           s == Stepped(a, b, step)
           S == {i \in Int : i <= a /\ i > b /\ (i - a) % (-step) = 0}
<1>1. n = IF 0 <= (a - b - step - 1) \div (-step) THEN (a - b - step - 1) \div (-step) ELSE 0
  <2>1. (a - b - step - 1) \div (-step) \in Int
    OBVIOUS
  <2> QED
    BY <2>1, MaxTwo
<1>2. s = [i \in 1 .. n |-> a + (i - 1) * step]
  BY DEF Stepped
<1> HIDE DEF n, s
<1>3. n \in Nat
  BY <1>1
<1>4. \A i \in 1 .. n : a + (i - 1) * step <= a /\ a + (i - 1) * step > b
                        /\ ((a + (i - 1) * step) - a) % (-step) = 0
  BY <1>1
<1>5. \A i \in S : \E j \in 1 .. n : i = a + (j - 1) * step
  <2> SUFFICES ASSUME NEW i \in S PROVE \E j \in 1 .. n : i = a + (j - 1) * step
    OBVIOUS
  <2> DEFINE j == (a - i) \div (-step) + 1
  <2>1. j \in 1 .. n /\ i = a + (j - 1) * step
    BY <1>1
  <2> QED
    BY <2>1
<1>6. ToSet(s) = S
  <2>1. \A i \in 1 .. n : s[i] \in S
    BY <1>2, <1>4
  <2>2. \A i \in S : \E j \in 1 .. n : s[j] = i
    BY <1>2, <1>5
  <2> HIDE DEF S
  <2> QED
    BY <1>2, <2>1, <2>2 DEF ToSet
<1>7. Increasing([i \in DOMAIN s |-> -s[i]])
  BY <1>2, <1>3 DEF Increasing
<1> QED
  BY <1>6, <1>7 DEF s

LEMMA ClampIs ==
  ASSUME NEW i \in Int, NEW len \in Nat
  PROVE  LET j == IF i < 0 THEN i + len ELSE i IN
         Clamp(i, len) = IF j < 0 THEN 0 ELSE IF j > len THEN len ELSE j
<1> DEFINE j == IF i < 0 THEN i + len ELSE i
<1>1. j \in Int
  OBVIOUS
<1>2. Clamp(i, len) = Min({Max({0, j}), len})
  BY DEF Clamp
<1> HIDE DEF j
<1>3. Max({0, j}) = IF 0 <= j THEN j ELSE 0
  BY <1>1, MaxTwo
<1>4. Min({Max({0, j}), len}) = IF Max({0, j}) <= len THEN Max({0, j}) ELSE len
  BY <1>1, <1>3, MinTwo
<1>5. Clamp(i, len) = IF j < 0 THEN 0 ELSE IF j > len THEN len ELSE j
  BY <1>1, <1>2, <1>3, <1>4
<1> QED
  BY <1>5 DEF j

LEMMA BoundIs ==
  ASSUME NEW i \in Int, NEW len \in Nat, NEW step \in Int
  PROVE  LET j == IF i < 0 THEN i + len ELSE i
             low == IF step > 0 THEN 0 ELSE -1 IN
         Bound(i, len, step) = IF j < low THEN low ELSE IF j > len + low THEN len + low ELSE j
<1> DEFINE j == IF i < 0 THEN i + len ELSE i
           low == IF step > 0 THEN 0 ELSE -1
<1>1. j \in Int /\ low \in Int
  OBVIOUS
<1>2. Bound(i, len, step) = Min({Max({low, j}), len + low})
  BY DEF Bound
<1> HIDE DEF j, low
<1>3. Max({low, j}) = IF low <= j THEN j ELSE low
  BY <1>1, MaxTwo
<1>4. Min({Max({low, j}), len + low}) = IF Max({low, j}) <= len + low THEN Max({low, j}) ELSE len + low
  BY <1>1, <1>3, MinTwo
<1>5. Bound(i, len, step) = IF j < low THEN low ELSE IF j > len + low THEN len + low ELSE j
  BY <1>1, <1>2, <1>3, <1>4
<1> QED
  BY <1>5 DEF j, low

LEMMA SelectsUp ==
  ASSUME NEW len \in Nat, NEW start \in Int, NEW stop \in Int, NEW step \in {1, 2, 3}
  PROVE  Selects(Stepped(Clamp(start, len), Clamp(stop, len), step), len, start, stop, step)
<1> DEFINE a == Clamp(start, len)
           b == Clamp(stop, len)
<1>1. a \in 0 .. len /\ b \in 0 .. len /\ a = Bound(start, len, step) /\ b = Bound(stop, len, step)
  <2> DEFINE i == IF start < 0 THEN start + len ELSE start
             j == IF stop < 0 THEN stop + len ELSE stop
  <2>1. step > 0 /\ step \in Int /\ i \in Int /\ j \in Int
    OBVIOUS
  <2>2. a = (IF i < 0 THEN 0 ELSE IF i > len THEN len ELSE i)
        /\ b = (IF j < 0 THEN 0 ELSE IF j > len THEN len ELSE j)
    BY ClampIs
  <2>3. Bound(start, len, step) = IF i < 0 THEN 0 ELSE IF i > len + 0 THEN len + 0 ELSE i
    BY <2>1, BoundIs
  <2>4. Bound(stop, len, step) = IF j < 0 THEN 0 ELSE IF j > len + 0 THEN len + 0 ELSE j
    BY <2>1, BoundIs
  <2> HIDE DEF i, j, a, b
  <2> QED
    BY <2>1, <2>2, <2>3, <2>4
<1> HIDE DEF a, b
<1>2. Selected(len, start, stop, step) = {i \in Int : a <= i /\ i < b /\ (i - a) % step = 0}
  BY <1>1 DEF Selected
<1>3. /\ ToSet(Stepped(a, b, step)) = {i \in Int : a <= i /\ i < b /\ (i - a) % step = 0}
      /\ Increasing(Stepped(a, b, step))
  BY <1>1, SteppedUp
<1>4. step > 0
  OBVIOUS
<1> QED
  BY <1>2, <1>3, <1>4 DEF Selects, a, b

LEMMA SelectsDown ==
  ASSUME NEW len \in Nat, NEW start \in Int, NEW stop \in Int, NEW step \in {-1, -2, -3},
         NEW a \in Int, NEW b \in Int,
         \A i \in Int : i <= a /\ i > b <=> i <= Bound(start, len, step) /\ i > Bound(stop, len, step),
         a = Bound(start, len, step) \/ a <= b
  PROVE  Selects(Stepped(a, b, step), len, start, stop, step)
<1> DEFINE first == Bound(start, len, step)
           limit == Bound(stop, len, step)
<1>1. first \in -1 .. len - 1 /\ limit \in -1 .. len - 1
  BY BoundIs
<1>2. \A i \in Int : i <= a /\ i > b <=> i <= first /\ i > limit
  OBVIOUS
<1>3. a = first \/ a <= b
  OBVIOUS
<1>4. Selected(len, start, stop, step) =
        {i \in 0 .. len - 1 : i <= first /\ i > limit /\ (i - first) % (-step) = 0}
  BY DEF Selected
<1> HIDE DEF first, limit
<1>5. Selected(len, start, stop, step) = {i \in Int : i <= a /\ i > b /\ (i - a) % (-step) = 0}
  <2>1. CASE a = first
    <3>1. \A i \in Int : i <= a /\ i > b <=> i \in 0 .. len - 1 /\ i <= first /\ i > limit
      BY <1>1, <1>2
    <3>2. 0 .. len - 1 \subseteq Int
      OBVIOUS
    <3> QED
      BY <1>4, <2>1, <3>1, <3>2, Zenon
  <2>2. CASE a <= b
    <3>1. \A i \in Int : ~ (i <= a /\ i > b)
      BY <2>2
    <3>2. \A i \in 0 .. len - 1 : ~ (i <= first /\ i > limit)
      BY <1>2, <3>1
    <3> QED
      BY <1>4, <3>1, <3>2, Zenon
  <2> QED
    BY <1>3, <2>1, <2>2
<1>6. /\ ToSet(Stepped(a, b, step)) = {i \in Int : i <= a /\ i > b /\ (i - a) % (-step) = 0}
      /\ Increasing([i \in DOMAIN Stepped(a, b, step) |-> -Stepped(a, b, step)[i]])
  BY SteppedDown
<1>7. ~ (step > 0)
  OBVIOUS
<1> QED
  BY <1>5, <1>6, <1>7 DEF Selects

(* A slice of a string. *)
LEMMA StringSliceSelects ==
  ASSUME NEW len \in Nat, NEW start \in Int, NEW stop \in Int, NEW step \in Steps
  PROVE  Selects(StringSlice(len, start, stop, step), len, start, stop, step)
<1>1. CASE step > 0
  <2>1. step \in {1, 2, 3}
    BY <1>1 DEF Steps
  <2> QED
    BY <1>1, <2>1, SelectsUp DEF StringSlice
<1>2. CASE ~ (step > 0)
  <2> DEFINE i == IF start < 0 THEN start + len ELSE start
             j == IF stop < 0 THEN stop + len ELSE stop
             a == IF i < 0 THEN -1 ELSE Min({i, len - 1})
             b == Max({j, -1})
  <2>1. step \in {-1, -2, -3} /\ i \in Int /\ j \in Int
    BY <1>2 DEF Steps
  <2>2. StringSlice(len, start, stop, step) = Stepped(a, b, step)
    BY <1>2 DEF StringSlice
  <2>3. a = IF i < 0 THEN -1 ELSE IF i <= len - 1 THEN i ELSE len - 1
    BY <2>1, MinTwo
  <2>4. b = IF j <= -1 THEN -1 ELSE j
    BY <2>1, MaxTwo
  <2>5. Bound(start, len, step) = IF i < -1 THEN -1 ELSE IF i > len - 1 THEN len - 1 ELSE i
    BY <1>2, <2>1, BoundIs
  <2>6. Bound(stop, len, step) = IF j < -1 THEN -1 ELSE IF j > len - 1 THEN len - 1 ELSE j
    BY <1>2, <2>1, BoundIs
  <2> HIDE DEF i, j, a, b
  <2>7. a \in Int /\ b \in Int /\ a = Bound(start, len, step)
    BY <2>1, <2>3, <2>4, <2>5
  <2>8. \A x \in Int : x <= a /\ x > b <=> x <= Bound(start, len, step) /\ x > Bound(stop, len, step)
    BY <2>1, <2>3, <2>4, <2>6, <2>7
  <2>9. Selects(Stepped(a, b, step), len, start, stop, step)
    BY <2>1, <2>7, <2>8, SelectsDown
  <2> QED
    BY <2>2, <2>9
<1> QED
  BY <1>1, <1>2

(* A slice of a list, but for the two deviations of a negative step. *)
LEMMA ListSliceSelects ==
  ASSUME NEW len \in Nat, NEW start \in Int, NEW stop \in Int, NEW step \in Steps,
         step > 0 \/ (start < len /\ stop >= -len)
  PROVE  Selects(ListSlice(len, start, stop, step), len, start, stop, step)
<1>1. ListSlice(len, start, stop, step) = Stepped(Clamp(start, len), Clamp(stop, len), step)
  BY DEF ListSlice, Steps
<1>2. CASE step > 0
  <2>1. step \in {1, 2, 3}
    BY <1>2 DEF Steps
  <2> QED
    BY <1>1, <2>1, SelectsUp
<1>3. CASE ~ (step > 0)
  <2> DEFINE i == IF start < 0 THEN start + len ELSE start
             j == IF stop < 0 THEN stop + len ELSE stop
             a == Clamp(start, len)
             b == Clamp(stop, len)
  <2>1. step \in {-1, -2, -3} /\ i \in Int /\ j \in Nat /\ i < len
    BY <1>3 DEF Steps
  <2>2. a = (IF i < 0 THEN 0 ELSE IF i > len THEN len ELSE i) /\ b = IF j > len THEN len ELSE j
    BY <2>1, ClampIs
  <2>3. Bound(start, len, step) = IF i < -1 THEN -1 ELSE IF i > len - 1 THEN len - 1 ELSE i
    BY <1>3, <2>1, BoundIs
  <2>4. Bound(stop, len, step) = IF j < -1 THEN -1 ELSE IF j > len - 1 THEN len - 1 ELSE j
    BY <1>3, <2>1, BoundIs
  <2> HIDE DEF i, j, a, b
  <2>5. a \in Int /\ b \in Int /\ (a = Bound(start, len, step) \/ a <= b)
    BY <2>1, <2>2, <2>3
  <2>6. \A x \in Int : x <= a /\ x > b <=> x <= Bound(start, len, step) /\ x > Bound(stop, len, step)
    BY <2>1, <2>2, <2>3, <2>4
  <2>7. Selects(Stepped(a, b, step), len, start, stop, step)
    BY <2>1, <2>5, <2>6, SelectsDown
  <2> QED
    BY <1>1, <2>7 DEF a, b
<1> QED
  BY <1>2, <1>3

LEMMA SlicesFollow ==
  ASSUME Numbers
  PROVE  SlicesSelect
<1> SUFFICES ASSUME NEW start \in -length - 2 .. length + 2, NEW stop \in -length - 2 .. length + 2,
                    NEW step \in {-3, -2, -1, 1, 2, 3}
             PROVE  /\ Selects(StringSlice(length, start, stop, step), length, start, stop, step)
                    /\ step > 0 \/ (start < length /\ stop >= -length) =>
                         Selects(ListSlice(length, start, stop, step), length, start, stop, step)
  BY DEF SlicesSelect
<1>1. length \in Nat /\ start \in Int /\ stop \in Int /\ step \in Steps
  BY DEF Numbers, Steps
<1> QED
  BY <1>1, StringSliceSelects, ListSliceSelects

(***************************************************************************)
(* Probing a dict.  i places after the home of the key, in one turn of the *)
(* table.                                                                  *)
(***************************************************************************)
HashTypes == hash \in [Key -> 0 .. HashSpan - 1]
Entry == [state : {"empty", "used", "deleted"}, key : Key \cup {Nil}, value : Value \cup {Nil}]
DictTables(n) == [0 .. n - 1 -> Entry]

Slot(h, i, n) == IF h + i < n THEN h + i ELSE h + i - n
At(k, i, n) == Slot(hash[k] % n, i, n)

UsedSlots(t, n) == {p \in 0 .. n - 1 : t[p].state = "used"}
Keys(t, n) == {t[p].key : p \in UsedSlots(t, n)}
Content(t, n) == {<<t[p].key, t[p].value>> : p \in UsedSlots(t, n)}

(* A search for a stored key passes no slot that was never used. *)
Reached(t, n) ==
  \A p \in UsedSlots(t, n) : \A d \in 0 .. n - 1 :
    At(t[p].key, d, n) = p => \A e \in 0 .. d - 1 : t[At(t[p].key, e, n)].state # "empty"

IsDict(t, n) ==
  /\ t \in DictTables(n) /\ Reached(t, n)
  /\ \A p \in UsedSlots(t, n) : t[p].key \in Key /\ t[p].value \in Value
  /\ \A p, q \in UsedSlots(t, n) : t[p].key = t[q].key => p = q

LEMMA HomeSlot ==
  ASSUME HashTypes, NEW n \in Nat \ {0}, NEW k \in Key
  PROVE  hash[k] % n \in 0 .. n - 1
<1>1. hash[k] \in Int
  BY CollectionsAssumption DEF HashTypes
<1> QED
  BY <1>1

LEMMA AtSlot ==
  ASSUME HashTypes, NEW n \in Nat \ {0}, NEW k \in Key, NEW i \in 0 .. n - 1
  PROVE  At(k, i, n) \in 0 .. n - 1
BY HomeSlot DEF At, Slot

LEMMA AtMeets ==
  ASSUME HashTypes, NEW n \in Nat \ {0}, NEW k \in Key, NEW p \in 0 .. n - 1
  PROVE  \E i \in 0 .. n - 1 : At(k, i, n) = p
<1> DEFINE h == hash[k] % n
           i == IF h <= p THEN p - h ELSE p - h + n
<1>1. h \in 0 .. n - 1
  BY HomeSlot
<1> HIDE DEF h
<1>2. i \in 0 .. n - 1 /\ Slot(h, i, n) = p
  BY <1>1 DEF Slot
<1> HIDE DEF i
<1> QED
  BY <1>2 DEF At, h

LEMMA AtOnce ==
  ASSUME HashTypes, NEW n \in Nat \ {0}, NEW k \in Key,
         NEW i \in 0 .. n - 1, NEW j \in 0 .. n - 1, At(k, i, n) = At(k, j, n)
  PROVE  i = j
<1> DEFINE h == hash[k] % n
<1>1. h \in 0 .. n - 1
  BY HomeSlot
<1>2. Slot(h, i, n) = Slot(h, j, n)
  BY DEF At
<1> HIDE DEF h
<1> QED
  BY <1>1, <1>2 DEF Slot

LEMMA ModIs ==
  ASSUME NEW n \in Nat \ {0}, NEW a \in Int, NEW r \in 0 .. n - 1
  PROVE  (n * a + r) % n = r
<1> DEFINE x == n * a + r
           q == x \div n
           m == x % n
<1>1. x \in Int
  OBVIOUS
<1>2. x = n * q + m /\ q \in Int /\ m \in 0 .. n - 1
  <2> HIDE DEF x
  <2> QED
    BY <1>1
<1>3. n * (q - a) = r - m
  <2> HIDE DEF q, m
  <2> QED
    BY <1>2
<1> HIDE DEF x, q, m
<1>4. q - a = 0
  <2>1. q - a >= 1 => n * (q - a) >= n
    BY <1>2
  <2>2. q - a <= -1 => n * (q - a) <= -n
    BY <1>2
  <2> QED
    BY <1>2, <1>3, <2>1, <2>2
<1>5. m = r
  BY <1>2, <1>3, <1>4
<1> QED
  BY <1>5 DEF m, x

LEMMA Distributes ==
  ASSUME NEW n \in Int, NEW a \in Int, NEW b \in Int, NEW r \in Int
  PROVE  (n * a + r) - n * b = n * (a - b) + r
OBVIOUS

(* What find_slot and remove compute. *)
LEMMA ProbeAt ==
  ASSUME HashTypes, NEW n \in Nat \ {0}, NEW k \in Key, NEW i \in 0 .. n - 1,
         NEW t, DOMAIN t = 0 .. n - 1
  PROVE  DictProbe(t, k, i) = At(k, i, n)
<1>1. Size(t) = n /\ hash[k] % n \in 0 .. n - 1
  BY SizeIs, HomeSlot
<1> DEFINE h == hash[k] % n
<1>2. DictProbe(t, k, i) = (h + i) % n /\ h \in 0 .. n - 1
  BY <1>1 DEF DictProbe
<1> HIDE DEF h
<1>3. (h + i) % n = Slot(h, i, n)
  BY <1>2 DEF Slot
<1> QED
  BY <1>2, <1>3 DEF At, h

LEMMA RemoveProbeAt ==
  ASSUME HashTypes, capacity \in DictCaps, NEW k \in Key, NEW i \in 0 .. capacity - 1
  PROVE  RemoveProbe(k, i) = At(k, i, capacity)
<1> DEFINE n == capacity
           x == hash[k]
           h == x % n
           a == x \div n
           z == HashSpan \div n
<1>1. n \in Nat \ {0} /\ HashSpan \in Nat /\ HashSpan % n = 0 /\ i \in 0 .. n - 1
  BY CollectionsAssumption
<1>2. x \in 0 .. HashSpan - 1
  BY DEF HashTypes
<1>3. RemoveProbe(k, i) = ((x + i) % HashSpan) % n
  BY DEF RemoveProbe
<1> HIDE DEF x, n
<1>4. x = n * a + h /\ h \in 0 .. n - 1 /\ a \in Nat
  BY <1>1, <1>2
<1>5. HashSpan = n * z /\ z \in Nat
  BY <1>1
<1> HIDE DEF h, a, z
<1>6. n <= HashSpan
  <2>1. z # 0
    BY <1>1, <1>2, <1>5
  <2>2. z >= 1 => n * z >= n
    BY <1>1, <1>5
  <2> QED
    BY <1>1, <1>5, <2>1, <2>2
<1>7. (x + i) % HashSpan = IF x + i < HashSpan THEN x + i ELSE (x + i) - HashSpan
  BY <1>1, <1>2, <1>6
<1>8. Slot(h, i, n) \in 0 .. n - 1
  BY <1>1, <1>4 DEF Slot
<1>9. \E c \in Int : (x + i) % HashSpan = n * c + Slot(h, i, n)
  <2> DEFINE c == IF h + i < n THEN a ELSE a + 1
  <2>1. c \in Int /\ x + i = n * c + Slot(h, i, n)
    BY <1>1, <1>4 DEF Slot
  <2> HIDE DEF c
  <2>2. (x + i) - HashSpan = n * (c - z) + Slot(h, i, n) /\ c - z \in Int
    <3>1. /\ n \in Int /\ z \in Int /\ Slot(h, i, n) \in Int /\ x + i \in Int /\ HashSpan \in Int
          /\ c - z \in Int
      BY <1>1, <1>2, <1>5, <1>8, <2>1
    <3>2. x + i = n * c + Slot(h, i, n)
      BY <2>1
    <3>3. HashSpan = n * z
      BY <1>5
    <3>4. (n * c + Slot(h, i, n)) - n * z = n * (c - z) + Slot(h, i, n)
      BY <2>1, <3>1, Distributes
    <3>5. (x + i) - HashSpan = (n * c + Slot(h, i, n)) - n * z
      BY <3>2, <3>3, Zenon
    <3>6. c - z \in Int
      BY <3>1
    <3> QED
      BY <3>4, <3>5, <3>6, Zenon
  <2>3. CASE x + i < HashSpan
    BY <1>7, <2>1, <2>3
  <2>4. CASE ~ (x + i < HashSpan)
    <3>1. (x + i) % HashSpan = (x + i) - HashSpan
      BY <1>7, <2>4, Zenon
    <3> QED
      BY <2>2, <3>1, Zenon
  <2> QED
    BY <2>3, <2>4
<1>10. ((x + i) % HashSpan) % n = Slot(h, i, n)
  BY <1>1, <1>8, <1>9, ModIs
<1> QED
  BY <1>3, <1>10 DEF At, h, x, n

(* The search stops at the key, or at the first free slot it has passed    *)
(* when it has met a slot that was never used, or fails.                   *)
Passed(t, k, n, d) ==
  \A e \in 0 .. d - 1 : t[At(k, e, n)].state # "empty" /\ ~ Holds(t[At(k, e, n)], k)

LEMMA FindSlotIs ==
  ASSUME HashTypes, NEW n \in Nat \ {0}, NEW k \in Key, NEW t \in DictTables(n)
  PROVE  \/ \E d \in 0 .. n - 1 :
              FindSlot(t, k) = At(k, d, n) /\ Holds(t[At(k, d, n)], k) /\ Passed(t, k, n, d)
         \/ \E last \in 0 .. n :
              /\ Passed(t, k, n, last)
              /\ last < n => t[At(k, last, n)].state = "empty"
              /\ \/ \E d \in 0 .. n - 1 :
                      /\ FindSlot(t, k) = At(k, d, n) /\ t[At(k, d, n)].state # "used"
                      /\ d <= last
                 \/ /\ FindSlot(t, k) = -1 /\ last = n
                    /\ \A p \in 0 .. n - 1 : t[p].state = "used"
<1> DEFINE E == Ends(t, k)
           last == IF E = {} THEN n ELSE Min(E)
           D == Dead(t, k, last)
           slot == DictProbe(t, k, last)
<1>1. DOMAIN t = 0 .. n - 1 /\ Size(t) = n
  BY SizeIs DEF DictTables
<1>2. \A i \in 0 .. n - 1 : DictProbe(t, k, i) = At(k, i, n)
  BY <1>1, ProbeAt
<1>3. FindSlot(t, k) = IF E # {} /\ Holds(t[slot], k) THEN slot
                       ELSE IF D # {} THEN DictProbe(t, k, Min(D))
                       ELSE IF E # {} THEN slot ELSE -1
  BY <1>1 DEF FindSlot
<1>4. E = {i \in 0 .. n - 1 : t[At(k, i, n)].state = "empty" \/ Holds(t[At(k, i, n)], k)}
  BY <1>1, <1>2 DEF Ends
<1>5. D = {i \in 0 .. n - 1 : i < last /\ t[At(k, i, n)].state = "deleted"}
  BY <1>1, <1>2 DEF Dead
<1> HIDE DEF E, D
<1>6. E # {} => last \in E /\ \A i \in E : last <= i
  <2>1. E \subseteq Nat
    BY <1>4
  <2> QED
    BY <2>1, MinOf
<1>7. D # {} => Min(D) \in D
  <2>1. D \subseteq Nat
    BY <1>5
  <2> QED
    BY <2>1, MinOf
<1>8. last \in 0 .. n /\ (E # {} => last \in 0 .. n - 1) /\ (E = {} => last = n)
  BY <1>4, <1>6
<1> HIDE DEF last
<1>9. Passed(t, k, n, last)
  <2> SUFFICES ASSUME NEW e \in 0 .. last - 1, t[At(k, e, n)].state = "empty" \/ Holds(t[At(k, e, n)], k)
               PROVE  FALSE
    BY DEF Passed
  <2>1. e \in 0 .. n - 1 /\ e < last
    BY <1>8
  <2>2. e \in E
    BY <1>4, <2>1
  <2> QED
    BY <1>6, <1>8, <2>1, <2>2
<1>10. E # {} => slot = At(k, last, n)
  BY <1>2, <1>8
<1> HIDE DEF slot
<1>11. CASE E # {} /\ Holds(t[slot], k)
  <2>1. FindSlot(t, k) = At(k, last, n) /\ Holds(t[At(k, last, n)], k) /\ last \in 0 .. n - 1
    BY <1>3, <1>8, <1>10, <1>11
  <2> QED
    BY <1>9, <2>1
<1>12. CASE ~ (E # {} /\ Holds(t[slot], k))
  <2>1. last < n => t[At(k, last, n)].state = "empty"
    BY <1>4, <1>6, <1>8, <1>10, <1>12
  <2>2. CASE D # {}
    <3> DEFINE d == Min(D)
    <3>1. d \in 0 .. n - 1 /\ d < last /\ t[At(k, d, n)].state = "deleted"
      BY <1>5, <1>7, <2>2
    <3>2. FindSlot(t, k) = At(k, d, n)
      BY <1>2, <1>3, <1>12, <2>2, <3>1
    <3> HIDE DEF d
    <3> QED
      BY <1>8, <1>9, <2>1, <3>1, <3>2
  <2>3. CASE D = {} /\ E # {}
    <3>1. FindSlot(t, k) = At(k, last, n) /\ last \in 0 .. n - 1
      BY <1>3, <1>8, <1>10, <1>12, <2>3
    <3>2. t[At(k, last, n)].state # "used" /\ last <= last
      BY <1>8, <2>1, <3>1
    <3> QED
      BY <1>8, <1>9, <2>1, <3>1, <3>2
  <2>4. CASE D = {} /\ E = {}
    <3>1. FindSlot(t, k) = -1 /\ last = n
      BY <1>3, <1>8, <2>4
    <3>2. \A p \in 0 .. n - 1 : t[p].state = "used"
      <4> SUFFICES ASSUME NEW p \in 0 .. n - 1 PROVE t[p].state = "used"
        OBVIOUS
      <4>1. PICK i \in 0 .. n - 1 : At(k, i, n) = p
        BY AtMeets
      <4>2. i < last /\ i \in 0 .. last - 1
        BY <1>8, <3>1
      <4>3. t[p].state # "deleted" /\ t[p].state # "empty"
        BY <1>5, <1>9, <2>4, <4>1, <4>2 DEF Passed
      <4>4. t[p].state \in {"empty", "used", "deleted"}
        BY DEF DictTables, Entry
      <4> QED
        BY <4>3, <4>4
    <3> QED
      BY <1>8, <1>9, <2>1, <3>1, <3>2
  <2> QED
    BY <2>2, <2>3, <2>4
<1> QED
  BY <1>11, <1>12

(* Its result in a dict: the slot of a stored key; for another key a free  *)
(* slot with no gap before it, unless all slots are used.                  *)
FreeFor(t, k, n, s) ==
  \E d \in 0 .. n - 1 :
    /\ s = At(k, d, n) /\ t[s].state # "used"
    /\ \A e \in 0 .. d - 1 : t[At(k, e, n)].state # "empty"

LEMMA DictSearch ==
  ASSUME HashTypes, NEW n \in Nat \ {0}, NEW k \in Key, NEW t, IsDict(t, n)
  PROVE  /\ k \in Keys(t, n) => FindSlot(t, k) \in UsedSlots(t, n) /\ t[FindSlot(t, k)].key = k
         /\ k \notin Keys(t, n) => \/ FindSlot(t, k) = -1 /\ UsedSlots(t, n) = 0 .. n - 1
                                   \/ FreeFor(t, k, n, FindSlot(t, k))
<1>0. t \in DictTables(n)
  BY DEF IsDict
<1>1. CASE \E d \in 0 .. n - 1 :
             FindSlot(t, k) = At(k, d, n) /\ Holds(t[At(k, d, n)], k) /\ Passed(t, k, n, d)
  <2>1. FindSlot(t, k) \in 0 .. n - 1 /\ Holds(t[FindSlot(t, k)], k)
    BY <1>1, AtSlot
  <2> QED
    BY <2>1 DEF Holds, UsedSlots, Keys
<1>2. CASE \E last \in 0 .. n :
             /\ Passed(t, k, n, last)
             /\ last < n => t[At(k, last, n)].state = "empty"
             /\ \/ \E d \in 0 .. n - 1 :
                     /\ FindSlot(t, k) = At(k, d, n) /\ t[At(k, d, n)].state # "used"
                     /\ d <= last
                \/ /\ FindSlot(t, k) = -1 /\ last = n
                   /\ \A p \in 0 .. n - 1 : t[p].state = "used"
  <2>1. PICK last \in 0 .. n :
             /\ Passed(t, k, n, last)
             /\ last < n => t[At(k, last, n)].state = "empty"
             /\ \/ \E d \in 0 .. n - 1 :
                     /\ FindSlot(t, k) = At(k, d, n) /\ t[At(k, d, n)].state # "used"
                     /\ d <= last
                \/ /\ FindSlot(t, k) = -1 /\ last = n
                   /\ \A p \in 0 .. n - 1 : t[p].state = "used"
    BY <1>2
  <2>2. k \notin Keys(t, n)
    <3> SUFFICES ASSUME k \in Keys(t, n) PROVE FALSE
      OBVIOUS
    <3>1. PICK p \in UsedSlots(t, n) : t[p].key = k
      BY DEF Keys
    <3>2. p \in 0 .. n - 1 /\ t[p].state = "used"
      BY <3>1 DEF UsedSlots
    <3>3. PICK i \in 0 .. n - 1 : At(k, i, n) = p
      BY <3>2, AtMeets
    <3>4. ~ (i < last)
      BY <2>1, <3>1, <3>2, <3>3 DEF Passed, Holds
    <3>5. last \in 0 .. n - 1 /\ t[At(k, last, n)].state = "empty"
      BY <2>1, <3>4
    <3>6. i # last /\ last \in 0 .. i - 1
      BY <3>2, <3>3, <3>4, <3>5
    <3>7. \A e \in 0 .. i - 1 : t[At(k, e, n)].state # "empty"
      BY <3>1, <3>3 DEF IsDict, Reached
    <3> QED
      BY <3>5, <3>6, <3>7
  <2>3. CASE \E d \in 0 .. n - 1 :
               /\ FindSlot(t, k) = At(k, d, n) /\ t[At(k, d, n)].state # "used"
               /\ d <= last
    <3>1. PICK d \in 0 .. n - 1 :
               /\ FindSlot(t, k) = At(k, d, n) /\ t[At(k, d, n)].state # "used"
               /\ d <= last
      BY <2>3
    <3>2. \A e \in 0 .. d - 1 : e \in 0 .. last - 1
      BY <3>1
    <3>3. \A e \in 0 .. d - 1 : t[At(k, e, n)].state # "empty"
      BY <2>1, <3>2 DEF Passed
    <3> QED
      BY <2>2, <3>1, <3>3 DEF FreeFor
  <2>4. CASE FindSlot(t, k) = -1 /\ \A p \in 0 .. n - 1 : t[p].state = "used"
    BY <2>2, <2>4 DEF UsedSlots
  <2> QED
    BY <2>1, <2>3, <2>4
<1> QED
  BY <1>0, <1>1, <1>2, FindSlotIs

(***************************************************************************)
(* Writing an entry.                                                       *)
(***************************************************************************)
Put(w, t, s, e) == w = [t EXCEPT ![s] = e]

Adds(w, t, n, s, e) ==
  /\ s \notin UsedSlots(t, n) /\ UsedSlots(w, n) = UsedSlots(t, n) \cup {s}
  /\ Keys(w, n) = Keys(t, n) \cup {e.key}
  /\ Content(w, n) = Content(t, n) \cup {<<e.key, e.value>>}
  /\ w[s] = e /\ \A p \in UsedSlots(t, n) : w[p] = t[p]

LEMMA PutNew ==
  ASSUME HashTypes, NEW n \in Nat \ {0}, NEW t, IsDict(t, n), NEW e \in Entry, e.state = "used",
         e.key \in Key, e.value \in Value, e.key \notin Keys(t, n),
         NEW s, FreeFor(t, e.key, n, s), NEW w, Put(w, t, s, e)
  PROVE  IsDict(w, n) /\ Adds(w, t, n, s, e)
<1> DEFINE U == UsedSlots(t, n)
<1>1. PICK d \in 0 .. n - 1 :
           /\ s = At(e.key, d, n) /\ t[s].state # "used"
           /\ \A i \in 0 .. d - 1 : t[At(e.key, i, n)].state # "empty"
  BY DEF FreeFor
<1>2. s \in 0 .. n - 1 /\ t \in DictTables(n)
  BY <1>1, AtSlot DEF IsDict
<1>3. w \in DictTables(n) /\ w[s] = e /\ \A p \in 0 .. n - 1 : p # s => w[p] = t[p]
  BY <1>2 DEF DictTables, Put
<1>4. s \notin U /\ U \subseteq 0 .. n - 1
  BY <1>1 DEF UsedSlots
<1>5. UsedSlots(w, n) = U \cup {s}
  BY <1>2, <1>3 DEF UsedSlots
<1>6. \A p \in U : w[p] = t[p]
  BY <1>3, <1>4
<1>7. Keys(w, n) = Keys(t, n) \cup {e.key}
  <2>1. Keys(w, n) = {w[p].key : p \in U \cup {s}} /\ Keys(t, n) = {t[p].key : p \in U}
    BY <1>5 DEF Keys
  <2> HIDE DEF U
  <2> QED
    BY <1>3, <1>6, <2>1
<1>8. Content(w, n) = Content(t, n) \cup {<<e.key, e.value>>}
  <2>1. Content(w, n) = {<<w[p].key, w[p].value>> : p \in U \cup {s}}
        /\ Content(t, n) = {<<t[p].key, t[p].value>> : p \in U}
    BY <1>5 DEF Content
  <2> HIDE DEF U
  <2> QED
    BY <1>3, <1>6, <2>1
<1>9. \A p \in U : t[p].key # e.key /\ t[p].key \in Key /\ t[p].value \in Value
  BY DEF Keys, IsDict
<1>10. \A p \in 0 .. n - 1 : t[p].state # "empty" => w[p].state # "empty"
  BY <1>3
<1>11. Reached(w, n)
  <2> SUFFICES ASSUME NEW p \in UsedSlots(w, n), NEW i \in 0 .. n - 1, At(w[p].key, i, n) = p,
                      NEW j \in 0 .. i - 1
               PROVE  w[At(w[p].key, j, n)].state # "empty"
    BY DEF Reached
  <2>1. j \in 0 .. n - 1
    OBVIOUS
  <2>2. CASE p = s
    <3>1. w[p].key = e.key /\ i = d
      BY <1>1, <1>3, <2>2, AtOnce
    <3>2. t[At(e.key, j, n)].state # "empty" /\ At(e.key, j, n) \in 0 .. n - 1
      BY <1>1, <2>1, <3>1, AtSlot
    <3> QED
      BY <1>10, <3>1, <3>2
  <2>3. CASE p # s
    <3>1. p \in U /\ w[p] = t[p]
      BY <1>5, <1>6, <2>3
    <3>2. t[At(t[p].key, j, n)].state # "empty"
      BY <3>1 DEF IsDict, Reached
    <3>3. At(t[p].key, j, n) \in 0 .. n - 1
      BY <1>9, <2>1, <3>1, AtSlot
    <3> QED
      BY <1>10, <3>1, <3>2, <3>3
  <2> QED
    BY <2>2, <2>3
<1>12. \A p \in UsedSlots(w, n) : w[p].key \in Key /\ w[p].value \in Value
  BY <1>3, <1>5, <1>6, <1>9
<1>13. \A p, q \in UsedSlots(w, n) : w[p].key = w[q].key => p = q
  <2>1. \A p, q \in U : t[p].key = t[q].key => p = q
    BY DEF IsDict
  <2> HIDE DEF U
  <2> QED
    BY <1>3, <1>5, <1>6, <1>9, <2>1
<1>14. IsDict(w, n)
  BY <1>3, <1>11, <1>12, <1>13 DEF IsDict
<1> QED
  BY <1>3, <1>4, <1>5, <1>6, <1>7, <1>8, <1>14 DEF Adds

(* A key that is there gets another value, or its slot becomes a tombstone.*)
Replaces(w, t, n, s, e) ==
  /\ UsedSlots(w, n) = IF e.state = "used" THEN UsedSlots(t, n) ELSE UsedSlots(t, n) \ {s}
  /\ Keys(w, n) = IF e.state = "used" THEN Keys(t, n) ELSE Keys(t, n) \ {e.key}
  /\ w[s] = e /\ \A p \in UsedSlots(t, n) : p # s => w[p] = t[p]

LEMMA PutOver ==
  ASSUME HashTypes, NEW n \in Nat \ {0}, NEW t, IsDict(t, n), NEW s \in UsedSlots(t, n),
         NEW e \in Entry, e.state \in {"used", "deleted"}, e.key = t[s].key, e.value \in Value,
         NEW w, Put(w, t, s, e)
  PROVE  IsDict(w, n) /\ Replaces(w, t, n, s, e)
<1> DEFINE V == UsedSlots(t, n)
           U == IF e.state = "used" THEN V ELSE V \ {s}
<1>1. s \in 0 .. n - 1 /\ t[s].state = "used" /\ V \subseteq 0 .. n - 1 /\ t \in DictTables(n)
  BY DEF UsedSlots, IsDict
<1>2. w \in DictTables(n) /\ w[s] = e /\ \A p \in 0 .. n - 1 : p # s => w[p] = t[p]
  BY <1>1 DEF DictTables, Put
<1>3. UsedSlots(w, n) = U
  BY <1>1, <1>2 DEF UsedSlots
<1>4. \A p \in V : p # s => w[p] = t[p]
  BY <1>1, <1>2
<1>5. \A p \in V : t[p].key \in Key /\ t[p].value \in Value
  BY DEF IsDict
<1>6. \A p, q \in V : t[p].key = t[q].key => p = q
  BY DEF IsDict
<1>7. \A p \in V : w[p].key = t[p].key
  BY <1>2, <1>4
<1>8. \A p \in 0 .. n - 1 : t[p].state # "empty" => w[p].state # "empty"
  BY <1>2
<1>9. U \subseteq V /\ s \in V
  OBVIOUS
<1>10. Reached(w, n)
  <2> SUFFICES ASSUME NEW p \in UsedSlots(w, n), NEW i \in 0 .. n - 1, At(w[p].key, i, n) = p,
                      NEW j \in 0 .. i - 1
               PROVE  w[At(w[p].key, j, n)].state # "empty"
    BY DEF Reached
  <2>1. j \in 0 .. n - 1 /\ p \in V /\ w[p].key = t[p].key
    BY <1>3, <1>7, <1>9
  <2>2. t[At(t[p].key, j, n)].state # "empty"
    BY <2>1 DEF IsDict, Reached
  <2>3. At(t[p].key, j, n) \in 0 .. n - 1
    BY <1>5, <2>1, AtSlot
  <2> QED
    BY <1>8, <2>1, <2>2, <2>3
<1>11. \A p \in UsedSlots(w, n) : w[p].key \in Key /\ w[p].value \in Value
  BY <1>2, <1>3, <1>4, <1>5, <1>7, <1>9
<1>12. \A p, q \in UsedSlots(w, n) : w[p].key = w[q].key => p = q
  BY <1>3, <1>6, <1>7, <1>9
<1>13. IsDict(w, n)
  BY <1>2, <1>10, <1>11, <1>12 DEF IsDict
<1>14. Keys(w, n) = IF e.state = "used" THEN Keys(t, n) ELSE Keys(t, n) \ {e.key}
  <2>1. Keys(w, n) = {w[p].key : p \in U} /\ Keys(t, n) = {t[p].key : p \in V}
    BY <1>3 DEF Keys
  <2>2. CASE e.state = "used"
    <3>1. U = V
      BY <2>2
    <3> HIDE DEF U, V
    <3> QED
      BY <1>7, <2>1, <2>2, <3>1
  <2>3. CASE e.state # "used"
    <3>1. U = V \ {s} /\ Keys(t, n) \ {e.key} = {t[p].key : p \in V} \ {t[s].key}
      BY <2>1, <2>3
    <3> HIDE DEF U, V
    <3>2. \A p \in V : t[p].key = t[s].key <=> p = s
      BY <1>6, <1>9
    <3>3. {w[p].key : p \in U} = {t[p].key : p \in V} \ {t[s].key}
      BY <1>7, <1>9, <3>1, <3>2
    <3> QED
      BY <2>1, <2>3, <3>1, <3>3
  <2> QED
    BY <2>2, <2>3
<1> QED
  BY <1>2, <1>3, <1>4, <1>13, <1>14 DEF Replaces

(* As many keys as used slots. *)
LEMMA KeysCount ==
  ASSUME NEW n \in Nat \ {0}, NEW t, IsDict(t, n)
  PROVE  /\ IsFiniteSet(UsedSlots(t, n)) /\ Cardinality(UsedSlots(t, n)) <= n
         /\ Cardinality(UsedSlots(t, n)) \in Nat
         /\ IsFiniteSet(Keys(t, n)) /\ Cardinality(Keys(t, n)) = Cardinality(UsedSlots(t, n))
<1> DEFINE U == UsedSlots(t, n)
           f == [p \in U |-> t[p].key]
<1>1. IsFiniteSet(0 .. n - 1) /\ Cardinality(0 .. n - 1) = n /\ U \subseteq 0 .. n - 1
  <2>1. 0 \in Int /\ n - 1 \in Int
    OBVIOUS
  <2> QED
    BY <2>1, FS_Interval DEF UsedSlots
<1>2. IsFiniteSet(U) /\ Cardinality(U) <= n /\ Cardinality(U) \in Nat
  BY <1>1, FS_Subset, FS_CardinalityType
<1>3. f \in Bijection(U, Keys(t, n))
  <2>1. Keys(t, n) = {t[p].key : p \in U}
    BY DEF Keys
  <2>2. \A p, q \in U : t[p].key = t[q].key => p = q
    BY DEF IsDict
  <2> HIDE DEF U
  <2> QED
    BY <2>1, <2>2 DEF Bijection, Injection, IsInjective, Surjection
<1>4. IsFiniteSet(Keys(t, n)) /\ Cardinality(Keys(t, n)) = Cardinality(U)
  <2>1. ExistsBijection(U, Keys(t, n))
    BY <1>3 DEF ExistsBijection
  <2> QED
    BY <1>2, <2>1, FS_Bijection
<1> QED
  BY <1>2, <1>4

(***************************************************************************)
(* The loops over the slots.                                               *)
(***************************************************************************)
Listed(keys, e) == IF e.state = "used" THEN Append(keys, e.key) ELSE keys

(* The fold takes the slots one by one. *)
LEMMA ResizeUnrolls ==
  ASSUME NEW n \in Nat \ {0}, NEW t \in DictTables(n)
  PROVE  \E R : /\ R[0] = Array(2 * n, Unused)
                /\ \A i \in 1 .. n : R[i] = Entered(R[i - 1], t[i - 1])
                /\ Resized(t) = R[n]
<1> DEFINE T == DictTables(2 * n)
           base == Array(2 * n, Unused)
           es == Slots(t)
           Op(s, it) == IF s = {} THEN base ELSE Entered(it[s \ {Max(s)}], es[Max(s)])
           Iter == CHOOSE it : it = [s \in SUBSET (1 .. n) |-> Op(s, it)]
<1>0. DOMAIN t = 0 .. n - 1 /\ Size(t) = n
  BY SizeIs DEF DictTables
<1>1. DOMAIN es = 1 .. n /\ \A i \in 1 .. n : es[i] = t[i - 1] /\ es[i] \in Entry
  BY <1>0 DEF Slots, DictTables
<1>2. Resized(t) = Iter[1 .. n]
  BY <1>0, <1>1 DEF Resized, FoldLeft, MapThenFoldSet
<1> HIDE DEF es
<1>3. \E it : it = [s \in SUBSET (1 .. n) |-> Op(s, it)]
  <2> DEFINE step == [x \in (1 .. n) \X T |-> Entered(x[2], es[x[1]])]
  <2>1. base \in T
    BY DEF Array, Unused, DictTables, Entry
  <2>2. step \in [(1 .. n) \X T -> T]
    <3> SUFFICES ASSUME NEW x \in (1 .. n) \X T PROVE Entered(x[2], es[x[1]]) \in T
      OBVIOUS
    <3>1. x[2] \in T /\ es[x[1]] \in Entry
      BY <1>1
    <3> QED
      BY <3>1 DEF Entered, DictTables
  <2> HIDE DEF T, base
  <2>3. \A j \in 1 .. n, u \in T : step[<<j, u>>] = Entered(u, es[j])
    OBVIOUS
  <2> HIDE DEF step
  <2>4. PICK F \in [SUBSET (1 .. n) -> T] : IsFold(F, n, base, step)
    BY <2>1, <2>2, FoldsExist
  <2>5. \A s \in SUBSET (1 .. n) : F[s] = Op(s, F)
    <3> TAKE s \in SUBSET (1 .. n)
    <3>1. CASE s # {}
      <4>1. Max(s) \in 1 .. n /\ s \ {Max(s)} \in SUBSET (1 .. n)
        BY <3>1, GreatestOfPrefix
      <4>2. F[s \ {Max(s)}] \in T
        BY <4>1
      <4> QED
        BY <2>3, <2>4, <3>1, <4>1, <4>2 DEF IsFold
    <3>2. CASE s = {}
      BY <2>4, <3>2 DEF IsFold
    <3> QED
      BY <3>1, <3>2
  <2> HIDE DEF Op
  <2>6. F = [s \in SUBSET (1 .. n) |-> Op(s, F)]
    BY <2>5
  <2> QED
    BY <2>6
<1>4. Iter = [s \in SUBSET (1 .. n) |-> Op(s, Iter)]
  <2> HIDE DEF Op
  <2> QED
    BY <1>3
<1> HIDE DEF Iter, base
<1>5. \A s \in SUBSET (1 .. n) : Iter[s] = Op(s, Iter)
  <2> HIDE DEF Op
  <2> QED
    BY <1>4
<1> DEFINE R == [i \in 0 .. n |-> Iter[1 .. i]]
<1>6. R[0] = base
  <2>1. 1 .. 0 = {} /\ 0 \in 0 .. n
    OBVIOUS
  <2> QED
    BY <1>5, <2>1
<1>7. ASSUME NEW i \in 1 .. n PROVE R[i] = Entered(R[i - 1], es[i])
  <2>1. Max(1 .. i) = i /\ (1 .. i) \ {i} = 1 .. i - 1 /\ 1 .. i # {} /\ 1 .. i \in SUBSET (1 .. n)
    BY FoldPrefix
  <2>2. Iter[1 .. i] = Entered(Iter[1 .. i - 1], es[i])
    BY <1>5, <2>1
  <2>3. i \in 0 .. n /\ i - 1 \in 0 .. n
    OBVIOUS
  <2> QED
    BY <2>2, <2>3
<1>8. R[n] = Iter[1 .. n]
  OBVIOUS
<1> HIDE DEF R
<1>9. \A i \in 1 .. n : R[i] = Entered(R[i - 1], t[i - 1])
  BY <1>1, <1>7
<1> QED
  BY <1>2, <1>6, <1>8, <1>9 DEF base

(* The keys of a dict, slot by slot. *)
LEMMA KeysUnroll ==
  ASSUME NEW n \in Nat \ {0}, data \in DictTables(n)
  PROVE  \E R : /\ R[0] = << >>
                /\ \A i \in 1 .. n : R[i] = Listed(R[i - 1], data[i - 1])
                /\ DictKeys = R[n]
<1> DEFINE T == Seq(Key \cup {Nil})
           base == << >>
           es == Slots(data)
           Op(s, it) == IF s = {} THEN base ELSE Listed(it[s \ {Max(s)}], es[Max(s)])
           Iter == CHOOSE it : it = [s \in SUBSET (1 .. n) |-> Op(s, it)]
<1>0. DOMAIN data = 0 .. n - 1 /\ Size(data) = n
  BY SizeIs DEF DictTables
<1>1. DOMAIN es = 1 .. n /\ \A i \in 1 .. n : es[i] = data[i - 1] /\ es[i] \in Entry
  BY <1>0 DEF Slots, DictTables
<1>2. DictKeys = Iter[1 .. n]
  BY <1>0, <1>1 DEF DictKeys, FoldLeft, MapThenFoldSet, Listed
<1> HIDE DEF es
<1>3. \E it : it = [s \in SUBSET (1 .. n) |-> Op(s, it)]
  <2> DEFINE step == [x \in (1 .. n) \X T |-> Listed(x[2], es[x[1]])]
  <2>1. base \in T
    OBVIOUS
  <2>2. step \in [(1 .. n) \X T -> T]
    <3> SUFFICES ASSUME NEW x \in (1 .. n) \X T PROVE Listed(x[2], es[x[1]]) \in T
      OBVIOUS
    <3>1. x[2] \in T /\ es[x[1]] \in Entry
      BY <1>1
    <3> QED
      BY <3>1 DEF Listed, Entry
  <2> HIDE DEF T, base
  <2>3. \A j \in 1 .. n, u \in T : step[<<j, u>>] = Listed(u, es[j])
    OBVIOUS
  <2> HIDE DEF step
  <2>4. PICK F \in [SUBSET (1 .. n) -> T] : IsFold(F, n, base, step)
    BY <2>1, <2>2, FoldsExist
  <2>5. \A s \in SUBSET (1 .. n) : F[s] = Op(s, F)
    <3> TAKE s \in SUBSET (1 .. n)
    <3>1. CASE s # {}
      <4>1. Max(s) \in 1 .. n /\ s \ {Max(s)} \in SUBSET (1 .. n)
        BY <3>1, GreatestOfPrefix
      <4>2. F[s \ {Max(s)}] \in T
        BY <4>1
      <4> QED
        BY <2>3, <2>4, <3>1, <4>1, <4>2 DEF IsFold
    <3>2. CASE s = {}
      BY <2>4, <3>2 DEF IsFold
    <3> QED
      BY <3>1, <3>2
  <2> HIDE DEF Op
  <2>6. F = [s \in SUBSET (1 .. n) |-> Op(s, F)]
    BY <2>5
  <2> QED
    BY <2>6
<1>4. Iter = [s \in SUBSET (1 .. n) |-> Op(s, Iter)]
  <2> HIDE DEF Op
  <2> QED
    BY <1>3
<1> HIDE DEF Iter, base
<1>5. \A s \in SUBSET (1 .. n) : Iter[s] = Op(s, Iter)
  <2> HIDE DEF Op
  <2> QED
    BY <1>4
<1> DEFINE R == [i \in 0 .. n |-> Iter[1 .. i]]
<1>6. R[0] = base
  <2>1. 1 .. 0 = {} /\ 0 \in 0 .. n
    OBVIOUS
  <2> QED
    BY <1>5, <2>1
<1>7. ASSUME NEW i \in 1 .. n PROVE R[i] = Listed(R[i - 1], es[i])
  <2>1. Max(1 .. i) = i /\ (1 .. i) \ {i} = 1 .. i - 1 /\ 1 .. i # {} /\ 1 .. i \in SUBSET (1 .. n)
    BY FoldPrefix
  <2>2. Iter[1 .. i] = Listed(Iter[1 .. i - 1], es[i])
    BY <1>5, <2>1
  <2>3. i \in 0 .. n /\ i - 1 \in 0 .. n
    OBVIOUS
  <2> QED
    BY <2>2, <2>3
<1>8. R[n] = Iter[1 .. n]
  OBVIOUS
<1> HIDE DEF R
<1>9. \A i \in 1 .. n : R[i] = Listed(R[i - 1], data[i - 1])
  BY <1>1, <1>7
<1> QED
  BY <1>2, <1>6, <1>8, <1>9 DEF base

LEMMA KeysOfContent ==
  ASSUME NEW n, NEW t
  PROVE  Keys(t, n) = {c[1] : c \in Content(t, n)}
<1>1. ASSUME NEW k \in Keys(t, n) PROVE \E c \in Content(t, n) : k = c[1]
  <2>1. PICK p \in UsedSlots(t, n) : k = t[p].key
    BY DEF Keys
  <2>2. <<t[p].key, t[p].value>> \in Content(t, n)
    BY DEF Content
  <2>3. k = <<t[p].key, t[p].value>>[1]
    BY <2>1
  <2> QED
    BY <2>2, <2>3
<1>2. ASSUME NEW c \in Content(t, n) PROVE c[1] \in Keys(t, n)
  <2>1. PICK p \in UsedSlots(t, n) : c = <<t[p].key, t[p].value>>
    BY DEF Content
  <2>2. t[p].key \in Keys(t, n)
    BY DEF Keys
  <2> QED
    BY <2>1, <2>2
<1> QED
  BY <1>1, <1>2

(* A key and its value are in the content exactly when a slot holds them.  *)
Before(t, n, i) == {p \in UsedSlots(t, n) : p < i}

LEMMA BeforeNext ==
  ASSUME NEW n \in Nat \ {0}, NEW t, NEW i \in 1 .. n
  PROVE  /\ Before(t, n, i) = IF t[i - 1].state = "used" THEN Before(t, n, i - 1) \cup {i - 1}
                              ELSE Before(t, n, i - 1)
         /\ i - 1 \notin Before(t, n, i - 1)
<1>1. i - 1 \in 0 .. n - 1 /\ \A p \in 0 .. n - 1 : p < i <=> p < i - 1 \/ p = i - 1
  OBVIOUS
<1>2. Before(t, n, i - 1) \subseteq 0 .. n - 1 /\ ~ (i - 1 < i - 1)
  BY DEF Before, UsedSlots
<1> QED
  BY <1>1, <1>2 DEF Before, UsedSlots

LEMMA BeforeEnds ==
  ASSUME NEW n \in Nat \ {0}, NEW t
  PROVE  Before(t, n, 0) = {} /\ Before(t, n, n) = UsedSlots(t, n)
<1>1. \A p \in 0 .. n - 1 : ~ (p < 0) /\ p < n
  OBVIOUS
<1> QED
  BY <1>1 DEF Before, UsedSlots

LEMMA EmptyDict ==
  ASSUME NEW n \in Nat \ {0}
  PROVE  IsDict(Array(n, Unused), n) /\ UsedSlots(Array(n, Unused), n) = {}
<1> DEFINE t == Array(n, Unused)
<1>1. t \in DictTables(n) /\ \A p \in 0 .. n - 1 : t[p].state = "empty"
  BY DEF Array, Unused, DictTables, Entry
<1> HIDE DEF t
<1>2. UsedSlots(t, n) = {}
  BY <1>1 DEF UsedSlots
<1>3. IsDict(t, n)
  BY <1>1, <1>2 DEF IsDict, Reached
<1> QED
  BY <1>2, <1>3 DEF t

(* A used entry goes into a table that is not full. *)
LEMMA EnteredKeeps ==
  ASSUME HashTypes, NEW n \in Nat \ {0}, NEW t, IsDict(t, n), NEW e \in Entry, e.state = "used",
         e.key \in Key, e.value \in Value, e.key \notin Keys(t, n),
         Cardinality(UsedSlots(t, n)) < n,
         NEW w, w = Entered(t, e)
  PROVE  /\ IsDict(w, n) /\ Content(w, n) = Content(t, n) \cup {<<e.key, e.value>>}
         /\ Cardinality(UsedSlots(w, n)) = Cardinality(UsedSlots(t, n)) + 1
<1>1. Cardinality(0 .. n - 1) = n
  <2>1. 0 \in Int /\ n - 1 \in Int
    OBVIOUS
  <2> QED
    BY <2>1, FS_Interval
<1>2. UsedSlots(t, n) # 0 .. n - 1
  BY <1>1
<1>3. PICK s : s = FindSlot(t, e.key)
  OBVIOUS
<1>4. FreeFor(t, e.key, n, s)
  BY <1>2, <1>3, DictSearch
<1>5. Put(w, t, s, e)
  BY <1>3 DEF Entered, Put
<1>6. /\ IsDict(w, n) /\ s \notin UsedSlots(t, n) /\ UsedSlots(w, n) = UsedSlots(t, n) \cup {s}
      /\ Content(w, n) = Content(t, n) \cup {<<e.key, e.value>>}
  <2>1. IsDict(w, n) /\ Adds(w, t, n, s, e)
    BY <1>4, <1>5, PutNew
  <2> QED
    BY <2>1 DEF Adds
<1>7. IsFiniteSet(UsedSlots(t, n))
  BY KeysCount
<1>8. Cardinality(UsedSlots(w, n)) = Cardinality(UsedSlots(t, n)) + 1
  BY <1>6, <1>7, FS_AddElement
<1> QED
  BY <1>6, <1>8

(* dict_resize moves every key with its value. *)
LEMMA ResizeKeeps ==
  ASSUME HashTypes, NEW n \in Nat \ {0}, NEW t, IsDict(t, n)
  PROVE  /\ IsDict(Resized(t), 2 * n) /\ Content(Resized(t), 2 * n) = Content(t, n)
         /\ Keys(Resized(t), 2 * n) = Keys(t, n)
         /\ Cardinality(UsedSlots(Resized(t), 2 * n)) < 2 * n
<1> DEFINE m == 2 * n
           U == UsedSlots(t, n)
<1>0. t \in DictTables(n) /\ m \in Nat \ {0} /\ n < m
  BY DEF IsDict
<1>1. PICK R : /\ R[0] = Array(m, Unused)
               /\ \A i \in 1 .. n : R[i] = Entered(R[i - 1], t[i - 1])
               /\ Resized(t) = R[n]
  BY <1>0, ResizeUnrolls
<1> DEFINE Moved(i) == {<<t[p].key, t[p].value>> : p \in Before(t, n, i)}
           Good(i) == /\ IsDict(R[i], m) /\ Content(R[i], m) = Moved(i)
                      /\ Cardinality(UsedSlots(R[i], m)) <= i
           C == {i \in 0 .. n : ~ Good(i)}
<1> HIDE DEF m
<1>2. C = {}
  <2>1. SUFFICES ASSUME C # {} PROVE FALSE
    OBVIOUS
  <2>2. PICK i \in C : \A k \in C : i <= k
    <3>1. C \subseteq Nat
      OBVIOUS
    <3> HIDE DEF C
    <3> QED
      BY <2>1, <3>1, LeastElement
  <2>3. i \in 0 .. n /\ ~ Good(i)
    OBVIOUS
  <2> HIDE DEF C
  <2>4. CASE i = 0
    <3>1. IsDict(R[0], m) /\ UsedSlots(R[0], m) = {}
      BY <1>0, <1>1, EmptyDict
    <3>2. Content(R[0], m) = Moved(0)
      BY <3>1, BeforeEnds DEF Content
    <3>3. Cardinality(UsedSlots(R[0], m)) <= 0
      BY <3>1, FS_EmptySet
    <3> QED
      BY <2>3, <2>4, <3>1, <3>2, <3>3
  <2>5. CASE i # 0
    <3> DEFINE u == R[i - 1]
               e == t[i - 1]
    <3>1. i \in 1 .. n /\ i - 1 \in 0 .. n /\ i - 1 \in 0 .. n - 1 /\ ~ (i <= i - 1)
      BY <2>3, <2>5
    <3>2. Good(i - 1)
      BY <2>2, <3>1 DEF C
    <3>3. R[i] = Entered(u, e)
      BY <1>1, <3>1
    <3>4. CASE e.state # "used"
      <4>1. R[i] = u /\ Before(t, n, i) = Before(t, n, i - 1)
        BY <3>1, <3>3, <3>4, BeforeNext DEF Entered
      <4>2. Cardinality(UsedSlots(u, m)) <= i
        <5>1. Cardinality(UsedSlots(u, m)) \in Nat
          BY <1>0, <3>2, KeysCount
        <5> QED
          BY <3>1, <3>2, <5>1
      <4> QED
        BY <2>3, <3>2, <4>1, <4>2
    <3>5. CASE e.state = "used"
      <4>1. i - 1 \in U /\ e \in Entry /\ e.key \in Key /\ e.value \in Value
        <5>1. i - 1 \in U
          BY <3>1, <3>5 DEF UsedSlots
        <5> QED
          BY <1>0, <3>1, <5>1 DEF IsDict, DictTables
      <4>2. IsDict(u, m) /\ Content(u, m) = Moved(i - 1) /\ Cardinality(UsedSlots(u, m)) <= i - 1
        BY <3>2
      <4>3. e.key \notin Keys(u, m)
        <5>1. \A p \in Before(t, n, i - 1) : p \in U /\ p # i - 1
          BY <3>1, BeforeNext DEF Before
        <5>2. \A p \in Before(t, n, i - 1) : t[p].key # e.key
          BY <4>1, <5>1 DEF IsDict
        <5>3. \A c \in Content(u, m) : c[1] # e.key
          BY <4>2, <5>2
        <5> QED
          BY <5>3, KeysOfContent
      <4>4. R[i] = Entered(u, e) /\ Cardinality(UsedSlots(u, m)) < m
        BY <1>0, <3>1, <3>3, <4>2, KeysCount
      <4>5. PICK a, b, w : a = u /\ b = e /\ w = R[i]
        OBVIOUS
      <4>6. /\ IsDict(w, m) /\ Content(w, m) = Content(a, m) \cup {<<b.key, b.value>>}
            /\ Cardinality(UsedSlots(w, m)) = Cardinality(UsedSlots(a, m)) + 1
        <5>1. /\ IsDict(a, m) /\ b \in Entry /\ b.state = "used" /\ b.key \in Key /\ b.value \in Value
              /\ b.key \notin Keys(a, m) /\ Cardinality(UsedSlots(a, m)) < m /\ w = Entered(a, b)
          BY <3>5, <4>1, <4>2, <4>3, <4>4, <4>5
        <5> HIDE DEF Moved, Good, C
        <5> QED
          BY <1>0, <5>1, EnteredKeeps
      <4>7. Cardinality(UsedSlots(R[i], m)) <= i /\ Content(R[i], m) = Content(u, m) \cup {<<e.key, e.value>>}
            /\ IsDict(R[i], m)
        <5>1. Cardinality(UsedSlots(u, m)) \in Nat
          BY <1>0, <4>2, KeysCount
        <5> QED
          BY <3>1, <4>2, <4>5, <4>6, <5>1
      <4>8. Moved(i) = Moved(i - 1) \cup {<<e.key, e.value>>}
        <5>1. Before(t, n, i) = Before(t, n, i - 1) \cup {i - 1}
          BY <3>1, <3>5, BeforeNext
        <5> QED
          BY <5>1
      <4> QED
        BY <2>3, <4>2, <4>7, <4>8
    <3> QED
      BY <3>4, <3>5
  <2> QED
    BY <2>4, <2>5
<1>3. Good(n)
  <2>1. n \in 0 .. n
    OBVIOUS
  <2> QED
    BY <1>2, <2>1
<1>4. Content(Resized(t), m) = Content(t, n)
  <2>1. Moved(n) = Content(t, n)
    BY BeforeEnds DEF Content
  <2> QED
    BY <1>1, <1>3, <2>1
<1>5. IsDict(Resized(t), m) /\ Cardinality(UsedSlots(Resized(t), m)) < m
  <2>1. IsDict(Resized(t), m) /\ Cardinality(UsedSlots(Resized(t), m)) <= n
    BY <1>1, <1>3
  <2>2. Cardinality(UsedSlots(Resized(t), m)) \in Nat
    BY <1>0, <2>1, KeysCount
  <2> QED
    BY <1>0, <2>1, <2>2
<1>6. Keys(Resized(t), m) = Keys(t, n)
  BY <1>4, KeysOfContent
<1> QED
  BY <1>4, <1>5, <1>6 DEF m

(* dict_keys lists every key once. *)
LEMMA KeysListed ==
  ASSUME NEW n \in Nat \ {0}, IsDict(data, n)
  PROVE  ToSet(DictKeys) = Keys(data, n) /\ Len(DictKeys) = Cardinality(UsedSlots(data, n))
<1>0. data \in DictTables(n)
  BY DEF IsDict
<1>1. PICK R : /\ R[0] = << >>
               /\ \A i \in 1 .. n : R[i] = Listed(R[i - 1], data[i - 1])
               /\ DictKeys = R[n]
  BY <1>0, KeysUnroll
<1> DEFINE B(i) == Before(data, n, i)
           Good(i) == /\ R[i] \in Seq(Key) /\ ToSet(R[i]) = {data[p].key : p \in B(i)}
                      /\ IsFiniteSet(B(i)) /\ Len(R[i]) = Cardinality(B(i))
           C == {i \in 0 .. n : ~ Good(i)}
<1>2. C = {}
  <2>1. SUFFICES ASSUME C # {} PROVE FALSE
    OBVIOUS
  <2>2. PICK i \in C : \A k \in C : i <= k
    <3>1. C \subseteq Nat
      OBVIOUS
    <3> HIDE DEF C
    <3> QED
      BY <2>1, <3>1, LeastElement
  <2>3. i \in 0 .. n /\ ~ Good(i)
    OBVIOUS
  <2> HIDE DEF C
  <2>4. CASE i = 0
    <3>1. B(0) = {} /\ R[0] = << >>
      BY <1>1, BeforeEnds
    <3>2. Len(R[0]) = 0 /\ ToSet(R[0]) = {} /\ R[0] \in Seq(Key)
      BY <3>1 DEF ToSet
    <3>3. IsFiniteSet(B(0)) /\ Cardinality(B(0)) = 0
      BY <3>1, FS_EmptySet
    <3>4. {data[p].key : p \in B(0)} = {}
      BY <3>1
    <3> HIDE DEF B
    <3> QED
      BY <2>3, <2>4, <3>2, <3>3, <3>4
  <2>5. CASE i # 0
    <3>1. i \in 1 .. n /\ i - 1 \in 0 .. n /\ i - 1 \in 0 .. n - 1 /\ ~ (i <= i - 1)
      BY <2>3, <2>5
    <3>2. Good(i - 1)
      BY <2>2, <3>1 DEF C
    <3>3. R[i] = Listed(R[i - 1], data[i - 1])
      BY <1>1, <3>1
    <3>4. CASE data[i - 1].state # "used"
      <4>1. R[i] = R[i - 1] /\ B(i) = B(i - 1)
        BY <3>1, <3>3, <3>4, BeforeNext DEF Listed
      <4> HIDE DEF B
      <4> QED
        BY <2>3, <3>2, <4>1
    <3>5. CASE data[i - 1].state = "used"
      <4>1. R[i] = Append(R[i - 1], data[i - 1].key) /\ B(i) = B(i - 1) \cup {i - 1} /\ i - 1 \notin B(i - 1)
        BY <3>1, <3>3, <3>5, BeforeNext DEF Listed
      <4>2. data[i - 1].key \in Key
        <5>1. i - 1 \in UsedSlots(data, n)
          BY <3>1, <3>5 DEF UsedSlots
        <5> QED
          BY <5>1 DEF IsDict
      <4> HIDE DEF B
      <4>3. R[i] \in Seq(Key) /\ Len(R[i]) = Len(R[i - 1]) + 1
            /\ ToSet(R[i]) = ToSet(R[i - 1]) \cup {data[i - 1].key}
        <5>1. R[i - 1] \in Seq(Key)
          BY <3>2
        <5> HIDE DEF Good
        <5> QED
          BY <4>1, <4>2, <5>1 DEF ToSet
      <4>4. {data[p].key : p \in B(i)} = {data[p].key : p \in B(i - 1)} \cup {data[i - 1].key}
        BY <4>1
      <4>5. IsFiniteSet(B(i)) /\ Cardinality(B(i)) = Cardinality(B(i - 1)) + 1
        BY <3>2, <4>1, FS_AddElement
      <4> QED
        BY <2>3, <3>2, <4>3, <4>4, <4>5
    <3> QED
      BY <3>4, <3>5
  <2> QED
    BY <2>4, <2>5
<1>3. Good(n)
  <2>1. n \in 0 .. n
    OBVIOUS
  <2> QED
    BY <1>2, <2>1
<1>4. B(n) = UsedSlots(data, n)
  BY BeforeEnds
<1> QED
  BY <1>1, <1>3, <1>4 DEF Keys

(***************************************************************************)
(* A dict stands for a map.                                                *)
(***************************************************************************)
Maps(t, n, m) ==
  Keys(t, n) = DOMAIN m /\ \A p \in UsedSlots(t, n) : m[t[p].key] = t[p].value

DictInv ==
  kind = "dict" =>
    /\ capacity \in DictCaps /\ HashTypes /\ IsDict(data, capacity)
    /\ Maps(data, capacity, abs)
    /\ length = Cardinality(UsedSlots(data, capacity)) /\ length <= MaxLen

LEMMA SameContentMaps ==
  ASSUME NEW n, NEW t, NEW m, Maps(t, n, m), NEW o, NEW u,
         Content(u, o) = Content(t, n), Keys(u, o) = Keys(t, n)
  PROVE  Maps(u, o, m)
<1>1. ASSUME NEW p \in UsedSlots(u, o) PROVE m[u[p].key] = u[p].value
  <2>1. <<u[p].key, u[p].value>> \in Content(t, n)
    BY DEF Content
  <2>2. PICK q \in UsedSlots(t, n) : <<u[p].key, u[p].value>> = <<t[q].key, t[q].value>>
    BY <2>1 DEF Content
  <2>3. u[p].key = t[q].key /\ u[p].value = t[q].value
    BY <2>2
  <2> QED
    BY <2>3 DEF Maps
<1> QED
  BY <1>1 DEF Maps

(* A key is stored in its free slot. *)
LEMMA StoreNew ==
  ASSUME NEW n, NEW t, NEW m, Maps(t, n, m), NEW e, NEW s, NEW w, Adds(w, t, n, s, e),
         e.key \notin DOMAIN m
  PROVE  Maps(w, n, [x \in DOMAIN m \cup {e.key} |-> IF x = e.key THEN e.value ELSE m[x]])
<1> DEFINE f == [x \in DOMAIN m \cup {e.key} |-> IF x = e.key THEN e.value ELSE m[x]]
<1>1. Keys(w, n) = DOMAIN f
  BY DEF Adds, Maps
<1>2. ASSUME NEW p \in UsedSlots(w, n) PROVE f[w[p].key] = w[p].value
  <2>1. CASE p = s
    BY <2>1 DEF Adds
  <2>2. CASE p # s
    <3>1. p \in UsedSlots(t, n) /\ w[p] = t[p]
      BY <2>2 DEF Adds
    <3>2. t[p].key \in DOMAIN m /\ m[t[p].key] = t[p].value
      BY <3>1 DEF Maps, Keys
    <3> QED
      BY <3>1, <3>2
  <2> QED
    BY <2>1, <2>2
<1> HIDE DEF f
<1>3. Maps(w, n, f)
  BY <1>1, <1>2 DEF Maps
<1> QED
  BY <1>3 DEF f

LEMMA StoreOld ==
  ASSUME NEW n, NEW t, IsDict(t, n), NEW m, Maps(t, n, m), NEW e, NEW s \in UsedSlots(t, n), NEW w,
         Replaces(w, t, n, s, e), e.state = "used", e.key = t[s].key
  PROVE  Maps(w, n, [x \in DOMAIN m \cup {e.key} |-> IF x = e.key THEN e.value ELSE m[x]])
<1> DEFINE f == [x \in DOMAIN m \cup {e.key} |-> IF x = e.key THEN e.value ELSE m[x]]
<1>1. Keys(w, n) = DOMAIN f
  <2>1. e.key \in Keys(t, n)
    BY DEF Keys
  <2> QED
    BY <2>1 DEF Replaces, Maps
<1>2. ASSUME NEW p \in UsedSlots(w, n) PROVE f[w[p].key] = w[p].value
  <2>1. CASE p = s
    BY <2>1 DEF Replaces
  <2>2. CASE p # s
    <3>1. p \in UsedSlots(t, n) /\ w[p] = t[p]
      BY <2>2 DEF Replaces
    <3>2. t[p].key \in DOMAIN m /\ m[t[p].key] = t[p].value
      BY <3>1 DEF Maps, Keys
    <3>3. t[p].key # e.key
      BY <2>2, <3>1 DEF IsDict
    <3> QED
      BY <3>1, <3>2, <3>3
  <2> QED
    BY <2>1, <2>2
<1> HIDE DEF f
<1>3. Maps(w, n, f)
  BY <1>1, <1>2 DEF Maps
<1> QED
  BY <1>3 DEF f

LEMMA Unstore ==
  ASSUME NEW n, NEW t, IsDict(t, n), NEW m, Maps(t, n, m), NEW e, NEW s \in UsedSlots(t, n), NEW w,
         Replaces(w, t, n, s, e), e.state # "used", e.key = t[s].key
  PROVE  Maps(w, n, [x \in DOMAIN m \ {e.key} |-> m[x]])
<1> DEFINE f == [x \in DOMAIN m \ {e.key} |-> m[x]]
<1>1. Keys(w, n) = DOMAIN f
  BY DEF Replaces, Maps
<1>2. ASSUME NEW p \in UsedSlots(w, n) PROVE f[w[p].key] = w[p].value
  <2>1. p \in UsedSlots(t, n) /\ w[p] = t[p] /\ p # s
    BY DEF Replaces
  <2>2. t[p].key \in DOMAIN m /\ m[t[p].key] = t[p].value
    BY <2>1 DEF Maps, Keys
  <2>3. t[p].key # e.key
    BY <2>1 DEF IsDict
  <2> QED
    BY <2>1, <2>2, <2>3
<1> HIDE DEF f
<1>3. Maps(w, n, f)
  BY <1>1, <1>2 DEF Maps
<1> QED
  BY <1>3 DEF f

(* The table that a key is looked up in, when it is set, has its key or a  *)
(* free slot for it.                                                       *)
LEMMA GrownKeeps ==
  ASSUME DictInv, kind = "dict", NEW k \in Key, NEW t, t = Grown(k)
  PROVE  \E n \in DictCaps :
           /\ IsDict(t, n) /\ Maps(t, n, abs) /\ length = Cardinality(UsedSlots(t, n))
           /\ k \in Keys(t, n) => FindSlot(t, k) \in UsedSlots(t, n) /\ t[FindSlot(t, k)].key = k
           /\ k \notin Keys(t, n) => FreeFor(t, k, n, FindSlot(t, k))
<1>1. PICK c : c = capacity
  OBVIOUS
<1>2. /\ c \in DictCaps /\ c \in Nat \ {0} /\ HashTypes /\ IsDict(data, c) /\ Maps(data, c, abs)
      /\ length = Cardinality(UsedSlots(data, c)) /\ length <= MaxLen /\ MaxLen \in Nat
  BY <1>1, CollectionsAssumption DEF DictInv
<1>3. length \in Nat /\ length = Cardinality(Keys(data, c))
  BY <1>2, KeysCount
<1>4. CASE ~ (Loaded \/ FindSlot(data, k) = -1)
  <2>1. t = data /\ FindSlot(data, k) # -1
    BY <1>4 DEF Grown
  <2> QED
    BY <1>2, <2>1, DictSearch
<1>5. CASE Loaded \/ FindSlot(data, k) = -1
  <2>1. t = Resized(data)
    BY <1>5 DEF Grown
  <2>2. 7 * c < 10 * (MaxLen + 1)
    <3>1. CASE Loaded
      <4>1. 10 * (length + 1) > 7 * c
        BY <1>1, <3>1 DEF Loaded
      <4> QED
        BY <1>2, <1>3, <4>1
    <3>2. CASE FindSlot(data, k) = -1
      <4>1. UsedSlots(data, c) = 0 .. c - 1
        <5>1. -1 \notin 0 .. c - 1
          BY <1>2
        <5>2. UsedSlots(data, c) \subseteq 0 .. c - 1
          BY DEF UsedSlots
        <5>3. ~ FreeFor(data, k, c, -1)
          BY <1>2, <5>1, AtSlot DEF FreeFor
        <5> QED
          BY <1>2, <3>2, <5>1, <5>2, <5>3, DictSearch
      <4>2. length = c
        <5>1. 0 \in Int /\ c - 1 \in Int
          BY <1>2
        <5> QED
          BY <1>2, <4>1, <5>1, FS_Interval
      <4> QED
        BY <1>2, <4>2
    <3> QED
      BY <1>5, <3>1, <3>2
  <2>3. PICK n : n = 2 * c
    OBVIOUS
  <2>4. n \in DictCaps /\ n \in Nat \ {0}
    BY <1>2, <2>2, <2>3, CollectionsAssumption
  <2>5. /\ IsDict(t, n) /\ Content(t, n) = Content(data, c) /\ Keys(t, n) = Keys(data, c)
        /\ Cardinality(UsedSlots(t, n)) < n
    BY <1>2, <2>1, <2>3, ResizeKeeps
  <2>6. Maps(t, n, abs)
    BY <1>2, <2>5, SameContentMaps
  <2>7. length = Cardinality(UsedSlots(t, n))
    BY <1>3, <2>4, <2>5, KeysCount
  <2>8. UsedSlots(t, n) # 0 .. n - 1
    <3>1. 0 \in Int /\ n - 1 \in Int
      BY <2>4
    <3> QED
      BY <2>4, <2>5, <3>1, FS_Interval
  <2> QED
    BY <1>2, <2>4, <2>5, <2>6, <2>7, <2>8, DictSearch
<1> QED
  BY <1>4, <1>5

LEMMA DictNext ==
  ASSUME kind = "dict", kind' = kind, hash' = hash, HashTypes, NEW n \in DictCaps, IsDict(data', n),
         Maps(data', n, abs'), length' = Cardinality(UsedSlots(data', n)), length' <= MaxLen
  PROVE  DictInv'
<1>1. n \in Nat \ {0}
  BY CollectionsAssumption
<1>2. capacity' = n
  <2>1. DOMAIN data' = 0 .. n - 1
    BY DEF IsDict, DictTables
  <2> QED
    BY <1>1, <2>1, SizeIs DEF capacity
<1>3. HashTypes'
  BY DEF HashTypes
<1>4. IsDict(data, capacity)'
  BY <1>2 DEF IsDict, Reached, At, Slot, UsedSlots, DictTables
<1>5. Maps(data, capacity, abs)' /\ (length = Cardinality(UsedSlots(data, capacity)))'
  BY <1>2 DEF Maps, Keys, UsedSlots
<1> QED
  BY <1>2, <1>3, <1>4, <1>5 DEF DictInv

LEMMA DictSetKeeps ==
  ASSUME NEW k \in Key, NEW v \in Value, Numbers, DictInv, DictSet(k, v)
  PROVE  DictInv' /\ Numbers'
<1>1. PICK t : t = Grown(k)
  OBVIOUS
<1>2. PICK s : s = FindSlot(t, k)
  OBVIOUS
<1>3. PICK e : e = [state |-> "used", key |-> k, value |-> v]
  OBVIOUS
<1>4. PICK a : a = [x \in DOMAIN abs \cup {k} |-> IF x = k THEN v ELSE abs[x]]
  OBVIOUS
<1>5. /\ kind = "dict" /\ kind' = kind /\ hash' = hash /\ front' = front
      /\ k \notin DOMAIN abs => length < MaxLen
      /\ data' = [t EXCEPT ![s] = e] /\ abs' = a
      /\ length' = IF t[s].state # "used" THEN length + 1 ELSE length
  BY <1>1, <1>2, <1>3, <1>4 DEF DictSet, Become, Keep, Alive
<1>6. PICK n \in DictCaps :
           /\ IsDict(t, n) /\ Maps(t, n, abs) /\ length = Cardinality(UsedSlots(t, n))
           /\ k \in Keys(t, n) => s \in UsedSlots(t, n) /\ t[s].key = k
           /\ k \notin Keys(t, n) => FreeFor(t, k, n, s)
  BY <1>1, <1>2, <1>5, GrownKeeps
<1>7. /\ HashTypes /\ n \in Nat \ {0} /\ length <= MaxLen /\ MaxLen \in Nat /\ length \in Nat
      /\ front \in Nat
  BY <1>5, CollectionsAssumption DEF DictInv, Numbers
<1>8. e \in Entry /\ e.state = "used" /\ e.key = k /\ e.value = v
  BY <1>3 DEF Entry
<1>9. a = [x \in DOMAIN abs \cup {e.key} |-> IF x = e.key THEN e.value ELSE abs[x]]
  BY <1>4, <1>8
<1>10. PICK w : w = data' /\ Put(w, t, s, e)
  BY <1>5 DEF Put
<1>11. Keys(t, n) = DOMAIN abs
  BY <1>6 DEF Maps
<1>12. CASE k \in Keys(t, n)
  <2>1. s \in UsedSlots(t, n) /\ e.key = t[s].key /\ t[s].state = "used"
    BY <1>6, <1>8, <1>12 DEF UsedSlots
  <2>2. IsDict(w, n) /\ Replaces(w, t, n, s, e)
    BY <1>6, <1>7, <1>8, <1>10, <2>1, PutOver
  <2>3. Maps(w, n, a)
    BY <1>6, <1>8, <1>9, <2>1, <2>2, StoreOld
  <2>4. length' = length /\ UsedSlots(w, n) = UsedSlots(t, n)
    BY <1>5, <1>8, <2>1, <2>2 DEF Replaces
  <2>5. DictInv'
    BY <1>5, <1>6, <1>7, <1>10, <2>2, <2>3, <2>4, DictNext
  <2> QED
    BY <1>5, <1>7, <2>4, <2>5 DEF Numbers
<1>13. CASE k \notin Keys(t, n)
  <2>1. FreeFor(t, e.key, n, s) /\ t[s].state # "used" /\ e.key \notin DOMAIN abs
    BY <1>6, <1>8, <1>11, <1>13 DEF FreeFor
  <2>2. IsDict(w, n) /\ Adds(w, t, n, s, e)
    BY <1>6, <1>7, <1>8, <1>10, <1>13, <2>1, PutNew
  <2>3. Maps(w, n, a)
    BY <1>6, <1>9, <2>1, <2>2, StoreNew
  <2>4. length' = Cardinality(UsedSlots(w, n)) /\ length' \in Nat /\ length' <= MaxLen
    <3>1. IsFiniteSet(UsedSlots(t, n))
      BY <1>6, <1>7, KeysCount
    <3>2. Cardinality(UsedSlots(w, n)) = Cardinality(UsedSlots(t, n)) + 1
      BY <2>2, <3>1, FS_AddElement DEF Adds
    <3> QED
      BY <1>5, <1>6, <1>7, <1>8, <2>1, <3>2
  <2>5. DictInv'
    BY <1>5, <1>6, <1>7, <1>10, <2>2, <2>3, <2>4, DictNext
  <2> QED
    BY <1>5, <1>7, <2>4, <2>5 DEF Numbers
<1> QED
  BY <1>12, <1>13

(* remove finds a stored key where find_slot does, although it reduces     *)
(* hash and step at once.                                                  *)
LEMMA RemoveFinds ==
  ASSUME NEW n \in Nat \ {0}, NEW k \in Key, HashTypes, NEW t, IsDict(t, n),
         NEW E, E = {i \in 0 .. n - 1 : t[At(k, i, n)].state = "empty" \/ Holds(t[At(k, i, n)], k)}
  PROVE  /\ E # {} => Min(E) \in 0 .. n - 1
         /\ k \in Keys(t, n) => E # {} /\ Holds(t[At(k, Min(E), n)], k)
<1>1. E # {} => Min(E) \in E /\ \A i \in E : Min(E) <= i
  <2>1. E \subseteq Nat
    OBVIOUS
  <2> QED
    BY <2>1, MinOf
<1>2. ASSUME k \in Keys(t, n) PROVE E # {} /\ Holds(t[At(k, Min(E), n)], k)
  <2>1. PICK p \in UsedSlots(t, n) : t[p].key = k
    BY <1>2 DEF Keys
  <2>2. p \in 0 .. n - 1 /\ Holds(t[p], k)
    BY <2>1 DEF UsedSlots, Holds
  <2>3. PICK i \in 0 .. n - 1 : At(k, i, n) = p
    BY <2>2, AtMeets
  <2>4. i \in E
    BY <2>2, <2>3
  <2>5. PICK m : m = Min(E)
    OBVIOUS
  <2>6. m \in 0 .. n - 1 /\ m <= i /\ (t[At(k, m, n)].state = "empty" \/ Holds(t[At(k, m, n)], k))
    BY <1>1, <2>4, <2>5
  <2>7. t[At(k, m, n)].state = "empty" => FALSE
    <3>1. SUFFICES ASSUME t[At(k, m, n)].state = "empty" PROVE FALSE
      OBVIOUS
    <3>2. m # i
      BY <2>1, <2>3, <3>1 DEF UsedSlots
    <3>3. m \in 0 .. i - 1
      BY <2>6, <3>2
    <3> QED
      BY <2>1, <2>3, <3>1, <3>3 DEF IsDict, Reached
  <2> QED
    BY <2>4, <2>5, <2>6, <2>7
<1> QED
  BY <1>1, <1>2

LEMMA DictRemoveKeeps ==
  ASSUME NEW k \in Key, Numbers, DictInv, DictRemove(k)
  PROVE  DictInv' /\ Numbers'
<1>1. PICK n : n = capacity
  OBVIOUS
<1>2. kind = "dict"
  BY DEF DictRemove, Alive
<1>3. /\ n \in DictCaps /\ n \in Nat \ {0} /\ HashTypes /\ IsDict(data, n) /\ Maps(data, n, abs)
      /\ length = Cardinality(UsedSlots(data, n)) /\ length <= MaxLen /\ MaxLen \in Nat
      /\ length \in Nat /\ front \in Nat
  BY <1>1, <1>2, CollectionsAssumption DEF DictInv, Numbers
<1>4. PICK E : E = {i \in DOMAIN data : data[RemoveProbe(k, i)].state = "empty"
                                        \/ Holds(data[RemoveProbe(k, i)], k)}
  OBVIOUS
<1>5. PICK rest : rest = [x \in DOMAIN abs \ {k} |-> abs[x]]
  OBVIOUS
<1>6. /\ kind' = kind /\ hash' = hash /\ front' = front /\ abs' = rest
      /\ IF E # {} /\ Holds(data[RemoveProbe(k, Min(E))], k)
         THEN data' = [data EXCEPT ![RemoveProbe(k, Min(E))].state = "deleted"] /\ length' = length - 1
         ELSE data' = data /\ length' = length
  BY <1>4, <1>5 DEF DictRemove, Become, Keep
<1>7. \A i \in 0 .. n - 1 : RemoveProbe(k, i) = At(k, i, n) /\ At(k, i, n) \in 0 .. n - 1
  BY <1>1, <1>3, RemoveProbeAt, AtSlot
<1>8. E = {i \in 0 .. n - 1 : data[At(k, i, n)].state = "empty" \/ Holds(data[At(k, i, n)], k)}
  <2>1. DOMAIN data = 0 .. n - 1
    BY <1>3 DEF IsDict, DictTables
  <2> QED
    BY <1>4, <1>7, <2>1
<1>9. /\ E # {} => Min(E) \in 0 .. n - 1
      /\ k \in Keys(data, n) => E # {} /\ Holds(data[At(k, Min(E), n)], k)
  BY <1>3, <1>8, RemoveFinds
<1>10. CASE k \in Keys(data, n)
  <2>1. PICK s : s = At(k, Min(E), n)
    OBVIOUS
  <2>2. /\ s = RemoveProbe(k, Min(E)) /\ s \in UsedSlots(data, n) /\ data[s].key = k
        /\ data[s] \in Entry /\ data[s].value \in Value
    <3>1. Holds(data[s], k) /\ s \in 0 .. n - 1 /\ s = RemoveProbe(k, Min(E))
      BY <1>7, <1>9, <1>10, <2>1
    <3>2. s \in UsedSlots(data, n) /\ data[s].key = k
      BY <3>1 DEF Holds, UsedSlots
    <3> QED
      BY <1>3, <3>1, <3>2 DEF IsDict, DictTables
  <2>3. PICK e : e = [data[s] EXCEPT !.state = "deleted"]
    OBVIOUS
  <2>4. e \in Entry /\ e.state = "deleted" /\ e.key = k /\ e.value \in Value /\ e.key = data[s].key
    BY <2>2, <2>3 DEF Entry
  <2>5. data' = [data EXCEPT ![s] = e] /\ length' = length - 1
    <3>1. E # {} /\ Holds(data[RemoveProbe(k, Min(E))], k)
      BY <1>9, <1>10, <2>1, <2>2
    <3>2. data' = [data EXCEPT ![s].state = "deleted"] /\ length' = length - 1
      BY <1>6, <2>2, <3>1
    <3> QED
      BY <2>3, <3>2
  <2>6. PICK w : w = data' /\ Put(w, data, s, e)
    BY <2>5 DEF Put
  <2>7. IsDict(w, n) /\ Replaces(w, data, n, s, e)
    BY <1>3, <2>2, <2>4, <2>6, PutOver
  <2>8. Maps(w, n, rest)
    <3>1. rest = [x \in DOMAIN abs \ {e.key} |-> abs[x]] /\ e.state # "used"
      BY <1>5, <2>4
    <3> QED
      BY <1>3, <2>2, <2>4, <2>7, <3>1, Unstore
  <2>9. length' = Cardinality(UsedSlots(w, n)) /\ length' \in Nat /\ length' <= MaxLen
    <3>1. UsedSlots(w, n) = UsedSlots(data, n) \ {s}
      BY <2>4, <2>7 DEF Replaces
    <3>2. IsFiniteSet(UsedSlots(data, n))
      BY <1>3, KeysCount
    <3>3. Cardinality(UsedSlots(w, n)) = Cardinality(UsedSlots(data, n)) - 1
          /\ Cardinality(UsedSlots(w, n)) \in Nat
      BY <2>2, <3>1, <3>2, FS_RemoveElement, FS_CardinalityType
    <3> QED
      BY <1>3, <2>5, <3>3
  <2>10. DictInv'
    BY <1>2, <1>3, <1>6, <2>6, <2>7, <2>8, <2>9, DictNext
  <2> QED
    BY <1>3, <1>6, <2>9, <2>10 DEF Numbers
<1>11. CASE k \notin Keys(data, n)
  <2>1. data' = data /\ length' = length
    <3>1. ASSUME E # {}, Holds(data[RemoveProbe(k, Min(E))], k) PROVE FALSE
      <4>1. RemoveProbe(k, Min(E)) \in UsedSlots(data, n)
        BY <1>7, <1>9, <3>1 DEF UsedSlots, Holds
      <4> QED
        BY <1>11, <3>1, <4>1 DEF Keys, Holds
    <3> QED
      BY <1>6, <3>1
  <2>2. Maps(data, n, rest)
    <3>1. k \notin DOMAIN abs
      BY <1>3, <1>11 DEF Maps
    <3>2. DOMAIN rest = DOMAIN abs /\ \A x \in DOMAIN abs : rest[x] = abs[x]
      BY <1>5, <3>1
    <3>3. \A p \in UsedSlots(data, n) : data[p].key \in DOMAIN abs
      BY <1>3 DEF Maps, Keys
    <3> QED
      BY <1>3, <3>2, <3>3 DEF Maps
  <2>3. DictInv'
    BY <1>2, <1>3, <1>6, <2>1, <2>2, DictNext
  <2> QED
    BY <1>3, <1>6, <2>1, <2>3 DEF Numbers
<1> QED
  BY <1>10, <1>11

LEMMA DictFollows ==
  ASSUME DictInv, Numbers
  PROVE  DictIsMap /\ (kind = "dict" => SequencesAndSetsExact)
<1> SUFFICES ASSUME kind = "dict" PROVE DictIsMap /\ SequencesAndSetsExact
  BY DEF DictIsMap
<1>1. PICK n : n = capacity
  OBVIOUS
<1>2. /\ n \in Nat \ {0} /\ HashTypes /\ IsDict(data, n) /\ Maps(data, n, abs)
      /\ length = Cardinality(UsedSlots(data, n)) /\ Keys(data, n) = DOMAIN abs
  BY <1>1, CollectionsAssumption DEF DictInv, Maps
<1>3. length <= n /\ length = Cardinality(DOMAIN abs)
  BY <1>2, KeysCount
<1>4. ASSUME NEW k \in Key
      PROVE  (DictHas(k) <=> k \in DOMAIN abs)
             /\ (k \in DOMAIN abs => data[FindSlot(data, k)].value = abs[k])
  <2>1. PICK s : s = FindSlot(data, k)
    OBVIOUS
  <2>2. DictHas(k) <=> s >= 0 /\ data[s].state = "used"
    BY <2>1 DEF DictHas
  <2>3. CASE k \in DOMAIN abs
    <3>1. s \in UsedSlots(data, n) /\ data[s].key = k
      BY <1>2, <2>1, <2>3, DictSearch
    <3>2. s \in 0 .. n - 1 /\ data[s].state = "used"
      BY <3>1 DEF UsedSlots
    <3>3. data[s].value = abs[k]
      BY <1>2, <3>1 DEF Maps
    <3> QED
      BY <1>2, <2>1, <2>2, <2>3, <3>2, <3>3
  <2>4. CASE k \notin DOMAIN abs
    <3>1. s = -1 \/ FreeFor(data, k, n, s)
      BY <1>2, <2>1, <2>4, DictSearch
    <3>2. ~ (s >= 0 /\ data[s].state = "used")
      BY <3>1 DEF FreeFor
    <3> QED
      BY <2>2, <2>4, <3>2
  <2> QED
    BY <2>3, <2>4
<1>5. DOMAIN abs \subseteq Key
  BY <1>2 DEF IsDict, Keys
<1>6. ToSet(DictKeys) = DOMAIN abs /\ Len(DictKeys) = Cardinality(DOMAIN abs)
  BY <1>2, <1>3, KeysListed
<1>7. DictIsMap
  BY <1>3, <1>4, <1>5, <1>6 DEF DictIsMap
<1> QED
  BY <1>1, <1>3, <1>7 DEF SequencesAndSetsExact

(***************************************************************************)
(* All of it is an invariant.                                              *)
(***************************************************************************)
CollInv == kind \in Kinds /\ Numbers /\ OrderedInv /\ SetInv /\ DictInv

LEMMA ArrayIs ==
  ASSUME NEW n \in Nat, NEW v
  PROVE  Size(Array(n, v)) = n /\ (v = Nil => Array(n, v) \in Arrays(n))
<1>1. DOMAIN Array(n, v) = 0 .. n - 1
  BY DEF Array
<1>2. Size(Array(n, v)) = n
  BY <1>1, SizeIs
<1> QED
  BY <1>2 DEF Array, Arrays

LEMMA LiteralCapIs ==
  ASSUME NEW n \in 0 .. MaxLen
  PROVE  LiteralCap(n) \in DictCaps
<1> DEFINE C == {c \in DictCaps : n <= c}
<1>1. C \subseteq Nat
  BY CollectionsAssumption
<1>2. C # {}
  <2>1. PICK c \in DictCaps : MaxLen <= c
    BY CollectionsAssumption
  <2>2. c \in Nat /\ MaxLen \in Nat
    BY CollectionsAssumption
  <2> QED
    BY <2>1, <2>2
<1>3. LiteralCap(n) = Min(C)
  BY DEF LiteralCap
<1> HIDE DEF C
<1>4. Min(C) \in C
  BY <1>1, <1>2, MinOf
<1> QED
  BY <1>3, <1>4 DEF C

LEMMA CollInit ==
  ASSUME CollectionStart
  PROVE  CollInv
<1>1. kind \in Kinds /\ Numbers /\ length = 0 /\ front = 0 /\ data \in Fresh(kind)
      /\ abs = IF kind = "set" THEN {} ELSE << >>
  BY DEF CollectionStart, Kinds, Numbers
<1>2. InitCap \in Nat \ {0} /\ MaxLen \in Nat
  BY CollectionsAssumption
<1>3. kind \in Ordered \cup {"set"} => ArrayInv
  <2>1. SUFFICES ASSUME kind \in Ordered \cup {"set"} PROVE ArrayInv
    OBVIOUS
  <2>2. \E n \in Nat \ {0} : data = Array(n, Nil)
    <3>1. CASE kind = "tuple"
      <4>1. PICK n \in 0 .. MaxLen : data = Array(Max({n, 1}), Nil)
        BY <1>1, <3>1 DEF Fresh
      <4>2. Max({n, 1}) \in Nat \ {0}
        BY MaxTwo
      <4> QED
        BY <4>1, <4>2
    <3>2. CASE kind # "tuple"
      <4>1. data = Array(InitCap, Nil)
        BY <1>1, <2>1, <3>2 DEF Fresh, Ordered
      <4> QED
        BY <1>2, <4>1
    <3> QED
      BY <3>1, <3>2
  <2>3. PICK n \in Nat \ {0} : data = Array(n, Nil)
    BY <2>2
  <2>4. capacity = n /\ data \in Arrays(n)
    BY <2>3, ArrayIs DEF capacity
  <2> QED
    BY <1>1, <2>4 DEF ArrayInv
<1>4. OrderedInv
  <2>1. kind \in Ordered => abs = << >>
    BY <1>1 DEF Ordered
  <2>2. Spells(<< >>, data, 0, 0)
    <3>1. << >> \in Seq(Value) /\ Len(<< >>) = 0 - 0
      OBVIOUS
    <3>2. 1 .. 0 - 0 = {}
      OBVIOUS
    <3> QED
      BY <3>1, <3>2 DEF Spells
  <2> QED
    BY <1>1, <1>3, <2>1, <2>2 DEF OrderedInv
<1>5. SetInv
  BY <1>1, <1>3 DEF SetInv, Live
<1>6. DictInv
  <2>1. SUFFICES ASSUME kind = "dict" PROVE DictInv
    BY DEF DictInv
  <2>2. PICK i \in 0 .. MaxLen : data = Array(LiteralCap(i), Unused)
    BY <1>1, <2>1 DEF Fresh
  <2>3. PICK n : n = LiteralCap(i)
    OBVIOUS
  <2>4. n \in DictCaps /\ n \in Nat \ {0}
    BY <2>3, LiteralCapIs, CollectionsAssumption
  <2>5. IsDict(data, n) /\ UsedSlots(data, n) = {}
    BY <2>2, <2>3, <2>4, EmptyDict
  <2>6. capacity = n
    BY <2>2, <2>3, <2>4, ArrayIs DEF capacity
  <2>7. Maps(data, n, abs)
    <3>1. DOMAIN abs = {} /\ Keys(data, n) = {}
      BY <1>1, <2>1, <2>5 DEF Keys
    <3> QED
      BY <2>5, <3>1 DEF Maps
  <2>8. length = Cardinality(UsedSlots(data, n)) /\ length <= MaxLen
    BY <1>1, <1>2, <2>5, FS_EmptySet
  <2>9. HashTypes
    BY <2>1, CollectionsAssumption DEF CollectionStart, HashTypes
  <2> QED
    BY <2>4, <2>5, <2>6, <2>7, <2>8, <2>9 DEF DictInv
<1> QED
  BY <1>1, <1>4, <1>5, <1>6 DEF CollInv

(* A step of one kind says nothing of the others. *)
LEMMA NotOrdered ==
  ASSUME kind' = kind, kind \notin Ordered
  PROVE  OrderedInv'
BY DEF OrderedInv
LEMMA NotSet ==
  ASSUME kind' = kind, kind # "set"
  PROVE  SetInv'
BY DEF SetInv
LEMMA NotDict ==
  ASSUME kind' = kind, kind # "dict"
  PROVE  DictInv'
BY DEF DictInv

LEMMA OrderedStep ==
  ASSUME CollInv, kind \in Ordered, kind' = kind, OrderedInv' /\ Numbers'
  PROVE  CollInv'
BY NotSet, NotDict DEF CollInv, Ordered
LEMMA SetStep ==
  ASSUME CollInv, kind = "set", kind' = kind, SetInv' /\ Numbers'
  PROVE  CollInv'
BY NotOrdered, NotDict DEF CollInv, Ordered
LEMMA DictStep ==
  ASSUME CollInv, kind = "dict", kind' = kind, DictInv' /\ Numbers'
  PROVE  CollInv'
BY NotOrdered, NotSet DEF CollInv, Ordered

LEMMA SameCollection ==
  ASSUME CollInv, UNCHANGED <<kind, data, length, front, hash, abs>>
  PROVE  CollInv'
<1>1. Numbers' /\ kind' \in Kinds
  BY DEF CollInv, Numbers
<1>2. OrderedInv' /\ SetInv'
  BY DEF CollInv, OrderedInv, SetInv, ArrayInv, Spells, Arrays, Live, capacity, Size
<1>3. DictInv'
  <2>1. CASE kind = "dict"
    <3>1. PICK n : n = capacity
      OBVIOUS
    <3>2. /\ HashTypes /\ n \in DictCaps /\ IsDict(data', n) /\ Maps(data', n, abs')
          /\ length' = Cardinality(UsedSlots(data', n)) /\ length' <= MaxLen
      BY <2>1, <3>1 DEF CollInv, DictInv
    <3> QED
      BY <2>1, <3>2, DictNext
  <2>2. CASE kind # "dict"
    BY <2>2, NotDict
  <2> QED
    BY <2>1, <2>2
<1> QED
  BY <1>1, <1>2, <1>3 DEF CollInv

LEMMA CollStep ==
  ASSUME CollInv, [CollectionNext]_collVars
  PROVE  CollInv'
<1>1. Numbers /\ OrderedInv /\ SetInv /\ DictInv
  BY DEF CollInv
<1>2. ASSUME NEW v \in Value, ListPush(v) PROVE CollInv'
  <2>1. kind \in Ordered /\ kind' = kind
    BY <1>2 DEF ListPush, Alive, Become, Keep, Ordered
  <2> QED
    BY <1>1, <1>2, <2>1, PushSpells, OrderedStep
<1>3. ASSUME NEW v \in Value, SetAdd(v) PROVE CollInv'
  <2>1. kind = "set" /\ kind' = kind
    BY <1>3 DEF SetAdd, Alive, Become, Keep
  <2> QED
    BY <1>1, <1>3, <2>1, SetAddKeeps, SetStep
<1>4. ASSUME NEW v \in Value, SetRemove(v) PROVE CollInv'
  <2>1. kind = "set" /\ kind' = kind
    BY <1>4 DEF SetRemove, Alive, Become, Keep
  <2> QED
    BY <1>1, <1>4, <2>1, SetRemoveKeeps, SetStep
<1>5. ASSUME NEW i \in Int, ListRemove(i) PROVE CollInv'
  <2>1. kind \in Ordered /\ kind' = kind
    BY <1>5 DEF ListRemove, Alive, Become, Keep, Quit, Ordered
  <2> QED
    BY <1>1, <1>5, <2>1, RemoveSpells, OrderedStep
<1>6. ASSUME NEW i \in Int, NEW v \in Value, ListSet(i, v) PROVE CollInv'
  <2>1. kind \in Ordered /\ kind' = kind
    BY <1>6 DEF ListSet, Alive, Become, Keep, Quit, Ordered
  <2> QED
    BY <1>1, <1>6, <2>1, SetSpells, OrderedStep
<1>7. ASSUME NEW k \in Key, DictRemove(k) PROVE CollInv'
  <2>1. kind = "dict" /\ kind' = kind
    BY <1>7 DEF DictRemove, Alive, Become, Keep
  <2> QED
    BY <1>1, <1>7, <2>1, DictRemoveKeeps, DictStep
<1>8. ASSUME NEW k \in Key, DictGet(k) \/ FreeForeign(k) PROVE CollInv'
  <2>1. UNCHANGED <<kind, data, length, front, hash, abs>>
    BY <1>8 DEF DictGet, FreeForeign, Quit
  <2> QED
    BY <2>1, SameCollection
<1>9. ASSUME NEW k \in Key, NEW v \in Value, DictSet(k, v) PROVE CollInv'
  <2>1. kind = "dict" /\ kind' = kind
    BY <1>9 DEF DictSet, Alive, Become, Keep
  <2> QED
    BY <1>1, <1>9, <2>1, DictSetKeeps, DictStep
<1>10. CASE StackPop
  <2>1. kind \in Ordered /\ kind' = kind
    BY <1>10 DEF StackPop, Alive, Become, Keep, Quit, Ordered
  <2> QED
    BY <1>1, <1>10, <2>1, PopSpells, OrderedStep
<1>11. CASE Dequeue
  <2>1. kind \in Ordered /\ kind' = kind
    BY <1>11 DEF Dequeue, Alive, Keep, Quit, Ordered
  <2> QED
    BY <1>1, <1>11, <2>1, DequeueSpells, OrderedStep
<1>12. CASE UNCHANGED collVars
  <2>1. UNCHANGED <<kind, data, length, front, hash, abs>>
    BY <1>12 DEF collVars
  <2> QED
    BY <2>1, SameCollection
<1>13. CASE CollectionNext
  <2>1. -1 .. MaxLen \subseteq Int
    BY CollectionsAssumption
  <2> QED
    BY <1>2, <1>3, <1>4, <1>5, <1>6, <1>7, <1>8, <1>9, <1>10, <1>11, <1>13, <2>1
       DEF CollectionNext
<1> QED
  BY <1>12, <1>13

LEMMA CollInvariant == CollectionSpec => []CollInv
<1>1. CollectionStart => CollInv
  BY CollInit
<1>2. CollInv /\ [CollectionNext]_collVars => CollInv'
  BY CollStep
<1> QED
  BY <1>1, <1>2, PTL DEF CollectionSpec

LEMMA ExactFollows ==
  ASSUME CollInv
  PROVE  CollectionsExact
<1>1. DictIsMap /\ (kind = "dict" => SequencesAndSetsExact)
  BY DictFollows DEF CollInv
<1>2. kind \in Ordered \cup {"set"} => SequencesAndSetsExact
  BY SequencesAndSetsFollow DEF CollInv
<1>3. kind \in Kinds
  BY DEF CollInv
<1> QED
  BY <1>1, <1>2, <1>3 DEF CollectionsExact, Kinds, Ordered

(* The arrays, sets and open-addressing tables of stdlib/runtime.c stand   *)
(* for their values after every sequence of calls: nothing is lost or met  *)
(* twice, however the keys of a dict collide, whatever was deleted and     *)
(* whenever it was resized.                                                *)
THEOREM CollectionsAlways == CollectionSpec => []CollectionsExact
<1>1. CollInv => CollectionsExact
  BY ExactFollows
<1> QED
  BY <1>1, CollInvariant, PTL

(* Slices of lists and strings of stdlib/runtime.c select what Python's    *)
(* do, for a list of any length.                                           *)
THEOREM SlicesAlways == CollectionSpec => []SlicesSelect
<1>1. CollInv => SlicesSelect
  BY SlicesFollow DEF CollInv
<1> QED
  BY <1>1, CollInvariant, PTL
=============================================================================
