--------------------------- MODULE GcHeapProofs ---------------------------
(***************************************************************************)
(* Proofs about the collector, for every heap, size table and request.     *)
(*                                                                         *)
(* First the allocator, whatever the threads do: the free lists and the    *)
(* heap list partition what malloc gave out, heap_bytes is the sum of the  *)
(* sizes, the bounding box covers the heap.  Then, for a program of one    *)
(* thread that keeps base pointers and stores them where mark_internal     *)
(* looks, that marking finds exactly the reachable objects and that no     *)
(* pointer dangles.                                                        *)
(***************************************************************************)
EXTENDS GcHeap, FiniteInduction, SequenceTheorems

(***************************************************************************)
(* Size classes.                                                           *)
(***************************************************************************)
LEMMA ClassForType ==
  ASSUME NEW n \in Nat
  PROVE  \/ ClassFor(n) = 0
         \/ /\ ClassFor(n) \in Classes /\ n <= ClassSizes[ClassFor(n)]
            /\ \A c \in Classes : n <= ClassSizes[c] => ClassFor(n) <= c
<1> DEFINE fit == {c \in Classes : n <= ClassSizes[c]}
<1> SUFFICES ASSUME fit # {} PROVE /\ ClassFor(n) \in fit
                                   /\ \A c \in fit : ClassFor(n) <= c
  BY DEF ClassFor
<1>1. fit \subseteq Nat
  BY GcAssumption DEF Classes
<1>2. ClassFor(n) = Min(fit)
  BY DEF ClassFor
<1> HIDE DEF fit
<1> QED
  BY <1>1, <1>2, MinOf

LEMMA ClassesArePositive == \A c \in Classes : c \in Nat /\ c # 0 /\ ClassSizes[c] \in Nat
BY GcAssumption DEF Classes

LEMMA Sizes ==
  ASSUME NEW r \in Request
  PROVE  /\ r.tag \in Tag /\ r.size \in Nat /\ HeaderSize + r.size \in Nat
         /\ TotalOf(r) \in Nat \ {0}
<1>1. r.tag \in Tag /\ r.size \in Nat /\ HeaderSize \in Nat \ {0}
  BY GcAssumption DEF Requests
<1>2. HeaderSize + r.size \in Nat \ {0}
  BY <1>1
<1> DEFINE total == HeaderSize + r.size  c == ClassFor(total)
<1>3. c = 0 \/ (c \in Classes /\ total <= ClassSizes[c])
  BY <1>2, ClassForType
<1>4. TotalOf(r) = IF r.object \/ c = 0 THEN total ELSE ClassSizes[c]
  BY DEF TotalOf
<1> HIDE DEF c
<1> QED
  BY <1>1, <1>2, <1>3, <1>4, ClassesArePositive

(* The list fl_pop takes a block from is that of the class the block is    *)
(* then given: rounding up to a class keeps the class.                     *)
LEMMA ReusableIsFreeList ==
  ASSUME NEW r \in Request, Reusable(r) # << >>
  PROVE  LET c == ClassFor(TotalOf(r)) IN c \in Classes /\ Reusable(r) = fl[c]
<1> DEFINE total == HeaderSize + r.size  c == ClassFor(total)
<1>1. total \in Nat
  BY Sizes
<1>2. ~ r.object /\ c # 0 /\ Reusable(r) = fl[c] /\ TotalOf(r) = ClassSizes[c]
  BY DEF Reusable, TotalOf
<1>3. c \in Classes /\ total <= ClassSizes[c]
      /\ \A d \in Classes : total <= ClassSizes[d] => c <= d
  BY <1>1, <1>2, ClassForType
<1> DEFINE e == ClassFor(ClassSizes[c])
<1> HIDE DEF c
<1>4. c \in Nat /\ c # 0 /\ ClassSizes[c] \in Nat
  BY <1>3, ClassesArePositive
<1>5. \/ e = 0
      \/ /\ e \in Classes /\ ClassSizes[c] <= ClassSizes[e]
         /\ \A d \in Classes : ClassSizes[c] <= ClassSizes[d] => e <= d
  BY <1>4, ClassForType
<1>6. e # 0
  <2> DEFINE fit == {d \in Classes : ClassSizes[c] <= ClassSizes[d]}
  <2>1. c \in fit /\ fit \subseteq Nat
    BY <1>3, <1>4, GcAssumption DEF Classes
  <2>2. e = Min(fit)
    BY <2>1 DEF ClassFor
  <2>3. e \in fit
    <3> HIDE DEF fit, e
    <3> QED
      BY <2>1, <2>2, MinOf
  <2> QED
    BY <2>3, ClassesArePositive
<1>7. e = c
  <2> HIDE DEF e, total
  <2>0. e \in Classes /\ e \in Nat /\ ClassSizes[e] \in Nat
    BY <1>5, <1>6, ClassesArePositive
  <2>1. e <= c /\ total <= ClassSizes[e]
    BY <1>1, <1>3, <1>4, <1>5, <1>6, <2>0
  <2>2. c <= e
    BY <2>0, <2>1, <1>3
  <2> QED
    BY <2>0, <2>1, <2>2, <1>4
<1> QED
  BY <1>2, <1>3, <1>7

(***************************************************************************)
(* Types, and what the collector's own sets are in each of its phases.     *)
(***************************************************************************)
Phases ==
  /\ marked \subseteq heap /\ gray \subseteq heap /\ swept \subseteq heap
  /\ marked \cap swept = {}
  /\ phase \in {"place", "retry"} => req # NULL

TypeInv == TypeOK /\ Phases

LEMMA LimitType == Limit \in Int
<1>1. CASE Block = {}
  BY <1>1 DEF Limit
<1>2. CASE Block # {}
  <2>1. Block \subseteq Int /\ IsFiniteSet(Block)
    BY GcAssumption
  <2>2. Max(Block) \in Int
    BY <1>2, <2>1, MaxOf
  <2> QED
    BY <1>2, <2>2 DEF Limit
<1> QED
  BY <1>1, <1>2

LEMMA HeapIsFinite ==
  ASSUME TypeInv
  PROVE  heap \subseteq Nat /\ heap \subseteq Int /\ IsFiniteSet(heap)
<1>1. heap \subseteq Block
  BY DEF TypeInv, TypeOK
<1>2. PICK S \in SUBSET Block : S = heap
  BY <1>1
<1>3. IsFiniteSet(S)
  BY GcAssumption, FS_Subset
<1> QED
  BY <1>1, <1>2, <1>3, GcAssumption

LEMMA InitType == Init => TypeInv
<1> SUFFICES ASSUME Init PROVE TypeInv
  OBVIOUS
<1> USE DEF Init
<1>1. mem \in [Block -> Nat] /\ size \in [Block -> Nat] /\ tag \in [Block -> Tag]
  BY DEF Tag
<1>2. field \in [Block -> [Field -> Pointer]]
  BY DEF Pointer
<1>3. fl \in [Classes -> Seq(Block)]
  OBVIOUS
<1>4. stack \in [Thread -> [Slot -> Pointer]] /\ global \in [Global -> Pointer]
  BY DEF Pointer
<1>5. gc_threshold \in Int /\ heap_lo \in Int /\ heap_hi \in Int
  BY LimitType, GcAssumption
<1> QED
  BY <1>1, <1>2, <1>3, <1>4, <1>5 DEF TypeInv, TypeOK, Phases

LEMMA ProgramType ==
  ASSUME TypeInv, NEW th \in Thread, ProgramStep(th)
  PROVE  TypeInv'
<1> USE DEF TypeInv, TypeOK, Phases, SetSlot, blockVars, gcVars, progVars
<1>1. ASSUME NEW s \in Slot, Clear(th, s) PROVE TypeInv'
  <2>1. PICK p \in Remains(stack[th][s]) : stack' = [stack EXCEPT ![th][s] = p]
    BY <1>1 DEF Clear
  <2>2. p \in Pointer
    BY <2>1 DEF Remains, Pointer, IsObject
  <2>3. stack' \in [Thread -> [Slot -> Pointer]]
    BY <2>1, <2>2
  <2> QED
    BY <1>1, <2>3 DEF Clear
<1>2. ASSUME NEW s \in Slot, NEW d \in Slot, NEW i \in Field, Load(th, s, i, d)
      PROVE  TypeInv'
  <2>1. field[stack[th][s][1]][i] \in Pointer
    BY <1>2 DEF Load, IsObject
  <2>2. stack' \in [Thread -> [Slot -> Pointer]]
    BY <1>2, <2>1 DEF Load
  <2> QED
    BY <1>2, <2>2 DEF Load
<1>3. ASSUME NEW s \in Slot, NEW d \in Slot, NEW i \in Field, Store(th, s, i, d)
      PROVE  TypeInv'
  <2>1. field' \in [Block -> [Field -> Pointer]]
    BY <1>3 DEF Store, IsObject
  <2> QED
    BY <1>3, <2>1 DEF Store
<1>4. ASSUME NEW g \in Global, NEW s \in Slot, SetGlobal(th, g, s) PROVE TypeInv'
  BY <1>4 DEF SetGlobal
<1>5. ASSUME NEW g \in Global, NEW s \in Slot, GetGlobal(th, g, s) PROVE TypeInv'
  <2>1. stack' \in [Thread -> [Slot -> Pointer]]
    BY <1>5 DEF GetGlobal
  <2> QED
    BY <1>5, <2>1 DEF GetGlobal
<1>6. ASSUME NEW g \in Global, RegisterGlobal(th, g) PROVE TypeInv'
  BY <1>6 DEF RegisterGlobal
<1> QED
  BY <1>1, <1>2, <1>3, <1>4, <1>5, <1>6 DEF ProgramStep

LEMMA EnterType ==
  ASSUME TypeInv, NEW th \in Thread, Enter(th)
  PROVE  TypeInv'
<1> USE DEF TypeInv, TypeOK, Phases, blockVars, gcVars, progVars
<1>1. ASSUME NEW ths \in SUBSET Thread, Collect(th, ths) PROVE TypeInv'
  BY <1>1, GcAssumption DEF Collect, BeginMark, Found
<1>2. ASSUME NEW r \in Request, NEW ths \in SUBSET Thread, AllocCollect(th, r, ths)
      PROVE  TypeInv'
  BY <1>2, GcAssumption DEF AllocCollect, BeginMark, Found
<1>3. ASSUME NEW r \in Request, AllocDirect(th, r) PROVE TypeInv'
  BY <1>3, GcAssumption DEF AllocDirect
<1>4. ASSUME Shutdown(th) PROVE TypeInv'
  <2>1. mem' \in [Block -> Nat] /\ fl' \in [Classes -> Seq(Block)]
    BY <1>4 DEF Shutdown
  <2>2. stack' \in [Thread -> [Slot -> Pointer]] /\ global' \in [Global -> Pointer]
    BY <1>4 DEF Shutdown, Pointer
  <2>3. /\ heap' = {} /\ heap_bytes' = 0 /\ scribbled' = {} /\ lost' = FALSE
        /\ UNCHANGED <<size, tag, field, gc_threshold, peak_heap_bytes, heap_lo,
                       heap_hi, roots, phase, holder, req, oom, marked, gray, swept>>
    BY <1>4 DEF Shutdown
  <2>4. phase = "mutate" /\ marked = {} /\ gray = {} /\ swept = {}
    BY <1>4 DEF Shutdown
  <2>5. heap' \subseteq Block /\ heap_bytes' \in Int /\ scribbled' \subseteq Block
    BY <2>3
  <2>6. TypeOK'
    <3>1. lost' \in BOOLEAN
      BY <2>3, Zenon
    <3> QED
      BY <2>1, <2>2, <2>3, <2>4, <2>5, <3>1
  <2>7. Phases'
    BY <2>3, <2>4
  <2> QED
    BY <2>6, <2>7
<1> QED
  BY <1>1, <1>2, <1>3, <1>4 DEF Enter

(* What fl_push and fl_pop do, as seen by the rest of the proof. *)
LEMMA ReleaseCases ==
  ASSUME TypeInv, NEW b \in Block, Release(b)
  PROVE  \/ \E c \in Classes : /\ Len(fl[c]) < FlMax /\ mem' = mem
                               /\ fl' = [fl EXCEPT ![c] = <<b>> \o fl[c]]
         \/ fl' = fl /\ mem' = [mem EXCEPT ![b] = 0]
<1> DEFINE c == ClassFor(size[b])
<1>1. c = 0 \/ c \in Classes
  BY ClassForType DEF TypeInv, TypeOK
<1> DEFINE cached == c # 0 /\ Len(fl[c]) < FlMax
<1>2. CASE cached
  <2>1. fl' = [fl EXCEPT ![c] = <<b>> \o fl[c]] /\ mem' = mem
    BY <1>2 DEF Release
  <2> HIDE DEF c
  <2> QED
    BY <1>1, <1>2, <2>1
<1>3. CASE ~ cached
  BY <1>3 DEF Release
<1> QED
  BY <1>2, <1>3

LEMMA ReuseCases ==
  ASSUME TypeInv, NEW s \in Slot, AllocReuse(s)
  PROVE  \E c \in Classes, b \in Block :
            /\ fl[c] # << >> /\ b = Head(fl[c]) /\ Install(b, s)
            /\ fl' = [fl EXCEPT ![c] = Tail(fl[c])]
<1>1. req \in Request
  BY DEF AllocReuse, TypeInv, TypeOK, Phases
<1> DEFINE c == ClassFor(TotalOf(req))
<1>2. c \in Classes /\ Reusable(req) = fl[c] /\ fl[c] # << >>
  BY <1>1, ReusableIsFreeList DEF AllocReuse
<1>3. fl' = [fl EXCEPT ![c] = Tail(fl[c])] /\ Install(Head(Reusable(req)), s)
  BY DEF AllocReuse
<1> HIDE DEF c
<1>4. Head(fl[c]) \in Block
  BY <1>2 DEF TypeInv, TypeOK
<1>5. PICK d \in Classes : d = c
  BY <1>2
<1>6. PICK b \in Block : b = Head(Reusable(req))
  BY <1>2, <1>4
<1>7. Install(b, s)
  BY <1>3, <1>6
<1> QED
  BY <1>2, <1>3, <1>5, <1>6, <1>7

LEMMA InstallType ==
  ASSUME TypeInv, phase \in {"place", "retry"}, NEW b \in Block, NEW s \in Slot,
         Install(b, s), mem' \in [Block -> Nat], fl' \in [Classes -> Seq(Block)]
  PROVE  TypeInv'
<1> USE DEF TypeInv, TypeOK, Phases
<1>1. /\ req \in Request /\ TotalOf(req) \in Nat /\ req.tag \in Tag
      /\ holder \in Thread
  BY Sizes
<1>2. stack' \in [Thread -> [Slot -> Pointer]]
  <2>1. <<b, "base">> \in Pointer
    BY DEF Pointer
  <2>2. stack' = [stack EXCEPT ![holder][s] = <<b, "base">>]
    BY DEF Install, SetSlot
  <2> QED
    BY <1>1, <2>1, <2>2
<1>3. field' \in [Block -> [Field -> Pointer]]
  <2>1. [i \in Field |-> NULL] \in [Field -> Pointer]
    BY DEF Pointer
  <2>2. field' = [field EXCEPT ![b] = [i \in Field |-> NULL]]
    BY DEF Install
  <2> QED
    BY <2>1, <2>2
<1>4. size' \in [Block -> Nat] /\ tag' \in [Block -> Tag] /\ heap' \subseteq Block
  BY <1>1 DEF Install
<1>5. heap_bytes' \in Int /\ peak_heap_bytes' \in Int
  <2>1. heap_bytes' = heap_bytes + TotalOf(req)
        /\ peak_heap_bytes' = Max({peak_heap_bytes, heap_bytes + TotalOf(req)})
    BY DEF Install
  <2>2. heap_bytes + TotalOf(req) \in Int
    BY <1>1
  <2> QED
    BY <2>1, <2>2, MaxOfTwo
<1>6. heap_lo' \in Int /\ heap_hi' \in Int
  <2>1. b \in Int /\ b + 1 \in Int
    BY GcAssumption
  <2>2. heap_lo' = Min({heap_lo, b}) /\ heap_hi' = Max({heap_hi, b + 1})
    BY DEF Install, Widen
  <2> QED
    BY <2>1, <2>2, MaxOfTwo, MinOfTwo
<1>7. /\ phase' = "mutate" /\ holder' = NULL /\ req' = NULL
      /\ UNCHANGED <<gc_threshold, global, roots, oom, marked, gray, swept,
                     scribbled, lost>>
  BY DEF Install
<1>8. heap \subseteq heap'
  BY DEF Install
<1> QED
  BY <1>2, <1>3, <1>4, <1>5, <1>6, <1>7, <1>8

LEMMA CollectorType ==
  ASSUME TypeInv, CollectorStep
  PROVE  TypeInv'
<1> USE DEF TypeInv, TypeOK, Phases, blockVars, gcVars, progVars
<1>1. ASSUME NEW b \in Block, Mark(b) PROVE TypeInv'
  BY <1>1 DEF Mark, Found
<1>2. ASSUME NEW b \in Block, SweepLive(b) PROVE TypeInv'
  BY <1>2 DEF SweepLive
<1>3. ASSUME NEW b \in Block, SweepDead(b) PROVE TypeInv'
  <2>1. Release(b)
    BY <1>3 DEF SweepDead
  <2>2. fl' \in [Classes -> Seq(Block)] /\ mem' \in [Block -> Nat]
    <3>1. ASSUME NEW c \in Classes, mem' = mem, fl' = [fl EXCEPT ![c] = <<b>> \o fl[c]]
          PROVE  fl' \in [Classes -> Seq(Block)] /\ mem' \in [Block -> Nat]
      <4>1. <<b>> \o fl[c] \in Seq(Block)
        OBVIOUS
      <4> QED
        BY <3>1, <4>1
    <3>2. fl' = fl /\ mem' = [mem EXCEPT ![b] = 0] =>
            fl' \in [Classes -> Seq(Block)] /\ mem' \in [Block -> Nat]
      OBVIOUS
    <3> QED
      BY <2>1, <3>1, <3>2, ReleaseCases
  <2>3. heap_bytes' \in Int
    BY <1>3 DEF SweepDead, Uncount
  <2> QED
    BY <1>3, <2>2, <2>3 DEF SweepDead
<1>4. ASSUME EndMark PROVE TypeInv'
  BY <1>4 DEF EndMark
<1>5. ASSUME EndSweep PROVE TypeInv'
  <2>1. heap \subseteq Nat /\ heap \subseteq Int /\ IsFiniteSet(heap)
    BY HeapIsFinite
  <2>2. heap_lo' \in Int
    <3>1. heap # {} => Min(heap) \in Nat
      BY <2>1, MinOf
    <3> QED
      BY <1>5, <3>1, LimitType DEF EndSweep
  <2>3. heap_hi' \in Int
    <3>1. heap # {} => Max(heap) \in Nat
      BY <2>1, MaxOf
    <3> QED
      BY <1>5, <3>1 DEF EndSweep
  <2>4. gc_threshold' \in Int
    <3>1. 2 * heap_bytes \in Int /\ MinThreshold \in Int
      BY GcAssumption
    <3> QED
      BY <1>5, <3>1, MaxOfTwo DEF EndSweep
  <2>5. marked = {} /\ gray = {}
    BY <1>5 DEF EndSweep
  <2> QED
    BY <1>5, <2>2, <2>3, <2>4, <2>5 DEF EndSweep
<1>6. ASSUME NEW s \in Slot, AllocReuse(s) PROVE TypeInv'
  <2>1. PICK c \in Classes, b \in Block :
          /\ fl[c] # << >> /\ b = Head(fl[c]) /\ Install(b, s)
          /\ fl' = [fl EXCEPT ![c] = Tail(fl[c])]
    BY <1>6, ReuseCases
  <2>2. Tail(fl[c]) \in Seq(Block)
    BY <2>1
  <2>3. fl' \in [Classes -> Seq(Block)]
    BY <2>1, <2>2
  <2>4. mem' \in [Block -> Nat] /\ phase = "place"
    BY <1>6 DEF AllocReuse
  <2> QED
    BY <2>1, <2>3, <2>4, InstallType
<1>7. ASSUME NEW b \in Block, NEW s \in Slot, AllocMalloc(b, s) PROVE TypeInv'
  <2>1. Install(b, s) /\ phase \in {"place", "retry"} /\ fl' = fl
        /\ mem' = [mem EXCEPT ![b] = TotalOf(req)]
    BY <1>7 DEF AllocMalloc
  <2>2. mem' \in [Block -> Nat]
    BY <2>1, Sizes
  <2> QED
    BY <2>1, <2>2, InstallType
<1>8. ASSUME NEW ths \in SUBSET Thread, AllocOom(ths) PROVE TypeInv'
  BY <1>8 DEF AllocOom, BeginMark, Found
<1>9. ASSUME AllocExit PROVE TypeInv'
  BY <1>9 DEF AllocExit
<1> QED
  BY <1>1, <1>2, <1>3, <1>4, <1>5, <1>6, <1>7, <1>8, <1>9 DEF CollectorStep

LEMMA TypeNext == TypeInv /\ [Next]_vars => TypeInv'
<1>1. TypeInv /\ Next => TypeInv'
  BY ProgramType, EnterType, CollectorType DEF Next
<1>2. TypeInv /\ UNCHANGED vars => TypeInv'
  BY DEF TypeInv, TypeOK, Phases, vars, blockVars, progVars, gcVars
<1> QED
  BY <1>1, <1>2

(***************************************************************************)
(* The partition, in the form the steps use.                               *)
(***************************************************************************)
Cached(b) == \E c \in Classes : \E i \in 1 .. Len(fl[c]) : fl[c][i] = b

Partition ==
  /\ \A b \in Block : mem[b] # 0 <=> b \in heap \/ Cached(b)
  /\ \A c \in Classes : \A i \in 1 .. Len(fl[c]) : fl[c][i] \notin heap
  /\ \A c \in Classes : Len(fl[c]) <= FlMax
  /\ \A c, d \in Classes : \A i \in 1 .. Len(fl[c]), j \in 1 .. Len(fl[d]) :
       fl[c][i] = fl[d][j] => c = d /\ i = j

LEMMA FreeListDomains ==
  TypeInv => \A c \in Classes : /\ fl[c] \in Seq(Block) /\ Len(fl[c]) \in Nat
                                /\ DOMAIN fl[c] = 1 .. Len(fl[c])
                                /\ \A i \in 1 .. Len(fl[c]) : fl[c][i] \in Block
BY DEF TypeInv, TypeOK

LEMMA PartitionIsPartitioned ==
  ASSUME TypeInv
  PROVE  Partition <=> BlocksPartitioned
<1>1. \A c \in Classes : DOMAIN fl[c] = 1 .. Len(fl[c])
                         /\ \A i \in 1 .. Len(fl[c]) : fl[c][i] \in Block
  BY FreeListDomains
<1>2. \A b : b \in UNION {OnFreeList(c) : c \in Classes} <=> Cached(b)
  BY <1>1 DEF OnFreeList, Cached
<1>3. \A c \in Classes : heap \cap OnFreeList(c) = {}
                         <=> \A i \in 1 .. Len(fl[c]) : fl[c][i] \notin heap
  BY <1>1 DEF OnFreeList
<1>4. (\A b \in Block : mem[b] # 0 <=> b \in heap \/ Cached(b))
      <=> {b \in Block : mem[b] # 0} = heap \cup UNION {OnFreeList(c) : c \in Classes}
  <2>1. \A b : Cached(b) => b \in Block
    BY <1>1 DEF Cached
  <2>2. heap \subseteq Block
    BY DEF TypeInv, TypeOK
  <2> DEFINE U == UNION {OnFreeList(c) : c \in Classes}
  <2> HIDE DEF U
  <2>3. \A b : b \in U <=> Cached(b)
    BY <1>2 DEF U
  <2>4. (\A b \in Block : mem[b] # 0 <=> b \in heap \/ Cached(b))
        <=> {b \in Block : mem[b] # 0} = heap \cup U
    BY <2>1, <2>2, <2>3
  <2> QED
    BY <2>4 DEF U
<1>5. (\A c, d \in Classes : \A i \in 1 .. Len(fl[c]), j \in 1 .. Len(fl[d]) :
          fl[c][i] = fl[d][j] => c = d /\ i = j)
      <=> (\A c, d \in Classes : \A i \in DOMAIN fl[c], j \in DOMAIN fl[d] :
             fl[c][i] = fl[d][j] => c = d /\ i = j)
  BY <1>1
<1> QED
  BY <1>3, <1>4, <1>5 DEF Partition, BlocksPartitioned

(* A block the sweep gives to a free list, or to free. *)
LEMMA ReleasePartition ==
  ASSUME TypeInv, Partition, NEW b \in Block, b \in heap, heap' = heap \ {b},
         Release(b)
  PROVE  Partition'
<1>1. \A c \in Classes : fl[c] \in Seq(Block) /\ Len(fl[c]) \in Nat
  BY FreeListDomains
<1>2. ~ Cached(b) /\ mem \in [Block -> Nat] /\ fl \in [Classes -> Seq(Block)]
  BY DEF Partition, Cached, TypeInv, TypeOK
<1>3. ASSUME NEW c \in Classes, Len(fl[c]) < FlMax, mem' = mem,
             fl' = [fl EXCEPT ![c] = <<b>> \o fl[c]]
      PROVE  Partition'
  <2>1. Len(fl'[c]) = Len(fl[c]) + 1 /\ fl'[c][1] = b
        /\ \A i \in 1 .. Len(fl'[c]) : i # 1 => /\ i - 1 \in 1 .. Len(fl[c])
                                                /\ fl'[c][i] = fl[c][i - 1]
    BY <1>1, <1>2, <1>3
  <2>2. \A i \in 1 .. Len(fl[c]) : i + 1 \in 1 .. Len(fl'[c]) /\ fl'[c][i + 1] = fl[c][i]
    BY <1>1, <1>2, <1>3
  <2>3. \A d \in Classes : d # c => fl'[d] = fl[d]
    BY <1>2, <1>3
  <2>4. \A d \in Classes : \A i \in 1 .. Len(fl'[d]) :
          \/ d = c /\ i = 1 /\ fl'[d][i] = b
          \/ \E j \in 1 .. Len(fl[d]) : /\ fl'[d][i] = fl[d][j]
                                        /\ j = IF d = c THEN i - 1 ELSE i
    BY <2>1, <2>3
  <2>5. \A d \in Classes : \A i \in 1 .. Len(fl[d]) :
          \E j \in 1 .. Len(fl'[d]) : fl'[d][j] = fl[d][i]
    BY <2>2, <2>3
  <2>6. \A x : Cached(x)' => Cached(x) \/ x = b
    BY <2>4 DEF Cached
  <2>7. \A x : Cached(x) => Cached(x)'
    BY <2>5 DEF Cached
  <2>8. Cached(b)'
    <3>1. 1 \in 1 .. Len(fl'[c])
      BY <1>1, <2>1
    <3> QED
      BY <2>1, <3>1 DEF Cached
  <2>9. \A x \in Block : mem'[x] # 0 <=> x \in heap' \/ Cached(x)'
    <3> TAKE x \in Block
    <3>1. Cached(x)' <=> Cached(x) \/ x = b
      BY <2>6, <2>7, <2>8
    <3> QED
      BY <1>3, <3>1 DEF Partition
  <2>10. \A d \in Classes : \A i \in 1 .. Len(fl'[d]) : fl'[d][i] \notin heap'
    <3> TAKE d \in Classes
    <3> TAKE i \in 1 .. Len(fl'[d])
    <3> QED
      BY <2>4 DEF Partition
  <2>11. \A d \in Classes : Len(fl'[d]) <= FlMax
    BY <1>1, <1>3, <2>1, <2>3, GcAssumption DEF Partition
  <2>12. \A d \in Classes : \A i \in 1 .. Len(fl[d]) : fl[d][i] # b
    BY <1>2 DEF Cached
  <2>13. ASSUME NEW d \in Classes, NEW e \in Classes, NEW i \in 1 .. Len(fl'[d]),
                NEW j \in 1 .. Len(fl'[e]), fl'[d][i] = fl'[e][j]
         PROVE  d = e /\ i = j
    <3>1. CASE fl'[d][i] = b
      <4>1. d = c /\ i = 1
        BY <2>4, <2>12, <3>1
      <4>2. fl'[e][j] = b
        BY <2>13, <3>1
      <4>3. e = c /\ j = 1
        BY <2>4, <2>12, <4>2
      <4> QED
        BY <4>1, <4>3
    <3>2. CASE fl'[d][i] # b
      <4>1. PICK k \in 1 .. Len(fl[d]) : /\ fl'[d][i] = fl[d][k]
                                         /\ k = IF d = c THEN i - 1 ELSE i
        BY <2>4, <3>2
      <4>2. PICK l \in 1 .. Len(fl[e]) : /\ fl'[e][j] = fl[e][l]
                                         /\ l = IF e = c THEN j - 1 ELSE j
        BY <2>4, <2>13, <3>2
      <4>3. fl[d][k] = fl[e][l]
        BY <2>13, <4>1, <4>2
      <4>4. d = e /\ k = l
        BY <4>3 DEF Partition
      <4> QED
        BY <4>1, <4>2, <4>4
    <3> QED
      BY <3>1, <3>2
  <2> QED
    BY <2>9, <2>10, <2>11, <2>13 DEF Partition
<1>4. ASSUME fl' = fl, mem' = [mem EXCEPT ![b] = 0]
      PROVE  Partition'
  BY <1>2, <1>4 DEF Partition, Cached
<1> QED
  BY <1>3, <1>4, ReleaseCases

(* A block fl_pop returns. *)
LEMMA ReusePartition ==
  ASSUME TypeInv, Partition, NEW b \in Block, NEW c \in Classes, fl[c] # << >>,
         b = Head(fl[c]), heap' = heap \cup {b}, mem' = mem,
         fl' = [fl EXCEPT ![c] = Tail(fl[c])]
  PROVE  Partition'
<1>1. \A d \in Classes : fl[d] \in Seq(Block) /\ Len(fl[d]) \in Nat
  BY FreeListDomains
<1>2. mem \in [Block -> Nat] /\ fl \in [Classes -> Seq(Block)]
  BY DEF TypeInv, TypeOK
<1>3. /\ Len(fl'[c]) = Len(fl[c]) - 1 /\ 1 \in 1 .. Len(fl[c]) /\ fl[c][1] = b
      /\ \A i \in 1 .. Len(fl'[c]) : i + 1 \in 1 .. Len(fl[c]) /\ fl'[c][i] = fl[c][i + 1]
  BY <1>1, <1>2
<1>4. \A i \in 1 .. Len(fl[c]) : i # 1 => i - 1 \in 1 .. Len(fl'[c]) /\ fl'[c][i - 1] = fl[c][i]
  BY <1>1, <1>2
<1>5. \A d \in Classes : d # c => fl'[d] = fl[d]
  BY <1>2
<1>6. \A d \in Classes : \A i \in 1 .. Len(fl'[d]) : fl'[d][i] # b
  BY <1>1, <1>3, <1>5 DEF Partition
<1>7. \A x : Cached(x) <=> Cached(x)' \/ x = b
  <2>1. \A d \in Classes : \A i \in 1 .. Len(fl'[d]) :
          \E j \in 1 .. Len(fl[d]) : fl'[d][i] = fl[d][j]
    BY <1>3, <1>5
  <2>2. \A d \in Classes : \A i \in 1 .. Len(fl[d]) :
          fl[d][i] # b => \E j \in 1 .. Len(fl'[d]) : fl'[d][j] = fl[d][i]
    <3> TAKE d \in Classes
    <3> TAKE i \in 1 .. Len(fl[d])
    <3> HAVE fl[d][i] # b
    <3>1. CASE d = c
      BY <1>3, <1>4, <3>1
    <3>2. CASE d # c
      BY <1>5, <3>2
    <3> QED
      BY <3>1, <3>2
  <2>3. \A x : Cached(x)' => Cached(x)
    BY <2>1 DEF Cached
  <2>4. ASSUME NEW x, Cached(x), x # b PROVE Cached(x)'
    <3>1. PICK d \in Classes : \E i \in 1 .. Len(fl[d]) : fl[d][i] = x
      BY <2>4 DEF Cached
    <3>2. PICK i \in 1 .. Len(fl[d]) : fl[d][i] = x
      BY <3>1
    <3>3. \E j \in 1 .. Len(fl'[d]) : fl'[d][j] = x
      BY <2>2, <2>4, <3>2
    <3> QED
      BY <3>3 DEF Cached
  <2>5. Cached(b)
    BY <1>3 DEF Cached
  <2> QED
    BY <2>3, <2>4, <2>5
<1>8. \A x \in Block : mem'[x] # 0 <=> x \in heap' \/ Cached(x)'
  BY <1>7 DEF Partition
<1>9. \A d \in Classes : \A i \in 1 .. Len(fl'[d]) : fl'[d][i] \notin heap'
  BY <1>3, <1>5, <1>6 DEF Partition
<1>10. \A d \in Classes : Len(fl'[d]) <= FlMax
  BY <1>1, <1>3, <1>5, GcAssumption DEF Partition
<1>11. ASSUME NEW d \in Classes, NEW e \in Classes, NEW i \in 1 .. Len(fl'[d]),
              NEW j \in 1 .. Len(fl'[e]), fl'[d][i] = fl'[e][j]
       PROVE  d = e /\ i = j
  BY <1>3, <1>5, <1>11 DEF Partition
<1> QED
  BY <1>8, <1>9, <1>10, <1>11 DEF Partition

(***************************************************************************)
(* The allocator as a whole.                                               *)
(***************************************************************************)
Accounts ==
  /\ heap_bytes = SumOver(size, heap)
  /\ heap_bytes <= peak_heap_bytes /\ 0 <= peak_heap_bytes
  /\ \A b \in heap : heap_lo <= b /\ b < heap_hi

AllocInv == TypeInv /\ Partition /\ Accounts

LEMMA AccountsAreAccounted ==
  Accounts => BytesAccounted /\ BoundsCoverHeap
<1>1. SumOver(size, heap) = MapThenSumSet(LAMBDA b : size[b], heap)
  BY DEF SumOver
<1> QED
  BY <1>1 DEF Accounts, BytesAccounted, BoundsCoverHeap

LEMMA InitAlloc == Init => AllocInv
<1> SUFFICES ASSUME Init PROVE AllocInv
  OBVIOUS
<1>1. TypeInv
  BY InitType
<1>2. Partition
  BY GcAssumption DEF Init, Partition, Cached
<1>3. SumOver(size, heap) = 0
  BY SumEmpty DEF Init
<1>4. Accounts
  BY <1>3 DEF Init, Accounts
<1> QED
  BY <1>1, <1>2, <1>4 DEF AllocInv

LEMMA SameBlocks ==
  ASSUME AllocInv, UNCHANGED blockVars
  PROVE  Partition' /\ Accounts'
<1>1. Partition'
  BY DEF AllocInv, blockVars, Partition, Cached
<1>2. heap_bytes' = heap_bytes /\ size' = size /\ heap' = heap
      /\ peak_heap_bytes' = peak_heap_bytes /\ heap_lo' = heap_lo /\ heap_hi' = heap_hi
  BY DEF blockVars
<1>3. SumOver(size', heap') = SumOver(size, heap)
  BY <1>2
<1>4. Accounts'
  BY <1>2, <1>3 DEF AllocInv, Accounts
<1> QED
  BY <1>1, <1>4

LEMMA InstallAccounts ==
  ASSUME AllocInv, phase \in {"place", "retry"}, NEW b \in Block, b \notin heap,
         NEW s \in Slot, Install(b, s)
  PROVE  Accounts'
<1> DEFINE total == TotalOf(req)
<1>1. /\ size \in [Block -> Nat] /\ heap_bytes \in Int /\ peak_heap_bytes \in Int
      /\ heap_lo \in Int /\ heap_hi \in Int /\ heap \subseteq Block /\ total \in Nat
      /\ IsFiniteSet(heap) /\ heap \subseteq Int
  BY Sizes, HeapIsFinite DEF AllocInv, TypeInv, TypeOK, Phases
<1> HIDE DEF total
<1>2. heap' = heap \cup {b} /\ size' = [size EXCEPT ![b] = total]
      /\ heap_bytes' = heap_bytes + total
      /\ peak_heap_bytes' = Max({peak_heap_bytes, heap_bytes + total})
  BY DEF Install, total
<1>3. SumOver(size', heap') = SumOver(size, heap) + size'[b]
  <2>1. OneMore(size, heap, size', heap', b)
    BY <1>1, <1>2 DEF OneMore
  <2> QED
    BY <2>1, SumAdd
<1>4. SumOver(size', heap') = heap_bytes'
  <2>1. size'[b] = total
    BY <1>1, <1>2
  <2> QED
    BY <1>2, <1>3, <2>1 DEF AllocInv, Accounts
<1>5. heap_bytes' <= peak_heap_bytes' /\ 0 <= peak_heap_bytes'
  <2>1. heap_bytes + total \in Int
    BY <1>1
  <2>2. peak_heap_bytes' \in Int /\ peak_heap_bytes <= peak_heap_bytes'
        /\ heap_bytes' <= peak_heap_bytes'
    BY <1>1, <1>2, <2>1, MaxOfTwo
  <2> QED
    BY <1>1, <2>2 DEF AllocInv, Accounts
<1>6. \A x \in heap' : heap_lo' <= x /\ x < heap_hi'
  <2>1. b \in Int /\ b + 1 \in Int
    BY GcAssumption
  <2>2. heap_lo' = Min({heap_lo, b}) /\ heap_hi' = Max({heap_hi, b + 1})
    BY DEF Install, Widen
  <2>3. heap_lo' \in Int /\ heap_lo' <= heap_lo /\ heap_lo' <= b
    BY <1>1, <2>1, <2>2, MinOfTwo
  <2>4. heap_hi' \in Int /\ heap_hi <= heap_hi' /\ b + 1 <= heap_hi'
    BY <1>1, <2>1, <2>2, MaxOfTwo
  <2>5. \A x \in heap : heap_lo <= x /\ x < heap_hi
    BY DEF AllocInv, Accounts
  <2>6. \A x \in heap : heap_lo' <= x /\ x < heap_hi'
    BY <1>1, <2>3, <2>4, <2>5
  <2> QED
    BY <1>2, <2>1, <2>3, <2>4, <2>6
<1> QED
  BY <1>4, <1>5, <1>6 DEF Accounts

LEMMA SweepAccounts ==
  ASSUME AllocInv, NEW b \in Block, SweepDead(b)
  PROVE  Accounts'
<1>1. /\ size \in [Block -> Nat] /\ heap_bytes \in Int /\ peak_heap_bytes \in Int
      /\ IsFiniteSet(heap) /\ heap \subseteq Block
  BY HeapIsFinite DEF AllocInv, TypeInv, TypeOK
<1>2. /\ b \in heap /\ heap' = heap \ {b} /\ size' = size
      /\ heap_bytes' = heap_bytes - size[b]
      /\ UNCHANGED <<peak_heap_bytes, heap_lo, heap_hi>>
  BY DEF SweepDead, Uncount
<1>3. SumOver(size, heap) = size[b] + SumOver(size, heap \ {b})
      /\ SumOver(size, heap \ {b}) \in Int
  <2>1. \A x \in heap : size[x] \in Int
    BY <1>1
  <2>2. PICK x \in heap : x = b
    BY <1>2
  <2> QED
    BY <1>1, <2>1, <2>2, SumRemove
<1>4. SumOver(size', heap') = SumOver(size, heap \ {b})
  BY <1>2
<1>5. heap_bytes' = SumOver(size', heap')
  BY <1>1, <1>2, <1>3, <1>4 DEF AllocInv, Accounts
<1>6. heap_bytes' <= peak_heap_bytes' /\ 0 <= peak_heap_bytes'
  BY <1>1, <1>2 DEF AllocInv, Accounts
<1>7. \A x \in heap' : heap_lo' <= x /\ x < heap_hi'
  BY <1>2 DEF AllocInv, Accounts
<1> QED
  BY <1>5, <1>6, <1>7 DEF Accounts

LEMMA EndSweepAccounts ==
  ASSUME AllocInv, EndSweep
  PROVE  Accounts'
<1>1. heap \subseteq Nat /\ heap \subseteq Int /\ IsFiniteSet(heap)
  BY HeapIsFinite DEF AllocInv
<1>2. UNCHANGED <<heap, size, heap_bytes, peak_heap_bytes>>
  BY DEF EndSweep
<1>3. SumOver(size', heap') = SumOver(size, heap)
  BY <1>2
<1>4. \A x \in heap : heap_lo' <= x /\ x < heap_hi'
  <2> SUFFICES ASSUME heap # {} PROVE \A x \in heap : heap_lo' <= x /\ x < heap_hi'
    OBVIOUS
  <2>1. Min(heap) \in heap /\ \A x \in heap : Min(heap) <= x
    BY <1>1, MinOf
  <2>2. Max(heap) \in heap /\ \A x \in heap : x <= Max(heap)
    BY <1>1, MaxOf
  <2>3. heap_lo' = Min(heap) /\ heap_hi' = Max(heap) + 1
    BY DEF EndSweep
  <2>4. Min(heap) \in Int /\ Max(heap) \in Int
    BY <1>1, <2>1, <2>2
  <2> QED
    BY <1>1, <2>1, <2>2, <2>3, <2>4
<1> QED
  BY <1>2, <1>3, <1>4 DEF AllocInv, Accounts

LEMMA ShutdownAlloc ==
  ASSUME AllocInv, NEW th \in Thread, Shutdown(th)
  PROVE  Partition' /\ Accounts'
<1>1. heap' = {} /\ heap_bytes' = 0 /\ fl' = [c \in Classes |-> << >>]
      /\ peak_heap_bytes' = peak_heap_bytes /\ size' = size
  BY DEF Shutdown
<1>2. ASSUME NEW b \in Block PROVE mem'[b] = 0
  <2>1. mem'[b] = IF b \in heap \/ \E c \in Classes : \E i \in DOMAIN fl[c] : fl[c][i] = b
                  THEN 0 ELSE mem[b]
    BY DEF Shutdown
  <2>2. mem[b] # 0 => b \in heap \/ Cached(b)
    BY DEF AllocInv, Partition
  <2>3. Cached(b) => \E c \in Classes : \E i \in DOMAIN fl[c] : fl[c][i] = b
    BY FreeListDomains DEF Cached, AllocInv
  <2> QED
    BY <2>1, <2>2, <2>3
<1>3. Partition'
  <2>1. \A c \in Classes : fl'[c] = << >> /\ Len(fl'[c]) = 0 /\ 1 .. Len(fl'[c]) = {}
    BY <1>1
  <2>2. \A x : ~ Cached(x)'
    BY <2>1 DEF Cached
  <2>3. \A c \in Classes : Len(fl'[c]) <= FlMax
    BY <2>1, GcAssumption
  <2> QED
    BY <1>1, <1>2, <2>1, <2>2, <2>3 DEF Partition
<1>4. SumOver(size', heap') = 0
  BY <1>1, SumEmpty
<1>5. 0 <= peak_heap_bytes
  BY DEF AllocInv, Accounts
<1> QED
  BY <1>1, <1>3, <1>4, <1>5 DEF Accounts

LEMMA AllocNext == AllocInv /\ [Next]_vars => AllocInv'
<1> SUFFICES ASSUME AllocInv, [Next]_vars PROVE Partition' /\ Accounts'
  BY TypeNext DEF AllocInv
<1>1. TypeInv /\ Partition /\ heap \subseteq Block
  BY DEF AllocInv, TypeInv, TypeOK
<1>2. ASSUME NEW th \in Thread, ProgramStep(th) PROVE UNCHANGED blockVars
  BY <1>2 DEF ProgramStep, Clear, Load, Store, SetGlobal, GetGlobal,
              RegisterGlobal, blockVars
<1>3. ASSUME NEW th \in Thread, Enter(th) PROVE Partition' /\ Accounts'
  <2>1. UNCHANGED blockVars \/ Shutdown(th)
    BY <1>3 DEF Enter, Collect, AllocCollect, AllocDirect
  <2> QED
    BY <2>1, SameBlocks, ShutdownAlloc
<1>4. ASSUME NEW b \in Block, SweepDead(b) PROVE Partition' /\ Accounts'
  <2>1. b \in heap /\ heap' = heap \ {b} /\ Release(b)
    BY <1>4 DEF SweepDead
  <2> QED
    BY <1>1, <1>4, <2>1, ReleasePartition, SweepAccounts
<1>5. ASSUME EndSweep PROVE Partition' /\ Accounts'
  <2>1. UNCHANGED <<mem, heap, fl>>
    BY <1>5 DEF EndSweep
  <2>2. Partition'
    BY <1>1, <2>1 DEF Partition, Cached
  <2> QED
    BY <1>5, <2>2, EndSweepAccounts
<1>6. ASSUME NEW s \in Slot, AllocReuse(s) PROVE Partition' /\ Accounts'
  <2>1. PICK c \in Classes, b \in Block :
          /\ fl[c] # << >> /\ b = Head(fl[c]) /\ Install(b, s)
          /\ fl' = [fl EXCEPT ![c] = Tail(fl[c])]
    BY <1>1, <1>6, ReuseCases
  <2>2. b \notin heap
    <3>1. 1 \in 1 .. Len(fl[c]) /\ fl[c][1] = b
      BY <1>1, <2>1, FreeListDomains
    <3> QED
      BY <1>1, <3>1 DEF Partition
  <2>3. heap' = heap \cup {b} /\ mem' = mem /\ phase = "place"
    BY <1>6, <2>1 DEF AllocReuse, Install
  <2> QED
    BY <1>1, <2>1, <2>2, <2>3, ReusePartition, InstallAccounts
<1>7. ASSUME NEW b \in Block, NEW s \in Slot, AllocMalloc(b, s)
      PROVE  Partition' /\ Accounts'
  <2>1. /\ Install(b, s) /\ phase \in {"place", "retry"} /\ fl' = fl /\ mem[b] = 0
        /\ mem' = [mem EXCEPT ![b] = TotalOf(req)] /\ heap' = heap \cup {b}
    BY <1>7 DEF AllocMalloc, Install
  <2>2. b \notin heap /\ ~ Cached(b)
    BY <1>1, <2>1 DEF Partition
  <2>3. TotalOf(req) # 0 /\ mem \in [Block -> Nat]
    BY <1>1, <2>1, Sizes DEF TypeInv, TypeOK, Phases
  <2>4. Partition'
    BY <1>1, <2>1, <2>2, <2>3 DEF Partition, Cached
  <2> QED
    BY <2>1, <2>2, <2>4, InstallAccounts
<1>8. ASSUME \/ \E b \in Block : Mark(b) \/ SweepLive(b)
             \/ EndMark \/ AllocExit
             \/ \E ths \in SUBSET Thread : AllocOom(ths)
      PROVE  UNCHANGED blockVars
  BY <1>8 DEF Mark, SweepLive, EndMark, AllocExit, AllocOom, blockVars
<1>9. UNCHANGED vars => UNCHANGED blockVars
  BY DEF vars, blockVars
<1>10. CASE CollectorStep
  BY <1>4, <1>5, <1>6, <1>7, <1>8, <1>10, SameBlocks DEF CollectorStep
<1> QED
  BY <1>2, <1>3, <1>9, <1>10, SameBlocks DEF Next

(* The allocator is consistent, whatever threads allocate, collect and shut *)
(* down in whatever order, and whenever malloc fails: no block is lost or   *)
(* handed out twice, no free list exceeds its bound, heap_bytes is the size *)
(* of what is on the heap list, and the bounding box excludes no object.    *)
THEOREM AllocatorStaysConsistent == Spec => []AllocatorConsistent
<1>1. AllocInv => AllocatorConsistent
  BY PartitionIsPartitioned, AccountsAreAccounted
     DEF AllocInv, AllocatorConsistent, TypeInv
<1> QED
  BY <1>1, InitAlloc, AllocNext, PTL DEF Spec

(***************************************************************************)
(* Marking, for a program of one thread that keeps base pointers, and no   *)
(* objects of the two tags mark_internal does not follow as compiled code  *)
(* fills them (see PointerFields).                                         *)
(***************************************************************************)
Sequential == Thread = {Main} /\ ~ Interior
              /\ \A r \in Request : r.tag \notin {"BOXED", "TASK"}

BasePointer == (Block \X {"base"}) \cup {NULL}

(* A block on the heap list that the roots, or another block, refer to. *)
Rooted(x) ==
  /\ x \in heap
  /\ \/ \E th \in Thread, s \in Slot : stack[th][s] = <<x, "base">>
     \/ \E g \in roots : global[g] = <<x, "base">>
Points(b, x) ==
  x \in heap /\ \E i \in PointerFields(tag[b]) : field[b][i] = <<x, "base">>

Closed(S) ==
  /\ \A x \in Block : Rooted(x) => x \in S
  /\ \A b \in S, x \in Block : Points(b, x) => x \in S

(* What is reachable survives; what is found is reachable. *)
BasePointers ==
  /\ stack \in [Thread -> [Slot -> BasePointer]]
  /\ global \in [Global -> BasePointer]
  /\ field \in [Block -> [Field -> BasePointer]]
PlainTags == \A b \in heap : tag[b] \notin {"BOXED", "TASK"}
Marking ==
  /\ \A x \in Block : Rooted(x) => x \in gray \cup marked
  /\ \A b \in marked, x \in Block : Points(b, x) => x \in gray \cup marked
  /\ \A S \in SUBSET heap : Closed(S) => gray \cup marked \subseteq S
Sweeping == \A S \in SUBSET Surviving : Closed(S) => Surviving \subseteq S

MarkInv ==
  /\ BasePointers /\ PlainTags /\ Closed(Surviving)
  /\ phase = "mark" => Marking
  /\ phase = "sweep" => Sweeping

LEMMA PointerFieldsAreFields == \A t : PointerFields(t) \subseteq Field
BY DEF PointerFields, Field

LEMMA NullIsNoPointer == \A x \in Block : NULL # <<x, "base">>
BY GcAssumption

LEMMA TracedArePointerFields ==
  \A t \in Tag : t \notin {"BOXED", "TASK"} => Traced(t) = PointerFields(t)
BY DEF Tag, Traced, PointerFields

LEMMA SurvivingType == TypeInv => Surviving \subseteq heap /\ heap \subseteq Block
BY DEF TypeInv, TypeOK, Phases, Surviving

LEMMA InitMark == Init => MarkInv
<1> SUFFICES ASSUME Init PROVE MarkInv
  OBVIOUS
<1> USE DEF Init
<1>1. BasePointers
  BY DEF BasePointers, BasePointer
<1>2. PlainTags /\ Surviving = {}
  BY DEF PlainTags, Surviving
<1>3. \A x \in Block : ~ Rooted(x)
  BY NullIsNoPointer DEF Rooted
<1> QED
  BY <1>1, <1>2, <1>3 DEF MarkInv, Closed

(* Steps that leave pointers and tags alone, and what survives. *)
LEMMA SamePointers ==
  ASSUME UNCHANGED <<heap, stack, global, roots, field, tag>>
  PROVE  /\ \A x : Rooted(x)' <=> Rooted(x)
         /\ \A b, x : Points(b, x)' <=> Points(b, x)
BY DEF Rooted, Points

LEMMA HeapIsClosed == Closed(heap)
BY DEF Closed, Rooted, Points

LEMMA ProgramMark ==
  ASSUME TypeInv, MarkInv, NEW th \in Thread, Sequential, ProgramStep(th)
  PROVE  MarkInv'
<1>1. /\ BasePointers /\ PlainTags /\ phase \notin {"mark", "sweep"} /\ ~ Interior
  <2>1. holder # th /\ phase # "exit"
    BY DEF ProgramStep, Clear, Load, Store, SetGlobal, GetGlobal,
           RegisterGlobal, Running
  <2>2. phase = "mutate"
    BY <2>1 DEF TypeInv, TypeOK, Sequential
  <2> QED
    BY <2>2 DEF MarkInv, Sequential
<1>2. UNCHANGED <<phase, heap, tag, marked, swept>>
  BY DEF ProgramStep, Clear, Load, Store, SetGlobal, GetGlobal,
         RegisterGlobal, blockVars, gcVars
<1>3. ASSUME BasePointers' PROVE MarkInv'
  <2>1. PlainTags' /\ Surviving' = heap' /\ phase' \notin {"mark", "sweep"}
    BY <1>1, <1>2 DEF PlainTags, Surviving
  <2>2. Closed(heap)'
    BY HeapIsClosed, PTL
  <2> QED
    BY <1>3, <2>1, <2>2 DEF MarkInv, Closed, Rooted, Points
<1> SUFFICES BasePointers'
  BY <1>3
<1> USE DEF BasePointers, BasePointer, SetSlot
<1>5. ASSUME NEW s \in Slot, Clear(th, s) PROVE BasePointers'
  BY <1>1, <1>5 DEF Clear, Remains
<1>6. ASSUME NEW s \in Slot, NEW d \in Slot, NEW i \in Field, Load(th, s, i, d)
      PROVE  BasePointers'
  <2> DEFINE b == stack[th][s][1]
  <2>1. b \in Block
    BY <1>6 DEF Load, IsObject, TypeInv, TypeOK
  <2>2. stack' = [stack EXCEPT ![th][d] = field[b][i]] /\ UNCHANGED <<global, field>>
    BY <1>6 DEF Load
  <2> HIDE DEF b
  <2>3. field[b][i] \in BasePointer
    BY <1>1, <2>1
  <2> QED
    BY <1>1, <2>2, <2>3
<1>7. ASSUME NEW s \in Slot, NEW d \in Slot, NEW i \in Field, Store(th, s, i, d)
      PROVE  BasePointers'
  <2> DEFINE b == stack[th][s][1]
  <2>1. b \in Block
    BY <1>7 DEF Store, IsObject, TypeInv, TypeOK
  <2>2. field' = [field EXCEPT ![b][i] = stack[th][d]] /\ UNCHANGED <<stack, global>>
    BY <1>7 DEF Store, progVars
  <2> HIDE DEF b
  <2> QED
    BY <1>1, <2>1, <2>2
<1>8. ASSUME NEW g \in Global, NEW s \in Slot, SetGlobal(th, g, s) PROVE BasePointers'
  BY <1>1, <1>8 DEF SetGlobal
<1>9. ASSUME NEW g \in Global, NEW s \in Slot, GetGlobal(th, g, s) PROVE BasePointers'
  BY <1>1, <1>9 DEF GetGlobal
<1>10. ASSUME NEW g \in Global, RegisterGlobal(th, g) PROVE BasePointers'
  BY <1>1, <1>10 DEF RegisterGlobal
<1> QED
  BY <1>5, <1>6, <1>7, <1>8, <1>9, <1>10 DEF ProgramStep

(* Whoever begins to mark is Main, whose stack is all there is to scan. *)
LEMMA BeginMarks ==
  ASSUME TypeInv, MarkInv, Sequential, NEW th \in Thread, NEW ths \in SUBSET Thread,
         BeginMark(th, ths), phase \notin {"mark", "sweep"},
         UNCHANGED <<heap, stack, global, roots, field, tag>>
  PROVE  MarkInv'
<1>1. phase' = "mark" /\ marked' = {} /\ ths = Thread
      /\ gray' = Found(RootWords(Thread), "base")
  BY DEF BeginMark, Sequential, TypeInv, TypeOK
<1>2. \A x : x \in gray' <=> x \in heap /\ Rooted(x)
  <2>1. \A x \in heap : <<x, "base">> \in RootWords(Thread) <=> Rooted(x)
    BY DEF RootWords, StackOf, Rooted
  <2> QED
    BY <1>1, <2>1 DEF Found, Rooted
<1>3. Surviving = heap /\ Surviving' = heap /\ Closed(heap)
  BY <1>1 DEF Surviving, MarkInv
<1>4. (\A x : Rooted(x)' <=> Rooted(x)) /\ (\A b, x : Points(b, x)' <=> Points(b, x))
  BY SamePointers
<1>5. \A S : Closed(S)' <=> Closed(S)
  BY <1>4 DEF Closed
<1>6. Marking'
  <2>1. \A x \in Block : Rooted(x)' => x \in gray' \cup marked'
    BY <1>2, <1>3, <1>4 DEF Closed
  <2>2. \A S \in SUBSET heap : Closed(S) => gray' \subseteq S
    BY <1>2, SurvivingType DEF Closed
  <2> QED
    BY <1>1, <1>5, <2>1, <2>2 DEF Marking
<1>7. BasePointers' /\ PlainTags' /\ Closed(Surviving)'
  BY <1>3, <1>5 DEF MarkInv, BasePointers, PlainTags
<1> QED
  BY <1>1, <1>6, <1>7 DEF MarkInv

(* Steps outside mark and sweep that leave pointers and the heap alone. *)
LEMMA IdleMark ==
  ASSUME MarkInv, phase \notin {"mark", "sweep"}, phase' \notin {"mark", "sweep"},
         UNCHANGED <<heap, stack, global, roots, field, tag>>
  PROVE  MarkInv'
<1>1. Surviving = heap /\ Surviving' = heap
  BY DEF Surviving
<1>2. (\A x : Rooted(x)' <=> Rooted(x)) /\ (\A b, x : Points(b, x)' <=> Points(b, x))
  BY SamePointers
<1> QED
  BY <1>1, <1>2 DEF MarkInv, BasePointers, PlainTags, Closed

LEMMA EnterMark ==
  ASSUME TypeInv, MarkInv, Sequential, NEW th \in Thread, Enter(th)
  PROVE  MarkInv'
<1> USE DEF blockVars, progVars
<1>1. phase = "mutate"
  BY DEF Enter, Collect, AllocCollect, AllocDirect, Shutdown, TypeInv, TypeOK
<1>2. ASSUME NEW ths \in SUBSET Thread, Collect(th, ths) PROVE MarkInv'
  BY <1>1, <1>2, BeginMarks DEF Collect
<1>3. ASSUME NEW r \in Request, NEW ths \in SUBSET Thread, AllocCollect(th, r, ths)
      PROVE  MarkInv'
  BY <1>1, <1>3, BeginMarks DEF AllocCollect
<1>4. ASSUME NEW r \in Request, AllocDirect(th, r) PROVE MarkInv'
  BY <1>1, <1>4, IdleMark DEF AllocDirect
<1>5. ASSUME Shutdown(th) PROVE MarkInv'
  <2>1. /\ heap' = {} /\ phase' = "mutate" /\ field' = field /\ roots' = roots
        /\ stack' = [x \in Thread |-> [s \in Slot |-> NULL]]
        /\ global' = [g \in Global |-> NULL]
    BY <1>1, <1>5 DEF Shutdown
  <2>2. \A x \in Block : ~ Rooted(x)'
    BY <2>1, NullIsNoPointer DEF Rooted, TypeInv, TypeOK
  <2>3. BasePointers'
    BY <2>1 DEF MarkInv, BasePointers, BasePointer
  <2>4. Surviving' = {} /\ PlainTags'
    BY <2>1 DEF Surviving, PlainTags
  <2>5. Closed(Surviving)'
    BY <2>2, <2>4 DEF Closed
  <2> QED
    BY <2>1, <2>3, <2>4, <2>5 DEF MarkInv
<1> QED
  BY <1>2, <1>3, <1>4, <1>5 DEF Enter

LEMMA InstallMark ==
  ASSUME TypeInv, MarkInv, Sequential, phase \in {"place", "retry"},
         NEW b \in Block, NEW s \in Slot, Install(b, s)
  PROVE  MarkInv'
<1>1. /\ heap' = heap \cup {b} /\ tag' = [tag EXCEPT ![b] = req.tag]
      /\ field' = [field EXCEPT ![b] = [i \in Field |-> NULL]]
      /\ stack' = [stack EXCEPT ![holder][s] = <<b, "base">>]
      /\ phase' = "mutate" /\ UNCHANGED <<global, roots, marked, swept>>
  BY DEF Install, SetSlot
<1>2. /\ req \in Request /\ holder \in Thread /\ tag \in [Block -> Tag]
      /\ heap \subseteq Block /\ roots \subseteq Global
  BY DEF TypeInv, TypeOK, Phases
<1>3. Surviving = heap /\ Surviving' = heap' /\ Closed(heap) /\ BasePointers
  BY <1>1 DEF Surviving, MarkInv
<1>4. \A x \in heap' : x # b => /\ x \in heap /\ tag'[x] = tag[x] /\ field'[x] = field[x]
  BY <1>1, <1>2, <1>3 DEF BasePointers
<1>5. tag'[b] = req.tag /\ field'[b] = [i \in Field |-> NULL]
  BY <1>1, <1>2, <1>3 DEF BasePointers
<1>6. PlainTags'
  BY <1>2, <1>4, <1>5 DEF PlainTags, MarkInv, Sequential
<1>7. BasePointers'
  <2>1. <<b, "base">> \in BasePointer /\ [i \in Field |-> NULL] \in [Field -> BasePointer]
    BY DEF BasePointer
  <2>2. stack' \in [Thread -> [Slot -> BasePointer]]
    BY <1>1, <1>2, <1>3, <2>1 DEF BasePointers
  <2>3. field' \in [Block -> [Field -> BasePointer]]
    BY <1>1, <1>3, <2>1 DEF BasePointers
  <2> QED
    BY <1>1, <1>3, <2>2, <2>3 DEF BasePointers
<1>8. Closed(heap)'
  BY HeapIsClosed, PTL
<1> QED
  BY <1>1, <1>3, <1>6, <1>7, <1>8 DEF MarkInv, Closed, Rooted, Points

LEMMA MarkMarks ==
  ASSUME TypeInv, MarkInv, NEW b \in Block, Mark(b)
  PROVE  MarkInv'
<1> DEFINE P == {field[b][i] : i \in Traced(tag[b])}
<1>1. /\ phase = "mark" /\ phase' = "mark" /\ b \in gray /\ b \in heap
      /\ marked' = marked \cup {b} /\ gray' = (gray \cup Found(P, "base")) \ marked'
      /\ UNCHANGED <<heap, stack, global, roots, field, tag, swept>>
  BY DEF Mark, blockVars, progVars, TypeInv, Phases
<1>2. Marking /\ BasePointers /\ PlainTags /\ Closed(heap) /\ Surviving = heap
      /\ Surviving' = heap /\ heap \subseteq Block
  BY <1>1 DEF MarkInv, Surviving, TypeInv, TypeOK
<1>3. \A x : x \in Found(P, "base") <=> x \in heap /\ Points(b, x)
  <2>1. tag[b] \in Tag /\ tag[b] \notin {"BOXED", "TASK"}
    BY <1>1, <1>2 DEF PlainTags, TypeInv, TypeOK
  <2>2. Traced(tag[b]) = PointerFields(tag[b])
    BY <2>1, TracedArePointerFields
  <2> QED
    BY <2>2 DEF Found, Points
<1>4. (\A x : Rooted(x)' <=> Rooted(x)) /\ (\A c, x : Points(c, x)' <=> Points(c, x))
  BY <1>1, SamePointers
<1>5. \A S : Closed(S)' <=> Closed(S)
  BY <1>4 DEF Closed
<1> HIDE DEF P
<1>6. \A x : x \in gray' \cup marked' <=>
             x \in gray \cup marked \/ (x \in heap /\ Points(b, x))
  BY <1>1, <1>3
<1>7. Marking'
  <2>1. \A x \in Block : Rooted(x)' => x \in gray' \cup marked'
    BY <1>2, <1>4, <1>6 DEF Marking
  <2>2. \A c \in marked', x \in Block : Points(c, x)' => x \in gray' \cup marked'
    <3> SUFFICES ASSUME NEW c \in marked', NEW x \in Block, Points(c, x)
                 PROVE  x \in gray' \cup marked'
      BY <1>4
    <3>1. CASE c = b
      BY <1>1, <1>2, <1>6, <3>1 DEF Closed
    <3>2. CASE c \in marked
      BY <1>2, <1>6, <3>2 DEF Marking
    <3> QED
      BY <1>1, <3>1, <3>2
  <2>3. ASSUME NEW S \in SUBSET heap, Closed(S) PROVE gray' \cup marked' \subseteq S
    <3>1. gray \cup marked \subseteq S
      BY <1>2, <2>3 DEF Marking
    <3>2. \A x \in heap : Points(b, x) => x \in S
      BY <1>1, <1>2, <2>3, <3>1 DEF Closed
    <3> QED
      BY <1>6, <3>1, <3>2
  <2> QED
    BY <1>1, <1>5, <2>1, <2>2, <2>3 DEF Marking
<1> QED
  BY <1>1, <1>2, <1>5, <1>7 DEF MarkInv, BasePointers, PlainTags

LEMMA EndMarkMarks ==
  ASSUME TypeInv, MarkInv, EndMark
  PROVE  MarkInv'
<1>1. /\ phase = "mark" /\ phase' = "sweep" /\ gray = {} /\ swept = {}
      /\ UNCHANGED <<heap, stack, global, roots, field, tag, marked, swept>>
  BY DEF EndMark, blockVars, progVars, TypeInv, TypeOK
<1>2. Marking /\ BasePointers /\ PlainTags /\ Surviving' = marked /\ marked \subseteq heap
  BY <1>1 DEF MarkInv, Surviving, TypeInv, Phases
<1>3. (\A x : Rooted(x)' <=> Rooted(x)) /\ (\A c, x : Points(c, x)' <=> Points(c, x))
  BY <1>1, SamePointers
<1>4. \A S : Closed(S)' <=> Closed(S)
  BY <1>3 DEF Closed
<1>5. Closed(marked) /\ \A S \in SUBSET marked : Closed(S) => marked \subseteq S
  BY <1>1, <1>2 DEF Marking, Closed
<1> QED
  BY <1>1, <1>2, <1>4, <1>5 DEF MarkInv, Sweeping, BasePointers, PlainTags

(* Sweeping moves survivors, and frees blocks that are not among them. *)
LEMMA SweepMarks ==
  ASSUME TypeInv, MarkInv, phase = "sweep", phase' \in {"sweep", "mutate", "place", "retry"},
         heap' \subseteq heap, Surviving \subseteq heap', Surviving' = Surviving,
         UNCHANGED <<stack, global, roots, field, tag>>
  PROVE  MarkInv'
<1>1. Surviving \subseteq heap' /\ heap' \subseteq heap /\ heap \subseteq Block
  BY SurvivingType
<1>2. (\A x : Rooted(x)' <=> x \in heap' /\ Rooted(x))
      /\ (\A c, x : Points(c, x)' <=> x \in heap' /\ Points(c, x))
  BY DEF Rooted, Points
<1>3. ASSUME NEW S \in SUBSET Surviving PROVE Closed(S)' <=> Closed(S)
  <2>1. /\ \A x \in Block : Rooted(x) => x \in heap'
        /\ \A c \in S, x \in Block : Points(c, x) => x \in heap'
    BY <1>1, <1>3 DEF MarkInv, Closed
  <2> QED
    BY <1>2, <2>1 DEF Closed
<1>4. PlainTags' /\ BasePointers'
  BY DEF MarkInv, PlainTags, BasePointers
<1>5. Closed(Surviving)' /\ (phase' = "sweep" => Sweeping')
  <2>1. Closed(Surviving)'
    BY <1>2 DEF MarkInv, Closed
  <2> QED
    BY <1>3, <2>1 DEF MarkInv, Sweeping
<1> QED
  BY <1>4, <1>5 DEF MarkInv

LEMMA CollectorMark ==
  ASSUME TypeInv, MarkInv, Sequential, CollectorStep
  PROVE  MarkInv'
<1> USE DEF blockVars, progVars
<1>1. ASSUME NEW b \in Block, Mark(b) PROVE MarkInv'
  BY <1>1, MarkMarks
<1>2. ASSUME NEW b \in Block, SweepLive(b) PROVE MarkInv'
  <2>1. phase = "sweep" /\ phase' = "sweep" /\ Surviving' = Surviving
        /\ Surviving \subseteq heap
    BY <1>2, SurvivingType DEF SweepLive, Surviving
  <2>2. UNCHANGED <<heap, stack, global, roots, field, tag>>
    BY <1>2 DEF SweepLive
  <2> QED
    BY <2>1, <2>2, SweepMarks
<1>3. ASSUME NEW b \in Block, SweepDead(b) PROVE MarkInv'
  <2>1. phase = "sweep" /\ phase' = "sweep" /\ Surviving' = Surviving
        /\ Surviving \subseteq heap'
    BY <1>3, SurvivingType DEF SweepDead, Surviving
  <2>2. heap' \subseteq heap /\ UNCHANGED <<stack, global, roots, field, tag>>
    BY <1>3 DEF SweepDead
  <2> QED
    BY <2>1, <2>2, SweepMarks
<1>4. ASSUME EndMark PROVE MarkInv'
  BY <1>4, EndMarkMarks
<1>5. ASSUME EndSweep PROVE MarkInv'
  <2>1. phase = "sweep" /\ phase' \in {"mutate", "place", "retry"}
        /\ UNCHANGED <<heap, stack, global, roots, field, tag>> /\ heap = swept
    BY <1>5 DEF EndSweep
  <2>2. Surviving = heap /\ Surviving' = heap
    BY <2>1 DEF Surviving, TypeInv, Phases
  <2> QED
    BY <2>1, <2>2, SweepMarks
<1>6. ASSUME NEW s \in Slot, AllocReuse(s) PROVE MarkInv'
  <2>1. PICK c \in Classes, b \in Block : Install(b, s)
    BY <1>6, ReuseCases
  <2>2. phase = "place"
    BY <1>6 DEF AllocReuse
  <2> QED
    BY <2>1, <2>2, InstallMark
<1>7. ASSUME NEW b \in Block, NEW s \in Slot, AllocMalloc(b, s) PROVE MarkInv'
  BY <1>7, InstallMark DEF AllocMalloc
<1>8. ASSUME NEW ths \in SUBSET Thread, AllocOom(ths) PROVE MarkInv'
  <2>1. PICK th \in Thread : th = holder
    BY <1>8 DEF AllocOom, TypeInv, TypeOK
  <2>2. BeginMark(th, ths) /\ phase = "place"
        /\ UNCHANGED <<heap, stack, global, roots, field, tag>>
    BY <1>8, <2>1 DEF AllocOom
  <2> QED
    BY <2>2, BeginMarks
<1>9. ASSUME AllocExit PROVE MarkInv'
  BY <1>9, IdleMark DEF AllocExit
<1> QED
  BY <1>1, <1>2, <1>3, <1>4, <1>5, <1>6, <1>7, <1>8, <1>9 DEF CollectorStep

LEMMA MarkNext == Sequential /\ TypeInv /\ MarkInv /\ [Next]_vars => MarkInv'
<1> SUFFICES ASSUME Sequential, TypeInv, MarkInv, [Next]_vars PROVE MarkInv'
  OBVIOUS
<1>1. CASE UNCHANGED vars
  <2>1. UNCHANGED <<phase, heap, stack, global, roots, field, tag, gray, marked, swept>>
    BY <1>1 DEF vars, blockVars, progVars, gcVars
  <2>2. (\A x : Rooted(x)' <=> Rooted(x)) /\ (\A c, x : Points(c, x)' <=> Points(c, x))
    BY <2>1, SamePointers
  <2>3. \A S : Closed(S)' <=> Closed(S)
    BY <2>2 DEF Closed
  <2>4. Surviving' = Surviving
    BY <2>1 DEF Surviving
  <2> QED
    BY <2>1, <2>2, <2>3, <2>4
       DEF MarkInv, BasePointers, PlainTags, Marking, Sweeping
<1>2. CASE Next
  BY <1>2, ProgramMark, EnterMark, CollectorMark DEF Next
<1> QED
  BY <1>1, <1>2

(***************************************************************************)
(* Pointers are copied between places whose pointers are valid; the sweep  *)
(* frees only blocks nothing that survives refers to, unless a global does *)
(* that is not a root, and then lost says so.                              *)
(***************************************************************************)
LEMMA ProgramValid ==
  ASSUME TypeInv, Sequential, PointersValid, NEW th \in Thread, ProgramStep(th)
  PROVE  PointersValid'
<1>1. phase = "mutate" /\ Surviving = heap
  <2>1. holder # th /\ phase # "exit"
    BY DEF ProgramStep, Clear, Load, Store, SetGlobal, GetGlobal,
           RegisterGlobal, Running
  <2> QED
    BY <2>1 DEF TypeInv, TypeOK, Sequential, Surviving
<1>2. UNCHANGED <<phase, heap, tag>> /\ Surviving' = heap
  BY <1>1 DEF ProgramStep, Clear, Load, Store, SetGlobal, GetGlobal,
         RegisterGlobal, blockVars, gcVars, Surviving
<1>3. /\ stack \in [Thread -> [Slot -> Pointer]] /\ global \in [Global -> Pointer]
      /\ field \in [Block -> [Field -> Pointer]] /\ heap \subseteq Block
  BY DEF TypeInv, TypeOK
<1>4. ASSUME UNCHANGED <<global, field>>, NEW p, Valid(p),
             \A t \in Thread, u \in Slot : stack'[t][u] = stack[t][u] \/ stack'[t][u] = p
      PROVE  PointersValid'
  BY <1>1, <1>2, <1>4 DEF PointersValid, Valid
<1> USE DEF SetSlot
<1>5. ASSUME NEW s \in Slot, Clear(th, s) PROVE PointersValid'
  <2>1. UNCHANGED <<global, field>>
        /\ \A t \in Thread, u \in Slot : stack'[t][u] = stack[t][u] \/ stack'[t][u] = NULL
    BY <1>3, <1>5 DEF Clear, Remains, Sequential
  <2> QED
    BY <1>4, <2>1 DEF Valid
<1>6. ASSUME NEW s \in Slot, NEW d \in Slot, NEW i \in Field, Load(th, s, i, d)
      PROVE  PointersValid'
  <2> DEFINE b == stack[th][s][1]
  <2>1. b \in heap /\ i \in PointerFields(tag[b])
    BY <1>6 DEF Load, IsObject
  <2>2. UNCHANGED <<global, field>> /\ stack' = [stack EXCEPT ![th][d] = field[b][i]]
    BY <1>6 DEF Load
  <2> HIDE DEF b
  <2>3. \A t \in Thread, u \in Slot :
          stack'[t][u] = stack[t][u] \/ stack'[t][u] = field[b][i]
    BY <1>3, <2>2
  <2>4. Valid(field[b][i])
    BY <1>1, <2>1 DEF PointersValid
  <2> QED
    BY <1>4, <2>2, <2>3, <2>4
<1>7. ASSUME NEW s \in Slot, NEW d \in Slot, NEW i \in Field, Store(th, s, i, d)
      PROVE  PointersValid'
  <2> DEFINE b == stack[th][s][1]
  <2>1. b \in Block
    BY <1>3, <1>7 DEF Store, IsObject
  <2>2. UNCHANGED <<stack, global>> /\ field' = [field EXCEPT ![b][i] = stack[th][d]]
    BY <1>7 DEF Store, progVars
  <2> HIDE DEF b
  <2>3. \A c \in Block, j \in Field :
          field'[c][j] = field[c][j] \/ field'[c][j] = stack[th][d]
    BY <1>3, <2>1, <2>2
  <2>4. \A c \in heap : \A j \in PointerFields(tag[c]) : Valid(field'[c][j])
    BY <1>1, <1>3, <2>3, PointerFieldsAreFields DEF PointersValid
  <2> QED
    BY <1>1, <1>2, <2>2, <2>4 DEF PointersValid, Valid
<1>8. ASSUME NEW g \in Global, NEW s \in Slot, SetGlobal(th, g, s) PROVE PointersValid'
  <2>1. UNCHANGED <<stack, field>> /\ global' = [global EXCEPT ![g] = stack[th][s]]
    BY <1>8 DEF SetGlobal
  <2>2. \A h \in Global : global'[h] = global[h] \/ global'[h] = stack[th][s]
    BY <1>3, <2>1
  <2> QED
    BY <1>1, <1>2, <2>1, <2>2 DEF PointersValid, Valid
<1>9. ASSUME NEW g \in Global, NEW s \in Slot, GetGlobal(th, g, s) PROVE PointersValid'
  <2>1. UNCHANGED <<global, field>> /\ stack' = [stack EXCEPT ![th][s] = global[g]]
    BY <1>9 DEF GetGlobal
  <2>2. \A t \in Thread, u \in Slot : stack'[t][u] = stack[t][u] \/ stack'[t][u] = global[g]
    BY <1>3, <2>1
  <2>3. Valid(global[g])
    BY DEF PointersValid
  <2> QED
    BY <1>4, <2>1, <2>2, <2>3
<1>10. ASSUME NEW g \in Global, RegisterGlobal(th, g) PROVE PointersValid'
  BY <1>1, <1>2, <1>10 DEF RegisterGlobal, PointersValid, Valid
<1> QED
  BY <1>5, <1>6, <1>7, <1>8, <1>9, <1>10 DEF ProgramStep

(* Steps that leave pointers and the heap alone, while no less survives. *)
LEMMA StillValid ==
  ASSUME PointersValid, Surviving' \subseteq Surviving,
         UNCHANGED <<heap, stack, global, field, tag>>
  PROVE  PointersValid'
BY DEF PointersValid, Valid

LEMMA EnterValid ==
  ASSUME TypeInv, PointersValid, NEW th \in Thread, Enter(th)
  PROVE  PointersValid'
<1>1. phase = "mutate" /\ Surviving = heap
  BY DEF Enter, Collect, AllocCollect, AllocDirect, Shutdown, TypeInv, TypeOK, Surviving
<1>2. CASE Shutdown(th)
  <2>1. /\ Surviving' = {}
        /\ stack' = [x \in Thread |-> [s \in Slot |-> NULL]]
        /\ global' = [g \in Global |-> NULL]
    BY <1>1, <1>2 DEF Shutdown, Surviving
  <2> QED
    BY <2>1 DEF PointersValid, Valid
<1>3. CASE ~ Shutdown(th)
  <2>1. phase' # "sweep" /\ UNCHANGED <<heap, stack, global, field, tag>>
    BY <1>3 DEF Enter, Collect, AllocCollect, AllocDirect, BeginMark, blockVars, progVars
  <2> QED
    BY <1>1, <2>1, StillValid DEF Surviving
<1> QED
  BY <1>2, <1>3

LEMMA InstallValid ==
  ASSUME TypeInv, PointersValid, phase \in {"place", "retry"},
         NEW b \in Block, NEW s \in Slot, Install(b, s)
  PROVE  PointersValid'
<1>1. /\ heap' = heap \cup {b} /\ tag' = [tag EXCEPT ![b] = req.tag]
      /\ field' = [field EXCEPT ![b] = [i \in Field |-> NULL]]
      /\ stack' = [stack EXCEPT ![holder][s] = <<b, "base">>]
      /\ phase' = "mutate" /\ UNCHANGED global
  BY DEF Install, SetSlot
<1>2. /\ stack \in [Thread -> [Slot -> Pointer]] /\ field \in [Block -> [Field -> Pointer]]
      /\ tag \in [Block -> Tag] /\ heap \subseteq Block
  BY DEF TypeInv, TypeOK
<1>3. Surviving = heap /\ Surviving' = heap'
  BY <1>1 DEF Surviving
<1>4. \A t \in Thread, u \in Slot : Valid(stack[t][u])'
  <2>1. \A t \in Thread, u \in Slot :
          stack'[t][u] = stack[t][u] \/ stack'[t][u] = <<b, "base">>
    BY <1>1, <1>2
  <2> QED
    BY <1>1, <2>1 DEF PointersValid, Valid
<1>5. \A c \in heap' : \A i \in PointerFields(tag'[c]) : Valid(field[c][i])'
  <2>1. \A i \in PointerFields(tag'[b]) : field'[b][i] = NULL
    BY <1>1, <1>2, PointerFieldsAreFields
  <2>2. \A c \in heap : c # b => tag'[c] = tag[c] /\ field'[c] = field[c]
    BY <1>1, <1>2
  <2> QED
    BY <1>1, <1>3, <2>1, <2>2 DEF PointersValid, Valid
<1> QED
  BY <1>1, <1>3, <1>4, <1>5 DEF PointersValid, Valid

LEMMA SweepDeadValid ==
  ASSUME TypeInv, MarkInv, PointersValid, NEW b \in Block, SweepDead(b)
  PROVE  lost' \/ PointersValid'
<1>1. /\ phase = "sweep" /\ heap' = heap \ {b} /\ b \notin Surviving
      /\ lost' = (lost \/ UnregisteredHold(b)) /\ Surviving' = Surviving
      /\ UNCHANGED <<stack, global, field, tag>>
  BY DEF SweepDead, Surviving, progVars
<1>2. /\ BasePointers /\ Closed(Surviving)
      /\ Surviving \subseteq heap /\ heap \subseteq Block
  BY SurvivingType DEF MarkInv
<1>3. \A p \in BasePointer : p = NULL \/ (p[1] \in Block /\ p = <<p[1], "base">>)
  BY DEF BasePointer
<1>4. ASSUME ~ UnregisteredHold(b) PROVE PointersValid'
  <2>1. ASSUME NEW p \in BasePointer, Valid(p), p = NULL \/ p[1] # b PROVE Valid(p)'
    BY <1>1, <2>1 DEF Valid
  <2>2. ASSUME NEW th \in Thread, NEW s \in Slot PROVE Valid(stack[th][s])'
    <3> DEFINE p == stack[th][s]
    <3>1. p \in BasePointer /\ Valid(p)
      BY <1>2 DEF BasePointers, PointersValid
    <3>2. p # NULL => p[1] \in Surviving
      BY <1>2, <1>3, <3>1 DEF Valid, Closed, Rooted
    <3> QED
      BY <1>1, <3>1, <3>2 DEF Valid
  <2>3. ASSUME NEW g \in Global PROVE Valid(global[g])'
    <3> DEFINE p == global[g]
    <3>1. p \in BasePointer /\ Valid(p)
      BY <1>2 DEF BasePointers, PointersValid
    <3>2. CASE g \in roots
      <4>1. p # NULL => p[1] \in Surviving
        BY <1>2, <1>3, <3>1, <3>2 DEF Valid, Closed, Rooted
      <4> QED
        BY <1>1, <3>1, <4>1 DEF Valid
    <3>3. CASE g \notin roots
      BY <1>1, <1>4, <3>1, <3>3 DEF UnregisteredHold, Valid
    <3> QED
      BY <3>2, <3>3
  <2>4. ASSUME NEW c \in Surviving, NEW i \in PointerFields(tag[c]) PROVE Valid(field[c][i])'
    <3> DEFINE p == field[c][i]
    <3>1. p \in BasePointer /\ Valid(p)
      BY <1>2, PointerFieldsAreFields DEF BasePointers, PointersValid
    <3>2. p # NULL => p[1] \in Surviving
      BY <1>2, <1>3, <3>1 DEF Valid, Closed, Points
    <3> QED
      BY <1>1, <3>1, <3>2 DEF Valid
  <2> QED
    BY <1>1, <2>2, <2>3, <2>4 DEF PointersValid
<1> QED
  BY <1>1, <1>4

LEMMA CollectorValid ==
  ASSUME TypeInv, MarkInv, PointersValid, CollectorStep
  PROVE  lost' \/ PointersValid'
<1> USE DEF blockVars, progVars
<1>1. ASSUME NEW b \in Block, Mark(b) PROVE PointersValid'
  BY <1>1, StillValid DEF Mark, Surviving
<1>2. ASSUME NEW b \in Block, SweepLive(b) PROVE PointersValid'
  BY <1>2, StillValid DEF SweepLive, Surviving
<1>3. ASSUME NEW b \in Block, SweepDead(b) PROVE lost' \/ PointersValid'
  BY <1>3, SweepDeadValid
<1>4. ASSUME EndMark PROVE PointersValid'
  <2>1. marked \subseteq heap /\ swept = {} /\ phase = "mark"
    BY <1>4 DEF EndMark, TypeInv, TypeOK, Phases
  <2> QED
    BY <1>4, <2>1, StillValid DEF EndMark, Surviving
<1>5. ASSUME EndSweep PROVE PointersValid'
  <2>1. phase = "sweep" /\ phase' # "sweep" /\ heap = swept
        /\ UNCHANGED <<heap, stack, global, field, tag>>
    BY <1>5 DEF EndSweep
  <2>2. Surviving' = heap /\ heap \subseteq Surviving
    BY <2>1 DEF Surviving
  <2> QED
    BY <2>1, <2>2, StillValid
<1>6. ASSUME NEW s \in Slot, AllocReuse(s) PROVE PointersValid'
  <2>1. PICK c \in Classes, b \in Block : Install(b, s)
    BY <1>6, ReuseCases
  <2> QED
    BY <1>6, <2>1, InstallValid DEF AllocReuse
<1>7. ASSUME NEW b \in Block, NEW s \in Slot, AllocMalloc(b, s) PROVE PointersValid'
  BY <1>7, InstallValid DEF AllocMalloc
<1>8. ASSUME NEW ths \in SUBSET Thread, AllocOom(ths) PROVE PointersValid'
  BY <1>8, StillValid DEF AllocOom, BeginMark, Surviving
<1>9. ASSUME AllocExit PROVE PointersValid'
  BY <1>9, StillValid DEF AllocExit, Surviving
<1> QED
  BY <1>1, <1>2, <1>3, <1>4, <1>5, <1>6, <1>7, <1>8, <1>9 DEF CollectorStep

(* Once something is lost it stays so until the heap is given up. *)
LEMMA LostStays ==
  ASSUME lost, [Next]_vars
  PROVE  lost' \/ \E th \in Thread : Shutdown(th)
<1>1. CASE UNCHANGED vars
  BY <1>1 DEF vars, blockVars
<1>2. CASE CollectorStep
  BY <1>2 DEF CollectorStep, blockVars, Mark, SweepLive, SweepDead, EndMark, EndSweep,
              AllocReuse, AllocMalloc, AllocOom, AllocExit, Install
<1>3. ASSUME NEW th \in Thread, ProgramStep(th) PROVE lost'
  BY <1>3 DEF ProgramStep, blockVars, Clear, Load, Store, SetGlobal, GetGlobal,
              RegisterGlobal
<1>4. ASSUME NEW th \in Thread, Enter(th) PROVE lost' \/ Shutdown(th)
  BY <1>4 DEF Enter, blockVars, Collect, AllocCollect, AllocDirect
<1> QED
  BY <1>1, <1>2, <1>3, <1>4 DEF Next

LEMMA ValidNext ==
  ASSUME Sequential, TypeInv, MarkInv, NoDangling, [Next]_vars
  PROVE  NoDangling'
<1>1. CASE lost
  <2>1. ASSUME NEW th \in Thread, Shutdown(th) PROVE PointersValid'
    <3>1. /\ Surviving' = {}
          /\ stack' = [x \in Thread |-> [s \in Slot |-> NULL]]
          /\ global' = [g \in Global |-> NULL]
      BY <2>1 DEF Shutdown, Surviving, TypeInv, TypeOK
    <3> QED
      BY <3>1 DEF PointersValid, Valid
  <2> QED
    BY <1>1, <2>1, LostStays DEF NoDangling
<1>2. CASE PointersValid /\ UNCHANGED vars
  BY <1>2, StillValid DEF NoDangling, vars, blockVars, progVars, gcVars, Surviving
<1>3. CASE PointersValid /\ Next
  BY <1>3, ProgramValid, EnterValid, CollectorValid DEF Next, NoDangling
<1> QED
  BY <1>1, <1>2, <1>3 DEF NoDangling

LEMMA MarkedAreReachable == TypeInv /\ MarkInv => MarkIsExact
<1> SUFFICES ASSUME TypeInv, MarkInv, phase = "sweep"
             PROVE  Surviving = Reachable
  BY DEF MarkIsExact, Surviving
<1>1. Surviving \subseteq heap /\ heap \subseteq Block
  BY SurvivingType
<1>2. Closed(Surviving) /\ \A S \in SUBSET Surviving : Closed(S) => Surviving \subseteq S
  BY DEF MarkInv, Sweeping
<1>3. \A x : x \in Found(RootPointers, "base") <=> x \in heap /\ Rooted(x)
  BY DEF Found, RootPointers, StackOf, Rooted
<1>4. \A b, x : x \in Found({field[b][i] : i \in PointerFields(tag[b])}, "base")
                <=> x \in heap /\ Points(b, x)
  BY DEF Found, Points
<1> DEFINE Kept(S) == /\ Found(RootPointers, "base") \subseteq S
                      /\ \A x \in S : Found({field[x][i] : i \in PointerFields(tag[x])},
                                            "base") \subseteq S
<1>5. Kept(Surviving)
  BY <1>1, <1>2, <1>3, <1>4 DEF Closed
<1>6. ASSUME NEW S \in SUBSET heap, Kept(S) PROVE Surviving \subseteq S
  <2> DEFINE T == S \cap Surviving
  <2>1. \A x \in Block : Rooted(x) => x \in T
    BY <1>1, <1>2, <1>3, <1>6 DEF Closed
  <2>2. \A b \in T, x \in Block : Points(b, x) => x \in T
    BY <1>1, <1>2, <1>4, <1>6 DEF Closed
  <2>3. Closed(T)
    BY <2>1, <2>2 DEF Closed
  <2> QED
    BY <1>2, <2>3
<1>7. Reachable = {b \in heap : \A S \in SUBSET heap : Kept(S) => b \in S}
  BY DEF Reachable
<1> HIDE DEF Kept
<1>8. \A b \in heap : b \in Surviving <=> \A S \in SUBSET heap : Kept(S) => b \in S
  BY <1>1, <1>5, <1>6
<1> QED
  BY <1>1, <1>7, <1>8

LEMMA MarkInvariant ==
  ASSUME Sequential
  PROVE  Spec => [](TypeInv /\ MarkInv)
<1>1. Init => TypeInv /\ MarkInv
  BY InitType, InitMark
<1>2. TypeInv /\ MarkInv /\ [Next]_vars => (TypeInv /\ MarkInv)'
  BY TypeNext, MarkNext
<1> QED
  BY <1>1, <1>2, PTL DEF Spec

(* In a program of one thread that keeps base pointers and whose objects    *)
(* hold pointers only where mark_internal looks, no pointer that the program*)
(* can follow dangles, at any point of an allocation or a collection, unless*)
(* a collection frees an object that a global refers to which nobody has    *)
(* registered.  Globals are assigned and read whether they are registered   *)
(* or not.                                                                  *)
THEOREM NothingDangles ==
  ASSUME Sequential
  PROVE  Spec => []NoDangling
<1>1. Init => NoDangling
  BY DEF Init, NoDangling, PointersValid, Valid, Surviving
<1>2. TypeInv /\ MarkInv /\ NoDangling /\ [Next]_vars => NoDangling'
  BY ValidNext
<1> QED
  BY <1>1, <1>2, MarkInvariant, PTL DEF Spec

(* In such a program the marked objects are exactly the reachable ones when *)
(* the sweep begins and while it lasts: cycles that are garbage are freed,  *)
(* and nothing else is.                                                     *)
THEOREM MarkingIsExact ==
  ASSUME Sequential
  PROVE  Spec => []MarkIsExact
BY MarkInvariant, MarkedAreReachable, PTL
=============================================================================
