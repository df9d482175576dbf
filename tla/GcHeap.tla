------------------------------ MODULE GcHeap ------------------------------
(***************************************************************************)
(* The mark-and-sweep collector of stdlib/gc.c and the program that        *)
(* allocates from it.                                                      *)
(*                                                                         *)
(* A block is a malloc'ed region that starts with a GCHeader.  A pointer   *)
(* is a pair: <<b, "base">> is the user pointer of b that alloc returned,  *)
(* <<b, "inner">> an address inside b's payload.  Addresses are abstracted *)
(* to the order of the blocks.  The program keeps pointers in the stack    *)
(* slots of its threads, in global variables and in the fields of objects. *)
(* Only registered globals are roots, and compiled code registers none.    *)
(*                                                                         *)
(* gc_lock is held over a whole allocation or collection (it is recursive),*)
(* so at most one thread is inside the collector; holder names it.  Other  *)
(* threads only stop when they allocate, so they take steps while a        *)
(* collection is under way.  With Thread = {Main} nothing is concurrent.   *)
(***************************************************************************)
EXTENDS Integers, Sequences, FiniteSetsExt

CONSTANTS
  Block,           \* the blocks malloc can hand out, ordered by address
  Thread, Main,    \* the threads of the program; gc_init ran in Main
  Slot,            \* stack slots of a thread
  Global,          \* module variables that hold pointers
  MaxGlobalRoots,  \* MAX_GLOBAL_ROOTS
  Request,         \* allocations the program makes, see Requests
  ClassSizes,      \* fl_class_sizes, ascending
  FlMax,           \* FL_MAX_PER_CLASS
  HeaderSize,      \* sizeof(GCHeader)
  MinThreshold,    \* the 1 MB floor of gc_threshold
  Interior,        \* the optimiser may keep just an interior pointer
  NULL

Tag == {"STRING", "LIST", "DICT", "CLOSURE", "OBJECT", "TUPLE", "BOXED",
        "SET", "GENERATOR", "TASK"}

(* object: alloc_object(size, ...) rather than alloc(size, tag). *)
Requests == [tag: Tag, size: Nat, object: BOOLEAN]

ASSUME GcAssumption ==
  /\ Block \subseteq Nat /\ IsFiniteSet(Block)
  /\ NULL \notin Block /\ NULL \notin Block \X {"base", "inner"}
  /\ Main \in Thread /\ NULL \notin Thread
  /\ Request \subseteq Requests /\ NULL \notin Requests
  /\ ClassSizes \in Seq(Nat) /\ FlMax \in Nat
  /\ HeaderSize \in Nat \ {0} /\ MinThreshold \in Nat
  /\ MaxGlobalRoots \in Nat /\ Interior \in BOOLEAN

VARIABLES
  mem,          \* bytes malloc gave for a block, 0 when it is not allocated
  heap,         \* blocks on the list at heap_head
  size,         \* GCHeader.size
  tag,          \* GCHeader.type_tag
  field,        \* pointer words of the payload
  fl,           \* the free list of each size class, its head first
  heap_bytes, gc_threshold, peak_heap_bytes,
  heap_lo, heap_hi,
  lost,         \* history: freed what a global that is not a root refers to
  stack,        \* stack[th][s]: pointer in a stack slot
  global,       \* global[g]: pointer in a global variable
  roots,        \* globals entered in global_roots
  phase,        \* where the holder of gc_lock is, "mutate" if nobody
  holder,       \* thread that holds gc_lock, or NULL
  req,          \* its allocation, or NULL for a plain collect
  oom,          \* the collection was started because malloc failed
  marked,       \* blocks whose header is marked
  gray,         \* found blocks mark_internal has still to be called for
  swept,        \* blocks of the heap list the sweep has passed
  scribbled     \* blocks with a payload byte overwritten by mark_internal

blockVars == <<mem, heap, size, tag, fl, heap_bytes, peak_heap_bytes,
               heap_lo, heap_hi, lost>>
progVars  == <<stack, global, roots>>
gcVars    == <<phase, holder, req, oom, marked, gray, swept, scribbled>>
vars == <<blockVars, field, gc_threshold, progVars, gcVars>>

Field == 1 .. 2
Pointer == (Block \X {"base", "inner"}) \cup {NULL}

(* Fields of an object in which compiled code stores pointers: a box holds *)
(* a captured variable of any type, and the argument array of a go call,   *)
(* which has tag TASK, holds its arguments from the first word on.         *)
PointerFields(t) ==
  CASE t \in {"STRING", "SET"}     -> {}
    [] t \in {"CLOSURE", "BOXED"} -> {1}
    [] OTHER                      -> Field

(* Mutant: a case is missing from the switch. *)
TracedNoClosure(t) ==
  CASE t \in {"STRING", "BOXED", "SET", "CLOSURE"} -> {}
    [] t = "TASK"                                  -> {2}
    [] OTHER                                       -> Field

(* Fields mark_internal follows: only env (the second word) of a TASK. *)
Traced(t) ==
  CASE t \in {"STRING", "BOXED", "SET"} -> {}
    [] t = "CLOSURE"                    -> {1}
    [] t = "TASK"                       -> {2}
    [] OTHER                            -> Field

(***************************************************************************)
(* Size classes and address range.                                         *)
(***************************************************************************)
Classes == DOMAIN ClassSizes

(* fl_class_for: the smallest class that fits, or 0 for none. *)
ClassFor(total) ==
  LET fit == {c \in Classes : total <= ClassSizes[c]} IN
  IF fit = {} THEN 0 ELSE Min(fit)

(* alloc rounds up to the class; alloc_object does not. *)
TotalOf(r) ==
  LET total == HeaderSize + r.size  c == ClassFor(total) IN
  IF r.object \/ c = 0 THEN total ELSE ClassSizes[c]

Limit == IF Block = {} THEN 0 ELSE Max(Block) + 1  \* UINTPTR_MAX

Init ==
  /\ mem = [b \in Block |-> 0] /\ heap = {}
  /\ size = [b \in Block |-> 0] /\ tag = [b \in Block |-> "STRING"]
  /\ field = [b \in Block |-> [i \in Field |-> NULL]]
  /\ fl = [c \in Classes |-> << >>]
  /\ heap_bytes = 0 /\ gc_threshold = MinThreshold /\ peak_heap_bytes = 0
  /\ heap_lo = Limit /\ heap_hi = 0 /\ lost = FALSE
  /\ stack = [th \in Thread |-> [s \in Slot |-> NULL]]
  /\ global = [g \in Global |-> NULL] /\ roots = {}
  /\ phase = "mutate" /\ holder = NULL /\ req = NULL /\ oom = FALSE
  /\ marked = {} /\ gray = {} /\ swept = {} /\ scribbled = {}

(***************************************************************************)
(* The program.  A thread runs while it is not inside the collector.       *)
(***************************************************************************)
Running(th) == holder # th /\ phase # "exit"

(* The object a slot designates, for code that dereferences it. *)
IsObject(p) == p # NULL /\ p[2] = "base" /\ p[1] \in heap

SetSlot(th, s, p) == stack' = [stack EXCEPT ![th][s] = p]

(* A slot whose pointer is not needed any more is cleared, or keeps what    *)
(* pointer arithmetic made of it.                                          *)
Remains(p) == {NULL} \cup IF Interior /\ IsObject(p) THEN {<<p[1], "inner">>} ELSE {}

Clear(th, s) ==
  /\ Running(th) /\ stack[th][s] # NULL
  /\ \E p \in Remains(stack[th][s]) : SetSlot(th, s, p)
  /\ UNCHANGED <<blockVars, field, gc_threshold, global, roots, gcVars>>

Load(th, s, i, d) ==
  /\ Running(th) /\ IsObject(stack[th][s])
  /\ i \in PointerFields(tag[stack[th][s][1]])
  /\ SetSlot(th, d, field[stack[th][s][1]][i])
  /\ UNCHANGED <<blockVars, field, gc_threshold, global, roots, gcVars>>

Store(th, s, i, d) ==
  /\ Running(th) /\ IsObject(stack[th][s])
  /\ i \in PointerFields(tag[stack[th][s][1]])
  /\ field' = [field EXCEPT ![stack[th][s][1]][i] = stack[th][d]]
  /\ UNCHANGED <<blockVars, gc_threshold, progVars, gcVars>>

(* A function assigns to a module variable, or reads it: the LLVM global,  *)
(* registered or not.                                                      *)
SetGlobal(th, g, s) ==
  /\ Running(th)
  /\ global' = [global EXCEPT ![g] = stack[th][s]]
  /\ UNCHANGED <<blockVars, field, gc_threshold, stack, roots, gcVars>>

GetGlobal(th, g, s) ==
  /\ Running(th)
  /\ SetSlot(th, s, global[g])
  /\ UNCHANGED <<blockVars, field, gc_threshold, global, roots, gcVars>>

(* __visuall_register_global: past the limit it only prints a warning. *)
RegisterGlobal(th, g) ==
  /\ Running(th) /\ holder = NULL /\ g \notin roots
  /\ roots' = IF Cardinality(roots) < MaxGlobalRoots THEN roots \cup {g} ELSE roots
  /\ UNCHANGED <<blockVars, field, gc_threshold, stack, global, gcVars>>

(***************************************************************************)
(* Mark phase.                                                             *)
(***************************************************************************)

(* find_gc_header succeeds for the pointers in P into blocks of the heap   *)
(* list.  mark_internal(candidate) then takes the header to be just before *)
(* the candidate: right for a base pointer; for an inner one it sets a byte*)
(* of the payload, and the block's own header stays unmarked.              *)
Found(P, kind) == {b \in heap : <<b, kind>> \in P}

StackOf(ths) == {stack[th][s] : th \in ths, s \in Slot}

(* mark_roots: globals, then the words between the stack pointer of the    *)
(* calling thread and stack_bottom, which lies in the stack of Main.  From *)
(* any other thread that range is not a stack: any part of it may be read. *)
RootWords(ths) == {global[g] : g \in roots} \cup StackOf(ths)

BeginMark(th, ths) ==
  LET P == RootWords(ths) IN
  /\ th = Main => ths = {Main}
  /\ phase' = "mark"
  /\ gray' = Found(P, "base")
  /\ scribbled' = scribbled \cup Found(P, "inner")
  /\ UNCHANGED <<marked, swept>>

(* Mutant: no test whether the header is marked already. *)
MarkAgain(b) ==
  LET P == {field[b][i] : i \in Traced(tag[b])} IN
  /\ phase = "mark" /\ b \in gray
  /\ marked' = marked \cup {b}
  /\ gray' = gray \cup Found(P, "base")
  /\ scribbled' = scribbled \cup Found(P, "inner")
  /\ UNCHANGED <<blockVars, field, gc_threshold, progVars, phase, holder, req,
                 oom, swept>>

(* mark_internal(b), whose recursive calls become further gray blocks. *)
Mark(b) ==
  LET P == {field[b][i] : i \in Traced(tag[b])} IN
  /\ phase = "mark" /\ b \in gray
  /\ marked' = marked \cup {b}
  /\ gray' = (gray \cup Found(P, "base")) \ marked'
  /\ scribbled' = scribbled \cup Found(P, "inner")
  /\ UNCHANGED <<blockVars, field, gc_threshold, progVars, phase, holder, req,
                 oom, swept>>

EndMark ==
  /\ phase = "mark" /\ gray = {}
  /\ phase' = "sweep"
  /\ UNCHANGED <<blockVars, field, gc_threshold, progVars, holder, req, oom,
                 marked, gray, swept, scribbled>>

(***************************************************************************)
(* Sweep phase.                                                            *)
(***************************************************************************)
(* Mutant: the mark of a survivor is left for the next collection. *)
SweepLiveKeepMark(b) ==
  /\ phase = "sweep" /\ b \in (heap \ swept) \cap marked
  /\ swept' = swept \cup {b}
  /\ UNCHANGED <<blockVars, field, gc_threshold, progVars, phase, holder, req,
                 oom, marked, gray, scribbled>>

SweepLive(b) ==
  /\ phase = "sweep" /\ b \in (heap \ swept) \cap marked
  /\ marked' = marked \ {b} /\ swept' = swept \cup {b}
  /\ UNCHANGED <<blockVars, field, gc_threshold, progVars, phase, holder, req,
                 oom, gray, scribbled>>

(* Mutant: the free list is not bounded. *)
ReleaseUnbounded(b) ==
  LET c == ClassFor(size[b])
      cached == c # 0 IN
  /\ fl' = IF cached THEN [fl EXCEPT ![c] = <<b>> \o @] ELSE fl
  /\ mem' = IF cached THEN mem ELSE [mem EXCEPT ![b] = 0]

(* fl_push, or free when the block is too large or its list is full. *)
Release(b) ==
  LET c == ClassFor(size[b])
      cached == c # 0 /\ Len(fl[c]) < FlMax IN
  /\ fl' = IF cached THEN [fl EXCEPT ![c] = <<b>> \o @] ELSE fl
  /\ mem' = IF cached THEN mem ELSE [mem EXCEPT ![b] = 0]

(* Mutant: the payload is subtracted, the whole block was added. *)
UncountPayload(b) == heap_bytes' = heap_bytes - (size[b] - HeaderSize)

Uncount(b) == heap_bytes' = heap_bytes - size[b]

UnregisteredHold(b) == \E g \in Global \ roots : global[g] # NULL /\ global[g][1] = b

SweepDead(b) ==
  /\ phase = "sweep" /\ b \in (heap \ swept) \ marked
  /\ heap' = heap \ {b}
  /\ lost' = (lost \/ UnregisteredHold(b))
  /\ Uncount(b)
  /\ scribbled' = scribbled \ {b}
  /\ Release(b)
  /\ UNCHANGED <<size, tag, peak_heap_bytes, heap_lo, heap_hi, field,
                 gc_threshold, progVars, phase, holder, req, oom, marked, gray,
                 swept>>

(* The rest of sweep and of collect: bounds, threshold, unlock. *)
EndSweep ==
  /\ phase = "sweep" /\ heap = swept
  /\ heap_lo' = IF heap = {} THEN Limit ELSE Min(heap)
  /\ heap_hi' = IF heap = {} THEN 0 ELSE Max(heap) + 1
  /\ gc_threshold' = Max({2 * heap_bytes, MinThreshold})
  /\ phase' = IF req = NULL THEN "mutate" ELSE IF oom THEN "retry" ELSE "place"
  /\ holder' = IF req = NULL THEN NULL ELSE holder
  /\ swept' = {}
  /\ UNCHANGED <<mem, heap, size, tag, fl, heap_bytes, peak_heap_bytes, lost,
                 field, progVars, req, oom, marked, gray, scribbled>>

(* __visuall_collect called by the program. *)
Collect(th, ths) ==
  /\ Running(th) /\ holder = NULL
  /\ holder' = th /\ req' = NULL /\ oom' = FALSE
  /\ BeginMark(th, ths)
  /\ UNCHANGED <<blockVars, field, gc_threshold, progVars>>

(***************************************************************************)
(* __visuall_alloc and __visuall_alloc_object                              *)
(***************************************************************************)
OverThreshold(r) == heap_bytes + HeaderSize + r.size > gc_threshold

AllocCollect(th, r, ths) ==
  /\ Running(th) /\ holder = NULL /\ OverThreshold(r)
  /\ holder' = th /\ req' = r /\ oom' = FALSE
  /\ BeginMark(th, ths)
  /\ UNCHANGED <<blockVars, field, gc_threshold, progVars>>

AllocDirect(th, r) ==
  /\ Running(th) /\ holder = NULL /\ ~OverThreshold(r)
  /\ holder' = th /\ req' = r /\ oom' = FALSE /\ phase' = "place"
  /\ UNCHANGED <<blockVars, field, gc_threshold, progVars, marked, gray, swept,
                 scribbled>>

Widen(b) == heap_lo' = Min({heap_lo, b}) /\ heap_hi' = Max({heap_hi, b + 1})

(* Fill in the header, link and count the block, return its user pointer.  *)
Install(b, s) ==
  LET total == TotalOf(req) IN
  /\ heap' = heap \cup {b}
  /\ size' = [size EXCEPT ![b] = total]
  /\ tag' = [tag EXCEPT ![b] = req.tag]
  /\ field' = [field EXCEPT ![b] = [i \in Field |-> NULL]]
  /\ heap_bytes' = heap_bytes + total
  /\ peak_heap_bytes' = Max({peak_heap_bytes, heap_bytes + total})
  /\ Widen(b)
  /\ SetSlot(holder, s, <<b, "base">>)
  /\ phase' = "mutate" /\ holder' = NULL /\ req' = NULL
  /\ UNCHANGED <<lost, gc_threshold, global, roots, oom, marked, gray, swept,
                 scribbled>>

(* fl_pop offers nothing to alloc_object, which never calls it. *)
Reusable(r) ==
  LET c == ClassFor(HeaderSize + r.size) IN
  IF r.object \/ c = 0 THEN << >> ELSE fl[c]

AllocReuse(s) ==
  /\ phase = "place" /\ Reusable(req) # << >>
  /\ fl' = [fl EXCEPT ![ClassFor(TotalOf(req))] = Tail(@)]
  /\ Install(Head(Reusable(req)), s)
  /\ UNCHANGED mem

AllocMalloc(b, s) ==
  /\ \/ phase = "place" /\ Reusable(req) = << >>
     \/ phase = "retry"
  /\ mem[b] = 0
  /\ mem' = [mem EXCEPT ![b] = TotalOf(req)]
  /\ Install(b, s)
  /\ UNCHANGED fl

NoMemory == \A b \in Block : mem[b] # 0

(* malloc returned NULL: collect once, then try malloc again. *)
AllocOom(ths) ==
  /\ phase = "place" /\ Reusable(req) = << >> /\ NoMemory
  /\ oom' = TRUE
  /\ BeginMark(holder, ths)
  /\ UNCHANGED <<blockVars, field, gc_threshold, progVars, holder, req>>

AllocExit ==
  /\ phase = "retry" /\ NoMemory
  /\ phase' = "exit"
  /\ UNCHANGED <<blockVars, field, gc_threshold, progVars, holder, req, oom,
                 marked, gray, swept, scribbled>>

(***************************************************************************)
(* __visuall_gc_shutdown.  The program that called it is over: its stack   *)
(* and globals are not used again, though a later one may allocate.        *)
(***************************************************************************)
Shutdown(th) ==
  /\ Running(th) /\ holder = NULL
  /\ heap' = {} /\ heap_bytes' = 0
  /\ mem' = [b \in Block |-> IF b \in heap \/ \E c \in Classes :
                                    \E i \in DOMAIN fl[c] : fl[c][i] = b
                             THEN 0 ELSE mem[b]]
  /\ fl' = [c \in Classes |-> << >>]
  /\ stack' = [x \in Thread |-> [s \in Slot |-> NULL]]
  /\ global' = [g \in Global |-> NULL]
  /\ scribbled' = {} /\ lost' = FALSE
  /\ UNCHANGED <<size, tag, field, gc_threshold, peak_heap_bytes, heap_lo,
                 heap_hi, roots, phase, holder, req, oom, marked, gray, swept>>

-----------------------------------------------------------------------------
ProgramStep(th) ==
  \/ \E s \in Slot : Clear(th, s)
  \/ \E s, d \in Slot, i \in Field : Load(th, s, i, d) \/ Store(th, s, i, d)
  \/ \E g \in Global, s \in Slot : SetGlobal(th, g, s) \/ GetGlobal(th, g, s)
  \/ \E g \in Global : RegisterGlobal(th, g)

Enter(th) ==
  \/ \E ths \in SUBSET Thread : Collect(th, ths)
  \/ \E r \in Request, ths \in SUBSET Thread : AllocCollect(th, r, ths)
  \/ \E r \in Request : AllocDirect(th, r)
  \/ Shutdown(th)

CollectorStep ==
  \/ \E b \in Block : Mark(b) \/ SweepLive(b) \/ SweepDead(b)
  \/ EndMark \/ EndSweep
  \/ \E s \in Slot : AllocReuse(s) \/ \E b \in Block : AllocMalloc(b, s)
  \/ \E ths \in SUBSET Thread : AllocOom(ths)
  \/ AllocExit

Next == CollectorStep \/ \E th \in Thread : ProgramStep(th) \/ Enter(th)

Spec == Init /\ [][Next]_vars

(* A thread inside the collector keeps running. *)
FairSpec == Spec /\ WF_vars(CollectorStep)

-----------------------------------------------------------------------------
(***************************************************************************)
(* Properties.                                                             *)
(***************************************************************************)

(* Every variable keeps to the values its C declaration and use allow, and *)
(* the collector's own state is empty outside its phases.                  *)
TypeOK ==
  /\ mem \in [Block -> Nat] /\ heap \subseteq Block
  /\ size \in [Block -> Nat] /\ tag \in [Block -> Tag]
  /\ field \in [Block -> [Field -> Pointer]]
  /\ fl \in [Classes -> Seq(Block)]
  /\ heap_bytes \in Int /\ gc_threshold \in Int /\ peak_heap_bytes \in Int
  /\ heap_lo \in Int /\ heap_hi \in Int
  /\ stack \in [Thread -> [Slot -> Pointer]]
  /\ global \in [Global -> Pointer] /\ roots \subseteq Global
  /\ phase \in {"mutate", "mark", "sweep", "place", "retry", "exit"}
  /\ holder \in Thread \cup {NULL} /\ req \in Request \cup {NULL}
  /\ oom \in BOOLEAN /\ lost \in BOOLEAN
  /\ marked \subseteq Block /\ gray \subseteq Block /\ swept \subseteq Block
  /\ scribbled \subseteq Block
  /\ holder = NULL <=> phase = "mutate"
  /\ gray # {} => phase = "mark"
  /\ marked # {} => phase \in {"mark", "sweep"}
  /\ swept # {} => phase = "sweep"

(* A pointer the program may follow leads to an object on the heap list.   *)
Valid(p) == p = NULL \/ p[1] \in heap

(* No object the program can still reach is freed: stack slots, globals    *)
(* and the pointer fields of surviving objects never dangle, at any point  *)
(* of an allocation, a mark phase or a sweep.  The one way in which the    *)
(* first pointer can come to dangle is that an object is freed to which a  *)
(* global that nobody registered refers.                                   *)
Surviving == IF phase = "sweep" THEN marked \cup swept ELSE heap
PointersValid ==
  /\ \A th \in Thread, s \in Slot : Valid(stack[th][s])
  /\ \A g \in Global : Valid(global[g])
  /\ \A b \in Surviving : \A i \in PointerFields(tag[b]) : Valid(field[b][i])
NoDangling == lost \/ PointersValid

(* codegen.cpp "so other functions see the new value": what a function     *)
(* assigns to a module variable is there when another one reads it.        *)
ModuleVariablesKeepObjects == \A g \in Global : Valid(global[g])

(* When sweep starts freeing, the marked objects are exactly those that the*)
(* program can reach: cycles and garbage are told apart.                   *)
RootPointers == {global[g] : g \in roots} \cup StackOf(Thread)
Reachable ==
  {b \in heap : \A S \in SUBSET heap :
     /\ Found(RootPointers, "base") \subseteq S
     /\ \A x \in S : Found({field[x][i] : i \in PointerFields(tag[x])}, "base") \subseteq S
     => b \in S}
MarkIsExact == phase = "sweep" => marked \cup swept = Reachable

(* Every block malloc gave out is on the heap list or on one free list,    *)
(* never on both, never twice, and no free list exceeds its bound: blocks  *)
(* are neither leaked nor handed out while in use.                         *)
OnFreeList(c) == {fl[c][i] : i \in DOMAIN fl[c]}
BlocksPartitioned ==
  /\ {b \in Block : mem[b] # 0} = heap \cup UNION {OnFreeList(c) : c \in Classes}
  /\ \A c \in Classes : heap \cap OnFreeList(c) = {} /\ Len(fl[c]) <= FlMax
  /\ \A c, d \in Classes : \A i \in DOMAIN fl[c], j \in DOMAIN fl[d] :
       fl[c][i] = fl[d][j] => c = d /\ i = j

(* heap_bytes, from which the threshold and the statistics are computed,   *)
(* is the sum of the sizes on the heap list, and the peak never lags it.   *)
BytesAccounted ==
  /\ heap_bytes = MapThenSumSet(LAMBDA b : size[b], heap)
  /\ heap_bytes <= peak_heap_bytes

(* The bounding box find_gc_header rejects addresses by covers the heap. *)
BoundsCoverHeap == \A b \in heap : heap_lo <= b /\ b < heap_hi

(* The allocator is consistent: every block and every byte is accounted    *)
(* for, and the bounds that filter candidate pointers exclude no object,   *)
(* however allocations, reuse, collections and failures of malloc follow   *)
(* each other, in whatever threads.                                        *)
AllocatorConsistent == TypeOK /\ BlocksPartitioned /\ BytesAccounted /\ BoundsCoverHeap

(* A thread that enters the collector leaves it, or the program exits. *)
CollectorFinishes == holder # NULL ~> holder = NULL \/ phase = "exit"
=============================================================================
