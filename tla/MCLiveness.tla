----------------------------- MODULE MCLiveness -----------------------------
(* What the concurrent runtime must eventually do, for TLC: a behaviour is *)
(* one of the scheduler, or one of the collector with a second thread      *)
(* beside it; the other keeps its first state.  Each is fair as its module *)
(* says: in the first state of either none of its fair actions is enabled. *)
EXTENDS Scheduler, TLC

VARIABLES
  part,                                                      \* what runs
  mem, heap, size, tag, field, fl, heap_bytes, gc_threshold, \* of GcHeap
  peak_heap_bytes, heap_lo, heap_hi, lost, stack, global, roots, phase,
  holder, req, oom, marked, gray, swept, scribbled

OneSlot == [c \in Chan |-> 1]

(* A class instance, which is not rounded up to its size class. *)
NewObject == [tag |-> "OBJECT", size |-> 2, object |-> TRUE]

G == INSTANCE GcHeap WITH
       Block <- {1, 2}, Thread <- {Main, "other"}, Slot <- {"s"}, Global <- {},
       MaxGlobalRoots <- 1, Request <- {NewObject}, ClassSizes <- <<2, 4>>,
       FlMax <- 1, HeaderSize <- 1, MinThreshold <- 4, Interior <- TRUE

heapVars ==
  <<mem, heap, size, tag, field, fl, heap_bytes, gc_threshold, peak_heap_bytes,
    heap_lo, heap_hi, lost, stack, global, roots, phase, holder, req, oom, marked,
    gray, swept, scribbled>>

MCInit == part \in {"scheduler", "collector"} /\ Init /\ G!Init

MCNext ==
  \/ part = "scheduler" /\ Next /\ UNCHANGED <<part, heapVars>>
  \/ part = "collector" /\ G!Next /\ UNCHANGED <<part, vars>>

MCSpec ==
  /\ MCInit /\ [][MCNext]_<<part, vars, heapVars>>
  /\ Fairness /\ WF_heapVars(G!CollectorStep)

(* The header and payload of a block that is not on the heap list are never*)
(* read: Install overwrites them.                                          *)
View ==
  <<part, vars, mem, heap, [b \in heap |-> <<size[b], tag[b], field[b]>>], fl,
    heap_bytes, gc_threshold, peak_heap_bytes, heap_lo, heap_hi, lost,
    stack, global, roots, phase, holder, req, oom, marked, gray, swept, scribbled>>

(* The promises of GcHeap, under the names it gives them. *)
CollectorFinishes   == G!CollectorFinishes
AllocatorConsistent == G!AllocatorConsistent
=============================================================================
