----------------------------- MODULE MCGcHeap -----------------------------
(* Instances of GcHeap for TLC: one-word headers, two size classes. *)
EXTENDS GcHeap, TLC

Req(t, n) == [tag |-> t, size |-> n, object |-> FALSE]

TwoClasses == <<2, 4>>

(* Closures, which refer to one object each. *)
ClosureRequests == {Req("CLOSURE", 1)}

(* The argument array of a go call. *)
ArgsRequests == {Req("TASK", 1), Req("STRING", 1)}

(* The header and payload of a block that is not on the heap list are never*)
(* read: Install overwrites them.                                          *)
View ==
  <<mem, heap, [b \in heap |-> <<size[b], tag[b], field[b]>>], fl, heap_bytes,
    gc_threshold, peak_heap_bytes, heap_lo, heap_hi, lost, progVars, gcVars>>

(* Stack slots are interchangeable, and so are globals. *)
Symmetry == Permutations(Slot) \cup Permutations(Global)
=============================================================================
