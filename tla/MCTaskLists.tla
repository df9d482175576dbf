---------------------------- MODULE MCTaskLists ----------------------------
(* Instances of TaskLists for TLC. *)
EXTENDS TaskLists, TLC

(* Tasks and threads are interchangeable. *)
Symmetry == Permutations(Task) \cup Permutations(Thread)
=============================================================================
