---------------------------- MODULE MCScheduler ----------------------------
(* Instances of Scheduler for TLC. *)
EXTENDS Scheduler, TLC

Unbuffered == [c \in Chan |-> 0]
(* One channel of each kind. *)
BothKinds  == [c \in Chan |-> IF c = "rendezvous" THEN 0 ELSE 2]

(* Tasks and workers are interchangeable. *)
Symmetry == Permutations(Task) \cup Permutations(Worker)
=============================================================================
