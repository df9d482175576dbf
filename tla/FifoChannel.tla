---------------------------- MODULE FifoChannel ----------------------------
(***************************************************************************)
(* What a channel of the runtime promises, without tasks, threads, locks   *)
(* or a ring buffer: the values it accepts come out in the order in which  *)
(* they went in, at most Capacity of them are held, one is handed directly *)
(* from a sender to a receiver only past an empty queue, and a closed      *)
(* channel accepts nothing more and stays closed.                          *)
(***************************************************************************)
EXTENDS Integers, Sequences

CONSTANTS Chan, Capacity, Value

VARIABLES
  queue,      \* values a channel holds
  accepted,   \* values it took, in order
  delivered,  \* values it gave out, in order
  closed

vars == <<queue, accepted, delivered, closed>>

Init ==
  /\ queue = [c \in Chan |-> << >>]
  /\ accepted = queue /\ delivered = queue
  /\ closed = [c \in Chan |-> FALSE]

Put(c, v) ==
  /\ ~closed[c] /\ Len(queue[c]) < Capacity[c]
  /\ queue' = [queue EXCEPT ![c] = Append(@, v)]
  /\ accepted' = [accepted EXCEPT ![c] = Append(@, v)]
  /\ UNCHANGED <<delivered, closed>>

Take(c) ==
  /\ queue[c] # << >>
  /\ queue' = [queue EXCEPT ![c] = Tail(@)]
  /\ delivered' = [delivered EXCEPT ![c] = Append(@, Head(queue[c]))]
  /\ UNCHANGED <<accepted, closed>>

Pass(c, v) ==
  /\ ~closed[c] /\ queue[c] = << >>
  /\ accepted' = [accepted EXCEPT ![c] = Append(@, v)]
  /\ delivered' = [delivered EXCEPT ![c] = Append(@, v)]
  /\ UNCHANGED <<queue, closed>>

Close(c) ==
  /\ closed' = [closed EXCEPT ![c] = TRUE]
  /\ UNCHANGED <<queue, accepted, delivered>>

Next ==
  \E c \in Chan :
    \/ \E v \in Value : Put(c, v) \/ Pass(c, v)
    \/ Take(c) \/ Close(c)

Spec == Init /\ [][Next]_vars
=============================================================================
