----------------------------- MODULE TaskLists -----------------------------
(***************************************************************************)
(* The linked lists behind the queues of stdlib/scheduler.c.  The ready    *)
(* queue and the two blocked queues of every channel are chained through   *)
(* the one field VisuallTask.next, and are protected by different locks:   *)
(* sched_lock and the lock of each channel.  One step is one access to the *)
(* shared pointers, so operations on different lists interleave.           *)
(*                                                                         *)
(* A thread moves one task at a time: it takes it from a list or creates   *)
(* it, then appends it to a list.  chan_close keeps the channel's lock     *)
(* while it moves every waiting task to the ready queue.  A collector walks*)
(* a list without taking its lock (mark_roots, mark_internal of a CHANNEL).*)
(***************************************************************************)
EXTENDS Integers, Sequences, FiniteSets

CONSTANTS Task, Chan, Thread, NULL,
          Ready  \* names the ready queue and sched_lock

ASSUME ListsAssumption ==
  /\ NULL \notin Task \cup Thread \cup Chan
  /\ Ready \notin Chan /\ Ready \notin {"senders", "receivers"} \X Chan

VARIABLES
  next,     \* VisuallTask.next
  head,     \* ready_head, blocked_senders_head, blocked_receivers_head
  tail,     \* ready_tail
  lock,     \* holder of sched_lock and of the channels' locks
  fresh,    \* tasks not yet passed to go_create
  pc,       \* control point of a thread
  held,     \* the task in its hands: task, t
  list,     \* the list it works on
  at,       \* cur of blocked_enqueue
  closing,  \* the channel whose chan_close it executes
  queue,    \* history: what each list stands for
  walk,     \* t of the collector's walk, NULL when it is over
  seen,     \* history: tasks the walk has marked
  stayed    \* history: tasks linked on its list ever since the walk began

vars == <<next, head, tail, lock, fresh, pc, held, list, at, closing, queue,
          walk, seen, stayed>>
ptrVars  == <<next, head, tail>>
walkVars == <<walk, seen, stayed>>

List == {Ready} \cup ({"senders", "receivers"} \X Chan)
LockOf(l) == IF l = Ready THEN Ready ELSE l[2]
Elems(s) == {s[i] : i \in DOMAIN s}

Init ==
  /\ next = [t \in Task |-> NULL]
  /\ head = [l \in List |-> NULL] /\ tail = NULL
  /\ lock = [k \in Chan \cup {Ready} |-> NULL]
  /\ fresh = Task
  /\ pc = [th \in Thread |-> "free"]
  /\ held = [th \in Thread |-> NULL] /\ list = [th \in Thread |-> Ready]
  /\ at = [th \in Thread |-> NULL] /\ closing = [th \in Thread |-> NULL]
  /\ queue = [l \in List |-> << >>]
  /\ walk = NULL /\ seen = {} /\ stayed = {}

Goto(th, from, to) == pc[th] = from /\ pc' = [pc EXCEPT ![th] = to]

(* Take the lock of l, which chan_close already has for its own lists. *)
Owns(th, l) == closing[th] # NULL /\ LockOf(l) = closing[th]
Acquire(th, l) ==
  IF Owns(th, l) THEN UNCHANGED lock
  ELSE lock[LockOf(l)] = NULL /\ lock' = [lock EXCEPT ![LockOf(l)] = th]

Release(th, l) ==
  IF Owns(th, l) THEN UNCHANGED lock
  ELSE lock' = [lock EXCEPT ![LockOf(l)] = NULL]

Create(th, t) ==
  /\ pc[th] = "free" /\ held[th] = NULL /\ closing[th] = NULL /\ t \in fresh
  /\ fresh' = fresh \ {t}
  /\ held' = [held EXCEPT ![th] = t]
  /\ UNCHANGED <<ptrVars, lock, pc, list, at, closing, queue, walkVars>>

(***************************************************************************)
(* sched_enqueue and blocked_enqueue                                       *)
(***************************************************************************)
(* Lock, then task->next = NULL. *)
Push(th, l) ==
  /\ held[th] # NULL /\ (closing[th] # NULL => l = Ready)
  /\ Goto(th, "free", "link") /\ Acquire(th, l)
  /\ list' = [list EXCEPT ![th] = l]
  /\ next' = [next EXCEPT ![held[th]] = NULL]
  /\ UNCHANGED <<head, tail, fresh, held, at, closing, queue, walkVars>>

(* The list is empty: the task becomes its head (and tail). *)
LinkFirst(th) ==
  LET l == list[th] IN
  /\ head[l] = NULL
  /\ Goto(th, "link", "unlock")
  /\ head' = [head EXCEPT ![l] = held[th]]
  /\ tail' = IF l = Ready THEN held[th] ELSE tail
  /\ UNCHANGED <<next, lock, fresh, held, list, at, closing, queue, walkVars>>

(* ready_tail->next = task, then ready_tail = task. *)
LinkTail(th) ==
  /\ list[th] = Ready /\ head[Ready] # NULL
  /\ Goto(th, "link", "settail")
  /\ next' = [next EXCEPT ![tail] = held[th]]
  /\ UNCHANGED <<head, tail, lock, fresh, held, list, at, closing, queue, walkVars>>

(* Mutant: ready_tail is not moved. *)
NewTailForgotten(th) == UNCHANGED tail

NewTail(th) == tail' = held[th]

SetTail(th) ==
  /\ Goto(th, "settail", "unlock")
  /\ NewTail(th)
  /\ UNCHANGED <<next, head, lock, fresh, held, list, at, closing, queue, walkVars>>

(* A blocked queue has no tail pointer: look for its last task. *)
ScanStart(th) ==
  LET l == list[th] IN
  /\ l # Ready /\ head[l] # NULL
  /\ Goto(th, "link", "scan")
  /\ at' = [at EXCEPT ![th] = head[l]]
  /\ UNCHANGED <<ptrVars, lock, fresh, held, list, closing, queue, walkVars>>

(* Mutant: every step of the walk starts over at the head. *)
ScanAgain(th) ==
  /\ pc[th] = "scan" /\ next[at[th]] # NULL
  /\ at' = [at EXCEPT ![th] = head[list[th]]]
  /\ UNCHANGED <<ptrVars, lock, fresh, pc, held, list, closing, queue, walkVars>>

Scan(th) ==
  /\ pc[th] = "scan" /\ next[at[th]] # NULL
  /\ at' = [at EXCEPT ![th] = next[at[th]]]
  /\ UNCHANGED <<ptrVars, lock, fresh, pc, held, list, closing, queue, walkVars>>

ScanEnd(th) ==
  /\ Goto(th, "scan", "unlock")
  /\ next[at[th]] = NULL
  /\ next' = [next EXCEPT ![at[th]] = held[th]]
  /\ UNCHANGED <<head, tail, lock, fresh, held, list, at, closing, queue, walkVars>>

Pushed(th) ==
  LET l == list[th] IN
  /\ Goto(th, "unlock", "free") /\ Release(th, l)
  /\ queue' = [queue EXCEPT ![l] = Append(@, held[th])]
  /\ held' = [held EXCEPT ![th] = NULL]
  /\ at' = [at EXCEPT ![th] = NULL]
  /\ UNCHANGED <<ptrVars, fresh, list, closing, walkVars>>

(***************************************************************************)
(* sched_dequeue and blocked_dequeue                                       *)
(***************************************************************************)
(* Lock, then t = head. *)
Pop(th, l) ==
  /\ held[th] = NULL /\ head[l] # NULL
  /\ closing[th] # NULL => Owns(th, l) /\ (l[1] = "senders" => head[<<"receivers", l[2]>>] = NULL)
  /\ Goto(th, "free", "unlink") /\ Acquire(th, l)
  /\ list' = [list EXCEPT ![th] = l]
  /\ held' = [held EXCEPT ![th] = head[l]]
  /\ UNCHANGED <<ptrVars, fresh, at, closing, queue, walkVars>>

NewHead(th) ==
  LET l == list[th]  n == next[held[th]] IN
  /\ head' = [head EXCEPT ![l] = n]
  /\ tail' = IF l = Ready /\ n = NULL THEN NULL ELSE tail

Unlink(th) ==
  /\ Goto(th, "unlink", "detach")
  /\ NewHead(th)
  /\ stayed' = stayed \ {held[th]}
  /\ UNCHANGED <<next, lock, fresh, held, list, at, closing, queue, walk, seen>>

(* t->next = NULL, then unlock. *)
Popped(th) ==
  LET l == list[th]  rest == SubSeq(queue[l], 2, Len(queue[l])) IN
  /\ Goto(th, "detach", "free") /\ Release(th, l)
  /\ next' = [next EXCEPT ![held[th]] = NULL]
  /\ queue' = [queue EXCEPT ![l] = rest]
  /\ UNCHANGED <<head, tail, fresh, held, list, at, closing, walkVars>>

(***************************************************************************)
(* chan_close                                                              *)
(***************************************************************************)
Close(th, c) ==
  /\ pc[th] = "free" /\ held[th] = NULL /\ closing[th] = NULL /\ lock[c] = NULL
  /\ lock' = [lock EXCEPT ![c] = th]
  /\ closing' = [closing EXCEPT ![th] = c]
  /\ UNCHANGED <<ptrVars, fresh, pc, held, list, at, queue, walkVars>>

Closed(th) ==
  LET c == closing[th] IN
  /\ pc[th] = "free" /\ held[th] = NULL /\ c # NULL
  /\ head[<<"senders", c>>] = NULL /\ head[<<"receivers", c>>] = NULL
  /\ lock' = [lock EXCEPT ![c] = NULL]
  /\ closing' = [closing EXCEPT ![th] = NULL]
  /\ UNCHANGED <<ptrVars, fresh, pc, held, list, at, queue, walkVars>>

(***************************************************************************)
(* The collector, on behalf of some allocating thread.                     *)
(***************************************************************************)
(* What hangs on l: its queue, less a task already taken off its head. *)
Hanging(l) ==
  Elems(queue[l]) \ {held[th] : th \in {u \in Thread : pc[u] = "detach" /\ list[u] = l}}

WalkStart(l) ==
  /\ walk = NULL /\ stayed = {} /\ head[l] # NULL
  /\ walk' = head[l]
  /\ seen' = {} /\ stayed' = Hanging(l)
  /\ UNCHANGED <<ptrVars, lock, fresh, pc, held, list, at, closing, queue>>

WalkStep ==
  /\ walk # NULL
  /\ seen' = seen \cup {walk}
  /\ walk' = next[walk]
  /\ UNCHANGED <<ptrVars, lock, fresh, pc, held, list, at, closing, queue, stayed>>

WalkEnd ==
  /\ walk = NULL /\ stayed # {}
  /\ seen' = {} /\ stayed' = {}
  /\ UNCHANGED <<ptrVars, lock, fresh, pc, held, list, at, closing, queue, walk>>

-----------------------------------------------------------------------------
(* The steps inside an operation; the others start one. *)
Inner(th) ==
  \/ LinkFirst(th) \/ LinkTail(th) \/ SetTail(th) \/ ScanStart(th) \/ Scan(th)
  \/ ScanEnd(th) \/ Pushed(th) \/ Unlink(th) \/ Popped(th)

Operate ==
  \E th \in Thread :
    \/ Inner(th) \/ Closed(th)
    \/ \E t \in Task : Create(th, t)
    \/ \E l \in List : Push(th, l) \/ Pop(th, l)
    \/ \E c \in Chan : Close(th, c)

Next ==
  \/ Operate
  \/ \E l \in List : WalkStart(l)
  \/ WalkStep \/ WalkEnd

Spec == Init /\ [][Next]_vars

(* A thread that is inside an operation finishes it. *)
Fairness == \A th \in Thread : WF_vars(Inner(th))
FairSpec == Spec /\ Fairness

-----------------------------------------------------------------------------
(* Every variable keeps to its type, and a thread inside an operation of a *)
(* list holds the list's lock.                                             *)
TypeOK ==
  /\ next \in [Task -> Task \cup {NULL}]
  /\ head \in [List -> Task \cup {NULL}] /\ tail \in Task \cup {NULL}
  /\ lock \in [Chan \cup {Ready} -> Thread \cup {NULL}]
  /\ fresh \subseteq Task
  /\ pc \in [Thread -> {"free", "link", "settail", "scan", "unlock", "unlink", "detach"}]
  /\ held \in [Thread -> Task \cup {NULL}] /\ list \in [Thread -> List]
  /\ at \in [Thread -> Task \cup {NULL}] /\ closing \in [Thread -> Chan \cup {NULL}]
  /\ queue \in [List -> Seq(Task)]
  /\ \A th \in Thread : pc[th] # "free" => lock[LockOf(list[th])] = th
  /\ walk \in Task \cup {NULL} /\ seen \subseteq Task /\ stayed \subseteq Task

(* No operation on l is under way. *)
Quiet(l) == \A th \in Thread : pc[th] = "free" \/ list[th] # l

(* The list at h spells the sequence s and stops there. *)
Spells(h, s) ==
  IF s = << >> THEN h = NULL
  ELSE /\ h = s[1] /\ next[s[Len(s)]] = NULL
       /\ \A i \in 1 .. Len(s) - 1 : next[s[i]] = s[i + 1]

(* Whatever the operations on other lists do to the shared next fields,    *)
(* between its own operations a list spells its queue, and ready_tail is   *)
(* its last task: no task is lost, duplicated or moved to another list.    *)
ListsRepresentQueues ==
  /\ TypeOK
  /\ \A l \in List : Quiet(l) => Spells(head[l], queue[l])
  /\ Quiet(Ready) =>
       tail = IF queue[Ready] = << >> THEN NULL ELSE queue[Ready][Len(queue[Ready])]

(* The loop of blocked_enqueue ends: no list has a cycle. *)
ScanEnds == \A th \in Thread : pc[th] = "scan" ~> pc[th] # "scan"

(* gc.c "every queued goroutine's task and its env must survive GC": a task*)
(* that hangs on the list from the first step of the walk to its last is   *)
(* marked by it.                                                           *)
WalkSeesQueued == walk = NULL => stayed \subseteq seen
=============================================================================
