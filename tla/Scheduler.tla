----------------------------- MODULE Scheduler -----------------------------
(***************************************************************************)
(* The goroutine runtime of stdlib/scheduler.c: worker threads that take   *)
(* tasks from a ready queue, and channels on which tasks exchange values.  *)
(*                                                                         *)
(* A thread is the main program or a worker.  A call of the channel API is *)
(* made either with (cont, cont_env) = (resume function, own task), written*)
(* cps = TRUE here, or with (NULL, NULL).  A task that makes a cps call    *)
(* saves its state-machine position first, returns to the worker loop when *)
(* the call registered it on a blocked queue, and repeats the call when it *)
(* is resumed: that is the contract scheduler.h states.  The main program  *)
(* is no task and can only pass NULL.                                      *)
(*                                                                         *)
(* Atomicity.  One step is one critical section of the channel lock, or    *)
(* one sched_enqueue or sched_dequeue, whose critical section of sched_lock*)
(* calls nothing that blocks.  The channel lock is visible only while      *)
(* chan_close holds it over several sched_enqueue calls.  The queues are   *)
(* sequences here; TaskLists.tla has the linked lists that represent them. *)
(***************************************************************************)
EXTENDS Integers, Sequences, FiniteSets

CONSTANTS
  Task,        \* task descriptors the program may allocate
  Chan,        \* channels made by __visuall_chan_create
  Worker,      \* worker threads (WORKER_COUNT of them)
  Main,        \* the thread of the main program
  NULL,
  Capacity,    \* Capacity[c]: argument of chan_create, 0 for unbuffered
  MaxSends,    \* bound: chan_send calls in a behaviour
  MaxRecvs,    \* bound: chan_recv calls in a behaviour
  MaxCloses    \* bound: chan_close calls in a behaviour

ASSUME ConstantsAssumption ==
  /\ Main \notin Worker
  /\ NULL \notin Task /\ NULL \notin Worker \cup {Main}
  /\ Capacity \in [Chan -> Nat]
  /\ MaxSends \in Nat /\ MaxRecvs \in Nat /\ MaxCloses \in Nat

VARIABLES
  ready,              \* the ready queue, ready_head first
  initialised,        \* sched_initialised: the workers have been spawned
  created,            \* tasks passed to __visuall_go_create
  has_recv,           \* VisuallTask.has_recv
  recv_value,         \* VisuallTask.recv_value
  saved,              \* VisuallTask.state and env: the call a task repeats
  buffer,             \* VisuallChannel.buffer
  head,               \* VisuallChannel.head
  tail,               \* VisuallChannel.tail
  count,              \* VisuallChannel.count
  closed,             \* VisuallChannel.closed
  blocked_senders,    \* the list at blocked_senders_head
  blocked_receivers,  \* the list at blocked_receivers_head
  lock,               \* the thread inside chan_close, or NULL
  pc,                 \* control point of each thread
  cur,                \* the task a worker executes
  arg,                \* arguments of the channel call in progress
  wake                \* local variable sender or receiver: task to enqueue

(* Observation only: nothing above reads these. *)
VARIABLES
  sends, recvs, closes,  \* calls made so far
  accepted,              \* values a channel took, in order
  delivered,             \* values a channel gave to a receiver, in order
  returned,              \* values chan_recv returned to its caller
  dropped                \* values chan_send gave up: <<value, was closed>>

taskVars == <<has_recv, recv_value>>
ringVars == <<buffer, head, tail, count>>
waitVars == <<blocked_senders, blocked_receivers>>
obsVars  == <<sends, recvs, closes, accepted, delivered, returned, dropped>>
vars == <<ready, initialised, created, taskVars, saved, ringVars, closed,
          waitVars, lock, pc, cur, arg, wake, obsVars>>

Thread == Worker \cup {Main}

Idle == [kind |-> "none", ch |-> NULL, val |-> 0]
Call == [kind: {"send", "recv"}, ch: Chan, val: Nat]

(***************************************************************************)
(* Initial state: chan_create has made the channels, no goroutine exists.  *)
(***************************************************************************)
Init ==
  /\ ready = << >> /\ initialised = FALSE /\ created = {}
  /\ has_recv = [t \in Task |-> FALSE]
  /\ recv_value = [t \in Task |-> 0]
  /\ saved = [t \in Task |-> Idle]
  /\ buffer = [c \in Chan |-> [i \in 0 .. Capacity[c] - 1 |-> 0]]
  /\ head = [c \in Chan |-> 0]
  /\ tail = [c \in Chan |-> 0]
  /\ count = [c \in Chan |-> 0]
  /\ closed = [c \in Chan |-> FALSE]
  /\ blocked_senders = [c \in Chan |-> << >>]
  /\ blocked_receivers = [c \in Chan |-> << >>]
  /\ lock = [c \in Chan |-> NULL]
  /\ pc = [th \in Thread |-> IF th = Main THEN "run" ELSE "idle"]
  /\ cur = [th \in Thread |-> NULL]
  /\ arg = [th \in Thread |-> Idle]
  /\ wake = [th \in Thread |-> NULL]
  /\ sends = 0 /\ recvs = 0 /\ closes = 0
  /\ accepted = [c \in Chan |-> << >>]
  /\ delivered = [c \in Chan |-> << >>]
  /\ returned = {} /\ dropped = {}

(***************************************************************************)
(* Threads and the ready queue.                                            *)
(***************************************************************************)
Goto(th, from, to) == pc[th] = from /\ pc' = [pc EXCEPT ![th] = to]

(* Mutant: ready_tail->next is not used, ready_head is overwritten. *)
EnqueueOverwriting(t) == ready' = <<t>>

(* sched_enqueue: the task goes to the tail of the ready queue. *)
Enqueue(t) == ready' = Append(ready, t)

(* The call th is in was made with a continuation. *)
Cps(th) == cur[th] # NULL /\ saved[cur[th]] # Idle

(* Return from a channel call: the state machine moves past it. *)
Finish(th, from) ==
  /\ Goto(th, from, "run")
  /\ arg' = [arg EXCEPT ![th] = Idle]
  /\ saved' = IF cur[th] = NULL THEN saved ELSE [saved EXCEPT ![cur[th]] = Idle]
  /\ UNCHANGED cur

(* __visuall_go_create, from the main program or from a goroutine. *)
GoCreate(th, t) ==
  /\ pc[th] = "run" /\ t \notin created
  /\ created' = created \cup {t}
  /\ initialised' = TRUE
  /\ has_recv' = [has_recv EXCEPT ![t] = FALSE]
  /\ recv_value' = [recv_value EXCEPT ![t] = 0]
  /\ Enqueue(t)
  /\ UNCHANGED <<saved, ringVars, closed, waitVars, lock, pc, cur, arg, wake,
                 obsVars>>

(* worker_loop: sched_dequeue, then fn_ptr(env), which resumes at saved. *)
WorkerTake(w) ==
  /\ initialised /\ ready # << >>
  /\ LET t == Head(ready) IN
     /\ Goto(w, "idle", IF saved[t] = Idle THEN "run" ELSE saved[t].kind)
     /\ cur' = [cur EXCEPT ![w] = t]
     /\ arg' = [arg EXCEPT ![w] = saved[t]]
  /\ ready' = Tail(ready)
  /\ UNCHANGED <<initialised, created, taskVars, saved, ringVars, closed,
                 waitVars, lock, wake, obsVars>>

(* The goroutine's function returns: it is finished ("run"), or a channel  *)
(* call has put its task on a blocked queue ("yield").                     *)
WorkerReturn(w) ==
  /\ w \in Worker
  /\ \E from \in {"run", "yield"} : Goto(w, from, "idle")
  /\ cur' = [cur EXCEPT ![w] = NULL]
  /\ arg' = [arg EXCEPT ![w] = Idle]
  /\ UNCHANGED <<ready, initialised, created, taskVars, saved, ringVars,
                 closed, waitVars, lock, wake, obsVars>>

(***************************************************************************)
(* Calls of the channel API by user code.                                  *)
(***************************************************************************)
StartCall(th, call, cps) ==
  /\ Goto(th, "run", call.kind)
  /\ cps => cur[th] # NULL
  /\ arg' = [arg EXCEPT ![th] = call]
  /\ saved' = IF cps THEN [saved EXCEPT ![cur[th]] = call] ELSE saved
  /\ UNCHANGED <<ready, initialised, created, taskVars, ringVars, closed,
                 waitVars, lock, cur, wake, closes, accepted, delivered,
                 returned, dropped>>

(* Every send carries a value of its own, so that values can be followed. *)
StartSend(th, c, cps) ==
  /\ sends < MaxSends
  /\ sends' = sends + 1 /\ UNCHANGED recvs
  /\ StartCall(th, [kind |-> "send", ch |-> c, val |-> sends + 1], cps)

StartRecv(th, c, cps) ==
  /\ recvs < MaxRecvs
  /\ recvs' = recvs + 1 /\ UNCHANGED sends
  /\ StartCall(th, [kind |-> "recv", ch |-> c, val |-> 0], cps)

(***************************************************************************)
(* __visuall_chan_send                                                     *)
(***************************************************************************)
Entered(th, kind) ==
  /\ pc[th] = kind
  /\ lock[arg[th].ch] = NULL

(* Mutant: the tail does not wrap around. *)
PushBufferNoWrap(c, v) ==
  /\ buffer' = [buffer EXCEPT ![c] = [@ EXCEPT ![tail[c]] = v]]
  /\ tail' = [tail EXCEPT ![c] = @ + 1]
  /\ count' = [count EXCEPT ![c] = @ + 1]
  /\ UNCHANGED head

PushBuffer(c, v) ==
  /\ buffer' = [buffer EXCEPT ![c] = [@ EXCEPT ![tail[c]] = v]]
  /\ tail' = [tail EXCEPT ![c] = (@ + 1) % Capacity[c]]
  /\ count' = [count EXCEPT ![c] = @ + 1]
  /\ UNCHANGED head

Drop(th) ==
  /\ Finish(th, "send")
  /\ dropped' = dropped \cup {<<arg[th].val, closed[arg[th].ch]>>}
  /\ UNCHANGED <<ready, initialised, created, taskVars, ringVars, closed,
                 waitVars, lock, wake, sends, recvs, closes, accepted,
                 delivered, returned>>

SendClosed(th) ==
  /\ Entered(th, "send")
  /\ closed[arg[th].ch]
  /\ Drop(th)

(* Mutant: the buffer is tried without looking for a receiver. *)
IgnoreReceivers(c) == ~closed[c]

(* The channel is open and no receiver waits for a direct handoff. *)
NoReceiver(c) == ~closed[c] /\ blocked_receivers[c] = << >>

SendHandoff(th) ==
  LET c == arg[th].ch  r == Head(blocked_receivers[c]) IN
  /\ Entered(th, "send")
  /\ ~closed[c] /\ blocked_receivers[c] # << >>
  /\ blocked_receivers' = [blocked_receivers EXCEPT ![c] = Tail(@)]
  /\ recv_value' = [recv_value EXCEPT ![r] = arg[th].val]
  /\ has_recv' = [has_recv EXCEPT ![r] = TRUE]
  /\ wake' = [wake EXCEPT ![th] = r]
  /\ Goto(th, "send", "wake")
  /\ accepted' = [accepted EXCEPT ![c] = Append(@, arg[th].val)]
  /\ delivered' = [delivered EXCEPT ![c] = Append(@, arg[th].val)]
  /\ UNCHANGED <<ready, initialised, created, saved, ringVars, closed,
                 blocked_senders, lock, cur, arg, sends, recvs, closes,
                 returned, dropped>>

SendBuffer(th) ==
  LET c == arg[th].ch IN
  /\ Entered(th, "send")
  /\ NoReceiver(c)
  /\ Capacity[c] > 0 /\ count[c] < Capacity[c]
  /\ PushBuffer(c, arg[th].val)
  /\ Finish(th, "send")
  /\ accepted' = [accepted EXCEPT ![c] = Append(@, arg[th].val)]
  /\ UNCHANGED <<ready, initialised, created, taskVars, closed, waitVars,
                 lock, wake, sends, recvs, closes, delivered, returned,
                 dropped>>

NoRoom(c) ==
  /\ NoReceiver(c)
  /\ ~(Capacity[c] > 0 /\ count[c] < Capacity[c])

(* With a continuation the task waits; the value stays in its saved call. *)
SendBlock(th) ==
  LET c == arg[th].ch IN
  /\ Entered(th, "send") /\ NoRoom(c) /\ Cps(th)
  /\ blocked_senders' = [blocked_senders EXCEPT ![c] = Append(@, cur[th])]
  /\ Goto(th, "send", "yield")
  /\ UNCHANGED <<ready, initialised, created, taskVars, saved, ringVars,
                 closed, blocked_receivers, lock, cur, arg, wake, obsVars>>

(* Without one the call returns and the value is gone. *)
SendDrop(th) ==
  /\ Entered(th, "send") /\ NoRoom(arg[th].ch) /\ ~Cps(th)
  /\ Drop(th)

(* sched_enqueue(receiver) or sched_enqueue(sender), after the unlock. *)
Wake(th) ==
  /\ Finish(th, "wake")
  /\ Enqueue(wake[th])
  /\ wake' = [wake EXCEPT ![th] = NULL]
  /\ UNCHANGED <<initialised, created, taskVars, ringVars, closed, waitVars,
                 lock, obsVars>>

(***************************************************************************)
(* __visuall_chan_recv                                                     *)
(***************************************************************************)
(* Mutant: the head stays. *)
PopBufferInPlace(c) ==
  /\ count' = [count EXCEPT ![c] = @ - 1]
  /\ delivered' = [delivered EXCEPT ![c] = Append(@, buffer[c][head[c]])]
  /\ returned' = returned \cup {buffer[c][head[c]]}
  /\ UNCHANGED <<buffer, head, tail>>

PopBuffer(c) ==
  /\ head' = [head EXCEPT ![c] = (@ + 1) % Capacity[c]]
  /\ count' = [count EXCEPT ![c] = @ - 1]
  /\ delivered' = [delivered EXCEPT ![c] = Append(@, buffer[c][head[c]])]
  /\ returned' = returned \cup {buffer[c][head[c]]}
  /\ UNCHANGED <<buffer, tail>>

(* Mutant: the resumed receiver does not look at has_recv. *)
NeverHandedOver(th) == FALSE

HandedOver(th) == Cps(th) /\ has_recv[cur[th]]

RecvHandoff(th) ==
  /\ Entered(th, "recv") /\ HandedOver(th)
  /\ has_recv' = [has_recv EXCEPT ![cur[th]] = FALSE]
  /\ recv_value' = [recv_value EXCEPT ![cur[th]] = 0]
  /\ returned' = returned \cup {recv_value[cur[th]]}
  /\ Finish(th, "recv")
  /\ UNCHANGED <<ready, initialised, created, ringVars, closed, waitVars,
                 lock, wake, sends, recvs, closes, accepted, delivered,
                 dropped>>

(* Mutant: the sender is looked at but stays on the blocked queue. *)
PeekSender(th, c) ==
  /\ Entered(th, "recv") /\ ~HandedOver(th)
  /\ blocked_senders[c] # << >>
  /\ wake' = [wake EXCEPT ![th] = Head(blocked_senders[c])]
  /\ UNCHANGED blocked_senders

TakeSender(th, c) ==
  /\ Entered(th, "recv") /\ ~HandedOver(th)
  /\ blocked_senders[c] # << >>
  /\ blocked_senders' = [blocked_senders EXCEPT ![c] = Tail(@)]
  /\ wake' = [wake EXCEPT ![th] = Head(blocked_senders[c])]

RecvPairBuffered(th) ==
  LET c == arg[th].ch IN
  /\ TakeSender(th, c)
  /\ count[c] > 0 /\ PopBuffer(c)
  /\ Goto(th, "recv", "wake")
  /\ UNCHANGED <<ready, initialised, created, taskVars, saved, closed,
                 blocked_receivers, lock, cur, arg, sends, recvs, closes,
                 accepted, dropped>>

(* No value yet: the lock is released to wake the sender, then retaken. *)
RecvPairEmpty(th) ==
  LET c == arg[th].ch IN
  /\ TakeSender(th, c)
  /\ count[c] = 0
  /\ Goto(th, "recv", "rewake")
  /\ UNCHANGED <<ready, initialised, created, taskVars, saved, ringVars,
                 closed, blocked_receivers, lock, cur, arg, obsVars>>

Rewake(th) ==
  /\ Goto(th, "rewake", "relock")
  /\ Enqueue(wake[th])
  /\ wake' = [wake EXCEPT ![th] = NULL]
  /\ UNCHANGED <<initialised, created, taskVars, saved, ringVars, closed,
                 waitVars, lock, cur, arg, obsVars>>

(* The code after the pairing attempt. *)
FellThrough(th) ==
  \/ Entered(th, "recv") /\ ~HandedOver(th) /\ blocked_senders[arg[th].ch] = << >>
  \/ Entered(th, "relock")

RecvBuffer(th) ==
  LET c == arg[th].ch IN
  /\ FellThrough(th)
  /\ count[c] > 0 /\ PopBuffer(c)
  /\ Finish(th, pc[th])
  /\ UNCHANGED <<ready, initialised, created, taskVars, closed, waitVars,
                 lock, wake, sends, recvs, closes, accepted, dropped>>

(* There is no test of closed here. *)
RecvBlock(th) ==
  LET c == arg[th].ch IN
  /\ FellThrough(th) /\ count[c] = 0 /\ Cps(th)
  /\ blocked_receivers' = [blocked_receivers EXCEPT ![c] = Append(@, cur[th])]
  /\ Goto(th, pc[th], "yield")
  /\ UNCHANGED <<ready, initialised, created, taskVars, saved, ringVars,
                 closed, blocked_senders, lock, cur, arg, wake, obsVars>>

(* Returns 0, which is no value that was sent. *)
RecvNothing(th) ==
  /\ FellThrough(th) /\ count[arg[th].ch] = 0 /\ ~Cps(th)
  /\ Finish(th, pc[th])
  /\ returned' = returned \cup {0}
  /\ UNCHANGED <<ready, initialised, created, taskVars, ringVars, closed,
                 waitVars, lock, wake, sends, recvs, closes, accepted,
                 delivered, dropped>>

(***************************************************************************)
(* __visuall_chan_close: holds the channel lock over every sched_enqueue.  *)
(***************************************************************************)
Close(th, c) ==
  /\ closes < MaxCloses /\ lock[c] = NULL
  /\ Goto(th, "run", "close")
  /\ closes' = closes + 1
  /\ closed' = [closed EXCEPT ![c] = TRUE]
  /\ lock' = [lock EXCEPT ![c] = th]
  /\ arg' = [arg EXCEPT ![th] = [Idle EXCEPT !.ch = c]]
  /\ UNCHANGED <<ready, initialised, created, taskVars, saved, ringVars,
                 waitVars, cur, wake, sends, recvs, accepted, delivered,
                 returned, dropped>>

CloseWakeReceiver(th) ==
  LET c == arg[th].ch IN
  /\ pc[th] = "close" /\ blocked_receivers[c] # << >>
  /\ blocked_receivers' = [blocked_receivers EXCEPT ![c] = Tail(@)]
  /\ Enqueue(Head(blocked_receivers[c]))
  /\ UNCHANGED <<initialised, created, taskVars, saved, ringVars, closed,
                 blocked_senders, lock, pc, cur, arg, wake, obsVars>>

CloseWakeSender(th) ==
  LET c == arg[th].ch IN
  /\ pc[th] = "close"
  /\ blocked_receivers[c] = << >> /\ blocked_senders[c] # << >>
  /\ blocked_senders' = [blocked_senders EXCEPT ![c] = Tail(@)]
  /\ Enqueue(Head(blocked_senders[c]))
  /\ UNCHANGED <<initialised, created, taskVars, saved, ringVars, closed,
                 blocked_receivers, lock, pc, cur, arg, wake, obsVars>>

(* Mutant: chan_close wakes the receivers only. *)
NoReceiverWaits(c) == blocked_receivers[c] = << >>

(* Both loops of chan_close have emptied their queue. *)
NoneWaits(c) == blocked_receivers[c] = << >> /\ blocked_senders[c] = << >>

CloseUnlock(th) ==
  LET c == arg[th].ch IN
  /\ Goto(th, "close", "run")
  /\ NoneWaits(c)
  /\ lock' = [lock EXCEPT ![c] = NULL]
  /\ arg' = [arg EXCEPT ![th] = Idle]
  /\ UNCHANGED <<ready, initialised, created, taskVars, saved, ringVars,
                 closed, waitVars, cur, wake, obsVars>>

-----------------------------------------------------------------------------
SendStep(th) ==
  \/ SendClosed(th) \/ SendHandoff(th) \/ SendBuffer(th)
  \/ SendBlock(th) \/ SendDrop(th)

RecvStep(th) ==
  \/ RecvHandoff(th) \/ RecvPairBuffered(th) \/ RecvPairEmpty(th)
  \/ Rewake(th) \/ RecvBuffer(th) \/ RecvBlock(th) \/ RecvNothing(th)

CloseStep(th) ==
  CloseWakeReceiver(th) \/ CloseWakeSender(th) \/ CloseUnlock(th)

(* What a thread does inside the runtime, as opposed to user code. *)
RuntimeStep(th) == SendStep(th) \/ Wake(th) \/ RecvStep(th) \/ CloseStep(th)

UserStep(th) ==
  \/ \E t \in Task : GoCreate(th, t)
  \/ \E c \in Chan, cps \in BOOLEAN : StartSend(th, c, cps) \/ StartRecv(th, c, cps)
  \/ \E c \in Chan : Close(th, c)

Next ==
  \/ \E w \in Worker : WorkerTake(w) \/ WorkerReturn(w)
  \/ \E th \in Thread : RuntimeStep(th) \/ UserStep(th)

Spec == Init /\ [][Next]_vars

(***************************************************************************)
(* Every thread keeps running, and the function of a goroutine returns.    *)
(* Nothing obliges user code to make a call.                               *)
(***************************************************************************)
Fairness ==
  /\ \A w \in Worker : WF_vars(WorkerTake(w)) /\ WF_vars(WorkerReturn(w))
  /\ \A th \in Thread : WF_vars(RuntimeStep(th))

FairSpec == Spec /\ Fairness

-----------------------------------------------------------------------------
(***************************************************************************)
(* Properties.                                                             *)
(***************************************************************************)
Elems(s) == {s[i] : i \in DOMAIN s}
Distinct(s) == \A i, j \in DOMAIN s : s[i] = s[j] => i = j

Inside == {"send", "recv", "relock", "wake", "rewake", "close"}
Busy(th) == pc[th] \in Inside \cup {"run"}

TaskTypes ==
  /\ ready \in Seq(Task) /\ initialised \in BOOLEAN /\ created \subseteq Task
  /\ has_recv \in [Task -> BOOLEAN] /\ recv_value \in [Task -> Nat]
  /\ saved \in [Task -> Call \cup {Idle}]
  /\ blocked_senders \in [Chan -> Seq(Task)]
  /\ blocked_receivers \in [Chan -> Seq(Task)]

RingTypes ==
  /\ buffer = [c \in Chan |-> buffer[c]]
  /\ head \in [Chan -> Nat] /\ tail \in [Chan -> Nat] /\ count \in [Chan -> Nat]
  /\ \A c \in Chan :
       /\ buffer[c] \in [0 .. Capacity[c] - 1 -> Nat]
       /\ count[c] <= Capacity[c]
       /\ Capacity[c] > 0 => head[c] < Capacity[c] /\ tail[c] < Capacity[c]

ThreadTypes ==
  /\ closed \in [Chan -> BOOLEAN]
  /\ lock \in [Chan -> Thread \cup {NULL}]
  /\ pc \in [Thread -> Inside \cup {"idle", "run", "yield"}]
  /\ cur \in [Thread -> Task \cup {NULL}]
  /\ arg \in [Thread -> Call \cup {Idle} \cup [kind: {"none"}, ch: Chan, val: {0}]]
  /\ wake \in [Thread -> Task \cup {NULL}]

ObsTypes ==
  /\ sends \in Nat /\ recvs \in Nat /\ closes \in Nat
  /\ accepted \in [Chan -> Seq(Nat)] /\ delivered \in [Chan -> Seq(Nat)]
  /\ returned \subseteq Nat /\ dropped \subseteq Nat \X BOOLEAN

(* Every variable keeps to the values its C declaration and use allow; the *)
(* indices and the count of a ring buffer stay inside its allocation.      *)
TypeOK == TaskTypes /\ RingTypes /\ ThreadTypes /\ ObsTypes

(* Control points and registers of the threads agree. *)
ControlOK ==
  /\ cur[Main] = NULL /\ pc[Main] \notin {"idle", "yield"}
  /\ \A w \in Worker : pc[w] = "idle" <=> cur[w] = NULL
  /\ \A th \in Thread : pc[th] \in Inside => arg[th].ch \in Chan
  /\ \A th \in Thread : pc[th] \in {"wake", "rewake"} <=> wake[th] # NULL

(* The places that hold a task: the ready queue, the blocked queues of the *)
(* channels, a thread about to enqueue it, a worker executing it.          *)
Place ==
  {<<"ready", NULL>>} \cup ({"senders", "receivers"} \X Chan)
    \cup ({"wake", "exec"} \X Thread)

Holds(p, t) ==
  CASE p[1] = "ready"     -> t \in Elems(ready)
    [] p[1] = "senders"   -> t \in Elems(blocked_senders[p[2]])
    [] p[1] = "receivers" -> t \in Elems(blocked_receivers[p[2]])
    [] p[1] = "wake"      -> wake[p[2]] = t
    [] p[1] = "exec"      -> cur[p[2]] = t /\ Busy(p[2])

(* VisuallTask has a single next pointer: a task is on at most one of the  *)
(* ready and blocked queues, once, and no worker executes a queued task.   *)
OneQueue ==
  /\ \A t \in Task : \A p, q \in Place : Holds(p, t) /\ Holds(q, t) => p = q
  /\ Distinct(ready)
  /\ \A c \in Chan : Distinct(blocked_senders[c]) /\ Distinct(blocked_receivers[c])

(* A receiver waits only at an empty buffer, so chan_send can hand its     *)
(* value to the receiver without overtaking a buffered one.                *)
ReceiverMeansEmpty ==
  \A c \in Chan : blocked_receivers[c] # << >> => count[c] = 0

(* No delivered value is lost: each was returned by a chan_recv or is in   *)
(* recv_value of exactly one task, whose has_recv says so, and which no    *)
(* other sender can find on a blocked queue and overwrite.                 *)
NoDeliveredValueLost ==
  LET held == {t \in Task : has_recv[t]}
      out  == UNION {Elems(delivered[c]) : c \in Chan} IN
  /\ out = (returned \ {0}) \cup {recv_value[t] : t \in held}
  /\ \A t \in held : recv_value[t] \notin returned
  /\ \A t, u \in held : recv_value[t] = recv_value[u] => t = u
  /\ \A t \in held, c \in Chan : t \notin Elems(blocked_receivers[c])

(* Repeating a send does not repeat its effect: a channel takes a value at *)
(* most once, one channel only, and not a value that chan_send gave up,    *)
(* however often the sender blocked and was resumed.                       *)
SentOnce ==
  /\ \A c \in Chan : Distinct(accepted[c])
  /\ \A c, d \in Chan : Elems(accepted[c]) \cap Elems(accepted[d]) # {} => c = d
  /\ \A x \in dropped, c \in Chan : x[1] \notin Elems(accepted[c])

(* Refinement: the ring buffer, handoff and close implement FifoChannel.   *)
Buffered(c) == [i \in 1 .. count[c] |-> buffer[c][(head[c] + i - 1) % Capacity[c]]]
Fifo == INSTANCE FifoChannel
          WITH queue <- [c \in Chan |-> Buffered(c)], Value <- 1 .. MaxSends
FifoSpec == Fifo!Spec

(* A task that go_create, a channel operation or chan_close made ready is  *)
(* executed by some worker.                                                *)
ReadyTaskRuns ==
  \A t \in Task :
    (t \in Elems(ready) \/ \E th \in Thread : wake[th] = t)
      ~> (\E w \in Worker : cur[w] = t /\ Busy(w))

(* A sender blocked on a channel that is then closed is woken, finds it    *)
(* closed and gets past its send.                                          *)
ClosedReleasesSenders ==
  \A t \in Task, c \in Chan :
    (closed[c] /\ saved[t].kind = "send" /\ saved[t].ch = c) ~> saved[t] = Idle

(* Not so for receivers, although the source says it of both:              *)
(* scheduler.c "so they can observe closed": a receiver that is waiting on *)
(* the channel when chan_close takes its lock, and is woken by it, gets    *)
(* past its receive.                                                       *)
ClosedReleasesReceivers ==
  \A t \in Task, c \in Chan :
    (lock[c] # NULL /\ t \in Elems(blocked_receivers[c])) ~> saved[t] = Idle
=============================================================================
