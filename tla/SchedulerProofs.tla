-------------------------- MODULE SchedulerProofs --------------------------
(***************************************************************************)
(* Proofs about Scheduler for every set of tasks, channels and workers,    *)
(* every capacity and every bound.                                         *)
(***************************************************************************)
EXTENDS Scheduler, TLAPS

(* The value past the end of a queue. *)
LEMMA ElemsAppend ==
  ASSUME NEW S, NEW s \in Seq(S), NEW x \in S
  PROVE  /\ Append(s, x) \in Seq(S)
         /\ Elems(Append(s, x)) = Elems(s) \cup {x}
         /\ x \notin Elems(s) /\ Distinct(s) => Distinct(Append(s, x))
<1>1. Append(s, x) \in Seq(S) OBVIOUS
<1>2. DOMAIN Append(s, x) = DOMAIN s \cup {Len(s) + 1} OBVIOUS
<1>3. \A i \in DOMAIN s : Append(s, x)[i] = s[i] OBVIOUS
<1>4. Append(s, x)[Len(s) + 1] = x /\ Len(s) + 1 \notin DOMAIN s OBVIOUS
<1>5. Elems(Append(s, x)) = Elems(s) \cup {x}
  BY <1>2, <1>3, <1>4 DEF Elems
<1>6. x \notin Elems(s) /\ Distinct(s) => Distinct(Append(s, x))
  BY <1>2, <1>3, <1>4 DEF Elems, Distinct
<1> QED BY <1>1, <1>5, <1>6

(* The value taken from the front of a queue. *)
LEMMA ElemsTail ==
  ASSUME NEW S, NEW s \in Seq(S), s # << >>, Distinct(s)
  PROVE  /\ Tail(s) \in Seq(S) /\ Head(s) \in S /\ Head(s) \in Elems(s)
         /\ Elems(Tail(s)) = Elems(s) \ {Head(s)}
         /\ Distinct(Tail(s))
<1>1. Tail(s) \in Seq(S) /\ Head(s) \in S OBVIOUS
<1>2. /\ Len(s) \in Nat \ {0} /\ DOMAIN s = 1 .. Len(s) /\ Head(s) = s[1]
      /\ DOMAIN Tail(s) = 1 .. Len(s) - 1
      /\ \A i \in 1 .. Len(s) - 1 : Tail(s)[i] = s[i + 1]
  OBVIOUS
<1>3. Distinct(Tail(s)) BY <1>2 DEF Distinct
<1>4. Head(s) \in Elems(s) BY <1>2 DEF Elems
<1>5. ASSUME NEW y PROVE y \in Elems(Tail(s)) <=> y \in Elems(s) \ {Head(s)}
  <2>1. ASSUME y \in Elems(Tail(s)) PROVE y \in Elems(s) \ {Head(s)}
    <3>1. PICK i \in 1 .. Len(s) - 1 : y = s[i + 1] BY <1>2, <2>1 DEF Elems
    <3> QED BY <1>2, <3>1 DEF Elems, Distinct
  <2>2. ASSUME y \in Elems(s), y # Head(s) PROVE y \in Elems(Tail(s))
    <3>1. PICK i \in 1 .. Len(s) : y = s[i] BY <1>2, <2>2 DEF Elems
    <3>2. i - 1 \in 1 .. Len(s) - 1 /\ y = Tail(s)[i - 1] BY <1>2, <2>2, <3>1
    <3> QED BY <1>2, <3>2 DEF Elems
  <2> QED BY <2>1, <2>2
<1> QED BY <1>1, <1>3, <1>4, <1>5

-----------------------------------------------------------------------------
(***************************************************************************)
(* Type correctness.                                                       *)
(***************************************************************************)
TypeInv == TypeOK /\ ControlOK

USE DEF TypeInv, TypeOK

(* The channel of a call in progress, and what a thread's registers hold. *)
LEMMA Registers ==
  ASSUME TypeInv, NEW th \in Thread
  PROVE  /\ pc[th] \in Inside => arg[th].ch \in Chan
         /\ pc[th] \in {"wake", "rewake"} => wake[th] \in Task
         /\ cur[th] # NULL => cur[th] \in Task
         /\ arg[th].val \in Nat
BY DEF ThreadTypes, ControlOK, Call, Idle

LEMMA InitType == Init => TypeInv
<1> SUFFICES ASSUME Init PROVE TypeInv OBVIOUS
<1> USE ConstantsAssumption DEF Init
<1>1. \A c \in Chan : Capacity[c] \in Nat OBVIOUS
<1>2. Main \in Thread /\ \A w \in Worker : w \in Thread /\ w # Main BY DEF Thread
<1>3. ControlOK BY <1>2 DEF ControlOK, Inside
<1>4. /\ buffer = [c \in Chan |-> buffer[c]]
      /\ \A c \in Chan : buffer[c] \in [0 .. Capacity[c] - 1 -> Nat]
  BY <1>1
<1>5. arg \in [Thread -> Call \cup {Idle} \cup [kind: {"none"}, ch: Chan, val: {0}]]
  OBVIOUS
<1>6. /\ pc \in [Thread -> Inside \cup {"idle", "run", "yield"}]
      /\ lock \in [Chan -> Thread \cup {NULL}]
      /\ cur \in [Thread -> Task \cup {NULL}] /\ wake \in [Thread -> Task \cup {NULL}]
  BY DEF Inside
<1>7. /\ blocked_senders \in [Chan -> Seq(Task)]
      /\ blocked_receivers \in [Chan -> Seq(Task)]
      /\ accepted \in [Chan -> Seq(Nat)] /\ delivered \in [Chan -> Seq(Nat)]
      /\ ready \in Seq(Task)
  OBVIOUS
<1>8. /\ has_recv \in [Task -> BOOLEAN] /\ recv_value \in [Task -> Nat]
      /\ saved \in [Task -> Call \cup {Idle}] /\ closed \in [Chan -> BOOLEAN]
  OBVIOUS
<1>9. /\ head \in [Chan -> Nat] /\ tail \in [Chan -> Nat] /\ count \in [Chan -> Nat]
      /\ \A c \in Chan : /\ count[c] <= Capacity[c]
                         /\ Capacity[c] > 0 => head[c] < Capacity[c] /\ tail[c] < Capacity[c]
  BY <1>1
<1>10. TypeOK BY <1>4, <1>5, <1>6, <1>7, <1>8, <1>9 DEF TaskTypes, RingTypes, ThreadTypes, ObsTypes
<1> QED BY <1>3, <1>10

LEMMA ModRange ==
  ASSUME NEW a \in Nat, NEW n \in Nat \ {0}
  PROVE  a % n \in 0 .. n - 1
OBVIOUS

(* A push into a ring with room and a pop from a ring that is not empty    *)
(* keep its indices and its count inside the allocation.                   *)
LEMMA RingPush ==
  ASSUME RingTypes, NEW c \in Chan, NEW v \in Nat, PushBuffer(c, v),
         Capacity[c] > 0, count[c] < Capacity[c]
  PROVE  RingTypes'
<1>1. \A d \in Chan : Capacity[d] \in Nat BY ConstantsAssumption
<1>2. /\ head \in [Chan -> Nat] /\ tail \in [Chan -> Nat] /\ count \in [Chan -> Nat]
      /\ buffer = [d \in Chan |-> buffer[d]]
  BY DEF RingTypes
<1>3. tail[c] + 1 \in Nat /\ Capacity[c] \in Nat \ {0} BY <1>1, <1>2
<1>4. (tail[c] + 1) % Capacity[c] \in 0 .. Capacity[c] - 1 BY <1>3, ModRange
<1>5. /\ head' = head
      /\ tail' = [tail EXCEPT ![c] = (tail[c] + 1) % Capacity[c]]
      /\ count' = [count EXCEPT ![c] = count[c] + 1]
      /\ buffer' = [buffer EXCEPT ![c] = [buffer[c] EXCEPT ![tail[c]] = v]]
  BY DEF PushBuffer
<1>6. /\ head' \in [Chan -> Nat] /\ tail' \in [Chan -> Nat] /\ count' \in [Chan -> Nat]
      /\ buffer' = [d \in Chan |-> buffer'[d]]
  <2>1. (tail[c] + 1) % Capacity[c] \in Nat /\ count[c] + 1 \in Nat BY <1>2, <1>3, <1>4
  <2>2. tail' \in [Chan -> Nat] BY <1>2, <1>5, <2>1
  <2>3. count' \in [Chan -> Nat] BY <1>2, <1>5, <2>1
  <2>4. buffer' = [d \in Chan |-> buffer'[d]] BY <1>2, <1>5
  <2> QED BY <1>2, <1>5, <2>2, <2>3, <2>4
<1>7. ASSUME NEW d \in Chan
      PROVE  /\ buffer'[d] \in [0 .. Capacity[d] - 1 -> Nat]
             /\ count'[d] <= Capacity[d]
             /\ Capacity[d] > 0 => head'[d] < Capacity[d] /\ tail'[d] < Capacity[d]
  <2>1. /\ buffer[d] \in [0 .. Capacity[d] - 1 -> Nat]
        /\ count[d] <= Capacity[d]
        /\ Capacity[d] > 0 => head[d] < Capacity[d] /\ tail[d] < Capacity[d]
    BY DEF RingTypes
  <2>2. CASE d = c
    <3>1. count'[d] = count[c] + 1 /\ tail'[d] = (tail[c] + 1) % Capacity[c] /\ head'[d] = head[c]
      BY <1>2, <1>5, <2>2
    <3>2. buffer'[d] = [buffer[c] EXCEPT ![tail[c]] = v] BY <1>2, <1>5, <2>2
    <3>3. buffer'[d] \in [0 .. Capacity[d] - 1 -> Nat] BY <2>1, <2>2, <3>2
    <3> QED BY <1>1, <1>2, <1>4, <2>1, <2>2, <3>1, <3>3
  <2>3. CASE d # c
    <3>1. count'[d] = count[d] /\ tail'[d] = tail[d] /\ head'[d] = head[d] /\ buffer'[d] = buffer[d]
      BY <1>2, <1>5, <2>3
    <3> QED BY <2>1, <3>1
  <2> QED BY <2>2, <2>3
<1> QED BY <1>6, <1>7 DEF RingTypes

LEMMA RingPop ==
  ASSUME RingTypes, ObsTypes, NEW c \in Chan, PopBuffer(c), count[c] > 0
  PROVE  /\ RingTypes'
         /\ delivered' \in [Chan -> Seq(Nat)] /\ returned' \subseteq Nat
<1>1. \A d \in Chan : Capacity[d] \in Nat BY ConstantsAssumption
<1>2. /\ head \in [Chan -> Nat] /\ tail \in [Chan -> Nat] /\ count \in [Chan -> Nat]
      /\ buffer = [d \in Chan |-> buffer[d]]
      /\ count[c] <= Capacity[c]
  BY DEF RingTypes
<1>3. head[c] + 1 \in Nat /\ Capacity[c] \in Nat \ {0} BY <1>1, <1>2
<1>4. (head[c] + 1) % Capacity[c] \in 0 .. Capacity[c] - 1 BY <1>3, ModRange
<1>5. /\ buffer' = buffer /\ tail' = tail
      /\ head' = [head EXCEPT ![c] = (head[c] + 1) % Capacity[c]]
      /\ count' = [count EXCEPT ![c] = count[c] - 1]
      /\ delivered' = [delivered EXCEPT ![c] = Append(delivered[c], buffer[c][head[c]])]
      /\ returned' = returned \cup {buffer[c][head[c]]}
  BY DEF PopBuffer
<1>6. count[c] - 1 \in Nat BY <1>2
<1>7. /\ head' \in [Chan -> Nat] /\ tail' \in [Chan -> Nat] /\ count' \in [Chan -> Nat]
      /\ buffer' = [d \in Chan |-> buffer'[d]]
  BY <1>1, <1>2, <1>4, <1>5, <1>6
<1>8. ASSUME NEW d \in Chan
      PROVE  /\ buffer'[d] \in [0 .. Capacity[d] - 1 -> Nat]
             /\ count'[d] <= Capacity[d]
             /\ Capacity[d] > 0 => head'[d] < Capacity[d] /\ tail'[d] < Capacity[d]
  <2>1. /\ buffer[d] \in [0 .. Capacity[d] - 1 -> Nat]
        /\ count[d] <= Capacity[d]
        /\ Capacity[d] > 0 => head[d] < Capacity[d] /\ tail[d] < Capacity[d]
    BY DEF RingTypes
  <2>2. count'[d] = (IF d = c THEN count[c] - 1 ELSE count[d])
    BY <1>2, <1>5
  <2>3. head'[d] = (IF d = c THEN (head[c] + 1) % Capacity[c] ELSE head[d])
    BY <1>2, <1>5
  <2> QED BY <1>1, <1>2, <1>4, <1>5, <2>1, <2>2, <2>3
<1>9. buffer[c][head[c]] \in Nat
  <2>1. /\ buffer[c] \in [0 .. Capacity[c] - 1 -> Nat]
        /\ Capacity[c] > 0 => head[c] < Capacity[c]
    BY DEF RingTypes
  <2>2. head[c] \in 0 .. Capacity[c] - 1 BY <1>2, <1>3, <2>1
  <2> QED BY <2>1, <2>2
<1>10. delivered \in [Chan -> Seq(Nat)] /\ returned \subseteq Nat BY DEF ObsTypes
<1>11. delivered' \in [Chan -> Seq(Nat)] /\ returned' \subseteq Nat
  <2>1. delivered[c] \in Seq(Nat) BY <1>10
  <2>2. Append(delivered[c], buffer[c][head[c]]) \in Seq(Nat) BY <1>9, <2>1, ElemsAppend
  <2> QED BY <1>5, <1>9, <1>10, <2>2
<1> QED BY <1>7, <1>8, <1>11 DEF RingTypes

ArgType == Call \cup {Idle} \cup [kind: {"none"}, ch: Chan, val: {0}]

(* The registers of a thread before a step, and the values they may take. *)
LEMMA Local ==
  ASSUME TypeInv, NEW th \in Thread
  PROVE  /\ pc[th] \in Inside \cup {"idle", "run", "yield"}
         /\ cur[th] \in Task \cup {NULL} /\ wake[th] \in Task \cup {NULL}
         /\ arg[th] \in ArgType
         /\ th = Main => cur[th] = NULL /\ pc[th] \notin {"idle", "yield"}
         /\ th \in Worker => (pc[th] = "idle" <=> cur[th] = NULL)
         /\ pc[th] \in Inside => arg[th].ch \in Chan
         /\ pc[th] \in {"wake", "rewake"} <=> wake[th] # NULL
         /\ pc = [pc EXCEPT ![th] = pc[th]]
         /\ cur = [cur EXCEPT ![th] = cur[th]]
         /\ arg = [arg EXCEPT ![th] = arg[th]]
         /\ wake = [wake EXCEPT ![th] = wake[th]]
BY DEF ThreadTypes, ControlOK, ArgType

(* A step that changes the registers of one thread to consistent values. *)
LEMMA Move ==
  ASSUME TypeInv, NEW th \in Thread,
         NEW p \in Inside \cup {"idle", "run", "yield"}, NEW a \in ArgType,
         NEW k \in Task \cup {NULL}, NEW w \in Task \cup {NULL},
         pc' = [pc EXCEPT ![th] = p], cur' = [cur EXCEPT ![th] = k],
         arg' = [arg EXCEPT ![th] = a], wake' = [wake EXCEPT ![th] = w],
         closed' \in [Chan -> BOOLEAN], lock' \in [Chan -> Thread \cup {NULL}],
         th = Main => k = NULL /\ p \notin {"idle", "yield"},
         th \in Worker => (p = "idle" <=> k = NULL),
         p \in Inside => a.ch \in Chan,
         p \in {"wake", "rewake"} <=> w # NULL
  PROVE  ThreadTypes' /\ ControlOK'
<1>1. /\ pc \in [Thread -> Inside \cup {"idle", "run", "yield"}]
      /\ cur \in [Thread -> Task \cup {NULL}]
      /\ arg \in [Thread -> ArgType] /\ wake \in [Thread -> Task \cup {NULL}]
  BY DEF ThreadTypes, ArgType
<1>2. /\ pc' \in [Thread -> Inside \cup {"idle", "run", "yield"}]
      /\ cur' \in [Thread -> Task \cup {NULL}]
      /\ arg' \in [Thread -> ArgType] /\ wake' \in [Thread -> Task \cup {NULL}]
  BY <1>1
<1>3. ThreadTypes' BY <1>2 DEF ThreadTypes, ArgType
<1>4. /\ pc'[th] = p /\ cur'[th] = k /\ arg'[th] = a /\ wake'[th] = w
      /\ \A x \in Thread \ {th} : /\ pc'[x] = pc[x] /\ cur'[x] = cur[x]
                                  /\ arg'[x] = arg[x] /\ wake'[x] = wake[x]
  BY <1>1
<1>5. Main \in Thread /\ \A x \in Worker : x \in Thread BY DEF Thread
<1>6. cur'[Main] = NULL /\ pc'[Main] \notin {"idle", "yield"}
  BY <1>4, <1>5 DEF ControlOK
<1>7. \A x \in Worker : pc'[x] = "idle" <=> cur'[x] = NULL
  BY <1>4, <1>5 DEF ControlOK
<1>8. \A x \in Thread : pc'[x] \in Inside => arg'[x].ch \in Chan
  BY <1>4 DEF ControlOK
<1>9. \A x \in Thread : pc'[x] \in {"wake", "rewake"} <=> wake'[x] # NULL
  BY <1>4 DEF ControlOK
<1> QED BY <1>3, <1>6, <1>7, <1>8, <1>9 DEF ControlOK

LEMMA RingKept == RingTypes /\ UNCHANGED ringVars => RingTypes'
BY DEF RingTypes, ringVars

(* Finish: the thread leaves its channel call, its task saves nothing. *)
LEMMA FinishType ==
  ASSUME TypeInv, NEW th \in Thread, NEW from \in Inside, Finish(th, from),
         UNCHANGED <<closed, lock>>,
         wake' = [wake EXCEPT ![th] = NULL]
  PROVE  /\ ThreadTypes' /\ ControlOK'
         /\ saved' \in [Task -> Call \cup {Idle}]
<1> DEFINE p == "run"  w == NULL  a == Idle  k == cur[th]
<1>1. pc[th] = from /\ pc' = [pc EXCEPT ![th] = p] BY DEF Finish, Goto
<1>2. cur' = [cur EXCEPT ![th] = k] BY Local DEF Finish
<1>3. arg' = [arg EXCEPT ![th] = a] /\ wake' = [wake EXCEPT ![th] = w]
  BY DEF Finish
<1>4. closed' \in [Chan -> BOOLEAN] /\ lock' \in [Chan -> Thread \cup {NULL}]
  BY DEF ThreadTypes
<1>5. /\ k \in Task \cup {NULL} /\ w \in Task \cup {NULL} /\ a \in ArgType
      /\ th = Main => k = NULL
      /\ th \in Worker => k # NULL
  BY <1>1, Local DEF ArgType, Inside
<1>6. p \notin Inside /\ p \notin {"idle", "yield"} /\ p \notin {"wake", "rewake"} /\ w = NULL
  BY DEF Inside
<1> HIDE DEF p, w, a, k
<1>7. p \in Inside \cup {"idle", "run", "yield"} BY DEF p
<1>8. ThreadTypes' /\ ControlOK'
  BY <1>1, <1>2, <1>3, <1>4, <1>5, <1>6, <1>7, Move
<1>9. saved' \in [Task -> Call \cup {Idle}]
  BY <1>5 DEF Finish, TaskTypes, k
<1> QED BY <1>8, <1>9

(* A step inside a call that only moves the program counter of th. *)
LEMMA GotoType ==
  ASSUME TypeInv, NEW th \in Thread, NEW from \in {"send", "recv", "relock"},
         NEW p \in Inside \cup {"yield"}, Goto(th, from, p),
         UNCHANGED <<closed, lock, cur, arg>>,
         NEW w \in Task \cup {NULL}, wake' = [wake EXCEPT ![th] = w],
         p \in {"wake", "rewake"} <=> w # NULL,
         p = "yield" => cur[th] # NULL
  PROVE  ThreadTypes' /\ ControlOK'
<1> DEFINE a == arg[th]  k == cur[th]
<1>1. pc[th] = from /\ pc' = [pc EXCEPT ![th] = p] BY DEF Goto
<1>2. cur' = [cur EXCEPT ![th] = k] /\ arg' = [arg EXCEPT ![th] = a] BY Local
<1>3. closed' \in [Chan -> BOOLEAN] /\ lock' \in [Chan -> Thread \cup {NULL}]
  BY DEF ThreadTypes
<1>4. /\ k \in Task \cup {NULL} /\ a \in ArgType /\ a.ch \in Chan
      /\ th = Main => k = NULL
      /\ th \in Worker => k # NULL
  BY <1>1, Local DEF Inside
<1>5. p # "idle" /\ (th = Main => p # "yield") BY <1>4 DEF Inside
<1> HIDE DEF a, k
<1> QED BY <1>1, <1>2, <1>3, <1>4, <1>5, Move

(* Waiting tasks: what is taken from the front of a list is a task. *)
LEMMA FrontType ==
  ASSUME NEW s \in Seq(Task), s # << >>
  PROVE  Head(s) \in Task /\ Tail(s) \in Seq(Task)
OBVIOUS

LEMMA TypeGoCreate ==
  ASSUME TypeInv, NEW th \in Thread, NEW t \in Task, GoCreate(th, t)
  PROVE  TypeInv'
<1> USE DEF GoCreate, taskVars, waitVars, obsVars
<1>1. ready' \in Seq(Task) BY ElemsAppend DEF TaskTypes, Enqueue
<1>2. TaskTypes' BY <1>1 DEF TaskTypes
<1>3. RingTypes' BY RingKept
<1>4. ThreadTypes' /\ ControlOK' BY DEF ThreadTypes, ControlOK
<1>5. ObsTypes' BY DEF ObsTypes
<1> QED BY <1>2, <1>3, <1>4, <1>5

LEMMA TypeWorkerTake ==
  ASSUME TypeInv, NEW w \in Worker, WorkerTake(w)
  PROVE  TypeInv'
<1> DEFINE t == Head(ready)
           p == IF saved[t] = Idle THEN "run" ELSE saved[t].kind
           a == saved[t]
           n == NULL
<1> USE DEF taskVars, waitVars, obsVars
<1>1. w \in Thread /\ w # Main BY ConstantsAssumption DEF Thread
<1>2. t \in Task /\ Tail(ready) \in Seq(Task) BY FrontType DEF WorkerTake, TaskTypes
<1>3. TaskTypes' BY <1>2 DEF WorkerTake, TaskTypes
<1>4. RingTypes' BY RingKept DEF WorkerTake
<1>5. ObsTypes' BY DEF ObsTypes, WorkerTake
<1>6. saved[t] \in Call \cup {Idle} BY <1>2 DEF TaskTypes
<1>7. /\ p \in {"run", "send", "recv"} /\ a \in ArgType
      /\ p \in Inside => a.ch \in Chan
  BY <1>6 DEF Call, Inside, ArgType
<1>8. /\ pc[w] = "idle" /\ pc' = [pc EXCEPT ![w] = p] /\ cur' = [cur EXCEPT ![w] = t]
      /\ arg' = [arg EXCEPT ![w] = a]
  BY DEF WorkerTake, Goto
<1>9. wake[w] = NULL /\ wake' = [wake EXCEPT ![w] = n]
  BY <1>1, <1>8, Local DEF WorkerTake
<1>10. /\ closed' \in [Chan -> BOOLEAN] /\ lock' \in [Chan -> Thread \cup {NULL}]
       /\ n \in Task \cup {NULL} /\ n = NULL /\ t # NULL
  BY <1>2, ConstantsAssumption DEF ThreadTypes, WorkerTake
<1>11. p \in Inside \cup {"idle", "run", "yield"} /\ p # "idle" /\ p \notin {"wake", "rewake"}
  BY <1>7 DEF Inside
<1> HIDE DEF p, a, n, t
<1>12. ThreadTypes' /\ ControlOK'
  BY <1>1, <1>2, <1>7, <1>8, <1>9, <1>10, <1>11, Move
<1> QED BY <1>3, <1>4, <1>5, <1>12

LEMMA TypeWorkerReturn ==
  ASSUME TypeInv, NEW w \in Worker, WorkerReturn(w)
  PROVE  TypeInv'
<1> DEFINE p == "idle"  a == Idle  n == NULL
<1> USE DEF taskVars, waitVars, obsVars
<1>1. w \in Thread /\ w # Main BY ConstantsAssumption DEF Thread
<1>2. TaskTypes' BY DEF WorkerReturn, TaskTypes
<1>3. RingTypes' BY RingKept DEF WorkerReturn
<1>4. ObsTypes' BY DEF ObsTypes, WorkerReturn
<1>5. /\ pc[w] \in {"run", "yield"} /\ pc' = [pc EXCEPT ![w] = p]
      /\ cur' = [cur EXCEPT ![w] = n] /\ arg' = [arg EXCEPT ![w] = a]
  BY DEF WorkerReturn, Goto
<1>6. wake[w] = NULL /\ wake' = [wake EXCEPT ![w] = n]
  BY <1>1, <1>5, Local DEF WorkerReturn
<1>7. /\ closed' \in [Chan -> BOOLEAN] /\ lock' \in [Chan -> Thread \cup {NULL}]
      /\ n \in Task \cup {NULL} /\ n = NULL /\ a \in ArgType /\ p = "idle"
      /\ p \notin Inside
  BY DEF ThreadTypes, WorkerReturn, ArgType, Inside
<1> HIDE DEF p, a, n
<1>8. ThreadTypes' /\ ControlOK'
  BY <1>1, <1>5, <1>6, <1>7, Move
<1> QED BY <1>2, <1>3, <1>4, <1>8

LEMMA TypeStartCall ==
  ASSUME TypeInv, NEW th \in Thread, NEW call \in Call, NEW cps \in BOOLEAN,
         StartCall(th, call, cps), sends' \in Nat, recvs' \in Nat
  PROVE  TypeInv'
<1> DEFINE p == call.kind  k == cur[th]  n == NULL
<1> USE DEF taskVars, waitVars
<1>1. saved' \in [Task -> Call \cup {Idle}] BY Local DEF StartCall, TaskTypes
<1>2. TaskTypes' BY <1>1 DEF StartCall, TaskTypes
<1>3. RingTypes' BY RingKept DEF StartCall
<1>4. ObsTypes' BY DEF ObsTypes, StartCall
<1>5. /\ pc[th] = "run" /\ pc' = [pc EXCEPT ![th] = p]
      /\ arg' = [arg EXCEPT ![th] = call]
  BY DEF StartCall, Goto
<1>6. /\ wake' = [wake EXCEPT ![th] = n] /\ cur' = [cur EXCEPT ![th] = k]
      /\ k \in Task \cup {NULL} /\ n \in Task \cup {NULL} /\ n = NULL
      /\ th = Main => k = NULL
      /\ th \in Worker => k # NULL
  BY <1>5, Local DEF StartCall
<1>7. /\ closed' \in [Chan -> BOOLEAN] /\ lock' \in [Chan -> Thread \cup {NULL}]
      /\ p \in {"send", "recv"} /\ call \in ArgType /\ call.ch \in Chan
  BY DEF ThreadTypes, StartCall, ArgType, Call
<1>8. /\ p \in Inside \cup {"idle", "run", "yield"} /\ p \notin {"idle", "yield"}
      /\ p \notin {"wake", "rewake"}
  BY <1>7 DEF Inside
<1> HIDE DEF p, k, n
<1>9. ThreadTypes' /\ ControlOK'
  BY <1>5, <1>6, <1>7, <1>8, Move
<1> QED BY <1>2, <1>3, <1>4, <1>9

LEMMA TypeStart ==
  ASSUME TypeInv, NEW th \in Thread, NEW c \in Chan, NEW cps \in BOOLEAN,
         StartSend(th, c, cps) \/ StartRecv(th, c, cps)
  PROVE  TypeInv'
<1>1. sends \in Nat /\ recvs \in Nat BY DEF ObsTypes
<1>2. CASE StartSend(th, c, cps)
  <2>1. [kind |-> "send", ch |-> c, val |-> sends + 1] \in Call BY <1>1 DEF Call
  <2> QED BY <1>1, <1>2, <2>1, TypeStartCall DEF StartSend
<1>3. CASE StartRecv(th, c, cps)
  <2>1. [kind |-> "recv", ch |-> c, val |-> 0] \in Call BY DEF Call
  <2> QED BY <1>1, <1>3, <2>1, TypeStartCall DEF StartRecv
<1> QED BY <1>2, <1>3

(* chan_send *)
LEMMA TypeDrop ==
  ASSUME TypeInv, NEW th \in Thread, Drop(th)
  PROVE  TypeInv'
<1> USE DEF taskVars, waitVars
<1>1. pc[th] = "send" /\ "send" \in Inside BY DEF Drop, Finish, Goto, Inside
<1>2. arg[th].ch \in Chan /\ arg[th].val \in Nat BY <1>1, Registers
<1>3. wake' = [wake EXCEPT ![th] = NULL] BY <1>1, Local DEF Drop
<1>4. ThreadTypes' /\ ControlOK' /\ saved' \in [Task -> Call \cup {Idle}]
  BY <1>1, <1>3, FinishType DEF Drop
<1>5. TaskTypes' BY <1>4 DEF Drop, TaskTypes
<1>6. RingTypes' BY RingKept DEF Drop
<1>7. closed[arg[th].ch] \in BOOLEAN BY <1>2 DEF ThreadTypes
<1>8. ObsTypes' BY <1>2, <1>7 DEF Drop, ObsTypes
<1> QED BY <1>4, <1>5, <1>6, <1>8

LEMMA TypeSendHandoff ==
  ASSUME TypeInv, NEW th \in Thread, SendHandoff(th)
  PROVE  TypeInv'
<1> DEFINE c == arg[th].ch  r == Head(blocked_receivers[c])
<1>1. pc[th] = "send" /\ pc[th] \in Inside BY DEF SendHandoff, Entered, Inside
<1>2. c \in Chan /\ arg[th].val \in Nat BY <1>1, Registers
<1>3. r \in Task /\ Tail(blocked_receivers[c]) \in Seq(Task)
  BY <1>2, FrontType DEF SendHandoff, TaskTypes
<1>4. r # NULL BY <1>3, ConstantsAssumption
<1>5. TaskTypes' BY <1>2, <1>3 DEF SendHandoff, TaskTypes
<1>6. RingTypes' BY RingKept DEF SendHandoff
<1>7. /\ Append(accepted[c], arg[th].val) \in Seq(Nat)
      /\ Append(delivered[c], arg[th].val) \in Seq(Nat)
  BY <1>2, ElemsAppend DEF ObsTypes
<1>8. ObsTypes' BY <1>2, <1>7 DEF SendHandoff, ObsTypes
<1>9. wake' = [wake EXCEPT ![th] = r] /\ Goto(th, "send", "wake")
      /\ UNCHANGED <<closed, lock, cur, arg>>
  BY DEF SendHandoff
<1> DEFINE from == "send"  p == "wake"
<1> HIDE DEF r
<1>11. /\ from \in {"send", "recv", "relock"} /\ p \in Inside /\ p # "yield"
       /\ p \in {"wake", "rewake"} /\ Goto(th, from, p)
  BY <1>9 DEF Inside
<1> HIDE DEF from, p
<1>10. ThreadTypes' /\ ControlOK' BY <1>3, <1>4, <1>9, <1>11, GotoType
<1> QED BY <1>5, <1>6, <1>8, <1>10

LEMMA TypeSendBuffer ==
  ASSUME TypeInv, NEW th \in Thread, SendBuffer(th)
  PROVE  TypeInv'
<1> DEFINE c == arg[th].ch
<1> USE DEF taskVars, waitVars
<1>1. pc[th] = "send" /\ "send" \in Inside BY DEF SendBuffer, Entered, Inside
<1>2. c \in Chan /\ arg[th].val \in Nat BY <1>1, Registers
<1>3. RingTypes' BY <1>2, RingPush DEF SendBuffer
<1>4. Append(accepted[c], arg[th].val) \in Seq(Nat) BY <1>2, ElemsAppend DEF ObsTypes
<1>5. ObsTypes' BY <1>2, <1>4 DEF SendBuffer, ObsTypes
<1>6. wake' = [wake EXCEPT ![th] = NULL] BY <1>1, Local DEF SendBuffer
<1>7. ThreadTypes' /\ ControlOK' /\ saved' \in [Task -> Call \cup {Idle}]
  BY <1>1, <1>6, FinishType DEF SendBuffer
<1>8. TaskTypes' BY <1>7 DEF SendBuffer, TaskTypes
<1> QED BY <1>3, <1>5, <1>7, <1>8

LEMMA TypeSendBlock ==
  ASSUME TypeInv, NEW th \in Thread, SendBlock(th)
  PROVE  TypeInv'
<1> DEFINE c == arg[th].ch
<1> USE DEF taskVars, obsVars
<1>1. pc[th] = "send" /\ pc[th] \in Inside BY DEF SendBlock, Entered, Inside
<1>2. c \in Chan /\ cur[th] \in Task /\ cur[th] # NULL
  BY <1>1, Registers DEF SendBlock, Cps
<1>3. Append(blocked_senders[c], cur[th]) \in Seq(Task)
  BY <1>2, ElemsAppend DEF TaskTypes
<1>4. TaskTypes' BY <1>2, <1>3 DEF SendBlock, TaskTypes
<1>5. RingTypes' BY RingKept DEF SendBlock
<1>6. ObsTypes' BY DEF SendBlock, ObsTypes
<1>7. wake' = [wake EXCEPT ![th] = NULL] BY <1>1, Local DEF SendBlock
<1> DEFINE from == "send"  p == "yield"  n == NULL
<1>8. /\ from \in {"send", "recv", "relock"} /\ p \in Inside \cup {"yield"}
      /\ p \notin {"wake", "rewake"} /\ n = NULL /\ n \in Task \cup {NULL}
      /\ Goto(th, from, p) /\ wake' = [wake EXCEPT ![th] = n]
      /\ UNCHANGED <<closed, lock, cur, arg>>
  BY <1>7 DEF SendBlock
<1> HIDE DEF from, p, n
<1>9. ThreadTypes' /\ ControlOK' BY <1>2, <1>8, GotoType
<1> QED BY <1>4, <1>5, <1>6, <1>9

LEMMA TypeWake ==
  ASSUME TypeInv, NEW th \in Thread, Wake(th)
  PROVE  TypeInv'
<1> USE DEF taskVars, waitVars, obsVars
<1>1. pc[th] = "wake" /\ "wake" \in Inside BY DEF Wake, Finish, Goto, Inside
<1>2. wake[th] \in Task BY <1>1, Registers
<1>3. ready' \in Seq(Task) BY <1>2, ElemsAppend DEF Wake, Enqueue, TaskTypes
<1>4. ThreadTypes' /\ ControlOK' /\ saved' \in [Task -> Call \cup {Idle}]
  BY <1>1, FinishType DEF Wake
<1>5. TaskTypes' BY <1>3, <1>4 DEF Wake, TaskTypes
<1>6. RingTypes' BY RingKept DEF Wake
<1>7. ObsTypes' BY DEF Wake, ObsTypes
<1> QED BY <1>4, <1>5, <1>6, <1>7

(* chan_recv *)
LEMMA TypeRecvHandoff ==
  ASSUME TypeInv, NEW th \in Thread, RecvHandoff(th)
  PROVE  TypeInv'
<1> USE DEF taskVars, waitVars
<1>1. pc[th] = "recv" /\ "recv" \in Inside BY DEF RecvHandoff, Entered, Inside
<1>2. cur[th] \in Task BY Registers DEF RecvHandoff, HandedOver, Cps
<1>3. recv_value[cur[th]] \in Nat BY <1>2 DEF TaskTypes
<1>4. wake' = [wake EXCEPT ![th] = NULL] BY <1>1, Local DEF RecvHandoff
<1>5. ThreadTypes' /\ ControlOK' /\ saved' \in [Task -> Call \cup {Idle}]
  BY <1>1, <1>4, FinishType DEF RecvHandoff
<1>6. TaskTypes' BY <1>2, <1>5 DEF RecvHandoff, TaskTypes
<1>7. RingTypes' BY RingKept DEF RecvHandoff
<1>8. ObsTypes' BY <1>3 DEF RecvHandoff, ObsTypes
<1> QED BY <1>5, <1>6, <1>7, <1>8

LEMMA TypeTakeSender ==
  ASSUME TypeInv, NEW th \in Thread, NEW c \in Chan, TakeSender(th, c),
         NEW p \in {"wake", "rewake"}, Goto(th, "recv", p),
         UNCHANGED <<ready, initialised, created, taskVars, saved, closed,
                     blocked_receivers, lock, cur, arg>>
  PROVE  TaskTypes' /\ ThreadTypes' /\ ControlOK'
<1> DEFINE r == Head(blocked_senders[c])
<1>1. r \in Task /\ Tail(blocked_senders[c]) \in Seq(Task)
  BY FrontType DEF TakeSender, TaskTypes
<1>2. r # NULL BY <1>1, ConstantsAssumption
<1>3. TaskTypes' BY <1>1 DEF TakeSender, TaskTypes, taskVars
<1> DEFINE from == "recv"
<1>4. /\ wake' = [wake EXCEPT ![th] = r] /\ from \in {"send", "recv", "relock"}
      /\ Goto(th, from, p) /\ p \in Inside /\ p # "yield"
  BY DEF TakeSender, Inside
<1> HIDE DEF r, from
<1>5. ThreadTypes' /\ ControlOK' BY <1>1, <1>2, <1>4, GotoType
<1> QED BY <1>3, <1>5

LEMMA TypeRecvPair ==
  ASSUME TypeInv, NEW th \in Thread, RecvPairBuffered(th) \/ RecvPairEmpty(th)
  PROVE  TypeInv'
<1> DEFINE c == arg[th].ch
<1>1. pc[th] = "recv" /\ pc[th] \in Inside
  BY DEF RecvPairBuffered, RecvPairEmpty, TakeSender, Entered, Inside
<1>2. c \in Chan BY <1>1, Registers
<1>3. CASE RecvPairBuffered(th)
  <2>1. TaskTypes' /\ ThreadTypes' /\ ControlOK'
    BY <1>2, <1>3, TypeTakeSender DEF RecvPairBuffered
  <2>2. RingTypes' /\ delivered' \in [Chan -> Seq(Nat)] /\ returned' \subseteq Nat
    BY <1>2, <1>3, RingPop DEF RecvPairBuffered
  <2>3. ObsTypes' BY <1>3, <2>2 DEF RecvPairBuffered, ObsTypes
  <2> QED BY <2>1, <2>2, <2>3
<1>4. CASE RecvPairEmpty(th)
  <2>1. TaskTypes' /\ ThreadTypes' /\ ControlOK'
    BY <1>2, <1>4, TypeTakeSender DEF RecvPairEmpty
  <2>2. RingTypes' BY <1>4, RingKept DEF RecvPairEmpty
  <2>3. ObsTypes' BY <1>4 DEF RecvPairEmpty, ObsTypes, obsVars
  <2> QED BY <2>1, <2>2, <2>3
<1> QED BY <1>3, <1>4

LEMMA TypeRewake ==
  ASSUME TypeInv, NEW th \in Thread, Rewake(th)
  PROVE  TypeInv'
<1> DEFINE p == "relock"  a == arg[th]  k == cur[th]  n == NULL
<1> USE DEF taskVars, waitVars, obsVars
<1>1. pc[th] = "rewake" /\ pc[th] \in Inside /\ pc' = [pc EXCEPT ![th] = p]
  BY DEF Rewake, Goto, Inside
<1>2. wake[th] \in Task BY <1>1, Registers
<1>3. ready' \in Seq(Task) BY <1>2, ElemsAppend DEF Rewake, Enqueue, TaskTypes
<1>4. TaskTypes' BY <1>3 DEF Rewake, TaskTypes
<1>5. RingTypes' BY RingKept DEF Rewake
<1>6. ObsTypes' BY DEF Rewake, ObsTypes
<1>7. /\ cur' = [cur EXCEPT ![th] = k] /\ arg' = [arg EXCEPT ![th] = a]
      /\ wake' = [wake EXCEPT ![th] = n]
  BY Local DEF Rewake
<1>8. /\ closed' \in [Chan -> BOOLEAN] /\ lock' \in [Chan -> Thread \cup {NULL}]
      /\ k \in Task \cup {NULL} /\ a \in ArgType /\ a.ch \in Chan
      /\ th = Main => k = NULL
      /\ th \in Worker => k # NULL
      /\ n = NULL /\ n \in Task \cup {NULL}
  BY <1>1, Local DEF ThreadTypes, Rewake, Inside
<1>9. p \in Inside /\ p \notin {"idle", "yield", "wake", "rewake"} BY DEF Inside
<1> HIDE DEF p, a, k, n
<1>10. ThreadTypes' /\ ControlOK' BY <1>1, <1>7, <1>8, <1>9, Move
<1> QED BY <1>4, <1>5, <1>6, <1>10

LEMMA TypeRecvBuffer ==
  ASSUME TypeInv, NEW th \in Thread, RecvBuffer(th)
  PROVE  TypeInv'
<1> DEFINE c == arg[th].ch
<1> USE DEF taskVars, waitVars
<1>1. pc[th] \in {"recv", "relock"} /\ pc[th] \in Inside
  BY DEF RecvBuffer, FellThrough, Entered, Inside
<1>2. c \in Chan BY <1>1, Registers
<1>3. RingTypes' /\ delivered' \in [Chan -> Seq(Nat)] /\ returned' \subseteq Nat
  BY <1>2, RingPop DEF RecvBuffer
<1>4. ObsTypes' BY <1>3 DEF RecvBuffer, ObsTypes
<1>5. wake' = [wake EXCEPT ![th] = NULL] BY <1>1, Local DEF RecvBuffer
<1>6. ThreadTypes' /\ ControlOK' /\ saved' \in [Task -> Call \cup {Idle}]
  BY <1>1, <1>5, FinishType DEF RecvBuffer
<1>7. TaskTypes' BY <1>6 DEF RecvBuffer, TaskTypes
<1> QED BY <1>3, <1>4, <1>6, <1>7

LEMMA TypeRecvNothing ==
  ASSUME TypeInv, NEW th \in Thread, RecvNothing(th)
  PROVE  TypeInv'
<1> USE DEF taskVars, waitVars
<1>1. pc[th] \in {"recv", "relock"} /\ pc[th] \in Inside
  BY DEF RecvNothing, FellThrough, Entered, Inside
<1>2. RingTypes' BY RingKept DEF RecvNothing
<1>3. ObsTypes' BY DEF RecvNothing, ObsTypes
<1>4. wake' = [wake EXCEPT ![th] = NULL] BY <1>1, Local DEF RecvNothing
<1>5. ThreadTypes' /\ ControlOK' /\ saved' \in [Task -> Call \cup {Idle}]
  BY <1>1, <1>4, FinishType DEF RecvNothing
<1>6. TaskTypes' BY <1>5 DEF RecvNothing, TaskTypes
<1> QED BY <1>2, <1>3, <1>5, <1>6

LEMMA TypeRecvBlock ==
  ASSUME TypeInv, NEW th \in Thread, RecvBlock(th)
  PROVE  TypeInv'
<1> DEFINE c == arg[th].ch
<1> USE DEF taskVars, obsVars
<1>1. pc[th] \in {"recv", "relock"} /\ pc[th] \in Inside
  BY DEF RecvBlock, FellThrough, Entered, Inside
<1>2. c \in Chan /\ cur[th] \in Task /\ cur[th] # NULL
  BY <1>1, Registers DEF RecvBlock, Cps
<1>3. Append(blocked_receivers[c], cur[th]) \in Seq(Task)
  BY <1>2, ElemsAppend DEF TaskTypes
<1>4. TaskTypes' BY <1>2, <1>3 DEF RecvBlock, TaskTypes
<1>5. RingTypes' BY RingKept DEF RecvBlock
<1>6. ObsTypes' BY DEF RecvBlock, ObsTypes
<1>7. wake' = [wake EXCEPT ![th] = NULL] BY <1>1, Local DEF RecvBlock
<1> DEFINE from == pc[th]  p == "yield"  n == NULL
<1>8. /\ from \in {"send", "recv", "relock"} /\ p \in Inside \cup {"yield"}
      /\ p \notin {"wake", "rewake"} /\ n = NULL /\ n \in Task \cup {NULL}
      /\ Goto(th, from, p) /\ wake' = [wake EXCEPT ![th] = n]
      /\ UNCHANGED <<closed, lock, cur, arg>>
  BY <1>1, <1>7 DEF RecvBlock
<1> HIDE DEF from, p, n
<1>9. ThreadTypes' /\ ControlOK' BY <1>2, <1>8, GotoType
<1> QED BY <1>4, <1>5, <1>6, <1>9

(* chan_close *)
LEMMA TypeClose ==
  ASSUME TypeInv, NEW th \in Thread, NEW c \in Chan, Close(th, c)
  PROVE  TypeInv'
<1> DEFINE p == "close"  a == [Idle EXCEPT !.ch = c]  k == cur[th]  n == NULL
<1> USE DEF taskVars, waitVars
<1>1. TaskTypes' BY DEF Close, TaskTypes
<1>2. RingTypes' BY RingKept DEF Close
<1>3. ObsTypes' BY DEF Close, ObsTypes
<1>4. /\ pc[th] = "run" /\ pc' = [pc EXCEPT ![th] = p] /\ arg' = [arg EXCEPT ![th] = a]
  BY DEF Close, Goto
<1>5. /\ wake' = [wake EXCEPT ![th] = n] /\ cur' = [cur EXCEPT ![th] = k]
      /\ k \in Task \cup {NULL} /\ n \in Task \cup {NULL} /\ n = NULL
      /\ th = Main => k = NULL
      /\ th \in Worker => k # NULL
  BY <1>4, Local DEF Close
<1>6. closed' \in [Chan -> BOOLEAN] /\ lock' \in [Chan -> Thread \cup {NULL}]
  BY DEF Close, ThreadTypes
<1>7. a \in ArgType /\ a.ch \in Chan BY DEF ArgType, Idle
<1>8. p \in Inside /\ p \notin {"idle", "yield", "wake", "rewake"} BY DEF Inside
<1> HIDE DEF p, a, k, n
<1>9. ThreadTypes' /\ ControlOK' BY <1>4, <1>5, <1>6, <1>7, <1>8, Move
<1> QED BY <1>1, <1>2, <1>3, <1>9

LEMMA TypeCloseWake ==
  ASSUME TypeInv, NEW th \in Thread, CloseWakeReceiver(th) \/ CloseWakeSender(th)
  PROVE  TypeInv'
<1> DEFINE c == arg[th].ch
<1> USE DEF CloseWakeReceiver, CloseWakeSender, taskVars, obsVars
<1>1. pc[th] \in Inside BY DEF Inside
<1>2. c \in Chan BY <1>1, Registers
<1>3. RingTypes' BY RingKept
<1>4. ThreadTypes' /\ ControlOK' BY DEF ThreadTypes, ControlOK
<1>5. ObsTypes' BY DEF ObsTypes
<1>6. CASE CloseWakeReceiver(th)
  <2>1. /\ Head(blocked_receivers[c]) \in Task
        /\ Tail(blocked_receivers[c]) \in Seq(Task)
    BY <1>2, <1>6, FrontType DEF TaskTypes
  <2>2. ready' \in Seq(Task) BY <1>6, <2>1, ElemsAppend DEF Enqueue, TaskTypes
  <2>3. TaskTypes' BY <1>2, <1>6, <2>1, <2>2 DEF TaskTypes
  <2> QED BY <1>3, <1>4, <1>5, <2>3
<1>7. CASE CloseWakeSender(th)
  <2>1. /\ Head(blocked_senders[c]) \in Task
        /\ Tail(blocked_senders[c]) \in Seq(Task)
    BY <1>2, <1>7, FrontType DEF TaskTypes
  <2>2. ready' \in Seq(Task) BY <1>7, <2>1, ElemsAppend DEF Enqueue, TaskTypes
  <2>3. TaskTypes' BY <1>2, <1>7, <2>1, <2>2 DEF TaskTypes
  <2> QED BY <1>3, <1>4, <1>5, <2>3
<1> QED BY <1>6, <1>7

LEMMA TypeCloseUnlock ==
  ASSUME TypeInv, NEW th \in Thread, CloseUnlock(th)
  PROVE  TypeInv'
<1> DEFINE p == "run"  a == Idle  k == cur[th]  n == NULL
<1> USE DEF taskVars, waitVars, obsVars
<1>1. TaskTypes' BY DEF CloseUnlock, TaskTypes
<1>2. RingTypes' BY RingKept DEF CloseUnlock
<1>3. ObsTypes' BY DEF CloseUnlock, ObsTypes
<1>4. /\ pc[th] = "close" /\ pc' = [pc EXCEPT ![th] = p] /\ arg' = [arg EXCEPT ![th] = a]
  BY DEF CloseUnlock, Goto
<1>5. /\ wake' = [wake EXCEPT ![th] = n] /\ cur' = [cur EXCEPT ![th] = k]
      /\ k \in Task \cup {NULL} /\ n \in Task \cup {NULL} /\ n = NULL
      /\ th = Main => k = NULL
      /\ th \in Worker => k # NULL
  BY <1>4, Local DEF CloseUnlock
<1>6. closed' \in [Chan -> BOOLEAN] /\ lock' \in [Chan -> Thread \cup {NULL}]
  BY DEF CloseUnlock, ThreadTypes
<1>7. a \in ArgType BY DEF ArgType
<1>8. p \notin Inside /\ p \in {"run"} /\ p \notin {"idle", "yield", "wake", "rewake"} BY DEF Inside
<1> HIDE DEF p, a, k, n
<1>9. ThreadTypes' /\ ControlOK' BY <1>4, <1>5, <1>6, <1>7, <1>8, Move
<1> QED BY <1>1, <1>2, <1>3, <1>9

LEMMA TypeStutter == TypeInv /\ UNCHANGED vars => TypeInv'
<1> SUFFICES ASSUME TypeInv, UNCHANGED vars PROVE TypeInv' OBVIOUS
<1> USE DEF vars, taskVars, waitVars, obsVars
<1>1. TaskTypes' BY DEF TaskTypes
<1>2. RingTypes' BY RingKept
<1>3. ThreadTypes' /\ ControlOK' BY DEF ThreadTypes, ControlOK
<1>4. ObsTypes' BY DEF ObsTypes
<1> QED BY <1>1, <1>2, <1>3, <1>4

LEMMA TypeNext == TypeInv /\ [Next]_vars => TypeInv'
<1> SUFFICES ASSUME TypeInv, [Next]_vars PROVE TypeInv' OBVIOUS
<1>1. ASSUME NEW w \in Worker, WorkerTake(w) \/ WorkerReturn(w) PROVE TypeInv'
  BY <1>1, TypeWorkerTake, TypeWorkerReturn
<1>2. ASSUME NEW th \in Thread, SendStep(th) PROVE TypeInv'
  BY <1>2, TypeDrop, TypeSendHandoff, TypeSendBuffer, TypeSendBlock
  DEF SendStep, SendClosed, SendDrop
<1>3. ASSUME NEW th \in Thread, RecvStep(th) PROVE TypeInv'
  BY <1>3, TypeRecvHandoff, TypeRecvPair, TypeRewake, TypeRecvBuffer,
     TypeRecvBlock, TypeRecvNothing
  DEF RecvStep
<1>4. ASSUME NEW th \in Thread, CloseStep(th) PROVE TypeInv'
  BY <1>4, TypeCloseWake, TypeCloseUnlock DEF CloseStep
<1>5. ASSUME NEW th \in Thread, UserStep(th) PROVE TypeInv'
  BY <1>5, TypeGoCreate, TypeStart, TypeClose DEF UserStep
<1>6. ASSUME NEW th \in Thread, Wake(th) PROVE TypeInv' BY <1>6, TypeWake
<1> QED BY <1>1, <1>2, <1>3, <1>4, <1>5, <1>6, TypeStutter DEF Next, RuntimeStep

(* The type invariant holds for any number of tasks, channels, workers and *)
(* calls: in particular no index of chan_send or chan_recv leaves the ring *)
(* buffer that chan_create allocated.                                      *)
THEOREM TypeCorrect == Spec => []TypeOK
<1>1. Spec => []TypeInv BY InitType, TypeNext, PTL DEF Spec
<1> QED BY <1>1, PTL DEF TypeInv

-----------------------------------------------------------------------------
(***************************************************************************)
(* A task is in one place.  OneQueue is inductive together with TypeInv    *)
(* and the fact that only created tasks are anywhere, which GoCreate needs.*)
(* Every action either moves one task from a place p0 to a place q0 or     *)
(* takes none anywhere.                                                    *)
(***************************************************************************)
Unique == \A t \in Task : \A p, q \in Place : Holds(p, t) /\ Holds(q, t) => p = q
HeldCreated == \A t \in Task : \A p \in Place : Holds(p, t) => t \in created
QueuesDistinct ==
  /\ Distinct(ready)
  /\ \A c \in Chan : Distinct(blocked_senders[c]) /\ Distinct(blocked_receivers[c])
QueueInv == TypeInv /\ Unique /\ HeldCreated /\ QueuesDistinct

(* What may be held after r has moved from p0 to q0. *)
After(r, p0, q0, p, t) ==
  IF p = q0 THEN Holds(p, t) \/ t = r ELSE Holds(p, t) /\ (p = p0 => t # r)

READY == <<"ready", NULL>>

LEMMA HoldsAt ==
  /\ READY \in Place
  /\ \A t : Holds(READY, t) <=> t \in Elems(ready)
  /\ \A t : Holds(READY, t)' <=> t \in Elems(ready')
  /\ \A c \in Chan : \A t :
       /\ <<"senders", c>> \in Place /\ <<"receivers", c>> \in Place
       /\ Holds(<<"senders", c>>, t) <=> t \in Elems(blocked_senders[c])
       /\ Holds(<<"senders", c>>, t)' <=> t \in Elems(blocked_senders'[c])
       /\ Holds(<<"receivers", c>>, t) <=> t \in Elems(blocked_receivers[c])
       /\ Holds(<<"receivers", c>>, t)' <=> t \in Elems(blocked_receivers'[c])
  /\ \A th \in Thread : \A t :
       /\ <<"wake", th>> \in Place /\ <<"exec", th>> \in Place
       /\ Holds(<<"wake", th>>, t) <=> wake[th] = t
       /\ Holds(<<"wake", th>>, t)' <=> wake'[th] = t
       /\ Holds(<<"exec", th>>, t) <=> cur[th] = t /\ Busy(th)
       /\ Holds(<<"exec", th>>, t)' <=> cur'[th] = t /\ Busy(th)'
BY DEF Holds, READY, Place, Elems

LEMMA PlaceCases ==
  ASSUME NEW p \in Place
  PROVE  \/ p = READY
         \/ \E c \in Chan : p = <<"senders", c>> \/ p = <<"receivers", c>>
         \/ \E th \in Thread : p = <<"wake", th>> \/ p = <<"exec", th>>
BY DEF Place, READY

LEMMA PlacesDiffer ==
  /\ \A c \in Chan : /\ READY # <<"senders", c>> /\ READY # <<"receivers", c>>
                     /\ \A d \in Chan : <<"senders", c>> # <<"receivers", d>>
  /\ \A th \in Thread : /\ READY # <<"wake", th>> /\ READY # <<"exec", th>>
                        /\ \A x \in Thread : <<"wake", th>> # <<"exec", x>>
  /\ \A c \in Chan, th \in Thread :
       /\ <<"senders", c>> # <<"wake", th>> /\ <<"senders", c>> # <<"exec", th>>
       /\ <<"receivers", c>> # <<"wake", th>> /\ <<"receivers", c>> # <<"exec", th>>
  /\ \A c, d \in Chan : /\ <<"senders", c>> = <<"senders", d>> => c = d
                        /\ <<"receivers", c>> = <<"receivers", d>> => c = d
  /\ \A x, y \in Thread : /\ <<"wake", x>> = <<"wake", y>> => x = y
                          /\ <<"exec", x>> = <<"exec", y>> => x = y
BY DEF READY

(* A step that moves the task r from p0 to q0 and queues nothing twice. *)
LEMMA Transfer ==
  ASSUME QueueInv, TypeInv', QueuesDistinct', created \subseteq created',
         NEW r \in Task, NEW p0 \in Place, NEW q0 \in Place, Holds(p0, r),
         \A t \in Task : t \in Elems(ready') => After(r, p0, q0, READY, t),
         \A c \in Chan, t \in Task :
           /\ t \in Elems(blocked_senders'[c]) => After(r, p0, q0, <<"senders", c>>, t)
           /\ t \in Elems(blocked_receivers'[c]) => After(r, p0, q0, <<"receivers", c>>, t),
         \A th \in Thread, t \in Task :
           /\ wake'[th] = t => After(r, p0, q0, <<"wake", th>>, t)
           /\ cur'[th] = t /\ Busy(th)' => After(r, p0, q0, <<"exec", th>>, t)
  PROVE  QueueInv'
<1>1. \A p \in Place, t \in Task : Holds(p, t)' => After(r, p0, q0, p, t)
  <2> SUFFICES ASSUME NEW p \in Place, NEW t \in Task, Holds(p, t)'
               PROVE  After(r, p0, q0, p, t)
    OBVIOUS
  <2>1. CASE p = READY BY <2>1, HoldsAt
  <2>2. ASSUME NEW c \in Chan, p = <<"senders", c>> \/ p = <<"receivers", c>>
        PROVE  After(r, p0, q0, p, t)
    <3>1. CASE p = <<"senders", c>> BY <3>1, HoldsAt
    <3>2. CASE p = <<"receivers", c>> BY <3>2, HoldsAt
    <3> QED BY <2>2, <3>1, <3>2
  <2>3. ASSUME NEW th \in Thread, p = <<"wake", th>> \/ p = <<"exec", th>>
        PROVE  After(r, p0, q0, p, t)
    <3>1. CASE p = <<"wake", th>> BY <3>1, HoldsAt
    <3>2. CASE p = <<"exec", th>> BY <3>2, HoldsAt
    <3> QED BY <2>3, <3>1, <3>2
  <2> QED BY <2>1, <2>2, <2>3, PlaceCases
<1>2. \A t \in Task, p, q \in Place : Holds(p, t) /\ Holds(q, t) => p = q
  BY DEF QueueInv, Unique
<1>3. \A p \in Place, t \in Task : Holds(p, t)' => (IF t = r THEN p = q0 ELSE Holds(p, t))
  BY <1>1, <1>2 DEF After
<1>4. Unique'
  <2> SUFFICES ASSUME NEW t \in Task, NEW p \in Place, NEW q \in Place,
                      Holds(p, t)', Holds(q, t)'
               PROVE  p = q
    BY DEF Unique, Place
  <2> QED BY <1>2, <1>3
<1>5. HeldCreated'
  <2> SUFFICES ASSUME NEW t \in Task, NEW p \in Place, Holds(p, t)' PROVE t \in created'
    BY DEF HeldCreated, Place
  <2> QED BY <1>3 DEF QueueInv, HeldCreated
<1> QED BY <1>4, <1>5 DEF QueueInv

(* A step after which no place holds a task it did not hold before. *)
LEMMA Shrink ==
  ASSUME QueueInv, TypeInv', created' = created,
         UNCHANGED <<ready, blocked_senders, blocked_receivers>>,
         \A th \in Thread, t \in Task :
           /\ wake'[th] = t => wake[th] = t
           /\ cur'[th] = t /\ Busy(th)' => cur[th] = t /\ Busy(th)
  PROVE  QueueInv'
<1>1. \A p \in Place, t \in Task : Holds(p, t)' => Holds(p, t)
  <2> SUFFICES ASSUME NEW p \in Place, NEW t \in Task, Holds(p, t)' PROVE Holds(p, t)
    OBVIOUS
  <2>1. CASE p = READY BY <2>1, HoldsAt
  <2>2. ASSUME NEW c \in Chan, p = <<"senders", c>> \/ p = <<"receivers", c>>
        PROVE  Holds(p, t)
    <3>1. CASE p = <<"senders", c>> BY <3>1, HoldsAt
    <3>2. CASE p = <<"receivers", c>> BY <3>2, HoldsAt
    <3> QED BY <2>2, <3>1, <3>2
  <2>3. ASSUME NEW th \in Thread, p = <<"wake", th>> \/ p = <<"exec", th>>
        PROVE  Holds(p, t)
    <3>1. CASE p = <<"wake", th>> BY <3>1, HoldsAt
    <3>2. CASE p = <<"exec", th>> BY <3>2, HoldsAt
    <3> QED BY <2>3, <3>1, <3>2
  <2> QED BY <2>1, <2>2, <2>3, PlaceCases
<1>2. Unique'
  <2> SUFFICES ASSUME NEW t \in Task, NEW p \in Place, NEW q \in Place,
                      Holds(p, t)', Holds(q, t)'
               PROVE  p = q
    BY DEF Unique, Place
  <2> QED BY <1>1 DEF QueueInv, Unique
<1>3. HeldCreated'
  <2> SUFFICES ASSUME NEW t \in Task, NEW p \in Place, Holds(p, t)' PROVE t \in created'
    BY DEF HeldCreated, Place
  <2> QED BY <1>1 DEF QueueInv, HeldCreated
<1>4. QueuesDistinct' BY DEF QueueInv, QueuesDistinct
<1> QED BY <1>2, <1>3, <1>4 DEF QueueInv

(* A thread that stays inside user code or a call executes the same task. *)
LEMMA BusyMove ==
  ASSUME TypeInv, NEW th \in Thread, NEW p, pc' = [pc EXCEPT ![th] = p]
  PROVE  /\ \A x \in Thread \ {th} : Busy(x)' <=> Busy(x)
         /\ Busy(th)' <=> p \in Inside \cup {"run"}
BY DEF ThreadTypes, Busy

LEMMA QueueStay ==
  ASSUME QueueInv, TypeInv', created' = created,
         UNCHANGED <<ready, blocked_senders, blocked_receivers, cur, wake>>,
         NEW th \in Thread, Busy(th), NEW p, pc' = [pc EXCEPT ![th] = p]
  PROVE  QueueInv'
<1>1. TypeInv BY DEF QueueInv
<1>2. \A x \in Thread : Busy(x)' => Busy(x) BY <1>1, BusyMove
<1> QED BY <1>2, Shrink

LEMMA QueueFinish ==
  ASSUME QueueInv, TypeInv', NEW th \in Thread, NEW from \in Inside,
         Finish(th, from), UNCHANGED <<created, ready, waitVars, wake>>
  PROVE  QueueInv'
<1>1. pc[th] \in Inside /\ pc' = [pc EXCEPT ![th] = "run"] /\ cur' = cur
  BY DEF Finish, Goto
<1>2. Busy(th) BY <1>1 DEF Busy
<1> QED BY <1>1, <1>2, QueueStay DEF waitVars

LEMMA QueueWorkerTake ==
  ASSUME QueueInv, TypeInv', NEW w \in Worker, WorkerTake(w)
  PROVE  QueueInv'
<1> DEFINE r == Head(ready)  q0 == <<"exec", w>>
           p == IF saved[r] = Idle THEN "run" ELSE saved[r].kind
<1>1. TypeInv /\ w \in Thread BY DEF QueueInv, Thread
<1>2. /\ r \in Task /\ r \in Elems(ready)
      /\ Elems(ready') = Elems(ready) \ {r} /\ Distinct(ready')
  BY <1>1, ElemsTail DEF WorkerTake, QueueInv, QueuesDistinct, TaskTypes
<1>3. /\ UNCHANGED <<created, blocked_senders, blocked_receivers, wake>>
      /\ cur' = [cur EXCEPT ![w] = r] /\ pc' = [pc EXCEPT ![w] = p]
  BY DEF WorkerTake, Goto, waitVars
<1>4. QueuesDistinct' BY <1>2, <1>3 DEF QueueInv, QueuesDistinct
<1>5. /\ cur'[w] = r
      /\ \A x \in Thread \ {w} : cur'[x] = cur[x] /\ (Busy(x)' <=> Busy(x))
  BY <1>1, <1>3, BusyMove DEF ThreadTypes
<1>6. Holds(READY, r) /\ READY \in Place /\ q0 \in Place BY <1>1, <1>2, HoldsAt
<1>7. \A t \in Task : t \in Elems(ready') => After(r, READY, q0, READY, t)
  BY <1>1, <1>2, HoldsAt, PlacesDiffer DEF After
<1>8. \A c \in Chan, t \in Task :
        /\ t \in Elems(blocked_senders'[c]) => After(r, READY, q0, <<"senders", c>>, t)
        /\ t \in Elems(blocked_receivers'[c]) => After(r, READY, q0, <<"receivers", c>>, t)
  BY <1>1, <1>3, HoldsAt, PlacesDiffer DEF After
<1>9. \A th \in Thread, t \in Task :
        /\ wake'[th] = t => After(r, READY, q0, <<"wake", th>>, t)
        /\ cur'[th] = t /\ Busy(th)' => After(r, READY, q0, <<"exec", th>>, t)
  BY <1>1, <1>3, <1>5, HoldsAt, PlacesDiffer DEF After
<1> HIDE DEF r, q0
<1> QED BY <1>2, <1>3, <1>4, <1>6, <1>7, <1>8, <1>9, Transfer

LEMMA QueueWorkerReturn ==
  ASSUME QueueInv, TypeInv', NEW w \in Worker, WorkerReturn(w)
  PROVE  QueueInv'
<1>1. TypeInv /\ w \in Thread BY DEF QueueInv, Thread
<1>2. /\ UNCHANGED <<created, ready, blocked_senders, blocked_receivers, wake>>
      /\ cur' = [cur EXCEPT ![w] = NULL] /\ pc' = [pc EXCEPT ![w] = "idle"]
  BY DEF WorkerReturn, Goto, waitVars
<1>3. /\ ~Busy(w)'
      /\ \A x \in Thread \ {w} : cur'[x] = cur[x] /\ (Busy(x)' <=> Busy(x))
  BY <1>1, <1>2, BusyMove DEF ThreadTypes, Inside
<1> QED BY <1>2, <1>3, Shrink

LEMMA QueueStart ==
  ASSUME QueueInv, TypeInv', NEW th \in Thread, NEW call, NEW cps,
         StartCall(th, call, cps)
  PROVE  QueueInv'
<1>1. /\ pc[th] = "run" /\ pc' = [pc EXCEPT ![th] = call.kind]
      /\ UNCHANGED <<created, ready, blocked_senders, blocked_receivers, cur, wake>>
  BY DEF StartCall, Goto, waitVars
<1>2. Busy(th) BY <1>1 DEF Busy
<1> QED BY <1>1, <1>2, QueueStay

LEMMA QueueClose ==
  ASSUME QueueInv, TypeInv', NEW th \in Thread, NEW c \in Chan,
         Close(th, c) \/ CloseUnlock(th)
  PROVE  QueueInv'
<1>1. PICK p : /\ pc[th] \in {"run", "close"} /\ pc' = [pc EXCEPT ![th] = p]
               /\ UNCHANGED <<created, ready, blocked_senders, blocked_receivers, cur, wake>>
  BY DEF Close, CloseUnlock, Goto, waitVars
<1>2. Busy(th) BY <1>1 DEF Busy, Inside
<1> QED BY <1>1, <1>2, QueueStay

(* go_create: the task was nowhere before. *)
LEMMA QueueGoCreate ==
  ASSUME QueueInv, TypeInv', NEW th \in Thread, NEW r \in Task, GoCreate(th, r)
  PROVE  QueueInv'
<1>1. TypeInv BY DEF QueueInv
<1>2. /\ UNCHANGED <<blocked_senders, blocked_receivers, cur, wake, pc>>
      /\ created' = created \cup {r} /\ r \notin created /\ ready' = Append(ready, r)
  BY DEF GoCreate, Enqueue, waitVars
<1>3. \A p \in Place : ~Holds(p, r) BY <1>2 DEF QueueInv, HeldCreated
<1>4. r \notin Elems(ready) BY <1>3, HoldsAt
<1>5. Elems(ready') = Elems(ready) \cup {r} /\ Distinct(ready')
  BY <1>1, <1>2, <1>4, ElemsAppend DEF QueueInv, QueuesDistinct, TaskTypes
<1>6. QueuesDistinct' BY <1>2, <1>5 DEF QueueInv, QueuesDistinct
<1>7. \A p \in Place, t \in Task : Holds(p, t)' => Holds(p, t) \/ (t = r /\ p = READY)
  <2> SUFFICES ASSUME NEW p \in Place, NEW t \in Task, Holds(p, t)'
               PROVE  Holds(p, t) \/ (t = r /\ p = READY)
    OBVIOUS
  <2>1. CASE p = READY BY <1>5, <2>1, HoldsAt
  <2>2. ASSUME NEW c \in Chan, p = <<"senders", c>> PROVE Holds(p, t)
    BY <1>2, <2>2, HoldsAt
  <2>3. ASSUME NEW c \in Chan, p = <<"receivers", c>> PROVE Holds(p, t)
    BY <1>2, <2>3, HoldsAt
  <2>4. ASSUME NEW x \in Thread, p = <<"wake", x>> PROVE Holds(p, t)
    BY <1>2, <2>4, HoldsAt
  <2>5. ASSUME NEW x \in Thread, p = <<"exec", x>> PROVE Holds(p, t)
    BY <1>2, <2>5, HoldsAt DEF Busy
  <2> QED BY <2>1, <2>2, <2>3, <2>4, <2>5, PlaceCases
<1>8. Unique'
  <2> SUFFICES ASSUME NEW t \in Task, NEW p \in Place, NEW q \in Place,
                      Holds(p, t)', Holds(q, t)'
               PROVE  p = q
    BY DEF Unique, Place
  <2> QED BY <1>3, <1>7 DEF QueueInv, Unique
<1>9. HeldCreated'
  <2> SUFFICES ASSUME NEW t \in Task, NEW p \in Place, Holds(p, t)' PROVE t \in created'
    BY DEF HeldCreated, Place
  <2> QED BY <1>2, <1>7 DEF QueueInv, HeldCreated
<1> QED BY <1>6, <1>8, <1>9 DEF QueueInv

(* From the front of a channel's list to the thread that will wake it. *)
LEMMA QueuePickReceiver ==
  ASSUME QueueInv, TypeInv', NEW th \in Thread, NEW c \in Chan, blocked_receivers[c] # << >>,
         blocked_receivers' = [blocked_receivers EXCEPT ![c] = Tail(blocked_receivers[c])],
         wake' = [wake EXCEPT ![th] = Head(blocked_receivers[c])], wake[th] = NULL,
         Busy(th), NEW p \in Inside, pc' = [pc EXCEPT ![th] = p],
         UNCHANGED <<created, ready, blocked_senders, cur>>
  PROVE  QueueInv'
<1> DEFINE r == Head(blocked_receivers[c])  p0 == <<"receivers", c>>  q0 == <<"wake", th>>
<1>1. TypeInv BY DEF QueueInv
<1>2. /\ r \in Task /\ r \in Elems(blocked_receivers[c])
      /\ Elems(blocked_receivers'[c]) = Elems(blocked_receivers[c]) \ {r}
      /\ Distinct(blocked_receivers'[c])
      /\ \A d \in Chan \ {c} : blocked_receivers'[d] = blocked_receivers[d]
  BY <1>1, ElemsTail DEF QueueInv, QueuesDistinct, TaskTypes
<1>3. QueuesDistinct' BY <1>2 DEF QueueInv, QueuesDistinct
<1>4. /\ wake'[th] = r /\ \A x \in Thread \ {th} : wake'[x] = wake[x]
      /\ \A x \in Thread : Busy(x)' => Busy(x)
  BY <1>1, BusyMove DEF ThreadTypes
<1>5. Holds(p0, r) /\ p0 \in Place /\ q0 \in Place BY <1>2, HoldsAt
<1>6. \A t \in Task : t \in Elems(ready') => After(r, p0, q0, READY, t)
  BY HoldsAt, PlacesDiffer DEF After
<1>7. \A d \in Chan, t \in Task :
        t \in Elems(blocked_receivers'[d]) => After(r, p0, q0, <<"receivers", d>>, t)
  <2> SUFFICES ASSUME NEW d \in Chan, NEW t \in Task, t \in Elems(blocked_receivers'[d])
               PROVE  After(r, p0, q0, <<"receivers", d>>, t)
    OBVIOUS
  <2>1. t \in Elems(blocked_receivers[d]) /\ (d = c => t # r) BY <1>2
  <2>2. Holds(<<"receivers", d>>, t) BY <2>1, HoldsAt
  <2> QED BY <2>1, <2>2, PlacesDiffer DEF After
<1>8. \A d \in Chan, t \in Task :
        t \in Elems(blocked_senders'[d]) => After(r, p0, q0, <<"senders", d>>, t)
  BY HoldsAt, PlacesDiffer DEF After
<1>9. \A x \in Thread, t \in Task : wake'[x] = t => After(r, p0, q0, <<"wake", x>>, t)
  BY <1>4, HoldsAt, PlacesDiffer DEF After
<1>10. \A x \in Thread, t \in Task :
         cur'[x] = t /\ Busy(x)' => After(r, p0, q0, <<"exec", x>>, t)
  BY <1>4, HoldsAt, PlacesDiffer DEF After
<1> HIDE DEF r, p0, q0
<1> QED BY <1>2, <1>3, <1>5, <1>6, <1>7, <1>8, <1>9, <1>10, Transfer

LEMMA QueuePickSender ==
  ASSUME QueueInv, TypeInv', NEW th \in Thread, NEW c \in Chan, blocked_senders[c] # << >>,
         blocked_senders' = [blocked_senders EXCEPT ![c] = Tail(blocked_senders[c])],
         wake' = [wake EXCEPT ![th] = Head(blocked_senders[c])], wake[th] = NULL,
         Busy(th), NEW p \in Inside, pc' = [pc EXCEPT ![th] = p],
         UNCHANGED <<created, ready, blocked_receivers, cur>>
  PROVE  QueueInv'
<1> DEFINE r == Head(blocked_senders[c])  p0 == <<"senders", c>>  q0 == <<"wake", th>>
<1>1. TypeInv BY DEF QueueInv
<1>2. /\ r \in Task /\ r \in Elems(blocked_senders[c])
      /\ Elems(blocked_senders'[c]) = Elems(blocked_senders[c]) \ {r}
      /\ Distinct(blocked_senders'[c])
      /\ \A d \in Chan \ {c} : blocked_senders'[d] = blocked_senders[d]
  BY <1>1, ElemsTail DEF QueueInv, QueuesDistinct, TaskTypes
<1>3. QueuesDistinct' BY <1>2 DEF QueueInv, QueuesDistinct
<1>4. /\ wake'[th] = r /\ \A x \in Thread \ {th} : wake'[x] = wake[x]
      /\ \A x \in Thread : Busy(x)' => Busy(x)
  BY <1>1, BusyMove DEF ThreadTypes
<1>5. Holds(p0, r) /\ p0 \in Place /\ q0 \in Place BY <1>2, HoldsAt
<1>6. \A t \in Task : t \in Elems(ready') => After(r, p0, q0, READY, t)
  BY HoldsAt, PlacesDiffer DEF After
<1>7. \A d \in Chan, t \in Task :
        t \in Elems(blocked_senders'[d]) => After(r, p0, q0, <<"senders", d>>, t)
  <2> SUFFICES ASSUME NEW d \in Chan, NEW t \in Task, t \in Elems(blocked_senders'[d])
               PROVE  After(r, p0, q0, <<"senders", d>>, t)
    OBVIOUS
  <2>1. t \in Elems(blocked_senders[d]) /\ (d = c => t # r) BY <1>2
  <2>2. Holds(<<"senders", d>>, t) BY <2>1, HoldsAt
  <2> QED BY <2>1, <2>2, PlacesDiffer DEF After
<1>8. \A d \in Chan, t \in Task :
        t \in Elems(blocked_receivers'[d]) => After(r, p0, q0, <<"receivers", d>>, t)
  BY HoldsAt, PlacesDiffer DEF After
<1>9. \A x \in Thread, t \in Task : wake'[x] = t => After(r, p0, q0, <<"wake", x>>, t)
  BY <1>4, HoldsAt, PlacesDiffer DEF After
<1>10. \A x \in Thread, t \in Task :
         cur'[x] = t /\ Busy(x)' => After(r, p0, q0, <<"exec", x>>, t)
  BY <1>4, HoldsAt, PlacesDiffer DEF After
<1> HIDE DEF r, p0, q0
<1> QED BY <1>2, <1>3, <1>5, <1>6, <1>7, <1>8, <1>9, <1>10, Transfer

(* From the front of a channel's list to the ready queue, in chan_close. *)
LEMMA QueueWakeReceiver ==
  ASSUME QueueInv, TypeInv', NEW c \in Chan, blocked_receivers[c] # << >>,
         blocked_receivers' = [blocked_receivers EXCEPT ![c] = Tail(blocked_receivers[c])],
         Enqueue(Head(blocked_receivers[c])),
         UNCHANGED <<created, blocked_senders, cur, wake, pc>>
  PROVE  QueueInv'
<1> DEFINE r == Head(blocked_receivers[c])  p0 == <<"receivers", c>>
<1>1. TypeInv BY DEF QueueInv
<1>2. /\ r \in Task /\ r \in Elems(blocked_receivers[c])
      /\ Elems(blocked_receivers'[c]) = Elems(blocked_receivers[c]) \ {r}
      /\ Distinct(blocked_receivers'[c])
      /\ \A d \in Chan \ {c} : blocked_receivers'[d] = blocked_receivers[d]
  BY <1>1, ElemsTail DEF QueueInv, QueuesDistinct, TaskTypes
<1>3. Holds(p0, r) /\ p0 \in Place /\ READY \in Place BY <1>2, HoldsAt
<1>4. ~Holds(READY, r) BY <1>2, <1>3, PlacesDiffer DEF QueueInv, Unique
<1>5. r \notin Elems(ready) BY <1>4, HoldsAt
<1>6. Elems(ready') = Elems(ready) \cup {r} /\ Distinct(ready')
  BY <1>1, <1>2, <1>5, ElemsAppend DEF QueueInv, QueuesDistinct, TaskTypes, Enqueue
<1>7. QueuesDistinct' BY <1>2, <1>6 DEF QueueInv, QueuesDistinct
<1>8. \A t \in Task : t \in Elems(ready') => After(r, p0, READY, READY, t)
  BY <1>6, HoldsAt DEF After
<1>9. \A d \in Chan, t \in Task :
        t \in Elems(blocked_receivers'[d]) => After(r, p0, READY, <<"receivers", d>>, t)
  BY <1>2, HoldsAt, PlacesDiffer DEF After
<1>10. \A d \in Chan, t \in Task :
         t \in Elems(blocked_senders'[d]) => After(r, p0, READY, <<"senders", d>>, t)
  BY HoldsAt, PlacesDiffer DEF After
<1>11. \A x \in Thread, t \in Task :
         /\ wake'[x] = t => After(r, p0, READY, <<"wake", x>>, t)
         /\ cur'[x] = t /\ Busy(x)' => After(r, p0, READY, <<"exec", x>>, t)
  BY HoldsAt, PlacesDiffer DEF After, Busy
<1> HIDE DEF r, p0
<1> QED BY <1>2, <1>3, <1>7, <1>8, <1>9, <1>10, <1>11, Transfer

LEMMA QueueWakeSender ==
  ASSUME QueueInv, TypeInv', NEW c \in Chan, blocked_senders[c] # << >>,
         blocked_senders' = [blocked_senders EXCEPT ![c] = Tail(blocked_senders[c])],
         Enqueue(Head(blocked_senders[c])),
         UNCHANGED <<created, blocked_receivers, cur, wake, pc>>
  PROVE  QueueInv'
<1> DEFINE r == Head(blocked_senders[c])  p0 == <<"senders", c>>
<1>1. TypeInv BY DEF QueueInv
<1>2. /\ r \in Task /\ r \in Elems(blocked_senders[c])
      /\ Elems(blocked_senders'[c]) = Elems(blocked_senders[c]) \ {r}
      /\ Distinct(blocked_senders'[c])
      /\ \A d \in Chan \ {c} : blocked_senders'[d] = blocked_senders[d]
  BY <1>1, ElemsTail DEF QueueInv, QueuesDistinct, TaskTypes
<1>3. Holds(p0, r) /\ p0 \in Place /\ READY \in Place BY <1>2, HoldsAt
<1>4. ~Holds(READY, r) BY <1>2, <1>3, PlacesDiffer DEF QueueInv, Unique
<1>5. r \notin Elems(ready) BY <1>4, HoldsAt
<1>6. Elems(ready') = Elems(ready) \cup {r} /\ Distinct(ready')
  BY <1>1, <1>2, <1>5, ElemsAppend DEF QueueInv, QueuesDistinct, TaskTypes, Enqueue
<1>7. QueuesDistinct' BY <1>2, <1>6 DEF QueueInv, QueuesDistinct
<1>8. \A t \in Task : t \in Elems(ready') => After(r, p0, READY, READY, t)
  BY <1>6, HoldsAt DEF After
<1>9. \A d \in Chan, t \in Task :
        t \in Elems(blocked_senders'[d]) => After(r, p0, READY, <<"senders", d>>, t)
  BY <1>2, HoldsAt, PlacesDiffer DEF After
<1>10. \A d \in Chan, t \in Task :
         t \in Elems(blocked_receivers'[d]) => After(r, p0, READY, <<"receivers", d>>, t)
  BY HoldsAt, PlacesDiffer DEF After
<1>11. \A x \in Thread, t \in Task :
         /\ wake'[x] = t => After(r, p0, READY, <<"wake", x>>, t)
         /\ cur'[x] = t /\ Busy(x)' => After(r, p0, READY, <<"exec", x>>, t)
  BY HoldsAt, PlacesDiffer DEF After, Busy
<1> HIDE DEF r, p0
<1> QED BY <1>2, <1>3, <1>7, <1>8, <1>9, <1>10, <1>11, Transfer

(* From the thread that executes it to the back of a channel's list. *)
LEMMA QueueBlockReceiver ==
  ASSUME QueueInv, TypeInv', NEW th \in Thread, NEW c \in Chan, Busy(th), Cps(th),
         blocked_receivers' = [blocked_receivers EXCEPT ![c] = Append(blocked_receivers[c], cur[th])],
         pc' = [pc EXCEPT ![th] = "yield"],
         UNCHANGED <<created, ready, blocked_senders, cur, wake>>
  PROVE  QueueInv'
<1> DEFINE r == cur[th]  p0 == <<"exec", th>>  q0 == <<"receivers", c>>
<1>1. TypeInv BY DEF QueueInv
<1>2. r \in Task BY <1>1, Registers DEF Cps
<1>3. Holds(p0, r) /\ p0 \in Place /\ q0 \in Place BY HoldsAt
<1>4. ~Holds(q0, r) BY <1>2, <1>3, PlacesDiffer DEF QueueInv, Unique
<1>5. r \notin Elems(blocked_receivers[c]) BY <1>4, HoldsAt
<1>6. blocked_receivers[c] \in Seq(Task) /\ Distinct(blocked_receivers[c])
  BY DEF QueueInv, QueuesDistinct, TaskTypes
<1>7. /\ blocked_receivers'[c] = Append(blocked_receivers[c], r)
      /\ \A d \in Chan \ {c} : blocked_receivers'[d] = blocked_receivers[d]
  BY <1>1 DEF TaskTypes
<1>8. Elems(blocked_receivers'[c]) = Elems(blocked_receivers[c]) \cup {r} /\ Distinct(blocked_receivers'[c])
  BY <1>2, <1>5, <1>6, <1>7, ElemsAppend
<1>9. QueuesDistinct' BY <1>7, <1>8 DEF QueueInv, QueuesDistinct
<1>10. ~Busy(th)' /\ \A x \in Thread \ {th} : Busy(x)' <=> Busy(x)
  <2> DEFINE p == "yield"
  <2>1. p \notin Inside \cup {"run"} /\ pc' = [pc EXCEPT ![th] = p] BY DEF Inside
  <2> HIDE DEF p
  <2> QED BY <1>1, <2>1, BusyMove
<1>11. \A t \in Task : t \in Elems(ready') => After(r, p0, q0, READY, t)
  BY HoldsAt, PlacesDiffer DEF After
<1>12. \A d \in Chan, t \in Task :
         t \in Elems(blocked_receivers'[d]) => After(r, p0, q0, <<"receivers", d>>, t)
  BY <1>7, <1>8, HoldsAt, PlacesDiffer DEF After
<1>13. \A d \in Chan, t \in Task :
         t \in Elems(blocked_senders'[d]) => After(r, p0, q0, <<"senders", d>>, t)
  BY HoldsAt, PlacesDiffer DEF After
<1>14. \A x \in Thread, t \in Task :
         /\ wake'[x] = t => After(r, p0, q0, <<"wake", x>>, t)
         /\ cur'[x] = t /\ Busy(x)' => After(r, p0, q0, <<"exec", x>>, t)
  BY <1>10, HoldsAt, PlacesDiffer DEF After
<1> HIDE DEF r, p0, q0
<1> QED BY <1>2, <1>3, <1>9, <1>11, <1>12, <1>13, <1>14, Transfer

LEMMA QueueBlockSender ==
  ASSUME QueueInv, TypeInv', NEW th \in Thread, NEW c \in Chan, Busy(th), Cps(th),
         blocked_senders' = [blocked_senders EXCEPT ![c] = Append(blocked_senders[c], cur[th])],
         pc' = [pc EXCEPT ![th] = "yield"],
         UNCHANGED <<created, ready, blocked_receivers, cur, wake>>
  PROVE  QueueInv'
<1> DEFINE r == cur[th]  p0 == <<"exec", th>>  q0 == <<"senders", c>>
<1>1. TypeInv BY DEF QueueInv
<1>2. r \in Task BY <1>1, Registers DEF Cps
<1>3. Holds(p0, r) /\ p0 \in Place /\ q0 \in Place BY HoldsAt
<1>4. ~Holds(q0, r) BY <1>2, <1>3, PlacesDiffer DEF QueueInv, Unique
<1>5. r \notin Elems(blocked_senders[c]) BY <1>4, HoldsAt
<1>6. blocked_senders[c] \in Seq(Task) /\ Distinct(blocked_senders[c])
  BY DEF QueueInv, QueuesDistinct, TaskTypes
<1>7. /\ blocked_senders'[c] = Append(blocked_senders[c], r)
      /\ \A d \in Chan \ {c} : blocked_senders'[d] = blocked_senders[d]
  BY <1>1 DEF TaskTypes
<1>8. Elems(blocked_senders'[c]) = Elems(blocked_senders[c]) \cup {r} /\ Distinct(blocked_senders'[c])
  BY <1>2, <1>5, <1>6, <1>7, ElemsAppend
<1>9. QueuesDistinct' BY <1>7, <1>8 DEF QueueInv, QueuesDistinct
<1>10. ~Busy(th)' /\ \A x \in Thread \ {th} : Busy(x)' <=> Busy(x)
  <2> DEFINE p == "yield"
  <2>1. p \notin Inside \cup {"run"} /\ pc' = [pc EXCEPT ![th] = p] BY DEF Inside
  <2> HIDE DEF p
  <2> QED BY <1>1, <2>1, BusyMove
<1>11. \A t \in Task : t \in Elems(ready') => After(r, p0, q0, READY, t)
  BY HoldsAt, PlacesDiffer DEF After
<1>12. \A d \in Chan, t \in Task :
         t \in Elems(blocked_senders'[d]) => After(r, p0, q0, <<"senders", d>>, t)
  BY <1>7, <1>8, HoldsAt, PlacesDiffer DEF After
<1>13. \A d \in Chan, t \in Task :
         t \in Elems(blocked_receivers'[d]) => After(r, p0, q0, <<"receivers", d>>, t)
  BY HoldsAt, PlacesDiffer DEF After
<1>14. \A x \in Thread, t \in Task :
         /\ wake'[x] = t => After(r, p0, q0, <<"wake", x>>, t)
         /\ cur'[x] = t /\ Busy(x)' => After(r, p0, q0, <<"exec", x>>, t)
  BY <1>10, HoldsAt, PlacesDiffer DEF After
<1> HIDE DEF r, p0, q0
<1> QED BY <1>2, <1>3, <1>9, <1>11, <1>12, <1>13, <1>14, Transfer

(* From the thread that took it off a channel's list to the ready queue. *)
LEMMA QueueWake ==
  ASSUME QueueInv, TypeInv', NEW th \in Thread, pc[th] \in {"wake", "rewake"},
         Enqueue(wake[th]), wake' = [wake EXCEPT ![th] = NULL],
         NEW p, pc' = [pc EXCEPT ![th] = p],
         UNCHANGED <<created, blocked_senders, blocked_receivers, cur>>
  PROVE  QueueInv'
<1> DEFINE r == wake[th]  p0 == <<"wake", th>>
<1>1. TypeInv BY DEF QueueInv
<1>2. r \in Task BY <1>1, Registers
<1>3. Holds(p0, r) /\ p0 \in Place /\ READY \in Place BY HoldsAt
<1>4. ~Holds(READY, r) BY <1>2, <1>3, PlacesDiffer DEF QueueInv, Unique
<1>5. r \notin Elems(ready) BY <1>4, HoldsAt
<1>6. Elems(ready') = Elems(ready) \cup {r} /\ Distinct(ready')
  BY <1>1, <1>2, <1>5, ElemsAppend DEF QueueInv, QueuesDistinct, TaskTypes, Enqueue
<1>7. QueuesDistinct' BY <1>6 DEF QueueInv, QueuesDistinct
<1>8. /\ wake'[th] = NULL /\ \A x \in Thread \ {th} : wake'[x] = wake[x]
      /\ NULL \notin Task
  BY <1>1, ConstantsAssumption DEF ThreadTypes
<1>9. \A x \in Thread : Busy(x)' => Busy(x)
  BY <1>1, BusyMove DEF Busy, Inside
<1>10. \A t \in Task : t \in Elems(ready') => After(r, p0, READY, READY, t)
  BY <1>6, HoldsAt DEF After
<1>11. \A d \in Chan, t \in Task :
         /\ t \in Elems(blocked_senders'[d]) => After(r, p0, READY, <<"senders", d>>, t)
         /\ t \in Elems(blocked_receivers'[d]) => After(r, p0, READY, <<"receivers", d>>, t)
  BY HoldsAt, PlacesDiffer DEF After
<1>12. \A x \in Thread, t \in Task :
         /\ wake'[x] = t => After(r, p0, READY, <<"wake", x>>, t)
         /\ cur'[x] = t /\ Busy(x)' => After(r, p0, READY, <<"exec", x>>, t)
  <2> SUFFICES ASSUME NEW x \in Thread, NEW t \in Task
               PROVE  /\ wake'[x] = t => After(r, p0, READY, <<"wake", x>>, t)
                      /\ cur'[x] = t /\ Busy(x)' => After(r, p0, READY, <<"exec", x>>, t)
    OBVIOUS
  <2>1. ASSUME wake'[x] = t PROVE After(r, p0, READY, <<"wake", x>>, t)
    <3>1. x # th /\ Holds(<<"wake", x>>, t) BY <1>8, <2>1, HoldsAt
    <3> QED BY <3>1, PlacesDiffer DEF After
  <2>2. ASSUME cur'[x] = t, Busy(x)' PROVE After(r, p0, READY, <<"exec", x>>, t)
    <3>1. Holds(<<"exec", x>>, t) BY <1>9, <2>2, HoldsAt
    <3> QED BY <3>1, PlacesDiffer DEF After
  <2> QED BY <2>1, <2>2
<1> HIDE DEF r, p0
<1> QED BY <1>2, <1>3, <1>7, <1>10, <1>11, <1>12, Transfer

LEMMA QueueSend ==
  ASSUME QueueInv, TypeInv', NEW th \in Thread, SendStep(th)
  PROVE  QueueInv'
<1> DEFINE c == arg[th].ch
<1> USE DEF taskVars, waitVars
<1>1. TypeInv BY DEF QueueInv
<1>2. pc[th] = "send" /\ pc[th] \in Inside
  BY DEF SendStep, SendClosed, SendHandoff, SendBuffer, SendBlock, SendDrop, Entered, Inside
<1>3. c \in Chan /\ Busy(th) /\ wake[th] = NULL
  BY <1>1, <1>2, Registers, Local DEF Busy
<1>4. CASE SendClosed(th) \/ SendDrop(th)
  BY <1>2, <1>4, QueueFinish DEF SendClosed, SendDrop, Drop
<1>5. CASE SendBuffer(th) BY <1>2, <1>5, QueueFinish DEF SendBuffer
<1>6. CASE SendHandoff(th)
  <2>1. "wake" \in Inside BY DEF Inside
  <2>2. /\ blocked_receivers[c] # << >>
        /\ blocked_receivers' = [blocked_receivers EXCEPT ![c] = Tail(blocked_receivers[c])]
        /\ wake' = [wake EXCEPT ![th] = Head(blocked_receivers[c])]
        /\ pc' = [pc EXCEPT ![th] = "wake"]
        /\ UNCHANGED <<created, ready, blocked_senders, cur>>
    BY <1>6 DEF SendHandoff, Goto
  <2> QED BY <1>3, <2>1, <2>2, QueuePickReceiver
<1>7. CASE SendBlock(th)
  <2>1. /\ Cps(th)
        /\ blocked_senders' = [blocked_senders EXCEPT ![c] = Append(blocked_senders[c], cur[th])]
        /\ pc' = [pc EXCEPT ![th] = "yield"]
        /\ UNCHANGED <<created, ready, blocked_receivers, cur, wake>>
    BY <1>7 DEF SendBlock, Goto
  <2> QED BY <1>3, <2>1, QueueBlockSender
<1> QED BY <1>4, <1>5, <1>6, <1>7 DEF SendStep

LEMMA QueueRecv ==
  ASSUME QueueInv, TypeInv', NEW th \in Thread, RecvStep(th)
  PROVE  QueueInv'
<1> DEFINE c == arg[th].ch
<1> USE DEF taskVars, waitVars
<1>1. TypeInv BY DEF QueueInv
<1>2. pc[th] \in {"recv", "relock", "rewake"} /\ pc[th] \in Inside
  BY DEF RecvStep, RecvHandoff, RecvPairBuffered, RecvPairEmpty, TakeSender, Rewake,
         RecvBuffer, RecvBlock, RecvNothing, FellThrough, Entered, Goto, Inside
<1>3. c \in Chan /\ Busy(th) BY <1>1, <1>2, Registers DEF Busy
<1>4. CASE RecvHandoff(th)
  BY <1>2, <1>4, QueueFinish DEF RecvHandoff, Finish, Goto
<1>5. CASE RecvBuffer(th) \/ RecvNothing(th)
  BY <1>2, <1>5, QueueFinish DEF RecvBuffer, RecvNothing
<1>6. CASE RecvPairBuffered(th) \/ RecvPairEmpty(th)
  <2>1. TakeSender(th, c) BY <1>6 DEF RecvPairBuffered, RecvPairEmpty
  <2>2. /\ blocked_senders[c] # << >>
        /\ blocked_senders' = [blocked_senders EXCEPT ![c] = Tail(blocked_senders[c])]
        /\ wake' = [wake EXCEPT ![th] = Head(blocked_senders[c])]
        /\ pc[th] = "recv"
    BY <2>1 DEF TakeSender, Entered
  <2>3. UNCHANGED <<created, ready, blocked_receivers, cur>>
    BY <1>6 DEF RecvPairBuffered, RecvPairEmpty
  <2>4. PICK p \in Inside : pc' = [pc EXCEPT ![th] = p]
    BY <1>6 DEF RecvPairBuffered, RecvPairEmpty, Goto, Inside
  <2>5. wake[th] = NULL BY <1>1, <2>2, Local
  <2> QED BY <1>3, <2>2, <2>3, <2>4, <2>5, QueuePickSender
<1>7. CASE Rewake(th) BY <1>7, QueueWake DEF Rewake, Goto
<1>8. CASE RecvBlock(th)
  <2>1. /\ Cps(th)
        /\ blocked_receivers' = [blocked_receivers EXCEPT ![c] = Append(blocked_receivers[c], cur[th])]
        /\ pc' = [pc EXCEPT ![th] = "yield"]
        /\ UNCHANGED <<created, ready, blocked_senders, cur, wake>>
    BY <1>8 DEF RecvBlock, Goto
  <2> QED BY <1>3, <2>1, QueueBlockReceiver
<1> QED BY <1>4, <1>5, <1>6, <1>7, <1>8 DEF RecvStep

LEMMA QueueCloseStep ==
  ASSUME QueueInv, TypeInv', NEW th \in Thread, CloseStep(th)
  PROVE  QueueInv'
<1>1. TypeInv BY DEF QueueInv
<1>2. pc[th] = "close" /\ pc[th] \in Inside
  BY DEF CloseStep, CloseWakeReceiver, CloseWakeSender, CloseUnlock, Goto, Inside
<1>3. arg[th].ch \in Chan BY <1>1, <1>2, Registers
<1>4. CASE CloseWakeReceiver(th)
  BY <1>3, <1>4, QueueWakeReceiver DEF CloseWakeReceiver
<1>5. CASE CloseWakeSender(th)
  BY <1>3, <1>5, QueueWakeSender DEF CloseWakeSender
<1>6. CASE CloseUnlock(th) BY <1>3, <1>6, QueueClose
<1> QED BY <1>4, <1>5, <1>6 DEF CloseStep

LEMMA QueueNext == QueueInv /\ [Next]_vars => QueueInv'
<1> SUFFICES ASSUME QueueInv, [Next]_vars PROVE QueueInv' OBVIOUS
<1>1. TypeInv' BY TypeNext DEF QueueInv
<1>2. ASSUME NEW w \in Worker, WorkerTake(w) \/ WorkerReturn(w) PROVE QueueInv'
  BY <1>1, <1>2, QueueWorkerTake, QueueWorkerReturn
<1>3. ASSUME NEW th \in Thread, SendStep(th) \/ RecvStep(th) \/ CloseStep(th)
      PROVE  QueueInv'
  BY <1>1, <1>3, QueueSend, QueueRecv, QueueCloseStep
<1>4. ASSUME NEW th \in Thread, Wake(th) PROVE QueueInv'
  BY <1>1, <1>4, QueueWake DEF Wake, Finish, Goto, waitVars
<1>5. ASSUME NEW th \in Thread, UserStep(th) PROVE QueueInv'
  <2>1. ASSUME NEW t \in Task, GoCreate(th, t) PROVE QueueInv'
    BY <1>1, <2>1, QueueGoCreate
  <2>2. ASSUME NEW c \in Chan, NEW cps \in BOOLEAN,
               StartSend(th, c, cps) \/ StartRecv(th, c, cps)
        PROVE  QueueInv'
    <3>1. PICK call : StartCall(th, call, cps) BY <2>2 DEF StartSend, StartRecv
    <3> QED BY <1>1, <3>1, QueueStart
  <2>3. ASSUME NEW c \in Chan, Close(th, c) PROVE QueueInv'
    BY <1>1, <2>3, QueueClose
  <2> QED BY <1>5, <2>1, <2>2, <2>3 DEF UserStep
<1>6. CASE UNCHANGED vars
  BY <1>1, <1>6, Shrink DEF vars, waitVars, Busy
<1> QED BY <1>2, <1>3, <1>4, <1>5, <1>6 DEF Next, RuntimeStep

LEMMA InitQueue == Init => QueueInv
<1> SUFFICES ASSUME Init PROVE QueueInv OBVIOUS
<1>1. TypeInv BY InitType
<1>2. /\ ready = << >>
      /\ \A c \in Chan : blocked_senders[c] = << >> /\ blocked_receivers[c] = << >>
      /\ \A th \in Thread : wake[th] = NULL /\ cur[th] = NULL
      /\ NULL \notin Task
  BY ConstantsAssumption DEF Init
<1>3. ASSUME NEW p \in Place, NEW t \in Task PROVE ~Holds(p, t)
  <2>1. \A u : u \notin Elems(<< >>) BY DEF Elems
  <2>2. CASE p = READY BY <1>2, <2>1, <2>2, HoldsAt
  <2>3. ASSUME NEW c \in Chan, p = <<"senders", c>> PROVE ~Holds(p, t)
    BY <1>2, <2>1, <2>3, HoldsAt
  <2>4. ASSUME NEW c \in Chan, p = <<"receivers", c>> PROVE ~Holds(p, t)
    BY <1>2, <2>1, <2>4, HoldsAt
  <2>5. ASSUME NEW th \in Thread, p = <<"wake", th>> PROVE ~Holds(p, t)
    <3>1. wake[th] # t BY <1>2
    <3> QED BY <2>5, <3>1, HoldsAt
  <2>6. ASSUME NEW th \in Thread, p = <<"exec", th>> PROVE ~Holds(p, t)
    <3>1. cur[th] # t BY <1>2
    <3> QED BY <2>6, <3>1, HoldsAt
  <2> QED BY <2>2, <2>3, <2>4, <2>5, <2>6, PlaceCases
<1>4. QueuesDistinct BY <1>2 DEF QueuesDistinct, Distinct
<1> QED BY <1>1, <1>3, <1>4 DEF QueueInv, Unique, HeldCreated

(* However many goroutines, channels and threads there are, a task is on   *)
(* at most one of the lists that share its next pointer, once, and it is   *)
(* not executed while it is on one.                                        *)
THEOREM TaskInOnePlace == Spec => []OneQueue
<1>1. Spec => []QueueInv BY InitQueue, QueueNext, PTL DEF Spec
<1>2. QueueInv => OneQueue BY DEF QueueInv, OneQueue, Unique, QueuesDistinct
<1> QED BY <1>1, <1>2, PTL

-----------------------------------------------------------------------------
(***************************************************************************)
(* Waiting receivers and the buffer.                                       *)
(***************************************************************************)

(* A step that adds nothing to a buffer at which a receiver waits and      *)
(* blocks receivers only at an empty buffer.                               *)
LEMMA EmptyKept ==
  ASSUME TypeInv, ReceiverMeansEmpty,
         \A c \in Chan : \/ count'[c] <= count[c] /\ count'[c] \in Nat
                         \/ blocked_receivers'[c] = << >>,
         \A c \in Chan : \/ blocked_receivers'[c] = << >>
                         \/ blocked_receivers[c] # << >>
                         \/ count[c] = 0
  PROVE  ReceiverMeansEmpty'
<1> SUFFICES ASSUME NEW c \in Chan, blocked_receivers'[c] # << >> PROVE count'[c] = 0
  BY DEF ReceiverMeansEmpty
<1>1. count[c] = 0 BY DEF ReceiverMeansEmpty
<1> QED BY <1>1 DEF RingTypes

LEMMA EmptyNext == TypeInv /\ ReceiverMeansEmpty /\ [Next]_vars => ReceiverMeansEmpty'
<1> SUFFICES ASSUME TypeInv, ReceiverMeansEmpty, [Next]_vars PROVE ReceiverMeansEmpty'
  OBVIOUS
<1>1. count \in [Chan -> Nat] /\ blocked_receivers \in [Chan -> Seq(Task)]
  BY DEF RingTypes, TaskTypes
<1>2. CASE UNCHANGED <<count, blocked_receivers>>
  BY <1>2 DEF ReceiverMeansEmpty
<1>3. ASSUME NEW th \in Thread, SendBuffer(th) PROVE ReceiverMeansEmpty'
  <2> DEFINE c == arg[th].ch
  <2>1. /\ count' = [count EXCEPT ![c] = count[c] + 1]
        /\ UNCHANGED blocked_receivers /\ blocked_receivers[c] = << >>
    BY <1>3 DEF SendBuffer, PushBuffer, NoReceiver, waitVars
  <2>2. \A d \in Chan \ {c} : count'[d] = count[d] BY <1>1, <2>1
  <2> QED BY <1>1, <2>1, <2>2, EmptyKept
<1>4. ASSUME NEW th \in Thread,
             SendHandoff(th) \/ CloseWakeReceiver(th)
      PROVE  ReceiverMeansEmpty'
  <2> DEFINE c == arg[th].ch
  <2>1. /\ UNCHANGED count /\ blocked_receivers[c] # << >>
        /\ blocked_receivers' = [blocked_receivers EXCEPT ![c] = Tail(blocked_receivers[c])]
    BY <1>4 DEF SendHandoff, CloseWakeReceiver, ringVars
  <2>2. \A d \in Chan \ {c} : blocked_receivers'[d] = blocked_receivers[d]
    BY <1>1, <2>1
  <2> QED BY <1>1, <2>1, <2>2, EmptyKept
<1>5. ASSUME NEW th \in Thread, RecvPairBuffered(th) \/ RecvBuffer(th)
      PROVE  ReceiverMeansEmpty'
  <2> DEFINE c == arg[th].ch
  <2>1. /\ UNCHANGED blocked_receivers /\ count[c] > 0
        /\ count' = [count EXCEPT ![c] = count[c] - 1]
    BY <1>5 DEF RecvPairBuffered, RecvBuffer, PopBuffer, waitVars
  <2>2. \A d \in Chan : count'[d] <= count[d] /\ count'[d] \in Nat BY <1>1, <2>1
  <2> QED BY <2>1, <2>2, EmptyKept
<1>6. ASSUME NEW th \in Thread, RecvBlock(th) PROVE ReceiverMeansEmpty'
  <2> DEFINE c == arg[th].ch
  <2>1. /\ UNCHANGED count /\ count[c] = 0
        /\ blocked_receivers' = [blocked_receivers EXCEPT ![c] = Append(blocked_receivers[c], cur[th])]
    BY <1>6 DEF RecvBlock, ringVars
  <2>2. \A d \in Chan \ {c} : blocked_receivers'[d] = blocked_receivers[d]
    BY <1>1, <2>1
  <2> QED BY <1>1, <2>1, <2>2, EmptyKept
<1>7. ASSUME NEW th \in Thread, SendStep(th) \/ Wake(th) PROVE ReceiverMeansEmpty'
  BY <1>2, <1>3, <1>4, <1>7
  DEF SendStep, SendClosed, SendDrop, Drop, SendBlock, Wake, ringVars, waitVars
<1>8. ASSUME NEW th \in Thread, RecvStep(th) PROVE ReceiverMeansEmpty'
  BY <1>2, <1>5, <1>6, <1>8
  DEF RecvStep, RecvHandoff, RecvPairEmpty, Rewake, RecvNothing, ringVars, waitVars
<1>9. ASSUME NEW th \in Thread, CloseStep(th) PROVE ReceiverMeansEmpty'
  BY <1>2, <1>4, <1>9
  DEF CloseStep, CloseWakeSender, CloseUnlock, ringVars, waitVars
<1>10. ASSUME NEW th \in Thread, UserStep(th) PROVE ReceiverMeansEmpty'
  BY <1>2, <1>10
  DEF UserStep, GoCreate, StartSend, StartRecv, StartCall, Close, ringVars, waitVars
<1>11. ASSUME NEW w \in Worker, WorkerTake(w) \/ WorkerReturn(w) PROVE ReceiverMeansEmpty'
  BY <1>2, <1>11 DEF WorkerTake, WorkerReturn, ringVars, waitVars
<1>12. CASE UNCHANGED vars BY <1>2, <1>12 DEF vars, ringVars, waitVars
<1> QED BY <1>7, <1>8, <1>9, <1>10, <1>11, <1>12 DEF Next, RuntimeStep

(* A direct handoff never overtakes a buffered value: whenever a receiver  *)
(* is on blocked_receivers the buffer of the channel is empty, whatever    *)
(* was released and retaken in between.                                    *)
THEOREM HandoffOnlyPastEmptyBuffer == Spec => []ReceiverMeansEmpty
<1>1. Init => TypeInv /\ ReceiverMeansEmpty
  BY InitType DEF Init, ReceiverMeansEmpty
<1>2. TypeInv /\ ReceiverMeansEmpty /\ [Next]_vars => (TypeInv /\ ReceiverMeansEmpty)'
  BY TypeNext, EmptyNext
<1> QED BY <1>1, <1>2, PTL DEF Spec

(***************************************************************************)
(* The channels of Scheduler implement FifoChannel, for every              *)
(* set of tasks, channels and workers and every capacity: the contents of  *)
(* the ring buffer is the queue of the abstract channel, and each critical *)
(* section of the channel lock is one of its steps or changes nothing it   *)
(* shows.  Then about the values that goroutines exchange: none is sent    *)
(* twice although blocked sends are repeated, and none that a channel      *)
(* delivered is lost on its way to a receiver.                             *)
(***************************************************************************)

USE DEF TypeInv, TypeOK

(***************************************************************************)
(* The ring buffer: k values from index h on in a buffer b of n slots.     *)
(***************************************************************************)
Ring(b, h, k, n) == [i \in 1 .. k |-> b[(h + i - 1) % n]]

(* The slot j places after h, at most one round further. *)
Slot(h, j, n) == IF h + j < n THEN h + j ELSE h + j - n

LEMMA ModRound ==
  ASSUME NEW n \in Nat \ {0}, NEW h \in 0 .. n - 1, NEW j \in 0 .. n
  PROVE  (h + j) % n = Slot(h, j, n) /\ Slot(h, j, n) \in 0 .. n - 1
BY DEF Slot

LEMMA ModSlot ==
  ASSUME NEW n \in Nat \ {0}, NEW h \in 0 .. n - 1, NEW i \in 1 .. n
  PROVE  /\ (h + i - 1) % n = Slot(h, i - 1, n)
         /\ Slot(h, i - 1, n) \in 0 .. n - 1
<1>1. i - 1 \in 0 .. n /\ h + i - 1 = h + (i - 1) OBVIOUS
<1> QED BY <1>1, ModRound

(* s is the ring. *)
IsRing(s, b, h, k, n) ==
  /\ s \in Seq(Nat) /\ Len(s) = k
  /\ \A i \in 1 .. k : s[i] = b[Slot(h, i - 1, n)] /\ Slot(h, i - 1, n) \in 0 .. n - 1

LEMMA RingType ==
  ASSUME NEW n \in Nat \ {0}, NEW h \in 0 .. n - 1, NEW k \in 0 .. n,
         NEW b \in [0 .. n - 1 -> Nat]
  PROVE  IsRing(Ring(b, h, k, n), b, h, k, n)
<1>1. \A i \in 1 .. k : i \in 1 .. n OBVIOUS
<1>2. \A i \in 1 .. k : /\ (h + i - 1) % n = Slot(h, i - 1, n)
                        /\ Slot(h, i - 1, n) \in 0 .. n - 1
  BY <1>1, ModSlot
<1>3. \A i \in 1 .. k : b[Slot(h, i - 1, n)] \in Nat BY <1>2
<1>4. \A i \in 1 .. k : b[(h + i - 1) % n] = b[Slot(h, i - 1, n)] BY <1>2
<1>5. \A i \in 1 .. k : b[(h + i - 1) % n] \in Nat BY <1>3, <1>4
<1> DEFINE e(i) == b[(h + i - 1) % n]
<1>6. Ring(b, h, k, n) = [i \in 1 .. k |-> e(i)] BY DEF Ring
<1>7. \A i \in 1 .. k : e(i) \in Nat /\ e(i) = b[Slot(h, i - 1, n)] BY <1>4, <1>5
<1> HIDE DEF e
<1> DEFINE f == [i \in 1 .. k |-> e(i)]
<1>8. f \in Seq(Nat) /\ Len(f) = k BY <1>7
<1>9. \A i \in 1 .. k : f[i] = b[Slot(h, i - 1, n)] BY <1>7
<1> HIDE DEF f
<1> QED BY <1>2, <1>6, <1>8, <1>9 DEF IsRing, f

LEMMA SequencesEqual ==
  ASSUME NEW s \in Seq(Nat), NEW t \in Seq(Nat), Len(s) = Len(t),
         \A i \in 1 .. Len(s) : s[i] = t[i]
  PROVE  s = t
OBVIOUS

(* Writing at the tail appends a value ... *)
LEMMA RingAppend ==
  ASSUME NEW n \in Nat \ {0}, NEW h \in 0 .. n - 1, NEW k \in 0 .. n - 1,
         NEW b \in [0 .. n - 1 -> Nat], NEW v \in Nat, NEW s, NEW s1,
         IsRing(s, b, h, k, n),
         IsRing(s1, [b EXCEPT ![Slot(h, k, n)] = v], h, k + 1, n)
  PROVE  s1 = Append(s, v)
<1> USE DEF IsRing
<1> DEFINE b1 == [b EXCEPT ![Slot(h, k, n)] = v]
<1>1. Slot(h, k, n) \in 0 .. n - 1 BY DEF Slot
<1>2. /\ b1[Slot(h, k, n)] = v
      /\ \A x \in 0 .. n - 1 : x # Slot(h, k, n) => b1[x] = b[x]
  BY <1>1
<1>3. /\ s1 \in Seq(Nat) /\ Len(s1) = k + 1 /\ s \in Seq(Nat) /\ Len(s) = k
      /\ \A i \in 1 .. k + 1 : s1[i] = b1[Slot(h, i - 1, n)]
      /\ \A i \in 1 .. k : s[i] = b[Slot(h, i - 1, n)] /\ Slot(h, i - 1, n) \in 0 .. n - 1
  OBVIOUS
<1> HIDE DEF b1, IsRing
<1>4. \A i \in 1 .. k : s1[i] = s[i]
  <2> TAKE i \in 1 .. k
  <2>1. Slot(h, i - 1, n) # Slot(h, k, n) BY DEF Slot
  <2>2. i \in 1 .. k + 1 OBVIOUS
  <2> QED BY <1>2, <1>3, <2>1, <2>2
<1>5. s1[k + 1] = v
  <2>1. (k + 1) - 1 = k /\ k + 1 \in 1 .. k + 1 OBVIOUS
  <2> QED BY <1>2, <1>3, <2>1
<1> QED
  <2>1. /\ Append(s, v) \in Seq(Nat) /\ Len(Append(s, v)) = k + 1
        /\ \A i \in 1 .. k : Append(s, v)[i] = s[i]
        /\ Append(s, v)[k + 1] = v
    BY <1>3
  <2>2. \A i \in 1 .. Len(s1) : i \in 1 .. k \/ i = k + 1 BY <1>3
  <2>3. \A i \in 1 .. Len(s1) : s1[i] = Append(s, v)[i]
    BY <1>4, <1>5, <2>1, <2>2
  <2> QED BY <1>3, <2>1, <2>3, SequencesEqual

(* ... and moving the head removes the first one. *)
LEMMA RingTail ==
  ASSUME NEW n \in Nat \ {0}, NEW h \in 0 .. n - 1, NEW k \in 1 .. n,
         NEW b, NEW s, NEW s1,
         IsRing(s, b, h, k, n), IsRing(s1, b, Slot(h, 1, n), k - 1, n)
  PROVE  s # << >> /\ Head(s) = b[h] /\ s1 = Tail(s)
<1> DEFINE h1 == Slot(h, 1, n)
<1>0. h1 = IF h + 1 < n THEN h + 1 ELSE h + 1 - n BY DEF Slot
<1> USE DEF IsRing
<1>1. /\ s1 \in Seq(Nat) /\ Len(s1) = k - 1 /\ s \in Seq(Nat) /\ Len(s) = k
      /\ \A i \in 1 .. k - 1 : s1[i] = b[Slot(h1, i - 1, n)]
      /\ \A i \in 1 .. k : s[i] = b[Slot(h, i - 1, n)]
  OBVIOUS
<1> HIDE DEF IsRing, h1
<1>2. \A i \in 1 .. k - 1 : s1[i] = s[i + 1]
  <2> TAKE i \in 1 .. k - 1
  <2>1. i + 1 \in 1 .. k /\ (i + 1) - 1 = i OBVIOUS
  <2>2. Slot(h1, i - 1, n) = Slot(h, i, n) BY <1>0 DEF Slot
  <2>3. s[i + 1] = b[Slot(h, i, n)] BY <1>1, <2>1
  <2> QED BY <1>1, <2>2, <2>3
<1>3. s[1] = b[h]
  <2>1. 1 \in 1 .. k /\ 1 - 1 = 0 OBVIOUS
  <2>2. Slot(h, 0, n) = h BY DEF Slot
  <2> QED BY <1>1, <2>1, <2>2
<1>4. s # << >> /\ Head(s) = b[h] BY <1>1, <1>3
<1>5. s1 = Tail(s)
  <2>1. /\ Tail(s) \in Seq(Nat) /\ Len(Tail(s)) = k - 1
        /\ \A i \in 1 .. k - 1 : Tail(s)[i] = s[i + 1]
    BY <1>1, <1>4
  <2>2. \A i \in 1 .. Len(s1) : s1[i] = Tail(s)[i] BY <1>1, <1>2, <2>1
  <2> QED BY <1>1, <2>1, <2>2, SequencesEqual
<1> QED BY <1>4, <1>5

(* The buffer of a channel is its ring from head on. *)
LEMMA BufferedRing ==
  ASSUME RingTypes, NEW c \in Chan
  PROVE  /\ Buffered(c) \in Seq(Nat) /\ Len(Buffered(c)) = count[c]
         /\ count[c] = 0 => Buffered(c) = << >>
         /\ Capacity[c] > 0 =>
              IsRing(Buffered(c), buffer[c], head[c], count[c], Capacity[c])
<1>1. /\ Capacity[c] \in Nat /\ count[c] \in 0 .. Capacity[c]
      /\ head[c] \in Nat /\ buffer[c] \in [0 .. Capacity[c] - 1 -> Nat]
      /\ Capacity[c] > 0 => head[c] < Capacity[c]
  BY ConstantsAssumption DEF RingTypes
<1>2. Buffered(c) = Ring(buffer[c], head[c], count[c], Capacity[c])
  BY DEF Buffered, Ring
<1>3. count[c] = 0 => Buffered(c) = << >> BY DEF Buffered
<1>4. CASE Capacity[c] > 0
  <2>1. Capacity[c] \in Nat \ {0} /\ head[c] \in 0 .. Capacity[c] - 1 BY <1>1, <1>4
  <2>2. IsRing(Buffered(c), buffer[c], head[c], count[c], Capacity[c])
    BY <1>1, <1>2, <2>1, RingType
  <2> QED BY <1>3, <2>2 DEF IsRing
<1>5. CASE ~(Capacity[c] > 0)
  <2>1. count[c] = 0 BY <1>1, <1>5
  <2> QED BY <1>3, <1>5, <2>1
<1> QED BY <1>4, <1>5

(* The tail is where head and count say it is, so that what a push writes  *)
(* comes after everything buffered.                                        *)
RingOrder ==
  \A c \in Chan : Capacity[c] > 0 => tail[c] = (head[c] + count[c]) % Capacity[c]

LEMMA PushBuffered ==
  ASSUME RingTypes, RingOrder, NEW c \in Chan, NEW v \in Nat, PushBuffer(c, v),
         Capacity[c] > 0, count[c] < Capacity[c]
  PROVE  /\ RingOrder'
         /\ Buffered(c)' = Append(Buffered(c), v)
         /\ \A d \in Chan \ {c} : Buffered(d)' = Buffered(d)
<1> DEFINE n == Capacity[c]  h == head[c]  k == count[c]  b == buffer[c]
           tl == tail[c]  b1 == [b EXCEPT ![tl] = v]
<1>1. /\ n \in Nat \ {0} /\ h \in 0 .. n - 1 /\ k \in 0 .. n - 1 /\ tl \in 0 .. n - 1
      /\ b \in [0 .. n - 1 -> Nat] /\ tl = (h + k) % n
  BY ConstantsAssumption DEF RingTypes, RingOrder
<1>2. /\ head' = head /\ tail'[c] = (tl + 1) % n /\ count'[c] = k + 1 /\ buffer'[c] = b1
      /\ \A d \in Chan \ {c} : /\ tail'[d] = tail[d] /\ count'[d] = count[d]
                               /\ buffer'[d] = buffer[d]
  BY DEF PushBuffer, RingTypes
<1>3. \A d \in Chan \ {c} : Buffered(d)' = Buffered(d) BY <1>2 DEF Buffered
<1>4. IsRing(Buffered(c), b, h, k, n) BY BufferedRing
<1>5. Buffered(c)' = Ring(b1, h, k + 1, n) BY <1>2 DEF Buffered, Ring
<1> HIDE DEF n, h, k, b, tl, b1
<1>6. k \in 0 .. n /\ k + 1 \in 0 .. n /\ 1 \in 0 .. n BY <1>1
<1>7. tl = Slot(h, k, n) BY <1>1, <1>6, ModRound
<1>8. (tl + 1) % n = Slot(tl, 1, n) BY <1>1, <1>6, ModRound
<1>9. (h + (k + 1)) % n = Slot(h, k + 1, n) BY <1>1, <1>6, ModRound
<1>10. (tl + 1) % n = (h + (k + 1)) % n
  <2>1. Slot(tl, 1, n) = Slot(h, k + 1, n) BY <1>1, <1>7 DEF Slot
  <2> QED BY <1>8, <1>9, <2>1
<1>11. b1 \in [0 .. n - 1 -> Nat] BY <1>1 DEF b1
<1>12. IsRing(Ring(b1, h, k + 1, n), b1, h, k + 1, n) BY <1>1, <1>6, <1>11, RingType
<1>13. Buffered(c)' = Append(Buffered(c), v)
  <2>1. b1 = [b EXCEPT ![Slot(h, k, n)] = v] BY <1>7 DEF b1
  <2> QED BY <1>1, <1>4, <1>5, <1>12, <2>1, RingAppend
<1>14. RingOrder' BY <1>2, <1>10 DEF RingOrder, n, h, k
<1> QED BY <1>3, <1>13, <1>14

LEMMA PopBuffered ==
  ASSUME RingTypes, RingOrder, NEW c \in Chan, PopBuffer(c), count[c] > 0
  PROVE  /\ RingOrder'
         /\ Buffered(c) # << >> /\ Head(Buffered(c)) = buffer[c][head[c]]
         /\ Buffered(c)' = Tail(Buffered(c))
         /\ \A d \in Chan \ {c} : Buffered(d)' = Buffered(d)
<1> DEFINE n == Capacity[c]  h == head[c]  k == count[c]  b == buffer[c]  h1 == head'[c]
<1>1. /\ n \in Nat \ {0} /\ h \in 0 .. n - 1 /\ k \in 1 .. n
      /\ b \in [0 .. n - 1 -> Nat] /\ tail[c] = (h + k) % n
  BY ConstantsAssumption DEF RingTypes, RingOrder
<1>2. /\ buffer' = buffer /\ tail' = tail /\ h1 = (h + 1) % n /\ count'[c] = k - 1
      /\ \A d \in Chan \ {c} : head'[d] = head[d] /\ count'[d] = count[d]
  BY DEF PopBuffer, RingTypes
<1>3. \A d \in Chan \ {c} : Buffered(d)' = Buffered(d) BY <1>2 DEF Buffered
<1>4. IsRing(Buffered(c), b, h, k, n) BY <1>1, BufferedRing
<1>5. Buffered(c)' = Ring(b, h1, k - 1, n) BY <1>2 DEF Buffered, Ring
<1> HIDE DEF n, h, k, b, h1
<1>6. k \in 0 .. n /\ k - 1 \in 0 .. n /\ 1 \in 0 .. n BY <1>1
<1>7. h1 = Slot(h, 1, n) /\ h1 \in 0 .. n - 1 BY <1>1, <1>2, <1>6, ModRound
<1>8. (h + k) % n = Slot(h, k, n) BY <1>1, <1>6, ModRound
<1>9. (h1 + (k - 1)) % n = Slot(h1, k - 1, n) BY <1>1, <1>6, <1>7, ModRound
<1>10. (h1 + (k - 1)) % n = (h + k) % n
  <2>1. Slot(h1, k - 1, n) = Slot(h, k, n) BY <1>1, <1>7 DEF Slot
  <2> QED BY <1>8, <1>9, <2>1
<1>11. IsRing(Ring(b, h1, k - 1, n), b, h1, k - 1, n) BY <1>1, <1>6, <1>7, RingType
<1>12. /\ Buffered(c) # << >> /\ Head(Buffered(c)) = b[h]
       /\ Buffered(c)' = Tail(Buffered(c))
  <2> DEFINE s == Buffered(c)  s1 == Ring(b, h1, k - 1, n)
  <2>1. IsRing(s, b, h, k, n) /\ IsRing(s1, b, Slot(h, 1, n), k - 1, n)
    BY <1>4, <1>7, <1>11
  <2>2. Buffered(c)' = s1 BY <1>5
  <2> HIDE DEF s, s1
  <2>3. s # << >> /\ Head(s) = b[h] /\ s1 = Tail(s) BY <1>1, <2>1, RingTail
  <2> QED BY <2>2, <2>3 DEF s
<1>13. RingOrder'
  <2> SUFFICES ASSUME NEW d \in Chan, Capacity[d] > 0
               PROVE  tail'[d] = (head'[d] + count'[d]) % Capacity[d]
    BY DEF RingOrder
  <2>1. CASE d = c BY <1>1, <1>2, <1>10, <2>1 DEF n, h1, h, k
  <2>2. CASE d # c BY <1>2, <2>2 DEF RingOrder
  <2> QED BY <2>1, <2>2
<1> QED BY <1>3, <1>12, <1>13 DEF b, h

-----------------------------------------------------------------------------
(***************************************************************************)
(* Calls.  A thread inside chan_send or chan_recv has the call its task    *)
(* saved before it entered, and outside one its task has saved none: what  *)
(* a resumed task repeats is the call it was blocked in.  Sends are        *)
(* numbered, and a call in progress has one of the numbers given out.      *)
(***************************************************************************)
CallSaved(th) ==
  /\ pc[th] = "send" => arg[th].kind = "send"
  /\ pc[th] \in {"recv", "rewake", "relock"} => arg[th].kind = "recv"
  /\ pc[th] \in {"send", "recv", "rewake", "relock"} /\ Cps(th) => saved[cur[th]] = arg[th]
  /\ pc[th] \in {"run", "close"} => ~Cps(th)
CallsSaved == \A th \in Thread : CallSaved(th)
Numbered ==
  /\ sends <= MaxSends
  /\ \A th \in Thread : pc[th] = "send" => arg[th].val \in 1 .. sends
  /\ \A t \in Task : saved[t].kind = "send" => saved[t].val \in 1 .. sends
CallInv == QueueInv /\ CallsSaved /\ Numbered

(* No two threads are inside a call of one task. *)
LEMMA OneExecutor ==
  ASSUME QueueInv, NEW th \in Thread, NEW x \in Thread, x # th,
         Busy(th), Busy(x), cur[x] # NULL
  PROVE  cur[x] # cur[th]
<1> SUFFICES ASSUME cur[x] = cur[th] PROVE FALSE OBVIOUS
<1>1. cur[x] \in Task BY Registers DEF QueueInv
<1>2. Holds(<<"exec", x>>, cur[x]) /\ Holds(<<"exec", th>>, cur[x]) BY HoldsAt
<1>3. <<"exec", x>> \in Place /\ <<"exec", th>> \in Place BY HoldsAt
<1>4. <<"exec", x>> = <<"exec", th>> BY <1>1, <1>2, <1>3, Zenon DEF QueueInv, Unique
<1> QED BY <1>4, PlacesDiffer

(* A step of th leaves the calls of the other threads alone. *)
LEMMA CallOthers ==
  ASSUME QueueInv, CallsSaved, NEW th \in Thread, NEW p, NEW k, NEW a,
         pc' = [pc EXCEPT ![th] = p], cur' = [cur EXCEPT ![th] = k],
         arg' = [arg EXCEPT ![th] = a],
         \A t \in Task : saved'[t] # saved[t] => t = cur[th] /\ Busy(th),
         CallSaved(th)'
  PROVE  CallsSaved'
<1> SUFFICES ASSUME NEW x \in Thread, x # th PROVE CallSaved(x)'
  BY DEF CallsSaved
<1>1. pc'[x] = pc[x] /\ cur'[x] = cur[x] /\ arg'[x] = arg[x]
  BY DEF QueueInv, ThreadTypes
<1>2. CallSaved(x) BY DEF CallsSaved
<1>3. CASE pc[x] \in Inside \cup {"run"} /\ cur[x] # NULL
  <2>1. cur[x] \in Task BY <1>3, Registers DEF QueueInv
  <2>2. saved'[cur[x]] = saved[cur[x]] BY <1>3, <2>1, OneExecutor DEF Busy
  <2> QED BY <1>1, <1>2, <2>2 DEF CallSaved, Cps
<1>4. CASE ~(pc[x] \in Inside \cup {"run"} /\ cur[x] # NULL)
  BY <1>1, <1>2, <1>4 DEF CallSaved, Cps, Inside
<1> QED BY <1>3, <1>4

(* A step that gives no call a new value. *)
LEMMA NumberedKept ==
  ASSUME TypeInv, Numbered, sends' = sends, NEW th \in Thread, NEW p, NEW a,
         pc' = [pc EXCEPT ![th] = p], arg' = [arg EXCEPT ![th] = a],
         p = "send" => a.val \in 1 .. sends,
         \A t \in Task : saved'[t] = saved[t] \/ saved'[t] = Idle
  PROVE  Numbered'
<1>1. /\ pc'[th] = p /\ arg'[th] = a
      /\ \A x \in Thread \ {th} : pc'[x] = pc[x] /\ arg'[x] = arg[x]
  BY DEF ThreadTypes
<1>2. \A x \in Thread : pc'[x] = "send" => arg'[x].val \in 1 .. sends
  BY <1>1 DEF Numbered
<1>3. \A t \in Task : saved'[t].kind = "send" => saved'[t].val \in 1 .. sends
  BY DEF Numbered, Idle
<1> QED BY <1>2, <1>3 DEF Numbered

(* The call returns. *)
LEMMA CallFinish ==
  ASSUME CallInv, QueueInv', NEW th \in Thread, NEW from \in Inside, Finish(th, from),
         sends' = sends
  PROVE  CallInv'
<1> DEFINE p == "run"  k == cur[th]  a == Idle
<1>1. QueueInv /\ TypeInv /\ CallsSaved /\ Numbered BY DEF CallInv, QueueInv
<1>2. /\ pc[th] \in Inside /\ pc' = [pc EXCEPT ![th] = p] /\ arg' = [arg EXCEPT ![th] = a]
      /\ cur' = cur
      /\ saved' = IF cur[th] = NULL THEN saved ELSE [saved EXCEPT ![cur[th]] = Idle]
  BY DEF Finish, Goto
<1>3. cur' = [cur EXCEPT ![th] = k] BY <1>1, <1>2, Local
<1>4. \A t \in Task : /\ saved'[t] # saved[t] => t = cur[th] /\ saved'[t] = Idle
                      /\ t = cur[th] => saved'[t] = Idle
  BY <1>1, <1>2, ConstantsAssumption DEF TaskTypes
<1>5. Busy(th) BY <1>2 DEF Busy
<1>6. pc'[th] = p /\ cur'[th] = cur[th] BY <1>1, <1>2 DEF ThreadTypes
<1>7. ~Cps(th)' BY <1>1, <1>4, <1>6, Registers DEF Cps
<1>8. CallSaved(th)' BY <1>6, <1>7 DEF CallSaved
<1>9. p # "send" OBVIOUS
<1> HIDE DEF p, k, a
<1>10. CallsSaved' BY <1>1, <1>2, <1>3, <1>4, <1>5, <1>8, CallOthers
<1>11. Numbered' BY <1>1, <1>2, <1>4, <1>9, NumberedKept
<1> QED BY <1>10, <1>11 DEF CallInv

(* The call goes on, or waits. *)
LEMMA CallGoto ==
  ASSUME CallInv, QueueInv', NEW th \in Thread,
         NEW from \in {"send", "recv", "rewake", "relock"},
         NEW p \in {"wake", "yield", "rewake", "relock"},
         Goto(th, from, p), UNCHANGED <<cur, arg, saved, sends>>,
         p \in {"rewake", "relock"} => from # "send"
  PROVE  CallInv'
<1> DEFINE k == cur[th]  a == arg[th]
<1>1. QueueInv /\ TypeInv /\ CallsSaved /\ Numbered BY DEF CallInv, QueueInv
<1>2. pc[th] = from /\ pc' = [pc EXCEPT ![th] = p] BY DEF Goto
<1>3. cur' = [cur EXCEPT ![th] = k] /\ arg' = [arg EXCEPT ![th] = a] BY <1>1, Local
<1>4. pc'[th] = p BY <1>1, <1>2 DEF ThreadTypes
<1>5. CallSaved(th)' BY <1>1, <1>2, <1>4 DEF CallsSaved, CallSaved, Cps
<1>6. p # "send" OBVIOUS
<1> HIDE DEF k, a
<1>7. CallsSaved' BY <1>1, <1>2, <1>3, <1>5, CallOthers
<1>8. Numbered' BY <1>1, <1>2, <1>3, <1>6, NumberedKept
<1> QED BY <1>7, <1>8 DEF CallInv

(* A worker resumes a task at the call it saved, or leaves one. *)
LEMMA CallWorker ==
  ASSUME CallInv, QueueInv', NEW w \in Worker, WorkerTake(w) \/ WorkerReturn(w)
  PROVE  CallInv'
<1>1. QueueInv /\ TypeInv /\ CallsSaved /\ Numbered /\ w \in Thread
  BY DEF CallInv, QueueInv, Thread
<1>2. UNCHANGED <<saved, sends>> BY DEF WorkerTake, WorkerReturn, obsVars
<1>3. CASE WorkerTake(w)
  <2> DEFINE t == Head(ready)  a == saved[t]
             p == IF saved[t] = Idle THEN "run" ELSE saved[t].kind
  <2>1. t \in Task BY <1>1, <1>3, FrontType DEF WorkerTake, TaskTypes
  <2>2. /\ pc' = [pc EXCEPT ![w] = p] /\ cur' = [cur EXCEPT ![w] = t]
        /\ arg' = [arg EXCEPT ![w] = a]
    BY <1>3 DEF WorkerTake, Goto
  <2>3. a \in Call \cup {Idle} BY <1>1, <2>1 DEF TaskTypes
  <2>4. pc'[w] = p /\ cur'[w] = t /\ arg'[w] = a BY <1>1, <2>2 DEF ThreadTypes
  <2>5. t # NULL BY <2>1, ConstantsAssumption
  <2>6. p = "run" => a = Idle BY <2>3 DEF Call
  <2>7. p # "run" => p = a.kind /\ p \in {"send", "recv"} BY <2>3 DEF Call
  <2>8. CallSaved(w)' BY <1>2, <2>4, <2>5, <2>6, <2>7 DEF CallSaved, Cps
  <2>9. p = "send" => a.val \in 1 .. sends BY <1>1, <2>1, <2>7 DEF Numbered
  <2> HIDE DEF t, a, p
  <2>10. CallsSaved' BY <1>1, <1>2, <2>2, <2>8, CallOthers
  <2>11. Numbered' BY <1>1, <1>2, <2>2, <2>9, NumberedKept
  <2> QED BY <2>10, <2>11 DEF CallInv
<1>4. CASE WorkerReturn(w)
  <2> DEFINE p == "idle"  k == NULL  a == Idle
  <2>1. /\ pc' = [pc EXCEPT ![w] = p] /\ cur' = [cur EXCEPT ![w] = k]
        /\ arg' = [arg EXCEPT ![w] = a]
    BY <1>4 DEF WorkerReturn, Goto
  <2>2. pc'[w] = p BY <1>1, <2>1 DEF ThreadTypes
  <2>3. CallSaved(w)' BY <2>2 DEF CallSaved
  <2>4. p # "send" OBVIOUS
  <2> HIDE DEF p, k, a
  <2>5. CallsSaved' BY <1>1, <1>2, <2>1, <2>3, CallOthers
  <2>6. Numbered' BY <1>1, <1>2, <2>1, <2>4, NumberedKept
  <2> QED BY <2>5, <2>6 DEF CallInv
<1> QED BY <1>3, <1>4

(* chan_send or chan_recv is called. *)
LEMMA CallStart ==
  ASSUME CallInv, QueueInv', NEW th \in Thread, NEW c \in Chan, NEW cps \in BOOLEAN,
         StartSend(th, c, cps) \/ StartRecv(th, c, cps)
  PROVE  CallInv'
<1>1. QueueInv /\ TypeInv /\ CallsSaved /\ Numbered BY DEF CallInv, QueueInv
<1>2. sends \in Nat /\ sends' \in Nat /\ sends <= sends' /\ sends' <= MaxSends
  BY <1>1, ConstantsAssumption DEF StartSend, StartRecv, Numbered, ObsTypes
<1>3. PICK call : /\ StartCall(th, call, cps)
                  /\ call.kind \in {"send", "recv"}
                  /\ call.kind = "send" => call.val = sends'
                  /\ call.kind = "send" => sends' = sends + 1
  BY DEF StartSend, StartRecv
<1> DEFINE p == call.kind  k == cur[th]
<1>4. /\ pc[th] = "run" /\ pc' = [pc EXCEPT ![th] = p] /\ cur' = cur
      /\ arg' = [arg EXCEPT ![th] = call]
      /\ cps => cur[th] # NULL
      /\ saved' = IF cps THEN [saved EXCEPT ![cur[th]] = call] ELSE saved
  BY <1>3 DEF StartCall, Goto
<1>5. cur' = [cur EXCEPT ![th] = k] BY <1>1, <1>4, Local
<1>6. Busy(th) /\ ~Cps(th) BY <1>1, <1>4 DEF Busy, CallsSaved, CallSaved
<1>7. pc'[th] = p /\ arg'[th] = call BY <1>1, <1>4 DEF ThreadTypes
<1>8. \A t \in Task : /\ saved'[t] # saved[t] => t = cur[th] /\ saved'[t] = call
                      /\ cps /\ t = cur[th] => saved'[t] = call
  BY <1>1, <1>4 DEF TaskTypes
<1>9. Cps(th)' => saved'[cur[th]] = call
  BY <1>1, <1>4, <1>6, <1>8, Registers DEF Cps
<1>10. CallSaved(th)' BY <1>3, <1>4, <1>7, <1>9 DEF CallSaved
<1>11. \A x \in Thread : pc'[x] = "send" => arg'[x].val \in 1 .. sends'
  <2> SUFFICES ASSUME NEW x \in Thread, pc'[x] = "send" PROVE arg'[x].val \in 1 .. sends'
    OBVIOUS
  <2>1. CASE x = th BY <1>2, <1>3, <1>7, <2>1
  <2>2. CASE x # th
    <3>1. pc'[x] = pc[x] /\ arg'[x] = arg[x] BY <1>1, <1>4, <2>2 DEF ThreadTypes
    <3> QED BY <1>1, <1>2, <3>1 DEF Numbered
  <2> QED BY <2>1, <2>2
<1>12. \A t \in Task : saved'[t].kind = "send" => saved'[t].val \in 1 .. sends'
  <2> SUFFICES ASSUME NEW t \in Task, saved'[t].kind = "send"
               PROVE  saved'[t].val \in 1 .. sends'
    OBVIOUS
  <2>1. CASE saved'[t] = saved[t] BY <1>1, <1>2, <2>1 DEF Numbered
  <2>2. CASE saved'[t] # saved[t]
    <3>1. saved'[t] = call BY <1>8, <2>2
    <3> QED BY <1>2, <1>3, <3>1
  <2> QED BY <2>1, <2>2
<1>13. Numbered' BY <1>2, <1>11, <1>12 DEF Numbered
<1> HIDE DEF p, k
<1>14. CallsSaved' BY <1>1, <1>4, <1>5, <1>6, <1>8, <1>10, CallOthers
<1> QED BY <1>13, <1>14 DEF CallInv

LEMMA CallClose ==
  ASSUME CallInv, QueueInv', NEW th \in Thread, NEW c \in Chan,
         Close(th, c) \/ CloseUnlock(th)
  PROVE  CallInv'
<1> DEFINE k == cur[th]
<1>1. QueueInv /\ TypeInv /\ CallsSaved /\ Numbered BY DEF CallInv, QueueInv
<1>2. PICK p, a :
        /\ p \in {"run", "close"} /\ pc[th] \in {"run", "close"} /\ pc' = [pc EXCEPT ![th] = p]
        /\ arg' = [arg EXCEPT ![th] = a]
        /\ UNCHANGED <<cur, saved, sends>>
  BY DEF Close, CloseUnlock, Goto, obsVars
<1>3. cur' = [cur EXCEPT ![th] = k] BY <1>1, <1>2, Local
<1>4. pc'[th] = p /\ (Cps(th)' <=> Cps(th)) BY <1>1, <1>2 DEF ThreadTypes, Cps
<1>5. CallSaved(th)' BY <1>1, <1>2, <1>4 DEF CallsSaved, CallSaved
<1>6. p # "send" BY <1>2
<1> HIDE DEF k
<1>7. CallsSaved' BY <1>1, <1>2, <1>3, <1>5, CallOthers
<1>8. Numbered' BY <1>1, <1>2, <1>6, NumberedKept
<1> QED BY <1>7, <1>8 DEF CallInv

LEMMA CallStay ==
  ASSUME CallInv, QueueInv', UNCHANGED <<pc, cur, arg, saved, sends>>
  PROVE  CallInv'
BY DEF CallInv, CallsSaved, CallSaved, Numbered, Cps

LEMMA CallNext == CallInv /\ [Next]_vars => CallInv'
<1> SUFFICES ASSUME CallInv, [Next]_vars PROVE CallInv' OBVIOUS
<1>1. QueueInv' BY QueueNext DEF CallInv
<1> USE DEF obsVars
<1>2. ASSUME NEW th \in Thread,
             \/ SendClosed(th) \/ SendBuffer(th) \/ SendDrop(th) \/ Wake(th)
             \/ RecvHandoff(th) \/ RecvBuffer(th) \/ RecvNothing(th)
      PROVE  CallInv'
  <2>1. PICK from \in Inside : Finish(th, from) /\ sends' = sends
    BY <1>2 DEF SendClosed, SendBuffer, SendDrop, Drop, Wake, RecvHandoff, RecvBuffer,
                RecvNothing, FellThrough, Entered, Inside
  <2> QED BY <1>1, <2>1, CallFinish
<1>3. ASSUME NEW th \in Thread,
             \/ SendHandoff(th) \/ SendBlock(th)
             \/ RecvPairBuffered(th) \/ RecvPairEmpty(th) \/ Rewake(th) \/ RecvBlock(th)
      PROVE  CallInv'
  <2>1. PICK from \in {"send", "recv", "rewake", "relock"},
             p \in {"wake", "yield", "rewake", "relock"} :
          /\ Goto(th, from, p) /\ UNCHANGED <<cur, arg, saved, sends>>
          /\ p \in {"rewake", "relock"} => from # "send"
    BY <1>3 DEF SendHandoff, SendBlock, RecvPairBuffered, RecvPairEmpty, Rewake,
                RecvBlock, FellThrough, Entered
  <2> QED BY <1>1, <2>1, CallGoto
<1>4. ASSUME NEW th \in Thread, RuntimeStep(th) PROVE CallInv'
  <2>1. CASE CloseWakeReceiver(th) \/ CloseWakeSender(th)
    BY <1>1, <2>1, CallStay DEF CloseWakeReceiver, CloseWakeSender
  <2>2. CASE CloseUnlock(th)
    <3>1. PICK c \in Chan : TRUE
      <4>1. pc[th] \in Inside BY <2>2 DEF CloseUnlock, Goto, Inside
      <4> QED BY <4>1, Registers DEF CallInv, QueueInv
    <3> QED BY <1>1, <2>2, <3>1, CallClose
  <2> QED BY <1>2, <1>3, <1>4, <2>1, <2>2 DEF RuntimeStep, SendStep, RecvStep, CloseStep
<1>5. ASSUME NEW th \in Thread, UserStep(th) PROVE CallInv'
  <2>1. ASSUME NEW t \in Task, GoCreate(th, t) PROVE CallInv'
    BY <1>1, <2>1, CallStay DEF GoCreate
  <2> QED BY <1>1, <1>5, <2>1, CallStart, CallClose DEF UserStep
<1>6. ASSUME NEW w \in Worker, WorkerTake(w) \/ WorkerReturn(w) PROVE CallInv'
  BY <1>1, <1>6, CallWorker
<1>7. CASE UNCHANGED vars BY <1>1, <1>7, CallStay DEF vars
<1> QED BY <1>4, <1>5, <1>6, <1>7 DEF Next

LEMMA InitCall == Init => CallInv
<1> SUFFICES ASSUME Init PROVE CallInv OBVIOUS
<1>1. QueueInv BY InitQueue
<1>2. /\ \A th \in Thread : pc[th] \in {"run", "idle"} /\ cur[th] = NULL
      /\ \A t \in Task : saved[t] = Idle
      /\ sends = 0 /\ sends <= MaxSends
  BY ConstantsAssumption DEF Init
<1>3. CallsSaved BY <1>2 DEF CallsSaved, CallSaved, Cps
<1>4. Numbered BY <1>2 DEF Numbered, Idle
<1> QED BY <1>1, <1>3, <1>4 DEF CallInv

-----------------------------------------------------------------------------
(***************************************************************************)
(* The refinement.  A value is Put by chan_send into the buffer, Taken     *)
(* from it by chan_recv, and Passed by chan_send to a waiting receiver;    *)
(* every other step is a stutter or closes the channel.                    *)
(***************************************************************************)
FifoInv == CallInv /\ ReceiverMeansEmpty /\ RingOrder
chanVars == <<ringVars, accepted, delivered, closed>>
Queues == [c \in Chan |-> Buffered(c)]

LEMMA FifoStutter ==
  RingOrder /\ UNCHANGED chanVars => RingOrder' /\ UNCHANGED Fifo!vars
BY DEF chanVars, ringVars, RingOrder, Fifo!vars, Buffered

LEMMA FifoPut ==
  ASSUME FifoInv, NEW th \in Thread, SendBuffer(th)
  PROVE  RingOrder' /\ Fifo!Next
<1>1. pc[th] = "send" /\ pc[th] \in Inside BY DEF SendBuffer, Entered, Inside
<1>2. TypeInv /\ RingTypes /\ RingOrder /\ Numbered BY DEF FifoInv, CallInv, QueueInv
<1>3. arg[th].ch \in Chan /\ arg[th].val \in 1 .. MaxSends
  BY <1>1, <1>2, Registers, ConstantsAssumption DEF Numbered, ObsTypes
<1>4. PICK c \in Chan, v \in 1 .. MaxSends : c = arg[th].ch /\ v = arg[th].val
  BY <1>3
<1>5. /\ ~closed[c] /\ PushBuffer(c, v) /\ UNCHANGED <<delivered, closed>>
      /\ accepted' = [accepted EXCEPT ![c] = Append(@, v)]
      /\ Capacity[c] > 0 /\ count[c] < Capacity[c]
  BY <1>4 DEF SendBuffer, NoReceiver
<1>6. /\ RingOrder' /\ Buffered(c)' = Append(Buffered(c), v)
      /\ \A d \in Chan \ {c} : Buffered(d)' = Buffered(d)
  BY <1>2, <1>5, PushBuffered
<1>7. Queues' = [Queues EXCEPT ![c] = Append(@, v)] BY <1>6 DEF Queues
<1>8. Len(Queues[c]) < Capacity[c] BY <1>2, <1>5, BufferedRing DEF Queues
<1>9. Fifo!Put(c, v) BY <1>5, <1>7, <1>8 DEF Fifo!Put, Queues
<1> QED BY <1>6, <1>9 DEF Fifo!Next

LEMMA FifoTake ==
  ASSUME FifoInv, NEW c \in Chan, PopBuffer(c), count[c] > 0, UNCHANGED <<accepted, closed>>
  PROVE  RingOrder' /\ Fifo!Next
<1>1. RingTypes /\ RingOrder BY DEF FifoInv, CallInv, QueueInv
<1>2. /\ RingOrder' /\ Buffered(c) # << >> /\ Head(Buffered(c)) = buffer[c][head[c]]
      /\ Buffered(c)' = Tail(Buffered(c))
      /\ \A d \in Chan \ {c} : Buffered(d)' = Buffered(d)
  BY <1>1, PopBuffered
<1>3. Queues' = [Queues EXCEPT ![c] = Tail(@)] BY <1>2 DEF Queues
<1>4. delivered' = [delivered EXCEPT ![c] = Append(@, Head(Queues[c]))]
  BY <1>2 DEF PopBuffer, Queues
<1>5. Fifo!Take(c) BY <1>2, <1>3, <1>4 DEF Fifo!Take, Queues
<1> QED BY <1>2, <1>5 DEF Fifo!Next

LEMMA FifoPass ==
  ASSUME FifoInv, NEW th \in Thread, SendHandoff(th)
  PROVE  RingOrder' /\ Fifo!Next
<1> DEFINE c == arg[th].ch  v == arg[th].val
<1>1. pc[th] = "send" /\ pc[th] \in Inside BY DEF SendHandoff, Entered, Inside
<1>2. TypeInv /\ RingTypes /\ Numbered BY DEF FifoInv, CallInv, QueueInv
<1>3. c \in Chan /\ v \in Nat BY <1>1, <1>2, Registers
<1>4. v \in 1 .. MaxSends
  BY <1>1, <1>2, <1>3, ConstantsAssumption DEF Numbered, ObsTypes
<1>5. /\ ~closed[c] /\ blocked_receivers[c] # << >> /\ UNCHANGED <<ringVars, closed>>
      /\ accepted' = [accepted EXCEPT ![c] = Append(@, v)]
      /\ delivered' = [delivered EXCEPT ![c] = Append(@, v)]
  BY DEF SendHandoff
<1> HIDE DEF c, v
<1>6. Buffered(c) = << >>
  BY <1>2, <1>3, <1>5, BufferedRing DEF FifoInv, ReceiverMeansEmpty
<1>7. RingOrder' /\ UNCHANGED Queues
  BY <1>5 DEF ringVars, RingOrder, FifoInv, Queues, Buffered
<1>8. Fifo!Pass(c, v) BY <1>3, <1>5, <1>6, <1>7 DEF Fifo!Pass, Queues
<1> QED BY <1>3, <1>4, <1>7, <1>8 DEF Fifo!Next

LEMMA FifoClose ==
  ASSUME FifoInv, NEW th \in Thread, NEW c \in Chan, Close(th, c)
  PROVE  RingOrder' /\ Fifo!Next
<1>1. /\ UNCHANGED <<ringVars, accepted, delivered>>
      /\ closed' = [closed EXCEPT ![c] = TRUE]
  BY DEF Close
<1>2. RingOrder' /\ UNCHANGED Queues
  BY <1>1 DEF ringVars, RingOrder, FifoInv, Queues, Buffered
<1>3. Fifo!Close(c) BY <1>1, <1>2 DEF Fifo!Close, Queues
<1> QED BY <1>2, <1>3 DEF Fifo!Next

LEMMA FifoStep == FifoInv /\ [Next]_vars => RingOrder' /\ [Fifo!Next]_Fifo!vars
<1> SUFFICES ASSUME FifoInv, [Next]_vars PROVE RingOrder' /\ [Fifo!Next]_Fifo!vars
  OBVIOUS
<1>1. TypeInv /\ RingOrder BY DEF FifoInv, CallInv, QueueInv
<1>2. CASE UNCHANGED chanVars BY <1>1, <1>2, FifoStutter
<1> USE DEF obsVars, chanVars
<1>3. ASSUME NEW th \in Thread, SendStep(th) \/ Wake(th)
      PROVE  RingOrder' /\ [Fifo!Next]_Fifo!vars
  BY <1>2, <1>3, FifoPut, FifoPass
  DEF SendStep, SendClosed, SendDrop, Drop, SendBlock, Wake
<1>4. ASSUME NEW th \in Thread, RecvPairBuffered(th) \/ RecvBuffer(th)
      PROVE  RingOrder' /\ [Fifo!Next]_Fifo!vars
  <2> DEFINE c == arg[th].ch
  <2>1. pc[th] \in Inside
    BY <1>4 DEF RecvPairBuffered, RecvBuffer, TakeSender, FellThrough, Entered, Inside
  <2>2. c \in Chan BY <1>1, <2>1, Registers
  <2>3. PopBuffer(c) /\ count[c] > 0 /\ UNCHANGED <<accepted, closed>>
    BY <1>4 DEF RecvPairBuffered, RecvBuffer
  <2> HIDE DEF c
  <2> QED BY <2>2, <2>3, FifoTake
<1>5. ASSUME NEW th \in Thread, RecvStep(th)
      PROVE  RingOrder' /\ [Fifo!Next]_Fifo!vars
  BY <1>2, <1>4, <1>5 DEF RecvStep, RecvHandoff, RecvPairEmpty, Rewake, RecvBlock, RecvNothing
<1>6. ASSUME NEW th \in Thread, CloseStep(th)
      PROVE  RingOrder' /\ [Fifo!Next]_Fifo!vars
  BY <1>2, <1>6 DEF CloseStep, CloseWakeReceiver, CloseWakeSender, CloseUnlock
<1>7. ASSUME NEW th \in Thread, UserStep(th)
      PROVE  RingOrder' /\ [Fifo!Next]_Fifo!vars
  BY <1>2, <1>7, FifoClose DEF UserStep, GoCreate, StartSend, StartRecv, StartCall
<1>8. ASSUME NEW w \in Worker, WorkerTake(w) \/ WorkerReturn(w)
      PROVE  RingOrder' /\ [Fifo!Next]_Fifo!vars
  BY <1>2, <1>8 DEF WorkerTake, WorkerReturn
<1>9. CASE UNCHANGED vars BY <1>2, <1>9 DEF vars
<1> QED BY <1>3, <1>5, <1>6, <1>7, <1>8, <1>9 DEF Next, RuntimeStep

LEMMA InitFifo == Init => FifoInv
<1> SUFFICES ASSUME Init PROVE FifoInv OBVIOUS
<1>1. CallInv BY InitCall
<1>2. /\ ReceiverMeansEmpty
      /\ \A c \in Chan : head[c] = 0 /\ tail[c] = 0 /\ count[c] = 0
  BY DEF Init, ReceiverMeansEmpty
<1>3. ASSUME NEW c \in Chan, Capacity[c] > 0
      PROVE  tail[c] = (head[c] + count[c]) % Capacity[c]
  <2> DEFINE n == Capacity[c]
  <2>1. n \in Nat \ {0} BY <1>3, ConstantsAssumption
  <2> HIDE DEF n
  <2>2. (0 + 0) % n = Slot(0, 0, n) /\ Slot(0, 0, n) = 0 BY <2>1, ModRound DEF Slot
  <2> QED BY <1>2, <2>2 DEF n
<1> QED BY <1>1, <1>2, <1>3 DEF FifoInv, RingOrder

LEMMA FifoNext == FifoInv /\ [Next]_vars => FifoInv'
BY CallNext, EmptyNext, FifoStep DEF FifoInv, CallInv, QueueInv

(* The ring buffers, the direct handoff, the blocked queues and chan_close *)
(* of scheduler.c implement FIFO channels: for every capacity and every    *)
(* number of goroutines and workers, values come out in the order they     *)
(* went in, at most Capacity are held, and a closed channel takes none.    *)
THEOREM ChannelsAreFifo == Spec => FifoSpec
<1>1. Init => Fifo!Init
  BY DEF Init, Fifo!Init, Buffered
<1>2. Spec => []FifoInv BY InitFifo, FifoNext, PTL DEF Spec
<1>3. FifoInv /\ [Next]_vars => [Fifo!Next]_Fifo!vars BY FifoStep
<1> QED BY <1>1, <1>2, <1>3, PTL DEF Spec, FifoSpec, Fifo!Spec

(***************************************************************************)
(* Who carries a value into a channel: a thread inside chan_send, or a     *)
(* task that has saved a send and that no thread executes.  A value is     *)
(* gone once a channel has accepted it or chan_send has given it up.       *)
(***************************************************************************)
Carrier == ({"call"} \X Thread) \cup ({"task"} \X Task)
Executed(t) == \E th \in Thread : cur[th] = t /\ Busy(th)
Carries(x, v) ==
  CASE x[1] = "call" -> pc[x[2]] = "send" /\ arg[x[2]].val = v
    [] x[1] = "task" -> saved[x[2]].kind = "send" /\ saved[x[2]].val = v /\ ~Executed(x[2])

Dropped(v) == \E b \in BOOLEAN : <<v, b>> \in dropped
Gone(v) == Dropped(v) \/ \E c \in Chan : v \in Elems(accepted[c])

OneCarrier ==
  \A x \in Carrier, v \in Nat : Carries(x, v) =>
    ~Gone(v) /\ \A y \in Carrier : Carries(y, v) => x = y
GoneNumbered == \A v \in Nat : Gone(v) => v \in 1 .. sends
SendInv == FifoInv /\ OneCarrier /\ GoneNumbered /\ SentOnce

LEMMA CarriesAt ==
  /\ \A th \in Thread : \A v :
       /\ <<"call", th>> \in Carrier
       /\ Carries(<<"call", th>>, v) <=> pc[th] = "send" /\ arg[th].val = v
       /\ Carries(<<"call", th>>, v)' <=> pc'[th] = "send" /\ arg'[th].val = v
  /\ \A t \in Task : \A v :
       /\ <<"task", t>> \in Carrier
       /\ Carries(<<"task", t>>, v) <=>
            saved[t].kind = "send" /\ saved[t].val = v /\ ~Executed(t)
       /\ Carries(<<"task", t>>, v)' <=>
            saved'[t].kind = "send" /\ saved'[t].val = v /\ ~Executed(t)'
  /\ \A x \in Carrier : \/ \E th \in Thread : x = <<"call", th>>
                        \/ \E t \in Task : x = <<"task", t>>
  /\ \A th \in Thread, t \in Task : <<"call", th>> # <<"task", t>>
  /\ \A th, y \in Thread : <<"call", th>> = <<"call", y>> => th = y
  /\ \A t, u \in Task : <<"task", t>> = <<"task", u>> => t = u
BY DEF Carries, Carrier, Executed, Busy

(* A carried value has one of the numbers given out. *)
LEMMA CarriedNumber ==
  ASSUME SendInv, NEW x \in Carrier, NEW v, Carries(x, v)
  PROVE  v \in 1 .. sends
<1>1. Numbered BY DEF SendInv, FifoInv, CallInv
<1>2. ASSUME NEW th \in Thread, x = <<"call", th>> PROVE v \in 1 .. sends
  BY <1>1, <1>2, CarriesAt DEF Numbered
<1>3. ASSUME NEW t \in Task, x = <<"task", t>> PROVE v \in 1 .. sends
  BY <1>1, <1>3, CarriesAt DEF Numbered
<1> QED BY <1>2, <1>3, CarriesAt

(* A step after which no value is carried by anyone who did not carry it.  *)
LEMMA CarryKept ==
  ASSUME SendInv, FifoInv', UNCHANGED <<accepted, dropped>>, sends <= sends',
         \A x \in Carrier : \A v \in Nat : Carries(x, v)' => Carries(x, v)
  PROVE  SendInv'
<1>1. \A v : Gone(v)' <=> Gone(v) BY DEF Gone, Dropped
<1>2. OneCarrier' BY <1>1 DEF SendInv, OneCarrier
<1>3. sends \in Nat /\ sends' \in Nat
  BY DEF SendInv, FifoInv, CallInv, QueueInv, ObsTypes
<1>4. GoneNumbered' BY <1>1, <1>3 DEF SendInv, GoneNumbered
<1>5. SentOnce' BY DEF SendInv, SentOnce
<1> QED BY <1>2, <1>4, <1>5 DEF SendInv

(* A step in which q0 takes over what p0 carries. *)
LEMMA CarryMoved ==
  ASSUME SendInv, FifoInv', UNCHANGED <<accepted, dropped, sends>>,
         NEW p0 \in Carrier, NEW q0 \in Carrier,
         \A x \in Carrier : \A v \in Nat : Carries(x, v)' =>
           (x # p0 /\ Carries(x, v)) \/ (x = q0 /\ Carries(p0, v))
  PROVE  SendInv'
<1>1. \A v : Gone(v)' <=> Gone(v) BY DEF Gone, Dropped
<1>2. OneCarrier'
  <2> SUFFICES ASSUME NEW x \in Carrier, NEW v \in Nat, Carries(x, v)'
               PROVE  ~Gone(v) /\ \A y \in Carrier : Carries(y, v)' => x = y
    BY <1>1 DEF OneCarrier, Carrier
  <2>1. \A y, z \in Carrier : Carries(y, v) /\ Carries(z, v) => y = z
    BY DEF SendInv, OneCarrier
  <2>2. ~Gone(v) BY DEF SendInv, OneCarrier
  <2> QED BY <2>1, <2>2
<1>3. GoneNumbered' BY <1>1 DEF SendInv, GoneNumbered
<1>4. SentOnce' BY DEF SendInv, SentOnce
<1> QED BY <1>2, <1>3, <1>4 DEF SendInv

(* A step in which p0 loses the value v to channel c or to dropped. *)
LEMMA CarryGone ==
  ASSUME SendInv, FifoInv', sends' = sends,
         NEW p0 \in Carrier, NEW v \in Nat, NEW c \in Chan, NEW b \in BOOLEAN, Carries(p0, v),
         \/ /\ accepted' = [accepted EXCEPT ![c] = Append(@, v)]
            /\ dropped' = dropped
         \/ dropped' = dropped \cup {<<v, b>>} /\ accepted' = accepted,
         \A x \in Carrier : \A u \in Nat : Carries(x, u)' => x # p0 /\ Carries(x, u)
  PROVE  SendInv'
<1>1. accepted \in [Chan -> Seq(Nat)] /\ dropped \subseteq Nat \X BOOLEAN
  BY DEF SendInv, FifoInv, CallInv, QueueInv, ObsTypes
<1>2. ~Gone(v) /\ v \in 1 .. sends BY CarriedNumber DEF SendInv, OneCarrier
<1>3. CASE accepted' = [accepted EXCEPT ![c] = Append(@, v)] /\ dropped' = dropped
  <2>1. accepted[c] \in Seq(Nat) /\ v \notin Elems(accepted[c]) BY <1>1, <1>2 DEF Gone
  <2>2. /\ accepted'[c] = Append(accepted[c], v)
        /\ \A d \in Chan \ {c} : accepted'[d] = accepted[d]
    BY <1>1, <1>3
  <2>3. /\ Elems(accepted'[c]) = Elems(accepted[c]) \cup {v}
        /\ Distinct(accepted[c]) => Distinct(accepted'[c])
    BY <2>1, <2>2, ElemsAppend
  <2>4. \A d \in Chan : \A u :
          u \in Elems(accepted'[d]) <=> u \in Elems(accepted[d]) \/ (d = c /\ u = v)
    BY <2>2, <2>3
  <2>5. \A u : Gone(u)' => Gone(u) \/ u = v
    <3> SUFFICES ASSUME NEW u, Gone(u)' PROVE Gone(u) \/ u = v OBVIOUS
    <3>1. Dropped(u)' \/ \E d \in Chan : u \in Elems(accepted'[d]) BY DEF Gone, Elems
    <3>2. Dropped(u)' => Dropped(u) BY <1>3 DEF Dropped
    <3> QED BY <2>4, <3>1, <3>2 DEF Gone
  <2>6. \A d \in Chan : v \notin Elems(accepted[d]) BY <1>2 DEF Gone
  <2>7. \A x \in dropped : x[1] # v
    <3> SUFFICES ASSUME NEW x \in dropped, x[1] = v PROVE FALSE OBVIOUS
    <3>1. x = <<v, x[2]>> /\ x[2] \in BOOLEAN BY <1>1
    <3> QED BY <1>2, <3>1 DEF Gone, Dropped
  <2>8. SentOnce
    BY DEF SendInv
  <2>9. \A d \in Chan : Distinct(accepted'[d]) BY <2>2, <2>3, <2>8 DEF SentOnce
  <2>10. \A d, e \in Chan : Elems(accepted'[d]) \cap Elems(accepted'[e]) # {} => d = e
    <3> SUFFICES ASSUME NEW d \in Chan, NEW e \in Chan, NEW u,
                        u \in Elems(accepted'[d]), u \in Elems(accepted'[e])
                 PROVE  d = e
      OBVIOUS
    <3>1. u # v => u \in Elems(accepted[d]) /\ u \in Elems(accepted[e]) BY <2>4
    <3>2. u = v => d = c /\ e = c BY <2>4, <2>6
    <3> QED BY <2>8, <3>1, <3>2 DEF SentOnce
  <2>11. \A x \in dropped', d \in Chan : x[1] \notin Elems(accepted'[d])
    BY <1>3, <2>4, <2>7, <2>8 DEF SentOnce
  <2>12. SentOnce' BY <2>9, <2>10, <2>11 DEF SentOnce, Elems, Distinct
  <2>13. OneCarrier'
    <3> SUFFICES ASSUME NEW x \in Carrier, NEW u \in Nat, Carries(x, u)'
                 PROVE  ~Gone(u)' /\ \A y \in Carrier : Carries(y, u)' => x = y
      BY DEF OneCarrier, Carrier
    <3>1. u # v BY DEF SendInv, OneCarrier
    <3> QED BY <2>5, <3>1 DEF SendInv, OneCarrier
  <2>14. GoneNumbered' BY <1>2, <2>5 DEF SendInv, GoneNumbered
  <2> QED BY <2>12, <2>13, <2>14 DEF SendInv
<1>4. CASE dropped' = dropped \cup {<<v, b>>} /\ accepted' = accepted
  <2>1. \A u : Gone(u)' => Gone(u) \/ u = v BY <1>4 DEF Gone, Dropped
  <2>2. \A d \in Chan : v \notin Elems(accepted[d]) BY <1>2 DEF Gone
  <2>3. SentOnce' BY <1>4, <2>2 DEF SendInv, SentOnce
  <2>4. OneCarrier'
    <3> SUFFICES ASSUME NEW x \in Carrier, NEW u \in Nat, Carries(x, u)'
                 PROVE  ~Gone(u)' /\ \A y \in Carrier : Carries(y, u)' => x = y
      BY DEF OneCarrier, Carrier
    <3>1. u # v BY DEF SendInv, OneCarrier
    <3> QED BY <2>1, <3>1 DEF SendInv, OneCarrier
  <2>5. GoneNumbered' BY <1>2, <2>1 DEF SendInv, GoneNumbered
  <2> QED BY <2>3, <2>4, <2>5 DEF SendInv
<1> QED BY <1>3, <1>4

(* A step of th to p, with k and a in its registers, which saves only for k. *)
Runs(p) == p \in Inside \cup {"run"}
Moves(th, p, k, a) ==
  /\ pc' = [pc EXCEPT ![th] = p] /\ cur' = [cur EXCEPT ![th] = k]
  /\ arg' = [arg EXCEPT ![th] = a]
  /\ \A t \in Task : saved'[t] = saved[t] \/ saved'[t] = Idle \/ (k = t /\ Runs(p))

(* The other threads carry what they carried, and a task carries a value   *)
(* it did not carry only if th has let go of it.                           *)
LetsGo(th, p, k, v) ==
  /\ Busy(th) /\ ~(k = cur[th] /\ Runs(p))
  /\ saved[cur[th]].kind = "send" /\ saved[cur[th]].val = v

LEMMA CarryStep ==
  ASSUME TypeInv, NEW th \in Thread, NEW p, NEW k, NEW a, Moves(th, p, k, a)
  PROVE  \A x \in Carrier : \A v \in Nat : Carries(x, v)' =>
           \/ x # <<"call", th>> /\ Carries(x, v)
           \/ x = <<"call", th>> /\ p = "send" /\ a.val = v
           \/ x = <<"task", cur[th]>> /\ LetsGo(th, p, k, v)
<1> SUFFICES ASSUME NEW x \in Carrier, NEW v \in Nat, Carries(x, v)'
             PROVE  \/ x # <<"call", th>> /\ Carries(x, v)
                    \/ x = <<"call", th>> /\ p = "send" /\ a.val = v
                    \/ x = <<"task", cur[th]>> /\ LetsGo(th, p, k, v)
  OBVIOUS
<1> USE DEF Moves, LetsGo
<1>1. /\ pc'[th] = p /\ arg'[th] = a /\ cur'[th] = k
      /\ \A y \in Thread \ {th} : /\ pc'[y] = pc[y] /\ arg'[y] = arg[y]
                                  /\ cur'[y] = cur[y] /\ (Busy(y)' <=> Busy(y))
  BY BusyMove DEF ThreadTypes
<1>2. ASSUME NEW y \in Thread, x = <<"call", y>>
      PROVE  \/ x # <<"call", th>> /\ Carries(x, v)
             \/ x = <<"call", th>> /\ p = "send" /\ a.val = v
  <2>1. pc'[y] = "send" /\ arg'[y].val = v BY <1>2, CarriesAt
  <2>2. CASE y = th BY <1>1, <1>2, <2>1, <2>2
  <2>3. CASE y # th BY <1>1, <1>2, <2>1, <2>3, CarriesAt
  <2> QED BY <2>2, <2>3
<1>3. ASSUME NEW t \in Task, x = <<"task", t>>
      PROVE  \/ x # <<"call", th>> /\ Carries(x, v)
             \/ /\ x = <<"task", cur[th]>> /\ Busy(th) /\ ~(k = cur[th] /\ Runs(p))
                /\ saved[cur[th]].kind = "send" /\ saved[cur[th]].val = v
  <2>1. saved'[t].kind = "send" /\ saved'[t].val = v /\ ~Executed(t)' BY <1>3, CarriesAt
  <2>2. ~(k = t /\ Runs(p)) BY <1>1, <2>1 DEF Executed, Busy, Runs
  <2>3. saved'[t] = saved[t] BY <2>1, <2>2 DEF Idle
  <2>4. CASE Executed(t)
    <3>1. PICK y \in Thread : cur[y] = t /\ Busy(y) BY <2>4 DEF Executed
    <3>2. ~(cur'[y] = t /\ Busy(y)') BY <2>1 DEF Executed, Busy
    <3>3. y = th BY <1>1, <3>1, <3>2
    <3> QED BY <1>3, <2>1, <2>2, <2>3, <3>1, <3>3
  <2>5. CASE ~Executed(t) BY <1>3, <2>1, <2>3, <2>5, CarriesAt
  <2> QED BY <2>4, <2>5
<1> QED BY <1>2, <1>3, CarriesAt

(* A call returns: before that, a sender's value has gone. *)
LEMMA SendFinish ==
  ASSUME SendInv, FifoInv', NEW th \in Thread, NEW from \in Inside, Finish(th, from),
         sends' = sends,
         \/ UNCHANGED <<accepted, dropped>>
         \/ /\ from = "send"
            /\ \/ /\ accepted' = [accepted EXCEPT ![arg[th].ch] = Append(@, arg[th].val)]
                  /\ dropped' = dropped
               \/ /\ dropped' = dropped \cup {<<arg[th].val, closed[arg[th].ch]>>}
                  /\ accepted' = accepted
  PROVE  SendInv'
<1> DEFINE p == "run"  k == cur[th]  a == Idle
<1>1. TypeInv BY DEF SendInv, FifoInv, CallInv, QueueInv
<1>2. /\ pc[th] = from /\ pc' = [pc EXCEPT ![th] = p] /\ arg' = [arg EXCEPT ![th] = a]
      /\ cur' = cur
  BY DEF Finish, Goto
<1>3. cur' = [cur EXCEPT ![th] = k] BY <1>1, <1>2, Local
<1>4. \A t \in Task : saved'[t] = saved[t] \/ saved'[t] = Idle
  BY <1>1 DEF Finish, TaskTypes
<1>5. Moves(th, p, k, a) BY <1>2, <1>3, <1>4 DEF Moves
<1>6. p # "send" /\ Runs(p) BY DEF Runs
<1> HIDE DEF p, a
<1>7. \A x \in Carrier : \A v \in Nat : Carries(x, v)' =>
        x # <<"call", th>> /\ Carries(x, v)
  BY <1>1, <1>5, <1>6, CarryStep DEF LetsGo
<1>8. CASE UNCHANGED <<accepted, dropped>>
  <2>1. sends \in Nat BY <1>1 DEF ObsTypes
  <2> QED BY <1>7, <1>8, <2>1, CarryKept
<1>9. CASE /\ from = "send"
           /\ \/ /\ accepted' = [accepted EXCEPT ![arg[th].ch] = Append(@, arg[th].val)]
                 /\ dropped' = dropped
              \/ /\ dropped' = dropped \cup {<<arg[th].val, closed[arg[th].ch]>>}
                 /\ accepted' = accepted
  <2>1. arg[th].ch \in Chan /\ arg[th].val \in Nat BY <1>1, <1>2, Registers
  <2>2. closed[arg[th].ch] \in BOOLEAN BY <1>1, <2>1 DEF ThreadTypes
  <2>3. PICK c \in Chan, v \in Nat, b \in BOOLEAN :
          c = arg[th].ch /\ v = arg[th].val /\ b = closed[arg[th].ch]
    BY <2>1, <2>2
  <2>4. Carries(<<"call", th>>, v) /\ <<"call", th>> \in Carrier
    BY <1>2, <1>9, <2>3, CarriesAt
  <2> DEFINE p0 == <<"call", th>>
  <2>5. Carries(p0, v) /\ p0 \in Carrier BY <2>4
  <2>6. \A x \in Carrier : \A u \in Nat : Carries(x, u)' => x # p0 /\ Carries(x, u)
    BY <1>7
  <2> HIDE DEF p0
  <2> QED BY <1>9, <2>3, <2>5, <2>6, CarryGone
<1> QED BY <1>8, <1>9

(* A step of th that lets go of no saved send. *)
LEMMA SendKept ==
  ASSUME SendInv, FifoInv', NEW th \in Thread, NEW p, NEW k, NEW a,
         Moves(th, p, k, a), UNCHANGED <<accepted, dropped, sends>>,
         p # "send",
         \/ k = cur[th] /\ Runs(p)
         \/ ~Busy(th)
         \/ cur[th] \in Task => saved[cur[th]].kind # "send"
  PROVE  SendInv'
<1>1. TypeInv BY DEF SendInv, FifoInv, CallInv, QueueInv
<1>2. \A x \in Carrier : x = <<"task", cur[th]>> => cur[th] \in Task BY DEF Carrier
<1>3. \A x \in Carrier : \A v \in Nat : Carries(x, v)' => Carries(x, v)
  BY <1>1, <1>2, CarryStep DEF LetsGo
<1>4. sends <= sends' BY <1>1 DEF ObsTypes
<1> QED BY <1>3, <1>4, CarryKept

(* Nothing a carrier consists of changes. *)
LEMMA SendStay ==
  ASSUME SendInv, FifoInv', UNCHANGED <<pc, cur, arg, saved, accepted, dropped, sends>>
  PROVE  SendInv'
<1>1. \A x \in Carrier : \A v \in Nat : Carries(x, v)' => Carries(x, v)
  BY DEF Carries, Executed, Busy
<1>2. sends <= sends'
  BY DEF SendInv, FifoInv, CallInv, QueueInv, ObsTypes
<1> QED BY <1>1, <1>2, CarryKept

(* A new send carries a number that was not given out before. *)
LEMMA SendStart ==
  ASSUME SendInv, FifoInv', NEW th \in Thread, NEW c \in Chan, NEW cps \in BOOLEAN,
         StartSend(th, c, cps)
  PROVE  SendInv'
<1> DEFINE p == "send"  k == cur[th]  n == sends + 1
           a == [kind |-> "send", ch |-> c, val |-> n]
<1>1. TypeInv /\ sends \in Nat BY DEF SendInv, FifoInv, CallInv, QueueInv, ObsTypes
<1>2. /\ pc' = [pc EXCEPT ![th] = p] /\ arg' = [arg EXCEPT ![th] = a] /\ cur' = cur
      /\ cps => cur[th] # NULL
      /\ saved' = IF cps THEN [saved EXCEPT ![cur[th]] = a] ELSE saved
      /\ UNCHANGED <<accepted, dropped>> /\ sends' = n
  BY DEF StartSend, StartCall, Goto
<1>3. cur' = [cur EXCEPT ![th] = k] BY <1>1, <1>2, Local
<1>4. Runs(p) BY DEF Runs, Inside
<1>5. Moves(th, p, k, a) BY <1>1, <1>2, <1>3, <1>4 DEF Moves, TaskTypes
<1>6. a.val = n OBVIOUS
<1> HIDE DEF p, a
<1>7. \A x \in Carrier : \A v \in Nat : Carries(x, v)' =>
        Carries(x, v) \/ (x = <<"call", th>> /\ v = n)
  BY <1>1, <1>4, <1>5, <1>6, CarryStep DEF LetsGo
<1>8. \A v : Gone(v)' <=> Gone(v) BY <1>2 DEF Gone, Dropped
<1>9. ~Gone(n) BY <1>1 DEF SendInv, GoneNumbered
<1>10. \A x \in Carrier : ~Carries(x, n)
  <2> SUFFICES ASSUME NEW x \in Carrier, Carries(x, n) PROVE FALSE OBVIOUS
  <2>1. n \in 1 .. sends BY CarriedNumber
  <2> QED BY <1>1, <2>1
<1>11. OneCarrier'
  <2> SUFFICES ASSUME NEW x \in Carrier, NEW v \in Nat, Carries(x, v)'
               PROVE  ~Gone(v) /\ \A y \in Carrier : Carries(y, v)' => x = y
    BY <1>8 DEF OneCarrier, Carrier
  <2> QED BY <1>7, <1>9, <1>10 DEF SendInv, OneCarrier
<1>12. GoneNumbered' BY <1>1, <1>2, <1>8 DEF SendInv, GoneNumbered
<1>13. SentOnce' BY <1>2 DEF SendInv, SentOnce
<1> QED BY <1>11, <1>12, <1>13 DEF SendInv

(* A receiver takes the value directly. *)
LEMMA SendPass ==
  ASSUME SendInv, FifoInv', NEW th \in Thread, SendHandoff(th)
  PROVE  SendInv'
<1> DEFINE p == "wake"  k == cur[th]  a == arg[th]  p0 == <<"call", th>>
<1>1. TypeInv BY DEF SendInv, FifoInv, CallInv, QueueInv
<1>2. /\ pc[th] = "send" /\ pc' = [pc EXCEPT ![th] = p]
      /\ UNCHANGED <<cur, arg, saved, dropped, sends>>
      /\ accepted' = [accepted EXCEPT ![arg[th].ch] = Append(@, arg[th].val)]
  BY DEF SendHandoff, Goto
<1>3. cur' = [cur EXCEPT ![th] = k] /\ arg' = [arg EXCEPT ![th] = a] BY <1>1, <1>2, Local
<1>4. Runs(p) /\ Moves(th, p, k, a) BY <1>2, <1>3 DEF Runs, Inside, Moves
<1>5. pc[th] \in Inside BY <1>2 DEF Inside
<1>6. PICK c \in Chan, v \in Nat, b \in BOOLEAN : c = arg[th].ch /\ v = arg[th].val /\ b = TRUE
  BY <1>1, <1>5, Registers
<1>7. Carries(p0, v) /\ p0 \in Carrier BY <1>2, <1>6, CarriesAt
<1>8. p # "send" OBVIOUS
<1> HIDE DEF p, a
<1>9. \A x \in Carrier : \A u \in Nat : Carries(x, u)' => x # p0 /\ Carries(x, u)
  BY <1>1, <1>4, <1>8, CarryStep DEF LetsGo
<1> HIDE DEF p0
<1> QED BY <1>2, <1>6, <1>7, <1>9, CarryGone

(* A blocked sender: its task carries the value from now on. *)
LEMMA SendWait ==
  ASSUME SendInv, FifoInv', NEW th \in Thread, SendBlock(th)
  PROVE  SendInv'
<1> DEFINE p == "yield"  k == cur[th]  a == arg[th]
           p0 == <<"call", th>>  q0 == <<"task", cur[th]>>
<1>1. TypeInv /\ CallsSaved BY DEF SendInv, FifoInv, CallInv, QueueInv
<1>2. /\ pc[th] = "send" /\ pc' = [pc EXCEPT ![th] = p] /\ Cps(th)
      /\ UNCHANGED <<cur, arg, saved, accepted, dropped, sends>>
  BY DEF SendBlock, Goto, obsVars, Entered
<1>3. cur' = [cur EXCEPT ![th] = k] /\ arg' = [arg EXCEPT ![th] = a] BY <1>1, <1>2, Local
<1>4. saved[cur[th]] = arg[th] /\ cur[th] \in Task
  BY <1>1, <1>2, Registers DEF CallsSaved, CallSaved, Cps
<1>5. \A v : Carries(p0, v) <=> arg[th].val = v BY <1>2, CarriesAt
<1>6. p0 \in Carrier /\ q0 \in Carrier BY <1>4, CarriesAt
<1>7. p # "send" /\ Moves(th, p, k, a) BY <1>2, <1>3 DEF Moves
<1> HIDE DEF p, a
<1>8. \A x \in Carrier : \A v \in Nat : Carries(x, v)' =>
        (x # p0 /\ Carries(x, v)) \/ (x = q0 /\ Carries(p0, v))
  BY <1>1, <1>4, <1>5, <1>7, CarryStep DEF LetsGo
<1> HIDE DEF p0, q0
<1> QED BY <1>2, <1>6, <1>8, CarryMoved

(* A worker resumes a sender, or leaves its task. *)
LEMMA SendTake ==
  ASSUME SendInv, FifoInv', NEW w \in Worker, WorkerTake(w)
  PROVE  SendInv'
<1> DEFINE t == Head(ready)  a == saved[t]
           p == IF saved[t] = Idle THEN "run" ELSE saved[t].kind
           p0 == <<"task", t>>  q0 == <<"call", w>>
<1>1. TypeInv /\ QueueInv /\ w \in Thread
  BY DEF SendInv, FifoInv, CallInv, QueueInv, Thread
<1>2. /\ pc[w] = "idle" /\ pc' = [pc EXCEPT ![w] = p] /\ cur' = [cur EXCEPT ![w] = t]
      /\ arg' = [arg EXCEPT ![w] = a]
      /\ UNCHANGED <<saved, accepted, dropped, sends>> /\ ready # << >>
  BY DEF WorkerTake, Goto, obsVars
<1>3. ~Busy(w) BY <1>2 DEF Busy, Inside
<1>4. t \in Task /\ t \in Elems(ready)
  BY <1>1, <1>2, ElemsTail DEF QueueInv, QueuesDistinct, TaskTypes
<1>5. Moves(w, p, t, a) BY <1>2 DEF Moves
<1>6. CASE p # "send"
  <2> HIDE DEF p, t, a
  <2> QED BY <1>1, <1>2, <1>3, <1>5, <1>6, SendKept
<1>7. CASE p = "send"
  <2>1. ~Executed(t)
    <3> SUFFICES ASSUME NEW y \in Thread, cur[y] = t, Busy(y) PROVE FALSE
      BY DEF Executed
    <3>1. /\ READY \in Place /\ <<"exec", y>> \in Place
          /\ Holds(READY, t) /\ Holds(<<"exec", y>>, t)
      BY <1>4, HoldsAt
    <3> QED BY <1>1, <1>4, <3>1, PlacesDiffer, Zenon DEF QueueInv, Unique
  <2>2. saved[t].kind = "send" BY <1>7
  <2>3. \A v : Carries(p0, v) <=> saved[t].val = v BY <1>4, <2>1, <2>2, CarriesAt
  <2>4. PICK u \in Task : u = t BY <1>4
  <2>5. cur'[w] = u /\ pc'[w] = "send" BY <1>1, <1>2, <1>7, <2>4 DEF ThreadTypes
  <2>6. Executed(u)' BY <1>1, <2>5 DEF Executed, Busy, Inside
  <2>7. \A v : ~Carries(<<"task", u>>, v)' BY <2>6, CarriesAt
  <2>8. p0 \in Carrier /\ q0 \in Carrier /\ p0 = <<"task", u>>
    BY <1>1, <1>4, <2>4, CarriesAt
  <2> HIDE DEF p, t, a
  <2>9. \A x \in Carrier : \A v \in Nat : Carries(x, v)' =>
          \/ x # q0 /\ Carries(x, v)
          \/ x = q0 /\ a.val = v
    BY <1>1, <1>3, <1>5, CarryStep DEF LetsGo
  <2> HIDE DEF q0, p0
  <2>10. \A x \in Carrier : \A v \in Nat : Carries(x, v)' =>
          (x # p0 /\ Carries(x, v)) \/ (x = q0 /\ Carries(p0, v))
    BY <2>3, <2>7, <2>8, <2>9 DEF a
  <2> QED BY <1>2, <2>8, <2>10, CarryMoved
<1> QED BY <1>6, <1>7

LEMMA SendReturn ==
  ASSUME SendInv, FifoInv', NEW w \in Worker, WorkerReturn(w)
  PROVE  SendInv'
<1> DEFINE p == "idle"  k == NULL  a == Idle
<1>1. TypeInv /\ CallsSaved /\ w \in Thread
  BY DEF SendInv, FifoInv, CallInv, QueueInv, Thread
<1>2. /\ pc[w] \in {"run", "yield"} /\ pc' = [pc EXCEPT ![w] = p]
      /\ cur' = [cur EXCEPT ![w] = k] /\ arg' = [arg EXCEPT ![w] = a]
      /\ UNCHANGED <<saved, accepted, dropped, sends>>
  BY DEF WorkerReturn, Goto, obsVars
<1>3. pc[w] = "yield" => ~Busy(w) BY DEF Busy, Inside
<1>4. pc[w] = "run" /\ cur[w] \in Task => saved[cur[w]].kind # "send"
  BY <1>1, ConstantsAssumption DEF CallsSaved, CallSaved, Cps, Idle
<1>5. p # "send" /\ Moves(w, p, k, a) BY <1>2 DEF Moves
<1> HIDE DEF p, k, a
<1> QED BY <1>1, <1>2, <1>3, <1>4, <1>5, SendKept

LEMMA SendNext == SendInv /\ [Next]_vars => SendInv'
<1> SUFFICES ASSUME SendInv, [Next]_vars PROVE SendInv' OBVIOUS
<1>1. FifoInv' BY FifoNext DEF SendInv
<1>2. TypeInv /\ CallsSaved BY DEF SendInv, FifoInv, CallInv, QueueInv
<1> USE DEF obsVars
<1>3. ASSUME NEW th \in Thread,
             \/ SendClosed(th) \/ SendDrop(th) \/ SendBuffer(th) \/ Wake(th)
             \/ RecvHandoff(th) \/ RecvBuffer(th) \/ RecvNothing(th)
      PROVE  SendInv'
  <2>1. PICK from \in Inside :
          /\ Finish(th, from) /\ sends' = sends
          /\ \/ UNCHANGED <<accepted, dropped>>
             \/ /\ from = "send"
                /\ \/ /\ accepted' = [accepted EXCEPT ![arg[th].ch] = Append(@, arg[th].val)]
                      /\ dropped' = dropped
                   \/ /\ dropped' = dropped \cup {<<arg[th].val, closed[arg[th].ch]>>}
                      /\ accepted' = accepted
    BY <1>3 DEF SendClosed, SendDrop, Drop, SendBuffer, Wake, RecvHandoff, RecvBuffer,
                RecvNothing, FellThrough, Entered, Inside
  <2> QED BY <1>1, <2>1, SendFinish
<1>4. ASSUME NEW th \in Thread,
             \/ RecvPairBuffered(th) \/ RecvPairEmpty(th) \/ Rewake(th) \/ RecvBlock(th)
      PROVE  SendInv'
  <2>1. PICK p \in {"wake", "rewake", "relock", "yield"} :
          /\ pc' = [pc EXCEPT ![th] = p] /\ UNCHANGED <<cur, arg, saved, accepted, dropped, sends>>
          /\ p = "yield" => pc[th] \in {"recv", "relock"} /\ Cps(th)
    BY <1>4 DEF RecvPairBuffered, RecvPairEmpty, Rewake, RecvBlock, FellThrough, Entered, Goto
  <2> DEFINE k == cur[th]  a == arg[th]
  <2>2. Moves(th, p, k, a)
    BY <1>2, <2>1, Local DEF Moves
  <2>3. p # "yield" => Runs(p) BY DEF Runs, Inside
  <2>4. p = "yield" => saved[cur[th]].kind = "recv"
    BY <1>2, <2>1 DEF CallsSaved, CallSaved
  <2>5. p # "send" BY <2>1
  <2> HIDE DEF k, a
  <2> QED BY <1>1, <2>1, <2>2, <2>3, <2>4, <2>5, SendKept DEF k
<1>5. ASSUME NEW th \in Thread, NEW c \in Chan, NEW cps \in BOOLEAN,
             StartRecv(th, c, cps) \/ Close(th, c) \/ CloseUnlock(th)
      PROVE  SendInv'
  <2>1. PICK p, a :
          /\ p \in {"recv", "close", "run"}
          /\ pc' = [pc EXCEPT ![th] = p] /\ arg' = [arg EXCEPT ![th] = a]
          /\ UNCHANGED <<cur, accepted, dropped, sends>>
          /\ saved' = saved \/ saved' = [saved EXCEPT ![cur[th]] = a]
    BY <1>5 DEF StartRecv, StartCall, Close, CloseUnlock, Goto
  <2> DEFINE k == cur[th]
  <2>2. Runs(p) BY <2>1 DEF Runs, Inside
  <2>3. cur' = [cur EXCEPT ![th] = k] BY <1>2, <2>1, Local
  <2>4. Moves(th, p, k, a) BY <1>2, <2>1, <2>2, <2>3 DEF Moves, TaskTypes
  <2>5. p # "send" BY <2>1
  <2> HIDE DEF k
  <2> QED BY <1>1, <2>1, <2>2, <2>4, <2>5, SendKept DEF k
<1>6. CASE UNCHANGED <<pc, cur, arg, saved, accepted, dropped, sends>>
  BY <1>1, <1>6, SendStay
<1>7. ASSUME NEW th \in Thread, RuntimeStep(th) PROVE SendInv'
  <2>1. CASE CloseWakeReceiver(th) \/ CloseWakeSender(th)
    BY <1>6, <2>1 DEF CloseWakeReceiver, CloseWakeSender
  <2>2. CASE CloseUnlock(th)
    <3>1. arg[th].ch \in Chan
      <4>1. pc[th] \in Inside BY <2>2 DEF CloseUnlock, Goto, Inside
      <4> QED BY <1>2, <4>1, Registers
    <3>2. TRUE \in BOOLEAN OBVIOUS
    <3> QED BY <1>5, <2>2, <3>1, <3>2
  <2> QED BY <1>1, <1>3, <1>4, <1>7, <2>1, <2>2, SendPass, SendWait
      DEF RuntimeStep, SendStep, RecvStep, CloseStep
<1>8. ASSUME NEW th \in Thread, UserStep(th) PROVE SendInv'
  <2>1. ASSUME NEW t \in Task, GoCreate(th, t) PROVE SendInv' BY <1>6, <2>1 DEF GoCreate
  <2>2. TRUE \in BOOLEAN OBVIOUS
  <2> QED BY <1>1, <1>5, <1>8, <2>1, <2>2, SendStart DEF UserStep
<1>9. ASSUME NEW w \in Worker, WorkerTake(w) \/ WorkerReturn(w) PROVE SendInv'
  BY <1>1, <1>9, SendTake, SendReturn
<1>10. CASE UNCHANGED vars BY <1>6, <1>10 DEF vars
<1> QED BY <1>7, <1>8, <1>9, <1>10 DEF Next

LEMMA InitSend == Init => SendInv
<1> SUFFICES ASSUME Init PROVE SendInv OBVIOUS
<1>1. FifoInv BY InitFifo
<1>2. /\ \A c \in Chan : accepted[c] = << >> /\ Elems(accepted[c]) = {}
      /\ dropped = {}
      /\ \A th \in Thread : pc[th] # "send"
      /\ \A t \in Task : saved[t].kind # "send"
  BY DEF Init, Elems, Idle
<1>3. \A v : ~Gone(v) BY <1>2 DEF Gone, Dropped
<1>4. \A x \in Carrier : \A v : ~Carries(x, v) BY <1>2, CarriesAt
<1>5. OneCarrier /\ GoneNumbered BY <1>3, <1>4 DEF OneCarrier, GoneNumbered
<1>6. SentOnce BY <1>2 DEF SentOnce, Distinct
<1> QED BY <1>1, <1>5, <1>6 DEF SendInv

(* However often a send is repeated because its goroutine blocked on a full*)
(* channel and was resumed, in whatever order workers resume them: no      *)
(* channel of scheduler.c takes a value twice, no two channels take it,    *)
(* and none takes a value that chan_send has given up.                     *)
THEOREM SendsHappenOnce == Spec => []SentOnce
<1>1. Spec => []SendInv BY InitSend, SendNext, PTL DEF Spec
<1> QED BY <1>1, PTL DEF SendInv

(***************************************************************************)
(* A channel has taken what it gave out and then what it still buffers.    *)
(***************************************************************************)
LEMMA ConcatAppend ==
  ASSUME NEW a \in Seq(Nat), NEW b \in Seq(Nat), NEW v \in Nat
  PROVE  Append(a \o b, v) = a \o Append(b, v)
<1> DEFINE s == Append(a \o b, v)  t == a \o Append(b, v)
<1>1. s \in Seq(Nat) /\ t \in Seq(Nat) /\ Len(s) = Len(t) OBVIOUS
<1>2. \A i \in 1 .. Len(s) : s[i] = t[i] OBVIOUS
<1> HIDE DEF s, t
<1>3. s = t BY <1>1, <1>2, SequencesEqual
<1> QED BY <1>3 DEF s, t

LEMMA ConcatEmpty ==
  ASSUME NEW a \in Seq(Nat), NEW b \in Seq(Nat), NEW v \in Nat, b = << >>
  PROVE  Append(a \o b, v) = Append(a, v) \o b
OBVIOUS

LEMMA ConcatMove ==
  ASSUME NEW a \in Seq(Nat), NEW b \in Seq(Nat), b # << >>
  PROVE  Append(a, Head(b)) \o Tail(b) = a \o b
OBVIOUS

LEMMA ConcatElems ==
  ASSUME NEW a \in Seq(Nat), NEW b \in Seq(Nat)
  PROVE  /\ Elems(a) \subseteq Elems(a \o b)
         /\ b # << >> => Head(b) \in Elems(a \o b)
         /\ b # << >> /\ Distinct(a \o b) => Head(b) \notin Elems(a)
<1> DEFINE s == a \o b  n == Len(a) + 1
<1>1. /\ DOMAIN a = 1 .. Len(a) /\ DOMAIN s = 1 .. Len(a) + Len(b)
      /\ Len(a) \in Nat /\ Len(b) \in Nat
      /\ \A i \in 1 .. Len(a) : s[i] = a[i]
  OBVIOUS
<1>2. b # << >> => Len(b) > 0 /\ s[n] = Head(b) OBVIOUS
<1>3. \A i \in DOMAIN a : i \in DOMAIN s /\ i # n /\ s[i] = a[i] BY <1>1
<1>4. b # << >> => n \in DOMAIN s BY <1>1, <1>2
<1> HIDE DEF s, n
<1>5. Elems(a) \subseteq Elems(s) BY <1>3 DEF Elems
<1>6. b # << >> => Head(b) \in Elems(s) BY <1>2, <1>4 DEF Elems
<1>7. ASSUME b # << >>, Distinct(s), NEW i \in DOMAIN a, Head(b) = a[i] PROVE FALSE
  BY <1>2, <1>3, <1>4, <1>7 DEF Distinct
<1>8. b # << >> /\ Distinct(s) => Head(b) \notin Elems(a) BY <1>7 DEF Elems
<1> QED BY <1>5, <1>6, <1>8 DEF s

Conserved == \A c \in Chan : accepted[c] = delivered[c] \o Buffered(c)

LEMMA ConservedNext ==
  ASSUME FifoInv, Conserved, [Next]_vars
  PROVE  Conserved'
<1>1. TypeInv /\ RingTypes BY DEF FifoInv, CallInv, QueueInv
<1>2. [Fifo!Next]_Fifo!vars BY FifoStep
<1>3. \A c \in Chan : /\ accepted[c] \in Seq(Nat) /\ delivered[c] \in Seq(Nat)
                      /\ Buffered(c) \in Seq(Nat) /\ Queues[c] = Buffered(c)
                      /\ Queues'[c] = Buffered(c)'
                      /\ accepted[c] = delivered[c] \o Buffered(c)
  BY <1>1, BufferedRing DEF ObsTypes, Conserved, Queues
<1>4. accepted \in [Chan -> Seq(Nat)] /\ delivered \in [Chan -> Seq(Nat)]
      /\ Queues = [c \in Chan |-> Queues[c]]
  BY <1>1 DEF ObsTypes, Queues
<1>5. CASE UNCHANGED <<Queues, accepted, delivered>>
  BY <1>3, <1>5 DEF Conserved
<1>6. ASSUME NEW c \in Chan, NEW v \in 1 .. MaxSends, Fifo!Put(c, v) PROVE Conserved'
  <2>1. /\ Queues' = [Queues EXCEPT ![c] = Append(Queues[c], v)] /\ delivered' = delivered
        /\ accepted' = [accepted EXCEPT ![c] = Append(accepted[c], v)]
    BY <1>6 DEF Fifo!Put, Queues
  <2>2. v \in Nat BY ConstantsAssumption
  <2>3. Append(delivered[c] \o Queues[c], v) = delivered[c] \o Append(Queues[c], v)
    BY <1>3, <2>2, ConcatAppend
  <2>4. accepted'[c] = delivered'[c] \o Queues'[c] BY <1>3, <1>4, <2>1, <2>3
  <2> QED BY <1>3, <1>4, <2>1, <2>4 DEF Conserved
<1>7. ASSUME NEW c \in Chan, Fifo!Take(c) PROVE Conserved'
  <2>1. /\ Queues' = [Queues EXCEPT ![c] = Tail(Queues[c])] /\ accepted' = accepted
        /\ delivered' = [delivered EXCEPT ![c] = Append(delivered[c], Head(Queues[c]))]
        /\ Queues[c] # << >>
    BY <1>7 DEF Fifo!Take, Queues
  <2>2. Append(delivered[c], Head(Queues[c])) \o Tail(Queues[c]) = delivered[c] \o Queues[c]
    BY <1>3, <2>1, ConcatMove
  <2>3. accepted'[c] = delivered'[c] \o Queues'[c] BY <1>3, <1>4, <2>1, <2>2
  <2> QED BY <1>3, <1>4, <2>1, <2>3 DEF Conserved
<1>8. ASSUME NEW c \in Chan, NEW v \in 1 .. MaxSends, Fifo!Pass(c, v) PROVE Conserved'
  <2>1. /\ Queues[c] = << >> /\ Queues' = Queues
        /\ delivered' = [delivered EXCEPT ![c] = Append(delivered[c], v)]
        /\ accepted' = [accepted EXCEPT ![c] = Append(accepted[c], v)]
    BY <1>8 DEF Fifo!Pass, Queues
  <2>2. v \in Nat BY ConstantsAssumption
  <2>3. accepted'[c] = delivered'[c] \o Queues'[c]
    BY <1>3, <1>4, <2>1, <2>2, ConcatEmpty
  <2> QED BY <1>3, <1>4, <2>1, <2>3 DEF Conserved
<1>9. ASSUME NEW c \in Chan, Fifo!Close(c) PROVE Conserved'
  BY <1>5, <1>9 DEF Fifo!Close, Queues
<1>10. UNCHANGED Fifo!vars => UNCHANGED <<Queues, accepted, delivered>>
  BY DEF Fifo!vars, Queues
<1> QED BY <1>2, <1>5, <1>6, <1>7, <1>8, <1>9, <1>10 DEF Fifo!Next

-----------------------------------------------------------------------------
(***************************************************************************)
(* Where the delivered values are.  NoDeliveredValueLost, value by value,  *)
(* is inductive together with Conserved, which with SentOnce makes what a  *)
(* channel gives out new, and with two facts about has_recv: only created  *)
(* tasks have it set, so that GoCreate resets none that is, and a receiver *)
(* that went on without a value has been handed none.                      *)
(***************************************************************************)
Out(v) == \E c \in Chan : v \in Elems(delivered[c])
Delivery ==
  /\ \A v : Out(v) <=> \/ v \in returned /\ v # 0
                       \/ \E t \in Task : has_recv[t] /\ recv_value[t] = v
  /\ \A t \in Task : has_recv[t] => recv_value[t] \notin returned
  /\ \A t, u \in Task : has_recv[t] /\ has_recv[u] /\ recv_value[t] = recv_value[u] => t = u
  /\ \A t \in Task, c \in Chan : has_recv[t] => t \notin Elems(blocked_receivers[c])

HandedCreated == \A t \in Task : has_recv[t] => t \in created
Unhanded == \A th \in Thread : pc[th] \in {"rewake", "relock"} => ~HandedOver(th)
DeliverInv == SendInv /\ Conserved /\ Delivery /\ HandedCreated /\ Unhanded

LEMMA DeliveryMeans == NoDeliveredValueLost <=> Delivery
<1> DEFINE held == {t \in Task : has_recv[t]}
           out == UNION {Elems(delivered[c]) : c \in Chan}
<1>1. \A v : v \in out <=> Out(v) BY DEF Out
<1>2. \A v : v \in {recv_value[t] : t \in held} <=>
               \E t \in Task : has_recv[t] /\ recv_value[t] = v
  OBVIOUS
<1>3. out = (returned \ {0}) \cup {recv_value[t] : t \in held} <=>
        \A v : Out(v) <=> \/ v \in returned /\ v # 0
                          \/ \E t \in Task : has_recv[t] /\ recv_value[t] = v
  <2> HIDE DEF out
  <2> QED BY <1>1, <1>2
<1>4. \A t : t \in held <=> t \in Task /\ has_recv[t] OBVIOUS
<1> HIDE DEF held, out
<1>5. NoDeliveredValueLost <=>
        /\ out = (returned \ {0}) \cup {recv_value[t] : t \in held}
        /\ \A t \in held : recv_value[t] \notin returned
        /\ \A t, u \in held : recv_value[t] = recv_value[u] => t = u
        /\ \A t \in held, c \in Chan : t \notin Elems(blocked_receivers[c])
  BY DEF NoDeliveredValueLost, held, out
<1> QED BY <1>3, <1>4, <1>5 DEF Delivery

(* What was given out has a number, ... *)
LEMMA OutNumbered ==
  ASSUME SendInv, Conserved, NEW v, Out(v)
  PROVE  v \in 1 .. sends /\ v # 0 /\ Gone(v)
<1>1. PICK c \in Chan : v \in Elems(delivered[c]) BY DEF Out
<1>2. /\ delivered[c] \in Seq(Nat) /\ Buffered(c) \in Seq(Nat)
      /\ accepted[c] = delivered[c] \o Buffered(c) /\ sends \in Nat
  BY BufferedRing DEF SendInv, FifoInv, CallInv, QueueInv, ObsTypes, Conserved
<1>3. v \in Elems(accepted[c]) BY <1>1, <1>2, ConcatElems
<1>4. v \in Nat
  <2>1. PICK i \in DOMAIN delivered[c] : v = delivered[c][i] BY <1>1 DEF Elems
  <2> QED BY <1>2, <2>1
<1>5. Gone(v) BY <1>3 DEF Gone
<1> QED BY <1>2, <1>4, <1>5 DEF SendInv, GoneNumbered

(* ... and what a channel buffers was not given out by any. *)
LEMMA BufferedFresh ==
  ASSUME SendInv, Conserved, NEW c \in Chan, Buffered(c) # << >>
  PROVE  Head(Buffered(c)) \in 1 .. sends /\ ~Out(Head(Buffered(c)))
<1> DEFINE v == Head(Buffered(c))
<1>1. /\ \A d \in Chan : /\ delivered[d] \in Seq(Nat) /\ Buffered(d) \in Seq(Nat)
                         /\ accepted[d] = delivered[d] \o Buffered(d)
      /\ SentOnce
  BY BufferedRing DEF SendInv, FifoInv, CallInv, QueueInv, ObsTypes, Conserved
<1>2. \A d \in Chan : Elems(delivered[d]) \subseteq Elems(accepted[d])
  BY <1>1, ConcatElems
<1>3. v \in Elems(accepted[c]) /\ v \notin Elems(delivered[c]) /\ v \in Nat
  <2> DEFINE a == delivered[c]  b == Buffered(c)
  <2>1. /\ a \in Seq(Nat) /\ b \in Seq(Nat) /\ b # << >> /\ v = Head(b)
        /\ accepted[c] = a \o b /\ Distinct(accepted[c])
    BY <1>1 DEF SentOnce
  <2> HIDE DEF a, b, v
  <2>2. Head(b) \in Elems(a \o b) /\ (Distinct(a \o b) => Head(b) \notin Elems(a))
    BY <2>1, ConcatElems
  <2>3. Head(b) \in Nat BY <2>1
  <2> QED BY <2>1, <2>2, <2>3 DEF a
<1>4. v \in 1 .. sends BY <1>3 DEF SendInv, GoneNumbered, Gone
<1> HIDE DEF v
<1>5. ASSUME Out(v) PROVE FALSE
  <2>1. PICK d \in Chan : v \in Elems(delivered[d]) BY <1>5 DEF Out
  <2>2. d = c BY <1>1, <1>2, <1>3, <2>1 DEF SentOnce
  <2> QED BY <1>3, <2>1, <2>2
<1> QED BY <1>4, <1>5 DEF v

LEMMA OutAppend ==
  ASSUME TypeInv, NEW c \in Chan, NEW v \in Nat,
         delivered' = [delivered EXCEPT ![c] = Append(@, v)]
  PROVE  \A u : Out(u)' <=> Out(u) \/ u = v
<1>1. delivered[c] \in Seq(Nat) /\ delivered'[c] = Append(delivered[c], v)
      /\ \A d \in Chan \ {c} : delivered'[d] = delivered[d]
  BY DEF ObsTypes
<1>2. Elems(delivered'[c]) = Elems(delivered[c]) \cup {v} BY <1>1, ElemsAppend
<1>3. \A d \in Chan : \A u : u \in Elems(delivered'[d]) <=>
        u \in Elems(delivered[d]) \/ (d = c /\ u = v)
  BY <1>1, <1>2
<1>4. \A u : Out(u)' <=> \E d \in Chan : u \in Elems(delivered'[d]) BY DEF Out, Elems
<1> QED BY <1>3, <1>4 DEF Out

(* Nothing given out, nothing returned but perhaps 0. *)
LEMMA DeliveryKept ==
  ASSUME Delivery, delivered' = delivered,
         \A v : v # 0 => (v \in returned' <=> v \in returned),
         \A v : Out(v) => v # 0,
         \A t \in Task : /\ has_recv'[t] <=> has_recv[t]
                         /\ has_recv[t] => recv_value'[t] = recv_value[t],
         \A t \in Task, c \in Chan : t \in Elems(blocked_receivers'[c]) =>
           t \in Elems(blocked_receivers[c]) \/ ~has_recv[t]
  PROVE  Delivery'
<1>1. \A v : Out(v)' <=> Out(v) BY DEF Out
<1>2. \A t \in Task : has_recv[t] => recv_value[t] # 0 BY DEF Delivery
<1>3. \A v : Out(v)' <=> \/ v \in returned' /\ v # 0
                         \/ \E t \in Task : has_recv'[t] /\ recv_value'[t] = v
  BY <1>1 DEF Delivery
<1>4. \A t \in Task : has_recv'[t] => recv_value'[t] \notin returned'
  BY <1>2 DEF Delivery
<1>5. \A t, u \in Task :
        has_recv'[t] /\ has_recv'[u] /\ recv_value'[t] = recv_value'[u] => t = u
  BY DEF Delivery
<1>6. \A t \in Task, c \in Chan : has_recv'[t] => t \notin Elems(blocked_receivers'[c])
  BY DEF Delivery
<1> QED BY <1>3, <1>4, <1>5, <1>6 DEF Delivery, Elems

(* chan_recv takes v from the buffer and returns it. *)
LEMMA DeliveryReturn ==
  ASSUME TypeInv, Delivery, NEW c \in Chan, NEW v \in Nat, v # 0, ~Out(v),
         delivered' = [delivered EXCEPT ![c] = Append(@, v)],
         returned' = returned \cup {v},
         UNCHANGED <<has_recv, recv_value, blocked_receivers>>
  PROVE  Delivery'
<1>1. \A u : Out(u)' <=> Out(u) \/ u = v BY OutAppend
<1>2. \A t \in Task : has_recv[t] => recv_value[t] # v BY DEF Delivery
<1> QED BY <1>1, <1>2 DEF Delivery

(* chan_send hands v to the waiting receiver r. *)
LEMMA DeliveryPass ==
  ASSUME TypeInv, Delivery, NEW c \in Chan, NEW v \in Nat, v # 0, ~Out(v), NEW r \in Task,
         ~has_recv[r],
         delivered' = [delivered EXCEPT ![c] = Append(@, v)],
         returned' = returned,
         has_recv' = [has_recv EXCEPT ![r] = TRUE],
         recv_value' = [recv_value EXCEPT ![r] = v],
         \A t \in Task, d \in Chan : t \in Elems(blocked_receivers'[d]) =>
           t \in Elems(blocked_receivers[d]) /\ t # r
  PROVE  Delivery'
<1>1. \A u : Out(u)' <=> Out(u) \/ u = v BY OutAppend
<1>2. \A t \in Task : has_recv[t] => recv_value[t] # v BY DEF Delivery
<1>3. v \notin returned BY DEF Delivery
<1>4. /\ has_recv'[r] /\ recv_value'[r] = v
      /\ \A t \in Task \ {r} : (has_recv'[t] <=> has_recv[t]) /\ recv_value'[t] = recv_value[t]
  BY DEF TaskTypes
<1>5. \A u : Out(u)' <=> \/ u \in returned' /\ u # 0
                         \/ \E t \in Task : has_recv'[t] /\ recv_value'[t] = u
  <2> TAKE u
  <2>1. (\E t \in Task : has_recv'[t] /\ recv_value'[t] = u) <=>
          u = v \/ \E t \in Task : has_recv[t] /\ recv_value[t] = u
    BY <1>4
  <2> QED BY <1>1, <1>3, <2>1 DEF Delivery
<1>6. \A t \in Task : has_recv'[t] => recv_value'[t] \notin returned'
  BY <1>3, <1>4 DEF Delivery
<1>7. \A t, u \in Task :
        has_recv'[t] /\ has_recv'[u] /\ recv_value'[t] = recv_value'[u] => t = u
  BY <1>2, <1>4 DEF Delivery
<1>8. \A t \in Task, d \in Chan : has_recv'[t] => t \notin Elems(blocked_receivers'[d])
  BY <1>4 DEF Delivery
<1> QED BY <1>5, <1>6, <1>7, <1>8 DEF Delivery, Elems

(* The resumed receiver r collects its value. *)
LEMMA DeliveryCollect ==
  ASSUME TypeInv, Delivery, NEW r \in Task, has_recv[r],
         \A v : Out(v) => v # 0,
         delivered' = delivered, returned' = returned \cup {recv_value[r]},
         has_recv' = [has_recv EXCEPT ![r] = FALSE],
         \A t \in Task \ {r} : recv_value'[t] = recv_value[t],
         blocked_receivers' = blocked_receivers
  PROVE  Delivery'
<1>1. \A v : Out(v)' <=> Out(v) BY DEF Out
<1>2. \A t \in Task : has_recv'[t] <=> has_recv[t] /\ t # r BY DEF TaskTypes
<1>3. recv_value[r] # 0 BY DEF Delivery
<1>4. \A v : Out(v)' <=> \/ v \in returned' /\ v # 0
                         \/ \E t \in Task : has_recv'[t] /\ recv_value'[t] = v
  <2> TAKE v
  <2>1. (\E t \in Task : has_recv[t] /\ recv_value[t] = v) <=>
          v = recv_value[r] \/ \E t \in Task : has_recv'[t] /\ recv_value'[t] = v
    BY <1>2
  <2> QED BY <1>1, <1>3, <2>1 DEF Delivery
<1>5. \A t \in Task : has_recv'[t] => recv_value'[t] \notin returned'
  BY <1>2 DEF Delivery
<1>6. \A t, u \in Task :
        has_recv'[t] /\ has_recv'[u] /\ recv_value'[t] = recv_value'[u] => t = u
  BY <1>2 DEF Delivery
<1>7. \A t \in Task, c \in Chan : has_recv'[t] => t \notin Elems(blocked_receivers'[c])
  BY <1>2 DEF Delivery
<1> QED BY <1>4, <1>5, <1>6, <1>7 DEF Delivery, Elems

-----------------------------------------------------------------------------
(* The receiver a send is handed to has no value, and is not waiting then. *)
LEMMA PickedReceiver ==
  ASSUME DeliverInv, NEW c \in Chan, blocked_receivers[c] # << >>,
         blocked_receivers' = [blocked_receivers EXCEPT ![c] = Tail(@)]
  PROVE  LET r == Head(blocked_receivers[c]) IN
         /\ r \in Task /\ ~has_recv[r] /\ r \in created
         /\ \A t \in Task, d \in Chan : t \in Elems(blocked_receivers'[d]) =>
              t \in Elems(blocked_receivers[d]) /\ t # r
         /\ \A th \in Thread : ~(cur[th] = r /\ Busy(th))
<1> DEFINE r == Head(blocked_receivers[c])
<1>1. QueueInv /\ TypeInv /\ Delivery
  BY DEF DeliverInv, SendInv, FifoInv, CallInv, QueueInv
<1>2. /\ r \in Task /\ r \in Elems(blocked_receivers[c])
      /\ Elems(blocked_receivers'[c]) = Elems(blocked_receivers[c]) \ {r}
      /\ \A d \in Chan \ {c} : blocked_receivers'[d] = blocked_receivers[d]
  BY <1>1, ElemsTail DEF QueueInv, QueuesDistinct, TaskTypes
<1> HIDE DEF r
<1>3. ~has_recv[r] BY <1>1, <1>2 DEF Delivery
<1>4. Holds(<<"receivers", c>>, r) /\ <<"receivers", c>> \in Place BY <1>2, HoldsAt
<1>5. r \in created BY <1>1, <1>2, <1>4 DEF QueueInv, HeldCreated
<1>6. ASSUME NEW d \in Chan, d # c, r \in Elems(blocked_receivers[d]) PROVE FALSE
  <2>1. Holds(<<"receivers", d>>, r) /\ <<"receivers", d>> \in Place BY <1>6, HoldsAt
  <2>2. <<"receivers", d>> = <<"receivers", c>>
    BY <1>1, <1>2, <1>4, <2>1, Zenon DEF QueueInv, Unique
  <2> QED BY <1>6, <2>2, PlacesDiffer
<1>7. ASSUME NEW th \in Thread, cur[th] = r, Busy(th) PROVE FALSE
  <2>1. Holds(<<"exec", th>>, r) /\ <<"exec", th>> \in Place BY <1>7, HoldsAt
  <2>2. <<"exec", th>> = <<"receivers", c>>
    BY <1>1, <1>2, <1>4, <2>1, Zenon DEF QueueInv, Unique
  <2> QED BY <2>2, PlacesDiffer
<1> QED BY <1>2, <1>3, <1>5, <1>6, <1>7 DEF r

LEMMA DeliveryNext ==
  ASSUME DeliverInv, [Next]_vars
  PROVE  Delivery'
<1>1. /\ TypeInv /\ QueueInv /\ Numbered /\ Delivery /\ SendInv /\ Conserved
      /\ OneCarrier /\ HandedCreated /\ Unhanded /\ RingTypes /\ RingOrder
  BY DEF DeliverInv, SendInv, FifoInv, CallInv, QueueInv
<1>2. \A v : Out(v) => v # 0 BY <1>1, OutNumbered
<1> USE DEF obsVars, taskVars, waitVars, vars
<1>3. CASE UNCHANGED <<delivered, returned, has_recv, recv_value, blocked_receivers>>
  BY <1>1, <1>2, <1>3, DeliveryKept
<1>4. ASSUME NEW th \in Thread, SendHandoff(th) PROVE Delivery'
  <2>1. pc[th] = "send" /\ pc[th] \in Inside BY <1>4 DEF SendHandoff, Entered, Inside
  <2>2. arg[th].ch \in Chan /\ arg[th].val \in Nat BY <1>1, <2>1, Registers
  <2>3. PICK c \in Chan, v \in Nat : c = arg[th].ch /\ v = arg[th].val BY <2>2
  <2> DEFINE r == Head(blocked_receivers[c])
  <2>4. /\ blocked_receivers[c] # << >>
        /\ blocked_receivers' = [blocked_receivers EXCEPT ![c] = Tail(@)]
        /\ recv_value' = [recv_value EXCEPT ![r] = v]
        /\ has_recv' = [has_recv EXCEPT ![r] = TRUE]
        /\ delivered' = [delivered EXCEPT ![c] = Append(@, v)]
        /\ returned' = returned
    BY <1>4, <2>3 DEF SendHandoff
  <2>5. /\ r \in Task /\ ~has_recv[r]
        /\ \A t \in Task, d \in Chan : t \in Elems(blocked_receivers'[d]) =>
             t \in Elems(blocked_receivers[d]) /\ t # r
    BY <2>4, PickedReceiver
  <2>6. Carries(<<"call", th>>, v) /\ <<"call", th>> \in Carrier
    BY <2>1, <2>3, CarriesAt
  <2>7. ~Gone(v) /\ v \in 1 .. sends BY <1>1, <2>6, CarriedNumber DEF OneCarrier
  <2>8. ~Out(v) /\ v # 0 BY <1>1, <2>7, OutNumbered
  <2> HIDE DEF r
  <2> QED BY <1>1, <2>4, <2>5, <2>8, DeliveryPass
<1>5. ASSUME NEW th \in Thread, RecvHandoff(th) PROVE Delivery'
  <2>1. cur[th] \in Task BY <1>1, <1>5, Registers DEF RecvHandoff, HandedOver, Cps
  <2>2. PICK r \in Task : r = cur[th] BY <2>1
  <2>3. /\ has_recv[r] /\ UNCHANGED <<delivered, blocked_receivers>>
        /\ returned' = returned \cup {recv_value[r]}
        /\ has_recv' = [has_recv EXCEPT ![r] = FALSE]
        /\ recv_value' = [recv_value EXCEPT ![r] = 0]
    BY <1>5, <2>2 DEF RecvHandoff, HandedOver
  <2>4. \A t \in Task \ {r} : recv_value'[t] = recv_value[t] BY <1>1, <2>3 DEF TaskTypes
  <2> QED BY <1>1, <1>2, <2>3, <2>4, DeliveryCollect
<1>6. ASSUME NEW th \in Thread, RecvPairBuffered(th) \/ RecvBuffer(th) PROVE Delivery'
  <2>1. pc[th] \in Inside
    BY <1>6 DEF RecvPairBuffered, RecvBuffer, TakeSender, FellThrough, Entered, Inside
  <2>2. arg[th].ch \in Chan BY <1>1, <2>1, Registers
  <2>3. PICK c \in Chan : c = arg[th].ch BY <2>2
  <2>4. /\ PopBuffer(c) /\ count[c] > 0
        /\ UNCHANGED <<has_recv, recv_value, blocked_receivers>>
    BY <1>6, <2>3 DEF RecvPairBuffered, RecvBuffer
  <2>5. Buffered(c) # << >> /\ Head(Buffered(c)) = buffer[c][head[c]]
    BY <1>1, <2>4, PopBuffered
  <2>6. Head(Buffered(c)) \in 1 .. sends /\ ~Out(Head(Buffered(c)))
    BY <1>1, <2>5, BufferedFresh
  <2>7. sends \in Nat BY <1>1 DEF ObsTypes
  <2>8. PICK v \in Nat : v = buffer[c][head[c]] /\ v # 0 /\ ~Out(v)
    BY <2>5, <2>6, <2>7
  <2>9. /\ delivered' = [delivered EXCEPT ![c] = Append(@, v)]
        /\ returned' = returned \cup {v}
    BY <2>4, <2>8 DEF PopBuffer
  <2> QED BY <1>1, <2>4, <2>8, <2>9, DeliveryReturn
<1>7. ASSUME NEW th \in Thread, RecvNothing(th) PROVE Delivery'
  BY <1>1, <1>2, <1>7, DeliveryKept DEF RecvNothing
<1>8. ASSUME NEW th \in Thread, RecvBlock(th) PROVE Delivery'
  <2>1. pc[th] \in Inside BY <1>8 DEF RecvBlock, FellThrough, Entered, Inside
  <2>2. arg[th].ch \in Chan /\ cur[th] \in Task
    BY <1>1, <1>8, <2>1, Registers DEF RecvBlock, Cps
  <2>3. PICK c \in Chan, r \in Task : c = arg[th].ch /\ r = cur[th] BY <2>2
  <2>4. /\ blocked_receivers' = [blocked_receivers EXCEPT ![c] = Append(@, r)]
        /\ UNCHANGED <<delivered, returned, has_recv, recv_value>>
    BY <1>8, <2>3 DEF RecvBlock
  <2>5. ~has_recv[r]
    BY <1>1, <1>8, <2>3 DEF RecvBlock, FellThrough, Entered, Unhanded, HandedOver
  <2>6. /\ Elems(blocked_receivers'[c]) = Elems(blocked_receivers[c]) \cup {r}
        /\ \A d \in Chan \ {c} : blocked_receivers'[d] = blocked_receivers[d]
    BY <1>1, <2>4, ElemsAppend DEF TaskTypes
  <2>7. \A t \in Task, d \in Chan : t \in Elems(blocked_receivers'[d]) =>
          t \in Elems(blocked_receivers[d]) \/ ~has_recv[t]
    BY <2>5, <2>6
  <2> QED BY <1>1, <1>2, <2>4, <2>7, DeliveryKept
<1>9. ASSUME NEW th \in Thread, NEW r \in Task, GoCreate(th, r) PROVE Delivery'
  <2>1. /\ UNCHANGED <<delivered, returned, blocked_receivers>>
        /\ has_recv' = [has_recv EXCEPT ![r] = FALSE]
        /\ recv_value' = [recv_value EXCEPT ![r] = 0] /\ r \notin created
    BY <1>9 DEF GoCreate
  <2>2. ~has_recv[r] BY <1>1, <2>1 DEF HandedCreated
  <2>3. \A t \in Task : /\ has_recv'[t] <=> has_recv[t]
                        /\ has_recv[t] => recv_value'[t] = recv_value[t]
    BY <1>1, <2>1, <2>2 DEF TaskTypes
  <2> QED BY <1>1, <1>2, <2>1, <2>3, DeliveryKept
<1>10. ASSUME NEW th \in Thread, CloseWakeReceiver(th) PROVE Delivery'
  <2>1. pc[th] \in Inside BY <1>10 DEF CloseWakeReceiver, Inside
  <2>2. arg[th].ch \in Chan BY <1>1, <2>1, Registers
  <2>3. PICK c \in Chan : c = arg[th].ch BY <2>2
  <2>4. /\ blocked_receivers[c] # << >>
        /\ blocked_receivers' = [blocked_receivers EXCEPT ![c] = Tail(@)]
        /\ UNCHANGED <<delivered, returned, has_recv, recv_value>>
    BY <1>10, <2>3 DEF CloseWakeReceiver
  <2>5. \A t \in Task, d \in Chan : t \in Elems(blocked_receivers'[d]) =>
          t \in Elems(blocked_receivers[d])
    BY <2>4, PickedReceiver
  <2> QED BY <1>1, <1>2, <2>4, <2>5, DeliveryKept
<1>11. ASSUME NEW th \in Thread, RuntimeStep(th) PROVE Delivery'
  <2>1. CASE SendStep(th) \/ Wake(th)
    BY <1>3, <1>4, <2>1 DEF SendStep, SendClosed, SendBuffer, SendBlock, SendDrop, Drop, Wake
  <2>2. CASE RecvStep(th)
    BY <1>3, <1>5, <1>6, <1>7, <1>8, <2>2 DEF RecvStep, RecvPairEmpty, Rewake
  <2>3. CASE CloseStep(th)
    BY <1>3, <1>10, <2>3 DEF CloseStep, CloseWakeSender, CloseUnlock
  <2> QED BY <1>11, <2>1, <2>2, <2>3 DEF RuntimeStep
<1>12. ASSUME NEW th \in Thread, UserStep(th) PROVE Delivery'
  BY <1>3, <1>9, <1>12 DEF UserStep, StartSend, StartRecv, StartCall, Close
<1>13. ASSUME NEW w \in Worker, WorkerTake(w) \/ WorkerReturn(w) PROVE Delivery'
  BY <1>3, <1>13 DEF WorkerTake, WorkerReturn
<1>14. CASE UNCHANGED vars BY <1>3, <1>14
<1> QED BY <1>11, <1>12, <1>13, <1>14 DEF Next

LEMMA HandedCreatedNext ==
  ASSUME DeliverInv, [Next]_vars
  PROVE  HandedCreated'
<1>1. TypeInv /\ HandedCreated
  BY DEF DeliverInv, SendInv, FifoInv, CallInv, QueueInv
<1> USE DEF obsVars, taskVars, waitVars, vars
<1>2. CASE UNCHANGED <<has_recv, created>> BY <1>1, <1>2 DEF HandedCreated
<1>3. ASSUME NEW th \in Thread, SendHandoff(th) PROVE HandedCreated'
  <2>1. pc[th] \in Inside BY <1>3 DEF SendHandoff, Entered, Inside
  <2>2. arg[th].ch \in Chan BY <1>1, <2>1, Registers
  <2>3. PICK c \in Chan : c = arg[th].ch BY <2>2
  <2> DEFINE r == Head(blocked_receivers[c])
  <2>4. /\ blocked_receivers[c] # << >>
        /\ blocked_receivers' = [blocked_receivers EXCEPT ![c] = Tail(@)]
        /\ has_recv' = [has_recv EXCEPT ![r] = TRUE] /\ created' = created
    BY <1>3, <2>3 DEF SendHandoff
  <2>5. r \in created BY <2>4, PickedReceiver
  <2> HIDE DEF r
  <2> QED BY <1>1, <2>4, <2>5 DEF HandedCreated, TaskTypes
<1>4. ASSUME NEW th \in Thread, RecvHandoff(th) PROVE HandedCreated'
  <2>1. has_recv' = [has_recv EXCEPT ![cur[th]] = FALSE] /\ created' = created
    BY <1>4 DEF RecvHandoff
  <2> QED BY <1>1, <2>1 DEF HandedCreated, TaskTypes
<1>5. ASSUME NEW th \in Thread, NEW r \in Task, GoCreate(th, r) PROVE HandedCreated'
  <2>1. has_recv' = [has_recv EXCEPT ![r] = FALSE] /\ created' = created \cup {r}
    BY <1>5 DEF GoCreate
  <2> QED BY <1>1, <2>1 DEF HandedCreated, TaskTypes
<1>6. ASSUME NEW th \in Thread, RuntimeStep(th) PROVE HandedCreated'
  <2>1. CASE SendStep(th) \/ Wake(th)
    BY <1>2, <1>3, <2>1 DEF SendStep, SendClosed, SendBuffer, SendBlock, SendDrop, Drop, Wake
  <2>2. CASE RecvStep(th)
    BY <1>2, <1>4, <2>2 DEF RecvStep, RecvPairBuffered, RecvPairEmpty, Rewake, RecvBuffer,
                            RecvBlock, RecvNothing
  <2>3. CASE CloseStep(th)
    BY <1>2, <2>3 DEF CloseStep, CloseWakeReceiver, CloseWakeSender, CloseUnlock
  <2> QED BY <1>6, <2>1, <2>2, <2>3 DEF RuntimeStep
<1>7. ASSUME NEW th \in Thread, UserStep(th) PROVE HandedCreated'
  BY <1>2, <1>5, <1>7 DEF UserStep, StartSend, StartRecv, StartCall, Close
<1>8. ASSUME NEW w \in Worker, WorkerTake(w) \/ WorkerReturn(w) PROVE HandedCreated'
  BY <1>2, <1>8 DEF WorkerTake, WorkerReturn
<1>9. CASE UNCHANGED vars BY <1>2, <1>9
<1> QED BY <1>6, <1>7, <1>8, <1>9 DEF Next

(* A step of th, in which no value is handed to a task that is executed. *)
LEMMA UnhandedStep ==
  ASSUME QueueInv, Unhanded, NEW th \in Thread, NEW p, NEW k,
         pc' = [pc EXCEPT ![th] = p], cur' = [cur EXCEPT ![th] = k],
         \A t \in Task : saved'[t] # saved[t] => t = cur[th] /\ Busy(th),
         \A x \in Thread, t \in Task : cur[x] = t /\ Busy(x) /\ has_recv'[t] => has_recv[t],
         p \in {"rewake", "relock"} => ~HandedOver(th)'
  PROVE  Unhanded'
<1> SUFFICES ASSUME NEW x \in Thread, pc'[x] \in {"rewake", "relock"}, HandedOver(x)'
             PROVE  FALSE
  BY DEF Unhanded
<1>1. TypeInv BY DEF QueueInv
<1>2. pc'[th] = p /\ \A y \in Thread \ {th} : pc'[y] = pc[y] /\ cur'[y] = cur[y]
  BY <1>1 DEF ThreadTypes
<1>3. x # th BY <1>2
<1>4. /\ Busy(x) /\ pc[x] \in {"rewake", "relock"} /\ cur[x] # NULL
      /\ saved'[cur[x]] # Idle /\ has_recv'[cur[x]]
  BY <1>2, <1>3 DEF Busy, Inside, HandedOver, Cps
<1>5. cur[x] \in Task BY <1>1, <1>4, Registers
<1>6. saved'[cur[x]] = saved[cur[x]] BY <1>3, <1>4, <1>5, OneExecutor
<1>7. has_recv[cur[x]] BY <1>4, <1>5
<1> QED BY <1>4, <1>6, <1>7 DEF Unhanded, HandedOver, Cps

LEMMA UnhandedNext ==
  ASSUME DeliverInv, [Next]_vars
  PROVE  Unhanded'
<1>1. TypeInv /\ QueueInv /\ Unhanded
  BY DEF DeliverInv, SendInv, FifoInv, CallInv, QueueInv
<1> USE DEF obsVars, taskVars, waitVars, vars
<1>2. ASSUME NEW th \in Thread,
             \/ SendClosed(th) \/ SendDrop(th) \/ SendBuffer(th) \/ Wake(th)
             \/ RecvHandoff(th) \/ RecvBuffer(th) \/ RecvNothing(th)
      PROVE  Unhanded'
  <2> DEFINE p == "run"  k == cur[th]
  <2>1. PICK from \in Inside :
          /\ Finish(th, from)
          /\ has_recv' = has_recv \/ has_recv' = [has_recv EXCEPT ![cur[th]] = FALSE]
    BY <1>2 DEF SendClosed, SendDrop, Drop, SendBuffer, Wake, RecvHandoff, RecvBuffer,
                RecvNothing, FellThrough, Entered, Inside
  <2>2. /\ pc[th] \in Inside /\ pc' = [pc EXCEPT ![th] = p]
        /\ cur' = cur
        /\ saved' = saved \/ saved' = [saved EXCEPT ![cur[th]] = Idle]
    BY <2>1 DEF Finish, Goto
  <2>3. cur' = [cur EXCEPT ![th] = k] BY <1>1, <2>2, Local
  <2>4. \A t \in Task : /\ saved'[t] # saved[t] => t = cur[th] /\ Busy(th)
                        /\ has_recv'[t] => has_recv[t]
    BY <1>1, <2>1, <2>2 DEF TaskTypes, Busy
  <2>5. p \notin {"rewake", "relock"} OBVIOUS
  <2> HIDE DEF p, k
  <2> QED BY <1>1, <2>2, <2>3, <2>4, <2>5, UnhandedStep
<1>3. ASSUME NEW th \in Thread, SendHandoff(th) PROVE Unhanded'
  <2>1. pc[th] \in Inside BY <1>3 DEF SendHandoff, Entered, Inside
  <2>2. arg[th].ch \in Chan BY <1>1, <2>1, Registers
  <2>3. PICK c \in Chan : c = arg[th].ch BY <2>2
  <2> DEFINE r == Head(blocked_receivers[c])  p == "wake"  k == cur[th]
  <2>4. /\ blocked_receivers[c] # << >>
        /\ blocked_receivers' = [blocked_receivers EXCEPT ![c] = Tail(@)]
        /\ has_recv' = [has_recv EXCEPT ![r] = TRUE]
        /\ pc' = [pc EXCEPT ![th] = p] /\ cur' = cur /\ saved' = saved
    BY <1>3, <2>3 DEF SendHandoff, Goto
  <2>5. cur' = [cur EXCEPT ![th] = k] BY <1>1, <2>4, Local
  <2>6. r \in Task /\ \A x \in Thread : ~(cur[x] = r /\ Busy(x)) BY <2>4, PickedReceiver
  <2>7. p \notin {"rewake", "relock"} OBVIOUS
  <2> HIDE DEF r, p, k
  <2>8. \A x \in Thread, t \in Task : cur[x] = t /\ Busy(x) /\ has_recv'[t] => has_recv[t]
    BY <1>1, <2>4, <2>6 DEF TaskTypes
  <2> QED BY <1>1, <2>4, <2>5, <2>7, <2>8, UnhandedStep
<1>4. ASSUME NEW th \in Thread,
             \/ SendBlock(th) \/ RecvPairBuffered(th) \/ RecvPairEmpty(th) \/ Rewake(th)
             \/ RecvBlock(th)
      PROVE  Unhanded'
  <2>1. PICK p \in {"wake", "yield", "rewake", "relock"} :
          /\ pc' = [pc EXCEPT ![th] = p] /\ UNCHANGED <<cur, saved, has_recv>>
          /\ p = "rewake" => ~HandedOver(th)
          /\ p = "relock" => pc[th] = "rewake"
    BY <1>4 DEF SendBlock, RecvPairBuffered, RecvPairEmpty, TakeSender, Rewake, RecvBlock, Goto
  <2> DEFINE k == cur[th]
  <2>2. cur' = [cur EXCEPT ![th] = k] BY <1>1, <2>1, Local
  <2>3. HandedOver(th)' <=> HandedOver(th) BY <2>1 DEF HandedOver, Cps
  <2>4. p \in {"rewake", "relock"} => ~HandedOver(th)'
    BY <1>1, <2>1, <2>3 DEF Unhanded
  <2> HIDE DEF k
  <2> QED BY <1>1, <2>1, <2>2, <2>4, UnhandedStep
<1>5. ASSUME NEW th \in Thread, NEW c \in Chan, NEW cps \in BOOLEAN,
             StartSend(th, c, cps) \/ StartRecv(th, c, cps) \/ Close(th, c) \/ CloseUnlock(th)
      PROVE  Unhanded'
  <2>1. PICK p, a :
          /\ p \in {"send", "recv", "close", "run"}
          /\ pc[th] \in {"run", "close"} /\ pc' = [pc EXCEPT ![th] = p]
          /\ UNCHANGED <<cur, has_recv>>
          /\ saved' = saved \/ saved' = [saved EXCEPT ![cur[th]] = a]
    BY <1>5 DEF StartSend, StartRecv, StartCall, Close, CloseUnlock, Goto
  <2> DEFINE k == cur[th]
  <2>2. cur' = [cur EXCEPT ![th] = k] BY <1>1, <2>1, Local
  <2>3. \A t \in Task : saved'[t] # saved[t] => t = cur[th] /\ Busy(th)
    BY <1>1, <2>1 DEF TaskTypes, Busy, Inside
  <2>4. p \notin {"rewake", "relock"} BY <2>1
  <2> HIDE DEF k
  <2> QED BY <1>1, <2>1, <2>2, <2>3, <2>4, UnhandedStep
<1>6. CASE UNCHANGED <<pc, cur, saved>> /\ \A t \in Task : has_recv'[t] => has_recv[t]
  <2> SUFFICES ASSUME NEW x \in Thread, pc[x] \in {"rewake", "relock"}, HandedOver(x)'
               PROVE  FALSE
    BY <1>6 DEF Unhanded
  <2>1. cur[x] # NULL /\ saved[cur[x]] # Idle /\ has_recv'[cur[x]]
    BY <1>6 DEF HandedOver, Cps
  <2>2. cur[x] \in Task BY <1>1, <2>1, Registers
  <2> QED BY <1>1, <1>6, <2>1, <2>2 DEF Unhanded, HandedOver, Cps
<1>7. ASSUME NEW th \in Thread, RuntimeStep(th) PROVE Unhanded'
  <2>1. CASE CloseWakeReceiver(th) \/ CloseWakeSender(th)
    BY <1>6, <2>1 DEF CloseWakeReceiver, CloseWakeSender
  <2>2. CASE CloseUnlock(th)
    <3>1. pc[th] \in Inside BY <2>2 DEF CloseUnlock, Goto, Inside
    <3>2. arg[th].ch \in Chan /\ TRUE \in BOOLEAN BY <1>1, <3>1, Registers
    <3> QED BY <1>5, <2>2, <3>2
  <2> QED BY <1>2, <1>3, <1>4, <1>7, <2>1, <2>2
      DEF RuntimeStep, SendStep, RecvStep, CloseStep
<1>8. ASSUME NEW th \in Thread, UserStep(th) PROVE Unhanded'
  <2>1. ASSUME NEW t \in Task, GoCreate(th, t) PROVE Unhanded'
    <3>1. UNCHANGED <<pc, cur, saved>> /\ has_recv' = [has_recv EXCEPT ![t] = FALSE]
      BY <2>1 DEF GoCreate
    <3>2. \A u \in Task : has_recv'[u] => has_recv[u] BY <1>1, <3>1 DEF TaskTypes
    <3> QED BY <1>6, <3>1, <3>2
  <2>2. TRUE \in BOOLEAN OBVIOUS
  <2> QED BY <1>5, <1>8, <2>1, <2>2 DEF UserStep
<1>9. ASSUME NEW w \in Worker, WorkerTake(w) \/ WorkerReturn(w) PROVE Unhanded'
  <2>1. PICK p, k : /\ pc' = [pc EXCEPT ![w] = p] /\ cur' = [cur EXCEPT ![w] = k]
                    /\ p \notin {"rewake", "relock"} /\ UNCHANGED <<saved, has_recv>>
    <3>1. CASE WorkerReturn(w) BY <3>1 DEF WorkerReturn, Goto
    <3>2. CASE WorkerTake(w)
      <4> DEFINE t == Head(ready)  p == IF saved[t] = Idle THEN "run" ELSE saved[t].kind
      <4>1. /\ pc' = [pc EXCEPT ![w] = p] /\ cur' = [cur EXCEPT ![w] = t]
            /\ UNCHANGED <<saved, has_recv>>
        BY <3>2 DEF WorkerTake, Goto
      <4>2. saved[t] \in Call \cup {Idle}
        BY <1>1, <3>2, FrontType DEF WorkerTake, TaskTypes
      <4>3. p \notin {"rewake", "relock"} BY <4>2 DEF Call
      <4> QED BY <4>1, <4>3
    <3> QED BY <1>9, <3>1, <3>2
  <2>2. w \in Thread BY DEF Thread
  <2> QED BY <1>1, <2>1, <2>2, UnhandedStep
<1>10. CASE UNCHANGED vars BY <1>6, <1>10
<1> QED BY <1>7, <1>8, <1>9, <1>10 DEF Next

LEMMA InitDeliver == Init => DeliverInv
<1> SUFFICES ASSUME Init PROVE DeliverInv OBVIOUS
<1>1. SendInv BY InitSend
<1>2. /\ \A t \in Task : ~has_recv[t]
      /\ returned = {}
      /\ \A c \in Chan : /\ accepted[c] = << >> /\ delivered[c] = << >>
                         /\ Buffered(c) = << >> /\ Elems(delivered[c]) = {}
      /\ \A th \in Thread : pc[th] \in {"run", "idle"}
  BY DEF Init, Buffered, Elems
<1>3. Conserved
  <2>1. << >> \o << >> = << >> OBVIOUS
  <2> QED BY <1>2, <2>1 DEF Conserved
<1>4. \A v : ~Out(v) BY <1>2 DEF Out
<1>5. Delivery BY <1>2, <1>4 DEF Delivery
<1> QED BY <1>1, <1>2, <1>3, <1>5 DEF DeliverInv, HandedCreated, Unhanded

LEMMA DeliverNext == DeliverInv /\ [Next]_vars => DeliverInv'
<1> SUFFICES ASSUME DeliverInv, [Next]_vars PROVE DeliverInv' OBVIOUS
<1>1. SendInv /\ FifoInv /\ Conserved BY DEF DeliverInv, SendInv
<1>2. SendInv' BY <1>1, SendNext
<1>3. Conserved' BY <1>1, ConservedNext
<1>4. Delivery' BY DeliveryNext
<1>5. HandedCreated' BY HandedCreatedNext
<1>6. Unhanded' BY UnhandedNext
<1> QED BY <1>2, <1>3, <1>4, <1>5, <1>6 DEF DeliverInv

(* A value that scheduler.c hands to a blocked goroutine stays in          *)
(* recv_value until that goroutine's chan_recv returns it: no second sender*)
(* overwrites it, whatever sends, receives and closes happen before a      *)
(* worker resumes the goroutine, and no chan_recv has returned it before.  *)
THEOREM DeliveredIsNotLost == Spec => []NoDeliveredValueLost
<1>1. Spec => []DeliverInv BY InitDeliver, DeliverNext, PTL DEF Spec
<1>2. DeliverInv => NoDeliveredValueLost BY DeliveryMeans DEF DeliverInv
<1> QED BY <1>1, <1>2, PTL
=============================================================================
