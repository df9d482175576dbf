-------------------------- MODULE TaskListsProofs --------------------------
(***************************************************************************)
(* For every number of tasks, channels and threads, a list spells its      *)
(* queue whenever no operation on it is under way.  The invariant has      *)
(* three parts: who holds which lock, in which one place each task is, and *)
(* what the pointers of a list spell in the middle of an operation.        *)
(***************************************************************************)
EXTENDS TaskLists, SequenceTheorems, TLAPS

(***************************************************************************)
(* Types and locks.                                                        *)
(***************************************************************************)
Locks ==
  /\ \A th \in Thread : closing[th] # NULL => lock[closing[th]] = th
  /\ \A th \in Thread : pc[th] # "free" => held[th] # NULL
  /\ \A th \in Thread : pc[th] = "scan" => at[th] # NULL

Base == TypeOK /\ Locks

Label == {"free", "link", "settail", "scan", "unlock", "unlink", "detach"}

(***************************************************************************)
(* A task is in one place: not yet created, in one position of one queue,  *)
(* or in the hands of one thread.  From Pop to Popped the task a thread    *)
(* holds is still the first of its queue.                                  *)
(***************************************************************************)
InHand(th) == held[th] # NULL /\ pc[th] \notin {"unlink", "detach"}

Taking == \A th \in Thread : pc[th] \in {"unlink", "detach"} =>
            queue[list[th]] # << >> /\ held[th] = queue[list[th]][1]

OnePlace ==
  /\ \A l, m \in List : \A i \in 1 .. Len(queue[l]), j \in 1 .. Len(queue[m]) :
       queue[l][i] = queue[m][j] => l = m /\ i = j
  /\ \A l \in List : \A i \in 1 .. Len(queue[l]) : queue[l][i] \notin fresh
  /\ \A th \in Thread : InHand(th) =>
       /\ held[th] \notin fresh
       /\ \A l \in List : \A i \in 1 .. Len(queue[l]) : queue[l][i] # held[th]
  /\ \A th, u \in Thread : InHand(th) /\ InHand(u) /\ held[th] = held[u] => th = u

LEMMA LockOfType == \A l \in List : LockOf(l) \in Chan \cup {Ready}
BY ListsAssumption DEF List, LockOf

LEMMA ReadyIsList == Ready \in List
BY DEF List

LEMMA InitBase == Init => Base
BY ListsAssumption, ReadyIsList DEF Init, Base, TypeOK, Locks

LEMMA AcquireBase ==
  ASSUME Base, NEW th \in Thread, NEW l \in List, Acquire(th, l)
  PROVE  /\ lock' \in [Chan \cup {Ready} -> Thread \cup {NULL}]
         /\ lock'[LockOf(l)] = th
         /\ \A u \in Thread, k \in Chan \cup {Ready} : lock[k] = u => lock'[k] = u
<1>1. LockOf(l) \in Chan \cup {Ready} /\ lock \in [Chan \cup {Ready} -> Thread \cup {NULL}]
  BY LockOfType DEF Base, TypeOK
<1>2. CASE Owns(th, l)
  BY <1>1, <1>2 DEF Acquire, Owns, Base, Locks
<1>3. CASE ~ Owns(th, l)
  BY <1>1, <1>3, ListsAssumption DEF Acquire
<1> QED
  BY <1>2, <1>3

LEMMA ReleaseBase ==
  ASSUME Base, NEW th \in Thread, NEW l \in List, Release(th, l),
         lock[LockOf(l)] = th
  PROVE  /\ lock' \in [Chan \cup {Ready} -> Thread \cup {NULL}]
         /\ \A u \in Thread, k \in Chan \cup {Ready} :
              lock[k] = u /\ u # th => lock'[k] = u
         /\ closing[th] # NULL => lock'[closing[th]] = th
<1>1. LockOf(l) \in Chan \cup {Ready} /\ lock \in [Chan \cup {Ready} -> Thread \cup {NULL}]
  BY LockOfType DEF Base, TypeOK
<1>2. CASE Owns(th, l)
  BY <1>1, <1>2 DEF Release, Base, Locks
<1>3. CASE ~ Owns(th, l)
  BY <1>1, <1>3 DEF Release, Owns, Base, TypeOK, Locks
<1> QED
  BY <1>2, <1>3

LEMMA InnerBase ==
  ASSUME Base, Taking, NEW th \in Thread, Inner(th)
  PROVE  Base'
<1> USE DEF Base, TypeOK, Locks, Goto, ptrVars, walkVars
<1>1. held[th] \in Task /\ list[th] \in List /\ pc[th] # "free"
  BY DEF Inner, LinkFirst, LinkTail, SetTail, ScanStart, Scan, ScanEnd, Pushed,
         Unlink, Popped
<1>2. CASE LinkFirst(th)
  BY <1>1, <1>2 DEF LinkFirst
<1>3. CASE LinkTail(th)
  BY <1>1, <1>3 DEF LinkTail
<1>4. CASE SetTail(th)
  BY <1>1, <1>4 DEF SetTail, NewTail
<1>5. CASE ScanStart(th)
  BY <1>1, <1>5 DEF ScanStart
<1>6. CASE Scan(th)
  BY <1>1, <1>6 DEF Scan
<1>7. CASE ScanEnd(th)
  BY <1>1, <1>7 DEF ScanEnd
<1>8. CASE Pushed(th)
  <2> DEFINE l == list[th]
  <2>1. PICK m \in List : m = l
    BY <1>1
  <2>2. Release(th, m) /\ lock[LockOf(m)] = th
    BY <1>1, <1>8, <2>1 DEF Pushed
  <2>3. /\ lock' \in [Chan \cup {Ready} -> Thread \cup {NULL}]
        /\ \A u \in Thread, k \in Chan \cup {Ready} :
              lock[k] = u /\ u # th => lock'[k] = u
        /\ closing[th] # NULL => lock'[closing[th]] = th
    BY <2>2, ReleaseBase
  <2>4. queue' \in [List -> Seq(Task)]
    BY <1>1, <1>8 DEF Pushed
  <2>5. \A u \in Thread : pc'[u] # "free" => u # th /\ lock'[LockOf(list'[u])] = u
    BY <1>8, <2>3, LockOfType DEF Pushed
  <2> QED
    BY <1>1, <1>8, <2>3, <2>4, <2>5 DEF Pushed
<1>9. CASE Unlink(th)
  BY <1>1, <1>9 DEF Unlink, NewHead
<1>10. CASE Popped(th)
  <2> DEFINE l == list[th]
  <2>1. PICK m \in List : m = l
    BY <1>1
  <2>2. Release(th, m) /\ lock[LockOf(m)] = th
    BY <1>1, <1>10, <2>1 DEF Popped
  <2>3. /\ lock' \in [Chan \cup {Ready} -> Thread \cup {NULL}]
        /\ \A u \in Thread, k \in Chan \cup {Ready} :
              lock[k] = u /\ u # th => lock'[k] = u
        /\ closing[th] # NULL => lock'[closing[th]] = th
    BY <2>2, ReleaseBase
  <2>4. queue' \in [List -> Seq(Task)]
    <3> DEFINE rest == SubSeq(queue[l], 2, Len(queue[l]))
    <3>1. queue' = [queue EXCEPT ![l] = rest] /\ pc[th] = "detach"
      BY <1>10 DEF Popped
    <3>2. queue[l] \in Seq(Task) /\ queue[l] # << >>
      BY <1>1, <3>1 DEF Taking
    <3>3. rest \in Seq(Task)
      BY <3>2, TailIsSubSeq
    <3> QED
      BY <1>1, <3>1, <3>3
  <2>5. \A u \in Thread : pc'[u] # "free" => u # th /\ lock'[LockOf(list'[u])] = u
    BY <1>10, <2>3, LockOfType DEF Popped
  <2> QED
    BY <1>1, <1>10, <2>3, <2>4, <2>5 DEF Popped
<1> QED
  BY <1>2, <1>3, <1>4, <1>5, <1>6, <1>7, <1>8, <1>9, <1>10 DEF Inner

LEMMA BaseNext == Base /\ Taking /\ [Next]_vars => Base'
<1> SUFFICES ASSUME Base, Taking, [Next]_vars PROVE Base'
  OBVIOUS
<1> USE DEF Base, TypeOK, Locks, Goto, ptrVars, walkVars
<1>1. ASSUME NEW th \in Thread, NEW t \in Task, Create(th, t) PROVE Base'
  BY <1>1 DEF Create
<1>2. ASSUME NEW th \in Thread, NEW l \in List, Push(th, l) PROVE Base'
  <2>1. /\ lock' \in [Chan \cup {Ready} -> Thread \cup {NULL}]
        /\ lock'[LockOf(l)] = th
        /\ \A u \in Thread, k \in Chan \cup {Ready} : lock[k] = u => lock'[k] = u
    BY <1>2, AcquireBase DEF Push
  <2>2. \A u \in Thread : pc'[u] # "free" => lock'[LockOf(list'[u])] = u
    BY <1>2, <2>1, LockOfType DEF Push
  <2> QED
    BY <1>2, <2>1, <2>2 DEF Push
<1>3. ASSUME NEW th \in Thread, NEW l \in List, Pop(th, l) PROVE Base'
  <2>1. /\ lock' \in [Chan \cup {Ready} -> Thread \cup {NULL}]
        /\ lock'[LockOf(l)] = th
        /\ \A u \in Thread, k \in Chan \cup {Ready} : lock[k] = u => lock'[k] = u
    BY <1>3, AcquireBase DEF Pop
  <2>2. \A u \in Thread : pc'[u] # "free" => lock'[LockOf(list'[u])] = u
    BY <1>3, <2>1, LockOfType DEF Pop
  <2> QED
    BY <1>3, <2>1, <2>2 DEF Pop
<1>4. ASSUME NEW th \in Thread, NEW c \in Chan, Close(th, c) PROVE Base'
  <2>1. \A u \in Thread, k \in Chan \cup {Ready} : lock[k] = u => lock'[k] = u
    BY <1>4, ListsAssumption DEF Close
  <2>2. \A u \in Thread : pc'[u] # "free" => lock'[LockOf(list'[u])] = u
    BY <1>4, <2>1, LockOfType DEF Close
  <2> QED
    BY <1>4, <2>1, <2>2 DEF Close
<1>5. ASSUME NEW th \in Thread, Closed(th) PROVE Base'
  <2>1. \A u \in Thread, k \in Chan \cup {Ready} : lock[k] = u /\ u # th => lock'[k] = u
    BY <1>5 DEF Closed
  <2>2. \A u \in Thread : pc'[u] # "free" => lock'[LockOf(list'[u])] = u
    BY <1>5, <2>1, LockOfType DEF Closed
  <2> QED
    BY <1>5, <2>1, <2>2, ListsAssumption DEF Closed
<1>6. ASSUME NEW l \in List, WalkStart(l) PROVE Base'
  BY <1>6 DEF WalkStart, Hanging, Elems
<1>7. CASE WalkStep
  BY <1>7 DEF WalkStep
<1>8. CASE WalkEnd
  BY <1>8 DEF WalkEnd
<1>9. CASE UNCHANGED vars
  BY <1>9 DEF vars
<1> QED
  BY <1>1, <1>2, <1>3, <1>4, <1>5, <1>6, <1>7, <1>8, <1>9, InnerBase DEF Next, Operate

(***************************************************************************)
(* What the pointers of a list spell: its queue, the queue and the task    *)
(* being appended once the last next field is set, or the rest of the      *)
(* queue once the head has moved.                                          *)
(***************************************************************************)
Last(s) == IF s = << >> THEN NULL ELSE s[Len(s)]

Working(th, ps, l) == pc[th] \in ps /\ list[th] = l

Stands(l, s) ==
  \/ /\ s = queue[l]
     /\ \A th \in Thread : ~ Working(th, {"settail", "unlock", "detach"}, l)
  \/ \E th \in Thread : /\ Working(th, {"settail", "unlock"}, l)
                        /\ s = Append(queue[l], held[th])
  \/ \E th \in Thread : Working(th, {"detach"}, l) /\ s = Tail(queue[l])

Spelled == \A l \in List : \A s : Stands(l, s) => Spells(head[l], s)

Tails == \A s : Stands(Ready, s) =>
  tail = IF \E th \in Thread : Working(th, {"settail"}, Ready)
         THEN Last(queue[Ready]) ELSE Last(s)

Appending ==
  /\ \A th \in Thread : pc[th] \in {"link", "scan"} => next[held[th]] = NULL
  /\ \A th \in Thread : pc[th] = "scan" =>
       list[th] # Ready /\ at[th] \in Elems(queue[list[th]])
  /\ \A th \in Thread : pc[th] = "settail" =>
       list[th] = Ready /\ queue[Ready] # << >>

ListInv == Base /\ Taking /\ OnePlace /\ Spelled /\ Tails /\ Appending

LEMMA NoOther ==
  ASSUME Base
  PROVE  \A th, u \in Thread :
           pc[th] # "free" /\ pc[u] # "free" /\ list[th] = list[u] => th = u
BY DEF Base, TypeOK

LEMMA Queues ==
  ASSUME Base
  PROVE  \A l \in List : /\ queue[l] \in Seq(Task) /\ Len(queue[l]) \in Nat
                         /\ queue[l] = << >> <=> Len(queue[l]) = 0
                         /\ DOMAIN queue[l] = 1 .. Len(queue[l])
                         /\ \A i \in 1 .. Len(queue[l]) : queue[l][i] \in Task
BY DEF Base, TypeOK

(* When a thread looks at the head of a list nobody works on.              *)
LEMMA HeadOfQuiet ==
  ASSUME ListInv, NEW l \in List,
         \A th \in Thread : ~ Working(th, {"settail", "unlock", "detach"}, l)
  PROVE  /\ Spells(head[l], queue[l])
         /\ head[l] = NULL <=> queue[l] = << >>
         /\ queue[l] # << >> => head[l] = queue[l][1]
<1>1. Stands(l, queue[l])
  BY DEF Stands
<1>2. Spells(head[l], queue[l])
  BY <1>1 DEF ListInv, Spelled
<1>3. queue[l] # << >> => queue[l][1] # NULL
  BY Queues, ListsAssumption DEF ListInv
<1> QED
  BY <1>2, <1>3 DEF Spells

LEMMA InitLists == Init => ListInv
<1> SUFFICES ASSUME Init PROVE ListInv
  OBVIOUS
<1>1. Base
  BY InitBase
<1>2. Taking /\ OnePlace /\ Appending
  BY DEF Init, Taking, OnePlace, Appending, InHand
<1>3. \A l \in List : \A s : Stands(l, s) => s = << >>
  BY DEF Init, Stands, Working
<1>4. Spelled /\ Tails
  BY <1>3, ReadyIsList DEF Init, Spelled, Tails, Spells, Working, Last
<1> QED
  BY <1>1, <1>2, <1>4 DEF ListInv

(***************************************************************************)
(* One place each.                                                         *)
(***************************************************************************)
LEMMA PushedOnePlace ==
  ASSUME ListInv, NEW th \in Thread, Pushed(th)
  PROVE  OnePlace' /\ Taking'
<1> DEFINE L == list[th]  t == held[th]  n == Len(queue[L])
<1>1. /\ L \in List /\ t \in Task /\ queue \in [List -> Seq(Task)] /\ pc[th] = "unlock"
      /\ queue' = [queue EXCEPT ![L] = Append(queue[L], t)] /\ fresh' = fresh
      /\ pc' = [pc EXCEPT ![th] = "free"] /\ held' = [held EXCEPT ![th] = NULL]
      /\ pc \in [Thread -> Label] /\ held \in [Thread -> Task \cup {NULL}] /\ list' = list
  BY DEF ListInv, Base, TypeOK, Locks, Pushed, Goto, Label
<1>2. InHand(th)
  BY <1>1, ListsAssumption DEF InHand
<1>3. /\ t \notin fresh
      /\ \A l \in List : \A i \in 1 .. Len(queue[l]) : queue[l][i] # t
  BY <1>2 DEF ListInv, OnePlace
<1>4. \A l \in List : \A i \in 1 .. Len(queue'[l]) :
        \/ i \in 1 .. Len(queue[l]) /\ queue'[l][i] = queue[l][i]
        \/ l = L /\ i = n + 1 /\ queue'[l][i] = t
  <2> HIDE DEF L, t
  <2> QED
    BY <1>1
<1>5. \A u \in Thread : u # th => pc'[u] = pc[u] /\ held'[u] = held[u]
  BY <1>1
<1>6. \A u \in Thread : InHand(u)' => InHand(u) /\ u # th /\ held'[u] = held[u]
  BY <1>1, <1>5 DEF InHand
<1> HIDE DEF L, t, n
<1>7. \A l, m \in List : \A i \in 1 .. Len(queue'[l]), j \in 1 .. Len(queue'[m]) :
        queue'[l][i] = queue'[m][j] => l = m /\ i = j
  BY <1>3, <1>4 DEF ListInv, OnePlace
<1>8. \A l \in List : \A i \in 1 .. Len(queue'[l]) : queue'[l][i] \notin fresh'
  BY <1>1, <1>3, <1>4 DEF ListInv, OnePlace
<1>9. ASSUME NEW u \in Thread, InHand(u)'
      PROVE  /\ held'[u] \notin fresh'
             /\ \A l \in List : \A i \in 1 .. Len(queue'[l]) : queue'[l][i] # held'[u]
  <2>1. InHand(u) /\ u # th /\ held'[u] = held[u]
    BY <1>6, <1>9
  <2>2. held[u] # t
    BY <1>2, <2>1 DEF ListInv, OnePlace, t
  <2> QED
    BY <1>1, <1>4, <2>1, <2>2 DEF ListInv, OnePlace
<1>10. \A u, v \in Thread : InHand(u)' /\ InHand(v)' /\ held'[u] = held'[v] => u = v
  BY <1>6 DEF ListInv, OnePlace
<1>11. ASSUME NEW u \in Thread, pc'[u] \in {"unlink", "detach"}
       PROVE  queue'[list'[u]] # << >> /\ held'[u] = queue'[list'[u]][1]
  <2>1. u # th /\ pc[u] # "free" /\ pc[th] # "free"
    BY <1>1, <1>5, <1>11
  <2>2. list[u] # L /\ list[u] \in List
    BY <2>1, NoOther DEF L, ListInv, Base, TypeOK
  <2> QED
    BY <1>1, <1>5, <1>11, <2>1, <2>2 DEF ListInv, Taking
<1> QED
  BY <1>7, <1>8, <1>9, <1>10, <1>11 DEF OnePlace, Taking

(* The queue has a task to take, so what stays is its tail.                *)
LEMMA PoppedTail ==
  ASSUME ListInv, NEW th \in Thread, Popped(th)
  PROVE  queue' = [queue EXCEPT ![list[th]] = Tail(queue[list[th]])]
<1> DEFINE L == list[th]
<1>1. /\ L \in List /\ queue \in [List -> Seq(Task)] /\ pc[th] = "detach"
      /\ queue' = [queue EXCEPT ![L] = SubSeq(queue[L], 2, Len(queue[L]))]
  BY DEF ListInv, Base, TypeOK, Locks, Popped, Goto
<1>2. queue[L] \in Seq(Task) /\ queue[L] # << >>
  BY <1>1 DEF ListInv, Taking
<1> HIDE DEF L
<1>3. Tail(queue[L]) = SubSeq(queue[L], 2, Len(queue[L]))
  BY <1>2, TailIsSubSeq
<1> QED
  BY <1>1, <1>3 DEF L

LEMMA PoppedOnePlace ==
  ASSUME ListInv, NEW th \in Thread, Popped(th)
  PROVE  OnePlace' /\ Taking'
<1> DEFINE L == list[th]  t == held[th]
<1>1. /\ L \in List /\ t \in Task /\ queue \in [List -> Seq(Task)] /\ pc[th] = "detach"
      /\ queue' = [queue EXCEPT ![L] = Tail(queue[L])] /\ fresh' = fresh
      /\ pc' = [pc EXCEPT ![th] = "free"] /\ held' = held
      /\ pc \in [Thread -> Label] /\ held \in [Thread -> Task \cup {NULL}] /\ list' = list
  BY PoppedTail DEF ListInv, Base, TypeOK, Locks, Popped, Goto, Label
<1>2. queue[L] # << >> /\ t = queue[L][1]
  BY <1>1 DEF ListInv, Taking
<1>3. \A l \in List : \A i \in 1 .. Len(queue'[l]) :
        \/ l # L /\ i \in 1 .. Len(queue[l]) /\ queue'[l][i] = queue[l][i]
        \/ l = L /\ i + 1 \in 1 .. Len(queue[l]) /\ queue'[l][i] = queue[l][i + 1]
  <2> HIDE DEF L, t
  <2> QED
    BY <1>1, <1>2
<1>4. 1 \in 1 .. Len(queue[L])
  BY <1>1, <1>2
<1>5. \A u \in Thread : u # th => pc'[u] = pc[u]
  BY <1>1
<1>6. \A u \in Thread : InHand(u)' => InHand(u) \/ u = th
  BY <1>1, <1>5 DEF InHand
<1> HIDE DEF L, t
<1>7. \A l, m \in List : \A i \in 1 .. Len(queue'[l]), j \in 1 .. Len(queue'[m]) :
        queue'[l][i] = queue'[m][j] => l = m /\ i = j
  <2> SUFFICES ASSUME NEW l \in List, NEW m \in List,
                      NEW i \in 1 .. Len(queue'[l]), NEW j \in 1 .. Len(queue'[m]),
                      queue'[l][i] = queue'[m][j]
               PROVE  l = m /\ i = j
    OBVIOUS
  <2>1. PICK a \in 1 .. Len(queue[l]) :
          queue'[l][i] = queue[l][a] /\ a = IF l = L THEN i + 1 ELSE i
    BY <1>3
  <2>2. PICK b \in 1 .. Len(queue[m]) :
          queue'[m][j] = queue[m][b] /\ b = IF m = L THEN j + 1 ELSE j
    BY <1>3
  <2>3. queue[l][a] = queue[m][b]
    BY <2>1, <2>2
  <2>4. l = m /\ a = b
    BY <2>3 DEF ListInv, OnePlace
  <2> QED
    BY <2>1, <2>2, <2>4
<1>8. \A l \in List : \A i \in 1 .. Len(queue'[l]) :
        \E j \in 1 .. Len(queue[l]) : queue'[l][i] = queue[l][j] /\ (l = L => j # 1)
  BY <1>3
<1>9. \A l \in List : \A i \in 1 .. Len(queue'[l]) : queue'[l][i] \notin fresh' /\ queue'[l][i] # t
  <2> TAKE l \in List
  <2> TAKE i \in 1 .. Len(queue'[l])
  <2>1. PICK j \in 1 .. Len(queue[l]) : queue'[l][i] = queue[l][j] /\ (l = L => j # 1)
    BY <1>8
  <2>2. queue[l][j] \notin fresh
    BY DEF ListInv, OnePlace
  <2>3. queue[l][j] = queue[L][1] => l = L /\ j = 1
    BY <1>1, <1>4 DEF ListInv, OnePlace
  <2> QED
    BY <1>1, <1>2, <2>1, <2>2, <2>3
<1>10. t \notin fresh /\ \A u \in Thread : InHand(u) => held[u] # t
  BY <1>1, <1>2, <1>4 DEF ListInv, OnePlace
<1>11. ASSUME NEW u \in Thread, InHand(u)'
       PROVE  /\ held'[u] \notin fresh'
              /\ \A l \in List : \A i \in 1 .. Len(queue'[l]) : queue'[l][i] # held'[u]
  <2>1. CASE u = th
    BY <1>1, <1>9, <1>10, <2>1 DEF t
  <2>2. CASE InHand(u)
    BY <1>1, <1>8, <2>2 DEF ListInv, OnePlace
  <2> QED
    BY <1>6, <1>11, <2>1, <2>2
<1>12. \A u, v \in Thread : InHand(u)' /\ InHand(v)' /\ held'[u] = held'[v] => u = v
  BY <1>1, <1>6, <1>10 DEF ListInv, OnePlace, t
<1>13. ASSUME NEW u \in Thread, pc'[u] \in {"unlink", "detach"}
       PROVE  queue'[list'[u]] # << >> /\ held'[u] = queue'[list'[u]][1]
  <2>1. u # th /\ pc[u] # "free" /\ pc[th] # "free"
    BY <1>1, <1>5, <1>13
  <2>2. list[u] # L /\ list[u] \in List
    BY <2>1, NoOther DEF L, ListInv, Base, TypeOK
  <2> QED
    BY <1>1, <1>5, <1>13, <2>1, <2>2 DEF ListInv, Taking
<1> QED
  BY <1>7, <1>9, <1>11, <1>12, <1>13 DEF OnePlace, Taking

LEMMA QuietWhenAcquired ==
  ASSUME Base, NEW th \in Thread, NEW l \in List, Acquire(th, l), pc[th] = "free"
  PROVE  \A u \in Thread : ~ Working(u, Label \ {"free"}, l)
<1> SUFFICES ASSUME NEW u \in Thread, pc[u] # "free", list[u] = l PROVE FALSE
  BY DEF Working
<1>1. lock[LockOf(l)] = u
  BY DEF Base, TypeOK
<1>2. u # NULL
  BY ListsAssumption
<1>3. Owns(th, l)
  BY <1>1, <1>2 DEF Acquire
<1>4. lock[LockOf(l)] = th
  BY <1>3 DEF Owns, Base, Locks
<1> QED
  BY <1>1, <1>4

(* The steps that move no task.                                            *)
LEMMA StillOnePlace ==
  ASSUME ListInv, UNCHANGED <<fresh, held, queue>>,
         \A u \in Thread : pc[u] \in {"unlink", "detach"} <=> pc'[u] \in {"unlink", "detach"},
         \A u \in Thread : pc'[u] \in {"unlink", "detach"} => list'[u] = list[u]
  PROVE  OnePlace' /\ Taking'
<1>1. \A u \in Thread : InHand(u)' <=> InHand(u)
  BY DEF InHand
<1>2. OnePlace'
  BY <1>1 DEF ListInv, OnePlace
<1>3. Taking'
  BY DEF ListInv, Taking
<1> QED
  BY <1>2, <1>3

LEMMA InnerOnePlace ==
  ASSUME ListInv, NEW th \in Thread, Inner(th)
  PROVE  OnePlace' /\ Taking'
<1>1. CASE Pushed(th)
  BY <1>1, PushedOnePlace
<1>2. CASE Popped(th)
  BY <1>2, PoppedOnePlace
<1>3. ASSUME ~ Pushed(th), ~ Popped(th)
      PROVE  /\ UNCHANGED <<fresh, held, queue, list>>
             /\ pc[th] \in {"unlink", "detach"} <=> pc'[th] \in {"unlink", "detach"}
             /\ \A u \in Thread : u # th => pc'[u] = pc[u]
  BY <1>3 DEF Inner, LinkFirst, LinkTail, SetTail, ScanStart, Scan, ScanEnd, Unlink,
              Goto, ListInv, Base, TypeOK
<1>4. ASSUME ~ Pushed(th), ~ Popped(th) PROVE OnePlace' /\ Taking'
  BY <1>3, <1>4, StillOnePlace
<1> QED
  BY <1>1, <1>2, <1>4

LEMMA OnePlaceNext == ListInv /\ [Next]_vars => OnePlace' /\ Taking'
<1> SUFFICES ASSUME ListInv, [Next]_vars PROVE OnePlace' /\ Taking'
  OBVIOUS
<1>0. /\ pc \in [Thread -> Label] /\ held \in [Thread -> Task \cup {NULL}]
      /\ list \in [Thread -> List]
  BY DEF ListInv, Base, TypeOK, Label
<1>1. ASSUME NEW th \in Thread, NEW t \in Task, Create(th, t)
      PROVE  OnePlace' /\ Taking'
  <2>1. /\ pc[th] = "free" /\ held[th] = NULL /\ fresh' = fresh \ {t} /\ t \in fresh
        /\ held'[th] = t /\ \A u \in Thread : u # th => held'[u] = held[u]
        /\ UNCHANGED <<pc, list, queue>>
    BY <1>0, <1>1 DEF Create
  <2>2. \A u \in Thread : InHand(u)' => u = th \/ (InHand(u) /\ held'[u] = held[u] /\ u # th)
    BY <2>1 DEF InHand
  <2>3. \A u \in Thread : InHand(u) => held[u] # t
    BY <2>1 DEF ListInv, OnePlace
  <2>4. \A u \in Thread : InHand(u)' =>
          /\ held'[u] \notin fresh'
          /\ \A l \in List : \A i \in 1 .. Len(queue'[l]) : queue'[l][i] # held'[u]
    BY <2>1, <2>2 DEF ListInv, OnePlace
  <2>5. \A u, v \in Thread : InHand(u)' /\ InHand(v)' /\ held'[u] = held'[v] => u = v
    BY <2>1, <2>2, <2>3 DEF ListInv, OnePlace
  <2>6. OnePlace'
    BY <2>1, <2>4, <2>5 DEF ListInv, OnePlace
  <2> QED
    BY <2>1, <2>6 DEF ListInv, Taking
<1>2. ASSUME NEW th \in Thread, NEW l \in List, Push(th, l)
      PROVE  OnePlace' /\ Taking'
  <2>1. /\ pc[th] = "free" /\ pc'[th] = "link" /\ UNCHANGED <<fresh, held, queue>>
        /\ \A u \in Thread : u # th => pc'[u] = pc[u] /\ list'[u] = list[u]
    BY <1>0, <1>2 DEF Push, Goto
  <2> QED
    BY <2>1, StillOnePlace
<1>3. ASSUME NEW th \in Thread, NEW l \in List, Pop(th, l)
      PROVE  OnePlace' /\ Taking'
  <2>1. /\ pc[th] = "free" /\ pc'[th] = "unlink" /\ UNCHANGED <<fresh, queue>>
        /\ held'[th] = head[l] /\ list'[th] = l /\ head[l] # NULL
        /\ \A u \in Thread : u # th =>
             pc'[u] = pc[u] /\ list'[u] = list[u] /\ held'[u] = held[u]
    BY <1>0, <1>3 DEF Pop, Goto
  <2>2. \A u \in Thread : ~ Working(u, Label \ {"free"}, l)
    BY <1>3, <2>1, QuietWhenAcquired DEF Pop, ListInv
  <2>3. queue[l] # << >> /\ head[l] = queue[l][1]
    BY <2>1, <2>2, HeadOfQuiet DEF Working, Label
  <2>4. \A u \in Thread : InHand(u)' => InHand(u) /\ held'[u] = held[u]
    BY <2>1 DEF InHand
  <2>5. OnePlace'
    BY <2>1, <2>4 DEF ListInv, OnePlace
  <2>6. Taking'
    BY <2>1, <2>3 DEF ListInv, Taking
  <2> QED
    BY <2>5, <2>6
<1>4. ASSUME NEW th \in Thread, Inner(th) PROVE OnePlace' /\ Taking'
  BY <1>4, InnerOnePlace
<1>5. ASSUME NEW th \in Thread, Closed(th) \/ \E c \in Chan : Close(th, c)
      PROVE  OnePlace' /\ Taking'
  BY <1>5, StillOnePlace DEF Close, Closed
<1>6. CASE (\E l \in List : WalkStart(l)) \/ WalkStep \/ WalkEnd \/ UNCHANGED vars
  BY <1>6, StillOnePlace DEF WalkStart, WalkStep, WalkEnd, vars
<1> QED
  BY <1>1, <1>2, <1>3, <1>4, <1>5, <1>6 DEF Next, Operate

(***************************************************************************)
(* A step of th on the list L.  It changes the next field of the task in   *)
(* its hands, or of a task queued on L, and no other.                      *)
(***************************************************************************)
Moves(th, L) ==
  /\ \A u \in Thread : u # th =>
       pc'[u] = pc[u] /\ held'[u] = held[u] /\ list'[u] = list[u] /\ at'[u] = at[u]
  /\ \A u \in Thread : u # th /\ pc[u] # "free" => list[u] # L
  /\ list'[th] = L
  /\ pc[th] # "free" => list[th] = L
  /\ \A l \in List : l # L => queue'[l] = queue[l] /\ head'[l] = head[l]
  /\ L # Ready => tail' = tail
  /\ \A t \in Task : \/ next'[t] = next[t]
                     \/ InHand(th) /\ t = held[th]
                     \/ t \in Elems(queue[L])

(* What the pointers of the list that th works on spell.                   *)
Standing(th, L) ==
  CASE pc[th] \in {"settail", "unlock"} -> Append(queue[L], held[th])
    [] pc[th] = "detach" -> Tail(queue[L])
    [] OTHER -> queue[L]

LEMMA Here ==
  ASSUME NEW th \in Thread, NEW L \in List, Moves(th, L), NEW s
  PROVE  /\ Stands(L, s) <=> s = Standing(th, L)
         /\ Stands(L, s)' <=> s = Standing(th, L)'
<1>1. /\ \A u \in Thread : u # th /\ pc[u] # "free" => list[u] # L
      /\ \A u \in Thread : u # th /\ pc'[u] # "free" => list'[u] # L
      /\ pc[th] # "free" => list[th] = L
      /\ list'[th] = L
  BY DEF Moves
<1>2. Stands(L, s) <=> s = Standing(th, L)
  <2>1. CASE pc[th] \in {"settail", "unlock"}
    BY <1>1, <2>1 DEF Stands, Standing, Working
  <2>2. CASE pc[th] = "detach"
    BY <1>1, <2>2 DEF Stands, Standing, Working
  <2>3. CASE pc[th] \notin {"settail", "unlock", "detach"}
    BY <1>1, <2>3 DEF Stands, Standing, Working
  <2> QED
    BY <2>1, <2>2, <2>3
<1>3. Stands(L, s)' <=> s = Standing(th, L)'
  <2>1. CASE pc'[th] \in {"settail", "unlock"}
    BY <1>1, <2>1 DEF Stands, Standing, Working
  <2>2. CASE pc'[th] = "detach"
    BY <1>1, <2>2 DEF Stands, Standing, Working
  <2>3. CASE pc'[th] \notin {"settail", "unlock", "detach"}
    BY <1>1, <2>3 DEF Stands, Standing, Working
  <2> QED
    BY <2>1, <2>2, <2>3
<1> QED
  BY <1>2, <1>3

LEMMA SameSpelling ==
  ASSUME NEW l \in List, NEW s, Len(s) \in Nat, s = << >> <=> Len(s) = 0,
         head'[l] = head[l], \A i \in 1 .. Len(s) : next'[s[i]] = next[s[i]],
         Spells(head[l], s)
  PROVE  Spells(head[l], s)'
<1>1. CASE s = << >>
  BY <1>1 DEF Spells
<1>2. CASE s # << >>
  <2>1. Len(s) \in 1 .. Len(s) /\ \A i \in 1 .. Len(s) - 1 : i \in 1 .. Len(s)
    BY <1>2
  <2> QED
    BY <1>2, <2>1 DEF Spells
<1> QED
  BY <1>1, <1>2

LEMMA OthersInHand ==
  ASSUME ListInv, NEW th \in Thread, NEW L \in List, Moves(th, L),
         NEW u \in Thread, u # th, InHand(u)
  PROVE  held[u] \in Task /\ next'[held[u]] = next[held[u]]
<1>1. held[u] \in Task
  BY DEF InHand, ListInv, Base, TypeOK
<1>2. held[u] \notin Elems(queue[L])
  BY DEF ListInv, OnePlace, Elems, Base, TypeOK
<1>3. InHand(th) => held[u] # held[th]
  BY DEF ListInv, OnePlace
<1> QED
  BY <1>1, <1>2, <1>3 DEF Moves

(* The other lists do not notice.                                          *)
LEMMA Elsewhere ==
  ASSUME ListInv, NEW th \in Thread, NEW L \in List, Moves(th, L),
         NEW l \in List, l # L, NEW s, Stands(l, s)'
  PROVE  Stands(l, s) /\ Spells(head[l], s)'
<1>1. \A u \in Thread : \A ps : u # th => (Working(u, ps, l)' <=> Working(u, ps, l))
  BY DEF Moves, Working
<1>2. list'[th] # l /\ ~ Working(th, {"settail", "unlock", "detach"}, l)
  BY DEF Moves, Working
<1>3. \A u \in Thread : \A ps : Working(u, ps, l)' => u # th
  BY <1>2 DEF Working
<1>4. queue'[l] = queue[l] /\ head'[l] = head[l] /\ \A u \in Thread : u # th => held'[u] = held[u]
  BY DEF Moves
<1>5. Stands(l, s)
  <2>1. CASE s = queue'[l] /\ \A u \in Thread : ~ Working(u, {"settail", "unlock", "detach"}, l)'
    BY <1>1, <1>2, <1>4, <2>1 DEF Stands
  <2>2. ASSUME NEW u \in Thread, Working(u, {"settail", "unlock"}, l)', s = Append(queue'[l], held'[u])
        PROVE  Stands(l, s)
    BY <1>1, <1>3, <1>4, <2>2 DEF Stands
  <2>3. ASSUME NEW u \in Thread, Working(u, {"detach"}, l)', s = Tail(queue'[l])
        PROVE  Stands(l, s)
    BY <1>1, <1>3, <1>4, <2>3 DEF Stands
  <2> QED
    BY <2>1, <2>2, <2>3 DEF Stands
<1>6. Spells(head[l], s)
  BY <1>5 DEF ListInv, Spelled
<1>7. queue[l] \in Seq(Task) /\ queue[L] \in Seq(Task)
  BY DEF ListInv, Base, TypeOK
<1>8. \A i \in 1 .. Len(queue[l]) : next'[queue[l][i]] = next[queue[l][i]]
  <2> TAKE i \in 1 .. Len(queue[l])
  <2>1. queue[l][i] \in Task
    BY <1>7
  <2>2. queue[l][i] \notin Elems(queue[L])
    BY <1>7 DEF ListInv, OnePlace, Elems
  <2>3. InHand(th) => queue[l][i] # held[th]
    BY DEF ListInv, OnePlace
  <2> QED
    BY <2>1, <2>2, <2>3 DEF Moves
<1>9. ASSUME NEW u \in Thread, u # th, InHand(u)
      PROVE  held[u] \in Task /\ next'[held[u]] = next[held[u]]
  BY <1>9, OthersInHand
<1> DEFINE Kept == /\ Len(s) \in Nat /\ (s = << >> <=> Len(s) = 0)
                   /\ \A i \in 1 .. Len(s) : next'[s[i]] = next[s[i]]
<1>10. Kept
  <2>1. CASE s = queue[l]
    BY <1>7, <1>8, <2>1
  <2>2. ASSUME NEW u \in Thread, Working(u, {"settail", "unlock"}, l), s = Append(queue[l], held[u])
        PROVE  Kept
    <3>1. u # th
      BY <1>2, <2>2 DEF Working
    <3>2. InHand(u)
      BY <2>2 DEF InHand, Working, ListInv, Base, Locks
    <3>3. held[u] \in Task /\ next'[held[u]] = next[held[u]]
      BY <3>1, <3>2, <1>9
    <3> QED
      BY <1>7, <1>8, <2>2, <3>3
  <2>3. ASSUME NEW u \in Thread, Working(u, {"detach"}, l), s = Tail(queue[l])
        PROVE  Kept
    <3>1. queue[l] # << >>
      BY <2>3 DEF Working, ListInv, Taking
    <3>2. Len(s) = Len(queue[l]) - 1 /\ \A i \in 1 .. Len(s) : s[i] = queue[l][i + 1]
      BY <1>7, <2>3, <3>1
    <3>3. s \in Seq(Task)
      BY <1>7, <2>3, <3>1
    <3>4. Len(s) \in Nat /\ (s = << >> <=> Len(s) = 0)
      BY <3>3
    <3>5. \A i \in 1 .. Len(s) : next'[s[i]] = next[s[i]]
      <4> TAKE i \in 1 .. Len(s)
      <4>1. i + 1 \in 1 .. Len(queue[l]) /\ s[i] = queue[l][i + 1]
        BY <1>7, <3>2
      <4> QED
        BY <1>8, <4>1
    <3> QED
      BY <3>4, <3>5
  <2> QED
    BY <1>5, <2>1, <2>2, <2>3 DEF Stands
<1>11. Spells(head[l], s)'
  BY <1>4, <1>6, <1>10, SameSpelling
<1> QED
  BY <1>5, <1>11

(* What a step on the list L has to establish for its thread and its list. *)
Fits(th, L) ==
  /\ Spells(head[L], Standing(th, L))
  /\ L = Ready => tail = IF pc[th] = "settail" THEN Last(queue[L])
                         ELSE Last(Standing(th, L))
  /\ pc[th] \in {"link", "scan"} => next[held[th]] = NULL
  /\ pc[th] = "scan" => L # Ready /\ at[th] \in Elems(queue[L])
  /\ pc[th] = "settail" => L = Ready /\ queue[L] # << >>

LEMMA FitsBefore ==
  ASSUME ListInv, NEW th \in Thread, NEW L \in List, Moves(th, L)
  PROVE  Fits(th, L)
<1>1. Stands(L, Standing(th, L))
  BY Here
<1>2. Spells(head[L], Standing(th, L))
  BY <1>1 DEF ListInv, Spelled
<1>3. pc[th] # "free" => list[th] = L
  BY DEF Moves
<1>4. ASSUME L = Ready
      PROVE  tail = IF pc[th] = "settail" THEN Last(queue[L]) ELSE Last(Standing(th, L))
  <2>1. (\E u \in Thread : Working(u, {"settail"}, Ready)) <=> pc[th] = "settail"
    BY <1>3, <1>4 DEF Working, Moves
  <2> QED
    BY <1>1, <1>4, <2>1 DEF ListInv, Tails
<1> QED
  BY <1>2, <1>3, <1>4 DEF Fits, ListInv, Appending

LEMMA FitsAfter ==
  ASSUME ListInv, NEW th \in Thread, NEW L \in List, Moves(th, L), Fits(th, L)'
  PROVE  Spelled' /\ Tails' /\ Appending'
<1>1. \A s : Stands(L, s)' => s = Standing(th, L)'
  BY Here
<1>2. list'[th] = L /\ \A u \in Thread : u # th /\ pc'[u] # "free" => list'[u] # L
  BY DEF Moves
<1>3. ASSUME NEW l \in List, NEW s, Stands(l, s)' PROVE Spells(head[l], s)'
  <2>1. CASE l = L
    <3>1. s = Standing(th, L)'
      BY <1>1, <1>3, <2>1
    <3> QED
      BY <2>1, <3>1 DEF Fits
  <2>2. CASE l # L
    BY <1>3, <2>2, Elsewhere
  <2> QED
    BY <2>1, <2>2
<1>4. Spelled'
  BY <1>3 DEF Spelled
<1>5. ASSUME NEW s, Stands(Ready, s)'
      PROVE  tail' = IF \E u \in Thread : Working(u, {"settail"}, Ready)'
                     THEN Last(queue[Ready])' ELSE Last(s)
  <2>1. CASE L = Ready
    <3>1. s = Standing(th, L)'
      BY <1>1, <1>5, <2>1
    <3>2. (\E u \in Thread : Working(u, {"settail"}, Ready)') <=> pc'[th] = "settail"
      BY <1>2, <2>1 DEF Working
    <3> QED
      BY <2>1, <3>1, <3>2 DEF Fits
  <2>2. CASE L # Ready
    <3>1. Stands(Ready, s)
      BY <1>5, <2>2, Elsewhere, ReadyIsList
    <3>2. tail' = tail /\ queue'[Ready] = queue[Ready]
      BY <2>2, ReadyIsList DEF Moves
    <3>3. \A u \in Thread : Working(u, {"settail"}, Ready)' <=> Working(u, {"settail"}, Ready)
      BY <2>2 DEF Moves, Working
    <3> QED
      BY <3>1, <3>2, <3>3 DEF ListInv, Tails, Last
  <2> QED
    BY <2>1, <2>2
<1>6. Tails'
  BY <1>5 DEF Tails
<1>7. ASSUME NEW u \in Thread
      PROVE  /\ pc'[u] \in {"link", "scan"} => next'[held'[u]] = NULL
             /\ pc'[u] = "scan" => list'[u] # Ready /\ at'[u] \in Elems(queue'[list'[u]])
             /\ pc'[u] = "settail" => list'[u] = Ready /\ queue'[Ready] # << >>
  <2>1. CASE u = th
    BY <1>2, <2>1 DEF Fits, Elems
  <2>2. CASE u # th
    <3>1. pc'[u] = pc[u] /\ held'[u] = held[u] /\ list'[u] = list[u] /\ at'[u] = at[u]
      BY <2>2 DEF Moves
    <3>2. pc[u] # "free" => list[u] # L /\ list[u] \in List /\ queue'[list[u]] = queue[list[u]]
      BY <2>2 DEF Moves, ListInv, Base, TypeOK
    <3>3. pc[u] \in {"link", "scan"} => next'[held[u]] = next[held[u]]
      <4>1. pc[u] \in {"link", "scan"} => InHand(u)
        BY DEF InHand, ListInv, Base, Locks
      <4> QED
        BY <2>2, <4>1, OthersInHand
    <3> QED
      BY <3>1, <3>2, <3>3 DEF ListInv, Appending
  <2> QED
    BY <2>1, <2>2
<1>8. Appending'
  BY <1>7 DEF Appending
<1> QED
  BY <1>4, <1>6, <1>8

(* The steps that touch no list.                                           *)
LEMMA Untouched ==
  ASSUME ListInv, UNCHANGED <<next, head, tail, pc, list, at, queue>>,
         \A u \in Thread : pc[u] # "free" => held'[u] = held[u]
  PROVE  Spelled' /\ Tails' /\ Appending'
<1>1. \A u \in Thread : \A ps, l : Working(u, ps, l)' <=> Working(u, ps, l)
  BY DEF Working
<1>2. \A l \in List : \A s : Stands(l, s)' => Stands(l, s)
  <2> SUFFICES ASSUME NEW l \in List, NEW s, Stands(l, s)' PROVE Stands(l, s)
    OBVIOUS
  <2>1. \A u \in Thread : Working(u, {"settail", "unlock"}, l) => held'[u] = held[u]
    BY DEF Working
  <2> QED
    BY <1>1, <2>1 DEF Stands
<1>3. Spelled'
  BY <1>2 DEF ListInv, Spelled, Spells
<1>4. Tails'
  BY <1>1, <1>2, ReadyIsList DEF ListInv, Tails, Last
<1>5. Appending'
  BY DEF ListInv, Appending, Elems
<1> QED
  BY <1>3, <1>4, <1>5

(***************************************************************************)
(* A step inside an operation.                                             *)
(***************************************************************************)
LEMMA AtWork ==
  ASSUME ListInv, NEW th \in Thread, pc[th] # "free"
  PROVE  /\ list[th] \in List /\ held[th] \in Task
         /\ \A u \in Thread : u # th /\ pc[u] # "free" => list[u] # list[th]
BY NoOther DEF ListInv, Base, TypeOK, Locks

LEMMA LastAppended ==
  ASSUME NEW s \in Seq(Task), NEW t \in Task
  PROVE  Last(Append(s, t)) = t
<1>1. Len(Append(s, t)) = Len(s) + 1 /\ Append(s, t)[Len(s) + 1] = t
  OBVIOUS
<1>2. Append(s, t) # << >>
  <2>1. Len(s) \in Nat /\ Len(<< >>) = 0
    OBVIOUS
  <2> QED
    BY <1>1, <2>1
<1> QED
  BY <1>1, <1>2 DEF Last

(* The last task of a queue gets a successor.                              *)
LEMMA Linked ==
  ASSUME ListInv, NEW th \in Thread, NEW L \in List, InHand(th), next[held[th]] = NULL,
         queue[L] # << >>, Spells(head[L], queue[L]),
         head' = head, next' = [next EXCEPT ![Last(queue[L])] = held[th]],
         NEW s, s = Append(queue[L], held[th])
  PROVE  Spells(head[L], s)'
<1> DEFINE q == queue[L]  n == Len(q)  t == held[th]
<1>1. /\ q \in Seq(Task) /\ n \in Nat \ {0} /\ q[n] \in Task
      /\ \A i \in 1 .. n : q[i] \in Task
  BY Queues DEF ListInv
<1>2. t \in Task /\ \A i \in 1 .. n : q[i] # t
  BY DEF InHand, ListInv, OnePlace, Base, TypeOK
<1>3. \A i \in 1 .. n - 1 : q[i] # q[n]
  BY <1>1 DEF ListInv, OnePlace
<1>4. next \in [Task -> Task \cup {NULL}] /\ next' = [next EXCEPT ![q[n]] = t]
  BY DEF ListInv, Base, TypeOK, Last
<1>5. head'[L] = q[1] /\ \A i \in 1 .. n - 1 : next[q[i]] = q[i + 1]
  BY DEF Spells
<1>6. s # << >> /\ Len(s) = n + 1 /\ s[n + 1] = t /\ \A i \in 1 .. n : s[i] = q[i]
  BY <1>1, <1>2
<1>7. next'[q[n]] = t /\ next'[t] = NULL
  BY <1>1, <1>2, <1>4
<1>8. \A i \in 1 .. n - 1 : next'[q[i]] = q[i + 1]
  BY <1>1, <1>3, <1>4, <1>5
<1> HIDE DEF q, n, t
<1>9. ASSUME NEW i \in 1 .. n PROVE next'[s[i]] = s[i + 1]
  <2>1. CASE i = n
    BY <1>1, <1>6, <1>7, <2>1
  <2>2. CASE i # n
    <3>1. i \in 1 .. n - 1 /\ i + 1 \in 1 .. n
      BY <1>1, <2>2
    <3> QED
      BY <1>6, <1>8, <3>1
  <2> QED
    BY <2>1, <2>2
<1>10. Len(s) - 1 = n /\ s[1] = q[1] /\ next'[s[Len(s)]] = NULL
  BY <1>1, <1>6, <1>7
<1> QED
  BY <1>5, <1>6, <1>9, <1>10 DEF Spells

(* The list without its first task.                                        *)
LEMMA Unlinked ==
  ASSUME ListInv, NEW L \in List, queue[L] # << >>, Spells(head[L], queue[L])
  PROVE  /\ Spells(next[queue[L][1]], Tail(queue[L]))
         /\ next[queue[L][1]] = NULL <=> Tail(queue[L]) = << >>
         /\ Tail(queue[L]) # << >> => Last(Tail(queue[L])) = Last(queue[L])
<1> DEFINE q == queue[L]  n == Len(q)  r == Tail(q)
<1>1. /\ q \in Seq(Task) /\ n \in Nat \ {0} /\ \A i \in 1 .. n : q[i] \in Task
  BY Queues DEF ListInv
<1>2. r \in Seq(Task) /\ Len(r) = n - 1 /\ \A i \in 1 .. n - 1 : r[i] = q[i + 1]
  BY <1>1
<1>3. next[q[n]] = NULL /\ \A i \in 1 .. n - 1 : next[q[i]] = q[i + 1]
  BY DEF Spells
<1> HIDE DEF q, n, r
<1>4. CASE n = 1
  <2>1. r = << >>
    BY <1>2, <1>4
  <2> QED
    BY <1>3, <1>4, <2>1 DEF Spells, q, r
<1>5. CASE n # 1
  <2>1. /\ n - 1 \in Nat \ {0} /\ 1 \in 1 .. n - 1 /\ n - 1 \in 1 .. n - 1 /\ 2 \in 1 .. n
        /\ n - 1 + 1 = n
    BY <1>1, <1>5
  <2>2. r # << >> /\ r[1] = q[2] /\ r[Len(r)] = q[n] /\ next[q[1]] = q[2]
    BY <1>2, <1>3, <2>1
  <2>3. q[2] # NULL
    BY <1>1, <2>1, ListsAssumption
  <2>4. \A i \in 1 .. Len(r) - 1 : next[r[i]] = r[i + 1]
    <3> TAKE i \in 1 .. Len(r) - 1
    <3>1. i \in 1 .. n - 1 /\ i + 1 \in 1 .. n - 1
      BY <1>1, <1>2, <2>1
    <3> QED
      BY <1>2, <1>3, <3>1
  <2> QED
    BY <1>2, <1>3, <2>2, <2>3, <2>4 DEF Spells, Last, q, n, r
<1> QED
  BY <1>4, <1>5

(* The steps of an operation at work, seen by the other lists.             *)
LEMMA InnerMoves ==
  ASSUME ListInv, NEW th \in Thread, Inner(th), NEW L \in List, L = list[th]
  PROVE  Moves(th, L)
<1>1. /\ pc \in [Thread -> Label] /\ held \in [Thread -> Task \cup {NULL}]
      /\ at \in [Thread -> Task \cup {NULL}] /\ head \in [List -> Task \cup {NULL}]
      /\ next \in [Task -> Task \cup {NULL}] /\ queue \in [List -> Seq(Task)]
  BY DEF ListInv, Base, TypeOK, Label
<1>2. list' = list /\ pc[th] # "free" /\ held[th] \in Task
  BY DEF Inner, LinkFirst, LinkTail, SetTail, ScanStart, Scan, ScanEnd, Pushed, Unlink,
         Popped, Goto, ListInv, Base, TypeOK, Locks
<1>3. \A u \in Thread : u # th => pc'[u] = pc[u] /\ held'[u] = held[u] /\ at'[u] = at[u]
  BY <1>1 DEF Inner, LinkFirst, LinkTail, SetTail, ScanStart, Scan, ScanEnd, Pushed, Unlink,
              Popped, Goto
<1>4. \A u \in Thread : u # th /\ pc[u] # "free" => list[u] # L
  BY <1>2, AtWork
<1>5. \A l \in List : l # L => queue'[l] = queue[l] /\ head'[l] = head[l]
  BY <1>1 DEF Inner, LinkFirst, LinkTail, SetTail, ScanStart, Scan, ScanEnd, Pushed, Unlink,
              NewHead, Popped, ptrVars
<1>6. L # Ready => tail' = tail
  BY DEF Inner, LinkFirst, LinkTail, SetTail, ScanStart, Scan, ScanEnd, Pushed, Unlink,
         NewHead, Popped, ptrVars, ListInv, Appending, Goto
<1>7. \A t \in Task : next'[t] = next[t] \/ t \in Elems(queue[L])
  <2>1. CASE LinkTail(th)
    <3>1. /\ L = Ready /\ head[L] # NULL /\ pc[th] = "link"
          /\ next' = [next EXCEPT ![tail] = held[th]]
      BY <2>1 DEF LinkTail, Goto
    <3>2. \A u \in Thread : ~ Working(u, {"settail", "unlock", "detach"}, L)
      BY <1>4, <3>1 DEF Working
    <3>3. queue[L] # << >>
      BY <3>1, <3>2, HeadOfQuiet
    <3>4. tail = Last(queue[L])
      <4>1. Stands(Ready, queue[Ready]) /\ ~ \E u \in Thread : Working(u, {"settail"}, Ready)
        BY <3>1, <3>2 DEF Stands, Working
      <4> QED
        BY <3>1, <4>1 DEF ListInv, Tails
    <3>5. tail \in Elems(queue[L])
      BY <1>1, <3>3, <3>4 DEF Last, Elems
    <3> QED
      BY <1>1, <3>1, <3>5
  <2>2. CASE ScanEnd(th)
    <3>1. at[th] \in Elems(queue[L]) /\ next' = [next EXCEPT ![at[th]] = held[th]]
      BY <2>2 DEF ScanEnd, Goto, ListInv, Appending
    <3> QED
      BY <1>1, <3>1
  <2>3. CASE Popped(th)
    <3>1. pc[th] = "detach" /\ next' = [next EXCEPT ![held[th]] = NULL]
      BY <2>3 DEF Popped, Goto
    <3>2. queue[L] # << >> /\ held[th] = queue[L][1]
      BY <3>1 DEF ListInv, Taking
    <3>3. held[th] \in Elems(queue[L])
      BY <1>1, <3>2 DEF Elems
    <3> QED
      BY <1>1, <3>1, <3>3
  <2>4. ASSUME ~ LinkTail(th), ~ ScanEnd(th), ~ Popped(th) PROVE next' = next
    BY <2>4 DEF Inner, LinkFirst, SetTail, ScanStart, Scan, Pushed, Unlink, ptrVars
  <2> QED
    BY <2>1, <2>2, <2>3, <2>4
<1> QED
  BY <1>2, <1>3, <1>4, <1>5, <1>6, <1>7 DEF Moves

(* ... and by its own list.                                                *)
LEMMA InnerFits ==
  ASSUME ListInv, NEW th \in Thread, Inner(th), NEW L \in List, L = list[th]
  PROVE  Fits(th, L)'
<1> DEFINE q == queue[L]  t == held[th]
<1>1. /\ pc \in [Thread -> Label] /\ held \in [Thread -> Task \cup {NULL}]
      /\ at \in [Thread -> Task \cup {NULL}] /\ head \in [List -> Task \cup {NULL}]
      /\ next \in [Task -> Task \cup {NULL}] /\ queue \in [List -> Seq(Task)]
      /\ q \in Seq(Task) /\ NULL \notin Task
  BY ListsAssumption DEF ListInv, Base, TypeOK, Label
<1>2. Fits(th, L)
  BY InnerMoves, FitsBefore
<1>3. list' = list /\ t \in Task
  BY DEF Inner, LinkFirst, LinkTail, SetTail, ScanStart, Scan, ScanEnd, Pushed, Unlink,
         Popped, Goto, ListInv, Base, TypeOK, Locks
<1>4. /\ pc[th] \in {"link", "scan", "unlink"} => Standing(th, L) = q
      /\ pc[th] \in {"settail", "unlock"} => Standing(th, L) = Append(q, t)
      /\ pc[th] = "detach" => Standing(th, L) = Tail(q)
  BY DEF Standing
<1>5. /\ pc'[th] \in {"link", "scan", "unlink", "free"} => Standing(th, L)' = queue'[L]
      /\ pc'[th] \in {"settail", "unlock"} => Standing(th, L)' = Append(queue'[L], held'[th])
      /\ pc'[th] = "detach" => Standing(th, L)' = Tail(queue'[L])
  BY DEF Standing
<1>6. pc[th] \in {"link", "settail", "scan", "unlock"} => InHand(th)
  BY <1>1, <1>3 DEF InHand
<1> HIDE DEF q, t
<1>7. ASSUME Spells(head[L], q), head[L] = NULL PROVE q = << >>
  BY <1>1, <1>7 DEF Spells
<1>8. CASE LinkFirst(th)
  <2>1. /\ head[L] = NULL /\ pc[th] = "link" /\ pc'[th] = "unlock"
        /\ head'[L] = t /\ (L = Ready => tail' = t) /\ next' = next
        /\ queue'[L] = q /\ held'[th] = t
    BY <1>1, <1>8 DEF LinkFirst, Goto, q, t
  <2>2. q = << >> /\ next[t] = NULL
    BY <1>2, <1>4, <1>7, <2>1 DEF Fits, t
  <2>3. Standing(th, L)' = Append(q, t)
    BY <1>5, <2>1
  <2>4. PICK s : s = Append(q, t)
    OBVIOUS
  <2>5. s # << >> /\ Len(s) = 1 /\ s[1] = t
    BY <1>3, <2>2, <2>4
  <2>6. Spells(head[L], s)'
    <3>1. 1 .. Len(s) - 1 = {}
      BY <2>5
    <3> QED
      BY <2>1, <2>2, <2>5, <3>1 DEF Spells
  <2>7. Last(s) = t
    BY <2>5 DEF Last
  <2> QED
    BY <2>1, <2>3, <2>4, <2>6, <2>7 DEF Fits, Spells
<1>9. CASE LinkTail(th)
  <2>1. /\ L = Ready /\ head[L] # NULL /\ pc[th] = "link" /\ pc'[th] = "settail"
        /\ next' = [next EXCEPT ![tail] = t] /\ head' = head /\ tail' = tail
        /\ queue'[L] = q /\ held'[th] = t
    BY <1>1, <1>9 DEF LinkTail, Goto, q, t
  <2>2. Spells(head[L], q) /\ next[t] = NULL /\ tail = Last(q)
    BY <1>2, <1>4, <2>1 DEF Fits, t
  <2>3. q # << >>
    BY <2>1, <2>2 DEF Spells
  <2>4. \A s : s = Standing(th, L)' => Spells(head[L], s)'
    BY <1>5, <1>6, <2>1, <2>2, <2>3, Linked DEF q, t
  <2> QED
    BY <2>1, <2>2, <2>3, <2>4 DEF Fits, Spells, q
<1>10. CASE SetTail(th)
  <2>1. /\ pc[th] = "settail" /\ pc'[th] = "unlock" /\ next' = next /\ head' = head
        /\ tail' = t /\ queue'[L] = q /\ held'[th] = t
    BY <1>1, <1>10 DEF SetTail, NewTail, Goto, q, t
  <2>2. Standing(th, L)' = Standing(th, L) /\ Standing(th, L) = Append(q, t)
    BY <1>4, <1>5, <2>1
  <2>3. Last(Append(q, t)) = t
    BY <1>1, <1>3, LastAppended
  <2> QED
    BY <1>2, <2>1, <2>2, <2>3 DEF Fits, Spells
<1>11. CASE ScanStart(th)
  <2>1. /\ L # Ready /\ head[L] # NULL /\ pc[th] = "link" /\ pc'[th] = "scan"
        /\ at'[th] = head[L] /\ next' = next /\ head' = head /\ queue'[L] = q /\ held'[th] = t
    BY <1>1, <1>11 DEF ScanStart, ptrVars, Goto, q, t
  <2>2. Standing(th, L)' = Standing(th, L) /\ Standing(th, L) = q
    BY <1>4, <1>5, <2>1
  <2>3. q # << >> /\ head[L] = q[1]
    BY <1>2, <2>1, <2>2 DEF Fits, Spells
  <2>4. head[L] \in Elems(q)
    BY <1>1, <2>3 DEF Elems
  <2> QED
    BY <1>2, <2>1, <2>2, <2>4 DEF Fits, Spells, q, t, Elems
<1>12. CASE Scan(th)
  <2>1. /\ pc[th] = "scan" /\ pc' = pc /\ next[at[th]] # NULL
        /\ at'[th] = next[at[th]] /\ next' = next /\ head' = head /\ queue'[L] = q /\ held'[th] = t
    BY <1>1, <1>12 DEF Scan, ptrVars, Goto, q, t
  <2>2. Standing(th, L)' = Standing(th, L) /\ Standing(th, L) = q
    BY <1>4, <1>5, <2>1
  <2>3. PICK i \in 1 .. Len(q) : at[th] = q[i]
    BY <1>1, <1>2, <2>1 DEF Fits, Elems, q
  <2>4. i # Len(q)
    BY <1>2, <2>1, <2>2, <2>3 DEF Fits, Spells
  <2>5. i \in 1 .. Len(q) - 1 /\ i + 1 \in 1 .. Len(q)
    BY <1>1, <2>4
  <2>6. next[at[th]] = q[i + 1]
    BY <1>2, <2>2, <2>3, <2>5 DEF Fits, Spells
  <2>7. at'[th] \in Elems(q)
    BY <1>1, <2>1, <2>5, <2>6 DEF Elems
  <2> QED
    BY <1>2, <2>1, <2>2, <2>7 DEF Fits, Spells, q, t, Elems
<1>13. CASE ScanEnd(th)
  <2>1. /\ pc[th] = "scan" /\ pc'[th] = "unlock" /\ next[at[th]] = NULL
        /\ next' = [next EXCEPT ![at[th]] = t] /\ head' = head /\ queue'[L] = q /\ held'[th] = t
    BY <1>1, <1>13 DEF ScanEnd, Goto, q, t
  <2>2. Spells(head[L], q) /\ next[t] = NULL /\ L # Ready
    BY <1>2, <1>4, <2>1 DEF Fits, t
  <2>3. PICK i \in 1 .. Len(q) : at[th] = q[i]
    BY <1>1, <1>2, <2>1 DEF Fits, Elems, q
  <2>4. i = Len(q)
    <3> SUFFICES ASSUME i # Len(q) PROVE FALSE
      OBVIOUS
    <3>1. i \in 1 .. Len(q) - 1 /\ i + 1 \in 1 .. Len(q)
      BY <1>1
    <3>2. next[at[th]] = q[i + 1] /\ q[i + 1] \in Task
      BY <1>1, <2>2, <2>3, <3>1 DEF Spells
    <3> QED
      BY <1>1, <2>1, <3>2
  <2>5. q # << >> /\ at[th] = Last(q)
    BY <1>1, <2>3, <2>4 DEF Last
  <2>6. \A s : s = Standing(th, L)' => Spells(head[L], s)'
    BY <1>5, <1>6, <2>1, <2>2, <2>5, Linked DEF q, t
  <2> QED
    BY <2>1, <2>2, <2>6 DEF Fits, Spells
<1>14. CASE Pushed(th)
  <2>1. /\ pc[th] = "unlock" /\ pc'[th] = "free" /\ next' = next /\ head' = head
        /\ tail' = tail /\ queue'[L] = Append(q, t)
    BY <1>1, <1>14 DEF Pushed, Goto, ptrVars, q, t
  <2>2. Standing(th, L)' = Standing(th, L)
    BY <1>4, <1>5, <2>1
  <2> QED
    BY <1>2, <2>1, <2>2 DEF Fits, Spells
<1>15. CASE Unlink(th)
  <2>1. /\ pc[th] = "unlink" /\ pc'[th] = "detach" /\ next' = next
        /\ head'[L] = next[t] /\ queue'[L] = q
        /\ L = Ready => tail' = IF next[t] = NULL THEN NULL ELSE tail
    BY <1>1, <1>15 DEF Unlink, NewHead, Goto, q, t
  <2>2. q # << >> /\ t = q[1]
    BY <2>1 DEF ListInv, Taking, q, t
  <2>3. Spells(head[L], q) /\ (L = Ready => tail = Last(q))
    BY <1>2, <1>4, <2>1 DEF Fits
  <2>4. /\ Spells(next[t], Tail(q)) /\ (next[t] = NULL <=> Tail(q) = << >>)
        /\ Tail(q) # << >> => Last(Tail(q)) = Last(q)
    BY <2>2, <2>3, Unlinked DEF q
  <2>5. Standing(th, L)' = Tail(q)
    BY <1>5, <2>1
  <2>6. Last(<< >>) = NULL
    BY DEF Last
  <2> QED
    BY <2>1, <2>3, <2>4, <2>5, <2>6 DEF Fits, Spells
<1>16. CASE Popped(th)
  <2>1. /\ pc[th] = "detach" /\ pc'[th] = "free" /\ next' = [next EXCEPT ![t] = NULL]
        /\ head' = head /\ tail' = tail /\ queue'[L] = Tail(q)
    BY <1>1, <1>16, PoppedTail DEF Popped, Goto, q, t
  <2>2. q # << >> /\ t = q[1]
    BY <2>1 DEF ListInv, Taking, q, t
  <2>3. Standing(th, L)' = Standing(th, L) /\ Standing(th, L) = Tail(q)
    BY <1>4, <1>5, <2>1
  <2>4. Tail(q) \in Seq(Task) /\ \A i \in 1 .. Len(Tail(q)) :
          i + 1 \in 1 .. Len(q) /\ Tail(q)[i] = q[i + 1]
    BY <1>1, <2>2
  <2>5. \A i \in 1 .. Len(Tail(q)) : Tail(q)[i] # t
    <3> TAKE i \in 1 .. Len(Tail(q))
    <3>1. i + 1 \in 1 .. Len(q) /\ Tail(q)[i] = q[i + 1] /\ 1 \in 1 .. Len(q)
      BY <1>1, <2>2, <2>4
    <3> QED
      BY <2>2, <3>1 DEF ListInv, OnePlace, q
  <2>6. \A i \in 1 .. Len(Tail(q)) : next'[Tail(q)[i]] = next[Tail(q)[i]]
    BY <1>1, <2>1, <2>4, <2>5
  <2>7. Spells(head[L], Tail(q))
    BY <1>2, <2>3 DEF Fits
  <2>8. Len(Tail(q)) \in Nat /\ (Tail(q) = << >> <=> Len(Tail(q)) = 0)
    <3>1. \A s \in Seq(Task) : Len(s) \in Nat /\ (s = << >> <=> Len(s) = 0)
      OBVIOUS
    <3> QED
      BY <2>4, <3>1
  <2>9. \A s : s = Tail(q) => Spells(head[L], s)'
    BY <2>1, <2>6, <2>7, <2>8, SameSpelling
  <2>10. \A s : s = Standing(th, L)' => Spells(head[L], s)'
    BY <2>3, <2>9
  <2> QED
    BY <1>2, <2>1, <2>3, <2>10 DEF Fits, Spells
<1> QED
  BY <1>8, <1>9, <1>10, <1>11, <1>12, <1>13, <1>14, <1>15, <1>16 DEF Inner

(***************************************************************************)
(* A step that starts an operation, while nobody works on its list.        *)
(***************************************************************************)
LEMMA PushLists ==
  ASSUME ListInv, NEW th \in Thread, NEW L \in List, Push(th, L)
  PROVE  Spelled' /\ Tails' /\ Appending'
<1> DEFINE q == queue[L]  t == held[th]
<1>1. /\ pc \in [Thread -> Label] /\ next \in [Task -> Task \cup {NULL}]
      /\ list \in [Thread -> List] /\ q \in Seq(Task)
  BY DEF ListInv, Base, TypeOK, Label
<1>2. /\ pc[th] = "free" /\ pc'[th] = "link" /\ t \in Task /\ list'[th] = L
      /\ next' = [next EXCEPT ![t] = NULL]
      /\ UNCHANGED <<head, tail, held, at, queue>>
      /\ \A u \in Thread : u # th => pc'[u] = pc[u] /\ list'[u] = list[u]
  BY <1>1 DEF Push, Goto, ListInv, Base, TypeOK
<1>3. \A u \in Thread : u # th /\ pc[u] # "free" => list[u] # L
  BY <1>2, QuietWhenAcquired, <1>1 DEF Push, ListInv, Working
<1>4. InHand(th)
  BY <1>2, ListsAssumption DEF InHand
<1>5. \A u \in Task : u # t => next'[u] = next[u]
  BY <1>1, <1>2
<1>6. Moves(th, L)
  BY <1>2, <1>3, <1>4, <1>5 DEF Moves
<1>7. Standing(th, L) = q /\ Standing(th, L)' = q
  BY <1>2 DEF Standing
<1>8. \A i \in 1 .. Len(q) : q[i] # t /\ q[i] \in Task
  BY <1>1, <1>4 DEF ListInv, OnePlace
<1> HIDE DEF q, t
<1>9. Spells(head[L], q) /\ (L = Ready => tail = Last(q))
  BY <1>2, <1>6, <1>7, FitsBefore DEF Fits
<1>10. Len(q) \in Nat /\ (q = << >> <=> Len(q) = 0)
  BY <1>1
<1>11. \A s : s = q => Spells(head[L], s)'
  BY <1>2, <1>5, <1>8, <1>9, <1>10, SameSpelling
<1>12. next'[t] = NULL
  BY <1>1, <1>2
<1>13. Fits(th, L)'
  BY <1>2, <1>7, <1>9, <1>11, <1>12 DEF Fits, Spells, t
<1> QED
  BY <1>6, <1>13, FitsAfter

LEMMA PopLists ==
  ASSUME ListInv, NEW th \in Thread, NEW L \in List, Pop(th, L)
  PROVE  Spelled' /\ Tails' /\ Appending'
<1> DEFINE q == queue[L]
<1>1. /\ pc \in [Thread -> Label] /\ held \in [Thread -> Task \cup {NULL}]
      /\ list \in [Thread -> List]
  BY DEF ListInv, Base, TypeOK, Label
<1>2. /\ pc[th] = "free" /\ pc'[th] = "unlink" /\ list'[th] = L
      /\ UNCHANGED <<next, head, tail, at, queue>>
      /\ \A u \in Thread : u # th =>
           pc'[u] = pc[u] /\ list'[u] = list[u] /\ held'[u] = held[u]
  BY <1>1 DEF Pop, ptrVars, Goto
<1>3. \A u \in Thread : u # th /\ pc[u] # "free" => list[u] # L
  BY <1>2, QuietWhenAcquired, <1>1 DEF Pop, ListInv, Working
<1>4. Moves(th, L)
  BY <1>2, <1>3 DEF Moves
<1>5. Standing(th, L) = q /\ Standing(th, L)' = q
  BY <1>2 DEF Standing
<1>6. Fits(th, L)'
  BY <1>2, <1>4, <1>5, FitsBefore DEF Fits, Spells
<1> QED
  BY <1>4, <1>6, FitsAfter

LEMMA ListNext == ListInv /\ [Next]_vars => ListInv'
<1> SUFFICES ASSUME ListInv, [Next]_vars PROVE ListInv'
  OBVIOUS
<1>1. Base' /\ OnePlace' /\ Taking'
  BY BaseNext, OnePlaceNext DEF ListInv
<1>2. ASSUME NEW th \in Thread, Inner(th) PROVE Spelled' /\ Tails' /\ Appending'
  <2>1. PICK L \in List : L = list[th]
    BY DEF ListInv, Base, TypeOK
  <2>2. Moves(th, L) /\ Fits(th, L)'
    BY <1>2, <2>1, InnerMoves, InnerFits
  <2> QED
    BY <2>2, FitsAfter
<1>3. ASSUME NEW th \in Thread, \E t \in Task : Create(th, t)
      PROVE  Spelled' /\ Tails' /\ Appending'
  <2>1. /\ UNCHANGED <<next, head, tail, pc, list, at, queue>> /\ pc[th] = "free"
        /\ \A u \in Thread : u # th => held'[u] = held[u]
    BY <1>3 DEF Create, ptrVars, ListInv, Base, TypeOK
  <2> QED
    BY <2>1, Untouched
<1>4. ASSUME NEW th \in Thread, Closed(th) \/ \E c \in Chan : Close(th, c)
      PROVE  Spelled' /\ Tails' /\ Appending'
  BY <1>4, Untouched DEF Close, Closed, ptrVars
<1>5. ASSUME (\E l \in List : WalkStart(l)) \/ WalkStep \/ WalkEnd \/ UNCHANGED vars
      PROVE  Spelled' /\ Tails' /\ Appending'
  BY <1>5, Untouched DEF WalkStart, WalkStep, WalkEnd, vars, ptrVars
<1>6. Spelled' /\ Tails' /\ Appending'
  BY <1>2, <1>3, <1>4, <1>5, PushLists, PopLists DEF Next, Operate
<1> QED
  BY <1>1, <1>6 DEF ListInv

LEMMA ListInvImplies == ListInv => ListsRepresentQueues
<1> SUFFICES ASSUME ListInv PROVE ListsRepresentQueues
  OBVIOUS
<1>1. ASSUME NEW l \in List, Quiet(l)
      PROVE  Stands(l, queue[l]) /\ ~ \E th \in Thread : Working(th, {"settail"}, l)
  BY <1>1 DEF Stands, Quiet, Working
<1>2. \A l \in List : Quiet(l) => Spells(head[l], queue[l])
  BY <1>1 DEF ListInv, Spelled
<1>3. Quiet(Ready) => tail = Last(queue[Ready])
  BY <1>1, ReadyIsList DEF ListInv, Tails
<1> QED
  BY <1>2, <1>3 DEF ListsRepresentQueues, Last, ListInv, Base

(* Between the operations on a list, its pointers spell the tasks that     *)
(* were appended to it and not yet taken, in the order of sched_enqueue    *)
(* and blocked_enqueue, and ready_tail is the last of them: whatever other *)
(* threads do meanwhile to other lists through the same next field.        *)
THEOREM ListsStandForQueues == Spec => []ListsRepresentQueues
<1>1. ListInv => ListsRepresentQueues
  BY ListInvImplies
<1> QED
  BY <1>1, InitLists, ListNext, PTL DEF Spec
=============================================================================
