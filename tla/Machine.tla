------------------------------ MODULE Machine -------------------------------
(***************************************************************************)
(* The control-flow graph a function is lowered to and what running it     *)
(* does.  LLVM, the unwinder and the C++ runtime are not part of the       *)
(* repository: only the instructions src/codegen.cpp emits are given a     *)
(* meaning here, the one their documentation gives.  A function is a       *)
(* sequence of blocks; a block has code and one terminator.  Cells are     *)
(* allocas: they are undefined when a call of the function starts.         *)
(***************************************************************************)
EXTENDS Integers, Sequences

CONSTANTS
  Undef,                    \* the content of a cell nothing was stored to
  TRACE_DEPTH               \* VSL_TRACEBACK_DEPTH

Entry == 1
NoTerm == [t |-> "none"]
EmptyBlock == [code |-> <<>>, term |-> NoTerm]

Br(b)             == [t |-> "br", to |-> b]
Cond(c, n, y, no) == [t |-> "cond", cell |-> c, n |-> n, yes |-> y, no |-> no]
Switch(d)         == [t |-> "switch", done |-> d]
Ret               == [t |-> "ret"]
Unreachable       == [t |-> "unreachable"]
Resume(c)         == [t |-> "resume", cell |-> c]
\* A call that may unwind: to the block pad, or out of the function when pad = 0.
\* (op "call": a function that throws when the cell is positive; next = 0: none.)
Throwing(c, next, pad)    == [t |-> "invoke", op |-> "throw", c |-> c, next |-> next, pad |-> pad]
Calling(c, x, next, pad)  == [t |-> "invoke", op |-> "call", c |-> c, cell |-> x,
                              next |-> next, pad |-> pad]

Targets(fn, b) ==
  LET m == fn.bb[b].term
  IN  CASE m.t = "br"     -> {m.to}
        [] m.t = "cond"   -> {m.yes, m.no}
        [] m.t \in {"class", "equal"} -> {m.yes, m.no}
        [] m.t = "tag"    -> {m.yes, m.no}
        [] m.t = "next"   -> {m.yes, m.no}
        [] m.t = "switch" -> {m.done} \cup {fn.resume[i] : i \in DOMAIN fn.resume}
        [] m.t = "invoke" -> {m.next, m.pad} \ {0}
        [] OTHER          -> {}

\* Blocks reachable from b without passing through the blocks of avoid.
RECURSIVE Closure(_, _, _)
Closure(fn, seen, avoid) ==
  LET more == (UNION {Targets(fn, b) : b \in seen}) \ (seen \cup avoid)
  IN  IF more = {} THEN seen ELSE Closure(fn, seen \cup more, avoid)

Dominates(fn, d, u) ==
  d = u \/ d = Entry \/ u \notin Closure(fn, {Entry}, {d})

(***************************************************************************)
(* The verifier (llvm::verifyModule): nothing follows a terminator, every  *)
(* block has one, a landing pad is entered by unwinding only, and a value  *)
(* is computed on every path to its uses.                                  *)
(***************************************************************************)
Verifies(fn) ==
  /\ ~fn.bad
  /\ \A b \in DOMAIN fn.bb : fn.bb[b].term # NoTerm
  /\ \A b \in DOMAIN fn.bb :
       /\ fn.bb[b].term.t = "invoke" => fn.bb[b].term.next \notin fn.lpads
       /\ fn.bb[b].term.t \in {"br", "cond", "class", "equal", "tag", "next"} =>
            Targets(fn, b) \cap fn.lpads = {}
  /\ \A u \in fn.uses :
       u[2] \in Closure(fn, {Entry}, {}) => Dominates(fn, u[1], u[2])
-----------------------------------------------------------------------------
(***************************************************************************)
(* Running it.  m: the cells of this call, the trace out, the exception in *)
(* flight exc, the handlers entered and not left (caught), the names on    *)
(* the traceback (tb; those of the callers were there before), whether the *)
(* collector is shut down, the state and slots of the generator context,   *)
(* how far the iterators obj got, the blocks left to run (fuel), the block *)
(* it is at, and how it ended.                                             *)
(***************************************************************************)
Say(m, e) == [m EXCEPT !.out = Append(@, e), !.late = @ \/ m.down]

\* cells[i] <- slots[i] for the tracked cells, and back.
RestoreCells(m, tracked) ==
  [m EXCEPT !.cell = [c \in DOMAIN @ |->
     IF \E i \in DOMAIN tracked : tracked[i] = c
     THEN m.slots[CHOOSE i \in DOMAIN tracked : tracked[i] = c] ELSE @[c]]]
SaveCells(m, tracked) ==
  [m EXCEPT !.slots = [i \in DOMAIN @ |->
     IF i \in DOMAIN tracked THEN m.cell[tracked[i]] ELSE @[i]]]

\* How many names the traceback has afterwards: push drops the new name at the
\* limit.
TracebackPush(names) == IF names < TRACE_DEPTH THEN names + 1 ELSE names
TracebackPop(names)  == IF names > 0 THEN names - 1 ELSE 0

Step(m, i) ==
  CASE i.op = "event"    -> Say(m, i.e)
    [] i.op = "put"      -> Say(m, <<i.e, m.cell[i.c]>>)
    [] i.op = "exit"     -> IF m.cell[i.c] = Undef THEN [m EXCEPT !.end = <<"undefined">>]
                            ELSE Say(m, "exit")
    [] i.op = "set"      -> [m EXCEPT !.cell[i.c] = i.e]
    [] i.op = "copy"     -> [m EXCEPT !.cell[i.c] = m.cell[i.e]]
    [] i.op = "inc"      -> [m EXCEPT !.cell[i.c] = IF @ = Undef THEN Undef ELSE @ + 1]
    [] i.op = "newiter"  -> [m EXCEPT !.obj[i.c] = 0]
    [] i.op = "saveexc"  -> [m EXCEPT !.cell[i.c] = m.exc]
    [] i.op = "begin"    -> [m EXCEPT !.caught = Append(@, m.exc)]
    [] i.op = "end"      -> [m EXCEPT !.caught = IF @ = <<>> THEN @ ELSE SubSeq(@, 1, Len(@) - 1)]
    [] i.op = "tbpush"   -> [m EXCEPT !.tb = TracebackPush(@)]
    [] i.op = "tbpop"    -> [m EXCEPT !.tb = TracebackPop(@)]
    [] i.op = "shutdown" -> [m EXCEPT !.down = TRUE]
    [] i.op = "halt"     -> [m EXCEPT !.end = <<"halt">>]
    [] i.op = "save"     -> SaveCells(m, i.e)
    [] i.op = "restore"  -> RestoreCells(m, i.e)
    [] i.op = "state"    -> [m EXCEPT !.state = i.e]

Running == <<"running">>

RECURSIVE Code(_, _)
Code(m, code) == IF code = <<>> \/ m.end # Running THEN m
                 ELSE Code(Step(m, Head(code)), Tail(code))

Goto(m, b) == [m EXCEPT !.at = b]
Stop(m, e) == [m EXCEPT !.end = e]

\* The block m.at and its terminator.
Advance(fn, m0) ==
  LET m == Code([m0 EXCEPT !.fuel = @ - 1], fn.bb[m0.at].code)
      k == fn.bb[m0.at].term
  IN  IF m.end # Running THEN m
      ELSE IF m0.fuel = 0 THEN Stop(m, <<"long">>)
      ELSE
      CASE k.t = "br"     -> Goto(m, k.to)
        [] k.t = "cond"   -> IF m.cell[k.cell] = Undef THEN Stop(m, <<"undefined">>)
                             ELSE Goto(m, IF m.cell[k.cell] < k.n THEN k.yes ELSE k.no)
        [] k.t = "equal"  -> Goto(m, IF m.cell[k.cell] = k.n THEN k.yes ELSE k.no)
        [] k.t = "class"  -> Goto(m, IF m.exc = k.n THEN k.yes ELSE k.no)
        [] k.t = "tag"    -> Goto(m, IF k.n THEN k.yes ELSE k.no)
        [] k.t = "next"   -> IF m.obj[k.o] < k.n
                             THEN [m EXCEPT !.cell[k.cell] = m.obj[k.o], !.obj[k.o] = @ + 1,
                                            !.at = k.yes]
                             ELSE Goto(m, k.no)
        [] k.t = "switch" -> Goto(m, IF m.state + 1 \in DOMAIN fn.resume
                                     THEN fn.resume[m.state + 1] ELSE k.done)
        [] k.t = "ret"    -> Stop(m, <<"done">>)
        [] k.t = "unreachable" -> Stop(m, <<"undefined">>)
        [] k.t = "resume" -> Stop(m, <<"throw", m.cell[k.cell]>>)
        [] k.t = "invoke" ->
             LET said == IF k.op = "call" THEN Say(m, "call") ELSE m
             IN  IF k.op = "call" /\ ~(m.cell[k.cell] > 0) THEN Goto(said, k.next)
                 ELSE IF k.pad = 0 THEN Stop([said EXCEPT !.exc = k.c], <<"throw", k.c>>)
                 ELSE Goto([said EXCEPT !.exc = k.c], k.pad)

\* The function called with its parameter, cell 1, equal to x, by callers of
\* which the traceback has so many names.  A generator gets a context with the
\* parameter in its first slot instead.
Called(fn, x, fuel, callers) ==
  [cell |-> [c \in 1..fn.cells |-> IF c = 1 /\ ~fn.gen THEN x ELSE Undef],
   out |-> <<>>, exc |-> "", caught |-> <<>>, tb |-> callers, callers |-> callers, down |-> FALSE,
   late |-> FALSE, state |-> 0, fuel |-> fuel, end |-> Running, at |-> Entry,
   obj |-> [o \in 1..fn.objs |-> 0],
   slots |-> [i \in 1..fn.slots |-> IF i = 1 THEN x ELSE 0]]

\* __visuall_gen_next, until the generator is exhausted.
Exhausted(m) == m.state < 0
NextCall(fn, m) ==
  [m EXCEPT !.cell = [c \in 1..fn.cells |-> Undef], !.end = Running, !.at = Entry]
=============================================================================
