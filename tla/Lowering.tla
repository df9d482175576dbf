------------------------------ MODULE Lowering ------------------------------
(***************************************************************************)
(* src/codegen.cpp, statements: the control-flow graph a function body is  *)
(* lowered to.  Emission threads the state of the Codegen object through   *)
(* the statements: the blocks, the insertion point cur, the scopes (env),  *)
(* loopStack_ with loopElseAllocas_ (loops), landingpadStack_ (pads), the  *)
(* generator's tracked variables and resume blocks, and the block that     *)
(* computed lastExceptionVal_ (last).  Types and values are left out.      *)
(***************************************************************************)
EXTENDS Source, SequencesExt

CONSTANTS Undef, TRACE_DEPTH
M == INSTANCE Machine

Blk(s, j)     == Len(s.bb) + j
NewBlocks(s, n) == [s EXCEPT !.bb = @ \o [i \in 1..n |-> M!EmptyBlock]]
At(s, b)      == [s EXCEPT !.cur = b]
Open(s)       == s.bb[s.cur].term = M!NoTerm
Emit(s, i)    == IF Open(s) THEN [s EXCEPT !.bb[s.cur].code = Append(@, i)]
                            ELSE [s EXCEPT !.bad = TRUE]
Term(s, t)    == IF Open(s) THEN [s EXCEPT !.bb[s.cur].term = t]
                            ELSE [s EXCEPT !.bad = TRUE]
Jump(s, b)    == IF Open(s) THEN Term(s, M!Br(b)) ELSE s
Use(s, d)     == [s EXCEPT !.uses = @ \cup {<<d, s.cur>>}]
NewCell(s)    == [s EXCEPT !.cells = @ + 1]     \* the new cell is s.cells + 1
Pad(s)        == IF s.pads = <<>> THEN 0 ELSE Last(s.pads)
Op1(op, c)    == [op |-> op, c |-> c]
\* What follows an emission: F of the state it left.
Then(s, F(_)) == F(s)

\* A new alloca under the name v, tracked when inside a generator.
DeclareVar(s, v) ==
  LET c == s.cells + 1
  IN  [NewCell(s) EXCEPT !.env[v] = c,
                         !.tracked = IF s.gen THEN Append(@, c) ELSE @]

-----------------------------------------------------------------------------
(***************************************************************************)
(* Which functions are generators.  The else branch of a loop is not       *)
(* looked at.                                                              *)
(***************************************************************************)
RECURSIVE ContainsYield(_)
ContainsYield(list) ==
  \E i \in DOMAIN list :
    LET s == list[i]
    IN  \/ s.k = "yield"
        \/ s.k \in {"while", "for", "with"} /\ ContainsYield(s.a)
        \/ s.k \in {"if", "try", "match"} /\
           \E j \in DOMAIN Bodies(s) : ContainsYield(Bodies(s)[j])

-----------------------------------------------------------------------------
RECURSIVE Gen(_, _), GenList(_, _), GenArms(_, _, _, _), GenClauses(_, _, _),
          GenCases(_, _, _, _, _, _)

\* Mutant: emission goes on behind a return.
GenListOn(list, s) ==
  IF s.bad \/ list = <<>> THEN s ELSE GenList(Tail(list), Gen(Head(list), s))

\* Emission stops at the first statement that closes the current block.
GenList(list, s) ==
  IF s.bad \/ list = <<>> THEN s
  ELSE Then(Gen(Head(list), s), LAMBDA t : IF Open(t) THEN GenList(Tail(list), t) ELSE t)

\* pushScope, the statements, popScope.
Scoped(list, s) == [GenList(list, s) EXCEPT !.env = s.env]

(***************************************************************************)
(* if / elsif / else: a chain of tests that all meet in the merge block.   *)
(***************************************************************************)
GenArms(arms, els, merge, s) ==
  IF arms = <<>> THEN Jump(Scoped(els, s), merge)
  ELSE LET more == Tail(arms) # <<>> \/ els # <<>>
           then == Blk(s, 1)
           next == IF more THEN Blk(s, 2) ELSE merge
           s1   == Term(NewBlocks(s, IF more THEN 2 ELSE 1),
                        M!Cond(s.env["x"], arms[1].n, then, next))
           s2   == Jump(Scoped(arms[1].a, At(s1, then)), merge)
       IN  IF more THEN GenArms(Tail(arms), els, merge, At(s2, next)) ELSE s2

GenIf(n, s) ==
  LET merge == Blk(s, 1)
  IN  At(GenArms(n.arms, n.b, merge, NewBlocks(s, 1)), merge)

(***************************************************************************)
(* Loops.  flag is the didBreak cell of a loop with an else, or 0; head    *)
(* and exit are the targets of continue and break.                         *)
(***************************************************************************)
Flagged(n, s) ==
  IF n.b = <<>> THEN s
  ELSE Emit(NewCell(s), [op |-> "set", c |-> s.cells + 1, e |-> 0])
Flag(n, s) == IF n.b = <<>> THEN 0 ELSE s.cells + 1

LoopBody(list, s, head, exit, flag) ==
  LET t == GenList(list, [s EXCEPT !.loops = Append(@, <<head, exit, flag>>)])
  IN  [t EXCEPT !.loops = s.loops]

GenElse(n, s, flag) ==
  IF n.b = <<>> THEN s
  ELSE LET els == Blk(s, 1)  after == Blk(s, 2)
           s1 == Term(NewBlocks(s, 2), M!Cond(flag, 1, els, after))
       IN  At(Jump(Scoped(n.b, At(s1, els)), after), after)

GenWhile(n, s0) ==
  LET s == Flagged(n, s0)  flag == Flag(n, s0)
      cond == Blk(s, 1)  body == Blk(s, 2)  exit == Blk(s, 3)
      s1 == Term(NewBlocks(s, 3), M!Br(cond))
      s2 == Term(At(s1, cond), M!Cond(s.env["x"], n.n, body, exit))
      s3 == Jump(LoopBody(n.a, At(s2, body), cond, exit, flag), cond)
  IN  GenElse(n, At([s3 EXCEPT !.env = s.env], exit), flag)

(* An index cell counts to the bound that block def computed (0: a literal):
   strings, the keys of a dict, lists, and integers.  The increment stands at
   the end of the body.  Neither the index nor the bound is a declared
   variable, so a generator does not save them. *)
GenCounted(n, s, def, flag) ==
  LET idx == s.cells + 1
      cond == Blk(s, 1)  body == Blk(s, 2)  exit == Blk(s, 3)
      s1 == Term(Emit(NewCell(NewBlocks(s, 3)), [op |-> "set", c |-> idx, e |-> 0]),
                 M!Br(cond))
      Bound(t) == IF def = 0 THEN t ELSE Use(t, def)
      s2 == Term(Bound(At(s1, cond)), M!Cond(idx, n.n, body, exit))
      s3 == DeclareVar(Bound(At(s2, body)), "y")
      s4 == Emit(s3, [op |-> "copy", c |-> s3.cells, e |-> idx])
      Counted(t) == IF Open(t) THEN Term(Emit(t, Op1("inc", idx)), M!Br(cond)) ELSE t
  IN  At([Counted(LoopBody(n.a, s4, cond, exit, flag)) EXCEPT !.env = s.env], exit)

(* An iterator object (a class with __next__, a generator) keeps its own
   position; the head asks for the next value and tests for the sentinel. *)
GenIterated(n, s, def, flag) ==
  LET o == s.objs + 1
      cond == Blk(s, 1)  body == Blk(s, 2)  exit == Blk(s, 3)
      s1 == Term([NewBlocks(s, 3) EXCEPT !.objs = o], M!Br(cond))
      s2 == DeclareVar(Use(At(s1, cond), def), "y")
      s3 == Term(s2, [t |-> "next", o |-> o, n |-> n.n, cell |-> s2.cells,
                      yes |-> body, no |-> exit])
      s4 == Jump(LoopBody(n.a, At(s3, body), cond, exit, flag), cond)
  IN  At([s4 EXCEPT !.env = s.env], exit)

(* A pointer of unknown type: the body is emitted three times, and the tag of
   the value chooses when the loop runs. *)
GenTagged(n, s, flag) ==
  LET def == s.cur
      dict == Blk(s, 1)  notDict == Blk(s, 2)  gen == Blk(s, 3)
      notGen == Blk(s, 4)  skip == Blk(s, 5)
      Tag(is, yes, no) == [t |-> "tag", n |-> is, yes |-> yes, no |-> no]
      s1 == Term(NewBlocks(s, 5), Tag(n.it = "dict", dict, notDict))
      s2 == Term(GenCounted(n, At(s1, dict), dict, flag), M!Br(skip))
      s3 == Term(Use(At(s2, notDict), def), Tag(n.it = "gen", gen, notGen))
      s4 == IF s2.bad THEN s2 ELSE Term(GenIterated(n, At(s3, gen), def, flag), M!Br(skip))
      s5 == IF s4.bad THEN s4
            ELSE Term(GenCounted(n, At(s4, notGen), notGen, flag), M!Br(skip))
  IN  At(s5, skip)

GenFor(n, s0) ==
  LET flag == Flag(n, s0)
      s == IF n.it \in {"gen", "obj"}
           THEN Emit(Flagged(n, s0), Op1("newiter", s0.objs + 1)) ELSE Flagged(n, s0)
      exit == CASE n.it = "obj" -> GenIterated(n, s, s.cur, flag)
                [] n.it = "str" -> GenCounted(n, s, s.cur, flag)
                [] n.it = "int" -> GenCounted(n, s, 0, flag)
                [] n.it \in {"list", "dict", "gen"} -> GenTagged(n, s, flag)
  IN  GenElse(n, exit, flag)

\* Mutant: the else of the loop is not told.
GenBreakSilent(s) == IF s.loops = <<>> THEN s ELSE Term(s, M!Br(Last(s.loops)[2]))

GenBreak(s) ==
  IF s.loops = <<>> THEN s
  ELSE LET l == Last(s.loops)
       IN  Term(IF l[3] = 0 THEN s ELSE Emit(s, [op |-> "set", c |-> l[3], e |-> 1]),
                M!Br(l[2]))

GenContinue(s) == IF s.loops = <<>> THEN s ELSE Term(s, M!Br(Last(s.loops)[1]))

-----------------------------------------------------------------------------
(***************************************************************************)
(* return and yield.  In a generator a return marks it exhausted; a yield  *)
(* saves the variables tracked so far, names the next state, returns, and  *)
(* emission goes on in the block that state resumes at.                    *)
(***************************************************************************)
\* Mutant: a return leaves the entry of the traceback.
GenReturnBare(n, s) ==
  IF s.gen THEN Term(Emit(s, [op |-> "state", c |-> 0, e |-> -1]), M!Ret)
  ELSE Term(IF n.e = "" THEN s ELSE Emit(s, [op |-> "event", c |-> 0, e |-> n.e]), M!Ret)

GenReturn(n, s0) ==
  LET s == Emit(s0, Op1("tbpop", 0))
  IN  IF s.gen THEN Term(Emit(s, [op |-> "state", c |-> 0, e |-> -1]), M!Ret)
      ELSE LET s1 == IF s.kind = "main" THEN Emit(s, Op1("shutdown", 0)) ELSE s
           IN  Term(IF n.e = "" \/ s.void THEN s1
                    ELSE Emit(s1, [op |-> "event", c |-> 0, e |-> n.e]), M!Ret)

GenYield(n, s) ==
  IF ~s.gen THEN s
  ELSE LET k == Len(s.resume)                      \* nextState
           ret == Blk(s, 1)  next == Blk(s, 2)
           s1 == Emit(s, [op |-> "put", c |-> s.env[n.v], e |-> "yield"])
           s2 == Emit(s1, [op |-> "save", c |-> 0, e |-> s.tracked])
           s3 == Term(Emit(NewBlocks(s2, 2), [op |-> "state", c |-> 0, e |-> k]), M!Br(ret))
           s4 == [Term(At(s3, ret), M!Ret) EXCEPT !.resume = Append(@, next)]
       IN  Emit(At(s4, next), [op |-> "restore", c |-> 0, e |-> s.tracked])

-----------------------------------------------------------------------------
(***************************************************************************)
(* Exceptions.                                                             *)
(***************************************************************************)
\* __cxa_throw: invoked under the innermost landing pad, called outside.
GenThrow(c, s) ==
  IF s.pads = <<>> THEN Term(s, M!Throwing(c, 0, 0))
  ELSE LET cont == Blk(s, 1)
       IN  Term(At(Term(NewBlocks(s, 1), M!Throwing(c, cont, Pad(s))), cont),
                M!Unreachable)

\* The message of the last catch emitted, thrown again without its class.
GenRethrow(s) == GenThrow("", IF s.last = 0 THEN s ELSE Use(s, s.last))

\* emitCallOrInvoke.  (A call outside try ends the block too, to give it an
\* edge out of the function.)
GenCall(c, s) ==
  LET cont == Blk(s, 1)
  IN  At(Term(NewBlocks(s, 1), M!Calling(c, s.env["x"], cont, Pad(s))), cont)

RECURSIVE TypeChain(_)
TypeChain(t) == IF t = "" THEN <<>> ELSE <<t>> \o TypeChain(BaseOf[t])

\* One strcmp per name of the chain; the last miss falls to nomatch.
RECURSIVE GenClassTests(_, _, _, _)
GenClassTests(chain, match, nomatch, s) ==
  IF chain = <<>> THEN Term(s, M!Br(nomatch))
  ELSE LET no == Blk(s, 1)
       IN  GenClassTests(Tail(chain), match, nomatch,
             At(Term(NewBlocks(s, 1), [t |-> "class", n |-> chain[1], yes |-> match, no |-> no]),
                no))

GenClauses(cs, exit, s) ==
  IF cs = <<>> THEN s
  ELSE LET c == Head(cs)  last == Tail(cs) = <<>>
       IN  IF c.t # ""
           THEN LET match == Blk(s, 1)  nomatch == Blk(s, 2)
                    s1 == GenClassTests(TypeChain(c.t), match, nomatch, NewBlocks(s, 2))
                    s2 == At(Jump(Scoped(c.a, At(s1, match)), exit), nomatch)
                IN  IF last THEN Term(Emit(s2, Op1("end", 0)), M!Br(exit))
                            ELSE GenClauses(Tail(cs), exit, s2)
           ELSE LET s1 == Jump(Scoped(c.a, s), exit)
                    skip == Blk(s1, 1)
                IN  IF last THEN s1
                            ELSE GenClauses(Tail(cs), exit, At(NewBlocks(s1, 1), skip))

LandingPad(s, b) == [At(s, b) EXCEPT !.lpads = @ \cup {b}]
UnderPad(s, b)   == [s EXCEPT !.pads = Append(@, b)]

GenTry(n, s0) ==
  LET hasCatch == n.cs # <<>>
      hasFinally == n.f # <<>>
      lpad == Blk(s0, 1)  exit == Blk(s0, 2)
      norm == Blk(s0, 3)  clean == Blk(s0, 4)
      after == IF hasFinally THEN norm ELSE exit
      saved == s0.cells + 1
      s1 == NewCell(NewBlocks(s0, IF ~hasFinally THEN 2 ELSE IF hasCatch THEN 3 ELSE 4))
      s2 == Jump([Scoped(n.a, UnderPad(s1, lpad)) EXCEPT !.pads = s0.pads], after)
      s3 == LandingPad(s2, lpad)
      s4 == IF hasCatch
            THEN LET b  == [Emit(s3, Op1("begin", 0)) EXCEPT !.last = lpad]
                     cx == Blk(b, 1)
                     t  == At(GenClauses(n.cs, cx, NewBlocks(b, 1)), cx)
                 IN  Jump(Emit(t, Op1("end", 0)), after)
            ELSE Term(Emit(s3, Op1("saveexc", saved)), M!Br(clean))
      s5 == IF hasFinally THEN Jump(Scoped(n.f, At(s4, norm)), exit) ELSE s4
      s6 == IF hasFinally /\ ~hasCatch
            THEN LET t == Scoped(n.f, At(s5, clean))
                 IN  IF Open(t) THEN Term(t, M!Resume(saved)) ELSE t
            ELSE s5
  IN  At(s6, exit)

GenWith(n, s0) ==
  LET ctx == s0.cells + 1  saved == s0.cells + 2
      s  == Emit(Emit(NewCell(NewCell(s0)), [op |-> "set", c |-> ctx, e |-> 1]),
                 [op |-> "event", c |-> 0, e |-> "enter"])
      lpad == Blk(s, 1)  norm == Blk(s, 2)  clean == Blk(s, 3)  exit == Blk(s, 4)
      s1 == [Scoped(n.a, UnderPad(NewBlocks(s, 4), lpad)) EXCEPT !.pads = s.pads]
      s2 == LandingPad(Jump(s1, norm), lpad)
      s3 == Term(Emit(s2, Op1("saveexc", saved)), M!Br(clean))
      s4 == Term(Emit(At(s3, norm), Op1("exit", ctx)), M!Br(exit))
      s5 == Term(Emit(At(s4, clean), Op1("exit", ctx)), M!Resume(saved))
  IN  At(s5, exit)

-----------------------------------------------------------------------------
GenAssert(n, s) ==
  LET fail == Blk(s, 1)  pass == Blk(s, 2)
      s1 == Term(NewBlocks(s, 2), M!Cond(s.env["x"], n.n, pass, fail))
      s2 == Term(Emit(At(s1, fail), Op1("halt", 0)), M!Unreachable)
  IN  At(s2, pass)

(* match: the subject is copied once, then one test per case; a guard that
   fails goes on with the next case. *)
GenCases(cs, subj, def, i, merge, s) ==
  IF i > Len(cs) THEN s
  ELSE LET c == cs[i]
           last == i = Len(cs)
           k == IF last THEN 1 ELSE 2
           body == Blk(s, 1)
           miss == IF last THEN merge ELSE Blk(s, 2)
           guard == Blk(s, k + 1)
           hit == IF c.g = -1 THEN body ELSE guard
           s1 == NewBlocks(s, IF c.g = -1 THEN k ELSE k + 1)
           s2 == Term(IF c.p = -1 THEN s1 ELSE Use(s1, def),
                      IF c.p = -1 THEN M!Br(hit)
                      ELSE [t |-> "equal", cell |-> subj, n |-> c.p, yes |-> hit, no |-> miss])
           s3 == IF c.g = -1 THEN s2
                 ELSE Term(At(s2, guard), M!Cond(s.env["x"], c.g, body, miss))
           s4 == Jump(Scoped(c.a, At(s3, body)), merge)
       IN  GenCases(cs, subj, def, i + 1, merge, IF last THEN s4 ELSE At(s4, miss))

GenMatch(n, s) ==
  IF n.cs = <<>> THEN s
  ELSE LET subj == s.cells + 1
           merge == Blk(s, 1)
           s1 == Emit(NewCell(NewBlocks(s, 1)), [op |-> "copy", c |-> subj, e |-> s.env["x"]])
       IN  At(GenCases(n.cs, subj, s.cur, 1, merge, s1), merge)

\* An assignment stores to the variable the scopes know, or declares it.
GenLet(n, s) ==
  LET t == IF s.env[n.v] = 0 THEN DeclareVar(s, n.v) ELSE s
  IN  Emit(t, [op |-> "copy", c |-> t.env[n.v], e |-> t.env["x"]])

Gen(n, s) ==
  CASE n.k = "act"      -> Emit(s, [op |-> "event", c |-> 0, e |-> n.e])
    [] n.k = "put"      -> Emit(s, [op |-> "put", c |-> s.env[n.v], e |-> n.v])
    [] n.k = "inc"      -> Emit(s, Op1("inc", s.env["x"]))
    [] n.k = "let"      -> GenLet(n, s)
    [] n.k = "pass"     -> s
    [] n.k = "break"    -> GenBreak(s)
    [] n.k = "continue" -> GenContinue(s)
    [] n.k = "return"   -> GenReturn(n, s)
    [] n.k = "yield"    -> GenYield(n, s)
    [] n.k = "throw"    -> GenThrow(n.c, s)
    [] n.k = "rethrow"  -> GenRethrow(s)
    [] n.k = "call"     -> GenCall(n.c, s)
    [] n.k = "assert"   -> GenAssert(n, s)
    [] n.k = "if"       -> GenIf(n, s)
    [] n.k = "while"    -> GenWhile(n, s)
    [] n.k = "for"      -> GenFor(n, s)
    [] n.k = "try"      -> GenTry(n, s)
    [] n.k = "with"     -> GenWith(n, s)
    [] n.k = "match"    -> GenMatch(n, s)

-----------------------------------------------------------------------------
(***************************************************************************)
(* The function.  x is its parameter, cell 1.                              *)
(***************************************************************************)
(* kind: a "function" of the program, its "main", a "generator", or a body that
   the generator of classes and of generic instances emits by itself ("bare": a
   method, a static method, an init or an instance of a generic function). *)
Empty(kind, void) ==
  [bb |-> <<M!EmptyBlock>>, cur |-> M!Entry, bad |-> FALSE, cells |-> 1,
   env |-> [x |-> 1, y |-> 0, z |-> 0], loops |-> <<>>, pads |-> <<>>, lpads |-> {},
   uses |-> {}, kind |-> kind, gen |-> kind = "generator", void |-> void, objs |-> 0,
   last |-> 0, tracked |-> IF kind = "generator" THEN <<1>> ELSE <<>>, resume |-> <<>>, slots |-> 0]

\* __resume: dispatch on the state, the body from state 0, the exhausted block.
LowerGenerator(body) ==
  LET s0 == NewBlocks(Empty("generator", FALSE), 3)
      dispatch == 2  done == 3  first == 4
      s1 == Term(s0, M!Br(dispatch))
      s2 == [Term(At(s1, dispatch), M!Switch(done)) EXCEPT !.resume = <<first>>]
      s3 == GenList(body, Emit(At(s2, first), [op |-> "restore", c |-> 0, e |-> <<1>>]))
      Left(t) == IF Open(t) THEN Term(Emit(t, Op1("tbpop", 0)), M!Br(done)) ELSE t
      Exhausted(t) == Term(Emit(At(t, done), [op |-> "state", c |-> 0, e |-> -1]), M!Ret)
  IN  Then(Exhausted(Left(s3)), LAMBDA t : [t EXCEPT !.slots = Len(t.tracked)])

LowerFunction(body, kind, void) ==
  LET Left(t) == Emit(t, Op1("tbpop", 0))
      Ended(t) == IF kind = "main" THEN Emit(t, Op1("shutdown", 0)) ELSE t
  IN  Then(GenList(body, Emit(Empty(kind, void), Op1("tbpush", 0))),
           LAMBDA t : IF Open(t) THEN Term(Ended(Left(t)), M!Ret) ELSE t)

\* No entry of the traceback, at either end; a yield makes no generator of it.
LowerBare(body, void) ==
  Then(GenList(body, Empty("bare", void)), LAMBDA t : IF Open(t) THEN Term(t, M!Ret) ELSE t)

Lower(body, kind, void) ==
  CASE kind = "bare"       -> LowerBare(body, void)
    [] ContainsYield(body) -> LowerGenerator(body)
    [] OTHER               -> LowerFunction(body, kind, void)
=============================================================================
