------------------------------ MODULE Analyzers ------------------------------
(***************************************************************************)
(* The passes between the parser and the type checker:                     *)
(* src/capture_analyzer.cpp gives every lambda the variables it captures,  *)
(* src/class_analyzer.cpp every class its fields, in the order of its      *)
(* struct, and src/escape_analyzer.cpp the assignments whose value may be  *)
(* allocated on the stack.                                                 *)
(***************************************************************************)
EXTENDS Naturals, SequencesExt, FiniteSetsExt, TLC, Expressions

\* The fields of an expression that hold one, or several, expressions.
One  == {"l", "r", "e", "f", "o", "i", "b", "c", "a", "it"}
Many == {"as", "es", "ks", "vs"}
Parts(e) == {e[f] : f \in One \cap DOMAIN e} \cup UNION {Range(e[f]) : f \in Many \cap DOMAIN e}
Rebuilt(e, F(_)) ==
  [f \in DOMAIN e |-> IF f \in One THEN F(e[f])
                      ELSE IF f \in Many THEN [i \in DOMAIN e[f] |-> F(e[f][i])] ELSE e[f]]

-----------------------------------------------------------------------------
(***************************************************************************)
(* Captures.  defined holds the names of every active scope.               *)
(***************************************************************************)
RECURSIVE Free(_, _), Annotated(_, _, _), Walk(_, _, _), WalkList(_, _)

\* The names used; a lambda passes on those that are defined nowhere.
Free(e, defined) ==
  CASE e.x = "name"     -> {e.n}
    [] e.x = "lambda"   -> (Free(e.b, defined) \ Range(e.ps)) \ defined
    [] e.x = "comp"     -> Free(e.it, defined) \cup (Free(e.b, defined) \ {e.v})
    [] e.x = "dictcomp" -> Free(e.it, defined) \cup ((Free(e.a, defined) \cup Free(e.b, defined)) \ {e.v})
    [] e.x \in {"go", "recv"} -> {}
    [] OTHER            -> UNION {Free(p, defined) : p \in Parts(e)}

Annotated(e, defined, again) ==
  LET rest(p) == Annotated(p, defined, again)
      caps == (Free(e.b, defined) \ Range(e.ps)) \cap defined
  IN  CASE e.x = "lambda" -> [e EXCEPT !.b = rest(@), !.caps = caps, !.refs = caps \cap again]
        [] e.x \in {"go", "recv", "none"} -> e
        [] OTHER -> Rebuilt(e, rest)

\* The names assigned at least twice in one statement list.
AssignedAgain(list) ==
  LET names == SelectSeq(list, LAMBDA s : s.s = "assign" /\ s.g.x = "name")
  IN  {names[i].g.n : i \in {j \in DOMAIN names : \E k \in 1 .. j - 1 : names[k].g.n = names[j].g.n}}

W(s, d) == [s |-> s, d |-> d]
WalkList(list, defined) ==
  FoldLeft(LAMBDA a, s : LET w == Walk(s, a.d, AssignedAgain(list)) IN W(Append(a.s, w.s), w.d),
           W(<<>>, defined), list)

ParamNames(ps) == {ps[i].n : i \in DOMAIN ps}

\* Constants, with, match, assert, del and send are not visited.
Walk(s, defined, again) ==
  LET expr(e) == Annotated(e, defined, again)
      in(list, names) == WalkList(list, defined \cup names).s
      own == {s.n} \cup ParamNames(s.ps)
  IN  CASE s.s = "assign" ->
             LET d == defined \cup (IF s.g.x = "name" THEN {s.g.n} ELSE {})
             IN  W([s EXCEPT !.e = Annotated(@, d, again)], d)
        [] s.s \in {"expr", "return", "throw"} -> W([s EXCEPT !.e = expr(@)], defined)
        [] s.s = "unpack" -> W([s EXCEPT !.e = expr(@)], defined \cup Range(s.ns))
        [] s.s = "func"   -> W([s EXCEPT !.b = in(@, own)], defined \cup {s.n})
        [] s.s = "init"   -> W([s EXCEPT !.b = in(@, ParamNames(s.ps))], defined)
        [] s.s = "class"  -> W([s EXCEPT !.b = in(@, {s.n, "this", "super"})], defined \cup {s.n})
        [] s.s = "if"     -> W([s EXCEPT !.c = expr(@), !.a = in(@, {}), !.b = in(@, {})], defined)
        [] s.s = "for"    -> W([s EXCEPT !.it = expr(@), !.b = in(@, {s.v})], defined)
        [] s.s = "while"  -> W([s EXCEPT !.c = expr(@), !.b = in(@, {})], defined)
        [] s.s = "try"    -> W([s EXCEPT !.a = in(@, {}), !.b = in(@, {s.n}), !.f = in(@, {})], defined)
        [] OTHER          -> W(s, defined)

Declared == {"func", "class"}
\* Mutant: every builtin is a name a lambda may capture.
WithBuiltins(program) ==
  WalkList(program, {"print", "len", "str", "int", "input"} \cup
           {program[i].n : i \in {j \in DOMAIN program : program[j].s \in Declared}}).s
WithCaptures(program) ==
  WalkList(program, {"print"} \cup
           {program[i].n : i \in {j \in DOMAIN program : program[j].s \in Declared}}).s

-----------------------------------------------------------------------------
(***************************************************************************)
(* Fields: those of the first base, then every this.f that is assigned in  *)
(* init and the methods, in order.  A class without fields is not there.   *)
(***************************************************************************)
RECURSIVE FieldsIn(_), FieldsOf(_, _, _)
FieldsIn(list) ==
  FlattenSeq([i \in DOMAIN list |->
    LET s == list[i]
    IN  CASE s.s \in {"init", "func", "for", "while"} -> FieldsIn(s.b)
          [] s.s = "if"  -> FieldsIn(s.a) \o FieldsIn(s.b)
          [] s.s = "try" -> FieldsIn(s.a) \o FieldsIn(s.b) \o FieldsIn(s.f)
          [] s.s = "assign" -> IF s.g.x = "member" /\ (s.g.o = This \/ s.g.o = Name("self"))
                               THEN <<s.g.m>> ELSE <<>>
          [] OTHER -> <<>>])

\* Mutant: a class puts its own fields first.
FieldsOfReversed(n, defs, processed) ==
  LET from == IF n \in processed \/ n \notin DOMAIN defs THEN <<>>
              ELSE FieldsIn(defs[n].b) \o FieldsOf(defs[n].base, defs, processed \cup {n})
  IN  FoldLeft(LAMBDA a, f : IF f \in Range(a) THEN a ELSE Append(a, f), <<>>, from)

FieldsOf(n, defs, processed) ==
  LET from == IF n \in processed \/ n \notin DOMAIN defs THEN <<>>
              ELSE FieldsOf(defs[n].base, defs, processed \cup {n})
                   \o FieldsIn(defs[n].b)
  IN  FoldLeft(LAMBDA a, f : IF f \in Range(a) THEN a ELSE Append(a, f), <<>>, from)

ClassesOf(program) ==
  LET classes == SelectSeq(program, LAMBDA s : s.s = "class")
  IN  [n \in {classes[i].n : i \in DOMAIN classes} |->
         classes[Max({i \in DOMAIN classes : classes[i].n = n})]]

ClassFields(program) ==
  LET defs == ClassesOf(program)
  IN  [n \in {m \in DOMAIN defs : FieldsOf(m, defs, {}) # <<>>} |-> FieldsOf(n, defs, {})]

-----------------------------------------------------------------------------
(***************************************************************************)
(* Escapes.  The analyzer is a record:                                     *)
(*   site     varMap_: variable -> the allocation it was last assigned     *)
(*   stack    the allocations still held to be local                       *)
(*   loop     loopDepth_;  yields   isYieldingFunction_;  fn  the function *)
(***************************************************************************)
RECURSIVE Visit(_, _), Scan(_, _), ScanList(_, _)

MarkEscaped(n, a) == IF n \in DOMAIN a.site THEN [a EXCEPT !.stack = @ \ {a.site[n]}] ELSE a
MarkName(e, a)    == IF e.x = "name" THEN MarkEscaped(e.n, a) ELSE a
\* Mutant: an argument of a call is not marked.
MarkNone(es, a)   == FoldLeft(LAMBDA b, e : Visit(e, b), a, es)
MarkAll(es, a)    == FoldLeft(LAMBDA b, e : Visit(e, MarkName(e, b)), a, es)
VisitAll(es, a)   == FoldLeft(LAMBDA b, e : Visit(e, b), a, es)

\* The other expressions are not looked into.
Visit(e, a) ==
  CASE e.x = "call"   -> Visit(e.f, MarkAll(e.as, a))
    [] e.x \in {"list", "tuple"} -> VisitAll(e.es, a)
    [] e.x = "dict"   -> VisitAll(e.vs, VisitAll(e.ks, a))
    [] e.x = "lambda" -> FoldLeft(LAMBDA b, n : MarkEscaped(n, b), Visit(e.b, a), SetToSeq(e.caps))
    [] e.x = "member" -> Visit(e.o, a)
    [] e.x = "go"     -> MarkAll(e.as, Visit(e.f, [a EXCEPT !.yields = TRUE]))
    [] e.x = "recv"   -> Visit(e.e, [a EXCEPT !.yields = TRUE])
    [] OTHER          -> a

Allocates(e) == e.x \in {"list", "dict", "tuple", "call"} \/ (e.x = "lambda" /\ e.caps # {})

RegisterAlloc(site, n, a) ==
  IF a.loop > 0 \/ a.yields THEN MarkEscaped(n, [a EXCEPT !.stack = @ \ {site}])
  ELSE [a EXCEPT !.site = (n :> site) @@ @, !.stack = @ \cup {site}]

ScanAssign(s, a) ==
  LET v == Visit(s.e, a)
  IN  IF s.g.x # "name" THEN v
      ELSE IF Allocates(s.e) THEN RegisterAlloc(<<a.fn, s.g.n, s.e>>, s.g.n, v)
      ELSE IF s.e.x = "name" /\ s.e.n \in DOMAIN v.site
      THEN [v EXCEPT !.site = (s.g.n :> v.site[s.e.n]) @@ @]
      ELSE v

InLoop(body, a) == [ScanList(body, [a EXCEPT !.loop = @ + 1]) EXCEPT !.loop = a.loop]

\* A function starts without variables; whether it yields is inherited.
ScanFunc(s, a) ==
  LET b == ScanList(s.b, [a EXCEPT !.site = << >>, !.fn = <<s.n>>])
  IN  [b EXCEPT !.site = a.site, !.fn = a.fn, !.yields = a.yields]

Scan(s, a) ==
  CASE s.s = "assign" -> ScanAssign(s, a)
    [] s.s = "return" -> IF s.e = NoExpr THEN a ELSE Visit(s.e, MarkName(s.e, a))
    [] s.s \in {"expr", "throw"} -> Visit(s.e, a)
    [] s.s = "if"     -> ScanList(s.b, ScanList(s.a, Visit(s.c, a)))
    [] s.s = "for"    -> InLoop(s.b, Visit(s.it, a))
    [] s.s = "while"  -> InLoop(s.b, Visit(s.c, a))
    [] s.s = "try"    -> ScanList(s.f, ScanList(s.b, ScanList(s.a, a)))
    [] s.s = "match"  -> ScanList(s.b, Visit(s.e, a))
    [] s.s = "send"   -> Visit(s.e, Visit(s.ch, [a EXCEPT !.yields = TRUE]))
    [] s.s = "func"   -> ScanFunc(s, a)
    [] OTHER          -> a

ScanList(list, a) == FoldLeft(LAMBDA b, s : Scan(s, b), a, list)

\* Only the functions of the file are analysed; methods and main are not.
StackAllocatable(program) ==
  ScanList(SelectSeq(program, LAMBDA s : s.s = "func"),
           [site |-> << >>, stack |-> {}, loop |-> 0, yields |-> FALSE, fn |-> <<"main">>]).stack
=============================================================================
