--------------------------- MODULE Representation ---------------------------
(***************************************************************************)
(* src/codegen.cpp, expressions and the statements that declare names: the *)
(* LLVM type of every value, the stack cell of every variable, and the     *)
(* instructions that would be ill typed.  An expression's LLVM type is     *)
(* "i64", "dbl", "i1", "ptr" or "clo" (the closure pair).  The generator   *)
(* is a record threaded through the visitors:                              *)
(*   scopes   name -> [r |-> type of the cell, of |-> type last stored,    *)
(*            fn |-> function of the cell]                                 *)
(*   strs, clos, vcls   stringVars_, closureVars_, varClass_: by name only *)
(*   boxed    boxedVars_: name -> type of the value in the box             *)
(*   globals  moduleGlobals_                                               *)
(*   funs     declared functions, constructors and methods included        *)
(*   bases, fields, ftypes   classes: bases, fields, types of fields       *)
(*   stack    assignments whose value may live on the stack                *)
(*   shown    the types of the values given to print                       *)
(*   bad      instructions no module verifies with, and CodegenErrors      *)
(*   mis      cells read as another type than was stored, calls left out   *)
(***************************************************************************)
EXTENDS Naturals, SequencesExt, FiniteSetsExt, TLC, Expressions

V(r, g)       == [r |-> r, g |-> g]
Bad(g, why)   == [g EXCEPT !.bad = @ \cup {why}]
BadIf(p, g, why) == IF p THEN Bad(g, why) ELSE g
Mis(g, why)   == [g EXCEPT !.mis = @ \cup {why}]
Put(f, n, v)  == (n :> v) @@ f

\* getLLVMType.
RepOf(t, g) ==
  CASE t.k = "int" -> "i64" [] t.k = "float" -> "dbl" [] t.k = "bool" -> "i1"
    [] t.k \in {"str", "list", "dict", "tuple"} -> "ptr"
    [] t.k = "func" -> "clo"
    [] t.k = "class" -> IF t.n \in DOMAIN g.fields THEN "ptr" ELSE "i64"
    [] OTHER -> "i64"

\* ---------------------------------------------------------------- cells
Push(g) == [g EXCEPT !.scopes = Append(@, << >>)]
Pop(g)  == [g EXCEPT !.scopes = Front(@)]
\* A new stack cell of the current function, in the innermost scope.
NewCell(n, r, of, g) ==
  [g EXCEPT !.scopes[Len(g.scopes)] = Put(@, n, [r |-> r, of |-> of, fn |-> g.fn])]
ScopeOf(n, g) == Max({0} \cup {i \in DOMAIN g.scopes : n \in DOMAIN g.scopes[i]})
Cell(n, g)    == g.scopes[ScopeOf(n, g)][n]

\* A module variable has a cell and a global; a later assignment reaches one.
Copies(g, n) ==
  IF n \in g.again /\ n \in g.reads THEN Mis(g, "two copies of a variable") ELSE g

Read(n, g) ==
  IF ScopeOf(n, g) = 0
  THEN IF <<n>> \in DOMAIN g.funs THEN V("ptr", g) ELSE V("i64", Bad(g, "unknown variable"))
  ELSE LET c == Cell(n, g)
       IN  IF c.fn # g.fn
           THEN IF n \in DOMAIN g.globals
                THEN V(g.globals[n], Copies([g EXCEPT !.reads = @ \cup {n}], n))
                ELSE V(c.r, Mis([g EXCEPT !.globals = Put(@, n, c.r)], "unset global"))
           ELSE IF n \in DOMAIN g.boxed
           THEN V(IF g.boxed[n] = "none" THEN "i64" ELSE g.boxed[n], g)
           ELSE V(c.r, IF c.r = c.of THEN g ELSE Mis(g, "converted cell"))

\* ---------------------------------------------------------------- conversions
Int64(v)   == IF v.r = "clo" THEN Bad(v.g, "closure as integer") ELSE v.g    \* coerceToI64
Truth(v)   == IF v.r = "clo" THEN Bad(v.g, "closure as bool") ELSE v.g       \* toBool
NoDouble(r) == r \in {"ptr", "clo"}                   \* what promoteToDouble cannot take

\* An argument for a parameter: int to float, bool and pointers to int.
Passes(r, p) == r = p \/ (p = "dbl" /\ r \in {"i64", "i1"}) \/ (p = "i64" /\ r \in {"i1", "ptr"})

RECURSIVE IsStr(_, _)
IsStr(e, g) ==
  \/ e.x = "lit" /\ e.t \in {"str", "fstring"}
  \/ e.x = "name" /\ e.n \in g.strs
  \/ e.x = "bin" /\ e.op = "Add" /\ (IsStr(e.l, g) \/ IsStr(e.r, g))

\* The class a variable is known to hold.
ClassOf(e, g) ==
  CASE e.x = "name" /\ e.n \in DOMAIN g.vcls -> g.vcls[e.n]
    [] e.x = "this"  -> g.cls
    [] e.x = "super" -> g.base
    [] OTHER -> ""

\* The classes to search for a method, breadth first; the first that has it.
RECURSIVE FindMethod(_, _, _, _)
\* Mutant: the last base is searched first.
FindMethodLast(queue, seen, m, g) ==
  IF queue = <<>> THEN ""
  ELSE LET c == Head(queue)
       IN  IF c \in seen THEN FindMethod(Tail(queue), seen, m, g)
           ELSE IF <<c, m>> \in DOMAIN g.funs THEN c
           ELSE FindMethod(Tail(queue) \o (IF c \in DOMAIN g.bases THEN Reverse(g.bases[c]) ELSE <<>>),
                           seen \cup {c}, m, g)
FindMethod(queue, seen, m, g) ==
  IF queue = <<>> THEN ""
  ELSE LET c == Head(queue)
       IN  IF c \in seen THEN FindMethod(Tail(queue), seen, m, g)
           ELSE IF <<c, m>> \in DOMAIN g.funs THEN c
           ELSE FindMethod(Tail(queue) \o (IF c \in DOMAIN g.bases THEN g.bases[c] ELSE <<>>),
                           seen \cup {c}, m, g)

-----------------------------------------------------------------------------
(***************************************************************************)
(* Expressions.  Gen(e, g) is codegenExpr.                                 *)
(***************************************************************************)
RECURSIVE Gen(_, _), GenAll(_, _), GenStmt(_, _), GenList(_, _)

GenAll(es, g) ==
  IF es = <<>> THEN [rs |-> <<>>, g |-> g]
  ELSE Then(Gen(Head(es), g), LAMBDA h :
         Then(GenAll(Tail(es), h.g), LAMBDA t : [rs |-> <<h.r>> \o t.rs, g |-> t.g]))

LitRep(t) == CASE t = "int" -> "i64" [] t = "float" -> "dbl" [] t = "bool" -> "i1" [] OTHER -> "ptr"

Method(op) == CASE op = "Add" -> "__add__" [] op = "Sub" -> "__sub__" [] op = "Eq" -> "__eq__"
                [] op = "Neq" -> "__neq__" [] op = "Lt" -> "__lt__" [] OTHER -> "none"
Result(f) == IF f.ret = "void" THEN "i64" ELSE f.ret

\* in, on anything without __contains__: both the dict and the list path
\* are emitted, whatever is searched.
GenIn(l, r, g) ==
  V("i1", IF r # "ptr" THEN g
          ELSE BadIf(l = "clo", BadIf(l \in {"dbl", "i1"}, g, "key to str"), "closure as integer"))

\* Mutant: a floor division of floats is not turned back into an integer.
GenFloatDiv(op, l, r, g) ==
  LET p == BadIf(NoDouble(l) \/ NoDouble(r), g, "float operand")
  IN  CASE op \in {"Add", "Sub", "IntDiv"} -> V("dbl", p)
        [] op \in {"Eq", "Neq", "Lt"} -> V("i1", p)
        [] OTHER                      -> V("i64", Bad(p, "bits of a float"))

GenFloatOp(op, l, r, g) ==
  LET p == BadIf(NoDouble(l) \/ NoDouble(r), g, "float operand")
  IN  CASE op \in {"Add", "Sub"}      -> V("dbl", p)
        [] op = "IntDiv"              -> V("i64", p)
        [] op \in {"Eq", "Neq", "Lt"} -> V("i1", p)
        [] OTHER                      -> V("i64", Bad(p, "bits of a float"))

GenIntOp(op, l, r, g) ==
  LET m == BadIf(l # r, g, "operand types")
  IN  CASE op = "Coalesce" -> V("i64", BadIf(l = "clo" \/ r = "clo", g, "closure as integer"))
        [] op \in {"Eq", "Neq", "Lt"} -> V("i1", BadIf(l = "clo", m, "closure compared"))
        [] OTHER -> V(l, BadIf(l \in {"ptr", "clo"}, m, "pointer arithmetic"))

\* The operator, of operands already there.
GenOperator(e, l, r, g) ==
  LET has == IF e.r.x = "name" /\ e.r.n \in DOMAIN g.vcls THEN <<g.vcls[e.r.n], "__contains__">> ELSE <<>>
      over == IF e.l.x = "name" /\ e.l.n \in DOMAIN g.vcls THEN <<g.vcls[e.l.n], Method(e.op)>> ELSE <<>>
  IN  IF e.op \in {"And", "Or"}
      THEN V("i1", BadIf(l = "clo" \/ r = "clo", g, "closure as bool"))
      ELSE IF over \in DOMAIN g.funs
      THEN V(Result(g.funs[over]), BadIf(g.funs[over].ps # <<l, r>>, g, "argument type"))
      ELSE IF l = "ptr" /\ r = "ptr" /\ e.op \in {"Eq", "Neq"} THEN V("i1", g)
      ELSE IF l = "ptr" /\ r = "ptr" /\ e.op = "Add" /\ IsStr(e, g) THEN V("ptr", g)
      ELSE IF e.op = "In" /\ has \in DOMAIN g.funs
      THEN V("i1", BadIf(g.funs[has].ps # <<r, l>>, g, "argument type"))
      ELSE IF e.op = "In" THEN GenIn(l, r, g)
      ELSE IF "dbl" \in {l, r} THEN GenFloatOp(e.op, l, r, g)
      ELSE GenIntOp(e.op, l, r, g)
GenBin(e, g) == Then(GenAll(<<e.l, e.r>>, g), LAMBDA as : GenOperator(e, as.rs[1], as.rs[2], as.g))

GenUn(e, g) == Then(Gen(e.e, g), LAMBDA v :
  CASE e.op = "Not" -> V("i1", Truth(v))
    [] e.op = "Neg" -> V(v.r, BadIf(v.r \in {"ptr", "clo"}, v.g, "negation"))
    [] e.op = "BitNot" -> V(v.r, BadIf(v.r \notin {"i64", "i1"}, v.g, "bits of a float")))

\* Arguments of a declared function; missing ones take the defaults as they are.
Arguments(rs, f, g) ==
  LET n == Len(rs)
      missing == {i \in n + 1 .. Len(f.ps) : f.ds[i] = NoExpr}
      d == GenAll([i \in 1 .. (IF n < Len(f.ps) THEN Len(f.ps) - n ELSE 0) |->
                     IF f.ds[n + i] = NoExpr THEN Lit("int") ELSE f.ds[n + i]], g)
  IN  IF missing # {} THEN Bad(g, "too few arguments")
      ELSE BadIf(\/ n > Len(f.ps)
                 \/ \E i \in DOMAIN rs : i <= Len(f.ps) /\ ~Passes(rs[i], f.ps[i])
                 \/ \E i \in DOMAIN d.rs : d.rs[i] # f.ps[n + i], d.g, "argument type")

Builtin == {"len", "str", "int", "input", "isinstance", "make_chan"}
GenBuiltin(n, as, g) ==
  Then(GenAll(IF n = "isinstance" THEN SubSeq(as, 1, 1) ELSE as, g), LAMBDA a :
    CASE n \in {"len", "int"} -> V("i64", a.g)
      [] n = "str"        -> V("ptr", a.g)
      [] n = "input"      -> V("ptr", BadIf(Range(a.rs) \ {"ptr"} # {}, a.g, "argument type"))
      [] n = "make_chan"  -> V("ptr", BadIf(a.rs # <<"i64">>, a.g, "argument type"))
      [] n = "isinstance" -> V("i1", a.g))

\* An instance on the stack: arguments are evaluated, init is not found.
GenLocalObject(as, g) ==
  LET a == GenAll(as, g)
  IN  V("i64", BadIf("clo" \in Range(a.rs), Mis(a.g, "init not called"), "closure as integer"))

Declared(f, ps, this, g) ==
  [ret |-> IF f.r = NoType \/ f.r.k = "void" THEN "void" ELSE RepOf(f.r, g),
   ps  |-> this \o [i \in DOMAIN ps |-> IF ps[i].t = NoType THEN "i64" ELSE RepOf(ps[i].t, g)],
   ds  |-> [i \in DOMAIN this |-> NoExpr] \o [i \in DOMAIN ps |-> ps[i].d]]

\* The body of a function, a method or an init, in a scope of its own.
GenBody(name, ret, ns, rs, body, boxed, g) ==
  LET in == [Push(g) EXCEPT !.fn = name, !.ret = ret, !.boxed = boxed]
      ps == FoldLeft(LAMBDA a, i : NewCell(ns[i], rs[i], rs[i], a), in, [i \in DOMAIN ns |-> i])
      b == GenList(body, [ps EXCEPT !.clos = @ \cup {ns[i] : i \in {j \in DOMAIN ns : rs[j] = "clo"}}])
  IN  [Pop(b) EXCEPT !.fn = g.fn, !.ret = g.ret, !.boxed = g.boxed]

Names(ps) == [i \in DOMAIN ps |-> ps[i].n]

\* A generic function is emitted once for each list of type arguments.
Substituted(d, ts, t) ==
  LET is == {i \in DOMAIN d.tps : i <= Len(ts) /\ t = [k |-> "typevar", n |-> d.tps[i]]}
  IN  IF is = {} THEN t ELSE ts[Max(is)]
Mangled(n, ts) == <<n>> \o [i \in DOMAIN ts |-> ts[i].k]
Instantiate(name, ts, g) ==
  LET d == g.generic[name]
      ps == [i \in DOMAIN d.ps |-> [d.ps[i] EXCEPT !.t = Substituted(d, ts, @)]]
      f == Declared([r |-> Substituted(d, ts, d.r)], ps, <<>>, g)
      h == [g EXCEPT !.funs = Put(@, Mangled(name, ts), f)]
  IN  IF Mangled(name, ts) \in DOMAIN g.funs THEN g
      ELSE GenBody(Mangled(name, ts), f.ret, Names(ps), f.ps, d.b, g.boxed, h)

CallNamed(e, name, g) ==
  IF name \notin DOMAIN g.funs THEN V("i64", Bad(g, "unknown function"))
  ELSE Then(GenAll(e.as, g), LAMBDA a : V(Result(g.funs[name]), Arguments(a.rs, g.funs[name], a.g)))
\* A variable that holds a closure hides a function of its name.
GenNamedCall(e, g) ==
  IF e.f.n \in g.clos /\ ScopeOf(e.f.n, g) # 0
  THEN Then(GenAll(e.as, g), LAMBDA a : V("i64", BadIf(Range(a.rs) \ {"i64"} # {}, a.g, "argument type")))
  ELSE Then(IF e.ts # <<>> /\ e.f.n \in DOMAIN g.generic THEN Instantiate(e.f.n, e.ts, g) ELSE g,
            LAMBDA h : CallNamed(e, Mangled(e.f.n, e.ts), h))

\* A method that is not found is no call at all: not even its arguments are.
PassTo(self, f, rs, g) ==
  BadIf(\/ Len(rs) + 1 # Len(f.ps)
        \/ ScopeOf(self, g) = 0 \/ Cell(self, g).r # f.ps[1] \/ Cell(self, g).fn # g.fn
        \/ \E i \in DOMAIN rs : i < Len(f.ps) /\ ~Passes(rs[i], f.ps[i + 1]),
        g, "argument type")
GenMethodCall(e, g) ==
  LET at == FindMethod(IF ClassOf(e.f.o, g) = "" THEN <<>> ELSE <<ClassOf(e.f.o, g)>>, {}, e.f.m, g)
      self == IF e.f.o.x = "name" THEN e.f.o.n ELSE "this"
  IN  IF e.f.o.x = "super" /\ g.base = "" THEN V("i64", Bad(g, "super without base"))
      ELSE Then(at, LAMBDA class :
        IF class = "" THEN V("i64", Mis(g, "no such method"))
        ELSE Then(g.funs[<<class, e.f.m>>], LAMBDA f :
          Then(GenAll(e.as, g), LAMBDA a : V(Result(f), PassTo(self, f, a.rs, a.g)))))

GenCall(e, g) ==
  CASE e.f.x = "name" /\ e.f.n = "print" ->
         LET a == GenAll(e.as, g) IN V("i64", [a.g EXCEPT !.shown = @ \cup Range(a.rs)])
    [] e.f.x = "name" /\ e.f.n \in Builtin -> GenBuiltin(e.f.n, e.as, g)
    [] e.f.x = "name" /\ e.f.n \notin Builtin \cup {"print"} -> GenNamedCall(e, g)
    [] e.f.x = "member" -> GenMethodCall(e, g)
    [] OTHER -> V("i64", Mis(g, "call of a value"))

\* Fields go by their name alone, in whichever class has one of that name.
WithField(m, g) == {c \in DOMAIN g.fields : m \in Range(g.fields[c])}
FieldPlace(c, m, g) == CHOOSE i \in DOMAIN g.fields[c] : g.fields[c][i] = m
OnePlace(m, g) == Cardinality({FieldPlace(c, m, g) : c \in WithField(m, g)}) <= 1
FieldType(m, g) ==
  LET ts == {g.ftypes[c][m] : c \in {k \in WithField(m, g) : k \in DOMAIN g.ftypes /\ m \in DOMAIN g.ftypes[k]}}
  IN  IF ts = {} \/ Cardinality(WithField(m, g)) > 1 THEN "i64" ELSE CHOOSE t \in ts : TRUE

GenMember(e, g) ==
  IF e.o.x = "name" /\ e.o.n \in g.enums THEN V("i64", g)
  ELSE LET o == Gen(e.o, g)
       IN  IF WithField(e.m, g) = {} \/ o.r # "ptr" THEN V("i64", Mis(o.g, "no such field"))
           ELSE V(FieldType(e.m, o.g), IF OnePlace(e.m, g) THEN o.g ELSE Mis(o.g, "field of another class"))

Element(text, o, i, g) ==
  IF o # "ptr" \/ i = "ptr" THEN V("i64", g)
  ELSE IF text THEN V("ptr", BadIf(i \notin {"i64", "i1"}, g, "argument type"))
  ELSE V("i64", BadIf(i # "i64", g, "argument type"))
GenIndex(e, g) ==
  Then(GenAll(<<e.o, e.i>>, g), LAMBDA a : Element(IsStr(e.o, a.g), a.rs[1], a.rs[2], a.g))

\* A lambda is a function of i64s: parameters, captures and result.  What it
\* captures is loaded from a cell of the function around it.
Captured(e, g) == {n \in e.caps : ScopeOf(n, g) # 0}
Elsewhere(e, g) == {n \in Captured(e, g) : Cell(n, g).fn # g.fn}
GenLambda(e, g) ==
  LET in == [Push(g) EXCEPT !.fn = <<"lambda">> \o g.fn,
                            !.boxed = [n \in e.refs |-> "none"]]
      ps == FoldLeft(LAMBDA a, n : NewCell(n, "i64", "i64", a), in, e.ps)
      cs == FoldLeft(LAMBDA a, n : NewCell(n, IF n \in e.refs THEN "ptr" ELSE "i64",
                                           IF n \in e.refs THEN "ptr" ELSE "i64", a),
                     ps, SetToSeq(e.caps))
      b == Gen(e.b, cs)
      out == [Pop(b.g) EXCEPT !.fn = g.fn, !.boxed = g.boxed]
  IN  V("clo", BadIf(e.caps # Captured(e, g),
                     BadIf(Elsewhere(e, g) # {}, BadIf(b.r = "clo", out, "closure as integer"),
                           "cell of another function"), "unknown variable"))

Elements(es, g) ==
  Then(GenAll(es, g), LAMBDA a : V("ptr", BadIf("clo" \in Range(a.rs), a.g, "closure as integer")))

\* A key that is no pointer is turned into text as an integer.
Key(r, g) == BadIf(r \in {"dbl", "i1", "clo"}, g, "key to str")
GenDict(e, g) ==
  LET k == GenAll(e.ks, g)  v == Elements(e.vs, k.g)
  IN  V("ptr", FoldLeft(LAMBDA a, r : Key(r, a), v.g, k.rs))

\* A text or list is indexed; anything else counts up to its value.
GenComp(e, g) ==
  LET Counting(it) == BadIf(it.r \notin {"ptr", "i64"}, it.g, "operand types")
      In(h) == NewCell(e.v, "i64", "i64", Push(h))
      Keyed(v) == Key(v.r, v.g)
      Made(h) == Gen(e.b, IF e.x = "comp" THEN h ELSE Keyed(Gen(e.a, h)))
  IN  V("ptr", Pop(Int64(Made(In(Counting(Gen(e.it, g)))))))

Phi(l, r, g) ==
  IF l # r /\ "dbl" \in {l, r} THEN V("dbl", BadIf(NoDouble(l) \/ NoDouble(r), g, "float operand"))
  ELSE V(l, BadIf(l # r, g, "phi types"))
GenTernary(e, g) ==
  Then(GenAll(<<e.a, e.b>>, Truth(Gen(e.c, g))), LAMBDA a : Phi(a.rs[1], a.rs[2], a.g))

GenSlice(e, g) ==
  Then(GenAll(<<e.o, e.i>>, g), LAMBDA a :
    V("ptr", BadIf(a.rs[1] # "ptr" \/ a.rs[2] \notin {"i64", "i1"}, a.g, "argument type")))

Gen(e, g) ==
  CASE e.x = "lit"     -> V(LitRep(e.t), g)
    [] e.x = "name"    -> Read(e.n, g)
    [] e.x \in {"this", "super"} -> IF ScopeOf("this", g) = 0 THEN V("ptr", g) ELSE V(Cell("this", g).r, g)
    [] e.x = "walrus"  -> LET v == Gen(e.e, g)
                              old == ScopeOf(e.n, v.g)
                          IN  V(v.r, IF old = 0 THEN NewCell(e.n, v.r, v.r, v.g)
                                     ELSE [v.g EXCEPT !.scopes[old][e.n].of = v.r])
    [] e.x = "bin"     -> GenBin(e, g)
    [] e.x = "un"      -> GenUn(e, g)
    [] e.x = "call"    -> GenCall(e, g)
    [] e.x = "member"  -> GenMember(e, g)
    [] e.x = "index"   -> GenIndex(e, g)
    [] e.x = "lambda"  -> GenLambda(e, g)
    [] e.x \in {"list", "tuple"} -> Elements(e.es, g)
    [] e.x = "dict"    -> GenDict(e, g)
    [] e.x = "ternary" -> GenTernary(e, g)
    [] e.x = "slice"   -> GenSlice(e, g)
    [] e.x \in {"comp", "dictcomp"} -> GenComp(e, g)
    [] e.x = "spread"  -> Gen(e.e, g)
    [] e.x = "recv"    -> Then(Gen(e.e, g), LAMBDA v :
                            V("i64", BadIf(v.r \notin {"ptr", "i64"}, v.g, "channel")))
    [] e.x = "go"      -> LET f == Gen(e.f, g) IN V("i64", Elements(e.as, f.g).g)

-----------------------------------------------------------------------------
(***************************************************************************)
(* Statements.                                                             *)
(***************************************************************************)
NoteClass(n, e, g) ==
  IF e.x = "call" /\ e.f.x = "name" /\ e.f.n \in DOMAIN g.fields
  THEN [g EXCEPT !.vcls = Put(@, n, e.f.n)]
  ELSE IF e.x = "name" /\ e.n \in DOMAIN g.vcls THEN [g EXCEPT !.vcls = Put(@, n, g.vcls[e.n])]
  ELSE g

NoteString(n, e, g) ==
  [g EXCEPT !.strs = IF IsStr(e, g) THEN @ \cup {n} ELSE @ \ {n}]

StoreBoxed(n, r, g) ==
  LET h == BadIf(r = "clo", IF g.boxed[n] \notin {"none", r} THEN Mis(g, "box of two types") ELSE g,
                 "closure as integer")
      b == [h EXCEPT !.boxed[n] = r]
  IN  IF ScopeOf(n, g) = 0 THEN NewCell(n, "ptr", "ptr", b) ELSE b

\* Another function's variable: its global, and a local of the same name.
StoreAcross(n, c, r, g) ==
  NewCell(n, c, r, Copies([g EXCEPT !.globals = IF n \in DOMAIN @ THEN @ ELSE Put(@, n, c),
                                    !.again = @ \cup {n}], n))

StoreName(n, t, r, g) ==
  LET c == IF t = NoType THEN r ELSE RepOf(t, g)
      at == ScopeOf(n, g)
  IN  IF n \in DOMAIN g.boxed THEN StoreBoxed(n, r, g)
      ELSE IF at = 0
      THEN LET h == NewCell(n, c, r, g)
           IN  IF g.fn = <<"main">> THEN [h EXCEPT !.globals = Put(@, n, c)] ELSE h
      ELSE IF Cell(n, g).fn # g.fn THEN StoreAcross(n, c, r, g)
      ELSE LET h == Copies([g EXCEPT !.again = @ \cup {n}], n)
           IN  IF Cell(n, g).r = c THEN [h EXCEPT !.scopes[at][n].of = r]
               ELSE Mis(NewCell(n, c, r, h), "a second cell")

\* The value, with the constructor of an instance that does not escape.
GenValue(s, g) ==
  IF s.g.x = "name" /\ s.e.x = "call" /\ s.e.f.x = "name" /\ s.e.f.n \in DOMAIN g.fields
     /\ <<g.fn, s.g.n, s.e>> \in g.stack
  THEN GenLocalObject(s.e.as, g)
  ELSE Gen(s.e, g)

\* A field of a known class keeps the type first stored in it.
StoreField(m, class, o, r, g) ==
  LET types == IF class \in DOMAIN g.ftypes THEN g.ftypes[class] ELSE << >>
      noted == IF class = "" \/ m \in DOMAIN types THEN g
               ELSE [g EXCEPT !.ftypes = Put(@, class, Put(types, m, r))]
  IN  IF WithField(m, g) = {} \/ o # "ptr" THEN Mis(g, "no such field")
      ELSE BadIf(r = "clo", IF OnePlace(m, g) THEN noted ELSE Mis(noted, "field of another class"),
                 "closure as integer")

StoreElement(o, i, r) ==
  IF o.r # "ptr" THEN i.g ELSE BadIf(i.r # "i64" \/ r = "clo", i.g, "argument type")

\* The target, once the value is there.
GenTarget(s, r, g) ==
  CASE s.g.x = "name"   ->
         StoreName(s.g.n, s.t, r, NoteClass(s.g.n, s.e, NoteString(s.g.n, s.e,
           IF r = "clo" THEN [g EXCEPT !.clos = @ \cup {s.g.n}] ELSE g)))
    [] s.g.x = "index"  ->
         Then(Gen(s.g.o, g), LAMBDA o : Then(Gen(s.g.i, o.g), LAMBDA i : StoreElement(o, i, r)))
    [] s.g.x = "member" ->
         Then(Gen(s.g.o, g), LAMBDA o : StoreField(s.g.m, ClassOf(s.g.o, g), o.r, r, o.g))
GenAssign(s, g) == Then(GenValue(s, g), LAMBDA v : GenTarget(s, v.r, v.g))

\* The value of a return in a function without result is not evaluated.
GenReturn(s, g) ==
  IF s.e = NoExpr THEN BadIf(g.ret # "void", g, "return type")
  ELSE IF g.ret = "void" THEN Mis(g, "value not evaluated")
  ELSE Then(Gen(s.e, g), LAMBDA v :
         BadIf(v.r # g.ret /\ ~(g.ret = "dbl" /\ v.r \in {"i64", "i1"}), v.g, "return type"))

\* Variables some lambda of the body captures by reference live in boxes.
RECURSIVE Refs(_)
Refs(e) ==
  CASE e.x = "lambda" -> e.refs \cup Refs(e.b)
    [] e.x = "call" -> Refs(e.f) \cup UNION {Refs(a) : a \in Range(e.as)}
    [] e.x \in {"list", "tuple"} -> UNION {Refs(a) : a \in Range(e.es)}
    [] e.x = "bin" -> Refs(e.l) \cup Refs(e.r)
    [] OTHER -> {}
Boxed(body) ==
  LET ns == UNION {Refs(s.e) : s \in {t \in Range(body) : t.s \in {"assign", "expr", "return"} /\ t.e # NoExpr}}
  IN  [n \in ns |-> "none"]

GenFunc(s, g) ==
  IF s.tps # <<>> THEN [g EXCEPT !.generic = Put(@, s.n, s)]
  ELSE LET f == Declared(s, s.ps, <<>>, g)
       IN  GenBody(<<s.n>>, f.ret, Names(s.ps), f.ps, s.b, Boxed(s.b),
                   [g EXCEPT !.funs = IF <<s.n>> \in DOMAIN @ THEN @ ELSE Put(@, <<s.n>>, f)])

GenMethod(class, m, g) ==
  LET f == Declared(m, m.ps, <<"ptr">>, g)
  IN  GenBody(<<class, m.n>>, f.ret, <<"this">> \o Names(m.ps), f.ps, m.b, g.boxed,
              [g EXCEPT !.funs = Put(@, <<class, m.n>>, f)])

\* The constructor takes the parameters of init; it is known to its own class.
GenClass(s, g) ==
  LET inits == SelectSeq(s.b, LAMBDA m : m.s = "init")
      ps == IF inits = <<>> THEN <<>> ELSE inits[1].ps
      ctor == [Declared([r |-> NoType], ps, <<>>, g) EXCEPT !.ret = "ptr"]
      in == [g EXCEPT !.cls = s.n, !.base = s.base,
                      !.bases = Put(@, s.n, (IF s.base = "" THEN <<>> ELSE <<s.base>>) \o s.extra),
                      !.funs = Put(@, <<s.n>>, ctor)]
      out == FoldLeft(LAMBDA a, m : IF m.s = "func" THEN GenMethod(s.n, m, a)
                                    ELSE GenMethod(s.n, [n |-> "init", ps |-> m.ps, r |-> NoType, b |-> m.b], a),
                      in, s.b)
  IN  [out EXCEPT !.cls = g.cls, !.base = g.base]

Scoped(list, g) == Pop(GenList(list, Push(g)))

\* A list or text iterable: the body is emitted for both, its variable an i64.
GenFor(s, g) ==
  LET str(h) == [h EXCEPT !.strs = @ \cup {s.v}]
      not(h) == [h EXCEPT !.strs = @ \ {s.v}]
      once(h) == Pop(Scoped(s.b, NewCell(s.v, "i64", "i64", Push(h))))
      Texts(it) == IF it.r = "ptr" THEN not(once(str(it.g))) ELSE BadIf(it.r # "i64", it.g, "operand types")
  IN  Then(Gen(s.it, g), LAMBDA it :
        Then(Texts(it), LAMBDA h : IF IsStr(s.it, it.g) /\ it.r = "ptr" THEN h ELSE once(h)))

GenIf(s, g) ==
  LET c == Gen(s.c, g)
      a == Scoped(s.a, Truth(c))
  IN  IF s.b = <<>> THEN a ELSE Scoped(s.b, a)

GenTry(s, g) ==
  LET a == Scoped(s.a, g)
      b == Pop(GenList(s.b, NewCell(s.n, "ptr", "ptr", Push(a))))
  IN  IF s.f = <<>> THEN b ELSE Scoped(s.f, b)

\* The cases of match compare as floats, as text, or as integers.
Pattern(l, r, g) ==
  LET bad == \/ l = "dbl" /\ r \notin {"dbl", "i64", "i1"}
             \/ l = "ptr" /\ r \notin {"ptr", "i64", "i1"}
             \/ l \in {"i64", "i1"} /\ r \notin {"i64", "i1"}
             \/ l = "clo"
  IN  BadIf(bad, g, "pattern type")
GenMatch(s, g) ==
  Then(GenAll(<<s.e, s.p>>, g), LAMBDA a :
    Then(Pattern(a.rs[1], a.rs[2], a.g), LAMBDA p :
      Scoped(s.b, IF s.g = NoExpr THEN p ELSE Truth(Gen(s.g, p)))))

\* The class of the context, or any class that has __enter__.
WithClass(s, g) ==
  LET any == {f[1] : f \in {k \in DOMAIN g.funs : Len(k) = 2 /\ k[2] = "__enter__"}}
  IN  IF s.e.x = "call" /\ s.e.f.x = "name" /\ s.e.f.n \in DOMAIN g.fields THEN s.e.f.n
      ELSE IF s.e.x = "name" /\ s.e.n \in DOMAIN g.vcls THEN g.vcls[s.e.n]
      ELSE IF any = {} THEN "" ELSE CHOOSE c \in any : TRUE

EnterWith(s, class, v) ==
  LET wrong == \E m \in {<<class, "__enter__">>, <<class, "__exit__">>} \cap DOMAIN v.g.funs :
                 v.g.funs[m].ps # <<"ptr">>
      h == BadIf(v.r \in {"dbl", "clo"}, BadIf(wrong, v.g, "argument type"), "float operand")
      in == IF s.n = "" THEN Push(h) ELSE NewCell(s.n, "i64", "i64", Push(h))
  IN  IF s.n = "" \/ class = "" THEN in ELSE [in EXCEPT !.vcls = Put(@, s.n, class)]
GenWith(s, g) ==
  Then(Gen(s.e, g), LAMBDA v : Pop(GenList(s.b, EnterWith(s, WithClass(s, v.g), v))))

GenThrow(s, g) ==
  Then(Gen(s.e, g), LAMBDA v : BadIf(v.r \in {"dbl", "i1", "clo"}, v.g, "argument type"))

GenUnpack(s, g) ==
  Then(Gen(s.e, g), LAMBDA v :
    FoldLeft(LAMBDA a, n : NewCell(n, "i64", "i64", a), BadIf(v.r = "i1", v.g, "stored type"), s.ns))

GenDel(s, g) ==
  CASE s.e.x = "name"   -> g
    [] s.e.x = "index"  -> Then(GenAll(<<s.e.o, s.e.i>>, g), LAMBDA a :
                             BadIf(a.rs[1] = "ptr" /\ a.rs[2] \in {"dbl", "clo"}, a.g, "argument type"))
    [] s.e.x = "member" -> Gen(s.e.o, g).g

GenStmt(s, g) ==
  CASE s.s = "expr"   -> Gen(s.e, g).g
    [] s.s = "assign" -> GenAssign(s, g)
    [] s.s = "const"  -> Then(Gen(s.e, g), LAMBDA v :
                           NewCell(s.n, IF s.t = NoType THEN v.r ELSE RepOf(s.t, g), v.r, v.g))
    [] s.s = "return" -> GenReturn(s, g)
    [] s.s = "unpack" -> GenUnpack(s, g)
    [] s.s = "if"     -> GenIf(s, g)
    [] s.s = "for"    -> GenFor(s, g)
    [] s.s = "while"  -> Scoped(s.b, Truth(Gen(s.c, g)))
    [] s.s = "try"    -> GenTry(s, g)
    [] s.s = "with"   -> GenWith(s, g)
    [] s.s = "throw"  -> GenThrow(s, g)
    [] s.s = "assert" -> Truth(Gen(s.e, g))
    [] s.s = "del"    -> GenDel(s, g)
    [] s.s = "match"  -> GenMatch(s, g)
    [] s.s = "send"   -> Then(Gen(s.ch, g), LAMBDA c :
                           BadIf(c.r \notin {"ptr", "i64"}, Int64(Gen(s.e, c.g)), "channel"))
    [] s.s = "func"   -> GenFunc(s, g)
    [] s.s = "class"  -> GenClass(s, g)
    [] s.s = "enum"   -> [g EXCEPT !.enums = @ \cup {s.n}]
    [] s.s \in {"iface", "import"} -> g

GenList(list, g) == IF list = <<>> THEN g ELSE GenList(Tail(list), GenStmt(Head(list), g))

-----------------------------------------------------------------------------
(***************************************************************************)
(* generate(): functions are declared, then the statements of the file are *)
(* emitted into main.                                                      *)
(***************************************************************************)
NewGenerator(fields, stack) ==
  [scopes |-> <<>>, strs |-> {}, clos |-> {}, vcls |-> << >>, boxed |-> << >>, globals |-> << >>,
   funs |-> << >>, generic |-> << >>, bases |-> << >>, fields |-> fields, ftypes |-> << >>,
   enums |-> {}, stack |-> stack, fn |-> <<"main">>, ret |-> "i32", cls |-> "", base |-> "",
   reads |-> {}, again |-> {}, shown |-> {}, bad |-> {}, mis |-> {}]

Predeclare(g, s) ==
  IF s.s = "func" /\ s.tps = <<>>
  THEN [g EXCEPT !.funs = Put(@, <<s.n>>, Declared(s, s.ps, <<>>, g))] ELSE g

Generated(program, fields, stack) ==
  GenList(program, Push([FoldLeft(Predeclare, NewGenerator(fields, stack), program)
                           EXCEPT !.boxed = Boxed(program)]))
=============================================================================
