----------------------------- MODULE TypeChecker -----------------------------
(***************************************************************************)
(* src/typechecker.cpp: the types, the relations between them, and the     *)
(* visitors that give an expression its type and a statement its errors.   *)
(* The checker object is a record threaded through the visitors:           *)
(*   scopes   the active scopes, innermost last: name -> type              *)
(*   errs     the errors recorded, in order (error() does not stop)        *)
(*   classes, ifaces, funcs   what the first pass registered               *)
(*   consts, ret, explicit, cls, tps   constVars_, currentReturnType_,     *)
(*            hasExplicitReturnType_, currentClassName_, type parameters   *)
(*   uses     a record of the visits: what was done to which kinds of type *)
(* Annotations are types already: the text of one is not modelled.         *)
(***************************************************************************)
EXTENDS Naturals, SequencesExt, FiniteSetsExt, Expressions

\* ---------------------------------------------------------------- types
Prim(k)       == [k |-> k]
IntT == Prim("int")      Float == Prim("float")   Str == Prim("str")
Bool == Prim("bool")    Void == Prim("void")     Null == Prim("null")
Unknown == Prim("unknown")
ListOf(e)     == [k |-> "list", e |-> e]
DictOf(a, b)  == [k |-> "dict", a |-> a, b |-> b]
TupleT(es)   == [k |-> "tuple", es |-> es]
Func(n, r, ps) == [k |-> "func", n |-> n, r |-> r, ps |-> ps]
Class(n)      == [k |-> "class", n |-> n]
Iface(n)      == [k |-> "interface", n |-> n]
TypeVar(n)    == [k |-> "typevar", n |-> n]
Union(ms)     == [k |-> "union", ms |-> ms]
ChanOf(e)     == [k |-> "chan", e |-> e]

IsUnknown(t)  == t.k = "unknown"
IsNumeric(t)  == t.k \in {"int", "float"}

\* ---------------------------------------------------------------- classes
NoClass == [base |-> "", extra |-> <<>>, ifaces |-> <<>>, methods |-> <<>>]
Known(c, n) == n \in DOMAIN c.classes

RECURSIVE SubClass(_, _, _), Implements(_, _, _), Assignable(_, _, _)

\* isSubtype: along the first bases only.
SubClass(c, n, m) ==
  \/ n = m
  \/ Known(c, n) /\ c.classes[n].base # "" /\ SubClass(c, c.classes[n].base, m)

\* classImplementsInterface: along every base.
Implements(c, n, i) ==
  /\ Known(c, n)
  /\ \/ i \in Range(c.classes[n].ifaces)
     \/ c.classes[n].base # "" /\ Implements(c, c.classes[n].base, i)
     \/ \E b \in Range(c.classes[n].extra) : Implements(c, b, i)

\* isAssignableTo.  Parameters of functions must be equal; results are not
\* compared.
Assignable(c, f, t) ==
  \/ f = t \/ IsUnknown(f) \/ IsUnknown(t)
  \/ f.k = "null"
  \/ f.k = "typevar" \/ t.k = "typevar"
  \/ f.k = "int" /\ t.k = "float"
  \/ t.k = "union" /\ \E m \in Range(t.ms) : Assignable(c, f, m)
  \/ f.k = "class" /\ t.k = "class" /\ SubClass(c, f.n, t.n)
  \/ f.k = "list" /\ t.k = "list" /\ Assignable(c, f.e, t.e)
  \/ /\ f.k = "dict" /\ t.k = "dict"
     /\ Assignable(c, f.a, t.a) /\ Assignable(c, f.b, t.b)
  \/ /\ f.k = "tuple" /\ t.k = "tuple"
     /\ t.es = <<>> \/ (/\ Len(f.es) = Len(t.es)
                        /\ \A i \in DOMAIN f.es : Assignable(c, f.es[i], t.es[i]))
  \/ /\ f.k = "func" /\ t.k = "func" /\ Len(f.ps) = Len(t.ps)
     /\ \A i \in DOMAIN f.ps : IsUnknown(f.ps[i]) \/ IsUnknown(t.ps[i]) \/ f.ps[i] = t.ps[i]
  \/ f.k = "class" /\ t.k = "interface" /\ Implements(c, f.n, t.n)

\* ---------------------------------------------------------------- the object
Note(c, u)    == [c EXCEPT !.uses = @ \cup {u}]
Err(c, e)     == [c EXCEPT !.errs = Append(@, e)]
ErrIf(p, c, e) == IF p THEN Err(c, e) ELSE c
NoNames       == [n \in {} |-> Unknown]
Enter(c)      == [c EXCEPT !.scopes = Append(@, NoNames)]
Leave(c)      == [c EXCEPT !.scopes = Front(@)]
Declare(c, n, t) ==
  LET i == Len(c.scopes)
  IN  [c EXCEPT !.scopes[i] = [m \in DOMAIN @ \cup {n} |-> IF m = n THEN t ELSE @[m]]]
Declared(c, n) == \E i \in DOMAIN c.scopes : n \in DOMAIN c.scopes[i]
Symbol(c, n) ==
  LET in == {i \in DOMAIN c.scopes : n \in DOMAIN c.scopes[i]}
  IN  IF in = {} THEN Unknown ELSE c.scopes[Max(in)][n]

Builtins == {"print", "map", "filter", "isinstance", "input", "make_chan", "len", "str", "int"}

\* The visitors of expressions return the type and the checker.
R(t, c) == [t |-> t, c |-> c]
Lookup(n, c) ==
  R(Symbol(c, n), ErrIf(~Declared(c, n) /\ n \notin Builtins, c, "undefined"))

Promote(a, b) == IF a.k = "float" \/ b.k = "float" THEN Float ELSE IntT

Unify(a, b, c) ==
  IF IsUnknown(a) THEN R(b, c)
  ELSE IF IsUnknown(b) \/ a = b THEN R(a, c)
  ELSE IF IsNumeric(a) /\ IsNumeric(b) THEN R(Promote(a, b), c)
  ELSE IF a.k = "null" \/ b.k = "null" THEN R(IF a.k = "null" THEN b ELSE a, c)
  ELSE IF a.k = "typevar" \/ b.k = "typevar" THEN R(IF a.k = "typevar" THEN b ELSE a, c)
  ELSE IF Assignable(c, a, b) THEN R(b, c)
  ELSE IF Assignable(c, b, a) THEN R(a, c)
  ELSE R(Unknown, Err(c, "unify"))

\* ---------------------------------------------------------------- operators
BothNumeric(a, b) == IsNumeric(a) /\ IsNumeric(b)
BothStr(a, b)     == a.k = "str" /\ b.k = "str"
SomeUnknown(a, b) == IsUnknown(a) \/ IsUnknown(b)
Bits(t)           == t.k \in {"int", "bool"}
\* Mutant: an operator that fits nothing is no error.
ErrNever(a, b, c) == c
ErrUnlessUnknown(a, b, c) == ErrIf(~SomeUnknown(a, b), c, "operands")

\* Sub stands for -, *, /, % and **; Lt for the orderings; BitAnd for the
\* bitwise operators; Eq for == and !=; In for in and not in.
Operator(op, a, b, c) ==
  CASE op = "Add" /\ BothStr(a, b) -> R(Str, c)
    [] op \in {"Add", "Sub"} /\ BothNumeric(a, b) -> R(Promote(a, b), c)
    [] op = "IntDiv" /\ BothNumeric(a, b) -> R(IntT, c)
    [] op \in {"Eq", "Neq"} /\ (BothNumeric(a, b) \/ a.k = b.k \/ a.k = "null" \/ b.k = "null") -> R(Bool, c)
    [] op = "Lt" /\ (BothNumeric(a, b) \/ BothStr(a, b)) -> R(Bool, c)
    [] op \in {"And", "Or", "In"} -> R(Bool, c)
    [] op = "BitAnd" /\ Bits(a) /\ Bits(b) -> R(IntT, c)
    [] op = "BitAnd" /\ ~(Bits(a) /\ Bits(b)) ->
         R(Unknown, ErrIf(a.k = "float" \/ b.k = "float" \/ ~SomeUnknown(a, b), c, "operands"))
    [] op = "Coalesce" -> R(b, c)
    [] OTHER -> R(IF op \in {"Eq", "Neq", "Lt"} THEN Bool ELSE Unknown, ErrUnlessUnknown(a, b, c))

Unary(op, t, c) ==
  CASE op = "Neg" /\ IsNumeric(t) -> R(t, c)
    [] op = "BitNot" /\ t.k = "int" -> R(IntT, c)
    [] op = "Not" -> R(Bool, c)
    [] OTHER -> R(Unknown, ErrIf(~IsUnknown(t), c, "operands"))

ElemOf(t) == IF t.k = "list" THEN t.e ELSE Unknown

IndexOf(t) ==
  CASE t.k = "list" -> t.e
    [] t.k = "dict" -> t.b
    [] t.k = "str"  -> Str
    [] OTHER        -> Unknown

\* Methods of the class and of its first base; fields are not known.
MemberOf(t, m, c) ==
  LET Of(n) == IF t.k = "class" /\ Known(c, n)
               THEN SelectSeq(c.classes[n].methods, LAMBDA f : f.n = m) ELSE <<>>
      all == IF t.k = "class" /\ Known(c, t.n) THEN Of(t.n) \o Of(c.classes[t.n].base) ELSE <<>>
  IN  IF all = <<>> THEN Unknown ELSE all[1]

-----------------------------------------------------------------------------
(***************************************************************************)
(* Expressions.  Type(e, c) is checkExpr.                                  *)
(***************************************************************************)
RECURSIVE Type(_, _), Types(_, _), Unified(_, _)

\* The expressions one after the other: their types, and the checker.
Types(es, c) ==
  IF es = <<>> THEN R(<<>>, c)
  ELSE Then(Type(Head(es), c), LAMBDA h :
         Then(Types(Tail(es), h.c), LAMBDA r : R(<<h.t>> \o r.t, r.c)))

\* All elements have the type of the first, unified with each.
Unified(es, c) ==
  IF es = <<>> THEN R(Unknown, c)
  ELSE Then(Unified(Front(es), c), LAMBDA r : Then(Type(Last(es), r.c), LAMBDA h :
         IF Len(es) = 1 THEN h ELSE Unify(r.t, h.t, h.c)))

BuiltinCall(n, as, c) ==
  LET r == Types(IF n = "isinstance" /\ as # <<>> THEN <<as[1]>> ELSE as, c)
      result == CASE n \in {"map", "filter"} -> ListOf(Unknown)
                  [] n = "isinstance" -> Bool
                  [] n = "input"      -> Str
                  [] n = "make_chan"  -> ChanOf(Unknown)
                  [] n = "len"        -> IntT
      arity == CASE n = "isinstance" -> {2}
                 [] n = "input"      -> {0, 1}
                 [] n \in {"make_chan", "len"} -> {1}
                 [] OTHER -> {Len(as)}
  IN  R(result, ErrIf(n = "input" /\ \E i \in DOMAIN r.t : r.t[i].k \notin {"unknown", "str"},
                      ErrIf(Len(as) \notin arity, r.c, "arity"), "argument"))

Typed(n) == n \in {"map", "filter", "isinstance", "input", "make_chan", "len"}

(* The type arguments of a generic call: given, or the types of the arguments
   whose parameter is the type variable.  They must be within their bounds;
   the arguments are not compared with the parameters. *)
GenericCall(f, info, ts, args, c) ==
  LET given(v) == IF ts # <<>>
                  THEN {ts[i] : i \in {j \in DOMAIN info.tps : info.tps[j] = v /\ j <= Len(ts)}}
                  ELSE {args[i] : i \in {j \in DOMAIN args :
                          j <= Len(f.ps) /\ f.ps[j] = TypeVar(v) /\
                          \A l \in DOMAIN args : l <= Len(f.ps) /\ f.ps[l] = TypeVar(v) => l <= j}}
      outside == \E v \in DOMAIN info.bounds : \E t \in given(v) :
                   ~IsUnknown(t) /\ t # info.bounds[v]
      result == IF f.r.k = "typevar" /\ given(f.r.n) # {}
                THEN CHOOSE t \in given(f.r.n) : TRUE ELSE f.r
  IN  R(result, ErrIf(outside, c, "bound"))

NoteArguments(args, ps, c) ==
  [c EXCEPT !.uses = @ \cup {<<"argument", args[i].k, ps[i].k>> : i \in DOMAIN args \cap DOMAIN ps}]

\* The call of a function, of its arguments as typed.
CallFunction(e, f, as) ==
  LET n == Len(as.t)
      info == IF f.n \in DOMAIN as.c.funcs THEN as.c.funcs[f.n]
              ELSE [min |-> Len(f.ps), tps |-> <<>>, bounds |-> <<>>]
      counted == ErrIf(n < info.min \/ n > Len(f.ps), NoteArguments(as.t, f.ps, as.c), "arity")
      wrong == \E i \in DOMAIN as.t : i <= Len(f.ps) /\ ~Assignable(counted, as.t[i], f.ps[i])
  IN  IF info.tps # <<>>
      THEN GenericCall(f, info, e.ts, as.t,
                       IF e.ts = <<>> THEN Note(counted, <<"generic", "inferred">>) ELSE counted)
      ELSE R(f.r, ErrIf(wrong, counted, "argument"))

CallType(e, f, as) ==
  LET Used(what) == [as.c EXCEPT !.uses = @ \cup {<<what, as.t[i].k>> : i \in DOMAIN as.t}]
  IN  CASE e.f = Name("print") -> R(Unknown, Used("print"))
        [] f.k = "func"  -> CallFunction(e, f, as)
        [] f.k = "class" -> R(f, Used("construct"))
        [] OTHER -> R(Unknown, ErrIf(~IsUnknown(f), as.c, "not a function"))

Call(e, c) == Then(Type(e.f, c), LAMBDA f : Then(Types(e.as, f.c), LAMBDA as : CallType(e, f.t, as)))

LambdaType(e, c) ==
  LET used == [c EXCEPT !.uses = @ \cup {<<"capture", Symbol(c, n).k>> : n \in e.caps}]
      d == FoldLeft(LAMBDA a, n : Declare(a, n, Unknown), Enter(used), e.ps)
      b == Type(e.b, d)
  IN  R(Func("<lambda>", b.t, [i \in DOMAIN e.ps |-> Unknown]), Note(Leave(b.c), <<"lambda", b.t.k>>))

\* The variable of a comprehension has the element type of a list, else unknown.
CompType(e, c) ==
  LET In(it) == Declare(Enter(Note(it.c, <<"iterate", it.t.k>>)), e.v, ElemOf(it.t))
      Made(b) == IF e.x = "comp" THEN R(ListOf(b.t[1]), Leave(b.c))
                 ELSE R(DictOf(b.t[1], b.t[2]), Note(Leave(b.c), <<"key", b.t[1].k>>))
  IN  Made(Types(IF e.x = "comp" THEN <<e.b>> ELSE <<e.a, e.b>>, In(Type(e.it, c))))

SuperType(c) ==
  IF c.cls = "" THEN R(Unknown, Err(c, "super"))
  ELSE IF ~Known(c, c.cls) THEN R(Unknown, Err(c, "super"))
  ELSE IF c.classes[c.cls].base = "" THEN R(Unknown, Err(c, "super"))
  ELSE R(Class(c.classes[c.cls].base), c)

SliceType(e, c) ==
  Then(Types(<<e.o, e.i>>, c), LAMBDA r :
    R(IF r.t[1].k \in {"list", "str"} THEN r.t[1] ELSE Unknown, Note(r.c, <<"slice", r.t[1].k, r.t[2].k>>)))

RecvType(e, c) ==
  Then(Type(e.e, c), LAMBDA r :
    IF r.t.k = "chan" THEN R(r.t.e, r.c) ELSE R(Unknown, Err(r.c, "channel")))

LitType(t) == CASE t = "int" -> IntT [] t = "float" -> Float [] t = "str" -> Str
                [] t = "bool" -> Bool [] t = "null" -> Null [] t = "fstring" -> Unknown

Type(e, c) ==
  CASE e.x = "lit"    -> R(LitType(e.t), c)
    [] e.x = "name"   -> Lookup(e.n, c)
    [] e.x = "this"   -> Lookup("this", ErrIf(c.cls = "", c, "this"))
    [] e.x = "super"  -> SuperType(c)
    [] e.x = "bin"    -> Then(Types(<<e.l, e.r>>, c), LAMBDA r :
                           Operator(e.op, r.t[1], r.t[2], Note(r.c, <<e.op, r.t[1].k, r.t[2].k>>)))
    [] e.x = "un"     -> Then(Type(e.e, c), LAMBDA r : Unary(e.op, r.t, Note(r.c, <<e.op, r.t.k>>)))
    [] e.x = "call"   -> IF e.f.x = "name" /\ Typed(e.f.n) THEN BuiltinCall(e.f.n, e.as, c)
                         ELSE Call(e, c)
    [] e.x = "member" -> Then(Type(e.o, c), LAMBDA r :
                           R(MemberOf(r.t, e.m, r.c), Note(r.c, <<"member", r.t.k>>)))
    [] e.x = "index"  -> Then(Types(<<e.o, e.i>>, c), LAMBDA r :
                           R(IndexOf(r.t[1]), Note(r.c, <<"index", r.t[1].k, r.t[2].k>>)))
    [] e.x = "lambda" -> LambdaType(e, c)
    [] e.x = "list"   -> Then(Unified(e.es, c), LAMBDA r : R(ListOf(r.t), r.c))
    [] e.x = "dict"   -> Then(Unified(e.ks, c), LAMBDA a :
                           Then(Unified(e.vs, Note(a.c, <<"key", a.t.k>>)), LAMBDA b :
                             R(DictOf(a.t, b.t), b.c)))
    [] e.x = "tuple"  -> Then(Types(e.es, c), LAMBDA r : R(TupleT(r.t), r.c))
    [] e.x = "ternary" -> Then(Types(<<e.c, e.a, e.b>>, c), LAMBDA r :
                            Unify(r.t[2], r.t[3], Note(r.c, <<"ternary", r.t[2].k, r.t[3].k>>)))
    [] e.x = "slice"  -> SliceType(e, c)
    [] e.x \in {"comp", "dictcomp"} -> CompType(e, c)
    [] e.x = "spread" -> Type(e.e, c)
    [] e.x = "walrus" -> Then(Type(e.e, c), LAMBDA r : R(r.t, Declare(r.c, e.n, r.t)))
    [] e.x = "recv"   -> RecvType(e, c)
    [] e.x = "go"     -> R(Void, Types(<<e.f>> \o e.as, c).c)

-----------------------------------------------------------------------------
(***************************************************************************)
(* Statements.  Check(s, c) is checkStmt.                                  *)
(***************************************************************************)
RECURSIVE Check(_, _), CheckList(_, _), HasReturn(_)
CheckList(list, c) == IF list = <<>> THEN c ELSE CheckList(Tail(list), Check(Head(list), c))
Block(list, c) == Leave(CheckList(list, Enter(c)))

\* stmtListHasReturn: an else, a try or a match is not looked into.
HasReturn(list) ==
  \E i \in DOMAIN list :
    \/ list[i].s = "return"
    \/ list[i].s = "if" /\ HasReturn(list[i].a)
    \/ list[i].s \in {"while", "for"} /\ HasReturn(list[i].b)

\* A declared variable keeps its type; an int variable takes no float.
AssignName(n, t, ann, c) ==
  IF ann # NoType
  THEN IF Declared(c, n) THEN Err(c, "already declared")
       ELSE Declare(ErrIf(~Assignable(c, t, ann), Note(c, <<"store", t.k, ann.k>>), "declared"), n, ann)
  ELSE IF ~Declared(c, n) THEN Declare(Note(c, <<"store", t.k, t.k>>), n, t)
  ELSE LET old == Symbol(c, n)
       IN  ErrIf(/\ ~SomeUnknown(old, t) /\ old # t
                 /\ BothNumeric(old, t) => old.k = "int" /\ t.k = "float",
                 Note(c, <<"again", t.k, old.k>>), "assign")

CheckAssign(s, c) ==
  IF s.g.x = "name" /\ s.g.n \in c.consts THEN Type(s.e, Err(c, "constant")).c
  ELSE Then(Type(s.e, c), LAMBDA r :
         IF s.g.x = "name" THEN AssignName(s.g.n, r.t, s.t, r.c) ELSE Type(s.g, r.c).c)

DeclareConst(s, v, c) ==
  LET t == IF s.t = NoType THEN v ELSE s.t
      d == Declare(ErrIf(s.t # NoType /\ ~Assignable(c, v, t), Note(c, <<"store", v.k, t.k>>), "declared"), s.n, t)
  IN  IF Declared(c, s.n) THEN Err(c, "already declared")
      ELSE [d EXCEPT !.consts = @ \cup {s.n}]
CheckConst(s, c) == Then(Type(s.e, c), LAMBDA r : DeclareConst(s, r.t, r.c))

CheckResult(s, t, c) ==
  LET bad == /\ c.explicit /\ ~SomeUnknown(c.ret, t) /\ ~Assignable(c, t, c.ret)
             /\ BothNumeric(t, c.ret) => c.ret.k = "int" /\ t.k = "float"
  IN  ErrIf(~c.explicit /\ s.e # NoExpr, ErrIf(bad, Note(c, <<"return", t.k, c.ret.k>>), "return"),
            "no annotation")
CheckReturn(s, c) ==
  Then(IF s.e = NoExpr THEN R(Void, c) ELSE Type(s.e, c), LAMBDA r : CheckResult(s, r.t, r.c))

AnnOf(t) == IF t = NoType THEN Unknown ELSE t
DeclareParams(ps, c) ==
  FoldLeft(LAMBDA a, p :
             LET d == IF p.d = NoExpr THEN R(AnnOf(p.t), a) ELSE Type(p.d, a)
             IN  Declare(Note(d.c, <<"parameter", d.t.k, AnnOf(p.t).k>>), p.n, AnnOf(p.t)), c, ps)

Restore(new, old) ==
  [new EXCEPT !.ret = old.ret, !.explicit = old.explicit, !.cls = old.cls, !.tps = old.tps]

CheckFunc(s, c) ==
  LET c1 == [c EXCEPT !.ret = IF s.r = NoType THEN Unknown ELSE s.r,
                      !.explicit = s.r # NoType, !.tps = @ \cup Range(s.tps)]
      c2 == FoldLeft(LAMBDA a, n : Declare(a, n, TypeVar(n)), Enter(c1), s.tps)
      c3 == CheckList(s.b, DeclareParams(s.ps, c2))
      missing == s.r \notin {NoType, Void, Unknown} /\ ~HasReturn(s.b)
  IN  Restore(Leave(ErrIf(missing, c3, "missing return")), c)

CheckInit(s, c) ==
  Restore(Leave(CheckList(s.b, DeclareParams(s.ps,
            Enter([c EXCEPT !.ret = Void, !.explicit = FALSE])))), c)

\* A method that overrides one of the first base has its signature.
OverrideOk(m, b) ==
  /\ Len(m.ps) = Len(b.ps)
  /\ \A i \in DOMAIN m.ps : SomeUnknown(m.ps[i], b.ps[i]) \/ m.ps[i] = b.ps[i]
  /\ SomeUnknown(m.r, b.r) \/ m.r = b.r

CheckOverrides(s, c) ==
  LET own == Range(c.classes[s.n].methods)
      inherited == IF Known(c, s.base) THEN Range(c.classes[s.base].methods) ELSE {}
  IN  ErrIf(\E m \in own : \E b \in inherited : m.n = b.n /\ ~OverrideOk(m, b), c, "override")

\* Every method of its interfaces is one of its own.
CheckInterfaces(s, c) ==
  ErrIf(\E i \in Range(s.ifaces) \cap DOMAIN c.ifaces : \E m \in c.ifaces[i] :
          m \notin {f.n : f \in Range(c.classes[s.n].methods)}, c, "interface")

CheckClass(s, c) ==
  LET c1 == Declare(Enter([c EXCEPT !.cls = s.n]), "this", Class(s.n))
      c2 == CheckList(s.b, IF s.base = "" THEN c1 ELSE Declare(c1, "super", Class(s.base)))
  IN  Restore(Leave(IF Known(c2, s.n) THEN CheckInterfaces(s, CheckOverrides(s, c2)) ELSE c2), c)

\* x == null and x != null narrow a union in the branch that knows.
Narrowed(cond, c) ==
  IF cond.x = "bin" /\ cond.op \in {"Eq", "Neq"} /\ cond.l.x = "name" /\ cond.r = Lit("null")
  THEN LET t == Symbol(c, cond.l.n)
           rest == IF t.k = "union" THEN SelectSeq(t.ms, LAMBDA m : m # Null) ELSE <<>>
       IN  IF t.k # "union" THEN [on |-> FALSE]
           ELSE [on |-> TRUE, n |-> cond.l.n, isNull |-> cond.op = "Eq",
                 other |-> IF Len(rest) = 1 THEN rest[1] ELSE Union(rest), empty |-> rest = <<>>]
  ELSE [on |-> FALSE]

Narrow(v, isNull, c) ==
  IF ~v.on THEN c
  ELSE IF isNull THEN Declare(c, v.n, Null)
  ELSE IF v.empty THEN c ELSE Declare(c, v.n, v.other)

CheckIf(s, c) ==
  LET Branch(list, v, on, d) == Leave(CheckList(list, Narrow(v, on, Enter(d))))
  IN  Then(Type(s.c, c).c, LAMBDA d : Then(Narrowed(s.c, d), LAMBDA v :
        Then(Branch(s.a, v, v.on /\ v.isNull, d), LAMBDA after :
          IF s.b = <<>> THEN after ELSE Branch(s.b, v, v.on /\ ~v.isNull, after))))

CheckFor(s, c) ==
  LET In(it) == Declare(Enter(Note(it.c, <<"iterate", it.t.k>>)), s.v, ElemOf(it.t))
  IN  Leave(CheckList(s.b, In(Type(s.it, c))))

CheckTry(s, c) ==
  LET c1 == Block(s.a, c)
      c2 == Declare(Enter(c1), s.n, IF s.t = NoType THEN Unknown ELSE s.t)
      c3 == Leave(CheckList(s.b, c2))
  IN  IF s.f = <<>> THEN c3 ELSE Block(s.f, c3)

CheckWith(s, c) ==
  LET In(r) == Enter(Note(r.c, <<"with", r.t.k>>))
      As(d) == IF s.n = "" THEN d ELSE Declare(d, s.n, Unknown)
  IN  Leave(CheckList(s.b, As(In(Type(s.e, c)))))

CheckAssert(s, c) ==
  Then(Type(s.e, c), LAMBDA r : ErrIf(r.t.k \notin {"bool", "unknown"}, r.c, "assert"))

MatchPattern(a, b, c) ==
  ErrIf(~SomeUnknown(a, b) /\ a.k # b.k, Note(c, <<"match", a.k, b.k>>), "pattern")
CheckMatch(s, c) ==
  Then(Types(<<s.e, s.p>>, c), LAMBDA r :
    Then(MatchPattern(r.t[1], r.t[2], r.c), LAMBDA d :
      Then(IF s.g = NoExpr THEN R(Bool, d) ELSE Type(s.g, d), LAMBDA g :
        Block(s.b, ErrIf(g.t.k \notin {"bool", "unknown"}, g.c, "guard")))))

CheckSend(s, c) ==
  Then(Type(s.ch, c), LAMBDA ch : Then(Type(s.e, ch.c), LAMBDA v :
    IF ch.t.k # "chan" THEN Err(ch.c, "channel") ELSE Unify(ch.t.e, v.t, v.c).c))

CheckDel(s, c) ==
  Type(s.e, ErrIf(s.e.x \notin {"name", "index", "member"}, c, "del")).c

DeclareNames(ns, c) == FoldLeft(LAMBDA a, n : Declare(a, n, Unknown), c, ns)

Check(s, c) ==
  CASE s.s = "expr"   -> Type(s.e, c).c
    [] s.s = "throw"  -> Then(Type(s.e, c), LAMBDA r : Note(r.c, <<"throw", r.t.k>>))
    [] s.s = "assign" -> CheckAssign(s, c)
    [] s.s = "const"  -> CheckConst(s, c)
    [] s.s = "return" -> CheckReturn(s, c)
    [] s.s = "unpack" -> Then(Type(s.e, c), LAMBDA r :
                           DeclareNames(s.ns, Note(r.c, <<"unpack", r.t.k>>)))
    [] s.s = "if"     -> CheckIf(s, c)
    [] s.s = "for"    -> CheckFor(s, c)
    [] s.s = "while"  -> Block(s.b, Type(s.c, c).c)
    [] s.s = "with"   -> CheckWith(s, c)
    [] s.s = "try"    -> CheckTry(s, c)
    [] s.s = "assert" -> CheckAssert(s, c)
    [] s.s = "del"    -> CheckDel(s, c)
    [] s.s = "match"  -> CheckMatch(s, c)
    [] s.s = "send"   -> CheckSend(s, c)
    [] s.s = "import" -> Declare(c, s.n, Unknown)
    [] s.s = "func"   -> CheckFunc(s, c)
    [] s.s = "init"   -> CheckInit(s, c)
    [] s.s = "class"  -> CheckClass(s, c)
    [] s.s \in {"iface", "enum"} -> c

-----------------------------------------------------------------------------
(***************************************************************************)
(* check(): the declarations of the file are registered, then the          *)
(* statements are checked.                                                 *)
(***************************************************************************)
Signature(f) == Func(f.n, AnnOf(f.r), [i \in DOMAIN f.ps |-> AnnOf(f.ps[i].t)])
With(f, n, v) == [m \in DOMAIN f \cup {n} |-> IF m = n THEN v ELSE f[m]]

Register(c, s) ==
  CASE s.s = "func" ->
         [Declare(c, s.n, Signature(s)) EXCEPT !.funcs = With(@, s.n,
            [min |-> Len(SelectSeq(s.ps, LAMBDA p : p.d = NoExpr)), tps |-> s.tps,
             bounds |-> <<>>])]
    [] s.s = "class" ->
         LET methods == SelectSeq(s.b, LAMBDA m : m.s = "func")
         IN  [Declare(c, s.n, Class(s.n)) EXCEPT !.classes = With(@, s.n,
                [base |-> s.base, extra |-> s.extra, ifaces |-> s.ifaces,
                 methods |-> [i \in DOMAIN methods |-> Signature(methods[i])]])]
    [] s.s = "iface" -> [Declare(c, s.n, Iface(s.n)) EXCEPT !.ifaces = With(@, s.n, s.ms)]
    [] s.s = "enum" ->
         FoldLeft(LAMBDA a, m : Declare(a, s.n \o "_" \o m, IntT), Declare(c, s.n, Class(s.n)), s.ms)
    [] OTHER -> c

NewChecker ==
  [scopes |-> <<>>, errs |-> <<>>, classes |-> [n \in {} |-> NoClass], ifaces |-> [n \in {} |-> {}],
   funcs |-> [n \in {} |-> {}], consts |-> {}, ret |-> Void, explicit |-> FALSE, cls |-> "",
   tps |-> {}, uses |-> {}]

Checked(program) == CheckList(program, FoldLeft(Register, Enter(NewChecker), program))
Accepted(program) == Checked(program).errs = <<>>
=============================================================================
