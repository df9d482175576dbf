----------------------------- MODULE Expressions -----------------------------
(***************************************************************************)
(* include/ast.h: the expressions, and the statements that declare names,  *)
(* as the type checker and the code generator visit them.  An annotation   *)
(* is a type of TypeChecker, or NoType.  Literals stand for any value of   *)
(* their type; one operator stands for the operators a visitor treats      *)
(* alike (Add, Sub, IntDiv, Eq, Lt, And, Or, In, BitAnd, Coalesce).        *)
(***************************************************************************)
EXTENDS Sequences

NoType == [k |-> "none"]
NoExpr == [x |-> "none"]

\* What follows a visit: F of what the visit returned.
Then(v, F(_)) == F(v)

Lit(t)           == [x |-> "lit", t |-> t]      \* int float str fstring bool null
Name(n)          == [x |-> "name", n |-> n]
This             == [x |-> "this"]
Super            == [x |-> "super"]
Bin(op, l, r)    == [x |-> "bin", op |-> op, l |-> l, r |-> r]
Un(op, e)        == [x |-> "un", op |-> op, e |-> e]
CallE(f, as)     == [x |-> "call", f |-> f, as |-> as, ts |-> <<>>]
CallT(f, as, ts) == [x |-> "call", f |-> f, as |-> as, ts |-> ts]   \* f[T](x)
Member(o, m)     == [x |-> "member", o |-> o, m |-> m]
Index(o, i)      == [x |-> "index", o |-> o, i |-> i]
Lambda(ps, b)    == [x |-> "lambda", ps |-> ps, b |-> b, caps |-> {}, refs |-> {}]
ListE(es)        == [x |-> "list", es |-> es]
DictE(ks, vs)    == [x |-> "dict", ks |-> ks, vs |-> vs]
TupleE(es)       == [x |-> "tuple", es |-> es]
Ternary(c, a, b) == [x |-> "ternary", c |-> c, a |-> a, b |-> b]
Slice(o, i)      == [x |-> "slice", o |-> o, i |-> i]
Comp(v, it, b)   == [x |-> "comp", v |-> v, it |-> it, b |-> b]
DictComp(v, it, a, b) == [x |-> "dictcomp", v |-> v, it |-> it, a |-> a, b |-> b]
Spread(e)        == [x |-> "spread", e |-> e]
Walrus(n, e)     == [x |-> "walrus", n |-> n, e |-> e]
Recv(e)          == [x |-> "recv", e |-> e]
Go(f, as)        == [x |-> "go", f |-> f, as |-> as]

ExprStmt(e)      == [s |-> "expr", e |-> e]
Assign(g, t, e)  == [s |-> "assign", g |-> g, t |-> t, e |-> e]     \* g: t = e
Const(n, t, e)   == [s |-> "const", n |-> n, t |-> t, e |-> e]
ReturnS(e)       == [s |-> "return", e |-> e]                       \* or NoExpr
Unpack(ns, e)    == [s |-> "unpack", ns |-> ns, e |-> e]
IfS(c, a, b)     == [s |-> "if", c |-> c, a |-> a, b |-> b]
ForS(v, it, b)   == [s |-> "for", v |-> v, it |-> it, b |-> b]
WhileS(c, b)     == [s |-> "while", c |-> c, b |-> b]
WithS(e, n, b)   == [s |-> "with", e |-> e, n |-> n, b |-> b]
TryS(a, n, t, b, f) == [s |-> "try", a |-> a, n |-> n, t |-> t, b |-> b, f |-> f]
ThrowS(e)        == [s |-> "throw", e |-> e]
AssertS(e)       == [s |-> "assert", e |-> e]
DelS(e)          == [s |-> "del", e |-> e]
MatchS(e, p, g, b) == [s |-> "match", e |-> e, p |-> p, g |-> g, b |-> b]
SendS(ch, e)     == [s |-> "send", ch |-> ch, e |-> e]
ImportS(n)       == [s |-> "import", n |-> n]
ParamOf(n, t, d) == [n |-> n, t |-> t, d |-> d]
FuncDef(n, tps, ps, r, b) ==
  [s |-> "func", n |-> n, tps |-> tps, ps |-> ps, r |-> r, b |-> b]
InitDef(ps, b)   == [s |-> "init", ps |-> ps, b |-> b]
ClassDef(n, base, extra, ifaces, b) ==
  [s |-> "class", n |-> n, base |-> base, extra |-> extra, ifaces |-> ifaces, b |-> b]
IfaceDef(n, ms)  == [s |-> "iface", n |-> n, ms |-> ms]
EnumDef(n, ms)   == [s |-> "enum", n |-> n, ms |-> ms]
=============================================================================
