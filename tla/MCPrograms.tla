------------------------------ MODULE MCPrograms ------------------------------
\* The programs the passes of Frontend are run on: every way to put two
\* values of known types together, in the file, in a function and in a class.
EXTENDS Naturals, Sequences, Expressions

Int == [k |-> "int"]    Flt == [k |-> "float"]   St == [k |-> "str"]
Bo  == [k |-> "bool"]   Vd  == [k |-> "void"]    Ints == [k |-> "list", e |-> Int]
ObjA == [k |-> "class", n |-> "A"]
TVar == [k |-> "typevar", n |-> "T"]
OptInt == [k |-> "union", ms |-> <<Int, [k |-> "null"]>>]
Types == {NoType, Int, Flt, St, Bo, ObjA, Ints, OptInt}

One == Lit("int")
P(n, t) == ParamOf(n, t, NoExpr)
Def(n, ps, r, b) == FuncDef(n, <<>>, ps, r, b)
Method(n, e) == Def(n, <<>>, Int, <<ReturnS(e)>>)
Show(e) == ExprStmt(CallE(Name("print"), <<e>>))
Let(n, e) == Assign(Name(n), NoType, e)
New(c, e) == CallE(Name(c), <<e>>)
Call1(f, e) == CallE(Name(f), <<e>>)
Init1(f) == InitDef(<<P("p", Int)>>, <<Assign(Member(This, f), NoType, Name("p"))>>)
ClassA == ClassDef("A", "", <<>>, <<>>, <<Init1("x"), Method("get", Member(This, "x"))>>)
FuncF  == Def("f", <<P("p", Int)>>, Int, <<ReturnS(Name("p"))>>)

Ops == {"Add", "Sub", "IntDiv", "Eq", "Neq", "Lt", "And", "In", "BitAnd", "Coalesce"}
Literals == {Lit(t) : t \in {"int", "float", "str", "bool", "null"}}
Values == Literals \cup {New("A", One), ListE(<<One>>)}

\* One expression over the atoms of as.
Over(as) ==
  as \cup {Bin(op, l, r) : op \in Ops, l \in as, r \in as}
     \cup {Un(op, e) : op \in {"Neg", "Not", "BitNot"}, e \in as}
     \cup {Call1(f, e) : f \in {"f", "A"}, e \in as}
     \cup {Member(e, "x") : e \in as} \cup {CallE(Member(e, "get"), <<>>) : e \in as}
     \cup {Index(a, b) : a \in as, b \in as} \cup {Slice(a, b) : a \in as, b \in as}
     \cup {ListE(<<a, b>>) : a \in as, b \in as} \cup {DictE(<<a>>, <<b>>) : a \in as, b \in as}
     \cup {Ternary(Lit("bool"), a, b) : a \in as, b \in as}
     \cup {Comp("y", a, b) : a \in as, b \in as \cup {Name("y")}}
     \cup {Lambda(<<"y">>, Bin("Add", Name("y"), e)) : e \in as}

Names(ns) == {Name(n) : n \in ns}
InFile ==
  {<<ClassA, FuncF, Let("s", Lit("str")), Let("l", ListE(<<One>>)), Let("o", New("A", One)), Show(e)>> :
     e \in Over(Literals \cup Names({"s", "l", "o", "f"}))}
Params == <<P("a", Int), P("s", St), P("l", Ints), P("o", ObjA), P("b", Bo), P("d", Flt)>>
InFunction ==
  {<<ClassA, FuncF, Def("g", Params, NoType, <<Show(e)>>)>> :
     e \in Over(Names({"a", "s", "l", "o", "b", "d"}))}

\* Each statement that gives a variable a value, or looks at one.
V == Name("v")
Statements ==
  {<<Assign(V, t, e), Show(V)>> : t \in Types, e \in Values}
  \cup {<<Let("v", d), Let("v", e), Show(V)>> : d \in Values, e \in Values}
  \cup {<<Const("v", t, e), Show(V)>> : t \in Types, e \in Values}
  \cup {<<Unpack(<<"v">>, e), Show(V)>> : e \in Values}
  \cup {<<ForS("v", e, <<Show(V)>>)>> : e \in Values}
  \cup {<<WithS(e, "v", <<Show(V)>>)>> : e \in Values}
  \cup {<<ThrowS(e)>> : e \in Values} \cup {<<AssertS(e)>> : e \in Values}
  \cup {<<Let("v", ListE(<<One>>)), DelS(Index(V, e))>> : e \in Values}
  \cup {<<MatchS(e, d, NoExpr, <<>>)>> : e \in Values, d \in Values}
  \cup {<<MatchS(One, One, e, <<>>)>> : e \in Values}
  \cup {<<IfS(e, <<Let("w", One)>>, <<WhileS(e, <<Show(e)>>)>>)>> : e \in Values}
  \cup {<<TryS(<<>>, "v", St, <<Show(V)>>, <<Show(One)>>)>>}
  \cup {<<Let("v", Call1("make_chan", One)), SendS(V, e), Show(Recv(V))>> : e \in Values}
  \cup {<<Let("v", Call1("make_chan", One)), SendS(Go(Name("f"), <<e>>), One)>> : e \in Values}
  \cup {<<Show(Walrus("v", e)), Show(V)>> : e \in Values}
  \cup {<<Show(DictComp("y", ListE(<<e>>), Name("y"), e))>> : e \in Values}
  \cup {<<Show(Call1(n, e))>> : n \in {"len", "str", "int", "input"}, e \in Values}
  \cup {<<Show(CallE(Name("isinstance"), <<e, Name("A")>>))>> : e \in Values}
  \cup {<<Show(TupleE(<<e, Spread(e)>>))>> : e \in Values}
  \cup {<<EnumDef("E", <<"red">>), ImportS("m"), Show(Member(Name("E"), "red"))>>}

OneFunction ==
  {<<Def("g", <<P("p", t)>>, r, <<ReturnS(Name("p"))>>), Show(Call1("g", e))>> :
     t \in Types, r \in (Types \ {OptInt}) \cup {Vd}, e \in Values}
  \cup {<<Def("g", <<>>, r, <<ReturnS(e)>>), Show(CallE(Name("g"), <<>>))>> : r \in Types, e \in Values}
  \cup {<<Def("g", <<ParamOf("p", t, e)>>, NoType, <<Show(Name("p"))>>), Show(CallE(Name("g"), <<>>))>> :
          t \in Types, e \in Values}
  \cup {<<FuncDef("g", <<"T">>, <<P("p", TVar)>>, TVar, <<ReturnS(Name("p"))>>),
          Show(CallT(Name("g"), <<e>>, ts))>> : e \in Values, ts \in {<<>>, <<Int>>, <<St>>, <<Flt>>}}

\* A variable of one function, then a parameter of another with its name.
TwoFunctions ==
  {<<Def("g", <<>>, NoType, <<Let("v", e)>>), Def("h", <<P("v", t)>>, NoType, <<Show(op)>>)>> :
     e \in Values, t \in Types, op \in {Index(V, One), Bin("Add", V, V), Member(V, "x"),
                                        CallE(Member(V, "get"), <<>>)}}
\* A variable of the file, used in a function before or after it changes.
Around(e) ==
  {<<Let("v", e), Def("h", <<>>, NoType, b), Show(V)>> :
     b \in {<<Show(V)>>, <<Let("v", e)>>, <<Let("v", e), Show(V)>>}}
  \cup {<<Let("v", e), Def("h", <<>>, NoType, <<Show(V)>>), Let("v", e)>>,
        <<Def("h", <<>>, NoType, <<Show(V)>>), Let("v", e)>>}
FileVariables == UNION {Around(e) : e \in Values}

\* What a lambda captures: of the file, of a function, of another lambda.
Lam(b) == Lambda(<<"y">>, b)
Captured == {V, Name("f"), Name("A"), Name("print"), Bin("Add", Name("y"), V), Call1("f", Name("y")),
             Lam(V), Lam(Name("y")), Lambda(<<"z">>, Bin("Add", Name("y"), V)),
             Comp("y", ListE(<<One>>), Bin("Add", Name("y"), V)), Call1("len", Name("y"))}
Lambdas ==
  {<<Let("v", e), Let("k", Lam(b))>> \o more \o <<Show(Call1("k", One))>> :
     e \in {One, Lit("float"), Lit("bool"), Lit("str")}, b \in Captured,
     more \in {<<>>, <<Let("v", One)>>}}
  \cup {<<Def("h", <<P("p", Int)>>, Int, <<Let("v", One), Let("k", Lam(b)), ReturnS(Call1("k", One))>>)>> :
          b \in Captured \cup {Name("p")}}
  \cup {<<Let("v", One), Def("h", <<P("p", Int)>>, Int, <<Let("k", Lam(b)), ReturnS(Call1("k", One))>>)>> :
          b \in Captured \cup {Name("p")}}

\* Classes that extend one another, with a field and a method each.
Class(n, base, extra, b) == ClassDef(n, base, extra, <<>>, b)
GetFloat(f) ==
  <<Def("get", <<P("p", Flt)>>, Flt, <<Assign(Member(This, f), NoType, Name("p")), ReturnS(Name("p"))>>)>>
Bodies(f) == {<<Init1(f)>>, <<Init1("x"), Method("get", Member(This, f))>>, <<Method("get", One)>>,
              GetFloat(f)}
Hierarchies ==
  {<<ClassA, Class("D", "", <<>>, GetFloat("d")), Class("B", "A", <<>>, b), Class("C", base, extra, c), Let("o", CallE(Name("C"), args)),
     Show(Member(Name("o"), m)), Show(CallE(Member(Name("o"), "get"), <<>>))>> :
     b \in Bodies("b"), c \in Bodies("c"), base \in {"A", "B"}, extra \in {<<>>, <<"B">>, <<"D">>},
     args \in {<<>>, <<One>>}, m \in {"x", "b", "c"}}
  \cup {<<IfaceDef("I", {"get"}), ClassDef("B", "", <<>>, <<"I">>, b)>> : b \in Bodies("b")}
  \cup {<<ClassA, Class("B", "A", <<>>, <<Init1("b"), Method("get", CallE(Member(o, "get"), <<>>))>>)>> :
          o \in {Super, This}}

\* What becomes of the lists of a function.
A1 == Name("a")   B1 == Name("b")
Uses == {Let("a", ListE(<<One, One>>)), Let("b", A1), Let("b", ListE(<<A1>>)), Let("b", Lambda(<<>>, A1)),
         Let("b", Call1("f", A1)), Assign(Member(Name("o"), "x"), NoType, A1),
         Assign(Index(Name("l"), One), NoType, A1), Show(A1), Show(Bin("Add", One, Call1("f", A1))),
         ExprStmt(Go(Name("f"), <<A1>>)), SendS(Name("l"), A1), ThrowS(A1),
         IfS(Lit("bool"), <<Let("a", ListE(<<One, One, One>>))>>, <<>>), ForS("i", One, <<Let("b", ListE(<<One>>))>>)}
ResultOf(r) == IF r = One THEN Int ELSE IF r.x = "list" THEN [k |-> "list", e |-> Ints] ELSE Ints
Lists ==
  {<<FuncF, Def("g", <<P("l", Ints), P("o", ObjA)>>, ResultOf(r),
                <<Let("a", ListE(<<One>>)), st[1], st[2], ReturnS(r)>>)>> :
     st \in {p \in Uses \X Uses : p[1] # p[2]}, r \in {One, A1, B1, ListE(<<A1>>)}}

AllPrograms ==
  InFile \cup InFunction \cup TwoFunctions \cup Lambdas \cup Hierarchies \cup Lists
  \cup {<<ClassA, FuncF>> \o p : p \in Statements \cup OneFunction \cup FileVariables}

-----------------------------------------------------------------------------
\* Files for the lexer: code at depths that spaces, tabs and both show, blank
\* lines, and comments of either kind.
FileLine(lead, body) == [lead |-> lead, body |-> body]
Tab       == <<"t">>
Space(n)  == [i \in 1 .. n |-> "s"]
CodeLeads == {<< >>, Tab, Tab \o Tab, Space(4), Space(5), Space(3) \o Tab, Space(2) \o Tab}
Lines ==
  {FileLine(lead, <<"code">>) : lead \in CodeLeads}
  \cup {FileLine(lead, << >>) : lead \in {<< >>, Space(4)}}
  \cup {FileLine(lead, <<"hash">>) : lead \in {<< >>, Tab \o Tab}}
  \cup {FileLine(<< >>, <<"mark">>), FileLine(Tab, <<"code", "mark">>), FileLine(Tab, <<"mark", "code">>)}
Files(max) == UNION {[1 .. n -> Lines] : n \in 1 .. max}

\* Documents for the language server: two lines, one with a character of two
\* bytes, and one for each pass that may find an error.
Documents ==
  {<<"a", "break">>, <<"break", "wide">>, <<"type">>, <<"parenthesis">>, <<"quote">>}
=============================================================================
