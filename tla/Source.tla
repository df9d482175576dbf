------------------------------- MODULE Source -------------------------------
(***************************************************************************)
(* What a Visuall function promises to do: the statements of include/ast.h *)
(* that move control, and their meaning as the README's language reference *)
(* gives it.  This is the abstract specification Lowering is compared with *)
(* (what the function emitted by src/codegen.cpp does when it runs).       *)
(*                                                                         *)
(* A statement is a record whose "k" names the node.  Data is one integer  *)
(* parameter x, locals set from x, and loop variables counting from 0;     *)
(* everything observable is appended to a trace.                           *)
(***************************************************************************)
EXTENDS Integers, Sequences

\* Exception classes of the programs: AnyError extends nothing, SubError
\* extends AnyError; "" is an exception thrown from a plain string.
BaseOf == [SubError |-> "AnyError", AnyError |-> ""]

\* ---------------------------------------------------------------- nodes
Act(e)            == [k |-> "act", e |-> e]            \* a call that returns
Put(v)            == [k |-> "put", v |-> v]            \* print(v)
Inc               == [k |-> "inc"]                     \* x = x + 1
Let(v)            == [k |-> "let", v |-> v]            \* v = x
Pass              == [k |-> "pass"]
Break             == [k |-> "break"]
Continue          == [k |-> "continue"]
Return(e)         == [k |-> "return", e |-> e]         \* return f(), or e = ""
Yield(v)          == [k |-> "yield", v |-> v]
Throw(c)          == [k |-> "throw", c |-> c]
Rethrow           == [k |-> "rethrow"]                 \* throw without operand
Call(c)           == [k |-> "call", c |-> c]           \* throws c if x > 0
AssertLt(n)       == [k |-> "assert", n |-> n]         \* assert x < n
If(arms, b)       == [k |-> "if", arms |-> arms, b |-> b]
Arm(n, a)         == [n |-> n, a |-> a]                \* if x < n: a
While(n, a, b)    == [k |-> "while", n |-> n, a |-> a, b |-> b]
For(it, n, a, b)  == [k |-> "for", it |-> it, n |-> n, a |-> a, b |-> b]
Try(a, cs, f)     == [k |-> "try", a |-> a, cs |-> cs, f |-> f]
Catch(t, a)       == [t |-> t, a |-> a]
With(a)           == [k |-> "with", a |-> a]
Match(cs)         == [k |-> "match", cs |-> cs]        \* match x
Case(p, g, a)     == [p |-> p, g |-> g, a |-> a]       \* p = -1: wildcard;
                                                       \* g: guard x < g, or -1
Kinds == {"act", "put", "inc", "let", "pass", "break", "continue", "return",
          "yield", "throw", "rethrow", "call", "assert", "if", "while", "for",
          "try", "with", "match"}

\* The statement lists directly inside a statement.
Bodies(s) ==
  CASE s.k \in {"while", "for"} -> <<s.a, s.b>>
    [] s.k = "if"    -> [i \in DOMAIN s.arms |-> s.arms[i].a] \o <<s.b>>
    [] s.k = "try"   -> <<s.a>> \o [i \in DOMAIN s.cs |-> s.cs[i].a] \o <<s.f>>
    [] s.k = "with"  -> <<s.a>>
    [] s.k = "match" -> [i \in DOMAIN s.cs |-> s.cs[i].a]
    [] OTHER         -> <<>>

\* Some statement of a list, at any depth, satisfies the predicate Is.
RECURSIVE Within(_)
Within(list) ==
  UNION { {list[i]} \cup UNION { Within(Bodies(list[i])[j]) : j \in DOMAIN Bodies(list[i]) }
          : i \in DOMAIN list }
Has(list, k) == \E s \in Within(list) : s.k = k

-----------------------------------------------------------------------------
(***************************************************************************)
(* Meaning.  A store: the variables, the trace, how the last statement     *)
(* ended (sig; exc is the class in flight, cur the class being handled)    *)
(* and the loop iterations left before a run counts as endless.            *)
(***************************************************************************)
Say(st, e)    == [st EXCEPT !.out = Append(@, e)]
End(st, g)    == [st EXCEPT !.sig = g]
Raise(st, c)  == [st EXCEPT !.sig = "throw", !.exc = c]

RECURSIVE Ancestors(_)
Ancestors(c) == IF c = "" THEN {} ELSE {c} \cup Ancestors(BaseOf[c])

\* A clause catches its class and every class derived from it.
Catches(clause, c) == clause.t = "" \/ clause.t \in Ancestors(c)

RECURSIVE Exec(_, _), ExecList(_, _), WhileFrom(_, _), ForFrom(_, _, _)

ExecList(list, st) ==
  IF list = <<>> \/ st.sig # "go" THEN st
  ELSE ExecList(Tail(list), Exec(Head(list), st))

\* The exits of a body that end the loop around it; a break skips the else.
AfterBody(st, again) ==
  CASE st.sig \in {"go", "continue"} -> again
    [] st.sig = "break"              -> End(st, "go")
    [] OTHER                         -> st

Tick(st) == [st EXCEPT !.fuel = @ - 1, !.sig = "go"]

WhileFrom(s, st) ==
  IF st.fuel = 0 THEN End(st, "long")
  ELSE IF st.env["x"] < s.n
       THEN LET b == ExecList(s.a, st) IN AfterBody(b, WhileFrom(s, Tick(b)))
       ELSE ExecList(s.b, st)

ForFrom(s, i, st) ==
  IF st.fuel = 0 THEN End(st, "long")
  ELSE IF i < s.n
       THEN LET b == ExecList(s.a, [st EXCEPT !.env["y"] = i])
            IN  AfterBody(b, ForFrom(s, i + 1, Tick(b)))
       ELSE ExecList(s.b, st)

\* The first clause that catches runs with the exception as the current one.
Handle(s, st) ==
  LET hits == {i \in DOMAIN s.cs : Catches(s.cs[i], st.exc)}
  IN  IF st.sig # "throw" \/ hits = {} THEN st
      ELSE LET i == CHOOSE i \in hits : \A j \in hits : i <= j
               b == ExecList(s.cs[i].a, [st EXCEPT !.sig = "go", !.cur = st.exc])
           IN  [b EXCEPT !.cur = st.cur]

\* The cleanup runs however the body ended and keeps that ending, unless it
\* ends in a jump or an exception of its own.
Finally(list, st) ==
  IF st.sig \in {"halt", "long"} THEN st
  ELSE LET f == ExecList(list, End(st, "go"))
       IN  IF f.sig = "go" THEN [f EXCEPT !.sig = st.sig, !.exc = st.exc] ELSE f

Taken(s, st) ==
  LET hits == {i \in DOMAIN s.arms : st.env["x"] < s.arms[i].n}
  IN  IF hits = {} THEN s.b ELSE s.arms[CHOOSE i \in hits : \A j \in hits : i <= j].a

Chosen(s, st) ==
  LET hits == {i \in DOMAIN s.cs :
                 /\ s.cs[i].p \in {-1, st.env["x"]}
                 /\ s.cs[i].g = -1 \/ st.env["x"] < s.cs[i].g}
  IN  IF hits = {} THEN <<>>
      ELSE s.cs[CHOOSE i \in hits : \A j \in hits : i <= j].a

Exec(s, st) ==
  CASE s.k = "act"      -> Say(st, s.e)
    [] s.k = "put"      -> Say(st, <<s.v, st.env[s.v]>>)
    [] s.k = "inc"      -> [st EXCEPT !.env["x"] = @ + 1]
    [] s.k = "let"      -> [st EXCEPT !.env[s.v] = st.env["x"]]
    [] s.k = "pass"     -> st
    [] s.k = "break"    -> End(st, "break")
    [] s.k = "continue" -> End(st, "continue")
    [] s.k = "return"   -> End(IF s.e = "" THEN st ELSE Say(st, s.e), "return")
    [] s.k = "yield"    -> Say(st, <<"yield", st.env[s.v]>>)
    [] s.k = "throw"    -> Raise(st, s.c)
    [] s.k = "rethrow"  -> Raise(st, st.cur)
    [] s.k = "call"     -> IF st.env["x"] > 0 THEN Raise(Say(st, "call"), s.c)
                                              ELSE Say(st, "call")
    [] s.k = "assert"   -> IF st.env["x"] < s.n THEN st ELSE End(st, "halt")
    [] s.k = "if"       -> ExecList(Taken(s, st), st)
    [] s.k = "while"    -> WhileFrom(s, st)
    [] s.k = "for"      -> [ForFrom(s, 0, st) EXCEPT !.env["y"] = st.env["y"]]
    [] s.k = "try"      -> Finally(s.f, Handle(s, ExecList(s.a, st)))
    [] s.k = "with"     -> Finally(<<Act("exit")>>, ExecList(s.a, Say(st, "enter")))
    [] s.k = "match"    -> ExecList(Chosen(s, st), st)

\* A function called with x = 0; a generator is driven to its end.
Meaning(body, fuel) ==
  LET st == ExecList(body, [env |-> [x |-> 0, y |-> 0, z |-> 0], out |-> <<>>,
                            sig |-> "go", exc |-> "", cur |-> "", fuel |-> fuel])
  IN  [out |-> st.out,
       end |-> IF st.sig = "throw" THEN <<"throw", st.exc>>
               ELSE IF st.sig \in {"halt", "long"} THEN <<st.sig>> ELSE <<"done">>]
=============================================================================
