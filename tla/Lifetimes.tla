------------------------------ MODULE Lifetimes ------------------------------
(***************************************************************************)
(* What the escape analysis is about: the allocations of a function that   *)
(* may be reached once it has returned.  The statements are followed in    *)
(* order, up to a return or a throw, both branches of a choice and the     *)
(* body of a loop twice, with                                              *)
(*   val    variable -> the allocations it may hold                        *)
(*   holds  allocation -> the allocations stored in it                     *)
(*   out    the allocations that left, each with how                       *)
(*   over   a return or a throw has left the function                      *)
(* include/escape_analyzer.h:22 names the ways: "return, global store,     *)
(* field store, unknown-call argument, or closure capture".                *)
(***************************************************************************)
EXTENDS Naturals, SequencesExt, FiniteSetsExt, TLC, Expressions

LOCAL A == INSTANCE Analyzers

Get(f, k) == IF k \in DOMAIN f THEN f[k] ELSE {}

\* The allocations a value may be, or have in it.
RECURSIVE Sites(_, _), Out(_, _), Follow(_, _), FollowAll(_, _)
Sites(e, s) ==
  CASE e.x = "name"   -> Get(s.val, e.n)
    [] e.x = "lambda" -> UNION {Get(s.val, n) : n \in e.caps}
    [] e.x = "call"   -> UNION {Sites(a, s) : a \in Range(e.as)}
    [] e.x \in {"index", "member"} -> UNION {Get(s.holds, a) : a \in Sites(e.o, s)}
    [] OTHER          -> UNION {Sites(p, s) : p \in A!Parts(e)}

Named(e) == IF e.x = "name" THEN "by name" ELSE "inside a value"
Leave(e, how, s) == [s EXCEPT !.out = @ \cup {<<a, how, Named(e)>> : a \in Sites(e, s)}]

\* What a call, a goroutine or a closure inside an expression is given.
Out(e, s) ==
  LET in == FoldLeft(LAMBDA a, p : Out(p, a), s, SetToSeq(A!Parts(e)))
  IN  CASE e.x \in {"call", "go"} -> FoldLeft(LAMBDA a, p : Leave(p, "argument", a), in, e.as)
        [] e.x = "lambda" -> FoldLeft(LAMBDA a, n : Leave(Name(n), "capture", a), in, SetToSeq(e.caps))
        [] OTHER -> in

Bind(n, as, s) == [s EXCEPT !.val = (n :> as) @@ @]
FollowAssign(t, s) ==
  LET s1 == Out(t.e, s)
      new == <<s.fn, t.g.n, t.e>>
      in == Sites(t.e, s1)
  IN  IF t.g.x = "name" /\ A!Allocates(t.e)
      THEN Bind(t.g.n, {new}, [s1 EXCEPT !.holds = (new :> (Get(@, new) \cup in)) @@ @])
      ELSE IF t.g.x = "name" THEN Bind(t.g.n, in, s1)
      ELSE LET into == Sites(t.g.o, s1)
           IN  IF into = {} THEN Leave(t.e, "store", s1)
               ELSE [s1 EXCEPT !.holds = [a \in into |-> Get(@, a) \cup in] @@ @]

\* An allocation that left takes with it what is stored in it.
RECURSIVE Reach(_, _)
Reach(as, holds) ==
  LET more == as \cup UNION {Get(holds, a) : a \in as}
  IN  IF more = as THEN as ELSE Reach(more, holds)

\* What is stored in an allocation that left in one of these ways.
WentWith(ways, s) == Reach({o[1] : o \in {p \in s.out : p[2] \in ways}}, s.holds)

\* The end of a way through the function: nothing more is stored.
Ways == {"return", "store", "argument", "capture", "throw", "send"}
End(s) ==
  [s EXCEPT !.over = TRUE,
            !.out = @ \cup UNION {WentWith({w}, s) \X {w} \X {"inside a value"} : w \in Ways}]
Leaves(t, s) == End(IF t.e = NoExpr THEN s ELSE Leave(t.e, t.s, Out(t.e, s)))

\* After a choice a variable holds what either branch left in it, of those
\* that have not left the function.
Merge(f, g) == [k \in DOMAIN f \cup DOMAIN g |-> Get(f, k) \cup Get(g, k)]
Either(a, b) ==
  LET out == a.out \cup b.out
  IN  CASE a.over -> [b EXCEPT !.out = out]
        [] b.over -> [a EXCEPT !.out = out]
        [] OTHER  -> [a EXCEPT !.val = Merge(@, b.val), !.holds = Merge(@, b.holds), !.out = out]

Follow(t, s) ==
  CASE s.over                      -> s
    [] t.s \in {"return", "throw"} -> Leaves(t, s)
    [] t.s = "assign" -> FollowAssign(t, s)
    [] t.s = "send"   -> Leave(t.e, "send", Out(t.e, s))
    [] t.s = "expr"   -> Out(t.e, s)
    [] t.s = "if"     -> Either(FollowAll(t.a, Out(t.c, s)), FollowAll(t.b, Out(t.c, s)))
    [] t.s \in {"for", "while"} -> Either(s, FollowAll(t.b \o t.b, s))
    [] OTHER          -> s
FollowAll(list, s) == FoldLeft(LAMBDA a, t : Follow(t, a), s, list)

Start(n) == [val |-> << >>, holds |-> << >>, out |-> {}, over |-> FALSE, fn |-> <<n>>]
Run(f)   == FollowAll(f.b, Start(f.n))

\* The allocations of function f that leave it in a way the header names.
Outliving(f) == WentWith({"return", "store", "argument", "capture"}, Run(f))

\* Those that leave by the name of a variable that only they are assigned to.
LeavingByName(f) ==
  {o[1] : o \in {p \in Run(f).out :
     /\ p[2] \in {"return", "argument", "capture"} /\ p[3] = "by name"}}
=============================================================================
