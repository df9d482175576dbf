------------------------------ MODULE MCEscapes ------------------------------
\* What include/escape_analyzer.h says of the values that leave a function,
\* over the functions that put a list into a field, into an element or into
\* another list, and then return.
EXTENDS Frontend, MCPrograms

Lists2 == [k |-> "list", e |-> Ints]
Stored == {Assign(Member(Name("o"), "x"), NoType, A1), Assign(Index(Name("l"), One), NoType, A1),
           Let("b", ListE(<<A1>>))}
Stores ==
  {<<ClassA, Def("g", <<P("l", Lists2), P("o", ObjA)>>, t,
                 <<Let("a", ListE(<<One>>)), st, ReturnS(r)>>)>> :
     st \in Stored, r \in {One, B1, ListE(<<A1>>)}, t \in {Int, Lists2}}
=============================================================================
