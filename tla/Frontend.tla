------------------------------- MODULE Frontend -------------------------------
(***************************************************************************)
(* The passes src/main.cpp runs on a parsed program before its module is   *)
(* verified: capture, class and escape analysis, type checking and code    *)
(* generation.  Each is a step; a type error ends the compilation, as does *)
(* an error of the generator.                                              *)
(***************************************************************************)
EXTENDS Naturals, Sequences, FiniteSets, TLC

CONSTANT Programs       \* parsed programs: sequences of the statements of Expressions

A == INSTANCE Analyzers
T == INSTANCE TypeChecker
G == INSTANCE Representation
L == INSTANCE Lifetimes

VARIABLES phase, program, fields, stack, checker, gen

vars == <<phase, program, fields, stack, checker, gen>>

None == [none |-> TRUE]

Init == /\ phase = "parsed" /\ program \in Programs
        /\ fields = << >> /\ stack = {} /\ checker = None /\ gen = None

AnalyseCaptures ==
  /\ phase = "parsed" /\ phase' = "captures"
  /\ program' = A!WithCaptures(program)
  /\ UNCHANGED <<fields, stack, checker, gen>>

AnalyseClasses ==
  /\ phase = "captures" /\ phase' = "classes"
  /\ fields' = A!ClassFields(program)
  /\ UNCHANGED <<program, stack, checker, gen>>

AnalyseEscapes ==
  /\ phase = "classes" /\ phase' = "escapes"
  /\ stack' = A!StackAllocatable(program)
  /\ UNCHANGED <<program, fields, checker, gen>>

CheckTypes ==
  /\ phase = "escapes"
  /\ checker' = T!Checked(program)
  /\ phase' = IF checker'.errs = <<>> THEN "typed" ELSE "rejected"
  /\ UNCHANGED <<program, fields, stack, gen>>

Generate ==
  /\ phase = "typed"
  /\ gen' = G!Generated(program, fields, stack)
  /\ phase' = IF gen'.bad = {} THEN "generated" ELSE "failed"
  /\ UNCHANGED <<program, fields, stack, checker>>

Next == AnalyseCaptures \/ AnalyseClasses \/ AnalyseEscapes \/ CheckTypes \/ Generate

Spec == Init /\ [][Next]_vars

-----------------------------------------------------------------------------
(***************************************************************************)
(* What the checker accepts.  A use is loose when a type is not known, or  *)
(* is one of several.  The other uses below are accepted whatever their    *)
(* operands are, or with a meaning of their own, although the generator    *)
(* has no code for them:                                                   *)
(*   the index of a list, a text or a slice need not be an integer, nor    *)
(*   the value of an iteration or of an unpacking be a collection;         *)
(*   a key, or the left side of in, is turned into text as an integer;     *)
(*   ?? and bitwise operators take integers of one width;                  *)
(*   a thrown value is printed as a text or an integer;                    *)
(*   the arguments of a constructor are not compared with its parameters;  *)
(*   two texts are added, and a text is indexed, only when it is known to  *)
(*   be a text by the form of the expression, which a parameter is not.    *)
(***************************************************************************)
Scalars  == {"float", "bool", "func"}
LooseKinds == {"unknown", "null", "union", "typevar", "interface", "chan", "void"}
Harmless == {<<"return", "unknown", "int">>, <<"parameter", "unknown", "unknown">>}
Loose(u) == u \notin Harmless /\ \E i \in 2 .. Len(u) : u[i] \in LooseKinds

Indexed == {<<"index", k, "int">> : k \in {"list", "tuple", "str", "dict"}} \cup {<<"index", "dict", "str">>}
Sliced  == {<<"slice", k, "int">> : k \in {"list", "str"}}
Unsupported(u) ==
  \/ u[1] = "index" /\ u \notin Indexed
  \/ u[1] = "slice" /\ u \notin Sliced
  \/ u[1] \in {"key", "iterate", "throw", "unpack", "construct"} /\ u[2] \in Scalars
  \/ u[1] = "In" /\ u[2] \in Scalars
  \/ u[1] = "Coalesce" /\ {u[2], u[3]} \cap Scalars # {}
  \/ u[1] = "BitAnd" /\ u[2] # u[3]
TextParameter(us) ==
  <<"parameter", "str", "str">> \in us /\ {<<"Add", "str", "str">>, <<"index", "str", "int">>} \cap us # {}

Sound(us) == ~TextParameter(us) /\ \A u \in us : ~Loose(u) /\ ~Unsupported(u)

(* What is generated, but is not what was written: an integer in the cell of
   a float, two types in a variable, a member of what is no object, ?? on
   pointers, a bool operand of a bitwise operator; a method of a parameter
   is not called at all. *)
Converted(us) ==
  \/ \E u \in us :
       \/ (u[1] \in {"store", "again", "parameter"} /\ u[2] # u[3])
       \/ (u[1] = "member" /\ u[2] # "class")
       \/ (u[1] \in {"Coalesce", "BitAnd"} /\ <<u[2], u[3]>> # <<"int", "int">>)
       \/ u = <<"print", "func">>
  \/ {<<"parameter", "class", "class">>, <<"member", "class">>} \subseteq us

\* ---------------------------------------------------------------- programs
RECURSIVE Under(_), Within(_)
Under(e)    == {e} \cup UNION {Under(p) : p \in A!Parts(e)}
Elems(q)    == {q[i] : i \in DOMAIN q}
Within(s)   == {s} \cup UNION {UNION {Within(t) : t \in Elems(s[f])} : f \in {"a", "b", "f"} \cap DOMAIN s}
Exprs(s)    == UNION {UNION {Under(t[f]) : f \in {"e", "c", "it", "ch", "p", "g"} \cap DOMAIN t} : t \in Within(s)}
Functions   == {s \in Elems(program) : s.s = "func"}
NamesOf(s)  == {e.n : e \in {d \in Exprs(s) : d.x = "name"}}
Assigned(s) == {t.g.n : t \in {u \in Within(s) : u.s = "assign" /\ u.g.x = "name"}}
FileNames   == UNION {Assigned(s) : s \in Elems(program) \ Functions}

(* What the code keeps by name, or by class, and so loses:                  *)
(*   a variable of the file has a stack cell, which the statements of the   *)
(*   file assign, and a global, which functions read;                       *)
(*   a name that held a text, or an object, in one function is taken for    *)
(*   one in the next;                                                       *)
(*   an object that may live on the stack is not initialised: the name of   *)
(*   its init is not the name the class was given;                          *)
(*   a field that is never assigned has no place. *)
SharedVariable == \E f \in Functions : NamesOf(f) \cap FileNames # {}
ReusedName     == \E f, g \in Functions : f # g /\ \E i \in DOMAIN g.ps : g.ps[i].n \in Assigned(f)
LocalObject    == \E a \in stack : a[3].x = "call" /\ a[3].f.x = "name" /\ a[3].f.n \in DOMAIN fields
NoSuchField ==
  \E s \in Elems(program) : s.s = "class" /\
    \E e \in Exprs(s) : e.x = "member" /\ e.o = [x |-> "this"] /\
       e.m \notin {t.n : t \in {u \in Elems(s.b) : u.s = "func"}} \cup (IF s.n \in DOMAIN fields THEN Elems(fields[s.n]) ELSE {})
Lost == SharedVariable \/ ReusedName \/ LocalObject \/ NoSuchField

Rep(k) == CASE k = "int" -> "i64" [] k = "float" -> "dbl" [] k = "bool" -> "i1"
            [] k = "func" -> "clo" [] OTHER -> "ptr"

Compiled == phase \in {"generated", "failed"}

(* A program the type checker accepts, and whose types it knows, is turned
   into instructions LLVM verifies. *)
AcceptedBuilds == Compiled /\ Sound(checker.uses) => gen.bad = {}

(* ... and every variable is read as the type last stored, no call is left
   out, and what is printed has the representation of its static type. *)
ValuesKeepTheirTypes ==
  phase = "generated" /\ Sound(checker.uses) /\ ~Converted(checker.uses) /\ ~Lost =>
    /\ gen.mis = {}
    /\ gen.shown = {Rep(u[2]) : u \in {v \in checker.uses : v[1] = "print"}}
(***************************************************************************)
(* What one pass promises the next.                                        *)
(***************************************************************************)
(* Every name a lambda uses is found when its code is emitted, in a cell of
   the function the lambda is in.  Not so: a function or print is captured
   like a variable, a variable of the file is a cell of another function in
   a function, and a lambda inside another has the cells of neither. *)
LambdasOf(s) == {e \in Exprs(s) : e.x = "lambda"}
Callables == {"print"} \cup {s.n : s \in {t \in Elems(program) : t.s \in {"func", "class"}}}
NotOwn(l) == \/ l.caps \cap Callables # {}
             \/ \E m \in Under(l.b) : m.x = "lambda" /\ (Under(m.b) \cap {e \in Under(l.b) : e.x = "name"}) # {}
CapturesResolve ==
  Compiled /\ gen.bad \cap {"unknown variable", "cell of another function"} # {} =>
    \/ \E s \in Elems(program) : \E l \in LambdasOf(s) : NotOwn(l)
    \/ \E s \in Functions : \E l \in LambdasOf(s) : l.caps \cap (FileNames \ Assigned(s)) # {}

(* The fields of a class start with those of its first base: code of the
   base finds a field of any instance at its place. *)
ClassNamed == [n \in DOMAIN fields |-> CHOOSE s \in Elems(program) : s.s = "class" /\ s.n = n]
FieldsExtendBase ==
  \A n \in DOMAIN fields :
    LET b == ClassNamed[n].base
    IN  b \in DOMAIN fields => SubSeq(fields[n], 1, Len(fields[b])) = fields[b]

(* A method the checker finds for a class is the one the generator calls,
   with the parameters and the result that were checked. *)
RepT(t) == G!RepOf(t, gen)
MethodsAgree ==
  Compiled =>
    \A c \in DOMAIN checker.classes, m \in {"get"} :
      LET t == T!MemberOf(T!Class(c), m, checker)
          at == G!FindMethod(<<c>>, {}, m, gen)
      IN  t.k = "func" =>
            /\ at # ""
            /\ gen.funs[<<at, m>>].ret = RepT(t.r)
            /\ gen.funs[<<at, m>>].ps = <<"ptr">> \o [i \in DOMAIN t.ps |-> RepT(t.ps[i])]

(* A list, a closure or an object that leaves its function under the name of
   a variable, by return, as an argument or in a closure, is on the heap; if
   the variable is assigned once, and not from inside another expression. *)
AssignedOnce(f) ==
  \A s, t \in Within(f) : s.s = "assign" /\ t.s = "assign" /\ s # t => s.g # t.g
Hidden(f) == \E e \in Exprs(f) : e.x \notin {"call", "list", "dict", "tuple", "lambda", "member", "go", "recv", "name"}
                                /\ \E d \in Under(e) : d.x \in {"call", "go", "lambda"}
NamedValuesEscape ==
  phase \notin {"parsed", "captures", "classes"} =>
    \A f \in Functions : AssignedOnce(f) /\ ~Hidden(f) => L!LeavingByName(f) \cap stack = {}

(* include/escape_analyzer.h:22: "Escaping via return, global store, field
   store, unknown-call argument, or closure capture forces heap allocation."
   No list or tuple that outlives its function is on the stack. *)
EscapingIsOnTheHeap ==
  phase = "generated" =>
    \A f \in Functions : \A a \in L!Outliving(f) \cap stack : a[3].x \notin {"list", "tuple", "dict"}

=============================================================================
