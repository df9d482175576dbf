------------------------------ MODULE Compiler ------------------------------
(***************************************************************************)
(* A function on its way through Codegen: lowered to a control-flow graph, *)
(* verified, and run.  The graph is compared with the meaning of the       *)
(* statements it came from (Source) -- a translation is right when every   *)
(* function that verifies behaves as its source does.                      *)
(*                                                                         *)
(* src/codegen.cpp does not keep that promise for every statement in every *)
(* place.  The places where it is known not to are named below, one        *)
(* operator each; the properties hold of every other program.              *)
(***************************************************************************)
EXTENDS Lowering, FiniteSets

CONSTANTS Programs,          \* the function bodies that enter
          SourceFuel,        \* loop iterations after which a source run is endless
          MachineFuel        \* blocks after which a compiled run is

VARIABLES stage,             \* "parsed", "lowered", "rejected", "verified", "running", "ran"
          body,              \* the statements of the function
          fn,                \* its control-flow graph
          ran                \* the state of its run (Machine)

vars == <<stage, body, fn, ran>>
None == [end |-> <<"none">>]

Init == /\ stage = "parsed" /\ body \in Programs
        /\ fn = Empty("function", FALSE) /\ ran = None

\* The body is that of a function, of main, or of a method, an init or an
\* instance of a generic.
LowerBody == /\ stage = "parsed"
             /\ stage' = "lowered"
             /\ \E kind \in {"function", "main", "bare"} : fn' = Lower(body, kind, FALSE)
             /\ UNCHANGED <<body, ran>>

\* Codegen::verify.
VerifyFunction == /\ stage = "lowered"
                  /\ stage' = IF M!Verifies(fn) THEN "verified" ELSE "rejected"
                  /\ UNCHANGED <<body, fn, ran>>

\* The compiled program calls the function with 0, or makes a generator of it;
\* the traceback has the name of a caller, or as many as it can hold.
Call0 == /\ stage = "verified"
         /\ stage' = "running"
         /\ \E callers \in IF fn.kind = "main" THEN {0} ELSE {1, TRACE_DEPTH} :
              ran' = M!Called(fn, 0, MachineFuel, callers)
         /\ UNCHANGED <<body, fn>>

RunBlock == /\ stage = "running" /\ ran.end = M!Running
            /\ ran' = M!Advance(fn, ran)
            /\ UNCHANGED <<stage, body, fn>>

AskAgain == /\ stage = "running" /\ fn.gen /\ ran.end = <<"done">> /\ ~M!Exhausted(ran)
            /\ ran' = M!NextCall(fn, ran)
            /\ UNCHANGED <<stage, body, fn>>

Finish == /\ stage = "running" /\ ran.end # M!Running
          /\ fn.gen /\ ran.end = <<"done">> => M!Exhausted(ran)
          /\ stage' = "ran"
          /\ UNCHANGED <<body, fn, ran>>

Next == LowerBody \/ VerifyFunction \/ Call0 \/ RunBlock \/ AskAgain \/ Finish
Spec == Init /\ [][Next]_vars

-----------------------------------------------------------------------------
(***************************************************************************)
(* Places.  A statement with the statements around it, outermost first,    *)
(* and the part of each it stands in.                                      *)
(***************************************************************************)
Counted == {"int", "str", "list", "dict"}     \* iterables a for counts through
Loop(s) == s.k \in {"while", "for"}

PartOf(s, j) ==
  CASE s.k = "try" -> IF j = 1 THEN "body" ELSE IF j = Len(s.cs) + 2 THEN "cleanup" ELSE "catch"
    [] Loop(s)     -> IF j = 1 THEN "body" ELSE "else"
    [] OTHER       -> "body"

RECURSIVE Places(_, _)
Places(list, around) ==
  UNION { {[s |-> list[i], in |-> around]} \cup
          UNION { Places(Bodies(list[i])[j], Append(around, [s |-> list[i], part |-> PartOf(list[i], j)]))
                  : j \in DOMAIN Bodies(list[i]) }
          : i \in DOMAIN list }

\* The index of the loop a break or a continue leaves; 0 for a return.
LoopOf(p) ==
  IF p.s.k = "return" THEN 0
  ELSE LET ls == {i \in DOMAIN p.in : Loop(p.in[i].s) /\ p.in[i].part = "body"}
       IN  IF ls = {} THEN 0 ELSE CHOOSE i \in ls : \A j \in ls : j <= i

Jumps == {"return", "break", "continue"}
Throws == {"throw", "rethrow", "call"}
Guards(a) == \/ a.s.k = "with"
             \/ a.s.k = "try" /\ a.s.f # <<>> /\ a.part # "cleanup"

(***************************************************************************)
(* codegen.cpp:1929, 6022.  A counted for increments its index at the end  *)
(* of its body; continue jumps to the test, so the loop never ends.        *)
(***************************************************************************)
ContinuesCountedFor(b) ==
  \E p \in Places(b, <<>>) :
    /\ p.s.k = "continue" /\ LoopOf(p) # 0
    /\ p.in[LoopOf(p)].s.k = "for" /\ p.in[LoopOf(p)].s.it \in Counted

(***************************************************************************)
(* codegen.cpp:2133, 6010.  return, break and continue branch directly to  *)
(* their target: a finally or an __exit__ on the way does not run, and a   *)
(* handler that is left is not ended.                                      *)
(***************************************************************************)
JumpsOverCleanup(b) ==
  \E p \in Places(b, <<>>) :
    /\ p.s.k \in Jumps
    /\ \E i \in LoopOf(p) + 1 .. Len(p.in) : Guards(p.in[i])
JumpsOutOfCatch(b) ==
  \E p \in Places(b, <<>>) :
    /\ p.s.k \in Jumps
    /\ \E i \in LoopOf(p) + 1 .. Len(p.in) : p.in[i].part = "catch"

(***************************************************************************)
(* codegen.cpp:2281-2346.  A typed clause compares the class of the thrown *)
(* value with the classes its own type extends, and the last clause ends   *)
(* the handler when nothing matched.                                       *)
(***************************************************************************)
CatchesAnotherClass(b) ==
  \E p \in Places(b, <<>>) :
    /\ p.s.k = "try"
    /\ \E c \in Range(p.s.cs) : \E t \in Within(p.s.a) :
         t.k \in Throws /\ c.t # "" /\ (IF t.k = "rethrow" THEN TRUE ELSE t.c # c.t)

(***************************************************************************)
(* codegen.cpp:2579.  throw without an operand throws a new exception made *)
(* from the message of the last catch emitted.                             *)
(***************************************************************************)
Rethrows(b) == Has(b, "rethrow")

(***************************************************************************)
(* codegen.cpp:2199-2420.  The landing pad of a try covers its body only:  *)
(* what a catch throws passes the finally by, with the first exception     *)
(* still caught.  A pad that only cleans up resumes out of the function,   *)
(* past the handlers of the statements around it.                          *)
(***************************************************************************)
ThrowsInCatch(b) ==
  \E p \in Places(b, <<>>) :
    p.s.k \in Throws /\ \E i \in DOMAIN p.in : p.in[i].part = "catch"
ResumesPastHandler(b) ==
  \E p \in Places(b, <<>>) :
    /\ p.s.k = "with" \/ (p.s.k = "try" /\ p.s.cs = <<>>)
    /\ \E t \in Within(p.s.a) : t.k \in Throws
    /\ \E i \in DOMAIN p.in : p.in[i].part = "body" /\ p.in[i].s.k \in {"try", "with"}

(***************************************************************************)
(* codegen.cpp:499.  The else of a loop is not searched for a yield: there *)
(* it is a statement without effect in an ordinary function.               *)
(***************************************************************************)
YieldsInElseOnly(b) == Has(b, "yield") /\ ~ContainsYield(b)

(***************************************************************************)
(* codegen.cpp:1281, 1449, 5965.  A body emitted for a class or a generic  *)
(* instance is not searched for a yield at all.                            *)
(***************************************************************************)
YieldsInBare(b) == fn.kind = "bare" /\ Has(b, "yield")

(***************************************************************************)
(* codegen.cpp:2039.  A generator saves its declared variables: the index  *)
(* of a counted for, the break flag of a loop with an else and the context *)
(* of a with are not, nor is the value an iterator block computed.         *)
(***************************************************************************)
YieldsInside(b) ==
  \E p \in Places(b, <<>>) :
    /\ p.s.k = "yield"
    /\ \E i \in DOMAIN p.in :
         LET a == p.in[i].s IN a.k \in {"for", "with"} \/ (a.k = "while" /\ a.b # <<>>)

KnownDeviation(b) ==
  \/ ContinuesCountedFor(b) \/ JumpsOverCleanup(b) \/ JumpsOutOfCatch(b)
  \/ CatchesAnotherClass(b) \/ Rethrows(b) \/ ThrowsInCatch(b)
  \/ ResumesPastHandler(b) \/ YieldsInElseOnly(b) \/ YieldsInBare(b) \/ YieldsInside(b)

(***************************************************************************)
(* codegen.cpp:957, 2134, 6252.  Every return pops a name from the         *)
(* traceback, and so does the end of a generator, but only codegenFuncDef  *)
(* pushes one: methods, static methods, inits, generic instances and       *)
(* generators remove the name of their caller.                             *)
(***************************************************************************)
PopsWithoutPush == fn.kind \in {"bare", "generator"}

(***************************************************************************)
(* runtime.c:1394.  At the limit push drops the new name, where the ring   *)
(* buffer of the comment above it would drop the oldest; the pop that      *)
(* answers it removes the name of a caller.                                *)
(***************************************************************************)
TracebackFull == ran.callers = TRACE_DEPTH
-----------------------------------------------------------------------------
(***************************************************************************)
(* Codegen builds a graph that LLVM verifies: every block ends once, every *)
(* branch has a target, nothing follows a terminator.                      *)
(***************************************************************************)
EveryBlockVerifies == stage = "rejected" => KnownDeviation(body)

(***************************************************************************)
(* The compiled function ends as its source does -- returned value, thrown *)
(* exception, values handed out by a generator -- after the same effects   *)
(* in the same order.  Source runs that do not end within SourceFuel       *)
(* iterations are compared with nothing.                                   *)
(***************************************************************************)
CompiledMeansSource ==
  stage = "ran" /\ ~KnownDeviation(body) =>
    LET source == Meaning(body, SourceFuel)
    IN  source.end = <<"long">> \/ (ran.end = source.end /\ ran.out = source.out)

(***************************************************************************)
(* Code that returns has ended every handler it entered                    *)
(* (__cxa_begin_catch, __cxa_end_catch), and left on the traceback the     *)
(* names of its callers: all of them if it is a function called while the  *)
(* traceback had room, and never a name of its own.  (Code that an         *)
(* exception leaves pops nothing, and what is said is of returns.)         *)
(***************************************************************************)
HandlersAndTracebackBalanced ==
  stage = "ran" /\ ~KnownDeviation(body) /\ ran.end = <<"done">> =>
    /\ ran.caught = <<>>
    /\ ran.tb <= ran.callers
    /\ ran.tb = ran.callers \/ PopsWithoutPush \/ TracebackFull
=============================================================================
