------------------------------ MODULE MCTools ------------------------------
(* The tools around the compiler for TLC.  A behaviour resolves the        *)
(* packages of one universe, compiles one program of several files, or is  *)
(* a workspace: two projects that install into the common store while one  *)
(* of them is compiled with the packages its lockfile names.               *)
EXTENDS Workspace, PackageResolver, SequencesExt, TLC

VARIABLE part

Dep(a, u, v) == [alias |-> a, url |-> u, version |-> v]

-----------------------------------------------------------------------------
(* Package universes: three packages; b at three versions, c at two.  Every*)
(* way for the versions of a and b to require b or c, and c to require a   *)
(* again.                                                                  *)
Pkg(n, D) == [name |-> n, deps |-> D]
V10 == <<1, 0>>
V11 == <<1, 1>>
V20 == <<2, 0>>

Requirements ==
  {{}} \cup {{Dep("x", u, v)} : u \in {"a", "b", "c"}, v \in {V10, V11, V20}}
       \cup {{Dep("x", "b", V11), Dep("y", "c", v)} : v \in {V10, V11}}
       \cup {{Dep("x", "b", BadVersion)}}
Worlds ==
  {[root |-> root,
    pkg |-> (<<"a", V10>> :> Pkg("a", D)) @@ (<<"b", V10>> :> Pkg("b", E))
         @@ (<<"b", V11>> :> Pkg("b", F)) @@ (<<"b", V20>> :> Pkg("b", {}))
         @@ (<<"c", V10>> :> Pkg("c", {}))
         @@ (<<"c", V11>> :> Pkg("c", {Dep("x", "a", V10)}))] :
   root \in {{Dep("r", "a", V10)}, {Dep("r", "a", V10), Dep("s", "b", V10)},
             {Dep("r", "a", V10), Dep("s", "b", V20)},
             {Dep("r", "b", V10), Dep("a", "b", V11)}},
   D \in Requirements, E \in Requirements, F \in Requirements}


-----------------------------------------------------------------------------
(* Two projects that share a repository, and one a package. *)
TwoProjects ==
  [p \in Process |-> IF p = "p1" THEN <<Dep("json", "u1", 1), Dep("math", "u2", 1)>>
                     ELSE <<Dep("json", "u1", 2), Dep("math", "u2", 1)>>]

(* Files.  Every version of a package of the store has a text of its own.  *)
File(F, G, C, V) ==
  [parses |-> TRUE, functions |-> F, generics |-> G, classes |-> C, variables |-> V]
Broken == [File({}, {}, {}, {}) EXCEPT !.parses = FALSE]
PackageText(c) == File({"f", c[1], ToString(c[2])}, {}, {}, {})
Input == <<"input", 0>>
Path  == <<"path", 0>>
Paths == <<Path>>
Trees ==
  [c \in {Content(d) : d \in Deps} |->
     [m \in {d.alias : d \in {e \in Deps : Content(e) = c}} |-> PackageText(c)]]

(* Programs of a main file that imports twice and calls once. *)
Imports == {[kind |-> "import", module |-> m] : m \in {"a", "b"}} \cup
           {[kind |-> "from", module |-> m, names |-> {"f"}] : m \in {"a", "b", "io"}} \cup
           {[kind |-> "from", module |-> "a", names |-> {"f", "C"}],
            [kind |-> "from", module |-> "b", names |-> {"f", "v"}]}
Calls == {[kind |-> "call", name |-> n] : n \in {"f", "C"}} \cup
         {[kind |-> "member", module |-> m, name |-> "f"] : m \in {"a", "b"}}
CallLast   == {<<x, y, c>> : x \in Imports, y \in Imports, c \in Calls}
CallBefore == {<<x, c, y>> : x \in Imports, y \in Imports, c \in Calls}
Texts == {File({"f"}, {}, {}, {"v"}), File({"f", "_h"}, {}, {}, {}),
          File({"f"}, {}, {"C"}, {}), File({"main"}, {"f"}, {}, {}), Broken}

(* a is in its package, on the search path or in both; b on the path or    *)
(* next to the main file.                                                  *)
Package == <<"a", 1>>
Locals ==
  {[dirs |-> k.dirs @@ (Input :> n) @@ (Path :> q), lock |-> k.lock] :
   k \in {[dirs |-> << >>, lock |-> Nothing]} \cup
         {[dirs |-> Package :> p, lock |-> <<[alias |-> "a", dir |-> Package]>>] :
            p \in {<< >>} \cup {"a" :> t : t \in Texts}},
   n \in {<< >>, "a" :> File({"f"}, {}, {}, {})} \cup {"b" :> t : t \in Texts \ {Broken}},
   q \in {<< >>, "b" :> File({"f", "_h"}, {}, {"C"}, {}), "a" :> File({"f"}, {}, {"C"}, {})}}
Main(F, C, b) == [functions |-> F, classes |-> C, body |-> b]
Mains == {Main({"f"}, {}, b) : b \in CallLast} \cup {Main({"_h"}, {"C"}, b) : b \in CallBefore}
UsePackages ==
  Main({}, {}, <<[kind |-> "import", module |-> "json"], [kind |-> "import", module |-> "math"]>>)

-----------------------------------------------------------------------------
SomeWorld == [root |-> {}, pkg |-> << >>]

ToolsInit ==
  /\ part \in {"resolver", "compile", "workspace"}
  /\ IF part = "resolver" THEN ResolverInit
     ELSE /\ world = SomeWorld /\ queue = << >> /\ resolved = << >> /\ alias = << >>
          /\ seen = {} /\ outcome = "lock"
  /\ Init
  /\ main \in IF part = "compile" THEN Mains ELSE {UsePackages}
  /\ IF part = "compile" THEN \E l \in Locals : files = l.dirs /\ lockfile = l.lock
     ELSE files = StoreDirs /\ lockfile = StoreLock
  /\ LoaderInit

(* A workspace is watched until the compilation in it has ended. *)
ToolsNext ==
  \/ part = "resolver" /\ Step /\ UNCHANGED <<part, vars, loaderVars>>
  \/ part # "resolver" /\ Builds /\ UNCHANGED <<part, resolverVars>>
  \/ part = "workspace" /\ result = Nothing /\ Installs /\ UNCHANGED <<part, resolverVars>>

ToolsSpec ==
  ToolsInit /\ [][ToolsNext]_<<part, vars, loaderVars, resolverVars>>
    /\ WF_resolverVars(Step)
=============================================================================
