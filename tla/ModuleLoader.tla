---------------------------- MODULE ModuleLoader ----------------------------
(***************************************************************************)
(* Multi-file compilation: main.cpp from the lockfile on, ModuleLoader and *)
(* the import statements, calls and Linker::link that depend on it.  The   *)
(* files and the lockfile may change while a compilation runs; its steps   *)
(* are: read the lockfile, generate code for one statement of the main file*)
(* after the other, link.                                                  *)
(*                                                                         *)
(* A module compiles without a loader of its own: its imports do nothing.  *)
(* A file is [parses, functions, generics, classes, variables]; the        *)
(* generics are functions with type parameters, which make no code until   *)
(* they are instantiated.                                                  *)
(***************************************************************************)
EXTENDS Integers, Sequences, FiniteSets, SequencesExt

(* How a compilation ends. *)
Results == {"built", "alias", "import", "module", "name", "unknown", "duplicate", "undefined"}

CONSTANTS
  Builtin,     \* isStdlibModule
  InputDir,    \* directory of the main file
  SearchPath,  \* --module-path and VISUALL_PATH, then the stdlib directory
  Private,     \* the names that start with an underscore
  MaxBuilds,   \* bound: compilations
  Nothing

ASSUME LoaderAssumption ==
  /\ SearchPath \in Seq(ToSet(SearchPath))
  /\ Nothing \notin Nat \cup Results

VARIABLES
  files,     \* directory -> module name -> file; only existing directories
  lockfile,  \* entries [alias, dir] of vsl.lock, Nothing if there is none
  main,      \* the main file: its file record with a sequence "body"
  at,        \* statements of main done, Nothing between compilations
  aliases,   \* aliasToDir_
  loaded,    \* cache_: module name -> [dir, file]
  imported,  \* loadedUserModules_
  symbols,   \* importedSymbols_: name -> module
  calls,     \* what each call statement of main has become
  result,    \* Nothing, "built" or how the compilation failed
  builds,
  steady     \* history: no file has changed since the compilation began

compileVars == <<aliases, loaded, imported, symbols, calls>>
loaderVars == <<files, lockfile, main, at, compileVars, result, builds, steady>>

Nowhere == [name |-> "none", in |-> Nothing]  \* callee of a call without code

(* The main file and the lockfile are lists; what is in them is given.     *)
Readable ==
  /\ main.body \in Seq(ToSet(main.body))
  /\ lockfile # Nothing => lockfile \in Seq(ToSet(lockfile))

LoaderInit ==
  /\ Readable /\ at = Nothing /\ result = Nothing /\ builds = 0 /\ steady = TRUE
  /\ aliases = << >> /\ loaded = << >> /\ imported = {} /\ symbols = << >> /\ calls = << >>

Abort(how) ==
  /\ at' = Nothing /\ result' = how
  /\ UNCHANGED <<main, compileVars, builds, steady>>

(* registerAlias for every entry in turn: a later entry replaces one with  *)
(* the same alias.                                                         *)
Registered(entries) ==
  [n \in {e.alias : e \in ToSet(entries)} |->
     entries[CHOOSE k \in DOMAIN entries :
               entries[k].alias = n /\ \A l \in k + 1 .. Len(entries) : entries[l].alias # n].dir]

Begin ==
  /\ at = Nothing /\ builds < MaxBuilds
  /\ builds' = builds + 1 /\ steady' = TRUE
  /\ loaded' = << >> /\ imported' = {} /\ symbols' = << >> /\ calls' = << >>
  /\ UNCHANGED main
  /\ IF lockfile = Nothing THEN at' = 0 /\ result' = Nothing /\ aliases' = << >>
     ELSE IF \A i \in DOMAIN lockfile : lockfile[i].dir \in DOMAIN files
     THEN at' = 0 /\ result' = Nothing /\ aliases' = Registered(lockfile)
     ELSE at' = Nothing /\ result' = "alias" /\ aliases' = << >>

-----------------------------------------------------------------------------
Has(dir, m) == dir \in DOMAIN files /\ m \in DOMAIN files[dir]

(* The directories resolve tries, in its order. *)
Candidates(m) ==
  (IF m \in DOMAIN aliases THEN <<aliases[m]>> ELSE << >>) \o <<InputDir>> \o SearchPath

Found(m) == {k \in DOMAIN Candidates(m) : Has(Candidates(m)[k], m)}
Place(m) == Candidates(m)[CHOOSE k \in Found(m) : \A l \in Found(m) : k <= l]

(* extractExports.  A class counts as a function, main as any function. *)
Functions(f) == (f.functions \cup f.generics \cup f.classes) \ Private
Exports(f) == Functions(f) \cup (f.variables \ Private)

Loads(m) == m \in DOMAIN loaded \/ (Found(m) # {} /\ files[Place(m)][m].parses)

(* load of a module that is not a builtin: what the cache has, or compile  *)
(* of the first file.  When it throws, nothing has been cached.            *)
Entry(m) ==
  IF m \in DOMAIN loaded THEN loaded[m] ELSE [dir |-> Place(m), file |-> files[Place(m)][m]]
Cached(m) == [n \in DOMAIN loaded \cup {m} |-> IF n = m THEN Entry(m) ELSE loaded[n]]

Running == at # Nothing /\ at < Len(main.body)
Stmt == main.body[at + 1]
Is(kind) == Running /\ Stmt.kind = kind
Becomes(what) ==
  /\ at' = at + 1 /\ calls' = Append(calls, what)
  /\ UNCHANGED <<main, aliases, result, builds, steady>>

(* codegenImportStmt and the loading part of codegenFromImportStmt *)
ImportBuiltin ==
  /\ Running /\ Stmt.kind \in {"import", "from"} /\ Stmt.module \in Builtin
  /\ Becomes(Nothing)
  /\ UNCHANGED <<loaded, imported, symbols>>

(* ImportError of resolve, or an error in the module's own source. *)
ImportFails ==
  /\ Running /\ Stmt.kind \in {"import", "from"}
  /\ Stmt.module \notin Builtin /\ ~Loads(Stmt.module)
  /\ Abort(IF Found(Stmt.module) = {} THEN "import" ELSE "module")

Import ==
  /\ Is("import") /\ Stmt.module \notin Builtin /\ Loads(Stmt.module)
  /\ loaded' = Cached(Stmt.module)
  /\ imported' = imported \cup {Stmt.module}
  /\ UNCHANGED symbols /\ Becomes(Nothing)

(* Mutant: a name keeps the module it was first imported from. *)
WithSymbolsFirst(m, names) ==
  [n \in DOMAIN symbols \cup names |-> IF n \in DOMAIN symbols THEN symbols[n] ELSE m]

WithSymbols(m, names) ==
  [n \in DOMAIN symbols \cup names |-> IF n \in names THEN m ELSE symbols[n]]

FromImport ==
  LET m == Stmt.module IN
  /\ Is("from") /\ m \notin Builtin /\ Loads(m)
  /\ IF Stmt.names \subseteq Exports(Entry(m).file)
     THEN /\ loaded' = Cached(m)
          /\ imported' = imported \cup {m}
          /\ symbols' = WithSymbols(m, Stmt.names)
          /\ Becomes(Nothing)
     ELSE Abort("name")

-----------------------------------------------------------------------------
(* The functions of m that the main file has declared: all that an import  *)
(* statement has seen, the named ones of a from import.                    *)
Declared(m) ==
  LET before == {main.body[i] : i \in 1 .. at} IN
  UNION {IF s.kind = "import" THEN Functions(loaded[m].file) ELSE s.names \cap Functions(loaded[m].file) :
         s \in {t \in before : t.kind \in {"import", "from"} /\ t.module = m}}

(* codegenCallExpr of f(): an imported symbol with a declaration, else a   *)
(* function of the main file.                                              *)
CallName ==
  LET f == Stmt.name IN
  /\ Is("call")
  /\ IF f \in DOMAIN symbols /\ f \in Declared(symbols[f])
     THEN Becomes([name |-> f, in |-> symbols[f]]) /\ UNCHANGED <<loaded, imported, symbols>>
     ELSE IF f \in main.functions \cup main.classes
     THEN Becomes([name |-> f, in |-> "main"]) /\ UNCHANGED <<loaded, imported, symbols>>
     ELSE Abort("unknown")

(* m.f(): without a declaration no branch of codegenCallExpr applies, and  *)
(* the call becomes the constant 0.                                        *)
CallMember ==
  LET m == Stmt.module  f == Stmt.name IN
  /\ Is("member")
  /\ Becomes(IF m \in imported /\ f \in Declared(m) THEN [name |-> f, in |-> m] ELSE Nowhere)
  /\ UNCHANGED <<loaded, imported, symbols>>

-----------------------------------------------------------------------------
(* Symbols of the linker: <<f>>, <<class, "init">> of a method, and        *)
(* <<module, ".", f>>.                                                     *)
Bare(f) == <<f>>
Methods(f) == {<<c, "init">> : c \in f.classes}

(* Mutant: a module keeps the names of its source. *)
RenamedNone(f) == {}

(* compile renames what is exported, main excepted. *)
Renamed(f) == ((f.functions \cup f.classes) \ {"main"}) \ Private

(* The external definitions of a compiled module. *)
Defined(m, f) ==
  {<<m, ".", n>> : n \in Renamed(f)} \cup
  {Bare(n) : n \in (f.functions \cup f.classes) \ Renamed(f)} \cup Methods(f)

(* The main file: functions are internal, which the linker renames as need *)
(* be; main, constructors and methods are external.                        *)
MainDefined == {Bare("main")} \cup {Bare(c) : c \in main.classes} \cup Methods(main)

Linked == {m \in DOMAIN loaded : m \notin Builtin}
Duplicate ==
  \/ \E m \in Linked : Defined(m, loaded[m].file) \cap MainDefined # {}
  \/ \E m, n \in Linked : m # n /\ Defined(m, loaded[m].file) \cap Defined(n, loaded[n].file) # {}
Referenced == {<<c.in, ".", c.name>> : c \in {d \in ToSet(calls) : d # Nothing /\ d.in \in Linked}}

(* takeAllLLVMModules, Linker::link, linkToBinary *)
Link ==
  /\ at # Nothing /\ at = Len(main.body)
  /\ at' = Nothing
  /\ result' = IF Duplicate THEN "duplicate"
               ELSE IF Referenced \subseteq UNION {Defined(m, loaded[m].file) : m \in Linked}
               THEN "built" ELSE "undefined"
  /\ UNCHANGED <<main, compileVars, builds, steady>>

Compile ==
  \/ Begin \/ ImportBuiltin \/ ImportFails \/ Import \/ FromImport
  \/ CallName \/ CallMember \/ Link

(* Files are written while the compiler runs or between two compilations.  *)
FilesChange ==
  /\ UNCHANGED <<main, at, compileVars, result, builds>>
  /\ Readable'
  /\ steady' = \/ at = Nothing /\ result # "built"
               \/ steady /\ UNCHANGED <<files, lockfile>>

LoaderNext == (Compile /\ UNCHANGED <<files, lockfile>>) \/ FilesChange
LoaderSpec == LoaderInit /\ [][LoaderNext]_loaderVars

-----------------------------------------------------------------------------
(* Every variable keeps to its type: what is imported is cached, and the   *)
(* cache holds only modules that were compiled.                            *)
LoaderTypeOK ==
  /\ imported \subseteq DOMAIN loaded /\ Range(symbols) \subseteq DOMAIN loaded
  /\ \A m \in DOMAIN loaded : loaded[m].file.parses
  /\ result \in Results \cup {Nothing} /\ steady \in BOOLEAN
  /\ at # Nothing => at \in 0 .. Len(main.body) /\ Len(calls) = at

(* What the call at position i means: m.f is f of module m when m is       *)
(* imported before it; f is that of the last from import of f before it,   *)
(* else the main file's own.                                               *)
Means(i) ==
  LET s == main.body[i]
      froms == {j \in 1 .. i - 1 : main.body[j].kind = "from" /\ s.name \in main.body[j].names
                                   /\ main.body[j].module \notin Builtin}
      last == CHOOSE j \in froms : \A k \in froms : k <= j IN
  IF s.kind = "member" THEN s.module
  ELSE IF froms = {} THEN "main" ELSE main.body[last].module

(* The package that the lockfile names for m, by its last entry. *)
IsPackage(m, dir) ==
  lockfile # Nothing /\ \E k \in DOMAIN lockfile :
    /\ lockfile[k].alias = m /\ lockfile[k].dir = dir
    /\ \A l \in DOMAIN lockfile : lockfile[l].alias = m => l <= k

(* The first place that has m: its package, the directory of the main file,*)
(* or the first directory of the search path.                              *)
FirstPlace(m, dir) ==
  /\ Has(dir, m)
  /\ \/ IsPackage(m, dir)
     \/ /\ \A d \in DOMAIN files : IsPackage(m, d) => ~Has(d, m)
        /\ \/ dir = InputDir
           \/ /\ ~Has(InputDir, m)
              /\ \E k \in DOMAIN SearchPath :
                   dir = SearchPath[k] /\ \A l \in 1 .. k - 1 : ~Has(SearchPath[l], m)

(* In a program that was built every call reaches the function that it     *)
(* names, whatever order the imports come in and whatever other modules    *)
(* define; and if no file changed meanwhile, in a module whose file is the *)
(* first one there was on the way.  (m.f of a function that m does not     *)
(* export, or before the import of m, compiles to 0.)                      *)
Reaches(i) ==
  LET s == main.body[i] IN
  \/ /\ calls[i] = [name |-> s.name, in |-> Means(i)]
     /\ Means(i) # "main" =>
          s.name \in Functions(loaded[Means(i)].file) /\ (steady => FirstPlace(Means(i), loaded[Means(i)].dir))
  \/ s.kind = "member" /\ calls[i] = Nowhere
  \/ s.kind = "call" /\ calls[i] = [name |-> s.name, in |-> "main"] /\ s.name \notin Functions(loaded[Means(i)].file)

CallsReachTheirFunctions ==
  /\ LoaderTypeOK
  /\ result = "built" =>
       \A i \in DOMAIN main.body : main.body[i].kind \in {"call", "member"} => Reaches(i)

(* Modules can be linked unless a name that is not exported meets another: *)
(* private functions, methods and a module's main keep their bare names.   *)
(* Public functions and constructors never stand in each other's way, nor  *)
(* does anything of the main file but its classes and main.                *)
Hidden(f) == (f.functions \cap (Private \cup {"main"})) \cup f.classes
HiddenMain == {"main"} \cup main.classes
LinkFailsOnHiddenNames ==
  result = "duplicate" =>
    \/ \E m \in Linked : Hidden(loaded[m].file) \cap HiddenMain # {}
    \/ \E m, n \in Linked : m # n /\ Hidden(loaded[m].file) \cap Hidden(loaded[n].file) # {}
=============================================================================
