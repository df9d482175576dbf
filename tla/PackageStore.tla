---------------------------- MODULE PackageStore ----------------------------
(***************************************************************************)
(* vslpkg install (tools/vslpkg/main.cpp, fetcher.cpp and writeLock of     *)
(* src/vsl_manifest.cpp): the git cache, the package store and the         *)
(* lockfiles on disk, and the processes that work on them.  A process      *)
(* installs the packages of its project, which PackageResolver chose; all  *)
(* projects of a user share the cache and the store.  Nothing locks them.  *)
(*                                                                         *)
(* One step is one git command or one file operation.  A git command may   *)
(* fail and a process may be killed between any two of its steps or during *)
(* one: the disk keeps what was done.                                      *)
(***************************************************************************)
EXTENDS Integers, Sequences, FiniteSets

CONSTANTS
  Process,     \* each in the directory of a project of its own
  Project,     \* Project[p]: sequence of [alias, url, version]
  MaxFaults,   \* bound: git commands that fail and processes that are killed
  NULL

(* lock.packages of the projects, as resolveDeps returned them. *)
Deps == UNION {{Project[p][n] : n \in DOMAIN Project[p]} : p \in Process}
Url == {d.url : d \in Deps}

ASSUME StoreAssumption ==
  /\ MaxFaults \in Nat
  /\ \A p \in Process :
       /\ Project[p] \in Seq(Deps)
       /\ Project[p] # << >>  \* else only an empty lockfile is written

(* Mutant: the version is left out. *)
StoreDirByAlias(d) == <<d.alias, 0>>

(* storeDir: the directory is named by alias and version only. *)
storeDir(d) == <<d.alias, d.version>>
Content(d) == <<d.url, d.version>>
Absent == <<"absent", 0>>
Partial == <<"partial", 0>>

VARIABLES
  cache,    \* the clone of a url: "absent", "partial" or "ready"
  tmp,      \* .vslpkg_tmp_manifest.toml in a cache: a version or NULL
  store,    \* package directories: Absent, Partial or their content
  lock,     \* vsl.lock of a project: the entries in it, or NULL
  pc,       \* what a process does next
  i,        \* the package it is at
  force,    \* the --force flag
  shown,    \* version whose manifest git show printed
  parsed,   \* version of the manifest parseManifest returned
  faults    \* commands that have failed and processes that were killed

vars == <<cache, tmp, store, lock, pc, i, force, shown, parsed, faults>>
disk == <<cache, tmp, store, lock>>

Init ==
  /\ cache = [u \in Url |-> "absent"] /\ tmp = [u \in Url |-> NULL]
  /\ store = [k \in {storeDir(d) : d \in Deps} |-> Absent]
  /\ lock = [p \in Process |-> NULL]
  /\ pc = [p \in Process |-> "idle"] /\ i = [p \in Process |-> 0]
  /\ force = [p \in Process |-> FALSE]
  /\ shown = [p \in Process |-> NULL] /\ parsed = [p \in Process |-> NULL]
  /\ faults = 0

Cur(p) == Project[p][i[p]]
Goto(p, from, to) == pc[p] = from /\ pc' = [pc EXCEPT ![p] = to]
At(p, n) == i' = [i EXCEPT ![p] = n]

(* A PackageError: cmd_install prints it and returns 1. *)
Fail(p) ==
  /\ pc' = [pc EXCEPT ![p] = "idle"] /\ At(p, 0)
  /\ shown' = [shown EXCEPT ![p] = NULL] /\ parsed' = [parsed EXCEPT ![p] = NULL]
  /\ UNCHANGED <<disk, force>>

Start(p, f) ==
  /\ Goto(p, "idle", "manifest") /\ At(p, 1)
  /\ force' = [force EXCEPT ![p] = f]
  /\ UNCHANGED <<disk, shown, parsed, faults>>

(***************************************************************************)
(* git commands shared by fetchManifest ("manifest") and fetchPackage      *)
(* ("package").                                                            *)
(***************************************************************************)
AtCache(p) == pc[p] \in {"manifest", "package"}
AfterCache(p) == IF pc[p] = "manifest" THEN "show" ELSE "wipe"

(* ensureCache finds a directory: git fetch, which may repair a partial    *)
(* clone or fail on it; then the tag is found.                             *)
UpdateCache(p) ==
  LET u == Cur(p).url IN
  /\ AtCache(p) /\ cache[u] # "absent"
  /\ Goto(p, pc[p], AfterCache(p))
  /\ cache' = [cache EXCEPT ![u] = "ready"]
  /\ UNCHANGED <<tmp, store, lock, i, force, shown, parsed, faults>>

CloneCache(p) ==
  LET u == Cur(p).url IN
  /\ AtCache(p) /\ cache[u] = "absent"
  /\ Goto(p, pc[p], AfterCache(p))
  /\ cache' = [cache EXCEPT ![u] = "ready"]
  /\ UNCHANGED <<tmp, store, lock, i, force, shown, parsed, faults>>

(* mustRunGit or assertTagExists throws; git clone cleans up after itself. *)
GitFails(p) ==
  /\ pc[p] \in {"manifest", "package", "show", "checkout"}
  /\ \/ faults < MaxFaults /\ faults' = faults + 1
     \/ AtCache(p) /\ cache[Cur(p).url] = "partial" /\ UNCHANGED faults
  /\ Fail(p)

(***************************************************************************)
(* The rest of fetchManifest: through a file with a fixed name.            *)
(***************************************************************************)
Show(p) ==
  /\ Goto(p, "show", "write")
  /\ shown' = [shown EXCEPT ![p] = Cur(p).version]
  /\ UNCHANGED <<disk, i, force, parsed, faults>>

WriteTmp(p) ==
  /\ Goto(p, "write", "parse")
  /\ tmp' = [tmp EXCEPT ![Cur(p).url] = shown[p]]
  /\ UNCHANGED <<cache, store, lock, i, force, shown, parsed, faults>>

Parse(p) ==
  /\ Goto(p, "parse", "remove") /\ tmp[Cur(p).url] # NULL
  /\ parsed' = [parsed EXCEPT ![p] = tmp[Cur(p).url]]
  /\ UNCHANGED <<disk, i, force, shown, faults>>

ParseFails(p) ==
  /\ pc[p] = "parse" /\ tmp[Cur(p).url] = NULL
  /\ Fail(p) /\ UNCHANGED faults

RemoveTmp(p) ==
  LET last == i[p] = Len(Project[p]) IN
  /\ Goto(p, "remove", IF last THEN "package" ELSE "manifest")
  /\ At(p, IF last THEN 1 ELSE i[p] + 1)
  /\ tmp' = [tmp EXCEPT ![Cur(p).url] = NULL]
  /\ shown' = [shown EXCEPT ![p] = NULL] /\ parsed' = [parsed EXCEPT ![p] = NULL]
  /\ UNCHANGED <<cache, store, lock, force, faults>>

(***************************************************************************)
(* The rest of fetchPackage.                                               *)
(***************************************************************************)
(* Mutant: --force is not honoured. *)
WipedNever(p) == FALSE

Wiped(p) == force[p]

(* remove_all, only with --force. *)
Wipe(p) ==
  /\ Goto(p, "wipe", "create")
  /\ store' = IF Wiped(p) THEN [store EXCEPT ![storeDir(Cur(p))] = Absent] ELSE store
  /\ UNCHANGED <<cache, tmp, lock, i, force, shown, parsed, faults>>

NextPackage(p) ==
  LET last == i[p] = Len(Project[p]) IN
  /\ pc' = [pc EXCEPT ![p] = IF last THEN "truncate" ELSE "package"]
  /\ At(p, IF last THEN 0 ELSE i[p] + 1)

(* The directory exists: it is taken to be the package. *)
Reuse(p) ==
  /\ pc[p] = "create" /\ store[storeDir(Cur(p))] # Absent
  /\ NextPackage(p)
  /\ UNCHANGED <<disk, force, shown, parsed, faults>>

CreateDir(p) ==
  /\ Goto(p, "create", "checkout") /\ store[storeDir(Cur(p))] = Absent
  /\ store' = [store EXCEPT ![storeDir(Cur(p))] = Partial]
  /\ UNCHANGED <<cache, tmp, lock, i, force, shown, parsed, faults>>

Checkout(p) ==
  /\ pc[p] = "checkout"
  /\ store' = [store EXCEPT ![storeDir(Cur(p))] = Content(Cur(p))]
  /\ NextPackage(p)
  /\ UNCHANGED <<cache, tmp, lock, force, shown, parsed, faults>>

(***************************************************************************)
(* writeLock, in place: truncate, then the entries in order.               *)
(***************************************************************************)
Truncate(p) ==
  /\ Goto(p, "truncate", "entries")
  /\ lock' = [lock EXCEPT ![p] = << >>]
  /\ UNCHANGED <<cache, tmp, store, i, force, shown, parsed, faults>>

WriteEntry(p) ==
  LET n == Len(lock[p]) + 1 IN
  /\ pc[p] = "entries"
  /\ lock' = [lock EXCEPT ![p] = Append(@, Project[p][n])]
  /\ pc' = [pc EXCEPT ![p] = IF n = Len(Project[p]) THEN "idle" ELSE "entries"]
  /\ UNCHANGED <<cache, tmp, store, i, force, shown, parsed, faults>>

(* Killed.  A clone or a wipe under way leaves a part of its directory.    *)
Crash(p) ==
  /\ faults < MaxFaults /\ pc[p] # "idle"
  /\ faults' = faults + 1
  /\ pc' = [pc EXCEPT ![p] = "idle"] /\ At(p, 0)
  /\ cache' \in {cache} \cup
       (IF AtCache(p) /\ cache[Cur(p).url] = "absent"
        THEN {[cache EXCEPT ![Cur(p).url] = "partial"]} ELSE {})
  /\ store' \in {store} \cup
       (IF pc[p] = "wipe" /\ force[p] /\ store[storeDir(Cur(p))] # Absent
        THEN {[store EXCEPT ![storeDir(Cur(p))] = Partial]} ELSE {})
  /\ shown' = [shown EXCEPT ![p] = NULL] /\ parsed' = [parsed EXCEPT ![p] = NULL]
  /\ UNCHANGED <<tmp, lock, force>>

-----------------------------------------------------------------------------
FetchManifest(p) == Show(p) \/ WriteTmp(p) \/ Parse(p) \/ ParseFails(p) \/ RemoveTmp(p)
FetchPackage(p) == Wipe(p) \/ Reuse(p) \/ CreateDir(p) \/ Checkout(p)
WriteLock(p) == Truncate(p) \/ WriteEntry(p)

Next ==
  \E p \in Process :
    \/ \E f \in BOOLEAN : Start(p, f)
    \/ UpdateCache(p) \/ CloneCache(p) \/ GitFails(p)
    \/ FetchManifest(p) \/ FetchPackage(p) \/ WriteLock(p) \/ Crash(p)

Spec == Init /\ [][Next]_vars

-----------------------------------------------------------------------------
(* Every variable keeps to its type, and a process that fetches is at a    *)
(* package of its project.                                                 *)
Fetching == {"manifest", "show", "write", "parse", "remove", "package", "wipe", "create", "checkout"}
Version  == {d.version : d \in Deps}
TypeOK ==
  /\ cache \in [Url -> {"absent", "partial", "ready"}] /\ tmp \in [Url -> Version \cup {NULL}]
  /\ store \in [{storeDir(d) : d \in Deps} -> {Absent, Partial} \cup {Content(d) : d \in Deps}]
  /\ lock \in [Process -> Seq(Deps) \cup {NULL}]
  /\ pc \in [Process -> Fetching \cup {"idle", "truncate", "entries"}]
  /\ i \in [Process -> Nat] /\ force \in [Process -> BOOLEAN]
  /\ shown \in [Process -> Version \cup {NULL}] /\ parsed \in [Process -> Version \cup {NULL}]
  /\ faults \in 0 .. MaxFaults
  /\ \A p \in Process : pc[p] \in Fetching => i[p] \in DOMAIN Project[p]

(* p has just written the last entry of its lockfile. *)
Finishes(p) == pc[p] = "entries" /\ pc'[p] = "idle" /\ faults' = faults

(* Another process is about to fill the directory of d. *)
InHand(p, d) ==
  \E q \in Process \ {p} : pc[q] \in {"create", "checkout"} /\ storeDir(Cur(q)) = storeDir(d)
Shared(p, d) ==
  \E q \in Process \ {p} : \E n \in DOMAIN Project[q] : storeDir(Project[q][n]) = storeDir(d)

(* An install that ends leaves a lockfile with every package, and in the   *)
(* directory that the lockfile names the tree of the package; or, nothing  *)
(* being locked, another install has just emptied or made this directory   *)
(* and is still at it.  That holds as long as no command has failed and no *)
(* process was killed; and with --force whatever earlier installs, failed  *)
(* commands and crashes left, of the packages that no other project uses.  *)
(* (After a failed checkout a plain install takes the empty directory for  *)
(* the package, although fetcher.h promises "the checked-out source tree".)*)
InstallIsComplete ==
  [][\A p \in Process :
       Finishes(p) =>
         /\ lock'[p] = Project[p]
         /\ \A n \in DOMAIN Project[p] :
              LET d == Project[p][n] IN
              faults = 0 \/ (force[p] /\ ~Shared(p, d)) =>
                store[storeDir(d)] = Content(d) \/ InHand(p, d)]_vars
=============================================================================
