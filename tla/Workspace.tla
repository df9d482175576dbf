----------------------------- MODULE Workspace -----------------------------
(***************************************************************************)
(* A build next to installs: the compiler of ModuleLoader runs in the      *)
(* directory of one project, reads the vsl.lock that vslpkg writes there,  *)
(* and loads its packages from the store that all projects install into    *)
(* (PackageStore).  Nothing keeps the one from running in the middle of    *)
(* the other.  The project's own directories have no module of the name of *)
(* a package.                                                              *)
(***************************************************************************)
EXTENDS PackageStore, ModuleLoader

CONSTANTS
  Builder,   \* the project that is compiled
  Tree       \* the modules of a package: content -> module name -> file

ASSUME WorkspaceAssumption ==
  /\ Builder \in Process
  /\ InputDir \notin {storeDir(d) : d \in Deps}
  /\ \A d \in Deps : \A k \in DOMAIN SearchPath : SearchPath[k] # storeDir(d)

(* What the module loader sees of the disk: the directories, those of which*)
(* a checkout is not complete being empty, and the lockfile.               *)
StoreDirs ==
  [dir \in {k \in DOMAIN store : store[k] # Absent} |->
     IF store[dir] = Partial THEN << >> ELSE Tree[store[dir]]]
StoreLock ==
  IF lock[Builder] = NULL THEN Nothing
  ELSE [n \in DOMAIN lock[Builder] |->
          [alias |-> lock[Builder][n].alias, dir |-> storeDir(lock[Builder][n])]]

WorkspaceInit == Init /\ LoaderInit /\ files = StoreDirs /\ lockfile = StoreLock

Installs == Next /\ files' = StoreDirs' /\ lockfile' = StoreLock' /\ FilesChange
Builds   == Compile /\ UNCHANGED <<vars, files, lockfile>>

WorkspaceNext == Installs \/ Builds
WorkspaceSpec == WorkspaceInit /\ [][WorkspaceNext]_<<vars, loaderVars>>

-----------------------------------------------------------------------------
(* A program that was built while packages were installed, wiped and       *)
(* replaced next to it, by any project, has of every package that it       *)
(* imports exactly the text of the version its project requires.           *)
BuildsUseLockedSources ==
  result = "built" =>
    \A n \in DOMAIN Project[Builder] :
      LET d == Project[Builder][n] IN
      d.alias \in DOMAIN loaded => loaded[d.alias].file = Tree[Content(d)][d.alias]
=============================================================================
