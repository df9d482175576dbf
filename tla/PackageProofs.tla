--------------------------- MODULE PackageProofs ---------------------------
(***************************************************************************)
(* Proofs about vslpkg: PackageStore for every set of processes, every     *)
(* assignment of packages to projects and every number of faults; and, for *)
(* every universe of packages, also with cyclic requirements, that the lock*)
(* that resolveDeps builds is the minimal version selection: every package *)
(* that is required, directly or not, at the highest version required.     *)
(* Then the module loader, for every main file and all files, while they   *)
(* change, and its builds next to the installs of every project: an        *)
(* inductive invariant of the compilation, one of the disk, and the two    *)
(* together for Workspace.                                                 *)
(***************************************************************************)
EXTENDS Workspace, PackageResolver, FiniteInduction, SequenceTheorems

(* The packages of a project, and the one a process is at. *)
LEMMA Entries ==
  ASSUME NEW p \in Process
  PROVE  /\ Project[p] \in Seq(Deps) /\ Len(Project[p]) \in Nat \ {0}
         /\ DOMAIN Project[p] = 1 .. Len(Project[p])
         /\ \A n \in DOMAIN Project[p] :
              /\ Project[p][n] \in Deps /\ Project[p][n].url \in Url
              /\ Project[p][n].version \in Version
<1>1. Project[p] \in Seq(Deps) /\ Project[p] # << >> BY StoreAssumption
<1>2. Len(Project[p]) \in Nat /\ DOMAIN Project[p] = 1 .. Len(Project[p]) BY <1>1
<1>3. Len(Project[p]) # 0 BY <1>1
<1>4. \A n \in DOMAIN Project[p] : Project[p][n] \in Deps BY DEF Deps
<1> QED BY <1>1, <1>2, <1>3, <1>4 DEF Url, Version

LEMMA Current ==
  ASSUME TypeOK, NEW p \in Process, pc[p] \in Fetching
  PROVE  /\ i[p] \in DOMAIN Project[p] /\ Cur(p) \in Deps
         /\ Cur(p).url \in Url /\ Cur(p).version \in Version
BY Entries DEF TypeOK, Cur

-----------------------------------------------------------------------------
(***************************************************************************)
(* Type correctness.  A process that writes entries has a lockfile that    *)
(* holds the first packages of its project.                                *)
(***************************************************************************)
LockPrefix ==
  \A p \in Process : pc[p] = "entries" =>
    /\ lock[p] \in Seq(Deps) /\ Len(lock[p]) < Len(Project[p])
    /\ \A n \in 1 .. Len(lock[p]) : lock[p][n] = Project[p][n]

TypeInv == TypeOK /\ LockPrefix

LEMMA InitType == Init => TypeInv
BY StoreAssumption DEF Init, TypeInv, TypeOK, LockPrefix, Fetching

Label == Fetching \cup {"idle", "truncate", "entries"}
Placed ==
  /\ pc \in [Process -> Label] /\ i \in [Process -> Nat]
  /\ \A p \in Process : pc[p] \in Fetching => i[p] \in DOMAIN Project[p]

(* A process moves on, to the package k. *)
LEMMA Moved ==
  ASSUME TypeOK, NEW p \in Process, NEW to \in Label, NEW k \in Nat,
         to \in Fetching => k \in DOMAIN Project[p],
         pc' = [pc EXCEPT ![p] = to], i' = [i EXCEPT ![p] = k]
  PROVE  Placed'
BY DEF TypeOK, Placed, Label

(* A process moves on and stays at its package. *)
LEMMA MovedOn ==
  ASSUME TypeOK, NEW p \in Process, NEW to \in Label, pc[p] \in Fetching,
         pc' = [pc EXCEPT ![p] = to], i' = i
  PROVE  Placed'
BY DEF TypeOK, Placed, Label

LEMMA LockKept ==
  ASSUME LockPrefix, lock' = lock, \A q \in Process : pc'[q] = "entries" => pc[q] = "entries"
  PROVE  LockPrefix'
BY DEF LockPrefix

(* The index after the last package, or the one after this. *)
LEMMA NextIndex ==
  ASSUME TypeOK, NEW p \in Process, pc[p] \in {"create", "checkout"}, NextPackage(p)
  PROVE  Placed' /\ \A q \in Process : pc'[q] = "entries" => pc[q] = "entries"
<1>1. /\ i[p] \in 1 .. Len(Project[p]) /\ Len(Project[p]) \in Nat
      /\ DOMAIN Project[p] = 1 .. Len(Project[p])
  BY Entries, Current DEF Fetching
<1>2. CASE i[p] = Len(Project[p])
  <2>1. pc' = [pc EXCEPT ![p] = "truncate"] /\ i' = [i EXCEPT ![p] = 0]
    BY <1>2 DEF NextPackage, At
  <2> QED BY <2>1, Moved DEF Label, Fetching, TypeOK
<1>3. CASE i[p] # Len(Project[p])
  <2>1. pc' = [pc EXCEPT ![p] = "package"] /\ i' = [i EXCEPT ![p] = i[p] + 1]
    BY <1>3 DEF NextPackage, At
  <2>2. i[p] + 1 \in DOMAIN Project[p] /\ i[p] + 1 \in Nat BY <1>1, <1>3
  <2> QED BY <2>1, <2>2, Moved DEF Label, Fetching, TypeOK
<1> QED BY <1>2, <1>3

(* A process that gives up. *)
LEMMA FailType ==
  ASSUME TypeInv, NEW p \in Process, Fail(p), faults' \in 0 .. MaxFaults
  PROVE  TypeInv'
<1>1. /\ pc' = [pc EXCEPT ![p] = "idle"] /\ i' = [i EXCEPT ![p] = 0]
      /\ shown' = [shown EXCEPT ![p] = NULL] /\ parsed' = [parsed EXCEPT ![p] = NULL]
      /\ UNCHANGED <<disk, force>>
  BY DEF Fail, At
<1>2. Placed' BY <1>1, Moved DEF TypeInv, Label, Fetching
<1>3. TypeOK' BY <1>1, <1>2 DEF TypeInv, TypeOK, Placed, Label, disk
<1>4. LockPrefix' BY <1>1, LockKept DEF TypeInv, TypeOK, disk
<1> QED BY <1>3, <1>4 DEF TypeInv

LEMMA StepType == TypeInv /\ [Next]_vars => TypeInv'
<1> SUFFICES ASSUME TypeInv, [Next]_vars PROVE TypeInv' OBVIOUS
<1> USE DEF TypeInv
<1>1. CASE UNCHANGED vars BY <1>1 DEF vars, TypeOK, LockPrefix
<1>2. ASSUME NEW p \in Process, NEW f \in BOOLEAN, Start(p, f) PROVE TypeInv'
  <2>1. /\ pc' = [pc EXCEPT ![p] = "manifest"] /\ i' = [i EXCEPT ![p] = 1]
        /\ force' = [force EXCEPT ![p] = f]
        /\ UNCHANGED <<disk, shown, parsed, faults>>
    BY <1>2 DEF Start, Goto, At
  <2>2. 1 \in DOMAIN Project[p] BY Entries
  <2>3. Placed' BY <2>1, <2>2, Moved DEF Label, Fetching
  <2>4. TypeOK' BY <2>1, <2>3 DEF TypeOK, Placed, Label, disk
  <2>5. LockPrefix' BY <2>1, LockKept DEF TypeOK, disk
  <2> QED BY <2>4, <2>5
<1>3. ASSUME NEW p \in Process, UpdateCache(p) \/ CloneCache(p) PROVE TypeInv'
  <2>1. /\ pc[p] \in Fetching /\ AfterCache(p) \in Fetching /\ AfterCache(p) # "entries"
        /\ pc' = [pc EXCEPT ![p] = AfterCache(p)] /\ cache' = [cache EXCEPT ![Cur(p).url] = "ready"]
        /\ UNCHANGED <<tmp, store, lock, i, force, shown, parsed, faults>>
    BY <1>3 DEF UpdateCache, CloneCache, Goto, AtCache, AfterCache, Fetching
  <2>2. Placed' BY <2>1, MovedOn DEF Label
  <2>3. TypeOK' BY <2>1, <2>2 DEF TypeOK, Placed, Label
  <2>4. LockPrefix' BY <2>1, LockKept DEF TypeOK
  <2> QED BY <2>3, <2>4
<1>4. ASSUME NEW p \in Process, GitFails(p) \/ ParseFails(p) PROVE TypeInv'
  <2>1. Fail(p) /\ (faults' = faults \/ (faults < MaxFaults /\ faults' = faults + 1))
    BY <1>4 DEF GitFails, ParseFails
  <2>2. faults' \in 0 .. MaxFaults BY <2>1, StoreAssumption DEF TypeOK
  <2> QED BY <2>1, <2>2, FailType
<1>5. ASSUME NEW p \in Process, Show(p) PROVE TypeInv'
  <2>1. /\ pc[p] \in Fetching /\ pc' = [pc EXCEPT ![p] = "write"]
        /\ shown' = [shown EXCEPT ![p] = Cur(p).version]
        /\ UNCHANGED <<disk, i, force, parsed, faults>>
    BY <1>5 DEF Show, Goto, Fetching
  <2>2. Placed' BY <2>1, MovedOn DEF Label, Fetching
  <2>3. TypeOK' BY <2>1, <2>2, Current DEF TypeOK, Placed, Label, disk
  <2>4. LockPrefix' BY <2>1, LockKept DEF TypeOK, disk
  <2> QED BY <2>3, <2>4
<1>6. ASSUME NEW p \in Process, WriteTmp(p) PROVE TypeInv'
  <2>1. /\ pc[p] \in Fetching /\ pc' = [pc EXCEPT ![p] = "parse"]
        /\ tmp' = [tmp EXCEPT ![Cur(p).url] = shown[p]]
        /\ UNCHANGED <<cache, store, lock, i, force, shown, parsed, faults>>
    BY <1>6 DEF WriteTmp, Goto, Fetching
  <2>2. Placed' BY <2>1, MovedOn DEF Label, Fetching
  <2>3. TypeOK' BY <2>1, <2>2 DEF TypeOK, Placed, Label
  <2>4. LockPrefix' BY <2>1, LockKept DEF TypeOK
  <2> QED BY <2>3, <2>4
<1>7. ASSUME NEW p \in Process, Parse(p) PROVE TypeInv'
  <2>1. /\ pc[p] \in Fetching /\ pc' = [pc EXCEPT ![p] = "remove"]
        /\ parsed' = [parsed EXCEPT ![p] = tmp[Cur(p).url]]
        /\ UNCHANGED <<disk, i, force, shown, faults>>
    BY <1>7 DEF Parse, Goto, Fetching
  <2>2. Placed' BY <2>1, MovedOn DEF Label, Fetching
  <2>3. Cur(p).url \in Url BY <2>1, Current
  <2>4. TypeOK' BY <2>1, <2>2, <2>3 DEF TypeOK, Placed, Label, disk
  <2>5. LockPrefix' BY <2>1, LockKept DEF TypeOK, disk
  <2> QED BY <2>4, <2>5
<1>8. ASSUME NEW p \in Process, RemoveTmp(p) PROVE TypeInv'
  <2> DEFINE last == i[p] = Len(Project[p])
             to == IF last THEN "package" ELSE "manifest"
             k  == IF last THEN 1 ELSE i[p] + 1
  <2>1. /\ pc[p] \in Fetching /\ pc' = [pc EXCEPT ![p] = to] /\ i' = [i EXCEPT ![p] = k]
        /\ tmp' = [tmp EXCEPT ![Cur(p).url] = NULL]
        /\ shown' = [shown EXCEPT ![p] = NULL] /\ parsed' = [parsed EXCEPT ![p] = NULL]
        /\ UNCHANGED <<cache, store, lock, force, faults>>
    BY <1>8 DEF RemoveTmp, Goto, At, Fetching
  <2>2. k \in DOMAIN Project[p] /\ k \in Nat BY <2>1, Entries, Current
  <2>3. to \in Label /\ to # "entries" BY DEF Label, Fetching
  <2> HIDE DEF to, k
  <2>4. Placed' BY <2>1, <2>2, <2>3, Moved
  <2>5. TypeOK' BY <2>1, <2>4 DEF TypeOK, Placed, Label
  <2>6. LockPrefix' BY <2>1, <2>3, LockKept DEF TypeOK
  <2> QED BY <2>5, <2>6
<1>9. ASSUME NEW p \in Process, Wipe(p) \/ CreateDir(p) PROVE TypeInv'
  <2>1. PICK to \in {"create", "checkout"}, v \in {Absent, Partial} :
          /\ pc[p] \in Fetching /\ pc' = [pc EXCEPT ![p] = to]
          /\ store' = store \/ store' = [store EXCEPT ![storeDir(Cur(p))] = v]
          /\ UNCHANGED <<cache, tmp, lock, i, force, shown, parsed, faults>>
    BY <1>9 DEF Wipe, CreateDir, Goto, Fetching
  <2>2. Placed' BY <2>1, MovedOn DEF Label, Fetching
  <2>3. store' \in [{storeDir(d) : d \in Deps} -> {Absent, Partial} \cup {Content(d) : d \in Deps}]
    BY <2>1 DEF TypeOK
  <2>4. TypeOK' BY <2>1, <2>2, <2>3 DEF TypeOK, Placed, Label
  <2>5. LockPrefix' BY <2>1, LockKept DEF TypeOK
  <2> QED BY <2>4, <2>5
<1>10. ASSUME NEW p \in Process, Reuse(p) \/ Checkout(p) PROVE TypeInv'
  <2>1. /\ pc[p] \in {"create", "checkout"} /\ NextPackage(p)
        /\ store' = store \/ store' = [store EXCEPT ![storeDir(Cur(p))] = Content(Cur(p))]
        /\ UNCHANGED <<cache, tmp, lock, force, shown, parsed, faults>>
    BY <1>10 DEF Reuse, Checkout, disk
  <2>2. Placed' /\ \A q \in Process : pc'[q] = "entries" => pc[q] = "entries"
    BY <2>1, NextIndex
  <2>3. store' \in [{storeDir(d) : d \in Deps} -> {Absent, Partial} \cup {Content(d) : d \in Deps}]
    BY <2>1, Current DEF TypeOK, Fetching
  <2>4. TypeOK' BY <2>1, <2>2, <2>3 DEF TypeOK, Placed, Label
  <2>5. LockPrefix' BY <2>1, <2>2, LockKept
  <2> QED BY <2>4, <2>5
<1>11. ASSUME NEW p \in Process, Truncate(p) PROVE TypeInv'
  <2>1. /\ pc' = [pc EXCEPT ![p] = "entries"] /\ lock' = [lock EXCEPT ![p] = << >>]
        /\ UNCHANGED <<cache, tmp, store, i, force, shown, parsed, faults>>
    BY <1>11 DEF Truncate, Goto
  <2>2. TypeOK'
    <3>1. << >> \in Seq(Deps) OBVIOUS
    <3>2. lock' \in [Process -> Seq(Deps) \cup {NULL}] BY <2>1, <3>1 DEF TypeOK
    <3>3. Placed' BY <2>1 DEF TypeOK, Placed, Label, Fetching
    <3> QED BY <2>1, <3>2, <3>3 DEF TypeOK, Placed, Label
  <2>3. ASSUME NEW q \in Process, pc'[q] = "entries"
        PROVE  /\ lock'[q] \in Seq(Deps) /\ Len(lock'[q]) < Len(Project[q])
               /\ \A n \in 1 .. Len(lock'[q]) : lock'[q][n] = Project[q][n]
    <3>1. CASE q = p
      <4>1. lock'[q] = << >> /\ Len(Project[q]) \in Nat \ {0} BY <2>1, <3>1, Entries DEF TypeOK
      <4> QED BY <4>1
    <3>2. CASE q # p BY <2>1, <2>3, <3>2 DEF TypeOK, LockPrefix
    <3> QED BY <3>1, <3>2
  <2>4. LockPrefix' BY <2>3 DEF LockPrefix
  <2> QED BY <2>2, <2>4
<1>12. ASSUME NEW p \in Process, WriteEntry(p) PROVE TypeInv'
  <2> DEFINE n == Len(lock[p]) + 1
             new == Append(lock[p], Project[p][n])
             to == IF n = Len(Project[p]) THEN "idle" ELSE "entries"
  <2>1. /\ pc[p] = "entries" /\ lock' = [lock EXCEPT ![p] = new] /\ pc' = [pc EXCEPT ![p] = to]
        /\ UNCHANGED <<cache, tmp, store, i, force, shown, parsed, faults>>
    BY <1>12 DEF WriteEntry
  <2>2. /\ lock[p] \in Seq(Deps) /\ Len(lock[p]) \in Nat /\ Len(lock[p]) < Len(Project[p])
        /\ \A m \in 1 .. Len(lock[p]) : lock[p][m] = Project[p][m]
    BY <2>1 DEF LockPrefix
  <2>3. n \in DOMAIN Project[p] /\ Project[p][n] \in Deps BY <2>2, Entries
  <2>4. /\ new \in Seq(Deps) /\ Len(new) = n
        /\ \A m \in 1 .. n : new[m] = Project[p][m]
    BY <2>2, <2>3
  <2>5. to = "entries" => Len(new) < Len(Project[p]) BY <2>3, <2>4, Entries
  <2>6. to \in {"idle", "entries"} OBVIOUS
  <2> HIDE DEF n, new, to
  <2>7. TypeOK' BY <2>1, <2>4, <2>6 DEF TypeOK, Fetching
  <2>8. ASSUME NEW q \in Process, pc'[q] = "entries"
        PROVE  /\ lock'[q] \in Seq(Deps) /\ Len(lock'[q]) < Len(Project[q])
               /\ \A m \in 1 .. Len(lock'[q]) : lock'[q][m] = Project[q][m]
    <3>1. CASE q = p BY <2>1, <2>4, <2>5, <2>8, <3>1 DEF TypeOK
    <3>2. CASE q # p BY <2>1, <2>8, <3>2 DEF TypeOK, LockPrefix
    <3> QED BY <3>1, <3>2
  <2>9. LockPrefix' BY <2>8 DEF LockPrefix
  <2> QED BY <2>7, <2>9
<1>13. ASSUME NEW p \in Process, Crash(p) PROVE TypeInv'
  <2>1. /\ pc' = [pc EXCEPT ![p] = "idle"] /\ i' = [i EXCEPT ![p] = 0]
        /\ cache' = cache \/ cache' = [cache EXCEPT ![Cur(p).url] = "partial"]
        /\ store' = store \/ store' = [store EXCEPT ![storeDir(Cur(p))] = Partial]
        /\ shown' = [shown EXCEPT ![p] = NULL] /\ parsed' = [parsed EXCEPT ![p] = NULL]
        /\ faults < MaxFaults /\ faults' = faults + 1
        /\ UNCHANGED <<tmp, lock, force>>
    BY <1>13 DEF Crash, At
  <2>2. Placed' BY <2>1, Moved DEF Label, Fetching
  <2>3. store' \in [{storeDir(d) : d \in Deps} -> {Absent, Partial} \cup {Content(d) : d \in Deps}]
    BY <2>1 DEF TypeOK
  <2>4. cache' \in [Url -> {"absent", "partial", "ready"}] BY <2>1 DEF TypeOK
  <2>5. faults' \in 0 .. MaxFaults BY <2>1, StoreAssumption DEF TypeOK
  <2>6. TypeOK' BY <2>1, <2>2, <2>3, <2>4, <2>5 DEF TypeOK, Placed, Label
  <2>7. LockPrefix' BY <2>1, LockKept DEF TypeOK
  <2> QED BY <2>6, <2>7
<1> QED
  BY <1>1, <1>2, <1>3, <1>4, <1>5, <1>6, <1>7, <1>8, <1>9, <1>10, <1>11, <1>12, <1>13
  DEF Next, FetchManifest, FetchPackage, WriteLock

THEOREM TypeCorrect == Spec => []TypeOK
<1>1. TypeInv => TypeOK BY DEF TypeInv
<1> QED BY InitType, StepType, <1>1, PTL DEF Spec

-----------------------------------------------------------------------------
(***************************************************************************)
(* Complete installs.  The packages that p is done with are in the store,  *)
(* or in the hands of a process that will put them there:                  *)
(*   Made      without faults, a directory that is neither absent nor the  *)
(*             package is being filled, so that an install that reuses it  *)
(*             leaves it to another one;                                   *)
(*   Kept      without faults, what p is done with stays in these hands;   *)
(*   Emptied, Forced  with --force p fills every directory anew that only  *)
(*             its project uses, whatever it was.                          *)
(***************************************************************************)
Working == {"create", "checkout"}
Works(q, d) == pc[q] \in Working /\ storeDir(Cur(q)) = storeDir(d)
Fills(q, d) == pc[q] = "checkout" /\ storeDir(Cur(q)) = storeDir(d)
Done(p, n) ==
  \/ pc[p] \in {"package", "wipe", "create", "checkout"} /\ n < i[p]
  \/ pc[p] \in {"truncate", "entries"}
Stored(d) == store[storeDir(d)] = Content(d)

Made ==
  faults = 0 =>
    \A d \in Deps : store[storeDir(d)] = Absent \/ Stored(d) \/ \E q \in Process : Fills(q, d)
Kept ==
  faults = 0 =>
    \A p \in Process : \A n \in DOMAIN Project[p] :
      Done(p, n) => Stored(Project[p][n]) \/ \E q \in Process : Works(q, Project[p][n])
Forced ==
  \A p \in Process : \A n \in DOMAIN Project[p] :
    force[p] /\ ~Shared(p, Project[p][n]) /\ Done(p, n) =>
      Stored(Project[p][n]) \/ Works(p, Project[p][n])
Emptied ==
  \A p \in Process : \A n \in DOMAIN Project[p] :
    force[p] /\ ~Shared(p, Project[p][n]) /\ pc[p] = "create" /\ i[p] = n =>
      store[storeDir(Project[p][n])] = Absent
Hands == Made /\ Kept /\ Forced /\ Emptied
IInv == TypeInv /\ Hands

(* Two packages that have one directory are the same package. *)
NoCollision == \A d, e \in Deps : storeDir(d) = storeDir(e) => Content(d) = Content(e)

LEMMA InitHands == Init => Hands
BY DEF Init, Hands, Made, Kept, Forced, Emptied, Done, Working

(* A step that is at no directory leaves them in the hands they are in.    *)
LEMMA Elsewhere ==
  ASSUME IInv, NEW p \in Process, store' = store, faults' = faults,
         pc[p] \notin Working, pc'[p] \notin Working,
         \A q \in Process \ {p} : pc'[q] = pc[q] /\ i'[q] = i[q] /\ force'[q] = force[q],
         \A n \in DOMAIN Project[p] : Done(p, n)' => Done(p, n) /\ force'[p] = force[p]
  PROVE  Hands'
<1> USE DEF IInv, Hands
<1>1. \A q \in Process, d \in Deps : (Works(q, d) => Works(q, d)') /\ (Fills(q, d) => Fills(q, d)')
  BY DEF Works, Fills, Cur, Working
<1>2. \A d \in Deps : Stored(d)' <=> Stored(d) BY DEF Stored
<1>3. \A q \in Process : \A n \in DOMAIN Project[q] : Project[q][n] \in Deps BY DEF Deps
<1>4. \A q \in Process : \A n \in DOMAIN Project[q] : Done(q, n)' => Done(q, n) /\ force'[q] = force[q]
  BY DEF Done
<1>5. Made' BY <1>1, <1>2 DEF Made
<1>6. Kept' BY <1>1, <1>2, <1>3, <1>4 DEF Kept
<1>7. Forced' BY <1>1, <1>2, <1>3, <1>4 DEF Forced
<1>8. Emptied' BY DEF Emptied, Working
<1> QED BY <1>5, <1>6, <1>7, <1>8

(* No other process works in a directory that only one project uses. *)
LEMMA Unshared ==
  ASSUME TypeOK, NEW p \in Process, pc[p] \in Fetching,
         NEW q \in Process \ {p}, NEW n \in DOMAIN Project[q], ~Shared(q, Project[q][n])
  PROVE  storeDir(Project[q][n]) # storeDir(Cur(p))
BY Current DEF Shared, Cur

(* A fault of p leaves alone what only others use. *)
LEMMA FaultKeeps ==
  ASSUME IInv, NEW p \in Process, faults' # 0, pc' = [pc EXCEPT ![p] = "idle"],
         i' = [i EXCEPT ![p] = 0], force' = force,
         store' = store \/ (pc[p] \in Fetching /\ store' = [store EXCEPT ![storeDir(Cur(p))] = Partial])
  PROVE  Hands'
<1> USE DEF IInv, TypeInv, Hands
<1>1. \A q \in Process \ {p} : pc'[q] = pc[q] /\ i'[q] = i[q] BY DEF TypeOK
<1>2. pc'[p] = "idle" BY DEF TypeOK
<1>3. ASSUME NEW q \in Process \ {p}, NEW n \in DOMAIN Project[q], ~Shared(q, Project[q][n])
      PROVE  store'[storeDir(Project[q][n])] = store[storeDir(Project[q][n])]
  <2>1. CASE store' = store BY <2>1
  <2>2. CASE pc[p] \in Fetching /\ store' = [store EXCEPT ![storeDir(Cur(p))] = Partial]
    <3>1. storeDir(Project[q][n]) # storeDir(Cur(p)) BY <1>3, <2>2, Unshared
    <3>2. Project[q][n] \in Deps BY Entries
    <3> QED BY <2>2, <3>1, <3>2 DEF TypeOK
  <2> QED BY <2>1, <2>2
<1>4. Made' /\ Kept' BY DEF Made, Kept
<1>5. Forced'
  <2> SUFFICES ASSUME NEW q \in Process, NEW n \in DOMAIN Project[q],
                      force'[q], ~Shared(q, Project[q][n]), Done(q, n)'
               PROVE  Stored(Project[q][n])' \/ Works(q, Project[q][n])'
    BY DEF Forced
  <2>1. q # p BY <1>2 DEF Done
  <2>2. Done(q, n) BY <1>1, <2>1 DEF Done
  <2>3. Stored(Project[q][n]) \/ Works(q, Project[q][n]) BY <2>2 DEF Forced
  <2> QED BY <1>1, <1>3, <2>1, <2>3 DEF Stored, Works, Cur
<1>6. Emptied' BY <1>1, <1>2, <1>3 DEF Emptied
<1> QED BY <1>4, <1>5, <1>6

(***************************************************************************)
(* The steps in a directory.                                               *)
(***************************************************************************)
OthersAt(p) == \A q \in Process \ {p} : pc'[q] = pc[q] /\ i'[q] = i[q] /\ force'[q] = force[q]

LEMMA OthersStay ==
  ASSUME NEW p \in Process, OthersAt(p)
  PROVE  /\ \A q \in Process \ {p}, d \in Deps :
              (Works(q, d)' <=> Works(q, d)) /\ (Fills(q, d)' <=> Fills(q, d))
         /\ \A q \in Process \ {p} : \A n \in DOMAIN Project[q] : Done(q, n)' <=> Done(q, n)
BY DEF OthersAt, Works, Fills, Done, Cur

(* p writes v to its directory. *)
LEMMA Written ==
  ASSUME TypeOK, NEW p \in Process, pc[p] \in Fetching, NEW v,
         store' = [store EXCEPT ![storeDir(Cur(p))] = v]
  PROVE  \A d \in Deps :
           store'[storeDir(d)] = IF storeDir(d) = storeDir(Cur(p)) THEN v ELSE store[storeDir(d)]
BY Current DEF TypeOK

(* p stays at its package. *)
LEMMA StaysAt ==
  ASSUME NEW p \in Process, OthersAt(p), i' = i,
         pc[p] \in {"wipe", "create", "checkout"}, pc'[p] \in {"wipe", "create", "checkout"}
  PROVE  \A q \in Process : \A n \in DOMAIN Project[q] :
           Project[q][n] \in Deps /\ (Done(q, n)' <=> Done(q, n))
<1> SUFFICES ASSUME NEW q \in Process, NEW n \in DOMAIN Project[q]
             PROVE  Project[q][n] \in Deps /\ (Done(q, n)' <=> Done(q, n))
  OBVIOUS
<1>1. Project[q][n] \in Deps BY Entries
<1>2. CASE q = p BY <1>1, <1>2 DEF Done
<1>3. CASE q # p BY <1>1, <1>3, OthersStay
<1> QED BY <1>1, <1>2, <1>3

(* p leaves its directory. *)
LEMMA MovesOn ==
  ASSUME TypeOK, NEW p \in Process, pc[p] \in Working, NextPackage(p), force' = force
  PROVE  /\ OthersAt(p) /\ pc'[p] \notin Working
         /\ \A n \in DOMAIN Project[p] : Done(p, n)' => Done(p, n) \/ n = i[p]
<1>1. /\ pc' = [pc EXCEPT ![p] = IF i[p] = Len(Project[p]) THEN "truncate" ELSE "package"]
      /\ i' = [i EXCEPT ![p] = IF i[p] = Len(Project[p]) THEN 0 ELSE i[p] + 1]
  BY DEF NextPackage, At
<1>2. OthersAt(p) BY <1>1 DEF OthersAt, TypeOK
<1>3. /\ pc'[p] = IF i[p] = Len(Project[p]) THEN "truncate" ELSE "package"
      /\ i'[p] = IF i[p] = Len(Project[p]) THEN 0 ELSE i[p] + 1
  BY <1>1 DEF TypeOK
<1>4. /\ i[p] \in 1 .. Len(Project[p]) /\ Len(Project[p]) \in Nat
      /\ DOMAIN Project[p] = 1 .. Len(Project[p])
  BY Entries, Current DEF Working, Fetching
<1>5. \A n \in DOMAIN Project[p] : Done(p, n)' => Done(p, n) \/ n = i[p]
  BY <1>3, <1>4 DEF Done, Working
<1> QED BY <1>2, <1>3, <1>5 DEF Working

LEMMA WipeHands ==
  ASSUME IInv, NEW p \in Process, Wipe(p)
  PROVE  Hands'
<1> USE DEF IInv, TypeInv, Hands
<1> DEFINE dir == storeDir(Cur(p))
<1>1. /\ pc[p] = "wipe" /\ pc' = [pc EXCEPT ![p] = "create"] /\ i' = i /\ force' = force
      /\ faults' = faults /\ pc[p] \in Fetching /\ pc'[p] = "create" /\ Cur(p)' = Cur(p)
      /\ store' = IF force[p] THEN [store EXCEPT ![dir] = Absent] ELSE store
  BY DEF Wipe, Goto, Wiped, Fetching, TypeOK, Cur
<1>2. OthersAt(p) BY <1>1 DEF OthersAt, TypeOK
<1>3. \A d \in Deps : store'[storeDir(d)] =
        IF force[p] /\ storeDir(d) = dir THEN Absent ELSE store[storeDir(d)]
  <2>1. CASE force[p]
    <3>1. store' = [store EXCEPT ![dir] = Absent] BY <1>1, <2>1
    <3> QED BY <1>1, <2>1, <3>1, Written
  <2>2. CASE ~force[p] BY <1>1, <2>2
  <2> QED BY <2>1, <2>2
<1>4. \A q \in Process : \A n \in DOMAIN Project[q] :
        Project[q][n] \in Deps /\ (Done(q, n)' <=> Done(q, n))
  BY <1>1, <1>2, StaysAt
<1>5. \A d \in Deps : /\ ~Works(p, d) /\ ~Fills(p, d)
                      /\ storeDir(d) = dir => Works(p, d)'
  BY <1>1 DEF Works, Fills, Working
<1>6. Made' BY <1>1, <1>2, <1>3, <1>5, OthersStay DEF Made, Stored
<1>7. Kept' BY <1>1, <1>2, <1>3, <1>4, <1>5, OthersStay DEF Kept, Stored
<1>8. Forced'
  <2> SUFFICES ASSUME NEW q \in Process, NEW n \in DOMAIN Project[q],
                      force[q], ~Shared(q, Project[q][n]), Done(q, n)
               PROVE  Stored(Project[q][n])' \/ Works(q, Project[q][n])'
    BY <1>1, <1>4 DEF Forced
  <2>1. Stored(Project[q][n]) \/ Works(q, Project[q][n]) BY DEF Forced
  <2>2. CASE q = p BY <1>3, <1>4, <1>5, <2>1, <2>2 DEF Stored
  <2>3. CASE q # p
    <3>1. storeDir(Project[q][n]) # dir BY <1>1, <2>3, Unshared
    <3> QED BY <1>2, <1>3, <1>4, <2>1, <2>3, <3>1, OthersStay DEF Stored
  <2> QED BY <2>2, <2>3
<1>9. Emptied'
  <2> SUFFICES ASSUME NEW q \in Process, NEW n \in DOMAIN Project[q],
                      force[q], ~Shared(q, Project[q][n]), pc'[q] = "create", i[q] = n
               PROVE  store'[storeDir(Project[q][n])] = Absent
    BY <1>1 DEF Emptied
  <2>1. CASE q = p BY <1>3, <1>4, <2>1 DEF Cur
  <2>2. CASE q # p
    <3>1. storeDir(Project[q][n]) # dir BY <1>1, <2>2, Unshared
    <3>2. pc[q] = "create" BY <1>2, <2>2 DEF OthersAt
    <3> QED BY <1>3, <1>4, <3>1, <3>2 DEF Emptied
  <2> QED BY <2>1, <2>2
<1> QED BY <1>6, <1>7, <1>8, <1>9

LEMMA CreateHands ==
  ASSUME IInv, NEW p \in Process, CreateDir(p)
  PROVE  Hands'
<1> USE DEF IInv, TypeInv, Hands
<1> DEFINE dir == storeDir(Cur(p))
<1>1. /\ pc[p] = "create" /\ pc' = [pc EXCEPT ![p] = "checkout"] /\ i' = i /\ force' = force
      /\ faults' = faults /\ pc[p] \in Fetching /\ pc'[p] = "checkout" /\ Cur(p)' = Cur(p)
      /\ store' = [store EXCEPT ![dir] = Partial]
  BY DEF CreateDir, Goto, Fetching, TypeOK, Cur
<1>2. OthersAt(p) BY <1>1 DEF OthersAt, TypeOK
<1>3. \A d \in Deps : store'[storeDir(d)] =
        IF storeDir(d) = dir THEN Partial ELSE store[storeDir(d)]
  BY <1>1, Written
<1>4. \A q \in Process : \A n \in DOMAIN Project[q] :
        Project[q][n] \in Deps /\ (Done(q, n)' <=> Done(q, n))
  BY <1>1, <1>2, StaysAt
<1>5. \A d \in Deps : /\ ~Fills(p, d) /\ (Works(p, d) => Works(p, d)')
                      /\ storeDir(d) = dir => Works(p, d)' /\ Fills(p, d)'
  BY <1>1 DEF Works, Fills, Working
<1>6. Made' BY <1>1, <1>2, <1>3, <1>5, OthersStay DEF Made, Stored
<1>7. Kept' BY <1>1, <1>2, <1>3, <1>4, <1>5, OthersStay DEF Kept, Stored
<1>8. Forced'
  <2> SUFFICES ASSUME NEW q \in Process, NEW n \in DOMAIN Project[q],
                      force[q], ~Shared(q, Project[q][n]), Done(q, n)
               PROVE  Stored(Project[q][n])' \/ Works(q, Project[q][n])'
    BY <1>1, <1>4 DEF Forced
  <2>1. Stored(Project[q][n]) \/ Works(q, Project[q][n]) BY DEF Forced
  <2>2. CASE q = p BY <1>3, <1>4, <1>5, <2>1, <2>2 DEF Stored
  <2>3. CASE q # p
    <3>1. storeDir(Project[q][n]) # dir BY <1>1, <2>3, Unshared
    <3> QED BY <1>2, <1>3, <1>4, <2>1, <2>3, <3>1, OthersStay DEF Stored
  <2> QED BY <2>2, <2>3
<1>9. Emptied'
  <2> SUFFICES ASSUME NEW q \in Process, NEW n \in DOMAIN Project[q],
                      force[q], ~Shared(q, Project[q][n]), pc'[q] = "create", i[q] = n
               PROVE  store'[storeDir(Project[q][n])] = Absent
    BY <1>1 DEF Emptied
  <2>1. q # p BY <1>1
  <2>2. storeDir(Project[q][n]) # dir BY <1>1, <2>1, Unshared
  <2>3. pc[q] = "create" BY <1>2, <2>1 DEF OthersAt
  <2> QED BY <1>3, <1>4, <2>2, <2>3 DEF Emptied
<1> QED BY <1>6, <1>7, <1>8, <1>9

(* The directory is there: it is the package, or somebody is filling it. *)
LEMMA ReuseHands ==
  ASSUME NoCollision, IInv, NEW p \in Process, Reuse(p)
  PROVE  Hands'
<1> USE DEF IInv, TypeInv, Hands
<1> DEFINE dir == storeDir(Cur(p))
<1>1. /\ pc[p] = "create" /\ pc[p] \in Fetching /\ pc[p] \in Working /\ store[dir] # Absent
      /\ NextPackage(p) /\ store' = store /\ force' = force /\ faults' = faults
  BY DEF Reuse, disk, Fetching, Working
<1>2. /\ OthersAt(p) /\ pc'[p] \notin Working
      /\ \A n \in DOMAIN Project[p] : Done(p, n)' => Done(p, n) \/ n = i[p]
  BY <1>1, MovesOn
<1>3. \A d \in Deps : /\ ~Fills(p, d) /\ ~Fills(p, d)'
                      /\ Works(p, d) => storeDir(d) = dir
                      /\ Stored(d)' <=> Stored(d)
  BY <1>1, <1>2 DEF Works, Fills, Working, Stored
<1>4. Cur(p) \in Deps /\ i[p] \in DOMAIN Project[p] /\ Cur(p) = Project[p][i[p]]
  BY <1>1, Current DEF Cur
<1>5. Made' BY <1>1, <1>2, <1>3, OthersStay DEF Made
<1>6. ASSUME faults = 0, NEW d \in Deps, storeDir(d) = dir
      PROVE  Stored(d) \/ \E q \in Process \ {p} : Works(q, d)
  BY <1>1, <1>3, <1>6 DEF Made, Works, Fills, Working
<1>7. Kept'
  <2> SUFFICES ASSUME faults = 0, NEW q \in Process, NEW n \in DOMAIN Project[q], Done(q, n)'
               PROVE  Stored(Project[q][n])' \/ \E r \in Process : Works(r, Project[q][n])'
    BY <1>1 DEF Kept
  <2>1. Project[q][n] \in Deps BY Entries
  <2>2. Done(q, n) \/ storeDir(Project[q][n]) = dir BY <1>2, <1>4, OthersStay
  <2>3. CASE storeDir(Project[q][n]) = dir BY <1>2, <1>3, <1>6, <2>1, <2>3, OthersStay
  <2>4. CASE storeDir(Project[q][n]) # dir
    <3>1. Stored(Project[q][n]) \/ \E r \in Process : Works(r, Project[q][n])
      BY <2>2, <2>4 DEF Kept
    <3> QED BY <1>2, <1>3, <2>1, <2>4, <3>1, OthersStay
  <2> QED BY <2>3, <2>4
<1>8. Forced'
  <2> SUFFICES ASSUME NEW q \in Process, NEW n \in DOMAIN Project[q],
                      force[q], ~Shared(q, Project[q][n]), Done(q, n)'
               PROVE  Stored(Project[q][n])' \/ Works(q, Project[q][n])'
    BY <1>1 DEF Forced
  <2>1. Project[q][n] \in Deps BY Entries
  <2>2. CASE q = p
    <3>1. storeDir(Project[p][n]) # dir
      <4>1. SUFFICES ASSUME storeDir(Project[p][n]) = dir PROVE FALSE OBVIOUS
      <4>2. ~Shared(p, Cur(p)) BY <2>2, <4>1 DEF Shared
      <4>3. store[dir] = Absent BY <1>1, <1>4, <2>2, <4>2 DEF Emptied
      <4> QED BY <1>1, <4>3
    <3>2. Done(p, n) BY <1>2, <1>4, <2>2, <3>1
    <3>3. Stored(Project[p][n]) \/ Works(p, Project[p][n]) BY <2>2, <3>2 DEF Forced
    <3> QED BY <1>3, <2>1, <2>2, <3>1, <3>3
  <2>3. CASE q # p
    <3>1. Done(q, n) BY <1>2, <2>3, OthersStay
    <3>2. Stored(Project[q][n]) \/ Works(q, Project[q][n]) BY <3>1 DEF Forced
    <3> QED BY <1>2, <1>3, <2>1, <2>3, <3>2, OthersStay
  <2> QED BY <2>2, <2>3
<1>9. Emptied' BY <1>1, <1>2 DEF Emptied, OthersAt, Working
<1> QED BY <1>5, <1>7, <1>8, <1>9

LEMMA CheckoutHands ==
  ASSUME NoCollision, IInv, NEW p \in Process, Checkout(p)
  PROVE  Hands'
<1> USE DEF IInv, TypeInv, Hands
<1> DEFINE dir == storeDir(Cur(p))
<1>1. /\ pc[p] = "checkout" /\ pc[p] \in Fetching /\ pc[p] \in Working
      /\ store' = [store EXCEPT ![dir] = Content(Cur(p))]
      /\ NextPackage(p) /\ force' = force /\ faults' = faults
  BY DEF Checkout, Fetching, Working
<1>2. /\ OthersAt(p) /\ pc'[p] \notin Working
      /\ \A n \in DOMAIN Project[p] : Done(p, n)' => Done(p, n) \/ n = i[p]
  BY <1>1, MovesOn
<1>3. \A d \in Deps : store'[storeDir(d)] =
        IF storeDir(d) = dir THEN Content(Cur(p)) ELSE store[storeDir(d)]
  BY <1>1, Written
<1>4. Cur(p) \in Deps /\ i[p] \in DOMAIN Project[p] /\ Cur(p) = Project[p][i[p]]
  BY <1>1, Current DEF Cur
<1>5. \A d \in Deps : /\ storeDir(d) = dir => Stored(d)'
                      /\ storeDir(d) # dir => (Stored(d)' <=> Stored(d)) /\ ~Works(p, d) /\ ~Fills(p, d)
  BY <1>3, <1>4 DEF NoCollision, Stored, Works, Fills
<1>6. Made'
  <2> SUFFICES ASSUME faults = 0, NEW d \in Deps, storeDir(d) # dir
               PROVE  store'[storeDir(d)] = Absent \/ Stored(d)' \/ \E q \in Process : Fills(q, d)'
    BY <1>1, <1>5 DEF Made
  <2>1. store[storeDir(d)] = Absent \/ Stored(d) \/ \E q \in Process : Fills(q, d) BY DEF Made
  <2> QED BY <1>2, <1>3, <1>5, <2>1, OthersStay
<1>7. Kept'
  <2> SUFFICES ASSUME faults = 0, NEW q \in Process, NEW n \in DOMAIN Project[q], Done(q, n)',
                      storeDir(Project[q][n]) # dir
               PROVE  Stored(Project[q][n])' \/ \E r \in Process : Works(r, Project[q][n])'
    BY <1>1, <1>5, Entries DEF Kept
  <2>1. Project[q][n] \in Deps BY Entries
  <2>2. Done(q, n) BY <1>2, <1>4, OthersStay
  <2>3. Stored(Project[q][n]) \/ \E r \in Process : Works(r, Project[q][n]) BY <2>2 DEF Kept
  <2> QED BY <1>2, <1>5, <2>1, <2>3, OthersStay
<1>8. Forced'
  <2> SUFFICES ASSUME NEW q \in Process, NEW n \in DOMAIN Project[q],
                      force[q], ~Shared(q, Project[q][n]), Done(q, n)',
                      storeDir(Project[q][n]) # dir
               PROVE  Stored(Project[q][n])' \/ Works(q, Project[q][n])'
    BY <1>1, <1>5, Entries DEF Forced
  <2>1. Project[q][n] \in Deps BY Entries
  <2>2. Done(q, n) BY <1>2, <1>4, OthersStay
  <2>3. Stored(Project[q][n]) \/ Works(q, Project[q][n]) BY <2>2 DEF Forced
  <2> QED BY <1>2, <1>5, <2>1, <2>3, OthersStay
<1>9. Emptied'
  <2> SUFFICES ASSUME NEW q \in Process, NEW n \in DOMAIN Project[q],
                      force[q], ~Shared(q, Project[q][n]), pc'[q] = "create", i'[q] = n
               PROVE  store'[storeDir(Project[q][n])] = Absent
    BY <1>1 DEF Emptied
  <2>1. q # p BY <1>2 DEF Working
  <2>2. storeDir(Project[q][n]) # dir BY <1>1, <2>1, Unshared
  <2>3. pc[q] = "create" /\ i[q] = n BY <1>2, <2>1 DEF OthersAt
  <2>4. store[storeDir(Project[q][n])] = Absent BY <2>3 DEF Emptied
  <2> QED BY <1>3, <2>2, <2>4, Entries
<1> QED BY <1>6, <1>7, <1>8, <1>9

LEMMA StepHands == NoCollision /\ IInv /\ [Next]_vars => Hands'
<1> SUFFICES ASSUME NoCollision, IInv, [Next]_vars PROVE Hands' OBVIOUS
<1> USE DEF IInv, TypeInv
<1>1. CASE UNCHANGED vars
  BY <1>1 DEF vars, Hands, Made, Kept, Forced, Emptied, Done, Works, Fills, Stored, Cur
<1>2. ASSUME NEW p \in Process, NEW f \in BOOLEAN, Start(p, f) PROVE Hands'
  <2>1. /\ pc[p] = "idle" /\ pc' = [pc EXCEPT ![p] = "manifest"] /\ i' = [i EXCEPT ![p] = 1]
        /\ force' = [force EXCEPT ![p] = f] /\ store' = store /\ faults' = faults
    BY <1>2 DEF Start, Goto, At, disk
  <2>2. pc'[p] = "manifest" BY <2>1 DEF TypeOK
  <2>3. \A q \in Process \ {p} : pc'[q] = pc[q] /\ i'[q] = i[q] /\ force'[q] = force[q]
    BY <2>1 DEF TypeOK
  <2> QED BY <2>1, <2>2, <2>3, Elsewhere DEF Working, Done
<1>3. ASSUME NEW p \in Process, UpdateCache(p) \/ CloneCache(p) PROVE Hands'
  <2>1. /\ pc[p] \in {"manifest", "package"} /\ pc' = [pc EXCEPT ![p] = AfterCache(p)]
        /\ i' = i /\ force' = force /\ store' = store /\ faults' = faults
    BY <1>3 DEF UpdateCache, CloneCache, Goto, AtCache
  <2>2. pc'[p] = IF pc[p] = "manifest" THEN "show" ELSE "wipe" BY <2>1 DEF TypeOK, AfterCache
  <2>3. \A q \in Process \ {p} : pc'[q] = pc[q] BY <2>1 DEF TypeOK
  <2> QED BY <2>1, <2>2, <2>3, Elsewhere DEF Working, Done
<1>4. ASSUME NEW p \in Process, Show(p) \/ WriteTmp(p) \/ Parse(p) PROVE Hands'
  <2>1. PICK to \in {"write", "parse", "remove"} :
          /\ pc[p] \in {"show", "write", "parse"} /\ pc' = [pc EXCEPT ![p] = to]
          /\ i' = i /\ force' = force /\ store' = store /\ faults' = faults
    BY <1>4 DEF Show, WriteTmp, Parse, Goto, disk
  <2>2. pc'[p] = to /\ \A q \in Process \ {p} : pc'[q] = pc[q] BY <2>1 DEF TypeOK
  <2> QED BY <2>1, <2>2, Elsewhere DEF Working, Done
<1>5. ASSUME NEW p \in Process, GitFails(p) \/ ParseFails(p) PROVE Hands'
  <2>1. /\ pc' = [pc EXCEPT ![p] = "idle"] /\ i' = [i EXCEPT ![p] = 0]
        /\ force' = force /\ store' = store
    BY <1>5 DEF GitFails, ParseFails, Fail, At, disk
  <2>2. CASE pc[p] \notin Working /\ faults' = faults
    <3>1. pc'[p] = "idle" /\ \A q \in Process \ {p} : pc'[q] = pc[q] /\ i'[q] = i[q]
      BY <2>1 DEF TypeOK
    <3> QED BY <2>1, <2>2, <3>1, Elsewhere DEF Working, Done
  <2>3. CASE faults' # 0 BY <2>1, <2>3, FaultKeeps
  <2>4. (pc[p] \notin Working /\ faults' = faults) \/ faults' = faults + 1
    BY <1>5 DEF GitFails, ParseFails, AtCache, Working
  <2>5. faults \in Nat BY StoreAssumption DEF TypeOK
  <2> QED BY <2>2, <2>3, <2>4, <2>5
<1>6. ASSUME NEW p \in Process, RemoveTmp(p) PROVE Hands'
  <2>1. PICK to \in {"package", "manifest"}, k \in Nat :
          /\ pc[p] = "remove" /\ pc' = [pc EXCEPT ![p] = to] /\ i' = [i EXCEPT ![p] = k]
          /\ to = "package" => k = 1
          /\ force' = force /\ store' = store /\ faults' = faults
    <3>1. i[p] \in Nat BY DEF TypeOK
    <3>2. CASE i[p] = Len(Project[p])
      BY <1>6, <3>2 DEF RemoveTmp, Goto, At
    <3>3. CASE i[p] # Len(Project[p])
      <4>1. i[p] + 1 \in Nat BY <3>1
      <4> QED BY <1>6, <3>3, <4>1 DEF RemoveTmp, Goto, At
    <3> QED BY <3>2, <3>3
  <2>2. pc'[p] = to /\ i'[p] = k /\ \A q \in Process \ {p} : pc'[q] = pc[q] /\ i'[q] = i[q]
    BY <2>1 DEF TypeOK
  <2>3. \A n \in DOMAIN Project[p] : ~(n < 1) BY Entries
  <2> QED BY <2>1, <2>2, <2>3, Elsewhere DEF Working, Done
<1>7. ASSUME NEW p \in Process, Truncate(p) \/ WriteEntry(p) PROVE Hands'
  <2>1. PICK to \in {"entries", "idle"} :
          /\ pc[p] \in {"truncate", "entries"} /\ pc' = [pc EXCEPT ![p] = to]
          /\ i' = i /\ force' = force /\ store' = store /\ faults' = faults
    BY <1>7 DEF Truncate, WriteEntry, Goto
  <2>2. pc'[p] = to /\ \A q \in Process \ {p} : pc'[q] = pc[q] BY <2>1 DEF TypeOK
  <2> QED BY <2>1, <2>2, Elsewhere DEF Working, Done
<1>8. ASSUME NEW p \in Process, Crash(p) PROVE Hands'
  <2>1. /\ pc' = [pc EXCEPT ![p] = "idle"] /\ i' = [i EXCEPT ![p] = 0] /\ force' = force
        /\ \/ store' = store
           \/ pc[p] \in Fetching /\ store' = [store EXCEPT ![storeDir(Cur(p))] = Partial]
        /\ faults' = faults + 1
    BY <1>8 DEF Crash, At, Fetching
  <2>2. faults' # 0 BY <2>1, StoreAssumption DEF TypeOK
  <2> QED BY <2>1, <2>2, FaultKeeps
<1>9. ASSUME NEW p \in Process, FetchPackage(p) PROVE Hands'
  BY <1>9, WipeHands, CreateHands, ReuseHands, CheckoutHands DEF FetchPackage
<1> QED
  BY <1>1, <1>2, <1>3, <1>4, <1>5, <1>6, <1>7, <1>8, <1>9 DEF Next, FetchManifest, WriteLock

(* An install that ends is complete. *)
LEMMA StepComplete ==
  ASSUME IInv, [Next]_vars, NEW p \in Process, Finishes(p)
  PROVE  /\ lock'[p] = Project[p]
         /\ \A n \in DOMAIN Project[p] :
              LET d == Project[p][n] IN
              faults = 0 \/ (force[p] /\ ~Shared(p, d)) =>
                store[storeDir(d)] = Content(d) \/ InHand(p, d)
<1> USE DEF IInv, TypeInv, Hands
<1>1. pc[p] = "entries" /\ pc'[p] = "idle" /\ faults' = faults BY DEF Finishes
<1>2. WriteEntry(p)
  <2>1. pc' # pc BY <1>1
  <2>2. PICK q \in Process :
          \/ \E f \in BOOLEAN : Start(q, f)
          \/ UpdateCache(q) \/ CloneCache(q) \/ GitFails(q)
          \/ FetchManifest(q) \/ FetchPackage(q) \/ WriteLock(q) \/ Crash(q)
    BY <2>1 DEF Next, vars
  <2>3. q = p
    <3>1. \E to : pc' = [pc EXCEPT ![q] = to]
      BY <2>2 DEF Start, UpdateCache, CloneCache, GitFails, Fail, FetchManifest, FetchPackage,
         WriteLock, Crash, Goto, Show, WriteTmp, Parse, ParseFails, RemoveTmp, Wipe, Reuse,
         CreateDir, Checkout, NextPackage, Truncate, WriteEntry
    <3> QED BY <1>1, <3>1 DEF TypeOK
  <2>4. ~Crash(p) BY <1>1, StoreAssumption DEF Crash, TypeOK
  <2> QED
    BY <1>1, <2>2, <2>3, <2>4 DEF Start, UpdateCache, CloneCache, GitFails, FetchManifest,
       FetchPackage, WriteLock, Goto, AtCache, Show, WriteTmp, Parse, ParseFails, RemoveTmp,
       Wipe, Reuse, CreateDir, Checkout, Truncate
<1>3. lock'[p] = Project[p]
  <2> DEFINE m == Len(lock[p])
             e == Project[p][m + 1]
  <2>1. /\ lock[p] \in Seq(Deps) /\ m \in Nat /\ m < Len(Project[p])
        /\ \A n \in 1 .. m : lock[p][n] = Project[p][n]
    BY <1>1 DEF LockPrefix
  <2>2. lock'[p] = Append(lock[p], e) /\ m + 1 = Len(Project[p])
    BY <1>1, <1>2 DEF WriteEntry, TypeOK
  <2>3. /\ Project[p] \in Seq(Deps) /\ DOMAIN Project[p] = 1 .. Len(Project[p]) /\ e \in Deps
    BY <2>1, <2>2, Entries
  <2>4. /\ lock'[p] \in Seq(Deps) /\ Len(lock'[p]) = Len(Project[p])
        /\ \A n \in 1 .. Len(Project[p]) : lock'[p][n] = Project[p][n]
    BY <2>1, <2>2, <2>3
  <2> QED BY <2>3, <2>4
<1>4. ASSUME NEW n \in DOMAIN Project[p], faults = 0 \/ (force[p] /\ ~Shared(p, Project[p][n]))
      PROVE  Stored(Project[p][n]) \/ InHand(p, Project[p][n])
  <2>1. Done(p, n) /\ ~Works(p, Project[p][n]) BY <1>1 DEF Done, Works, Working
  <2>2. CASE faults = 0
    <3>1. Stored(Project[p][n]) \/ \E q \in Process : Works(q, Project[p][n])
      BY <2>1, <2>2 DEF Kept
    <3> QED BY <2>1, <3>1 DEF InHand, Works, Working
  <2>3. CASE force[p] /\ ~Shared(p, Project[p][n]) BY <2>1, <2>3 DEF Forced
  <2> QED BY <1>4, <2>2, <2>3
<1> QED BY <1>3, <1>4 DEF Stored

(***************************************************************************)
(* Every install that ends is complete, if no two packages of the projects *)
(* share a directory without being the same package.                       *)
(***************************************************************************)
THEOREM InstallsAreComplete == NoCollision => (Spec => InstallIsComplete)
<1> SUFFICES ASSUME NoCollision PROVE Spec => InstallIsComplete OBVIOUS
<1>1. Init => IInv BY InitType, InitHands DEF IInv
<1>2. IInv /\ [Next]_vars => IInv' BY StepType, StepHands DEF IInv
<1>3. IInv /\ [Next]_vars =>
        [\A p \in Process :
           Finishes(p) =>
             /\ lock'[p] = Project[p]
             /\ \A n \in DOMAIN Project[p] :
                  LET d == Project[p][n] IN
                  faults = 0 \/ (force[p] /\ ~Shared(p, d)) =>
                    store[storeDir(d)] = Content(d) \/ InHand(p, d)]_vars
  BY StepComplete
<1> QED BY <1>1, <1>2, <1>3, PTL DEF Spec, InstallIsComplete

(***************************************************************************)
(* The resolver.                                                           *)
(***************************************************************************)

(***************************************************************************)
(* The reference: Required is the least set of requirements that holds     *)
(* those of the root and of every package in it.                           *)
(***************************************************************************)
Rounds == Cardinality(DOMAIN world.pkg) + 1

IsRounds(F, m) ==
  F = [n \in 0 .. m |-> IF n = 0 THEN Direct(world.root) ELSE F[n - 1] \cup DepsOf(F[n - 1])]

LEMMA RequiredIsLastRound == Required = (CHOOSE F : IsRounds(F, Rounds))[Rounds]
BY DEF Required, IsRounds, Rounds

LEMMA RoundsExist ==
  ASSUME NEW m \in Nat
  PROVE  \E F : IsRounds(F, m)
<1> DEFINE N == {n \in Nat : ~ \E F : IsRounds(F, n)}
<1>1. SUFFICES ASSUME N # {} PROVE FALSE
  OBVIOUS
<1>2. PICK n \in N : \A k \in N : n <= k
  BY <1>1, LeastElement
<1>3. CASE n = 0
  <2>1. IsRounds([k \in 0 .. 0 |-> Direct(world.root)], 0)
    BY DEF IsRounds
  <2> QED
    BY <1>3, <2>1
<1>4. CASE n # 0
  <2>1. n - 1 \in Nat /\ n - 1 \notin N
    BY <1>2, <1>4
  <2>2. PICK F : IsRounds(F, n - 1)
    BY <2>1
  <2> DEFINE G == [k \in 0 .. n |-> IF k = n THEN F[n - 1] \cup DepsOf(F[n - 1]) ELSE F[k]]
  <2>3. \A k \in 0 .. n - 1 :
          F[k] = IF k = 0 THEN Direct(world.root) ELSE F[k - 1] \cup DepsOf(F[k - 1])
    BY <2>2 DEF IsRounds
  <2>4. \A k \in 0 .. n :
          G[k] = IF k = 0 THEN Direct(world.root) ELSE G[k - 1] \cup DepsOf(G[k - 1])
    <3> TAKE k \in 0 .. n
    <3>1. CASE k = n
      <4>1. G[k] = F[n - 1] \cup DepsOf(F[n - 1]) /\ G[k - 1] = F[n - 1]
        BY <1>4, <2>1, <3>1
      <4> QED
        BY <1>4, <3>1, <4>1
    <3>2. CASE k # n
      <4>1. k \in 0 .. n - 1 /\ G[k] = F[k] /\ (k # 0 => G[k - 1] = F[k - 1])
        BY <2>1, <3>2
      <4> QED
        BY <2>3, <4>1
    <3> QED
      BY <3>1, <3>2
  <2>5. IsRounds(G, n)
    <3>1. G = [k \in 0 .. n |-> G[k]]
      OBVIOUS
    <3> HIDE DEF G
    <3> QED
      BY <2>4, <3>1 DEF IsRounds
  <2> QED
    BY <2>5
<1> QED
  BY <1>3, <1>4

Holds(S) == Direct(world.root) \subseteq S /\ DepsOf(S) \subseteq S

LEMMA RequiredIsLeast ==
  ASSUME world \in Universes
  PROVE  Holds(Required) /\ \A S : Holds(S) => Required \subseteq S
<1> DEFINE P == DOMAIN world.pkg  M == Rounds
<1>1. IsFiniteSet(P) /\ Cardinality(P) \in Nat /\ M = Cardinality(P) + 1 /\ M \in Nat
  BY FS_CardinalityType, ResolverAssumption DEF Rounds
<1>2. PICK F : IsRounds(F, M) /\ Required = F[M]
  BY <1>1, RoundsExist, RequiredIsLastRound
<1>3. /\ F[0] = Direct(world.root)
      /\ \A n \in 1 .. M : F[n] = F[n - 1] \cup DepsOf(F[n - 1])
  <2> HIDE DEF M
  <2>1. \A n \in 0 .. M :
          F[n] = IF n = 0 THEN Direct(world.root) ELSE F[n - 1] \cup DepsOf(F[n - 1])
    BY <1>2 DEF IsRounds
  <2>2. 0 \in 0 .. M /\ \A n \in 1 .. M : n \in 0 .. M /\ n # 0
    BY <1>1
  <2> QED
    BY <2>1, <2>2
<1>4. \A S, T : S \cap P = T \cap P => DepsOf(S) = DepsOf(T)
  BY DEF DepsOf
<1> HIDE DEF P, M
<1>5. ASSUME NEW S, Holds(S) PROVE \A n \in 0 .. M : F[n] \subseteq S
  <2> DEFINE N == {n \in 0 .. M : ~ (F[n] \subseteq S)}
  <2>1. SUFFICES ASSUME N # {} PROVE FALSE
    OBVIOUS
  <2>2. PICK n \in N : \A k \in N : n <= k
    <3>1. N \subseteq Nat
      OBVIOUS
    <3> HIDE DEF N
    <3> QED
      BY <2>1, <3>1, LeastElement
  <2>3. n # 0
    BY <1>3, <1>5 DEF Holds
  <2>4. n - 1 \in 0 .. M /\ n - 1 \notin N /\ n \in 1 .. M
    BY <1>1, <2>2, <2>3
  <2>5. F[n - 1] \subseteq S /\ F[n] = F[n - 1] \cup DepsOf(F[n - 1])
    BY <1>3, <2>4
  <2>6. DepsOf(F[n - 1]) \subseteq DepsOf(S)
    BY <2>5 DEF DepsOf
  <2> QED
    BY <1>5, <2>5, <2>6 DEF Holds
<1>6. \A n \in 0 .. M : Direct(world.root) \subseteq F[n]
  <2> DEFINE N == {n \in 0 .. M : ~ (Direct(world.root) \subseteq F[n])}
  <2>1. SUFFICES ASSUME N # {} PROVE FALSE
    OBVIOUS
  <2>2. PICK n \in N : \A k \in N : n <= k
    <3>1. N \subseteq Nat
      OBVIOUS
    <3> HIDE DEF N
    <3> QED
      BY <2>1, <3>1, LeastElement
  <2>3. n # 0
    BY <1>3
  <2>4. n - 1 \in 0 .. M /\ n - 1 \notin N /\ n \in 1 .. M
    BY <1>1, <2>2, <2>3
  <2> QED
    BY <1>3, <2>4
<1>7. \A n \in 0 .. M : DepsOf(F[n]) \subseteq F[n] \/ n <= Cardinality(F[n] \cap P)
  <2> DEFINE Good(n) == DepsOf(F[n]) \subseteq F[n] \/ n <= Cardinality(F[n] \cap P)
             N == {n \in 0 .. M : ~ Good(n)}
  <2>1. SUFFICES ASSUME N # {} PROVE FALSE
    OBVIOUS
  <2>2. PICK n \in N : \A k \in N : n <= k
    <3>1. N \subseteq Nat
      OBVIOUS
    <3> HIDE DEF N
    <3> QED
      BY <2>1, <3>1, LeastElement
  <2>3. \A k : IsFiniteSet(F[k] \cap P) /\ Cardinality(F[k] \cap P) \in Nat
    BY <1>1, FS_Subset, FS_CardinalityType
  <2>4. n # 0
    <3>1. 0 <= Cardinality(F[0] \cap P)
      <4>1. Cardinality(F[0] \cap P) \in Nat
        BY <2>3
      <4>2. \A c \in Nat : 0 <= c
        OBVIOUS
      <4> QED
        BY <4>1, <4>2
    <3> QED
      BY <3>1
  <2>5. n - 1 \in 0 .. M /\ n - 1 \notin N /\ n \in 1 .. M
    BY <1>1, <2>2, <2>4
  <2>6. F[n] = F[n - 1] \cup DepsOf(F[n - 1])
    BY <1>3, <2>5
  <2>7. CASE F[n] \cap P = F[n - 1] \cap P
    <3>1. DepsOf(F[n]) = DepsOf(F[n - 1])
      BY <1>4, <2>7
    <3> QED
      BY <2>6, <3>1
  <2>8. CASE F[n] \cap P # F[n - 1] \cap P
    <3>1. n - 1 <= Cardinality(F[n - 1] \cap P)
      BY <2>5, <2>6, <2>8
    <3>2. F[n - 1] \cap P \subseteq F[n] \cap P
      BY <2>6
    <3>3. Cardinality(F[n - 1] \cap P) < Cardinality(F[n] \cap P)
      <4> DEFINE S == F[n - 1] \cap P  T == F[n] \cap P
      <4>1. /\ IsFiniteSet(T) /\ S \in SUBSET T /\ S # T
            /\ Cardinality(S) \in Nat /\ Cardinality(T) \in Nat
        BY <2>3, <2>8, <3>2
      <4> HIDE DEF S, T
      <4>2. Cardinality(S) <= Cardinality(T) /\ (Cardinality(S) = Cardinality(T) => S = T)
        BY <4>1, FS_Subset
      <4>3. Cardinality(S) < Cardinality(T)
        BY <4>1, <4>2
      <4> QED
        BY <4>3 DEF S, T
    <3>4. n <= Cardinality(F[n] \cap P)
      <4>1. \A a, b \in Nat : n - 1 <= a /\ a < b => n <= b
        BY <2>5
      <4> QED
        BY <2>3, <3>1, <3>3, <4>1
    <3> QED
      BY <3>4
  <2> QED
    BY <2>7, <2>8
<1>8. DepsOf(F[M]) \subseteq F[M]
  <2>1. Cardinality(F[M] \cap P) <= Cardinality(P)
    BY <1>1, FS_Subset
  <2>2. Cardinality(F[M] \cap P) \in Nat
    BY <1>1, FS_Subset, FS_CardinalityType
  <2>3. M \in 0 .. M
    BY <1>1
  <2> QED
    BY <1>1, <1>7, <2>1, <2>2, <2>3
<1>9. M \in 0 .. M
  BY <1>1
<1> QED
  BY <1>2, <1>5, <1>6, <1>8, <1>9 DEF Holds

(***************************************************************************)
(* The invariant.  A requirement is met when its version has been merged;  *)
(* the ones of every requirement met are met or wait in the queue.         *)
(***************************************************************************)
AllDeps == world.root \cup UNION {world.pkg[x].deps : x \in DOMAIN world.pkg}
WorkItem == {Item(d) : d \in AllDeps}
Pair(x) == <<x.url, x.version>>
Waiting(q) == {Pair(q[h]) : h \in 1 .. Len(q)}
Met == {Pair(x) : x \in seen}
Known == Met \cup Waiting(queue)

(* resolved is the highest of the versions met, and all have its major.    *)
UpTo(v, w) ==
  v = w \/ (v \in Nat \X Nat /\ w \in Nat \X Nat /\ v[1] = w[1] /\ Greater(w, v))
Highest(M, f) ==
  /\ f = [u \in DOMAIN f |-> f[u]]
  /\ DOMAIN f = {r[1] : r \in M}
  /\ \A r \in M : UpTo(r[2], f[r[1]])
  /\ \A u \in DOMAIN f : <<u, f[u]>> \in M

Clash ==
  \E r, s \in Required :
    r[1] = s[1] /\ BadVersion \notin {r[2], s[2]} /\ r[2][1] # s[2][1]

Types ==
  /\ world \in Universes
  /\ queue \in Seq(WorkItem) /\ seen \subseteq WorkItem
  /\ outcome \in Outcomes \cup {Pending}
Explored ==
  /\ Direct(world.root) \subseteq Known /\ DepsOf(Met) \subseteq Known
  /\ Known \subseteq Required
Outcome ==
  /\ outcome = "lock" => queue = << >>
  /\ outcome = "major" => Clash
ResolverInv ==
  /\ Types /\ Explored /\ Highest(Met, resolved) /\ Outcome
  /\ {r[1] : r \in Known} \subseteq DOMAIN alias

LEMMA WorkItems ==
  ASSUME Types
  PROVE  /\ \A x \in WorkItem : x.version \in Versions
         /\ \A x, y \in WorkItem : Pair(x) = Pair(y) => x = y
<1>1. \A d \in AllDeps : d.version \in Versions
  BY ResolverAssumption DEF AllDeps, Types, Manifest
<1> QED
  BY <1>1 DEF WorkItem, Item, Pair

(* The dependencies of a manifest in some order.                           *)
LEMMA OrderedItems ==
  ASSUME NEW D, IsFiniteSet(D), D \subseteq AllDeps, NEW s \in Orders(D)
  PROVE  /\ Items(s) \in Seq(WorkItem) /\ Waiting(Items(s)) = Direct(D)
         /\ ToSet(s) = D /\ s \in Seq(D)
<1>1. Cardinality(D) \in Nat
  BY FS_CardinalityType
<1>2. s \in [1 .. Cardinality(D) -> D] /\ ToSet(s) = D
  BY DEF Orders
<1>3. s \in Seq(D) /\ Len(s) = Cardinality(D) /\ DOMAIN s = 1 .. Len(s)
  BY <1>1, <1>2
<1>4. /\ Items(s) \in Seq(WorkItem) /\ Len(Items(s)) = Len(s)
      /\ \A h \in 1 .. Len(s) : Items(s)[h] = Item(s[h])
  <2>1. \A h \in 1 .. Len(s) : Item(s[h]) \in WorkItem
    BY <1>3 DEF WorkItem
  <2> DEFINE e(h) == Item(s[h])
  <2>2. Items(s) = [h \in 1 .. Len(s) |-> e(h)] /\ Len(s) \in Nat
    BY <1>1, <1>3 DEF Items
  <2>3. \A h \in 1 .. Len(s) : e(h) \in WorkItem
    BY <2>1
  <2>4. \A h \in 1 .. Len(s) : e(h) = Item(s[h])
    OBVIOUS
  <2> HIDE DEF e
  <2> QED
    BY <2>2, <2>3, <2>4
<1>5. \A h \in 1 .. Len(s) : Pair(Items(s)[h]) = <<s[h].url, s[h].version>>
  <2>1. \A d : Pair(Item(d)) = <<d.url, d.version>>
    BY DEF Item, Pair
  <2> QED
    BY <1>4, <2>1
<1>6. D = {s[h] : h \in 1 .. Len(s)}
  BY <1>2, <1>3 DEF ToSet
<1>7. Waiting(Items(s)) = {<<s[h].url, s[h].version>> : h \in 1 .. Len(s)}
  BY <1>4, <1>5 DEF Waiting
<1> QED
  BY <1>2, <1>3, <1>4, <1>6, <1>7 DEF Direct

LEMMA WaitingPopped ==
  ASSUME NEW S, NEW q \in Seq(S), q # << >>, NEW t \in Seq(S)
  PROVE  /\ Waiting(Tail(q) \o t) = Waiting(Tail(q)) \cup Waiting(t)
         /\ Waiting(q) = {Pair(Head(q))} \cup Waiting(Tail(q))
         /\ Head(q) \in S /\ Tail(q) \in Seq(S)
<1> DEFINE r == Tail(q)
<1>1. /\ r \in Seq(S) /\ Head(q) \in S /\ Head(q) = q[1] /\ Len(q) \in Nat \ {0}
      /\ Len(r) = Len(q) - 1
  OBVIOUS
<1>2. \A h \in 1 .. Len(q) - 1 : r[h] = q[h + 1]
  OBVIOUS
<1> HIDE DEF r
<1>3. Waiting(q) = {Pair(Head(q))} \cup Waiting(r)
  <2>1. ASSUME NEW p \in Waiting(q) PROVE p \in {Pair(Head(q))} \cup Waiting(r)
    <3>1. PICK h \in 1 .. Len(q) : p = Pair(q[h])
      BY DEF Waiting
    <3>2. CASE h = 1
      BY <1>1, <3>1, <3>2
    <3>3. CASE h # 1
      <4>1. h - 1 \in 1 .. Len(r) /\ r[h - 1] = q[h]
        BY <1>1, <1>2, <3>3
      <4> QED
        BY <3>1, <4>1 DEF Waiting
    <3> QED
      BY <3>2, <3>3
  <2>2. Pair(Head(q)) \in Waiting(q)
    BY <1>1 DEF Waiting
  <2>3. Waiting(r) \subseteq Waiting(q)
    <3> SUFFICES ASSUME NEW h \in 1 .. Len(r) PROVE Pair(r[h]) \in Waiting(q)
      BY DEF Waiting
    <3>1. h + 1 \in 1 .. Len(q) /\ r[h] = q[h + 1]
      BY <1>1, <1>2
    <3> QED
      BY <3>1 DEF Waiting
  <2> QED
    BY <2>1, <2>2, <2>3
<1>4. Waiting(r \o t) = Waiting(r) \cup Waiting(t)
  <2>1. Len(r) \in Nat /\ Len(t) \in Nat /\ Len(r \o t) = Len(r) + Len(t)
    BY <1>1
  <2>2. /\ \A h \in 1 .. Len(r) : (r \o t)[h] = r[h]
        /\ \A h \in 1 .. Len(t) : (r \o t)[Len(r) + h] = t[h]
    BY <1>1
  <2>3. ASSUME NEW h \in 1 .. Len(r) + Len(t)
        PROVE  h \in 1 .. Len(r) \/ \E j \in 1 .. Len(t) : h = Len(r) + j
    <3>1. h \in 1 .. Len(r) \/ (h - Len(r) \in 1 .. Len(t) /\ h = Len(r) + (h - Len(r)))
      BY <2>1
    <3> QED
      BY <3>1
  <2>4. Waiting(r \o t) \subseteq Waiting(r) \cup Waiting(t)
    <3> SUFFICES ASSUME NEW h \in 1 .. Len(r) + Len(t)
                 PROVE  Pair((r \o t)[h]) \in Waiting(r) \cup Waiting(t)
      BY <2>1 DEF Waiting
    <3> QED
      BY <2>2, <2>3 DEF Waiting
  <2>5. \A h \in 1 .. Len(r) : h \in 1 .. Len(r \o t)
    BY <2>1
  <2>6. \A h \in 1 .. Len(t) : Len(r) + h \in 1 .. Len(r \o t)
    BY <2>1
  <2> QED
    BY <2>2, <2>4, <2>5, <2>6 DEF Waiting
<1> QED
  BY <1>1, <1>3, <1>4 DEF r

(* Merging one more requirement.                                           *)
LEMMA MergedHighest ==
  ASSUME NEW M, Highest(M, resolved), \A r \in M : r[2] \in Versions,
         NEW u, NEW v \in Versions, ~ BadMerge(u, v), ~ MajorConflict(u, v)
  PROVE  Highest(M \cup {<<u, v>>}, Merged(u, v))
<1> DEFINE f == Merged(u, v)
<1>1. \A r \in M : r[1] \in DOMAIN resolved
  BY DEF Highest
<1>2. CASE u \notin DOMAIN resolved
  <2>1. f = [x \in DOMAIN resolved \cup {u} |-> IF x = u THEN v ELSE resolved[x]]
    BY <1>2 DEF Merged
  <2>2. /\ DOMAIN f = DOMAIN resolved \cup {u} /\ f = [x \in DOMAIN f |-> f[x]] /\ f[u] = v
        /\ \A x \in DOMAIN resolved : f[x] = resolved[x]
    BY <1>2, <2>1
  <2> HIDE DEF f
  <2>3. DOMAIN f = {r[1] : r \in M \cup {<<u, v>>}}
    <3> DEFINE p == <<u, v>>
    <3>0. p[1] = u
      OBVIOUS
    <3> HIDE DEF p
    <3>1. {r[1] : r \in M \cup {p}} = {r[1] : r \in M} \cup {u}
      BY <3>0
    <3> USE DEF p
    <3> QED
      BY <2>2, <3>1 DEF Highest
  <2>4. \A r \in M \cup {<<u, v>>} : UpTo(r[2], f[r[1]])
    BY <1>1, <1>2, <2>2 DEF Highest, UpTo
  <2>5. \A x \in DOMAIN f : <<x, f[x]>> \in M \cup {<<u, v>>}
    BY <1>2, <2>2 DEF Highest
  <2> QED
    BY <2>2, <2>3, <2>4, <2>5 DEF Highest, f
<1>3. CASE u \in DOMAIN resolved
  <2>1. <<u, resolved[u]>> \in M
    BY <1>3 DEF Highest
  <2>2. resolved[u] \in Nat \X Nat /\ v \in Nat \X Nat /\ resolved[u][1] = v[1]
    BY <1>3, <2>1 DEF BadMerge, MajorConflict, Versions
  <2>3. f = IF Greater(v, resolved[u])
            THEN [x \in DOMAIN resolved \cup {u} |-> IF x = u THEN v ELSE resolved[x]]
            ELSE resolved
    BY <1>3 DEF Merged
  <2>4. CASE Greater(v, resolved[u])
    <3>1. /\ DOMAIN f = DOMAIN resolved /\ f = [x \in DOMAIN f |-> f[x]] /\ f[u] = v
          /\ \A x \in DOMAIN resolved : x # u => f[x] = resolved[x]
      BY <1>3, <2>3, <2>4 DEF Highest
    <3>2. \A r \in M : r[1] = u => UpTo(r[2], v)
      <4> TAKE r \in M
      <4> SUFFICES ASSUME r[1] = u PROVE UpTo(r[2], v)
        OBVIOUS
      <4>1. UpTo(r[2], resolved[u])
        BY DEF Highest
      <4> QED
        BY <2>2, <2>4, <4>1 DEF UpTo, Greater
    <3> HIDE DEF f
    <3> QED
      BY <1>1, <1>3, <3>1, <3>2 DEF Highest, UpTo, f
  <2>5. CASE ~ Greater(v, resolved[u])
    <3>1. f = resolved
      BY <2>3, <2>5
    <3>2. UpTo(v, resolved[u])
      BY <2>2, <2>5 DEF UpTo, Greater
    <3> QED
      BY <1>3, <3>1, <3>2 DEF Highest
  <2> QED
    BY <2>4, <2>5
<1> QED
  BY <1>2, <1>3

LEMMA MetVersions ==
  ASSUME Types
  PROVE  \A r \in Met : r[2] \in Versions
<1>1. \A x \in seen : Pair(x)[2] = x.version /\ x.version \in Versions
  BY WorkItems DEF Types, Pair
<1> QED
  BY <1>1 DEF Met

LEMMA InitResolverInv ==
  ASSUME ResolverInit
  PROVE  ResolverInv
<1>1. world \in Universes /\ IsFiniteSet(world.root) /\ world.root \subseteq AllDeps
  BY ResolverAssumption DEF ResolverInit, Manifest, AllDeps
<1>2. PICK s \in Orders(world.root) : queue = Items(s) /\ alias = AliasRoot(s)
  BY DEF ResolverInit
<1>3. /\ queue \in Seq(WorkItem) /\ Waiting(queue) = Direct(world.root)
      /\ ToSet(s) = world.root
  BY <1>1, <1>2, OrderedItems
<1>4. seen = {} /\ Met = {} /\ resolved = << >> /\ outcome = Pending
  BY DEF ResolverInit, Met
<1>5. Types
  BY <1>1, <1>3, <1>4 DEF Types
<1>6. Explored
  <2>1. Known = Direct(world.root) /\ DepsOf(Met) = {}
    BY <1>3, <1>4 DEF Known, DepsOf
  <2> QED
    BY <1>1, <2>1, RequiredIsLeast DEF Explored, Holds
<1>7. Highest(Met, resolved)
  BY <1>4 DEF Highest
<1>8. Outcome
  BY <1>4, ResolverAssumption DEF Outcome, Outcomes
<1>9. {r[1] : r \in Known} \subseteq DOMAIN alias
  <2>1. DOMAIN alias = {d.url : d \in world.root}
    BY <1>2, <1>3 DEF AliasRoot
  <2>2. Known = {<<d.url, d.version>> : d \in world.root}
    BY <1>3, <1>4 DEF Known, Direct
  <2> QED
    BY <2>1, <2>2
<1> QED
  BY <1>5, <1>6, <1>7, <1>8, <1>9 DEF ResolverInv

(* The reference does not change: no step touches the world.               *)
LEMMA SameWorld ==
  ASSUME world' = world
  PROVE  /\ Required' = Required /\ WorkItem' = WorkItem /\ Clash' = Clash
         /\ \A S : DepsOf(S)' = DepsOf(S)
<1>1. Required' = Required
  BY DEF Required, Direct, DepsOf
<1>2. WorkItem' = WorkItem
  BY DEF WorkItem, AllDeps, Item
<1>3. Clash' = Clash
  BY <1>1 DEF Clash
<1>4. \A S : DepsOf(S)' = DepsOf(S)
  BY DEF DepsOf, Direct
<1> QED
  BY <1>1, <1>2, <1>3, <1>4

(* The item at the front of the queue.                                     *)
LEMMA TopKnown ==
  ASSUME ResolverInv, Popped
  PROVE  /\ Top \in WorkItem /\ Top.version \in Versions
         /\ Pair(Top) = <<Top.url, Top.version>> /\ Pair(Top) \in Known
         /\ Tail(queue) \in Seq(WorkItem)
         /\ Known = Met \cup {Pair(Top)} \cup Waiting(Tail(queue))
<1>1. queue \in Seq(WorkItem) /\ queue # << >> /\ << >> \in Seq(WorkItem)
  BY DEF Popped, ResolverInv, Types
<1>2. /\ Waiting(queue) = {Pair(Top)} \cup Waiting(Tail(queue))
      /\ Top \in WorkItem /\ Tail(queue) \in Seq(WorkItem)
  BY <1>1, WaitingPopped DEF Top
<1>3. Top.version \in Versions
  BY <1>2, WorkItems DEF ResolverInv
<1> QED
  BY <1>2, <1>3 DEF Known, Pair

LEMMA ThrowPreserves ==
  ASSUME ResolverInv, NEW k \in Outcomes, Throw(k),
         k = "lock" => queue = << >>, k = "major" => Clash
  PROVE  ResolverInv'
<1>1. /\ world' = world /\ queue' = queue /\ seen' = seen /\ resolved' = resolved
      /\ alias' = alias /\ outcome' = k
  BY DEF Throw
<1>2. /\ Required' = Required /\ WorkItem' = WorkItem /\ Clash' = Clash
      /\ DepsOf(Met)' = DepsOf(Met)
  BY <1>1, SameWorld DEF Met, DepsOf, Direct
<1>3. Known' = Known /\ Met' = Met
  BY <1>1 DEF Known, Met, Waiting
<1>4. Types'
  BY <1>1, <1>2 DEF ResolverInv, Types
<1>5. Explored'
  BY <1>1, <1>2, <1>3 DEF ResolverInv, Explored, Direct
<1>6. Highest(Met, resolved)'
  BY <1>1, <1>3 DEF ResolverInv, Highest
<1>7. Outcome'
  BY <1>1, <1>2 DEF Outcome
<1> QED
  BY <1>1, <1>3, <1>4, <1>5, <1>6, <1>7 DEF ResolverInv

LEMMA ConflictClashes ==
  ASSUME ResolverInv, IncompatibleMajor
  PROVE  Clash
<1> DEFINE u == Top.url  v == Top.version
<1>1. Popped /\ MajorConflict(u, v)
  BY DEF IncompatibleMajor
<1>2. <<u, v>> \in Required
  BY <1>1, TopKnown DEF ResolverInv, Explored
<1>3. u \in DOMAIN resolved /\ BadVersion \notin {resolved[u], v} /\ resolved[u][1] # v[1]
  BY <1>1 DEF MajorConflict, BadMerge
<1>4. <<u, resolved[u]>> \in Required
  BY <1>3 DEF ResolverInv, Highest, Known, Explored
<1> HIDE DEF u, v
<1> DEFINE r == <<u, resolved[u]>>  s == <<u, v>>
<1>5. r[1] = u /\ s[1] = u /\ r[2] = resolved[u] /\ s[2] = v
  OBVIOUS
<1> HIDE DEF r, s
<1> QED
  BY <1>2, <1>3, <1>4, <1>5 DEF Clash, r, s

(* The requirement of the front item is met.                               *)
LEMMA TopMerged ==
  ASSUME ResolverInv, Mergeable
  PROVE  Highest(Met \cup {Pair(Top)}, Merged(Top.url, Top.version))
<1>1. /\ Top.version \in Versions /\ Pair(Top) = <<Top.url, Top.version>>
      /\ ~ BadMerge(Top.url, Top.version) /\ ~ MajorConflict(Top.url, Top.version)
  BY TopKnown DEF Mergeable
<1>2. Highest(Met, resolved) /\ \A r \in Met : r[2] \in Versions
  BY MetVersions DEF ResolverInv
<1> QED
  BY <1>1, <1>2, MergedHighest

LEMMA SkipSeenPreserves ==
  ASSUME ResolverInv, SkipSeen
  PROVE  ResolverInv'
<1>1. /\ world' = world /\ queue' = Tail(queue) /\ seen' = seen /\ alias' = alias
      /\ outcome' = outcome /\ outcome = Pending /\ Top \in seen
      /\ resolved' = Merged(Top.url, Top.version) /\ Mergeable /\ Popped
  BY DEF SkipSeen, Mergeable, Popped
<1>2. /\ Required' = Required /\ WorkItem' = WorkItem
      /\ DepsOf(Met)' = DepsOf(Met)
  BY <1>1, SameWorld DEF Met, DepsOf, Direct
<1>3. Pair(Top) \in Met
  BY <1>1 DEF Met
<1>4. Known' = Known /\ Met' = Met
  <2>1. Met' = Met
    BY <1>1 DEF Met
  <2>2. Waiting(queue)' = Waiting(Tail(queue))
    BY <1>1 DEF Waiting
  <2> QED
    BY <1>1, <1>3, <2>1, <2>2, TopKnown DEF Known
<1>5. Types'
  BY <1>1, <1>2, TopKnown DEF ResolverInv, Types
<1>6. Explored'
  BY <1>1, <1>2, <1>4 DEF ResolverInv, Explored, Direct
<1>7. Highest(Met, resolved)'
  <2>1. Met \cup {Pair(Top)} = Met
    BY <1>3
  <2>2. Highest(Met, resolved')
    BY <1>1, <2>1, TopMerged
  <2> QED
    BY <1>4, <2>2 DEF Highest
<1>8. Outcome'
  BY <1>1, ResolverAssumption DEF Outcome, Outcomes
<1> QED
  BY <1>1, <1>4, <1>5, <1>6, <1>7, <1>8 DEF ResolverInv

LEMMA FetchPreserves ==
  ASSUME ResolverInv, Fetch
  PROVE  ResolverInv'
<1> DEFINE p == Pair(Top)  D == TopManifest.deps
<1>1. /\ world' = world /\ seen' = seen \cup {Top} /\ outcome' = outcome /\ outcome = Pending
      /\ resolved' = Merged(Top.url, Top.version) /\ Mergeable /\ Popped
      /\ <<Top.url, Top.version>> \in DOMAIN world.pkg
  BY DEF Fetch, Fetched, Mergeable, Popped
<1>2. PICK s \in Orders(D) : queue' = Tail(queue) \o Items(s) /\ alias' = AliasTrans(s)
  BY DEF Fetch
<1>3. /\ p \in DOMAIN world.pkg /\ D = world.pkg[p].deps /\ p \in Known
      /\ Top \in WorkItem /\ Known = Met \cup {p} \cup Waiting(Tail(queue))
      /\ queue \in Seq(WorkItem) /\ queue # << >>
  BY <1>1, TopKnown DEF TopManifest, ResolverInv, Types, Popped
<1>4. IsFiniteSet(D) /\ D \subseteq AllDeps
  BY <1>3, ResolverAssumption DEF ResolverInv, Types, Manifest, AllDeps
<1> HIDE DEF p, D
<1>5. Items(s) \in Seq(WorkItem) /\ Waiting(Items(s)) = Direct(D) /\ ToSet(s) = D
  BY <1>4, OrderedItems
<1>6. /\ Required' = Required /\ WorkItem' = WorkItem
      /\ \A S : DepsOf(S)' = DepsOf(S)
  BY <1>1, SameWorld
<1>7. Met' = Met \cup {p}
  BY <1>1 DEF Met, p
<1>8. Known' = Known \cup Direct(D)
  <2>1. Waiting(queue)' = Waiting(Tail(queue) \o Items(s))
    BY <1>2 DEF Waiting
  <2>2. Waiting(queue)' = Waiting(Tail(queue)) \cup Direct(D)
    BY <1>3, <1>5, <2>1, WaitingPopped
  <2> QED
    BY <1>3, <1>7, <2>2 DEF Known
<1>9. DepsOf(Met') = DepsOf(Met) \cup Direct(D)
  <2>1. DepsOf(Met \cup {p}) = DepsOf(Met) \cup Direct(world.pkg[p].deps)
    BY <1>3 DEF DepsOf
  <2> QED
    BY <1>3, <1>7, <2>1
<1>10. Types'
  <2>1. Tail(queue) \in Seq(WorkItem) /\ queue' \in Seq(WorkItem)
    BY <1>1, <1>2, <1>5, TopKnown
  <2> QED
    BY <1>1, <1>3, <1>6, <2>1 DEF ResolverInv, Types
<1>11. Explored'
  <2>1. Direct(D) \subseteq Required
    <3>1. p \in Required
      BY <1>3 DEF ResolverInv, Explored
    <3>2. Direct(D) \subseteq DepsOf(Required)
      BY <1>3, <3>1 DEF DepsOf
    <3> QED
      BY <3>2, RequiredIsLeast DEF ResolverInv, Types, Holds
  <2>2. DepsOf(Met)' = DepsOf(Met')
    BY <1>1 DEF DepsOf, Direct
  <2>3. Direct(world.root)' = Direct(world.root)
    BY <1>1 DEF Direct
  <2> QED
    BY <1>6, <1>8, <1>9, <2>1, <2>2, <2>3 DEF ResolverInv, Explored
<1>12. Highest(Met, resolved)'
  <2>1. Highest(Met \cup {p}, resolved')
    BY <1>1, TopMerged DEF p
  <2> QED
    BY <1>7, <2>1 DEF Highest
<1>13. Outcome'
  BY <1>1, ResolverAssumption DEF Outcome, Outcomes
<1>14. {r[1] : r \in Known'} \subseteq DOMAIN alias'
  <2>1. DOMAIN alias' = DOMAIN alias \cup {d.url : d \in D}
    BY <1>2, <1>5 DEF AliasTrans
  <2>2. \A r \in Direct(D) : r[1] \in {d.url : d \in D}
    BY DEF Direct
  <2>3. \A r \in Known : r[1] \in DOMAIN alias
    BY DEF ResolverInv
  <2> QED
    BY <1>8, <2>1, <2>2, <2>3
<1> QED
  BY <1>10, <1>11, <1>12, <1>13, <1>14 DEF ResolverInv

LEMMA NextPreserves ==
  ASSUME ResolverInv, [Step]_resolverVars
  PROVE  ResolverInv'
<1>1. \A k \in {"semver", "fetch", "alias"} : k \in Outcomes /\ k # "lock" /\ k # "major"
  BY DEF Outcomes
<1>2. CASE InvalidSemver
  BY <1>1, <1>2, ThrowPreserves DEF InvalidSemver
<1>3. CASE IncompatibleMajor
  <2>1. "major" \in Outcomes
    BY DEF Outcomes
  <2> QED
    BY <1>3, <2>1, ConflictClashes, ThrowPreserves DEF IncompatibleMajor
<1>4. CASE SkipSeen
  BY <1>4, SkipSeenPreserves
<1>5. CASE FetchFails
  BY <1>1, <1>5, ThrowPreserves DEF FetchFails
<1>6. CASE AliasConflict
  BY <1>1, <1>6, ThrowPreserves DEF AliasConflict
<1>7. CASE Fetch
  BY <1>7, FetchPreserves
<1>8. CASE BuildLock
  <2>1. "lock" \in Outcomes
    BY DEF Outcomes
  <2> QED
    BY <1>8, <2>1, ThrowPreserves DEF BuildLock
<1>9. CASE UNCHANGED resolverVars
  <2>1. /\ world' = world /\ queue' = queue /\ seen' = seen /\ resolved' = resolved
        /\ alias' = alias /\ outcome' = outcome
    BY <1>9 DEF resolverVars
  <2>2. CASE outcome = Pending
    <3>1. Required' = Required /\ WorkItem' = WorkItem
      BY <2>1, SameWorld
    <3>2. Known' = Known /\ Met' = Met /\ DepsOf(Met)' = DepsOf(Met)
      BY <2>1 DEF Known, Met, Waiting, DepsOf, Direct
    <3>3. Types' /\ Explored' /\ Highest(Met, resolved)'
      BY <2>1, <3>1, <3>2 DEF ResolverInv, Types, Explored, Direct, Highest
    <3>4. Outcome'
      BY <2>1, <2>2, ResolverAssumption DEF Outcome, Outcomes
    <3> QED
      BY <2>1, <3>2, <3>3, <3>4 DEF ResolverInv
  <2>3. CASE outcome # Pending
    <3>1. outcome \in Outcomes /\ Throw(outcome)
      BY <2>1, <2>3 DEF ResolverInv, Types, Throw
    <3> QED
      BY <3>1, ThrowPreserves DEF ResolverInv, Outcome
  <2> QED
    BY <2>2, <2>3
<1> QED
  BY <1>2, <1>3, <1>4, <1>5, <1>6, <1>7, <1>8, <1>9 DEF Step

(***************************************************************************)
(* What the invariant says of a lock that was built: with the queue empty, *)
(* the requirements met are closed, so they are all there are.             *)
(***************************************************************************)
LEMMA LockMeetsAll ==
  ASSUME ResolverInv, outcome = "lock"
  PROVE  Met = Required
<1>1. Waiting(queue) = {}
  BY DEF ResolverInv, Outcome, Waiting
<1>2. Holds(Met) /\ Met \subseteq Required
  BY <1>1 DEF ResolverInv, Explored, Known, Holds
<1> QED
  BY <1>2, RequiredIsLeast DEF ResolverInv, Types

LEMMA InvTypeOK ==
  ASSUME ResolverInv
  PROVE  ResolverTypeOK
<1>1. \A u \in DOMAIN resolved : resolved[u] \in Versions
  BY MetVersions DEF ResolverInv, Highest
<1>2. DOMAIN resolved \subseteq DOMAIN alias
  BY DEF ResolverInv, Highest, Known
<1> QED
  BY <1>1, <1>2 DEF ResolverTypeOK, ResolverInv, Types

LEMMA InvLock ==
  ASSUME ResolverInv
  PROVE  LockIsMaxOfMinimums
<1> SUFFICES ASSUME outcome = "lock"
             PROVE  /\ DOMAIN resolved = {r[1] : r \in Required}
                    /\ \A r \in Required : r[2] # resolved[r[1]] =>
                         Greater(resolved[r[1]], r[2])
                    /\ \A u \in DOMAIN resolved : <<u, resolved[u]>> \in Required
  BY InvTypeOK DEF LockIsMaxOfMinimums
<1>1. Highest(Required, resolved)
  BY LockMeetsAll DEF ResolverInv
<1> QED
  BY <1>1 DEF Highest, UpTo

LEMMA InvMajors ==
  ASSUME ResolverInv
  PROVE  MajorsAgree
<1>1. ASSUME outcome = "lock" PROVE ~ Clash
  <2>1. \A r \in Required : UpTo(r[2], resolved[r[1]])
    BY <1>1, LockMeetsAll DEF ResolverInv, Highest
  <2>2. ASSUME NEW r \in Required, NEW s \in Required, r[1] = s[1]
        PROVE  r[2][1] = s[2][1]
    BY <2>1, <2>2 DEF UpTo
  <2> QED
    BY <2>2 DEF Clash
<1> QED
  BY <1>1 DEF MajorsAgree, Clash, ResolverInv, Outcome

(* Resolution is exact, for every universe of packages: a lock holds each  *)
(* package that is required, directly or not, at the highest version       *)
(* required of it and nothing else, in whatever order the unordered maps   *)
(* give the dependencies, also when packages require each other.           *)
THEOREM LockIsExact ==
  ResolverSpec => []LockIsMaxOfMinimums
<1>1. ResolverInit => ResolverInv
  BY InitResolverInv
<1>2. ResolverInv /\ [Step]_resolverVars => ResolverInv'
  BY NextPreserves
<1>3. ResolverInv => LockIsMaxOfMinimums
  BY InvLock
<1> QED
  BY <1>1, <1>2, <1>3, PTL DEF ResolverSpec

(* Two major versions of one package are never locked, and the error that  *)
(* reports them is only thrown when two are required.                      *)
THEOREM MajorsNeverMix ==
  ResolverSpec => []MajorsAgree
<1>1. ResolverInit => ResolverInv
  BY InitResolverInv
<1>2. ResolverInv /\ [Step]_resolverVars => ResolverInv'
  BY NextPreserves
<1>3. ResolverInv => MajorsAgree
  BY InvMajors
<1> QED
  BY <1>1, <1>2, <1>3, PTL DEF ResolverSpec

-----------------------------------------------------------------------------
(* The from imports of a name among the first k statements.                *)
FromsOf(n, k) ==
  {j \in 1 .. k : main.body[j].kind = "from" /\ n \in main.body[j].names
                  /\ main.body[j].module \notin Builtin}

(* A compilation runs, or has come to its end. *)
Compiled == at # Nothing \/ result = "built"

(* One entry of calls for every statement done. *)
Progress ==
  /\ Readable
  /\ result \in Results \cup {Nothing} /\ steady \in BOOLEAN
  /\ at # Nothing => result = Nothing /\ at \in 0 .. Len(main.body)
  /\ calls \in Seq(ToSet(calls))
  /\ Compiled => Len(calls) = IF at = Nothing THEN Len(main.body) ELSE at

(* What is imported, and what a name stands for, has been loaded. *)
Caches ==
  /\ imported \subseteq DOMAIN loaded
  /\ \A n \in DOMAIN symbols : symbols[n] \in DOMAIN loaded
  /\ \A m \in DOMAIN loaded : loaded[m].file.parses

(* The imports so far: a name stands for the module of its last one.       *)
ImportsSoFar ==
  at # Nothing =>
    /\ \A j \in 1 .. at : main.body[j].kind = "from" /\ main.body[j].module \notin Builtin =>
         main.body[j].module \in imported /\ main.body[j].names \subseteq DOMAIN symbols
    /\ \A n \in DOMAIN symbols : \E j \in FromsOf(n, at) :
         symbols[n] = main.body[j].module /\ \A k \in FromsOf(n, at) : k <= j

(* While no file changes: the aliases are those of the lockfile, and every *)
(* module was taken from the first place that has it.                      *)
AliasesKnown ==
  at # Nothing /\ steady => aliases = IF lockfile = Nothing THEN << >> ELSE Registered(lockfile)
Places ==
  Compiled /\ steady => \A m \in DOMAIN loaded : FirstPlace(m, loaded[m].dir)

(* What a call has become, with the modules loaded so far.                 *)
Bound(c) ==
  LET s == main.body[c]  m == Means(c) IN
  \/ /\ calls[c] = [name |-> s.name, in |-> m]
     /\ m # "main" => m \in DOMAIN loaded /\ s.name \in Functions(loaded[m].file)
  \/ s.kind = "member" /\ calls[c] = Nowhere
  \/ /\ s.kind = "call" /\ calls[c] = [name |-> s.name, in |-> "main"]
     /\ m \in DOMAIN loaded /\ s.name \notin Functions(loaded[m].file)
CallsBound ==
  Compiled => \A c \in 1 .. Len(calls) : main.body[c].kind \in {"call", "member"} => Bound(c)

LoaderInv == Progress /\ Caches /\ ImportsSoFar /\ AliasesKnown /\ Places /\ CallsBound

-----------------------------------------------------------------------------
(* Registering the entries in turn leaves of every alias the last.         *)
LEMMA PackageIs ==
  ASSUME lockfile # Nothing, lockfile \in Seq(ToSet(lockfile))
  PROVE  /\ \A m \in DOMAIN Registered(lockfile) : IsPackage(m, Registered(lockfile)[m])
         /\ \A m, d : IsPackage(m, d) =>
              m \in DOMAIN Registered(lockfile) /\ d = Registered(lockfile)[m]
<1> DEFINE n == Len(lockfile)
           LastOf(m, k) == lockfile[k].alias = m /\ \A l \in k + 1 .. n : lockfile[l].alias # m
           K(m) == CHOOSE k \in DOMAIN lockfile : LastOf(m, k)
           R == Registered(lockfile)
<1>1. n \in Nat /\ DOMAIN lockfile = 1 .. n
  OBVIOUS
<1>2. DOMAIN R = {lockfile[k].alias : k \in 1 .. n}
  BY <1>1 DEF Registered, ToSet
<1>3. \A m \in DOMAIN R : R[m] = lockfile[K(m)].dir
  BY DEF Registered
<1>4. \A m, k : k \in 1 .. n /\ LastOf(m, k) => \A l \in 1 .. n : lockfile[l].alias = m => l <= k
  BY <1>1
<1>5. \A m \in DOMAIN R : K(m) \in 1 .. n /\ LastOf(m, K(m))
  <2> TAKE m \in DOMAIN R
  <2> DEFINE S == {k \in 1 .. n : lockfile[k].alias = m}
  <2>1. S \subseteq Int /\ S # {}
    BY <1>1, <1>2
  <2>2. IsFiniteSet(S)
    <3>1. IsFiniteSet(1 .. n) /\ S \subseteq 1 .. n
      BY <1>1, FS_Interval
    <3> HIDE DEF S
    <3> QED
      BY <3>1, FS_Subset
  <2>3. PICK k \in S : \A l \in S : l <= k
    BY <2>1, <2>2, GreatestElement
  <2>4. k \in DOMAIN lockfile /\ LastOf(m, k)
    BY <1>1, <2>3
  <2> QED
    BY <1>1, <2>4
<1>6. \A m \in DOMAIN R : IsPackage(m, R[m])
  BY <1>1, <1>3, <1>4, <1>5 DEF IsPackage
<1>7. \A m, d : IsPackage(m, d) => m \in DOMAIN R /\ d = R[m]
  <2> SUFFICES ASSUME NEW m, NEW d, IsPackage(m, d) PROVE m \in DOMAIN R /\ d = R[m]
    OBVIOUS
  <2>1. PICK k \in 1 .. n : /\ lockfile[k].alias = m /\ lockfile[k].dir = d
                            /\ \A l \in 1 .. n : lockfile[l].alias = m => l <= k
    BY <1>1 DEF IsPackage
  <2>2. m \in DOMAIN R
    BY <1>2, <2>1
  <2>3. K(m) \in 1 .. n /\ lockfile[K(m)].alias = m /\ \A l \in 1 .. n : lockfile[l].alias = m => l <= K(m)
    BY <1>4, <1>5, <2>2
  <2>4. K(m) = k
    BY <1>1, <2>1, <2>3
  <2> QED
    BY <1>3, <2>1, <2>2, <2>4
<1> QED
  BY <1>6, <1>7

(* The first candidate of resolve that has a module is its first place.    *)
LEMMA PlaceFirst ==
  ASSUME Readable, NEW m, Found(m) # {},
         aliases = IF lockfile = Nothing THEN << >> ELSE Registered(lockfile)
  PROVE  FirstPlace(m, Place(m))
<1> DEFINE C == Candidates(m)
           S == Found(m)
           q == CHOOSE k \in S : \A l \in S : k <= l
           w == Len(SearchPath)
<1>1. SearchPath \in Seq(ToSet(SearchPath)) /\ w \in Nat /\ DOMAIN SearchPath = 1 .. w
  BY LoaderAssumption
<1>2. /\ m \in DOMAIN aliases => lockfile # Nothing /\ IsPackage(m, aliases[m])
      /\ \A d : IsPackage(m, d) => m \in DOMAIN aliases /\ d = aliases[m]
  <2>1. CASE lockfile = Nothing
    BY <2>1 DEF IsPackage
  <2>2. CASE lockfile # Nothing
    BY <2>2, PackageIs DEF Readable
  <2> QED
    BY <2>1, <2>2
<1>3. CASE m \in DOMAIN aliases
  <2>1. C = <<aliases[m]>> \o <<InputDir>> \o SearchPath
    BY <1>3 DEF Candidates
  <2>2. /\ DOMAIN C = 1 .. w + 2 /\ C[1] = aliases[m] /\ C[2] = InputDir
        /\ \A k \in 1 .. w : C[k + 2] = SearchPath[k]
    BY <1>1, <2>1
  <2> HIDE DEF C
  <2>3. S \subseteq 1 .. w + 2 /\ \A k \in 1 .. w + 2 : k \in S <=> Has(C[k], m)
    BY <2>2 DEF Found, C
  <2>4. \E k \in S : \A l \in S : k <= l
    BY <1>1, <2>3, LeastElement
  <2> HIDE DEF S
  <2>5. q \in S /\ \A l \in S : q <= l
    BY <2>4
  <2>6. Place(m) = C[q]
    BY DEF Place, C, S
  <2> HIDE DEF q
  <2>7. Has(C[q], m) /\ \A l \in 1 .. q - 1 : ~ Has(C[l], m)
    BY <1>1, <2>3, <2>5
  <2>8. CASE q = 1
    BY <1>2, <1>3, <2>2, <2>6, <2>7, <2>8 DEF FirstPlace
  <2>9. CASE q = 2
    <3>1. ~ Has(aliases[m], m)
      BY <2>2, <2>7, <2>9
    <3> QED
      BY <1>2, <2>2, <2>6, <2>7, <2>9, <3>1 DEF FirstPlace
  <2>10. CASE q \in 3 .. w + 2
    <3>1. ~ Has(aliases[m], m) /\ ~ Has(InputDir, m)
      BY <2>2, <2>7, <2>10
    <3>2. q - 2 \in 1 .. w /\ C[q] = SearchPath[q - 2]
      <4>1. q - 2 \in 1 .. w /\ (q - 2) + 2 = q
        BY <1>1, <2>10
      <4> QED
        BY <2>2, <4>1
    <3>3. \A l \in 1 .. (q - 2) - 1 : ~ Has(SearchPath[l], m)
      <4> TAKE l \in 1 .. (q - 2) - 1
      <4>1. l \in 1 .. w /\ l + 2 \in 1 .. q - 1
        BY <1>1, <2>10
      <4> QED
        BY <2>2, <2>7, <4>1
    <3> QED
      BY <1>1, <1>2, <2>6, <2>7, <3>1, <3>2, <3>3 DEF FirstPlace
  <2> QED
    BY <1>1, <2>3, <2>5, <2>8, <2>9, <2>10
<1>4. CASE m \notin DOMAIN aliases
  <2>1. C = << >> \o <<InputDir>> \o SearchPath
    BY <1>4 DEF Candidates
  <2>2. /\ DOMAIN C = 1 .. w + 1 /\ C[1] = InputDir
        /\ \A k \in 1 .. w : C[k + 1] = SearchPath[k]
    BY <1>1, <2>1
  <2> HIDE DEF C
  <2>3. S \subseteq 1 .. w + 1 /\ \A k \in 1 .. w + 1 : k \in S <=> Has(C[k], m)
    BY <2>2 DEF Found, C
  <2>4. \E k \in S : \A l \in S : k <= l
    BY <1>1, <2>3, LeastElement
  <2> HIDE DEF S
  <2>5. q \in S /\ \A l \in S : q <= l
    BY <2>4
  <2>6. Place(m) = C[q]
    BY DEF Place, C, S
  <2> HIDE DEF q
  <2>7. Has(C[q], m) /\ \A l \in 1 .. q - 1 : ~ Has(C[l], m)
    BY <1>1, <2>3, <2>5
  <2>8. \A d : ~ IsPackage(m, d)
    BY <1>2, <1>4
  <2>9. CASE q = 1
    BY <2>2, <2>6, <2>7, <2>8, <2>9 DEF FirstPlace
  <2>10. CASE q \in 2 .. w + 1
    <3>1. ~ Has(InputDir, m)
      BY <2>2, <2>7, <2>10
    <3>2. q - 1 \in 1 .. w /\ C[q] = SearchPath[q - 1]
      <4>1. q - 1 \in 1 .. w /\ (q - 1) + 1 = q
        BY <1>1, <2>10
      <4> QED
        BY <2>2, <4>1
    <3>3. \A l \in 1 .. (q - 1) - 1 : ~ Has(SearchPath[l], m)
      <4> TAKE l \in 1 .. (q - 1) - 1
      <4>1. l \in 1 .. w /\ l + 1 \in 1 .. q - 1
        BY <1>1, <2>10
      <4> QED
        BY <2>2, <2>7, <4>1
    <3> QED
      BY <1>1, <2>6, <2>7, <2>8, <3>1, <3>2, <3>3 DEF FirstPlace
  <2> QED
    BY <1>1, <2>3, <2>5, <2>9, <2>10
<1> QED
  BY <1>3, <1>4

-----------------------------------------------------------------------------
LEMMA InitLoader == LoaderInit => LoaderInv
<1> SUFFICES ASSUME LoaderInit PROVE LoaderInv
  OBVIOUS
<1>1. Nothing # "built"
  BY LoaderAssumption DEF Results
<1> QED
  BY <1>1 DEF LoaderInit, LoaderInv, Progress, Caches, ImportsSoFar, AliasesKnown, Places, CallsBound, Compiled

SameFiles == files' = files /\ lockfile' = lockfile

(* One statement more, which has become what.                              *)
Advances(what) ==
  /\ at \in Nat /\ at' = at + 1 /\ at + 1 \in 1 .. Len(main.body) /\ main' = main
  /\ at # Nothing /\ at' # Nothing /\ Len(main.body) \in Nat
  /\ Len(calls) = at /\ Len(calls') = at + 1
  /\ calls'[at + 1] = what /\ \A k \in 1 .. at : calls'[k] = calls[k]
  /\ aliases' = aliases /\ steady' = steady /\ result' = Nothing
  /\ Compiled /\ Compiled' /\ Progress'

LEMMA Advanced ==
  ASSUME Progress, Running, NEW what, Becomes(what), SameFiles
  PROVE  Advances(what)
<1>0. Nothing \notin Nat /\ Nothing # "built"
  BY LoaderAssumption DEF Results
<1>1. main.body \in Seq(ToSet(main.body)) /\ Len(main.body) \in Nat
  BY DEF Progress, Readable
<1>2. /\ at \in 0 .. Len(main.body) /\ at < Len(main.body) /\ result = Nothing
      /\ Len(calls) = at /\ Compiled
  BY DEF Progress, Running, Compiled
<1>3. /\ at' = at + 1 /\ calls' = Append(calls, what) /\ main' = main /\ aliases' = aliases
      /\ result' = result /\ steady' = steady
  BY DEF Becomes
<1>4. at + 1 \in 1 .. Len(main.body) /\ at \in Nat /\ at # Nothing /\ at' # Nothing
  BY <1>0, <1>1, <1>2, <1>3
<1> DEFINE T == ToSet(calls) \cup {what}
<1>5. calls \in Seq(T) /\ what \in T
  BY DEF Progress
<1>6. /\ calls' \in Seq(T) /\ Len(calls') = at + 1 /\ calls'[at + 1] = what
      /\ \A k \in 1 .. at : calls'[k] = calls[k]
  <2> HIDE DEF T
  <2> QED
    BY <1>2, <1>3, <1>4, <1>5
<1>7. calls' \in Seq(ToSet(calls'))
  BY <1>6 DEF ToSet
<1>8. Readable'
  BY <1>3 DEF Progress, Readable, SameFiles
<1>9. Compiled' /\ Progress'
  BY <1>0, <1>1, <1>2, <1>3, <1>4, <1>6, <1>7, <1>8 DEF Progress, Compiled
<1> QED
  BY <1>1, <1>2, <1>3, <1>4, <1>6, <1>9 DEF Advances

(* Modules that are loaded stay.                                           *)
Keeps == \A m \in DOMAIN loaded : m \in DOMAIN loaded' /\ loaded'[m] = loaded[m]

LEMMA CallsAdvance ==
  ASSUME CallsBound, NEW what, Advances(what), Keeps,
         \A c \in Nat : c = at + 1 /\ main.body[c].kind \in {"call", "member"} => Bound(c)'
  PROVE  CallsBound'
<1> SUFFICES ASSUME NEW c \in 1 .. at + 1, main.body[c].kind \in {"call", "member"}
             PROVE  Bound(c)'
  BY DEF CallsBound, Advances
<1>1. CASE c = at + 1
  BY <1>1
<1>2. CASE c \in 1 .. at
  <2>1. Bound(c)
    BY <1>2 DEF CallsBound, Advances
  <2>2. Means(c)' = Means(c)
    BY DEF Means, Advances
  <2>3. calls'[c] = calls[c] /\ main' = main
    BY <1>2 DEF Advances
  <2> QED
    BY <2>1, <2>2, <2>3 DEF Bound, Keeps
<1> QED
  BY <1>1, <1>2 DEF Advances

(* A statement that loads nothing.                                         *)
LEMMA StaysLoaded ==
  ASSUME LoaderInv, NEW what, Advances(what), SameFiles, UNCHANGED <<loaded, imported, symbols>>,
         main.body[at + 1].kind \in {"import", "from"} => main.body[at + 1].module \in Builtin,
         \A c \in Nat : c = at + 1 /\ main.body[c].kind \in {"call", "member"} => Bound(c)'
  PROVE  LoaderInv'
<1>1. Progress'
  BY DEF Advances
<1>2. Caches'
  BY DEF LoaderInv, Caches
<1>3. ImportsSoFar'
  <2>1. \A n : FromsOf(n, at + 1) = FromsOf(n, at)
    <3> TAKE n
    <3>1. \A j \in 1 .. at + 1 : j \in 1 .. at \/ j = at + 1
      BY DEF Advances
    <3>2. at + 1 \notin FromsOf(n, at + 1)
      BY DEF FromsOf
    <3>3. 1 .. at \subseteq 1 .. at + 1
      BY DEF Advances
    <3> QED
      BY <3>1, <3>2, <3>3 DEF FromsOf
  <2>2. \A n : FromsOf(n, at)' = FromsOf(n, at + 1)
    BY DEF FromsOf, Advances
  <2>3. \A j \in 1 .. at + 1 : main.body[j].kind = "from" /\ main.body[j].module \notin Builtin => j \in 1 .. at
    BY DEF Advances
  <2> QED
    BY <2>1, <2>2, <2>3 DEF LoaderInv, ImportsSoFar, Advances
<1>4. AliasesKnown' /\ Places'
  BY DEF LoaderInv, AliasesKnown, Places, Advances, SameFiles, FirstPlace, Has, IsPackage
<1>5. CallsBound'
  BY CallsAdvance DEF LoaderInv, Keeps
<1> QED
  BY <1>1, <1>2, <1>3, <1>4, <1>5 DEF LoaderInv

(* Nothing has been compiled that the promises speak of.                   *)
LEMMA NotCompiled ==
  ASSUME LoaderInv, SameFiles, main' = main, at' = Nothing, result' \in Results \ {"built"},
         UNCHANGED <<compileVars, steady>>
  PROVE  LoaderInv'
<1>1. Nothing \notin Nat /\ ~ Compiled'
  BY LoaderAssumption DEF Compiled
<1>2. UNCHANGED <<loaded, imported, symbols, calls>>
  BY DEF compileVars
<1>3. Readable'
  BY DEF LoaderInv, Progress, Readable, SameFiles
<1> QED
  BY <1>1, <1>2, <1>3 DEF LoaderInv, Progress, Caches, ImportsSoFar, AliasesKnown, Places, CallsBound

LEMMA BeginInv ==
  ASSUME LoaderInv, SameFiles, Begin
  PROVE  LoaderInv'
<1>1. Nothing \notin Nat /\ Nothing \notin Results /\ "built" \in Results /\ "alias" \in Results
  BY LoaderAssumption DEF Results
<1>2. Readable' /\ main' = main
  BY DEF LoaderInv, Progress, Readable, SameFiles, Begin
<1>3. loaded' = << >> /\ imported' = {} /\ symbols' = << >> /\ calls' = << >> /\ steady' = TRUE
  BY DEF Begin
<1>4. \/ at' = 0 /\ result' = Nothing /\ aliases' = IF lockfile = Nothing THEN << >> ELSE Registered(lockfile)
      \/ at' = Nothing /\ result' = "alias"
  BY DEF Begin
<1>5. Len(main.body) \in Nat
  BY <1>2 DEF LoaderInv, Progress, Readable
<1>6. DOMAIN loaded' = {} /\ DOMAIN symbols' = {} /\ calls' \in Seq(ToSet(calls')) /\ Len(calls') = 0
  BY <1>3
<1>7. Progress' /\ Caches'
  BY <1>1, <1>2, <1>3, <1>4, <1>5, <1>6 DEF Progress, Caches, Compiled
<1>8. ImportsSoFar' /\ Places' /\ CallsBound'
  BY <1>1, <1>3, <1>4, <1>6 DEF ImportsSoFar, Places, CallsBound
<1>9. AliasesKnown'
  BY <1>1, <1>4 DEF AliasesKnown, SameFiles
<1> QED
  BY <1>7, <1>8, <1>9 DEF LoaderInv

LEMMA ImportBuiltinInv ==
  ASSUME LoaderInv, SameFiles, ImportBuiltin
  PROVE  LoaderInv'
<1>1. Advances(Nothing)
  BY Advanced DEF ImportBuiltin, LoaderInv
<1>2. main.body[at + 1].kind \in {"import", "from"} /\ main.body[at + 1].module \in Builtin
  BY DEF ImportBuiltin, Stmt
<1> QED
  BY <1>1, <1>2, StaysLoaded DEF ImportBuiltin

LEMMA AbortInv ==
  ASSUME LoaderInv, SameFiles, NEW how \in Results \ {"built"}, Abort(how)
  PROVE  LoaderInv'
BY NotCompiled DEF Abort

LEMMA ImportFailsInv ==
  ASSUME LoaderInv, SameFiles, ImportFails
  PROVE  LoaderInv'
<1>1. {"import", "module"} \subseteq Results \ {"built"}
  BY DEF Results
<1> QED
  BY <1>1, AbortInv DEF ImportFails

(* What Declared means of a module that is imported.                       *)
LEMMA DeclaredFunctions ==
  ASSUME NEW m, NEW f, f \in Declared(m)
  PROVE  f \in Functions(loaded[m].file)
BY DEF Declared

LEMMA CallNameInv ==
  ASSUME LoaderInv, SameFiles, CallName
  PROVE  LoaderInv'
<1> DEFINE f == Stmt.name
<1>1. CASE f \in DOMAIN symbols /\ f \in Declared(symbols[f])
  <2> DEFINE what == [name |-> f, in |-> symbols[f]]
  <2>1. Running /\ Stmt.kind = "call" /\ Becomes(what) /\ UNCHANGED <<loaded, imported, symbols>>
    BY <1>1 DEF CallName, Is
  <2>2. Advances(what)
    BY <2>1, Advanced DEF LoaderInv
  <2> HIDE DEF what
  <2>3. \A c \in Nat : c = at + 1 => Bound(c)'
    <3> SUFFICES ASSUME NEW c \in Nat, c = at + 1 PROVE Bound(c)'
      OBVIOUS
    <3>1. main.body[c] = Stmt /\ c - 1 = at
      BY <2>2 DEF Stmt, Advances
    <3>2. PICK j \in FromsOf(f, at) : /\ symbols[f] = main.body[j].module
                                      /\ \A k \in FromsOf(f, at) : k <= j
      BY <1>1, <2>2 DEF LoaderInv, ImportsSoFar, Advances
    <3>3. Means(c) = symbols[f]
      <4>1. FromsOf(f, at) \subseteq Int /\ \A k \in FromsOf(f, at) : (\A l \in FromsOf(f, at) : l <= k) => k = j
        BY <2>2, <3>2 DEF FromsOf, Advances
      <4>2. (CHOOSE k \in FromsOf(f, at) : \A l \in FromsOf(f, at) : l <= k) = j
        BY <3>2, <4>1
      <4> QED
        BY <2>1, <3>1, <3>2, <4>2 DEF Means, FromsOf
    <3>4. Means(c)' = Means(c) /\ main' = main
      BY <2>2 DEF Means, Advances
    <3>5. symbols[f] \in DOMAIN loaded /\ f \in Functions(loaded[symbols[f]].file)
      BY <1>1, DeclaredFunctions DEF LoaderInv, Caches
    <3>6. calls'[c] = [name |-> f, in |-> symbols[f]] /\ loaded' = loaded
      BY <2>1, <2>2 DEF Advances, what
    <3> QED
      BY <3>1, <3>3, <3>4, <3>5, <3>6 DEF Bound
  <2>4. main.body[at + 1].kind = "call"
    BY <2>1 DEF Stmt
  <2> QED
    BY <2>1, <2>2, <2>3, <2>4, StaysLoaded
<1>2. CASE ~ (f \in DOMAIN symbols /\ f \in Declared(symbols[f])) /\ f \in main.functions \cup main.classes
  <2> DEFINE what == [name |-> f, in |-> "main"]
  <2>1. Running /\ Stmt.kind = "call" /\ Becomes(what) /\ UNCHANGED <<loaded, imported, symbols>>
    BY <1>2 DEF CallName, Is
  <2>2. Advances(what)
    BY <2>1, Advanced DEF LoaderInv
  <2> HIDE DEF what
  <2>3. \A c \in Nat : c = at + 1 => Bound(c)'
    <3> SUFFICES ASSUME NEW c \in Nat, c = at + 1 PROVE Bound(c)'
      OBVIOUS
    <3>1. main.body[c] = Stmt /\ c - 1 = at
      BY <2>2 DEF Stmt, Advances
    <3>2. Means(c)' = Means(c) /\ main' = main
      BY <2>2 DEF Means, Advances
    <3>3. calls'[c] = [name |-> f, in |-> "main"] /\ loaded' = loaded
      BY <2>1, <2>2 DEF Advances, what
    <3>4. CASE f \notin DOMAIN symbols
      <4>1. FromsOf(f, at) = {}
        BY <2>2, <3>4 DEF FromsOf, LoaderInv, ImportsSoFar, Advances
      <4>2. Means(c) = "main"
        BY <2>1, <3>1, <4>1 DEF Means, FromsOf
      <4> QED
        BY <3>1, <3>2, <3>3, <4>2 DEF Bound
    <3>5. CASE f \in DOMAIN symbols
      <4>1. PICK j \in FromsOf(f, at) : /\ symbols[f] = main.body[j].module
                                        /\ \A k \in FromsOf(f, at) : k <= j
        BY <2>2, <3>5 DEF LoaderInv, ImportsSoFar, Advances
      <4>2. Means(c) = symbols[f]
        <5>1. FromsOf(f, at) \subseteq Int /\ \A k \in FromsOf(f, at) : (\A l \in FromsOf(f, at) : l <= k) => k = j
          BY <2>2, <4>1 DEF FromsOf, Advances
        <5>2. (CHOOSE k \in FromsOf(f, at) : \A l \in FromsOf(f, at) : l <= k) = j
          BY <4>1, <5>1
        <5> QED
          BY <2>1, <3>1, <4>1, <5>2 DEF Means, FromsOf
      <4>3. symbols[f] \in DOMAIN loaded
        BY <3>5 DEF LoaderInv, Caches
      <4>4. f \notin Functions(loaded[symbols[f]].file)
        <5>1. f \notin Declared(symbols[f])
          BY <1>2, <3>5
        <5>2. j \in 1 .. at /\ main.body[j].kind = "from" /\ f \in main.body[j].names
          BY <4>1 DEF FromsOf
        <5> QED
          BY <4>1, <5>1, <5>2 DEF Declared
      <4> QED
        BY <2>1, <3>1, <3>2, <3>3, <4>2, <4>3, <4>4 DEF Bound
    <3> QED
      BY <3>4, <3>5
  <2>4. main.body[at + 1].kind = "call"
    BY <2>1 DEF Stmt
  <2> QED
    BY <2>1, <2>2, <2>3, <2>4, StaysLoaded
<1>3. CASE ~ (f \in DOMAIN symbols /\ f \in Declared(symbols[f])) /\ f \notin main.functions \cup main.classes
  <2>1. "unknown" \in Results \ {"built"}
    BY DEF Results
  <2>2. Abort("unknown")
    BY <1>3 DEF CallName
  <2> QED
    BY <2>1, <2>2, AbortInv
<1> QED
  BY <1>1, <1>2, <1>3

LEMMA CallMemberInv ==
  ASSUME LoaderInv, SameFiles, CallMember
  PROVE  LoaderInv'
<1> DEFINE m == Stmt.module
           f == Stmt.name
           what == IF m \in imported /\ f \in Declared(m) THEN [name |-> f, in |-> m] ELSE Nowhere
<1>1. Running /\ Stmt.kind = "member" /\ Becomes(what) /\ UNCHANGED <<loaded, imported, symbols>>
  BY DEF CallMember, Is
<1> HIDE DEF what
<1>2. Advances(what)
  BY <1>1, Advanced DEF LoaderInv
<1>3. main.body[at + 1] = Stmt
  BY DEF Stmt
<1>4. \A c \in Nat : c = at + 1 => Bound(c)'
  <2> SUFFICES ASSUME NEW c \in Nat, c = at + 1 PROVE Bound(c)'
    OBVIOUS
  <2>1. main.body[c] = Stmt
    BY <1>3
  <2>2. Means(c)' = m /\ main' = main
    BY <1>1, <1>2, <2>1 DEF Means, Advances
  <2>3. calls'[c] = what /\ loaded' = loaded
    BY <1>1, <1>2 DEF Advances
  <2>4. m \in imported /\ f \in Declared(m) => m \in DOMAIN loaded /\ f \in Functions(loaded[m].file)
    BY DeclaredFunctions DEF LoaderInv, Caches
  <2>5. \/ what = Nowhere
        \/ what = [name |-> f, in |-> m] /\ m \in DOMAIN loaded /\ f \in Functions(loaded[m].file)
    BY <2>4 DEF what
  <2>6. Nowhere' = Nowhere
    BY DEF Nowhere
  <2> QED
    BY <1>1, <2>1, <2>2, <2>3, <2>5, <2>6 DEF Bound
<1> QED
  BY <1>1, <1>2, <1>3, <1>4, StaysLoaded

(* m is loaded, and the file is the first on the way.                      *)
LEMMA LoadedMore ==
  ASSUME LoaderInv, SameFiles, NEW m, Loads(m), NEW what, Advances(what), loaded' = Cached(m)
  PROVE  /\ Keeps /\ m \in DOMAIN loaded' /\ DOMAIN loaded' = DOMAIN loaded \cup {m}
         /\ \A n \in DOMAIN loaded' : loaded'[n].file.parses
         /\ AliasesKnown' /\ Places'
<1>1. /\ DOMAIN loaded' = DOMAIN loaded \cup {m}
      /\ \A n \in DOMAIN loaded : loaded'[n] = loaded[n]
      /\ m \notin DOMAIN loaded => loaded'[m] = [dir |-> Place(m), file |-> files[Place(m)][m]]
  BY DEF Cached, Entry
<1>2. m \notin DOMAIN loaded => Found(m) # {} /\ files[Place(m)][m].parses
  BY DEF Loads
<1>3. \A n \in DOMAIN loaded' : loaded'[n].file.parses
  BY <1>1, <1>2 DEF LoaderInv, Caches
<1>4. AliasesKnown'
  BY DEF LoaderInv, AliasesKnown, Advances, SameFiles
<1>5. \A n \in DOMAIN loaded' : steady => FirstPlace(n, loaded'[n].dir)
  <2> SUFFICES ASSUME NEW n \in DOMAIN loaded', steady PROVE FirstPlace(n, loaded'[n].dir)
    OBVIOUS
  <2>1. CASE n \in DOMAIN loaded
    BY <1>1, <2>1 DEF LoaderInv, Places, Advances
  <2>2. CASE n \notin DOMAIN loaded
    <3>1. n = m /\ loaded'[n].dir = Place(m)
      BY <1>1, <2>2
    <3>2. FirstPlace(m, Place(m))
      BY <1>2, <2>2, <3>1, PlaceFirst DEF LoaderInv, AliasesKnown, Progress, Advances
    <3> QED
      BY <3>1, <3>2
  <2> QED
    BY <2>1, <2>2
<1>6. Places'
  BY <1>5 DEF Places, Advances, SameFiles, FirstPlace, Has, IsPackage
<1> QED
  BY <1>1, <1>3, <1>4, <1>6 DEF Keeps

LEMMA ImportInv ==
  ASSUME LoaderInv, SameFiles, Import
  PROVE  LoaderInv'
<1> DEFINE m == Stmt.module
<1>1. /\ Running /\ Stmt.kind = "import" /\ Loads(m) /\ loaded' = Cached(m)
      /\ imported' = imported \cup {m} /\ symbols' = symbols /\ Becomes(Nothing)
  BY DEF Import, Is
<1>2. Advances(Nothing)
  BY <1>1, Advanced DEF LoaderInv
<1>3. Stmt = main.body[at + 1]
  BY DEF Stmt
<1>4. /\ Keeps /\ m \in DOMAIN loaded' /\ DOMAIN loaded' = DOMAIN loaded \cup {m}
      /\ \A n \in DOMAIN loaded' : loaded'[n].file.parses
      /\ AliasesKnown' /\ Places'
  BY <1>1, <1>2, LoadedMore
<1> HIDE DEF m
<1>5. Caches'
  BY <1>1, <1>4 DEF LoaderInv, Caches
<1>6. ImportsSoFar'
  <2>1. \A n : FromsOf(n, at + 1) = FromsOf(n, at)
    <3> TAKE n
    <3>1. \A j \in 1 .. at + 1 : j \in 1 .. at \/ j = at + 1
      BY <1>2 DEF Advances
    <3>2. at + 1 \notin FromsOf(n, at + 1)
      BY <1>1, <1>3 DEF FromsOf
    <3>3. 1 .. at \subseteq 1 .. at + 1
      BY <1>2 DEF Advances
    <3> QED
      BY <3>1, <3>2, <3>3 DEF FromsOf
  <2>2. \A n : FromsOf(n, at)' = FromsOf(n, at + 1)
    BY <1>2 DEF FromsOf, Advances
  <2>3. \A j \in 1 .. at + 1 : main.body[j].kind = "from" => j \in 1 .. at
    BY <1>1, <1>2, <1>3 DEF Advances
  <2> QED
    BY <1>1, <1>2, <2>1, <2>2, <2>3 DEF LoaderInv, ImportsSoFar, Advances
<1>7. CallsBound'
  BY <1>1, <1>2, <1>3, <1>4, CallsAdvance DEF LoaderInv
<1> QED
  BY <1>2, <1>4, <1>5, <1>6, <1>7 DEF LoaderInv, Advances

LEMMA FromImportInv ==
  ASSUME LoaderInv, SameFiles, FromImport
  PROVE  LoaderInv'
<1> DEFINE m == Stmt.module
           N == Stmt.names
<1>0. Stmt = main.body[at + 1]
  BY DEF Stmt
<1>1. CASE ~ N \subseteq Exports(Entry(m).file)
  <2>1. "name" \in Results \ {"built"}
    BY DEF Results
  <2>2. Abort("name")
    BY <1>1 DEF FromImport
  <2> QED
    BY <2>1, <2>2, AbortInv
<1>2. CASE N \subseteq Exports(Entry(m).file)
  <2>1. /\ Running /\ Stmt.kind = "from" /\ Loads(m) /\ loaded' = Cached(m) /\ m \notin Builtin
        /\ imported' = imported \cup {m} /\ symbols' = WithSymbols(m, N) /\ Becomes(Nothing)
    BY <1>2 DEF FromImport, Is
  <2>2. Advances(Nothing)
    BY <2>1, Advanced DEF LoaderInv
  <2>3. /\ Keeps /\ m \in DOMAIN loaded' /\ DOMAIN loaded' = DOMAIN loaded \cup {m}
        /\ \A n \in DOMAIN loaded' : loaded'[n].file.parses
        /\ AliasesKnown' /\ Places'
    BY <2>1, <2>2, LoadedMore
  <2>4. /\ DOMAIN symbols' = DOMAIN symbols \cup N
        /\ \A n \in N : symbols'[n] = m
        /\ \A n \in DOMAIN symbols \ N : symbols'[n] = symbols[n]
    BY <2>1 DEF WithSymbols
  <2>5. Caches'
    BY <2>1, <2>3, <2>4 DEF LoaderInv, Caches
  <2>6. ImportsSoFar'
    <3>1. \A j \in 1 .. at + 1 : j \in 1 .. at \/ j = at + 1
      BY <2>2 DEF Advances
    <3>2. \A n : FromsOf(n, at)' = FromsOf(n, at + 1)
      BY <2>2 DEF FromsOf, Advances
    <3>3. \A n \in N : at + 1 \in FromsOf(n, at + 1) /\ \A k \in FromsOf(n, at + 1) : k <= at + 1
      BY <1>0, <2>1, <2>2 DEF FromsOf, Advances
    <3>4. \A n : n \notin N => FromsOf(n, at + 1) = FromsOf(n, at)
      BY <1>0, <2>2, <3>1 DEF FromsOf, Advances
    <3>5. \A j \in 1 .. at + 1 : main.body[j].kind = "from" /\ main.body[j].module \notin Builtin =>
            main.body[j].module \in imported' /\ main.body[j].names \subseteq DOMAIN symbols'
      <4> TAKE j \in 1 .. at + 1
      <4>1. CASE j = at + 1
        BY <1>0, <2>1, <2>4, <4>1
      <4>2. CASE j \in 1 .. at
        BY <2>1, <2>2, <2>4, <4>2 DEF LoaderInv, ImportsSoFar, Advances
      <4> QED
        BY <3>1, <4>1, <4>2
    <3>6. \A n \in DOMAIN symbols' : \E j \in FromsOf(n, at + 1) :
            symbols'[n] = main.body[j].module /\ \A k \in FromsOf(n, at + 1) : k <= j
      <4> TAKE n \in DOMAIN symbols'
      <4>1. CASE n \in N
        BY <1>0, <2>4, <3>3, <4>1
      <4>2. CASE n \notin N
        BY <2>2, <2>4, <3>4, <4>2 DEF LoaderInv, ImportsSoFar, Advances
      <4> QED
        BY <4>1, <4>2
    <3> HIDE DEF N, m
    <3> QED
      BY <2>2, <3>2, <3>5, <3>6 DEF ImportsSoFar, Advances
  <2>7. CallsBound'
    BY <1>0, <2>1, <2>2, <2>3, CallsAdvance DEF LoaderInv
  <2> QED
    BY <2>2, <2>3, <2>5, <2>6, <2>7 DEF LoaderInv, Advances
<1> QED
  BY <1>1, <1>2

LEMMA LinkInv ==
  ASSUME LoaderInv, SameFiles, Link
  PROVE  LoaderInv'
<1>1. Nothing \notin Nat /\ "built" # Nothing /\ {"duplicate", "undefined", "built"} \subseteq Results
  BY LoaderAssumption DEF Results
<1>2. /\ at # Nothing /\ at = Len(main.body) /\ at' = Nothing /\ main' = main /\ steady' = steady
      /\ UNCHANGED <<loaded, imported, symbols, calls>> /\ result' \in {"duplicate", "undefined", "built"}
  BY DEF Link, compileVars
<1>3. Compiled /\ Len(calls) = Len(main.body)
  BY <1>1, <1>2 DEF LoaderInv, Progress, Compiled
<1>4. Progress'
  BY <1>1, <1>2, <1>3 DEF LoaderInv, Progress, Compiled, Readable, SameFiles
<1>5. Caches' /\ ImportsSoFar' /\ AliasesKnown'
  BY <1>1, <1>2 DEF LoaderInv, Caches, ImportsSoFar, AliasesKnown
<1>6. Places'
  BY <1>2, <1>3 DEF LoaderInv, Places, SameFiles, FirstPlace, Has, IsPackage
<1>7. CallsBound'
  <2>1. \A c : Bound(c)' <=> Bound(c)
    BY <1>2 DEF Bound, Means
  <2> QED
    BY <1>2, <1>3, <2>1 DEF LoaderInv, CallsBound
<1> QED
  BY <1>4, <1>5, <1>6, <1>7 DEF LoaderInv

LEMMA FilesChangeInv ==
  ASSUME LoaderInv, FilesChange
  PROVE  LoaderInv'
<1>1. UNCHANGED <<main, at, aliases, loaded, imported, symbols, calls, result>> /\ Readable'
  BY DEF FilesChange, compileVars
<1>2. steady' \in BOOLEAN /\ (Compiled /\ steady' => steady /\ SameFiles)
  BY DEF FilesChange, Compiled, SameFiles
<1>3. Progress'
  BY <1>1, <1>2 DEF LoaderInv, Progress, Compiled
<1>4. Caches' /\ ImportsSoFar'
  BY <1>1 DEF LoaderInv, Caches, ImportsSoFar, FromsOf
<1>5. AliasesKnown'
  BY <1>1, <1>2 DEF LoaderInv, AliasesKnown, Compiled, SameFiles
<1>6. Places'
  BY <1>1, <1>2 DEF LoaderInv, Places, Compiled, SameFiles, FirstPlace, Has, IsPackage
<1>7. CallsBound'
  <2>1. \A c : Bound(c)' <=> Bound(c)
    BY <1>1 DEF Bound, Means
  <2> QED
    BY <1>1, <2>1 DEF LoaderInv, CallsBound, Compiled
<1> QED
  BY <1>3, <1>4, <1>5, <1>6, <1>7 DEF LoaderInv

LEMMA LoaderStutter ==
  ASSUME LoaderInv, UNCHANGED loaderVars
  PROVE  LoaderInv'
<1>1. UNCHANGED <<files, lockfile, main, at, aliases, loaded, imported, symbols, calls, result, steady>>
  BY DEF loaderVars, compileVars
<1>2. Progress' /\ Caches' /\ ImportsSoFar' /\ AliasesKnown'
  BY <1>1 DEF LoaderInv, Progress, Caches, ImportsSoFar, AliasesKnown, Readable, Compiled, FromsOf
<1>3. Places'
  BY <1>1 DEF LoaderInv, Places, Compiled, FirstPlace, Has, IsPackage
<1>4. CallsBound'
  <2>1. \A c : Bound(c)' <=> Bound(c)
    BY <1>1 DEF Bound, Means
  <2> QED
    BY <1>1, <2>1 DEF LoaderInv, CallsBound, Compiled
<1> QED
  BY <1>2, <1>3, <1>4 DEF LoaderInv

LEMMA LoaderStep == LoaderInv /\ [LoaderNext]_loaderVars => LoaderInv'
<1> SUFFICES ASSUME LoaderInv, [LoaderNext]_loaderVars PROVE LoaderInv'
  OBVIOUS
<1>1. CASE UNCHANGED loaderVars
  BY <1>1, LoaderStutter
<1>2. CASE FilesChange
  BY <1>2, FilesChangeInv
<1>3. CASE Compile /\ UNCHANGED <<files, lockfile>>
  <2>1. SameFiles
    BY <1>3 DEF SameFiles
  <2> QED
    BY <1>3, <2>1, BeginInv, ImportBuiltinInv, ImportFailsInv, ImportInv, FromImportInv,
       CallNameInv, CallMemberInv, LinkInv DEF Compile
<1> QED
  BY <1>1, <1>2, <1>3 DEF LoaderNext

(* Compilation of a main file over modules that change under it: in a      *)
(* program that was built, resolve, load, codegenFromImportStmt and        *)
(* codegenCallExpr bind every call to the function it names, that of the   *)
(* last from import of its name, whatever order the imports come in; and if*)
(* no file changed meanwhile, the module was taken from the first place    *)
(* that has it: its package, the directory of the main file, the search    *)
(* path in order.                                                          *)
THEOREM CallsAlwaysReach == LoaderSpec => []CallsReachTheirFunctions
<1>1. LoaderInv => CallsReachTheirFunctions
  <2> SUFFICES ASSUME LoaderInv PROVE CallsReachTheirFunctions
    OBVIOUS
  <2>0. Nothing # "built" /\ Nothing \notin Nat
    BY LoaderAssumption DEF Results
  <2>1. LoaderTypeOK
    <3>1. Range(symbols) \subseteq DOMAIN loaded
      BY DEF LoaderInv, Caches, Range
    <3> QED
      BY <3>1 DEF LoaderTypeOK, LoaderInv, Progress, Caches, Compiled
  <2> SUFFICES ASSUME result = "built", NEW c \in DOMAIN main.body,
                      main.body[c].kind \in {"call", "member"}
               PROVE  Reaches(c)
    BY <2>1 DEF CallsReachTheirFunctions
  <2>2. c \in 1 .. Len(calls)
    BY <2>0 DEF LoaderInv, Progress, Readable, Compiled
  <2>3. Bound(c)
    BY <2>2 DEF LoaderInv, CallsBound, Compiled
  <2>4. steady => \A m \in DOMAIN loaded : FirstPlace(m, loaded[m].dir)
    BY DEF LoaderInv, Places, Compiled
  <2> QED
    BY <2>3, <2>4 DEF Bound, Reaches
<1> QED
  BY InitLoader, LoaderStep, <1>1, PTL DEF LoaderSpec

-----------------------------------------------------------------------------
(* Two modules define one symbol only if both have it hidden.              *)
LEMMA DefinedNames ==
  ASSUME NEW m, NEW f, NEW x, x \in Defined(m, f)
  PROVE  \/ \E n : x = <<m, ".", n>>
         \/ \E n \in Hidden(f) : x = <<n>>
         \/ \E n \in Hidden(f) : x = <<n, "init">>
<1>1. CASE \E n \in Renamed(f) : x = <<m, ".", n>>
  BY <1>1
<1>2. CASE \E n \in (f.functions \cup f.classes) \ Renamed(f) : x = Bare(n)
  BY <1>2 DEF Renamed, Bare, Hidden
<1>3. CASE \E n \in f.classes : x = <<n, "init">>
  BY <1>3 DEF Hidden
<1> QED
  BY <1>1, <1>2, <1>3 DEF Defined, Methods

LEMMA MainNames ==
  ASSUME NEW x \in MainDefined
  PROVE  (\E n \in HiddenMain : x = <<n>>) \/ (\E n \in HiddenMain : x = <<n, "init">>)
BY DEF MainDefined, Bare, Methods, HiddenMain

LEMMA DuplicateHidden ==
  ASSUME Duplicate
  PROVE  \/ \E m \in Linked : Hidden(loaded[m].file) \cap HiddenMain # {}
         \/ \E m, n \in Linked : m # n /\ Hidden(loaded[m].file) \cap Hidden(loaded[n].file) # {}
<1>1. ASSUME NEW m \in Linked, NEW x \in Defined(m, loaded[m].file), x \in MainDefined
      PROVE  Hidden(loaded[m].file) \cap HiddenMain # {}
  BY <1>1, DefinedNames, MainNames
<1>2. ASSUME NEW m \in Linked, NEW n \in Linked, m # n,
             NEW x \in Defined(m, loaded[m].file), x \in Defined(n, loaded[n].file)
      PROVE  Hidden(loaded[m].file) \cap Hidden(loaded[n].file) # {}
  BY <1>2, DefinedNames
<1> QED
  BY <1>1, <1>2 DEF Duplicate

LinkedWell == (result = "duplicate" => at = Nothing) /\ LinkFailsOnHiddenNames

(* The renaming in ModuleLoader::compile and Linker::link: a link fails    *)
(* with a symbol defined twice only if two modules have a hidden name in   *)
(* common (a private function, a class, whose methods keep their names, or *)
(* a main), or one of them shares such a name with the classes and main of *)
(* the main file.                                                          *)
THEOREM OnlyHiddenNamesClash == LoaderSpec => []LinkFailsOnHiddenNames
<1>0. Nothing # "duplicate"
  BY LoaderAssumption DEF Results
<1>1. LoaderInit => LinkedWell
  BY <1>0 DEF LoaderInit, LinkedWell, LinkFailsOnHiddenNames
<1>2. LinkedWell /\ [LoaderNext]_loaderVars => LinkedWell'
  <2> SUFFICES ASSUME LinkedWell, [LoaderNext]_loaderVars, result' = "duplicate"
               PROVE  LinkedWell'
    BY DEF LinkedWell, LinkFailsOnHiddenNames
  <2>1. CASE UNCHANGED <<main, at, loaded, result>>
    BY <2>1 DEF LinkedWell, LinkFailsOnHiddenNames, Linked, HiddenMain
  <2>2. CASE Link
    <3>1. Duplicate
      BY <2>2 DEF Link
    <3>2. at' = Nothing /\ main' = main /\ loaded' = loaded
      BY <2>2 DEF Link, compileVars
    <3> QED
      BY <3>1, <3>2, DuplicateHidden DEF LinkedWell, LinkFailsOnHiddenNames, Linked, HiddenMain
  <2>3. CASE ImportBuiltin \/ ImportFails \/ Import \/ FromImport \/ CallName \/ CallMember
    <3>1. at # Nothing /\ result # "duplicate"
      BY <2>3 DEF LinkedWell, ImportBuiltin, ImportFails, Import, FromImport, CallName, CallMember, Is, Running
    <3>2. result' = result \/ \E how \in {"import", "module", "name", "unknown"} : result' = how
      BY <2>3 DEF ImportBuiltin, ImportFails, Import, FromImport, CallName, CallMember, Becomes, Abort
    <3> QED
      BY <3>1, <3>2
  <2>4. CASE Begin
    BY <1>0, <2>4 DEF Begin
  <2> QED
    BY <2>1, <2>2, <2>3, <2>4 DEF LoaderNext, Compile, FilesChange, loaderVars, compileVars
<1>3. LinkedWell => LinkFailsOnHiddenNames
  BY DEF LinkedWell
<1> QED
  BY <1>1, <1>2, <1>3, PTL DEF LoaderSpec

-----------------------------------------------------------------------------
(* What is on the disk next to a build.  A lock that was written names     *)
(* packages of its project; a directory of the store holds nothing, the    *)
(* part of a checkout, or the package it is named after, which is what     *)
(* NoCollision is needed for.                                              *)
LockHolds ==
  \A p \in Process : lock[p] # NULL =>
    \A n \in DOMAIN lock[p] : \E k \in DOMAIN Project[p] : lock[p][n] = Project[p][k]
StoreHolds == \A d \in Deps : store[storeDir(d)] \in {Absent, Partial, Content(d)}

(* The compiler knows the aliases and has loaded the modules of packages of*)
(* its project only.                                                       *)
IsEntry(m, d) == \E k \in DOMAIN Project[Builder] : d = Project[Builder][k] /\ d.alias = m
AliasesHold ==
  at # Nothing => \A m \in DOMAIN aliases : \E d \in Deps : IsEntry(m, d) /\ aliases[m] = storeDir(d)
LoadedHold ==
  Compiled => \A m \in DOMAIN loaded : \E d \in Deps : IsEntry(m, d) /\ loaded[m].file = Tree[Content(d)][m]
OnDisk == files = StoreDirs /\ lockfile = StoreLock

(* No two packages of the project have one alias.  resolveDeps does not see*)
(* to it: the alias of a package that only a package requires is its key in*)
(* the manifest of that one.                                               *)
OneAlias ==
  \A k, l \in DOMAIN Project[Builder] : Project[Builder][k].alias = Project[Builder][l].alias => k = l

DiskInv == TypeInv /\ LockHolds /\ StoreHolds
BuildInv == DiskInv /\ LoaderInv /\ OnDisk /\ AliasesHold /\ LoadedHold

LEMMA BuilderEntries ==
  \A k \in DOMAIN Project[Builder] : Project[Builder][k] \in Deps
BY WorkspaceAssumption, Entries

LEMMA InitDisk == Init => DiskInv
<1> SUFFICES ASSUME Init PROVE DiskInv
  OBVIOUS
<1>1. TypeInv
  BY InitType
<1>2. LockHolds
  BY DEF Init, LockHolds
<1>3. StoreHolds
  BY DEF Init, StoreHolds
<1> QED
  BY <1>1, <1>2, <1>3 DEF DiskInv

(* The store and the lockfiles change in a few steps only. *)
LEMMA DiskStep ==
  ASSUME NoCollision, DiskInv, Next
  PROVE  DiskInv'
<1>1. TypeInv'
  BY StepType DEF DiskInv
<1>2. PICK p \in Process :
        \/ \E f \in BOOLEAN : Start(p, f)
        \/ UpdateCache(p) \/ CloneCache(p) \/ GitFails(p)
        \/ FetchManifest(p) \/ FetchPackage(p) \/ WriteLock(p) \/ Crash(p)
  BY DEF Next
<1>3. StoreHolds'
  <2>1. CASE store' = store
    BY <2>1 DEF DiskInv, StoreHolds
  <2>2. ASSUME pc[p] \in Fetching, NEW v \in {Absent, Partial, Content(Cur(p))},
               store' = [store EXCEPT ![storeDir(Cur(p))] = v]
        PROVE  StoreHolds'
    <3>1. Cur(p) \in Deps
      BY <2>2, Current DEF DiskInv, TypeInv
    <3>2. ASSUME NEW d \in Deps PROVE store'[storeDir(d)] \in {Absent, Partial, Content(d)}
      <4>1. store[storeDir(d)] \in {Absent, Partial, Content(d)}
        BY <3>2 DEF DiskInv, StoreHolds
      <4>2. storeDir(d) \in DOMAIN store
        BY <3>2 DEF DiskInv, TypeInv, TypeOK
      <4>3. CASE storeDir(d) = storeDir(Cur(p))
        <5>1. Content(d) = Content(Cur(p))
          BY <3>1, <3>2, <4>3 DEF NoCollision
        <5> QED
          BY <2>2, <4>2, <4>3, <5>1
      <4>4. CASE storeDir(d) # storeDir(Cur(p))
        BY <2>2, <4>1, <4>2, <4>4
      <4> QED
        BY <4>3, <4>4
    <3> QED
      BY <3>2 DEF StoreHolds, storeDir, Content, Absent, Partial
  <2>3. CASE Wipe(p)
    BY <2>1, <2>2, <2>3 DEF Wipe, Goto, Fetching
  <2>4. CASE CreateDir(p)
    BY <2>2, <2>4 DEF CreateDir, Goto, Fetching
  <2>5. CASE Checkout(p)
    BY <2>2, <2>5 DEF Checkout, Fetching
  <2>6. CASE Crash(p)
    BY <2>1, <2>2, <2>6 DEF Crash, Fetching
  <2>7. CASE \E f \in BOOLEAN : Start(p, f)
    BY <2>1, <2>7 DEF Start, disk
  <2>8. CASE UpdateCache(p) \/ CloneCache(p) \/ GitFails(p)
    BY <2>1, <2>8 DEF UpdateCache, CloneCache, GitFails, Fail, disk
  <2>9. CASE FetchManifest(p)
    BY <2>1, <2>9 DEF FetchManifest, Show, WriteTmp, Parse, ParseFails, RemoveTmp, Fail, disk
  <2>10. CASE Reuse(p)
    BY <2>1, <2>10 DEF Reuse, disk
  <2>11. CASE WriteLock(p)
    BY <2>1, <2>11 DEF WriteLock, Truncate, WriteEntry
  <2> QED
    BY <1>2, <2>3, <2>4, <2>5, <2>6, <2>7, <2>8, <2>9, <2>10, <2>11 DEF FetchPackage
<1>4. LockHolds'
  <2>1. CASE lock' = lock
    BY <2>1 DEF DiskInv, LockHolds
  <2>2. CASE Truncate(p)
    <3>1. lock' = [lock EXCEPT ![p] = << >>]
      BY <2>2 DEF Truncate
    <3>2. DOMAIN lock = Process
      BY DEF DiskInv, TypeInv, TypeOK
    <3> QED
      BY <3>1, <3>2 DEF DiskInv, LockHolds
  <2>3. CASE WriteEntry(p)
    <3> DEFINE n == Len(lock[p]) + 1
    <3>1. lock[p] \in Seq(Deps) /\ Len(lock[p]) < Len(Project[p])
      BY <2>3 DEF DiskInv, TypeInv, LockPrefix, WriteEntry
    <3>2. n \in DOMAIN Project[p] /\ Project[p][n] \in Deps
      <4>1. Len(lock[p]) \in Nat
        BY <3>1
      <4> QED
        BY <3>1, <4>1, Entries
    <3>3. lock' = [lock EXCEPT ![p] = Append(lock[p], Project[p][n])]
      BY <2>3 DEF WriteEntry
    <3>4. DOMAIN lock = Process
      BY DEF DiskInv, TypeInv, TypeOK
    <3>5. /\ DOMAIN Append(lock[p], Project[p][n]) = DOMAIN lock[p] \cup {n}
          /\ Append(lock[p], Project[p][n])[n] = Project[p][n]
          /\ \A k \in DOMAIN lock[p] : Append(lock[p], Project[p][n])[k] = lock[p][k]
      BY <3>1, <3>2
    <3>6. lock[p] # NULL => \A k \in DOMAIN lock[p] : \E l \in DOMAIN Project[p] : lock[p][k] = Project[p][l]
      BY DEF DiskInv, LockHolds
    <3>7. \A k \in DOMAIN lock[p] : \E l \in DOMAIN Project[p] : lock[p][k] = Project[p][l]
      BY <2>3, <3>1, <3>2 DEF DiskInv, TypeInv, LockPrefix, WriteEntry
    <3> HIDE DEF n
    <3>8. \A k \in DOMAIN lock'[p] : \E l \in DOMAIN Project[p] : lock'[p][k] = Project[p][l]
      BY <3>2, <3>3, <3>4, <3>5, <3>7
    <3>9. \A q \in Process \ {p} : lock'[q] = lock[q]
      BY <3>3, <3>4
    <3> QED
      BY <3>8, <3>9 DEF DiskInv, LockHolds
  <2>4. CASE \E f \in BOOLEAN : Start(p, f)
    BY <2>1, <2>4 DEF Start, disk
  <2>5. CASE UpdateCache(p) \/ CloneCache(p) \/ GitFails(p)
    BY <2>1, <2>5 DEF UpdateCache, CloneCache, GitFails, Fail, disk
  <2>6. CASE FetchManifest(p)
    BY <2>1, <2>6 DEF FetchManifest, Show, WriteTmp, Parse, ParseFails, RemoveTmp, Fail, disk
  <2>7. CASE FetchPackage(p)
    BY <2>1, <2>7 DEF FetchPackage, Wipe, Reuse, CreateDir, Checkout, disk
  <2>8. CASE Crash(p)
    BY <2>1, <2>8 DEF Crash
  <2> QED
    BY <1>2, <2>2, <2>3, <2>4, <2>5, <2>6, <2>7, <2>8 DEF WriteLock
<1> QED
  BY <1>1, <1>3, <1>4 DEF DiskInv

(* The aliases that are registered are those of packages of the project.   *)
LEMMA RegisteredEntries ==
  ASSUME DiskInv, OnDisk, Readable, lockfile # Nothing
  PROVE  \A m \in DOMAIN Registered(lockfile) :
           \E d \in Deps : IsEntry(m, d) /\ Registered(lockfile)[m] = storeDir(d)
<1> DEFINE R == Registered(lockfile)
<1> TAKE m \in DOMAIN R
<1>1. IsPackage(m, R[m])
  BY PackageIs DEF Readable
<1> HIDE DEF R
<1>2. PICK k \in DOMAIN lockfile : lockfile[k].alias = m /\ lockfile[k].dir = R[m]
  BY <1>1 DEF IsPackage
<1>3. /\ lock[Builder] # NULL
      /\ lockfile = [n \in DOMAIN lock[Builder] |->
           [alias |-> lock[Builder][n].alias, dir |-> storeDir(lock[Builder][n])]]
  BY DEF OnDisk, StoreLock
<1>4. PICK l \in DOMAIN Project[Builder] : lock[Builder][k] = Project[Builder][l]
  BY <1>2, <1>3, WorkspaceAssumption DEF DiskInv, LockHolds
<1>5. Project[Builder][l] \in Deps
  BY BuilderEntries
<1>6. Project[Builder][l].alias = m /\ R[m] = storeDir(Project[Builder][l])
  BY <1>2, <1>3, <1>4
<1> QED
  BY <1>5, <1>6 DEF IsEntry, R

(* A module that is loaded is the checkout of a package of the project.    *)
LEMMA PlaceIsPackage ==
  ASSUME DiskInv, OnDisk, AliasesHold, at # Nothing, NEW m, Found(m) # {}
  PROVE  \E d \in Deps : IsEntry(m, d) /\ files[Place(m)][m] = Tree[Content(d)][m]
<1> DEFINE C == Candidates(m)
           S == Found(m)
           q == CHOOSE k \in S : \A l \in S : k <= l
<1>1. SearchPath \in Seq(ToSet(SearchPath))
  BY LoaderAssumption
<1>2. DOMAIN C \subseteq Nat /\ \A k \in DOMAIN C :
        \/ m \in DOMAIN aliases /\ C[k] = aliases[m]
        \/ C[k] = InputDir
        \/ \E l \in DOMAIN SearchPath : C[k] = SearchPath[l]
  <2> DEFINE w == Len(SearchPath)
  <2>1. w \in Nat /\ DOMAIN SearchPath = 1 .. w
    BY <1>1
  <2>2. CASE m \in DOMAIN aliases
    <3>1. C = <<aliases[m]>> \o <<InputDir>> \o SearchPath
      BY <2>2 DEF Candidates
    <3>2. /\ DOMAIN C = 1 .. w + 2 /\ C[1] = aliases[m] /\ C[2] = InputDir
          /\ \A k \in 3 .. w + 2 : C[k] = SearchPath[k - 2] /\ k - 2 \in 1 .. w
      BY <1>1, <2>1, <3>1
    <3> HIDE DEF C, w
    <3>3. \A k \in 1 .. w + 2 : k = 1 \/ k = 2 \/ k \in 3 .. w + 2
      BY <2>1
    <3> QED
      BY <2>1, <2>2, <3>2, <3>3
  <2>3. CASE m \notin DOMAIN aliases
    <3>1. C = << >> \o <<InputDir>> \o SearchPath
      BY <2>3 DEF Candidates
    <3>2. /\ DOMAIN C = 1 .. w + 1 /\ C[1] = InputDir
          /\ \A k \in 2 .. w + 1 : C[k] = SearchPath[k - 1] /\ k - 1 \in 1 .. w
      BY <1>1, <2>1, <3>1
    <3> HIDE DEF C, w
    <3>3. \A k \in 1 .. w + 1 : k = 1 \/ k \in 2 .. w + 1
      BY <2>1
    <3> QED
      BY <2>1, <3>2, <3>3
  <2> QED
    BY <2>2, <2>3
<1> HIDE DEF C
<1>3. S \subseteq DOMAIN C /\ \A k \in S : Has(C[k], m)
  BY DEF Found, C
<1>4. \E k \in S : \A l \in S : k <= l
  BY <1>2, <1>3, LeastElement
<1>5. q \in S
  BY <1>4
<1>6. Place(m) = C[q]
  BY DEF Place, C
<1> HIDE DEF q, S
<1>7. Has(C[q], m)
  BY <1>3, <1>5
<1>8. C[q] \in DOMAIN store /\ store[C[q]] # Absent
      /\ files[C[q]] = IF store[C[q]] = Partial THEN << >> ELSE Tree[store[C[q]]]
  BY <1>7 DEF Has, OnDisk, StoreDirs
<1>9. PICK e \in Deps : C[q] = storeDir(e)
  BY <1>8 DEF DiskInv, TypeInv, TypeOK
<1>10. m \in DOMAIN aliases /\ C[q] = aliases[m]
  BY <1>2, <1>3, <1>5, <1>9, WorkspaceAssumption
<1>11. PICK d \in Deps : IsEntry(m, d) /\ aliases[m] = storeDir(d)
  BY <1>10 DEF AliasesHold
<1>12. store[C[q]] \in {Absent, Partial, Content(d)}
  BY <1>10, <1>11 DEF DiskInv, StoreHolds
<1>13. store[C[q]] # Partial
  <2>1. m \in DOMAIN files[C[q]]
    BY <1>7 DEF Has
  <2>2. DOMAIN << >> = {}
    OBVIOUS
  <2> QED
    BY <1>8, <2>1, <2>2
<1> QED
  BY <1>6, <1>8, <1>11, <1>12, <1>13

LEMMA InitBuild == WorkspaceInit => BuildInv
<1> SUFFICES ASSUME WorkspaceInit PROVE BuildInv
  OBVIOUS
<1>1. Nothing # "built" /\ LoaderInv /\ DiskInv
  BY LoaderAssumption, InitLoader, InitDisk DEF WorkspaceInit, Results
<1>2. OnDisk /\ AliasesHold /\ LoadedHold
  BY <1>1 DEF WorkspaceInit, LoaderInit, OnDisk, AliasesHold, LoadedHold, Compiled
<1> QED
  BY <1>1, <1>2 DEF BuildInv

LEMMA InstallsKeep ==
  ASSUME NoCollision, BuildInv, Installs
  PROVE  BuildInv'
<1>1. DiskInv' /\ LoaderInv'
  BY DiskStep, FilesChangeInv DEF BuildInv, Installs
<1>2. OnDisk'
  BY DEF Installs, OnDisk
<1>3. UNCHANGED <<at, aliases, loaded, result>>
  BY DEF Installs, FilesChange, compileVars
<1>4. AliasesHold' /\ LoadedHold'
  BY <1>3 DEF BuildInv, AliasesHold, LoadedHold, Compiled
<1> QED
  BY <1>1, <1>2, <1>4 DEF BuildInv

LEMMA BuildsKeep ==
  ASSUME BuildInv, Builds
  PROVE  BuildInv'
<1>0. Nothing \notin Nat /\ Nothing \notin Results /\ SameFiles
  BY LoaderAssumption DEF Builds, SameFiles
<1>1. UNCHANGED <<cache, tmp, store, lock, pc, i, force, shown, parsed, faults>>
  BY DEF Builds, vars
<1>2. DiskInv'
  <2>1. TypeInv'
    BY <1>1, StepType DEF BuildInv, DiskInv, vars
  <2> QED
    BY <1>1, <2>1 DEF BuildInv, DiskInv, LockHolds, StoreHolds
<1>3. OnDisk'
  BY <1>1 DEF BuildInv, OnDisk, StoreDirs, StoreLock, Builds
<1>4. LoaderInv'
  BY LoaderStep DEF BuildInv, Builds, LoaderNext
<1>5. AliasesHold' /\ LoadedHold'
  <2>1. CASE Begin
    <3>1. aliases' = << >> \/ (lockfile # Nothing /\ aliases' = Registered(lockfile))
      BY <2>1 DEF Begin
    <3>2. loaded' = << >>
      BY <2>1 DEF Begin
    <3>3. \A m \in DOMAIN aliases' : \E d \in Deps : IsEntry(m, d) /\ aliases'[m] = storeDir(d)
      BY <3>1, RegisteredEntries DEF BuildInv, LoaderInv, Progress
    <3> QED
      BY <3>2, <3>3 DEF AliasesHold, LoadedHold, IsEntry, storeDir
  <2>2. CASE UNCHANGED <<aliases, loaded>> /\ at # Nothing
    BY <2>2 DEF BuildInv, AliasesHold, LoadedHold, Compiled
  <2>3. ASSUME NEW m, Loads(m), loaded' = Cached(m), at # Nothing, aliases' = aliases
        PROVE  AliasesHold' /\ LoadedHold'
    <3>1. /\ DOMAIN loaded' = DOMAIN loaded \cup {m}
          /\ \A n \in DOMAIN loaded : loaded'[n] = loaded[n]
          /\ m \notin DOMAIN loaded => loaded'[m].file = files[Place(m)][m] /\ Found(m) # {}
      BY <2>3 DEF Cached, Entry, Loads
    <3>2. m \notin DOMAIN loaded =>
            \E d \in Deps : IsEntry(m, d) /\ loaded'[m].file = Tree[Content(d)][m]
      BY <2>3, <3>1, PlaceIsPackage DEF BuildInv
    <3>3. \A n \in DOMAIN loaded : \E d \in Deps : IsEntry(n, d) /\ loaded[n].file = Tree[Content(d)][n]
      BY <2>3 DEF BuildInv, LoadedHold, Compiled
    <3>4. \A n \in DOMAIN loaded' : \E d \in Deps : IsEntry(n, d) /\ loaded'[n].file = Tree[Content(d)][n]
      BY <3>1, <3>2, <3>3
    <3> QED
      BY <2>3, <3>4 DEF BuildInv, AliasesHold, LoadedHold
  <2>4. CASE ImportBuiltin \/ CallName \/ CallMember \/ ImportFails \/ Link
    <3>1. at # Nothing
      BY <2>4 DEF ImportBuiltin, CallName, CallMember, ImportFails, Link, Is, Running
    <3>2. UNCHANGED <<aliases, loaded>>
      BY <2>4 DEF ImportBuiltin, CallName, CallMember, ImportFails, Link, Becomes, Abort, compileVars
    <3> QED
      BY <2>2, <3>1, <3>2
  <2>5. CASE Import
    BY <2>3, <2>5 DEF Import, Is, Running, Becomes
  <2>6. CASE FromImport
    <3>1. Loads(Stmt.module) /\ at # Nothing
      BY <2>6 DEF FromImport, Is, Running
    <3>2. CASE loaded' = Cached(Stmt.module) /\ aliases' = aliases
      BY <2>3, <3>1, <3>2
    <3>3. CASE UNCHANGED <<aliases, loaded>>
      BY <2>2, <3>1, <3>3
    <3> QED
      BY <2>6, <3>2, <3>3 DEF FromImport, Becomes, Abort, compileVars
  <2> QED
    BY <2>1, <2>4, <2>5, <2>6 DEF Builds, Compile
<1> QED
  BY <1>2, <1>3, <1>4, <1>5 DEF BuildInv

LEMMA BuildStep == NoCollision /\ BuildInv /\ [WorkspaceNext]_<<vars, loaderVars>> => BuildInv'
<1> SUFFICES ASSUME NoCollision, BuildInv, [WorkspaceNext]_<<vars, loaderVars>> PROVE BuildInv'
  OBVIOUS
<1>1. CASE UNCHANGED <<vars, loaderVars>>
  <2>1. UNCHANGED <<store, lock, files, lockfile, at, aliases, loaded, result>>
    BY <1>1 DEF vars, loaderVars, compileVars
  <2>2. LoaderInv'
    BY <1>1, LoaderStutter DEF BuildInv
  <2>3. TypeInv'
    BY <1>1, StepType DEF BuildInv, DiskInv
  <2> QED
    BY <2>1, <2>2, <2>3
    DEF BuildInv, DiskInv, LockHolds, StoreHolds, OnDisk, StoreDirs, StoreLock, AliasesHold, LoadedHold, Compiled
<1> QED
  BY <1>1, InstallsKeep, BuildsKeep DEF WorkspaceNext

(* install next to a build: whatever vslpkg installs, replaces or forgets  *)
(* for any project while the compiler runs, and wherever either is         *)
(* interrupted, the modules of a program that was built are, for every     *)
(* package of its project, exactly those of the version that the project   *)
(* requires.                                                               *)
THEOREM BuildsAreLocked ==
  ASSUME NoCollision, OneAlias
  PROVE  WorkspaceSpec => []BuildsUseLockedSources
<1>1. BuildInv => BuildsUseLockedSources
  <2> SUFFICES ASSUME BuildInv, result = "built", NEW n \in DOMAIN Project[Builder],
                      Project[Builder][n].alias \in DOMAIN loaded
               PROVE  LET d == Project[Builder][n] IN loaded[d.alias].file = Tree[Content(d)][d.alias]
    BY DEF BuildsUseLockedSources
  <2>1. PICK d \in Deps : /\ IsEntry(Project[Builder][n].alias, d)
                          /\ loaded[Project[Builder][n].alias].file = Tree[Content(d)][Project[Builder][n].alias]
    BY DEF BuildInv, LoadedHold, Compiled
  <2>2. d = Project[Builder][n]
    BY <2>1 DEF IsEntry, OneAlias
  <2> QED
    BY <2>1, <2>2
<1> QED
  BY InitBuild, BuildStep, <1>1, PTL DEF WorkspaceSpec

(* The composition adds nothing to the compiler: a build next to installs  *)
(* is a compilation of files that change, so what is proved of ModuleLoader*)
(* holds of it.                                                            *)
THEOREM BuildsAreCompilations == WorkspaceSpec => LoaderSpec
<1>1. WorkspaceInit => LoaderInit
  BY DEF WorkspaceInit
<1>2. [WorkspaceNext]_<<vars, loaderVars>> => [LoaderNext]_loaderVars
  BY DEF WorkspaceNext, Installs, Builds, LoaderNext
<1> QED
  BY <1>1, <1>2, PTL DEF WorkspaceSpec, LoaderSpec
=============================================================================
