-------------------------- MODULE PackageResolver --------------------------
(***************************************************************************)
(* resolveDeps of src/vsl_resolver.cpp: minimal version selection over the *)
(* manifests of a package universe.  Dependencies are kept in unordered    *)
(* maps, so they are enqueued in any order.                                *)
(*                                                                         *)
(* A manifest is [name, deps]; a dependency is [alias, url, version]; a    *)
(* version is <<major, minor>> (patch levels compare like minor ones) or   *)
(* BadVersion, a string parseSemver rejects.  Path dependencies are not    *)
(* resolved and left out here.                                             *)
(***************************************************************************)
EXTENDS Integers, Sequences, FiniteSets, SequencesExt, TLC

CONSTANTS
  Universes,   \* worlds: [root: deps, pkg: <<url, version>> -> manifest]
  BadVersion,
  Pending

(* What the instances assume of the constants. *)
Versions == (Nat \X Nat) \cup {BadVersion}
Outcomes == {"lock", "semver", "major", "fetch", "alias"}
Manifest(D) == IsFiniteSet(D) /\ \A d \in D : d.version \in Versions
ASSUME ResolverAssumption ==
  /\ BadVersion \notin Nat \X Nat /\ Pending \notin Outcomes
  /\ \A w \in Universes :
       /\ Manifest(w.root) /\ IsFiniteSet(DOMAIN w.pkg)
       /\ \A x \in DOMAIN w.pkg : Manifest(w.pkg[x].deps)

VARIABLES
  world,     \* the root manifest and what fetcher(url, version) returns
  queue,     \* work items [url, version]
  resolved,  \* resolvedVersion: a function on the urls seen
  alias,     \* urlToAlias
  seen,      \* seenUrlVersion
  outcome    \* Pending, "lock" or the kind of PackageError thrown

resolverVars == <<world, queue, resolved, alias, seen, outcome>>

rootAliases == {d.alias : d \in world.root}

(* d dependencies in some order *)
Orders(D) == {s \in [1 .. Cardinality(D) -> D] : ToSet(s) = D}

Item(d) == [url |-> d.url, version |-> d.version]
Items(s) == [i \in DOMAIN s |-> Item(s[i])]

(* urlToAlias[gd.url] = alias, for each dependency of the root in turn. *)
AliasRoot(s) ==
  [u \in {d.url : d \in ToSet(s)} |->
     s[CHOOSE i \in DOMAIN s : s[i].url = u /\ \A j \in i + 1 .. Len(s) : s[j].url # u].alias]

ResolverInit ==
  /\ world \in Universes
  /\ \E s \in Orders(world.root) : queue = Items(s) /\ alias = AliasRoot(s)
  /\ resolved = << >> /\ seen = {} /\ outcome = Pending

Greater(v, w) == v[1] > w[1] \/ (v[1] = w[1] /\ v[2] > w[2])

Throw(kind) ==
  /\ outcome' = kind
  /\ UNCHANGED <<world, queue, resolved, alias, seen>>

(* Mutant: the requirement met last wins. *)
MergedLast(u, v) == (u :> v) @@ resolved

(* resolvedVersion[url] after a requirement of version v has been merged.  *)
Merged(u, v) ==
  IF u \in DOMAIN resolved /\ ~Greater(v, resolved[u]) THEN resolved
  ELSE [x \in DOMAIN resolved \cup {u} |-> IF x = u THEN v ELSE resolved[x]]

BadMerge(u, v) == u \in DOMAIN resolved /\ BadVersion \in {resolved[u], v}
(* Mutant: only a newer major version conflicts. *)
NewerMajor(u, v) ==
  u \in DOMAIN resolved /\ ~BadMerge(u, v) /\ v[1] > resolved[u][1]

MajorConflict(u, v) ==
  u \in DOMAIN resolved /\ ~BadMerge(u, v) /\ resolved[u][1] # v[1]

Popped == outcome = Pending /\ queue # << >>
Top == Head(queue)

InvalidSemver ==
  Popped /\ BadMerge(Top.url, Top.version) /\ Throw("semver")

IncompatibleMajor ==
  Popped /\ MajorConflict(Top.url, Top.version) /\ Throw("major")

Mergeable ==
  Popped /\ ~BadMerge(Top.url, Top.version) /\ ~MajorConflict(Top.url, Top.version)

(* Mutant: the item is popped at the end of the loop, past the continue. *)
SkipWithoutPop ==
  /\ Mergeable /\ Top \in seen
  /\ resolved' = Merged(Top.url, Top.version)
  /\ UNCHANGED <<world, queue, alias, seen, outcome>>

(* The same (url, version) was fetched before. *)
SkipSeen ==
  /\ Mergeable /\ Top \in seen
  /\ queue' = Tail(queue)
  /\ resolved' = Merged(Top.url, Top.version)
  /\ UNCHANGED <<world, alias, seen, outcome>>

(* fetcher threw: no such tag, no manifest, network. *)
FetchFails ==
  /\ Mergeable /\ Top \notin seen
  /\ <<Top.url, Top.version>> \notin DOMAIN world.pkg
  /\ Throw("fetch")

(* A dependency without alias is checked by the name of the package that   *)
(* requires it and entered under the key it has in that package.           *)
AliasTrans(s) ==
  [u \in DOMAIN alias \cup {d.url : d \in ToSet(s)} |->
     IF u \in DOMAIN alias THEN alias[u]
     ELSE s[CHOOSE i \in DOMAIN s : s[i].url = u /\ \A j \in 1 .. i - 1 : s[j].url # u].alias]

Fetched ==
  /\ Mergeable /\ Top \notin seen
  /\ <<Top.url, Top.version>> \in DOMAIN world.pkg
TopManifest == world.pkg[<<Top.url, Top.version>>]

ClashesWithRoot(m) ==
  m.name \in rootAliases /\ \E d \in m.deps : d.url \notin DOMAIN alias

AliasConflict ==
  Fetched /\ ClashesWithRoot(TopManifest) /\ Throw("alias")

Fetch ==
  /\ Fetched /\ ~ClashesWithRoot(TopManifest)
  /\ \E s \in Orders(TopManifest.deps) :
       queue' = Tail(queue) \o Items(s) /\ alias' = AliasTrans(s)
  /\ resolved' = Merged(Top.url, Top.version)
  /\ seen' = seen \cup {Top}
  /\ UNCHANGED <<world, outcome>>

(* The lock is built: one entry per url. *)
BuildLock ==
  /\ outcome = Pending /\ queue = << >>
  /\ Throw("lock")

Step ==
  \/ InvalidSemver \/ IncompatibleMajor \/ SkipSeen \/ FetchFails
  \/ AliasConflict \/ Fetch \/ BuildLock

ResolverSpec == ResolverInit /\ [][Step]_resolverVars /\ WF_resolverVars(Step)

-----------------------------------------------------------------------------
(***************************************************************************)
(* The reference: the requirements reachable from the root.                *)
(***************************************************************************)
Direct(D) == {<<d.url, d.version>> : d \in D}
DepsOf(S) == UNION {Direct(world.pkg[x].deps) : x \in S \cap DOMAIN world.pkg}
Required ==
  LET R[n \in 0 .. Cardinality(DOMAIN world.pkg) + 1] ==
        IF n = 0 THEN Direct(world.root) ELSE R[n - 1] \cup DepsOf(R[n - 1])
  IN  R[Cardinality(DOMAIN world.pkg) + 1]

(* Every variable keeps to its type, and a resolved url has an alias, which*)
(* building the lock looks up.                                             *)
ResolverTypeOK ==
  /\ DOMAIN resolved \subseteq DOMAIN alias
  /\ \A u \in DOMAIN resolved : resolved[u] \in Versions
  /\ outcome \in Outcomes \cup {Pending}

(* The lock holds every package that is required, directly or not, at the  *)
(* highest version required of it, in whatever order the requirements were *)
(* met, and superseded versions do not hide requirements; and every url in *)
(* it has an alias to be listed under.                                     *)
LockIsMaxOfMinimums ==
  /\ ResolverTypeOK
  /\ outcome = "lock" =>
    /\ DOMAIN resolved = {r[1] : r \in Required}
    /\ \A r \in Required : r[2] # resolved[r[1]] =>
         Greater(resolved[r[1]], r[2])
    /\ \A u \in DOMAIN resolved : <<u, resolved[u]>> \in Required

(* Two major versions of one package never pass, wherever in the graph     *)
(* they are required; and the conflict is only reported when it exists.    *)
MajorsAgree ==
  LET clash == \E r, s \in Required :
                 r[1] = s[1] /\ BadVersion \notin {r[2], s[2]} /\ r[2][1] # s[2][1] IN
  /\ outcome = "lock" => ~clash
  /\ outcome = "major" => clash

(* Resolution ends, also when packages require each other in a cycle. *)
ResolutionEnds == <>(outcome # Pending)
=============================================================================
