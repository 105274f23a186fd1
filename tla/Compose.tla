------------------------------- MODULE Compose -------------------------------
(***************************************************************************)
(* peipkg-compose: a manifest is resolved to a lock, the locked packages   *)
(* are fetched and verified, and a whole image (an anchor root and the     *)
(* named roots nested in it) is assembled in a staging directory that one  *)
(* rename makes the output.                                                *)
(*                                                                         *)
(* Several builds may run beside each other.  Nothing serialises them:     *)
(* they share the lock file of their manifest and, when they are given the *)
(* same output path, the staging directory.  Meanwhile the operator edits  *)
(* the manifest, the repository publishes and revokes keys, and files of   *)
(* the local pool are rebuilt.  A build may fail or be killed at any step; *)
(* what it wrote stays.                                                    *)
(*                                                                         *)
(* Abstracted: a package file is its manifest and payload, and its hash is *)
(* the file itself; a digest of a manifest is the manifest.  A path is a   *)
(* sequence of names, so that a root's path and a payload path join.  Of   *)
(* the resolver, a closure takes the best candidate of each name;          *)
(* Resolver models the rest.  Directories, modes, times and extended       *)
(* attributes are left out.                                                *)
(***************************************************************************)
EXTENDS Naturals, Sequences, FiniteSets

CONSTANTS Process,
          OutDir,     \* [Process -> the output path it is given]
          Manifest,   \* the manifests the operator writes, in order
          RootOrder,  \* the roots, in the order of their paths
          NameOrder,  \* package names, in order
          Listed,     \* what the repository lists at first
          Pool,       \* the files of the local pool at first
          Change,     \* what happens to the sources meanwhile
          Mode,       \* flags of a run: [verb, noDeps, bypass]
          Key,        \* the repository's signing keys
          None, LocalSource,
          MaxRuns     \* bound: the runs started

Files == Listed \cup Pool \cup {c.of : c \in {d \in Change : d.kind # "revoke"}}
PathName == Seq(STRING)
PackageField == {"name", "version", "arch", "url", "needs", "paths", "claims", "signer",
                 "default", "special"}

(* What LoadManifest sees to (requests, relative root paths), and the      *)
(* shape of a package file.                                                *)
ASSUME ComposeAssumption ==
  /\ OutDir \in [Process -> {OutDir[p] : p \in Process}]
  /\ RootOrder[1] = <<>> /\ MaxRuns \in Nat
  /\ Len(RootOrder) \in Nat /\ Len(NameOrder) \in Nat /\ DOMAIN NameOrder \subseteq 1 .. Len(NameOrder)
  /\ \A a \in Listed : a.url[1] # LocalSource
  /\ \A a \in Pool : a.url[1] = LocalSource
  /\ \A c \in Change : c.kind = "revoke" => c.key \in Key
  /\ 1 \in DOMAIN Manifest /\ DOMAIN Manifest = 1 .. Len(Manifest) /\ Len(Manifest) \in Nat
  /\ \A i \in DOMAIN Manifest :
       /\ Manifest[i].packages # {}
       /\ \A r \in DOMAIN Manifest[i].roots : Manifest[i].roots[r] \in PathName
  /\ IsFiniteSet(Files)
  /\ \A a \in Files :
       /\ PackageField \subseteq DOMAIN a /\ a.version \in Nat /\ a.paths \subseteq PathName
       /\ \E i \in DOMAIN NameOrder : NameOrder[i] = a.name
       /\ \A role \in DOMAIN a.claims : a.claims[role] \in PathName

VARIABLES edits,    \* the manifest is Manifest[edits]
          listed,   \* the repository's archive index
          store,    \* [URL or pool path -> the package file there, or None]
          revoked,  \* keys the repository has revoked
          pending,  \* changes to the sources still to come
          lockFile, \* None, or what it reads as: Unreadable or a lock
          written,  \* the locks written to it since it was last truncated
          staging,  \* [output path -> the tree being assembled]
          out,      \* [output path -> the finished image, or None]
          job,      \* [Process -> what it is doing]
          runs

sources == <<listed, store, revoked, pending>>
lockText == <<lockFile, written>>
vars == <<edits, sources, lockText, staging, out, job, runs>>

Anchor == <<>>
Before(a, b, order) == \E i, j \in DOMAIN order : i < j /\ order[i] = a /\ order[j] = b
identityOf(a) == <<a.name, a.version, a.arch>>

-----------------------------------------------------------------------------
(* Resolution.                                                             *)

(* Constraint.MayNeedHistoricalVersions: not only a lower bound.           *)
MayNeedHistoricalVersions(c) == \E v \in c.allowed : \E w \in c.known \ c.allowed : w > v

Active(index) == {a \in index : \A b \in index : b.name = a.name => b.version <= a.version}
localCandidates(m) == {store[u] : u \in {v \in DOMAIN store : v \in m.locals /\ store[v] # None}}
needArchive(m) ==
  \/ \E r \in m.packages : MayNeedHistoricalVersions(r.constraint)
  \/ \E a \in Active(listed) \cup localCandidates(m) :
       \E d \in a.needs : MayNeedHistoricalVersions(d.constraint)

sourcesDigest(m) == <<m.locals>>

(* ScanSources: an archive index that cannot be fetched is left out.       *)
ScanSources(m, reached) ==
  [digest |-> sourcesDigest(m), archive |-> needArchive(m),
   candidates |-> localCandidates(m)
     \cup (IF needArchive(m) /\ reached THEN listed ELSE Active(listed)),
   trust |-> Key \ revoked]

matchesPin(r, c) ==
  c.version \in r.constraint.allowed /\ (r.repository = None \/ c.url[1] = r.repository)

(* A candidate survives if it satisfies any pin on its name.               *)
applyManifestPins(candidates, m) ==
  {c \in candidates : LET pins == {r \in m.packages : r.name = c.name}
                      IN pins = {} \/ \E r \in pins : matchesPin(r, c)}
Unsatisfiable(candidates, m) ==
  \E r \in m.packages :
    /\ \E c \in candidates : c.name = r.name
    /\ ~\E c \in candidates : c.name = r.name /\ matchesPin(r, c)

(* A local file outranks every repository's; then the newest.              *)
Preferred(c, d) ==
  IF (c.url[1] = LocalSource) # (d.url[1] = LocalSource) THEN c.url[1] = LocalSource
  ELSE c.version >= d.version
Suiting(name, constraint, candidates) ==
  {c \in candidates : c.name = name /\ c.version \in constraint.allowed}
Best(fits) == CHOOSE c \in fits : \A d \in fits : Preferred(c, d)

Declared(m) == {m.roots[r] : r \in DOMAIN m.roots}

(* packageRootKey: an explicit root, or the package's own, or the anchor;  *)
(* RootsKnown is its error.                                                *)
packageRootKey(r, m, candidates) ==
  LET dr == (CHOOSE c \in candidates : c.name = r.name).default
      named == IF r.root # None THEN r.root ELSE dr
  IN IF named \in DOMAIN m.roots THEN m.roots[named] ELSE Anchor
RootsKnown(m, candidates) ==
  \A r \in m.packages : \A c \in candidates :
    c.name = r.name /\ r.root = None => c.default \in DOMAIN m.roots \cup {None}

(* A dependency without a root of its own goes where its dependent is.     *)
Place(d, root, m) == IF d.root \in DOMAIN m.roots THEN m.roots[d.root] ELSE root

asked(m, candidates) ==
  {[root |-> packageRootKey(r, m, candidates), of |-> Best({c \in candidates : c.name = r.name})]
     : r \in m.packages}
Brought(x, m, candidates) ==
  {[root |-> Place(d, x.root, m), of |-> Best(Suiting(d.name, d.constraint, candidates))]
     : d \in {e \in x.of.needs : Suiting(e.name, e.constraint, candidates) # {}}}
Grow(S, m, candidates) == S \cup UNION {Brought(x, m, candidates) : x \in S}

(* ResolveMultiRoot from nothing: the requests, and what they depend on.   *)
(* A name is in a root once, so that this many rounds reach the end.       *)
Rounds == Len(RootOrder) * Len(NameOrder)
Closures(m, candidates) ==
  LET grown[n \in 0 .. Rounds] ==
        IF n = 0 THEN asked(m, candidates) ELSE Grow(grown[n - 1], m, candidates)
  IN grown
Closure(m, candidates) == Closures(m, candidates)[Rounds]

(* checkConsistency: whatever was chosen, every dependency is met by it.   *)
Consistent(S, m) ==
  /\ \A x, y \in S : x.root = y.root /\ x.of.name = y.of.name => x = y
  /\ \A x \in S : \A d \in x.of.needs :
       /\ d.root \in DOMAIN m.roots \cup {None}
       /\ \E y \in S : /\ y.root = Place(d, x.root, m) /\ y.of.name = d.name
                       /\ y.of.version \in d.constraint.allowed

Resolvable(m, candidates) ==
  /\ \A r \in m.packages : \E c \in candidates : c.name = r.name
  /\ RootsKnown(m, candidates)
  /\ Consistent(Closure(m, candidates), m)

(* noDependencies: every candidate loses its dependencies, and nothing     *)
(* else: the file is the same one.                                         *)
stripped(candidates) == {[c EXCEPT !.needs = {}] : c \in candidates}

-----------------------------------------------------------------------------
(* The lock.                                                               *)

Unreadable == [intent |-> None, noDeps |-> FALSE, trust |-> {}, packages |-> {}, torn |-> TRUE]

(* The packages are written in the order of their roots and names.         *)
Earlier(e, f) ==
  Before(e.root, f.root, RootOrder) \/ (e.root = f.root /\ Before(e.name, f.name, NameOrder))

(* A chosen local file is read again, and must still be what the resolver  *)
(* chose; its hash is that of the bytes read now.                          *)
Hashed(c) == IF c.url[1] = LocalSource THEN store[c.url] ELSE c
verifyLocalPackage(c) ==
  c.url[1] = LocalSource => store[c.url] # None /\ identityOf(store[c.url]) = identityOf(c)

LockedPackage(x, whole) ==
  [root |-> x.root, name |-> x.of.name, url |-> x.of.url,
   hash |-> Hashed(CHOOSE c \in whole : c.url = x.of.url /\ identityOf(c) = identityOf(x.of))]

NewLock(m, noDeps, scan, closure) ==
  [intent |-> m, noDeps |-> noDeps, trust |-> scan.trust, torn |-> FALSE,
   packages |-> {LockedPackage(x, scan.candidates) : x \in closure}]

(* The packages of a lock up to any of them: what a write that stops early *)
(* has written.                                                            *)
Beginnings(lock) ==
  {S \in SUBSET lock.packages : \A e \in S, f \in lock.packages \ S : Earlier(e, f)}

(* An entry ends with its root, a key that the anchor goes without: the    *)
(* last entry of a write may lose it, or take the one that follows.        *)
Rerooted(kept, places) ==
  {kept} \cup {(kept \ {e}) \cup {[e EXCEPT !.root = r]} :
                 e \in {x \in kept : \A y \in kept \ {x} : Earlier(y, x)}, r \in places}

(* What decodes when the packages kept of a lock went over the locks that  *)
(* others wrote since the file was truncated: with as much of these as     *)
(* their greater length leaves behind it, any of their entries here, and   *)
(* if no package was written perhaps the rest of their head.  That it is   *)
(* torn is nowhere in the file: it passes for what was resolved.           *)
Mixtures(lock, kept, under) ==
  LET entries == UNION {l.packages : l \in under}
      places == {Anchor} \cup {e.root : e \in entries}
      heads == {lock} \cup (IF kept = {} THEN under ELSE {})
      lists == {own \cup rest : own \in Rerooted(kept, places), rest \in SUBSET entries}
  IN {[intent |-> lock.intent, noDeps |-> h.noDeps, trust |-> t.trust, packages |-> list,
       torn |-> h # lock \/ t # lock \/ list # lock.packages] :
        h \in heads, t \in heads,
        list \in {S \in lists : /\ S # {}
                               /\ \A e, f \in S : e.root = f.root /\ e.name = f.name => e = f}}

(* Mutant: a lock is taken in either dependency mode.                      *)
X_ensureLockMode(lock, noDeps) == TRUE

ensureLockMatches(lock, m) == lock.intent = m
ensureLockMode(lock, noDeps) == lock.noDeps = noDeps

-----------------------------------------------------------------------------
(* Runs.                                                                   *)

Idle == [phase |-> "idle", mode |-> None, m |-> None, scan |-> None, lock |-> None,
         got |-> {}, roots |-> {}, root |-> Anchor, left |-> {}]
Blank == [made |-> {}, rows |-> {}, links |-> {}, registry |-> {}, files |-> {},
          inventory |-> {}, conf |-> FALSE]

Doing(p, phase) == job[p].phase = phase
Step(p, change) == job' = [job EXCEPT ![p] = change]
Goto(p, phase) == Step(p, [job[p] EXCEPT !.phase = phase])

(* LoadManifest, once.                                                     *)
Start(p, mode) ==
  /\ Doing(p, "idle") /\ runs < MaxRuns
  /\ runs' = runs + 1
  /\ Step(p, [Idle EXCEPT !.phase = "choose", !.mode = mode, !.m = Manifest[edits]])
  /\ UNCHANGED <<edits, sources, lockText, staging, out>>

(* chooseLock, when there is a lock to build from.                         *)
useLock(p) ==
  /\ Doing(p, "choose") /\ job[p].mode.verb \in {"locked", "build"}
  /\ lockFile \notin {None, Unreadable}
  /\ ensureLockMatches(lockFile, job[p].m) /\ ensureLockMode(lockFile, job[p].mode.noDeps)
  /\ Step(p, [job[p] EXCEPT !.phase = "fetch", !.lock = lockFile])
  /\ UNCHANGED <<edits, sources, lockText, staging, out, runs>>

scanSources(p) ==
  /\ Doing(p, "choose")
  /\ job[p].mode.verb \in {"lock", "update"} \/ (job[p].mode.verb = "build" /\ lockFile = None)
  /\ \E reached \in BOOLEAN :
       Step(p, [job[p] EXCEPT !.phase = "resolve", !.scan = ScanSources(job[p].m, reached)])
  /\ UNCHANGED <<edits, sources, lockText, staging, out, runs>>

(* resolve: pins, dependency mode, closure, then the hashes of the chosen  *)
(* local files as they are now.                                            *)
resolve(p) ==
  LET m == job[p].m
      noDeps == job[p].mode.noDeps
      pinned == applyManifestPins(job[p].scan.candidates, m)
      candidates == IF noDeps THEN stripped(pinned) ELSE pinned
  IN /\ Doing(p, "resolve")
     /\ ~Unsatisfiable(job[p].scan.candidates, m) /\ Resolvable(m, candidates)
     /\ LET closure == Closure(m, candidates)
        IN /\ \A x \in closure : verifyLocalPackage(x.of)
           /\ Step(p, [job[p] EXCEPT !.phase = "truncate", !.scan = None,
                                     !.lock = NewLock(m, noDeps, job[p].scan, closure)])
     /\ UNCHANGED <<edits, sources, lockText, staging, out, runs>>

(* writeLock: os.WriteFile truncates the file and then writes from its     *)
(* beginning, whatever another run may have written in between.            *)
truncate(p) ==
  /\ Doing(p, "truncate") /\ lockFile' = Unreadable /\ written' = {}
  /\ Goto(p, "write")
  /\ UNCHANGED <<edits, sources, staging, out, runs>>

writeLock(p) ==
  LET lock == job[p].lock
  IN /\ Doing(p, "write") /\ written' = written \cup {lock}
     /\ \/ lockFile' = lock
        \/ written # {} /\ lockFile' \in {Unreadable} \cup Mixtures(lock, lock.packages, written)
     /\ IF job[p].mode.verb = "lock" THEN Step(p, Idle) ELSE Goto(p, "fetch")
     /\ UNCHANGED <<edits, sources, staging, out, runs>>

(* The write stops early, and the run with it.                             *)
tearLock(p) ==
  LET lock == job[p].lock
  IN /\ Doing(p, "write") /\ written' = written \cup {lock}
     /\ \/ lockFile' \in {Unreadable, lockFile}
        \/ \E kept \in Beginnings(lock) : lockFile' \in Mixtures(lock, kept, written)
     /\ Step(p, Idle)
     /\ UNCHANGED <<edits, sources, staging, out, runs>>

(* verifyLocked: the recorded trust, not the repository's of today.        *)
verifyLocked(file, e, trust) ==
  e.url[1] # LocalSource => file.signer \in trust

Fetched(e, file) == [root |-> e.root, name |-> e.name, url |-> e.url, file |-> file]
Awaited(p) ==
  IF Doing(p, "fetch")
  THEN {e \in job[p].lock.packages : ~\E g \in job[p].got : g.root = e.root /\ g.name = e.name}
  ELSE {}

(* Mutant: whatever the URL serves now is taken.                           *)
X_fetchOne(p, e) ==
  LET file == store[e.url]
  IN /\ Doing(p, "fetch") /\ e \in Awaited(p) /\ file # None
     /\ verifyLocked(file, e, job[p].lock.trust) /\ file.name = e.name
     /\ Step(p, [job[p] EXCEPT !.got = @ \cup {Fetched(e, file)}])
     /\ UNCHANGED <<edits, sources, lockText, staging, out, runs>>

(* fetchOne; the packages are fetched in any order.                        *)
fetchOne(p, e) ==
  LET file == store[e.url]
  IN /\ Doing(p, "fetch") /\ e \in Awaited(p) /\ e.url \in DOMAIN store
     /\ file # None /\ file = e.hash
     /\ verifyLocked(file, e, job[p].lock.trust) /\ file.name = e.name
     /\ Step(p, [job[p] EXCEPT !.got = @ \cup {Fetched(e, file)}])
     /\ UNCHANGED <<edits, sources, lockText, staging, out, runs>>

(* The roots to assemble: the anchor, every declared root and every root a *)
(* package is placed in.                                                   *)
RootsOf(m, entries) ==
  {Anchor} \cup Declared(m) \cup {e.root : e \in entries}

(* Mutant: a leftover staging tree is built on.                            *)
X_clearStaging(p) ==
  /\ Doing(p, "fetch") /\ Awaited(p) = {}
  /\ out[OutDir[p]] = None
  /\ Step(p, [job[p] EXCEPT !.phase = "seed", !.roots = RootsOf(job[p].m, job[p].got)])
  /\ UNCHANGED <<edits, sources, lockText, staging, out, runs>>

(* BuildWithResult, up to assemble: a leftover staging tree is cleared.    *)
clearStaging(p) ==
  /\ Doing(p, "fetch") /\ Awaited(p) = {}
  /\ out[OutDir[p]] = None
  /\ staging' = [staging EXCEPT ![OutDir[p]] = Blank]
  /\ Step(p, [job[p] EXCEPT !.phase = "seed", !.roots = RootsOf(job[p].m, job[p].got)])
  /\ UNCHANGED <<edits, sources, lockText, out, runs>>

-----------------------------------------------------------------------------
(* Assembly of one root, by path: into whatever tree is there.             *)

At(entries, root) == {e \in entries : e.root = root}

(* composeClaims: every provided role, to the first provider by name.      *)
Holder(role, entries) ==
  CHOOSE e \in entries : /\ role \in DOMAIN e.file.claims
                         /\ \A f \in entries : role \in DOMAIN f.file.claims =>
                              f = e \/ Before(e.name, f.name, NameOrder)
Desired(entries) ==
  {[role |-> role, path |-> Holder(role, entries).file.claims[role], by |-> Holder(role, entries)]
     : role \in UNION {DOMAIN e.file.claims : e \in entries}}

checkComposeLayout(e, bypass) == e.file.special => bypass

Row(e) == [root |-> e.root, of |-> e.file]
Placed(root, path, is) == [at |-> root \o path, is |-> is]
Payload(e) == {Placed(e.root, path, e.file) : path \in e.file.paths}
LinkRow(root, l) == [root |-> root, path |-> l.path, by |-> l.by.file]

(* seedDatabase, in one transaction: a path has one owner.                 *)
Accepts(tree, root, entries) ==
  /\ \A e, f \in entries : e # f => e.file.paths \cap f.file.paths = {}
  /\ \A x \in tree.rows : x.root = root =>
       \A e \in entries : e.name # x.of.name /\ e.file.paths \cap x.of.paths = {}
  /\ \A l, k \in Desired(entries) : l.path = k.path => l = k
  /\ \A l \in Desired(entries) : ~\E k \in tree.links : k.root = root /\ k.path = l.path

(* The roots are assembled in the order of their paths.                    *)
seedRoot(p, root) ==
  LET d == OutDir[p]
      in == At(job[p].got, root)
      tree == staging[d]
  IN /\ Doing(p, "seed") /\ \A r \in job[p].roots : r = root \/ Before(root, r, RootOrder)
     /\ \A e \in in : checkComposeLayout(e, job[p].mode.bypass)
     /\ Accepts(tree, root, in)
     /\ staging' = [staging EXCEPT ![d] =
          [tree EXCEPT !.made = @ \cup {root},
                       !.rows = @ \cup {Row(e) : e \in in},
                       !.links = @ \cup {LinkRow(root, l) : l \in Desired(in)},
                       !.registry = @ \cup (IF root = Anchor THEN Declared(job[p].m) ELSE {})]]
     /\ Step(p, [job[p] EXCEPT !.phase = "extract", !.roots = @ \ {root}, !.root = root,
                                !.left = in])
     /\ UNCHANGED <<edits, sources, lockText, out, runs>>

Occupied(tree) == {f.at : f \in tree.files}

(* extractPreparedPayload; the packages are extracted in any order, and no *)
(* file is created over another.                                           *)
extractPayload(p, e) ==
  LET d == OutDir[p]
  IN /\ Doing(p, "extract") /\ e \in job[p].left
     /\ e.root \in staging[d].made
     /\ {f.at : f \in Payload(e)} \cap Occupied(staging[d]) = {}
     /\ staging' = [staging EXCEPT ![d].files = @ \cup Payload(e)]
     /\ Step(p, [job[p] EXCEPT !.left = @ \ {e}])
     /\ UNCHANGED <<edits, sources, lockText, out, runs>>

(* Mutant: a link is put over what is there.                               *)
X_materializeClaims(p) ==
  LET d == OutDir[p]
      root == job[p].root
      made == {Placed(root, l.path, l.by.file) : l \in Desired(At(job[p].got, root))}
  IN /\ Doing(p, "extract") /\ job[p].left = {}
     /\ staging' = [staging EXCEPT ![d].files = @ \cup made]
     /\ Goto(p, "seed")
     /\ UNCHANGED <<edits, sources, lockText, out, runs>>

(* materializeClaims, then the next root.                                  *)
materializeClaims(p) ==
  LET d == OutDir[p]
      root == job[p].root
      made == {Placed(root, l.path, l.by.file) : l \in Desired(At(job[p].got, root))}
  IN /\ Doing(p, "extract") /\ job[p].left = {}
     /\ {f.at : f \in made} \cap Occupied(staging[d]) = {}
     /\ staging' = [staging EXCEPT ![d].files = @ \cup made]
     /\ Goto(p, "seed")
     /\ UNCHANGED <<edits, sources, lockText, out, runs>>

(* writeLicenseManifest and writeRepositoryConfig; the times of the        *)
(* payload's directories are restored, so each must be there.              *)
finishImage(p) ==
  LET d == OutDir[p]
  IN /\ Doing(p, "seed") /\ job[p].roots = {}
     /\ staging[d].inventory = {} /\ \A e \in job[p].got : e.root \in staging[d].made
     /\ staging' = [staging EXCEPT ![d] = [@ EXCEPT !.inventory = {Row(e) : e \in job[p].got},
                                                    !.conf = TRUE]]
     /\ Goto(p, "rename")
     /\ UNCHANGED <<edits, sources, lockText, out, runs>>

(* The rename that publishes the image, which never replaces one.          *)
publish(p) ==
  LET d == OutDir[p]
  IN /\ Doing(p, "rename") /\ out[d] = None /\ staging[d] # Blank
     /\ out' = [out EXCEPT ![d] = [tree |-> staging[d], mode |-> job[p].mode, lock |-> job[p].lock,
                                     m |-> job[p].m]]
     /\ staging' = [staging EXCEPT ![d] = Blank]
     /\ Step(p, Idle)
     /\ UNCHANGED <<edits, sources, lockText, runs>>

(* Any error, and a kill: what was written stays.                          *)
Fail(p) ==
  /\ ~Doing(p, "idle") /\ Step(p, Idle)
  /\ UNCHANGED <<edits, sources, lockText, staging, out, runs>>

-----------------------------------------------------------------------------
(* The world around it.                                                    *)

Edit ==
  /\ edits < Len(Manifest) /\ edits' = edits + 1
  /\ UNCHANGED <<sources, lockText, staging, out, job, runs>>

(* The repository lists a package or revokes a key; a file of the pool is  *)
(* replaced.                                                               *)
ChangeSources(c) ==
  /\ c \in pending /\ pending' = pending \ {c}
  /\ listed' = IF c.kind = "publish" THEN {a \in listed : identityOf(a) # identityOf(c.of)} \cup {c.of}
                ELSE listed
  /\ store' = IF c.kind = "revoke" THEN store ELSE [store EXCEPT ![c.of.url] = c.of]
  /\ revoked' = IF c.kind = "revoke" THEN revoked \cup {c.key} ELSE revoked
  /\ UNCHANGED <<edits, lockText, staging, out, job, runs>>

Init ==
  /\ edits = 1 /\ listed = Listed /\ revoked = {} /\ pending = Change
  /\ store = [u \in {a.url : a \in Files} |->
                IF \E a \in Listed \cup Pool : a.url = u
                THEN CHOOSE a \in Listed \cup Pool : a.url = u ELSE None]
  /\ lockFile = None /\ written = {}
  /\ staging = [d \in {OutDir[p] : p \in Process} |-> Blank]
  /\ out = [d \in {OutDir[p] : p \in Process} |-> None]
  /\ job = [p \in Process |-> Idle] /\ runs = 0

Build(p) ==
  \/ \E mode \in Mode : Start(p, mode)
  \/ useLock(p) \/ scanSources(p) \/ resolve(p) \/ truncate(p) \/ writeLock(p) \/ tearLock(p)
  \/ \E e \in Awaited(p) : fetchOne(p, e)
  \/ clearStaging(p) \/ \E root \in job[p].roots : seedRoot(p, root)
  \/ \E e \in job[p].left : extractPayload(p, e)
  \/ materializeClaims(p) \/ finishImage(p) \/ publish(p) \/ Fail(p)

Next == Edit \/ (\E c \in pending : ChangeSources(c)) \/ \E p \in Process : Build(p)
Spec == Init /\ [][Next]_vars

-----------------------------------------------------------------------------
(* Properties.                                                             *)

Images == {d \in DOMAIN out : out[d] # None}

(* Every variable has its shape, and a place in a tree holds one thing: no *)
(* file, link or root is written over another (extractPreparedPayload,     *)
(* materializeClaims).                                                     *)
TypeOK ==
  /\ edits \in DOMAIN Manifest /\ listed \subseteq Files /\ revoked \subseteq Key
  /\ \A u \in DOMAIN store : store[u] # None => store[u] \in Files /\ store[u].url = u
  /\ lockFile \notin {None, Unreadable} => lockFile.packages # {}
  /\ \A p \in Process :
       /\ job[p].phase \in {"idle", "choose", "resolve", "truncate", "write", "fetch",
                            "seed", "extract", "rename"}
       /\ job[p].left \subseteq job[p].got
  /\ \A d \in DOMAIN staging : \A f, g \in staging[d].files : f.at = g.at => f = g

(* The output is absent or a complete image, whatever failed, was killed   *)
(* or ran beside the build into an output of its own (BuildWithResult): in *)
(* every root the files are what its database records as owned and as      *)
(* claim links, every registered root is there, and the inventory names    *)
(* what is installed.  A root that is not registered is there only for a   *)
(* lock that a failing or an overlapping write left torn.                  *)
Whole(t) ==
  /\ t.files = (UNION {{Placed(x.root, path, x.of) : path \in x.of.paths} : x \in t.rows})
               \cup {Placed(l.root, l.path, l.by) : l \in t.links}
  /\ t.made = {Anchor} \cup t.registry \cup {x.root : x \in t.rows}
  /\ t.inventory = t.rows /\ t.conf
ImageWhole ==
  \A d \in Images :
    /\ Whole(out[d].tree)
    /\ ~out[d].lock.torn => {x.root : x \in out[d].tree.rows} \subseteq {Anchor} \cup out[d].tree.registry

(* An image holds what its manifest asked for: each request met in its     *)
(* root and, unless told otherwise, every dependency where it is to be,    *)
(* although manifest, lock, sources and dependency mode change between the *)
(* resolution and the build (ensureLockMatches, ensureLockMode).  A lock   *)
(* that a failing or an overlapping write left torn is the exception: it   *)
(* may pass for whole.                                                     *)
ImageAsRequested ==
  \A d \in Images :
    LET b == out[d]
        installed == {[root |-> x.root, name |-> x.of.name, version |-> x.of.version]
                        : x \in b.tree.rows}
    IN ~b.lock.torn =>
       /\ \A r \in b.m.packages : \E x \in b.tree.rows :
            /\ x.of.name = r.name /\ matchesPin(r, x.of)
            /\ x.root = packageRootKey(r, b.m, {x.of})
       /\ b.mode.noDeps \/ \A x \in b.tree.rows : \A n \in x.of.needs :
            \E v \in n.constraint.allowed :
              [root |-> Place(n, x.root, b.m), name |-> n.name, version |-> v] \in installed

(* Two builds of one lock give the same image, byte for byte, whatever     *)
(* became of the sources between them (fetchOne), and whether the lock was *)
(* written whole or left torn.                                             *)
Text(lock) == [lock EXCEPT !.torn = FALSE]
Reproducible ==
  \A d, e \in Images : Text(out[d].lock) = Text(out[e].lock) => out[d].tree = out[e].tree

(* No package verifies under a key that was revoked after the lock was     *)
(* written: "A key revoked since the lock was written must not verify".    *)
RevokedRefused ==
  [][\A p \in Process : \A g \in job'[p].got \ job[p].got :
       g.url[1] # LocalSource => g.file.signer \notin revoked]_vars
=============================================================================
