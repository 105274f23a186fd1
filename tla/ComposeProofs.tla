---------------------------- MODULE ComposeProofs ----------------------------
(***************************************************************************)
(* Theorems about Compose, for any number of processes, any manifests and  *)
(* sources, and any changes to them.                                       *)
(*                                                                         *)
(* TInv holds however builds share their paths.  Its parts:                *)
(*   Sources    what is listed and stored are package files;               *)
(*   Shapes     trees, images and runs have their fields;                  *)
(*   GoodLocks  a lock in use or in the lock file lists something, has a   *)
(*              name in a root once, and unless it is torn places          *)
(*              everything in the anchor or a declared root;               *)
(*   Knows      what a run holds, phase by phase;                          *)
(*   OnePlaceOneThing                                                      *)
(* IInv adds, for builds with outputs of their own (OutputsApart):         *)
(*   Progress   the staging tree of a run is what its progress says;       *)
(*   Published  an image is one function of the lock it was built from.    *)
(* Promised, for RequestsMet alone, is about every lock in use: it holds   *)
(* what its manifest asked for.  It starts at the resolution, through the  *)
(* best of finitely many candidates (BestChosen), the rounds of a closure  *)
(* (ClosureChosen) and the consistency check, and what the lock file reads *)
(* as is a lock that a run resolved unless it is torn (MixtureGood).       *)
(***************************************************************************)
EXTENDS Compose, FiniteSetTheorems, NaturalsInduction, WellFoundedInduction, SequenceTheorems,
        TLAPS

(* A set of numbers that is not empty has a least one.                     *)
LEMMA LeastNumber ==
  ASSUME NEW S \in SUBSET Nat, S # {}
  PROVE  \E n \in S : \A i \in S : n <= i
<1> DEFINE less == OpToRel(<, Nat)
<1>1. IsWellFoundedOn(less, Nat)
  BY NatLessThanWellFounded
<1>2. \A i, n \in Nat : <<i, n>> \notin less => n <= i
  BY DEF OpToRel
<1> HIDE DEF less
<1>3. PICK n \in S : \A i \in S : <<i, n>> \notin less
  BY <1>1, WFMin
<1> QED BY <1>2, <1>3

-----------------------------------------------------------------------------
(* Resolution.                                                             *)

(* The rounds of a resolution are defined by their recursion.              *)
LEMMA RoundsDefined ==
  ASSUME NEW m, NEW candidates
  PROVE  Closures(m, candidates) =
           [n \in 0 .. Rounds |->
              IF n = 0 THEN asked(m, candidates)
              ELSE Grow(Closures(m, candidates)[n - 1], m, candidates)]
<1> DEFINE A == asked(m, candidates)
           G(S) == Grow(S, m, candidates)
           Starts(k) == \E g : g = [n \in 0 .. k |-> IF n = 0 THEN A ELSE G(g[n - 1])]
<1>0. Rounds \in Nat
  BY ComposeAssumption DEF Rounds
<1>1. Starts(0)
  <2> DEFINE g == [n \in 0 .. 0 |-> A]
  <2>1. g = [n \in 0 .. 0 |-> IF n = 0 THEN A ELSE G(g[n - 1])]
    OBVIOUS
  <2> QED BY <2>1
<1>2. ASSUME NEW k \in Nat, Starts(k) PROVE Starts(k + 1)
  <2> HIDE DEF A, G
  <2>1. PICK g : g = [n \in 0 .. k |-> IF n = 0 THEN A ELSE G(g[n - 1])]
    BY <1>2
  <2> DEFINE h == [n \in 0 .. k + 1 |-> IF n = k + 1 THEN G(g[k]) ELSE g[n]]
  <2>2. \A n \in 0 .. k : h[n] = g[n]
    OBVIOUS
  <2>3. \A n \in 0 .. k + 1 : h[n] = IF n = 0 THEN A ELSE G(h[n - 1])
    <3> TAKE n \in 0 .. k + 1
    <3>1. CASE n = k + 1
      <4>1. h[n] = G(g[k]) /\ n # 0 /\ n - 1 = k
        BY <3>1
      <4> QED BY <4>1, <2>2
    <3>2. CASE n # k + 1
      <4>1. n \in 0 .. k /\ (n # 0 => n - 1 \in 0 .. k)
        BY <3>2
      <4>2. g[n] = IF n = 0 THEN A ELSE G(g[n - 1])
        BY <4>1, <2>1
      <4> QED BY <4>1, <4>2, <2>2
    <3> QED BY <3>1, <3>2
  <2>4. h = [n \in 0 .. k + 1 |-> IF n = 0 THEN A ELSE G(h[n - 1])]
    BY <2>3
  <2> HIDE DEF h
  <2> QED BY <2>4
<1>3. \A k \in Nat : Starts(k)
  <2> HIDE DEF Starts
  <2> DEFINE Bad == {k \in Nat : ~Starts(k)}
  <2>1. SUFFICES ASSUME Bad # {} PROVE FALSE
    OBVIOUS
  <2>2. PICK k \in Bad : \A i \in Bad : k <= i
    BY <2>1, LeastNumber
  <2>3. k # 0 /\ k - 1 \in Nat /\ ~(k <= k - 1)
    BY <2>2, <1>1
  <2>4. Starts(k - 1)
    BY <2>2, <2>3
  <2>5. Starts((k - 1) + 1)
    BY <2>3, <2>4, <1>2
  <2> QED BY <2>2, <2>5
<1>4. Starts(Rounds)
  BY <1>0, <1>3
<1> QED BY <1>4 DEF Closures

(* What a resolution chooses from: package files, whole or stripped.       *)
Offered == Files \cup stripped(Files)

LEMMA OfferedFacts ==
  ASSUME NEW c \in Offered
  PROVE  \E a \in Files : /\ c.version = a.version /\ c.name = a.name /\ c.arch = a.arch
                          /\ c.url = a.url /\ c.default = a.default
                          /\ (c = a \/ c.needs = {})
<1>1. CASE c \in Files
  BY <1>1
<1>2. CASE c \in stripped(Files)
  <2>1. PICK a \in Files : c = [a EXCEPT !.needs = {}]
    BY <1>2 DEF stripped
  <2>2. PackageField \subseteq DOMAIN a
    BY ComposeAssumption
  <2> QED BY <2>1, <2>2 DEF PackageField
<1> QED BY <1>1, <1>2 DEF Offered

(* There are finitely many files, and so a newest version among them.      *)
LEMMA VersionBound == \E b \in Nat : \A c \in Offered : c.version \in Nat /\ c.version <= b
<1>1. \A a \in Files : a.version \in Nat
  BY ComposeAssumption
<1>2. PICK n \in Nat : \E f : f \in Surjection(1 .. n, Files)
  BY ComposeAssumption, FS_NatSurjection DEF ExistsSurjection
<1>f. PICK f : f \in Surjection(1 .. n, Files)
  BY <1>2
<1>3. /\ \A i \in 1 .. n : f[i] \in Files
      /\ \A a \in Files : \E i \in 1 .. n : f[i] = a
  BY <1>f DEF Surjection
<1> DEFINE Bounded(k) == \E b \in Nat : \A i \in 1 .. n : i <= k => f[i].version <= b
           Bad == {k \in Nat : ~Bounded(k)}
<1>4. Bounded(0)
  <2>1. \A i \in 1 .. n : ~(i <= 0)
    OBVIOUS
  <2> QED BY <2>1
<1>5. ASSUME NEW k \in Nat, Bounded(k) PROVE Bounded(k + 1)
  <2>1. PICK b \in Nat : \A i \in 1 .. n : i <= k => f[i].version <= b
    BY <1>5
  <2>2. CASE k + 1 \in 1 .. n
    <3>1. f[k + 1].version \in Nat
      BY <1>1, <1>3, <2>2
    <3> DEFINE v == f[k + 1].version
               most == IF v <= b THEN b ELSE v
    <3>2. most \in Nat /\ v <= most /\ b <= most
      BY <3>1
    <3>3. \A i \in 1 .. n : i <= k + 1 => f[i].version <= most
      <4> SUFFICES ASSUME NEW i \in 1 .. n, i <= k + 1 PROVE f[i].version <= most
        OBVIOUS
      <4>1. CASE i = k + 1
        BY <3>2, <4>1
      <4>2. CASE i <= k
        <5>1. f[i].version \in Nat /\ f[i].version <= b
          BY <1>1, <1>3, <2>1, <4>2
        <5> HIDE DEF most, v
        <5> QED BY <5>1, <3>2
      <4> QED BY <4>1, <4>2
    <3> HIDE DEF most, v
    <3> QED BY <3>2, <3>3
  <2>3. CASE k + 1 \notin 1 .. n
    <3>1. \A i \in 1 .. n : i <= k + 1 => i <= k
      BY <2>3
    <3> QED BY <2>1, <3>1
  <2> QED BY <2>2, <2>3
<1>6. Bounded(n)
  <2> HIDE DEF Bounded
  <2>1. SUFFICES ASSUME Bad # {} PROVE FALSE
    OBVIOUS
  <2>2. PICK k \in Bad : \A i \in Bad : k <= i
    BY <2>1, LeastNumber
  <2>3. k # 0 /\ k - 1 \in Nat /\ ~(k <= k - 1)
    BY <2>2, <1>4
  <2>4. Bounded(k - 1)
    BY <2>2, <2>3
  <2>5. Bounded((k - 1) + 1)
    BY <2>3, <2>4, <1>5
  <2> QED BY <2>2, <2>5
<1>7. PICK b \in Nat : \A i \in 1 .. n : i <= n => f[i].version <= b
  BY <1>6
<1>8. \A a \in Files : a.version <= b
  BY <1>3, <1>7
<1> QED BY <1>1, <1>8, OfferedFacts

(* Hence something is best of anything on offer.                           *)
LEMMA BestChosen ==
  ASSUME NEW fits \in SUBSET Offered, fits # {}
  PROVE  Best(fits) \in fits
<1>1. PICK b \in Nat : \A c \in Offered : c.version \in Nat /\ c.version <= b
  BY VersionBound
<1> DEFINE Local(c) == c.url[1] = LocalSource
           first == IF \E c \in fits : Local(c) THEN {c \in fits : Local(c)} ELSE fits
           Gap(c) == b - c.version
           gaps == {Gap(c) : c \in first}
<1>2. first # {} /\ first \subseteq fits
  OBVIOUS
<1>3. gaps \in SUBSET Nat /\ gaps # {}
  BY <1>1, <1>2
<1>4. PICK g \in gaps : \A i \in gaps : g <= i
  BY <1>3, LeastNumber
<1>5. PICK c \in first : g = Gap(c)
  BY <1>4
<1>6. \A d \in first : d.version <= c.version
  BY <1>1, <1>2, <1>4, <1>5
<1>7. \A d \in fits : Preferred(c, d)
  <2> SUFFICES ASSUME NEW d \in fits PROVE Preferred(c, d)
    OBVIOUS
  <2>1. c \in fits /\ c.version \in Nat /\ d.version \in Nat
    BY <1>1, <1>2, <1>5
  <2>2. CASE Local(c) # Local(d)
    <3>1. Local(c)
      BY <2>1, <2>2, <1>5
    <3> QED BY <2>2, <3>1 DEF Preferred
  <2>3. CASE Local(c) = Local(d)
    <3>1. d \in first
      BY <2>1, <2>3, <1>5
    <3> QED BY <2>1, <2>3, <3>1, <1>6 DEF Preferred
  <2> QED BY <2>2, <2>3
<1> QED BY <1>2, <1>7 DEF Best

Manifests == {Manifest[i] : i \in DOMAIN Manifest}
RootPaths(m) == {Anchor} \cup Declared(m)

LEMMA AskedChosen ==
  ASSUME NEW m, NEW candidates \in SUBSET Offered,
         \A r \in m.packages : \E c \in candidates : c.name = r.name,
         NEW x \in asked(m, candidates)
  PROVE  /\ x = [root |-> x.root, of |-> x.of]
         /\ x.root \in RootPaths(m) /\ x.of \in candidates
<1>1. PICK r \in m.packages :
        x = [root |-> packageRootKey(r, m, candidates), of |-> Best({c \in candidates : c.name = r.name})]
  BY DEF asked
<1>2. Best({c \in candidates : c.name = r.name}) \in {c \in candidates : c.name = r.name}
  <2> DEFINE fits == {c \in candidates : c.name = r.name}
  <2>1. fits \in SUBSET Offered /\ fits # {}
    OBVIOUS
  <2> HIDE DEF fits
  <2> QED BY <2>1, BestChosen
<1>3. packageRootKey(r, m, candidates) \in RootPaths(m)
  BY DEF packageRootKey, RootPaths, Declared
<1> QED BY <1>1, <1>2, <1>3

LEMMA BroughtChosen ==
  ASSUME NEW m, NEW candidates \in SUBSET Offered, NEW x, x.root \in RootPaths(m),
         NEW y \in Brought(x, m, candidates)
  PROVE  /\ y = [root |-> y.root, of |-> y.of]
         /\ y.root \in RootPaths(m) /\ y.of \in candidates
<1>1. PICK d \in x.of.needs :
        /\ Suiting(d.name, d.constraint, candidates) # {}
        /\ y = [root |-> Place(d, x.root, m), of |-> Best(Suiting(d.name, d.constraint, candidates))]
  BY DEF Brought
<1>2. Best(Suiting(d.name, d.constraint, candidates)) \in candidates
  <2>1. Suiting(d.name, d.constraint, candidates) \in SUBSET candidates
    BY DEF Suiting
  <2> QED BY <1>1, <2>1, BestChosen
<1>3. Place(d, x.root, m) \in RootPaths(m)
  BY DEF Place, RootPaths, Declared
<1> QED BY <1>1, <1>2, <1>3

(* A closure holds the requests, and is made of candidates placed in the   *)
(* anchor or a declared root.                                              *)
LEMMA ClosureChosen ==
  ASSUME NEW m, NEW candidates \in SUBSET Offered,
         \A r \in m.packages : \E c \in candidates : c.name = r.name
  PROVE  /\ asked(m, candidates) \subseteq Closure(m, candidates)
         /\ \A x \in Closure(m, candidates) :
              /\ x = [root |-> x.root, of |-> x.of]
              /\ x.root \in RootPaths(m) /\ x.of \in candidates
<1> DEFINE C == Closures(m, candidates)
           Chosen(x) == /\ x = [root |-> x.root, of |-> x.of]
                        /\ x.root \in RootPaths(m) /\ x.of \in candidates
           A == asked(m, candidates)
           Good(n) == A \subseteq C[n] /\ \A x \in C[n] : Chosen(x)
           Bad == {n \in Nat : n <= Rounds /\ ~Good(n)}
<1>0. Rounds \in Nat
  BY ComposeAssumption DEF Rounds
<1>a. C = [n \in 0 .. Rounds |-> IF n = 0 THEN A ELSE Grow(C[n - 1], m, candidates)]
  BY RoundsDefined
<1> HIDE DEF C
<1>1. \A n \in 0 .. Rounds :
        C[n] = IF n = 0 THEN A ELSE Grow(C[n - 1], m, candidates)
  BY <1>a
<1>2. Good(0)
  BY <1>0, <1>1, AskedChosen
<1>3. ASSUME NEW n \in Nat, n + 1 <= Rounds, Good(n) PROVE Good(n + 1)
  <2>1. C[n + 1] = Grow(C[n], m, candidates)
    BY <1>0, <1>1, <1>3
  <2>2. C[n + 1] = C[n] \cup UNION {Brought(x, m, candidates) : x \in C[n]}
    BY <2>1 DEF Grow
  <2>3. \A x \in C[n] : \A y \in Brought(x, m, candidates) : Chosen(y)
    BY <1>3, BroughtChosen
  <2> HIDE DEF Chosen
  <2> QED BY <1>3, <2>2, <2>3
<1>4. Good(Rounds)
  <2> HIDE DEF Good
  <2>1. SUFFICES ASSUME Bad # {} PROVE FALSE
    BY <1>0
  <2>2. PICK k \in Bad : \A i \in Bad : k <= i
    BY <2>1, LeastNumber
  <2>3. k # 0 /\ k - 1 \in Nat /\ ~(k <= k - 1) /\ k <= Rounds /\ k - 1 <= Rounds
    BY <1>0, <2>2, <1>2
  <2>4. Good(k - 1)
    BY <2>2, <2>3
  <2>5. Good((k - 1) + 1)
    BY <2>3, <2>4, <1>3
  <2> QED BY <2>2, <2>5
<1> QED BY <1>4 DEF Closure, C

-----------------------------------------------------------------------------
(* The invariant.                                                          *)

Dirs == {OutDir[p] : p \in Process}

IsJob(j) ==
  j = [phase |-> j.phase, mode |-> j.mode, m |-> j.m, scan |-> j.scan, lock |-> j.lock,
       got |-> j.got, roots |-> j.roots, root |-> j.root, left |-> j.left]
IsTree(t) ==
  t = [made |-> t.made, rows |-> t.rows, links |-> t.links, registry |-> t.registry,
       files |-> t.files, inventory |-> t.inventory, conf |-> t.conf]
IsLock(l) ==
  l = [intent |-> l.intent, noDeps |-> l.noDeps, trust |-> l.trust, torn |-> l.torn,
       packages |-> l.packages]

Sources ==
  /\ edits \in DOMAIN Manifest /\ listed \subseteq Files /\ revoked \subseteq Key
  /\ pending \subseteq Change
  /\ \A u \in DOMAIN store : store[u] # None => store[u] \in Files /\ store[u].url = u

Shapes ==
  /\ staging = [d \in Dirs |-> staging[d]] /\ \A d \in Dirs : IsTree(staging[d])
  /\ out = [d \in Dirs |-> out[d]]
  /\ job = [p \in Process |-> job[p]] /\ \A p \in Process : IsJob(job[p])

Ranked(name) == \E i \in DOMAIN NameOrder : NameOrder[i] = name

AnyRoot == UNION {RootPaths(m) : m \in Manifests}
IsEntry(e) == e = [root |-> e.root, name |-> e.name, url |-> e.url, hash |-> e.hash]
Listing(entries) == \A e \in entries : IsEntry(e) /\ e.root \in AnyRoot /\ Ranked(e.name)

(* A lock in use lists something; a name is in a root once, and every root *)
(* is the anchor or declared by a manifest, by the one it was made from    *)
(* unless it is torn.                                                      *)
GoodLock(l) ==
  /\ IsLock(l) /\ l.packages # {} /\ l.intent \in Manifests
  /\ \A e, f \in l.packages : e.root = f.root /\ e.name = f.name => e = f
  /\ Listing(l.packages)
  /\ ~l.torn => \A e \in l.packages : e.root \in RootPaths(l.intent)

Preparing == {"truncate", "write", "fetch"}
Assembling == {"seed", "extract", "rename"}
Phases == {"idle", "choose", "resolve"} \cup Preparing \cup Assembling
Locked(p) == job[p].phase \in Preparing \cup Assembling

(* What has been fetched when everything has.                              *)
FullGot(l) == {Fetched(e, e.hash) : e \in l.packages}

GoodLocks ==
  /\ lockFile \notin {None, Unreadable} => GoodLock(lockFile)
  /\ \A l \in written : GoodLock(l)
  /\ \A p \in Process : Locked(p) => GoodLock(job[p].lock)
  /\ \A d \in Dirs : out[d] # None => GoodLock(out[d].lock)

PathsApart(entries) == \A l, k \in Desired(entries) : l.path = k.path => l = k

(* What a run knows, phase by phase.                                       *)
JobKnows(j) ==
  /\ j.phase \in Phases
  /\ j.phase # "idle" => j.m \in Manifests
  /\ j.phase = "resolve" => j.scan.candidates \subseteq Files
  /\ j.phase \in Preparing \cup Assembling =>
       j.m = j.lock.intent /\ j.mode.noDeps = j.lock.noDeps
  /\ j.phase \in {"truncate", "write"} => ~j.lock.torn
  /\ j.phase \in {"fetch"} \cup Assembling =>
       j.got \subseteq FullGot(j.lock) /\ \A g \in j.got : g.file \in Files
  /\ j.phase \notin {"fetch"} \cup Assembling => j.got = {}
  /\ j.phase \in Assembling => j.got = FullGot(j.lock) /\ j.roots \subseteq RootsOf(j.m, j.got)
  /\ j.phase = "extract" =>
       /\ j.root \in RootsOf(j.m, j.got) \ j.roots
       /\ j.left \subseteq At(j.got, j.root) /\ PathsApart(At(j.got, j.root))
  /\ j.phase # "extract" => j.left = {}
  /\ j.phase = "rename" => j.roots = {}
Knows == \A p \in Process : JobKnows(job[p])

OnePlaceOneThing ==
  \A d \in Dirs : \A f, g \in staging[d].files : f.at = g.at => f = g

TInv == Sources /\ Shapes /\ GoodLocks /\ Knows /\ OnePlaceOneThing

(* What is in the staging tree of a run that is assembling.                *)
Seeded(j) == RootsOf(j.m, j.got) \ j.roots
Linked(j) == IF j.phase = "extract" THEN Seeded(j) \ {j.root} ELSE Seeded(j)
LinksIn(got, roots) == UNION {{LinkRow(r, l) : l \in Desired(At(got, r))} : r \in roots}
FilesOf(entries) == UNION {Payload(e) : e \in entries}
LinkFiles(links) == {Placed(l.root, l.path, l.by) : l \in links}
Assembled(j) ==
  [made |-> Seeded(j),
   rows |-> {Row(e) : e \in {g \in j.got : g.root \in Seeded(j)}},
   links |-> LinksIn(j.got, Seeded(j)),
   registry |-> IF Anchor \in Seeded(j) THEN Declared(j.m) ELSE {},
   files |-> FilesOf({g \in j.got : g.root \in Seeded(j) /\ g \notin j.left})
               \cup LinkFiles(LinksIn(j.got, Linked(j))),
   inventory |-> IF j.phase = "rename" THEN {Row(e) : e \in j.got} ELSE {},
   conf |-> j.phase = "rename"]

(* The finished image is a function of the lock.                           *)
Image(m, got) ==
  [made |-> RootsOf(m, got), rows |-> {Row(e) : e \in got}, links |-> LinksIn(got, RootsOf(m, got)),
   registry |-> Declared(m),
   files |-> FilesOf(got) \cup LinkFiles(LinksIn(got, RootsOf(m, got))),
   inventory |-> {Row(e) : e \in got}, conf |-> TRUE]

Progress ==
  \A p \in Process : job[p].phase \in Assembling => staging[OutDir[p]] = Assembled(job[p])
Published ==
  \A d \in Dirs : out[d] # None =>
    /\ out[d].m = out[d].lock.intent /\ out[d].mode.noDeps = out[d].lock.noDeps
    /\ out[d].tree = Image(out[d].m, FullGot(out[d].lock))

IInv == TInv /\ Progress /\ Published

(* Each output path is given to one process.                               *)
OutputsApart == \A p, q \in Process : OutDir[p] = OutDir[q] => p = q

-----------------------------------------------------------------------------
(* Every step preserves the first part of the invariant.                   *)

(* What a step of one run leaves of the others.                            *)
LEMMA JobFrame ==
  ASSUME Shapes, GoodLocks, Knows, NEW p \in Process, NEW j, Step(p, j), IsJob(j), JobKnows(j),
         j.phase \in Preparing \cup Assembling => GoodLock(j.lock)
  PROVE  /\ job' = [q \in Process |-> job'[q]] /\ \A q \in Process : IsJob(job'[q])
         /\ job'[p] = j /\ \A q \in Process : q # p => job'[q] = job[q]
         /\ Knows' /\ \A q \in Process : Locked(q)' => GoodLock(job'[q].lock)
<1>1. job' = [job EXCEPT ![p] = j] /\ job = [q \in Process |-> job[q]]
  BY DEF Step, Shapes
<1>2. job' = [q \in Process |-> IF q = p THEN j ELSE job[q]]
  BY <1>1
<1>3. job'[p] = j /\ \A q \in Process : q # p => job'[q] = job[q]
  BY <1>2
<1>4. \A q \in Process : IsJob(job'[q]) /\ JobKnows(job'[q])
  BY <1>3 DEF Shapes, Knows
<1>5. \A q \in Process : Locked(q)' => GoodLock(job'[q].lock)
  BY <1>3 DEF GoodLocks, Locked
<1>6. job' = [q \in Process |-> job'[q]]
  BY <1>2
<1> QED BY <1>3, <1>4, <1>5, <1>6 DEF Knows

(* The fields of a run's record after a step has replaced some of them.    *)
JobOf(phase, mode, m, scan, lock, got, roots, root, left) ==
  [phase |-> phase, mode |-> mode, m |-> m, scan |-> scan, lock |-> lock,
   got |-> got, roots |-> roots, root |-> root, left |-> left]
LEMMA JobFields ==
  ASSUME NEW phase, NEW mode, NEW m, NEW scan, NEW lock, NEW got, NEW roots, NEW root, NEW left,
         NEW j, j = JobOf(phase, mode, m, scan, lock, got, roots, root, left)
  PROVE  /\ IsJob(j) /\ j.phase = phase /\ j.mode = mode /\ j.m = m /\ j.scan = scan
         /\ j.lock = lock /\ j.got = got /\ j.roots = roots /\ j.root = root /\ j.left = left
BY DEF IsJob, JobOf

LEMMA IdleKnows == IsJob(Idle) /\ JobKnows(Idle) /\ Idle.phase = "idle"
BY DEF IsJob, JobKnows, Idle, Phases, Preparing, Assembling

LEMMA StartKeeps ==
  ASSUME TInv, NEW p \in Process, NEW mode, Start(p, mode) PROVE TInv'
<1> DEFINE j == [Idle EXCEPT !.phase = "choose", !.mode = mode, !.m = Manifest[edits]]
<1>1. Step(p, j) /\ UNCHANGED <<edits, sources, lockText, staging, out>>
  BY DEF Start
<1>a. j = [Idle EXCEPT !.phase = "choose", !.mode = mode, !.m = Manifest[edits]]
  OBVIOUS
<1> HIDE DEF j
<1>b. j = JobOf("choose", mode, Manifest[edits], Idle.scan, Idle.lock, Idle.got, Idle.roots,
                Idle.root, Idle.left)
  BY <1>a, IdleKnows DEF IsJob, JobOf
<1>2. IsJob(j) /\ j.phase = "choose" /\ j.m = Manifest[edits] /\ j.got = {} /\ j.left = {}
  BY <1>b, JobFields DEF Idle
<1>3. j.m \in Manifests
  BY <1>2 DEF TInv, Sources, Manifests
<1>4. JobKnows(j)
  BY <1>2, <1>3 DEF JobKnows, Phases, Preparing, Assembling
<1>5. j.phase \notin Preparing \cup Assembling
  BY <1>2 DEF Preparing, Assembling
<1>6. /\ job' = [q \in Process |-> job'[q]] /\ \A q \in Process : IsJob(job'[q])
      /\ Knows' /\ \A q \in Process : Locked(q)' => GoodLock(job'[q].lock)
  BY <1>1, <1>2, <1>4, <1>5, JobFrame DEF TInv
<1> QED BY <1>1, <1>6 DEF TInv, Sources, Shapes, GoodLocks, OnePlaceOneThing, sources, lockText

LEMMA UseLockKeeps ==
  ASSUME TInv, NEW p \in Process, useLock(p) PROVE TInv'
<1> DEFINE j == [job[p] EXCEPT !.phase = "fetch", !.lock = lockFile]
<1>1. /\ Step(p, j) /\ UNCHANGED <<edits, sources, lockText, staging, out>>
      /\ job[p].phase = "choose" /\ lockFile \notin {None, Unreadable}
      /\ lockFile.intent = job[p].m /\ lockFile.noDeps = job[p].mode.noDeps
  BY DEF useLock, Doing, ensureLockMatches, ensureLockMode
<1>2. IsJob(job[p]) /\ JobKnows(job[p]) /\ GoodLock(lockFile)
  BY <1>1 DEF TInv, Shapes, Knows, GoodLocks
<1>a. j = [job[p] EXCEPT !.phase = "fetch", !.lock = lockFile]
  OBVIOUS
<1> HIDE DEF j
<1>b. j = JobOf("fetch", job[p].mode, job[p].m, job[p].scan, lockFile, job[p].got, job[p].roots,
                job[p].root, job[p].left)
  BY <1>a, <1>2 DEF IsJob, JobOf
<1>3. /\ IsJob(j) /\ j.phase = "fetch" /\ j.m = job[p].m /\ j.mode = job[p].mode
      /\ j.lock = lockFile /\ j.got = job[p].got /\ j.left = job[p].left
  BY <1>b, JobFields
<1>4. JobKnows(j)
  BY <1>1, <1>2, <1>3 DEF JobKnows, Phases, Preparing, Assembling
<1>6. /\ job' = [q \in Process |-> job'[q]] /\ \A q \in Process : IsJob(job'[q])
      /\ Knows' /\ \A q \in Process : Locked(q)' => GoodLock(job'[q].lock)
  BY <1>1, <1>2, <1>3, <1>4, JobFrame DEF TInv
<1> QED BY <1>1, <1>6 DEF TInv, Sources, Shapes, GoodLocks, OnePlaceOneThing, sources, lockText

LEMMA ScanKeeps ==
  ASSUME TInv, NEW p \in Process, scanSources(p) PROVE TInv'
<1>0. PICK reached \in BOOLEAN :
        Step(p, [job[p] EXCEPT !.phase = "resolve", !.scan = ScanSources(job[p].m, reached)])
  BY DEF scanSources
<1> DEFINE scan == ScanSources(job[p].m, reached)
           j == [job[p] EXCEPT !.phase = "resolve", !.scan = scan]
<1>1. /\ Step(p, j) /\ UNCHANGED <<edits, sources, lockText, staging, out>>
      /\ job[p].phase = "choose"
  BY <1>0 DEF scanSources, Doing
<1>2. IsJob(job[p]) /\ JobKnows(job[p])
  BY DEF TInv, Shapes, Knows
<1>s. scan.candidates \subseteq Files
  <2>1. localCandidates(job[p].m) \subseteq Files
    BY DEF localCandidates, TInv, Sources
  <2>2. Active(listed) \subseteq Files /\ listed \subseteq Files
    BY DEF Active, TInv, Sources
  <2> QED BY <2>1, <2>2 DEF ScanSources
<1> HIDE DEF scan
<1>a. j = [job[p] EXCEPT !.phase = "resolve", !.scan = scan]
  OBVIOUS
<1> HIDE DEF j
<1>b. j = JobOf("resolve", job[p].mode, job[p].m, scan, job[p].lock, job[p].got, job[p].roots,
                job[p].root, job[p].left)
  BY <1>a, <1>2 DEF IsJob, JobOf
<1>3. /\ IsJob(j) /\ j.phase = "resolve" /\ j.m = job[p].m /\ j.scan = scan
      /\ j.got = job[p].got /\ j.left = job[p].left
  BY <1>b, JobFields
<1>4. JobKnows(j)
  BY <1>1, <1>2, <1>3, <1>s DEF JobKnows, Phases, Preparing, Assembling
<1>5. j.phase \notin Preparing \cup Assembling
  BY <1>3 DEF Preparing, Assembling
<1>6. /\ job' = [q \in Process |-> job'[q]] /\ \A q \in Process : IsJob(job'[q])
      /\ Knows' /\ \A q \in Process : Locked(q)' => GoodLock(job'[q].lock)
  BY <1>1, <1>3, <1>4, <1>5, JobFrame DEF TInv
<1> QED BY <1>1, <1>6 DEF TInv, Sources, Shapes, GoodLocks, OnePlaceOneThing, sources, lockText

(* What a resolution locks.                                                *)
LEMMA NewLockGood ==
  ASSUME NEW m \in Manifests, NEW candidates \in SUBSET Offered, Resolvable(m, candidates),
         NEW noDeps, NEW scan, NEW l, l = NewLock(m, noDeps, scan, Closure(m, candidates))
  PROVE  GoodLock(l) /\ l.intent = m /\ l.noDeps = noDeps /\ ~l.torn
<1> DEFINE C == Closure(m, candidates)
           E(x) == LockedPackage(x, scan.candidates)
<1>1. asked(m, candidates) \subseteq C /\ \A x \in C : x.root \in RootPaths(m) /\ x.of \in Offered
  BY ClosureChosen DEF Resolvable
<1>2. C # {}
  <2>1. m.packages # {}
    BY ComposeAssumption DEF Manifests
  <2> QED BY <1>1, <2>1 DEF asked
<1>3. \A x, y \in C : x.root = y.root /\ x.of.name = y.of.name => x = y
  BY DEF Resolvable, Consistent
<1>4. \A x \in C : Ranked(x.of.name)
  BY <1>1, OfferedFacts, ComposeAssumption DEF Ranked
<1>5. /\ l.intent = m /\ l.noDeps = noDeps /\ IsLock(l) /\ l.packages = {E(x) : x \in C}
      /\ ~l.torn
  BY DEF NewLock, IsLock
<1> HIDE DEF C
<1>6. \A x \in C : E(x).root = x.root /\ E(x).name = x.of.name /\ IsEntry(E(x))
  BY DEF LockedPackage, IsEntry
<1> HIDE DEF E
<1>7. l.packages # {}
  BY <1>2, <1>5
<1>8. \A e \in l.packages : e.root \in RootPaths(m) /\ Ranked(e.name) /\ IsEntry(e)
  BY <1>1, <1>4, <1>5, <1>6
<1>l. Listing(l.packages)
  BY <1>8 DEF Listing, AnyRoot
<1>9. \A e, f \in l.packages : e.root = f.root /\ e.name = f.name => e = f
  BY <1>3, <1>5, <1>6
<1> QED BY <1>5, <1>7, <1>8, <1>9, <1>l DEF GoodLock

LEMMA ResolveKeeps ==
  ASSUME TInv, NEW p \in Process, resolve(p) PROVE TInv'
<1> DEFINE m == job[p].m
           noDeps == job[p].mode.noDeps
           pinned == applyManifestPins(job[p].scan.candidates, m)
           candidates == IF noDeps THEN stripped(pinned) ELSE pinned
           l == NewLock(m, noDeps, job[p].scan, Closure(m, candidates))
           j == [job[p] EXCEPT !.phase = "truncate", !.scan = None, !.lock = l]
<1>1. /\ Step(p, j) /\ UNCHANGED <<edits, sources, lockText, staging, out>>
      /\ job[p].phase = "resolve" /\ Resolvable(m, candidates)
  BY DEF resolve, Doing
<1>2. IsJob(job[p]) /\ JobKnows(job[p])
  BY DEF TInv, Shapes, Knows
<1>3. m \in Manifests /\ job[p].scan.candidates \subseteq Files
  BY <1>1, <1>2 DEF JobKnows
<1>4. candidates \in SUBSET Offered
  BY <1>3 DEF applyManifestPins, stripped, Offered
<1> HIDE DEF candidates
<1>5. GoodLock(l) /\ l.intent = m /\ l.noDeps = noDeps /\ ~l.torn
  BY <1>1, <1>3, <1>4, NewLockGood
<1> HIDE DEF l
<1>a. j = [job[p] EXCEPT !.phase = "truncate", !.scan = None, !.lock = l]
  OBVIOUS
<1> HIDE DEF j
<1>b. j = JobOf("truncate", job[p].mode, job[p].m, None, l, job[p].got, job[p].roots,
                job[p].root, job[p].left)
  BY <1>a, <1>2 DEF IsJob, JobOf
<1>6. /\ IsJob(j) /\ j.phase = "truncate" /\ j.m = m /\ j.mode = job[p].mode
      /\ j.lock = l /\ j.got = job[p].got /\ j.left = job[p].left
  BY <1>b, JobFields
<1>7. JobKnows(j)
  BY <1>1, <1>2, <1>5, <1>6 DEF JobKnows, Phases, Preparing, Assembling
<1>8. /\ job' = [q \in Process |-> job'[q]] /\ \A q \in Process : IsJob(job'[q])
      /\ Knows' /\ \A q \in Process : Locked(q)' => GoodLock(job'[q].lock)
  BY <1>1, <1>5, <1>6, <1>7, JobFrame DEF TInv
<1> QED BY <1>1, <1>8 DEF TInv, Sources, Shapes, GoodLocks, OnePlaceOneThing, sources, lockText

(* A run that only moves to its next phase.                                *)
LEMMA GotoFields ==
  ASSUME NEW k, IsJob(k), NEW phase, NEW j, j = [k EXCEPT !.phase = phase]
  PROVE  /\ IsJob(j) /\ j.phase = phase /\ j.mode = k.mode /\ j.m = k.m /\ j.scan = k.scan
         /\ j.lock = k.lock /\ j.got = k.got /\ j.roots = k.roots /\ j.root = k.root
         /\ j.left = k.left
<1>1. j = JobOf(phase, k.mode, k.m, k.scan, k.lock, k.got, k.roots, k.root, k.left)
  BY DEF IsJob, JobOf
<1> QED BY <1>1, JobFields

LEMMA TruncateKeeps ==
  ASSUME TInv, NEW p \in Process, truncate(p) PROVE TInv'
<1> DEFINE j == [job[p] EXCEPT !.phase = "write"]
<1>1. /\ Step(p, j) /\ UNCHANGED <<edits, sources, staging, out>>
      /\ lockFile' = Unreadable /\ written' = {}
      /\ job[p].phase = "truncate"
  BY DEF truncate, Doing, Goto
<1>2. IsJob(job[p]) /\ JobKnows(job[p]) /\ GoodLock(job[p].lock)
  BY <1>1 DEF TInv, Shapes, Knows, GoodLocks, Locked, Preparing
<1>a. j = [job[p] EXCEPT !.phase = "write"]
  OBVIOUS
<1> HIDE DEF j
<1>3. /\ IsJob(j) /\ j.phase = "write" /\ j.m = job[p].m /\ j.mode = job[p].mode
      /\ j.lock = job[p].lock /\ j.got = job[p].got /\ j.left = job[p].left
  BY <1>a, <1>2, GotoFields
<1>4. JobKnows(j)
  BY <1>1, <1>2, <1>3 DEF JobKnows, Phases, Preparing, Assembling
<1>5. /\ job' = [q \in Process |-> job'[q]] /\ \A q \in Process : IsJob(job'[q])
      /\ Knows' /\ \A q \in Process : Locked(q)' => GoodLock(job'[q].lock)
  BY <1>1, <1>2, <1>3, <1>4, JobFrame DEF TInv
<1> QED BY <1>1, <1>5 DEF TInv, Sources, Shapes, GoodLocks, OnePlaceOneThing, sources, lockText

(* What decodes when writes overlap or stop early has the shape of a lock, *)
(* and unless it is torn it is the lock written.                           *)
LEMMA MixtureGood ==
  ASSUME NEW l, GoodLock(l), ~l.torn, NEW kept \in SUBSET l.packages,
         NEW under, \A u \in under : GoodLock(u), NEW k \in Mixtures(l, kept, under)
  PROVE  /\ GoodLock(k)
         /\ ~k.torn => k.intent = l.intent /\ k.noDeps = l.noDeps /\ k.packages = l.packages
<1> DEFINE entries == UNION {u.packages : u \in under}
           places == {Anchor} \cup {e.root : e \in entries}
<1>1. Listing(kept) /\ Listing(entries)
  BY DEF GoodLock, Listing
<1>2. places \subseteq AnyRoot
  <2>1. Anchor \in AnyRoot
    BY DEF GoodLock, AnyRoot, RootPaths
  <2> QED BY <1>1, <2>1 DEF Listing
<1>3. ASSUME NEW own \in Rerooted(kept, places) PROVE Listing(own)
  <2>1. CASE own = kept
    BY <1>1, <2>1
  <2>2. CASE own # kept
    <3>1. PICK e \in kept, r \in places : own = (kept \ {e}) \cup {[e EXCEPT !.root = r]}
      BY <2>2 DEF Rerooted
    <3> DEFINE f == [e EXCEPT !.root = r]
    <3>2. IsEntry(e) /\ Ranked(e.name) /\ r \in AnyRoot
      BY <1>1, <1>2 DEF Listing
    <3>3. f = [root |-> r, name |-> e.name, url |-> e.url, hash |-> e.hash]
      BY <3>2 DEF IsEntry
    <3>4. IsEntry(f) /\ f.root \in AnyRoot /\ Ranked(f.name)
      BY <3>2, <3>3 DEF IsEntry
    <3> HIDE DEF f
    <3> QED BY <1>1, <3>1, <3>4 DEF Listing, f
  <2> QED BY <2>1, <2>2
<1> DEFINE lists == {own \cup rest : own \in Rerooted(kept, places), rest \in SUBSET entries}
           OncePlaced(S) == \A e, f \in S : e.root = f.root /\ e.name = f.name => e = f
           heads == {l} \cup (IF kept = {} THEN under ELSE {})
           Reads(h, t, list) ==
             [intent |-> l.intent, noDeps |-> h.noDeps, trust |-> t.trust, packages |-> list,
              torn |-> h # l \/ t # l \/ list # l.packages]
<1>m. Mixtures(l, kept, under) =
        {Reads(h, t, list) : h \in heads, t \in heads,
                             list \in {S \in lists : S # {} /\ OncePlaced(S)}}
  BY DEF Mixtures
<1> HIDE DEF lists, heads, Reads, OncePlaced
<1>4. PICK h \in heads, t \in heads, list \in lists :
        k = Reads(h, t, list) /\ list # {} /\ OncePlaced(list)
  BY <1>m
<1>o. PICK own \in Rerooted(kept, places), rest \in SUBSET entries : list = own \cup rest
  <2> HIDE DEF entries, places
  <2>1. list \in {own \cup rest : own \in Rerooted(kept, places), rest \in SUBSET entries}
    BY <1>4 DEF lists
  <2> QED BY <2>1
<1>5. Listing(list)
  BY <1>1, <1>3, <1>o DEF Listing
<1>6. k = [intent |-> l.intent, noDeps |-> h.noDeps, trust |-> t.trust, packages |-> list,
           torn |-> h # l \/ t # l \/ list # l.packages]
  BY <1>4 DEF Reads
<1>7. /\ list # {} /\ \A e, f \in list : e.root = f.root /\ e.name = f.name => e = f
  BY <1>4 DEF OncePlaced
<1> HIDE DEF entries, places
<1>8. /\ k.intent = l.intent /\ k.noDeps = h.noDeps /\ k.packages = list /\ IsLock(k)
      /\ k.torn <=> (h # l \/ t # l \/ list # l.packages)
  BY <1>6 DEF IsLock
<1>9. ~k.torn => k.noDeps = l.noDeps /\ k.packages = l.packages
  BY <1>8
<1> QED BY <1>5, <1>7, <1>8, <1>9 DEF GoodLock

(* A write puts in place the lock of the run, a mixture that has it, or    *)
(* nothing that can be read.                                               *)
LEMMA LockWritten ==
  ASSUME TInv, NEW p \in Process, writeLock(p) \/ tearLock(p)
  PROVE  /\ job[p].phase = "write" /\ written' = written \cup {job[p].lock}
         /\ UNCHANGED <<edits, sources, staging, out>> /\ GoodLock(job[p].lock)
         /\ lockFile' # lockFile => lockFile' = Unreadable \/
              /\ GoodLock(lockFile')
              /\ ~lockFile'.torn => /\ lockFile'.intent = job[p].lock.intent
                                   /\ lockFile'.noDeps = job[p].lock.noDeps
                                   /\ lockFile'.packages = job[p].lock.packages
<1> DEFINE l == job[p].lock
<1>1. /\ job[p].phase = "write" /\ written' = written \cup {l}
      /\ UNCHANGED <<edits, sources, staging, out>>
  BY DEF writeLock, tearLock, Doing
<1>2. GoodLock(l) /\ ~l.torn
  BY <1>1 DEF TInv, GoodLocks, Knows, JobKnows, Locked, Preparing
<1>3. \A u \in written : GoodLock(u)
  BY DEF TInv, GoodLocks
<1>4. \/ lockFile' \in {l, lockFile, Unreadable}
      \/ \E kept \in SUBSET l.packages : lockFile' \in Mixtures(l, kept, written)
  <2>1. CASE writeLock(p)
    BY <2>1 DEF writeLock
  <2>2. CASE tearLock(p)
    <3>1. Beginnings(l) \subseteq SUBSET l.packages
      BY DEF Beginnings
    <3> QED BY <2>2, <3>1 DEF tearLock
  <2> QED BY <2>1, <2>2
<1> HIDE DEF l
<1>5. ASSUME NEW kept \in SUBSET l.packages, lockFile' \in Mixtures(l, kept, written)
      PROVE  /\ GoodLock(lockFile')
             /\ ~lockFile'.torn => /\ lockFile'.intent = l.intent /\ lockFile'.noDeps = l.noDeps
                                  /\ lockFile'.packages = l.packages
  BY <1>2, <1>3, <1>5, MixtureGood
<1> QED BY <1>1, <1>2, <1>4, <1>5 DEF l

LEMMA WriteLockKeeps ==
  ASSUME TInv, NEW p \in Process, writeLock(p) PROVE TInv'
<1> DEFINE j == IF job[p].mode.verb = "lock" THEN Idle ELSE [job[p] EXCEPT !.phase = "fetch"]
<1>1. Step(p, j)
  BY DEF writeLock, Goto
<1>2. /\ IsJob(job[p]) /\ JobKnows(job[p]) /\ GoodLock(job[p].lock) /\ job[p].phase = "write"
      /\ UNCHANGED <<edits, sources, staging, out>> /\ written' = written \cup {job[p].lock}
      /\ lockFile' # lockFile => lockFile' = Unreadable \/ GoodLock(lockFile')
  BY LockWritten DEF TInv, Shapes, Knows
<1>3. j = Idle \/ j = [job[p] EXCEPT !.phase = "fetch"]
  OBVIOUS
<1> HIDE DEF j
<1>4. IsJob(j) /\ JobKnows(j) /\ (j.phase \in Preparing \cup Assembling => GoodLock(j.lock))
  <2>1. CASE j = Idle
    BY <2>1, IdleKnows DEF Preparing, Assembling
  <2>2. CASE j = [job[p] EXCEPT !.phase = "fetch"]
    <3>1. /\ IsJob(j) /\ j.phase = "fetch" /\ j.m = job[p].m /\ j.mode = job[p].mode
          /\ j.lock = job[p].lock /\ j.got = job[p].got /\ j.left = job[p].left
      BY <2>2, <1>2, GotoFields
    <3>2. JobKnows(j)
      BY <1>1, <1>2, <3>1 DEF JobKnows, Phases, Preparing, Assembling
    <3> QED BY <1>2, <3>1, <3>2
  <2> QED BY <1>3, <2>1, <2>2
<1>5. /\ job' = [q \in Process |-> job'[q]] /\ \A q \in Process : IsJob(job'[q])
      /\ Knows' /\ \A q \in Process : Locked(q)' => GoodLock(job'[q].lock)
  BY <1>1, <1>4, JobFrame DEF TInv
<1> QED BY <1>1, <1>2, <1>5 DEF TInv, Sources, Shapes, GoodLocks, OnePlaceOneThing, sources, lockText

LEMMA TearLockKeeps ==
  ASSUME TInv, NEW p \in Process, tearLock(p) PROVE TInv'
<1>1. Step(p, Idle)
  BY DEF tearLock
<1>2. /\ UNCHANGED <<edits, sources, staging, out>> /\ written' = written \cup {job[p].lock}
      /\ GoodLock(job[p].lock)
      /\ lockFile' # lockFile => lockFile' = Unreadable \/ GoodLock(lockFile')
  BY LockWritten
<1>4. /\ job' = [q \in Process |-> job'[q]] /\ \A q \in Process : IsJob(job'[q])
      /\ Knows' /\ \A q \in Process : Locked(q)' => GoodLock(job'[q].lock)
  BY <1>1, IdleKnows, JobFrame DEF TInv, Preparing, Assembling
<1> QED BY <1>2, <1>4 DEF TInv, Sources, Shapes, GoodLocks, OnePlaceOneThing, sources

LEMMA FailKeeps ==
  ASSUME TInv, NEW p \in Process, Fail(p) PROVE TInv'
<1>1. Step(p, Idle) /\ UNCHANGED <<edits, sources, lockText, staging, out>>
  BY DEF Fail
<1>2. /\ job' = [q \in Process |-> job'[q]] /\ \A q \in Process : IsJob(job'[q])
      /\ Knows' /\ \A q \in Process : Locked(q)' => GoodLock(job'[q].lock)
  BY <1>1, IdleKnows, JobFrame DEF TInv, Preparing, Assembling
<1> QED BY <1>1, <1>2 DEF TInv, Sources, Shapes, GoodLocks, OnePlaceOneThing, sources, lockText

LEMMA EditKeeps ==
  ASSUME TInv, Edit PROVE TInv'
<1>1. edits' \in DOMAIN Manifest
  BY ComposeAssumption DEF Edit, TInv, Sources
<1>2. UNCHANGED <<sources, lockText, staging, out, job>>
  BY DEF Edit
<1> QED BY <1>1, <1>2 DEF TInv, Sources, Shapes, GoodLocks, Knows, Locked, OnePlaceOneThing,
                          sources, lockText

LEMMA ChangeSourcesKeeps ==
  ASSUME TInv, NEW c \in pending, ChangeSources(c) PROVE TInv'
<1>1. c \in Change /\ UNCHANGED <<edits, lockText, staging, out, job>>
  BY DEF ChangeSources, TInv, Sources
<1>2. c.kind # "revoke" => c.of \in Files
  BY <1>1 DEF Files
<1>3. c.kind = "revoke" => c.key \in Key
  BY <1>1, ComposeAssumption
<1>4. listed' \subseteq Files
  BY <1>2 DEF ChangeSources, TInv, Sources
<1>5. revoked' \subseteq Key /\ pending' \subseteq Change
  BY <1>3 DEF ChangeSources, TInv, Sources
<1>6. \A u \in DOMAIN store' : store'[u] # None => store'[u] \in Files /\ store'[u].url = u
  BY <1>2 DEF ChangeSources, TInv, Sources
<1> QED BY <1>1, <1>4, <1>5, <1>6
     DEF TInv, Sources, Shapes, GoodLocks, Knows, Locked, OnePlaceOneThing, lockText

(* Likewise for the staging trees.                                         *)
TreeOf(made, rows, links, registry, files, inventory, conf) ==
  [made |-> made, rows |-> rows, links |-> links, registry |-> registry, files |-> files,
   inventory |-> inventory, conf |-> conf]
LEMMA TreeFields ==
  ASSUME NEW made, NEW rows, NEW links, NEW registry, NEW files, NEW inventory, NEW conf,
         NEW t, t = TreeOf(made, rows, links, registry, files, inventory, conf)
  PROVE  /\ IsTree(t) /\ t.made = made /\ t.rows = rows /\ t.links = links
         /\ t.registry = registry /\ t.files = files /\ t.inventory = inventory /\ t.conf = conf
BY DEF IsTree, TreeOf

LEMMA TreeFrame ==
  ASSUME Shapes, NEW d \in Dirs, NEW t, IsTree(t), staging' = [staging EXCEPT ![d] = t]
  PROVE  /\ staging' = [x \in Dirs |-> staging'[x]] /\ \A x \in Dirs : IsTree(staging'[x])
         /\ staging'[d] = t /\ \A x \in Dirs : x # d => staging'[x] = staging[x]
<1>1. staging' = [x \in Dirs |-> IF x = d THEN t ELSE staging[x]]
  BY DEF Shapes
<1>2. staging'[d] = t /\ \A x \in Dirs : x # d => staging'[x] = staging[x]
  BY <1>1
<1>3. staging' = [x \in Dirs |-> staging'[x]]
  BY <1>1
<1> QED BY <1>2, <1>3 DEF Shapes

LEMMA OutIsDir == ASSUME NEW p \in Process PROVE OutDir[p] \in Dirs
BY DEF Dirs

(* When nothing is awaited, everything the lock lists has been fetched.    *)
LEMMA AllFetched ==
  ASSUME TInv, NEW p \in Process, job[p].phase = "fetch", Awaited(p) = {}
  PROVE  job[p].got = FullGot(job[p].lock)
<1> DEFINE l == job[p].lock
           got == job[p].got
<1>1. GoodLock(l) /\ JobKnows(job[p])
  BY DEF TInv, GoodLocks, Knows, Locked, Preparing
<1>2. got \subseteq FullGot(l)
  BY <1>1 DEF JobKnows
<1>3. \A e \in l.packages : \E g \in got : g.root = e.root /\ g.name = e.name
  BY DEF Awaited, Doing
<1>4. \A e \in l.packages : Fetched(e, e.hash) \in got
  <2> TAKE e \in l.packages
  <2>1. PICK g \in got : g.root = e.root /\ g.name = e.name
    BY <1>3
  <2>2. PICK f \in l.packages : g = Fetched(f, f.hash)
    BY <1>2 DEF FullGot
  <2>3. f.root = e.root /\ f.name = e.name
    BY <2>1, <2>2 DEF Fetched
  <2>4. f = e
    BY <1>1, <2>3 DEF GoodLock
  <2> QED BY <2>2, <2>4
<1> QED BY <1>2, <1>4 DEF FullGot

LEMMA FetchKeeps ==
  ASSUME TInv, NEW p \in Process, NEW e \in Awaited(p), fetchOne(p, e) PROVE TInv'
<1> DEFINE file == store[e.url]
           j == [job[p] EXCEPT !.got = @ \cup {Fetched(e, file)}]
<1>1. /\ Step(p, j) /\ UNCHANGED <<edits, sources, lockText, staging, out>>
      /\ job[p].phase = "fetch" /\ file # None /\ e.url \in DOMAIN store /\ file = e.hash
      /\ e \in job[p].lock.packages
  BY DEF fetchOne, Doing, Awaited
<1>2. IsJob(job[p]) /\ JobKnows(job[p]) /\ GoodLock(job[p].lock)
  BY <1>1 DEF TInv, Shapes, Knows, GoodLocks, Locked, Preparing
<1>3. file \in Files
  BY <1>1 DEF TInv, Sources
<1> DEFINE got == job[p].got \cup {Fetched(e, file)}
<1>a. j = [job[p] EXCEPT !.got = got]
  OBVIOUS
<1>4. got \subseteq FullGot(job[p].lock) /\ \A g \in got : g.file \in Files
  BY <1>1, <1>2, <1>3 DEF JobKnows, FullGot, Fetched
<1> HIDE DEF j, got
<1>b. j = JobOf(job[p].phase, job[p].mode, job[p].m, job[p].scan, job[p].lock, got,
                job[p].roots, job[p].root, job[p].left)
  BY <1>a, <1>2 DEF IsJob, JobOf
<1>5. /\ IsJob(j) /\ j.phase = "fetch" /\ j.m = job[p].m /\ j.mode = job[p].mode
      /\ j.lock = job[p].lock /\ j.got = got /\ j.left = job[p].left
  BY <1>b, <1>1, JobFields
<1>6. JobKnows(j)
  BY <1>1, <1>2, <1>4, <1>5 DEF JobKnows, Phases, Preparing, Assembling
<1>7. /\ job' = [q \in Process |-> job'[q]] /\ \A q \in Process : IsJob(job'[q])
      /\ Knows' /\ \A q \in Process : Locked(q)' => GoodLock(job'[q].lock)
  BY <1>1, <1>2, <1>5, <1>6, JobFrame DEF TInv
<1> QED BY <1>1, <1>7 DEF TInv, Sources, Shapes, GoodLocks, OnePlaceOneThing, sources, lockText

LEMMA BlankTree == IsTree(Blank) /\ Blank.files = {}
BY DEF IsTree, Blank

LEMMA ClearStep ==
  ASSUME TInv, NEW p \in Process, clearStaging(p)
  PROVE  /\ TInv'
         /\ UNCHANGED out /\ job'[p].phase = "seed" /\ job'[p].m = job[p].m
         /\ job'[p].got = job[p].got /\ job'[p].roots = RootsOf(job[p].m, job[p].got)
         /\ job'[p].left = {}
         /\ \A q \in Process : q # p => job'[q] = job[q]
         /\ \A x \in Dirs : x # OutDir[p] => staging'[x] = staging[x]
         /\ staging'[OutDir[p]] = Blank
<1> DEFINE d == OutDir[p]
           roots == RootsOf(job[p].m, job[p].got)
           j == [job[p] EXCEPT !.phase = "seed", !.roots = roots]
<1>1. /\ Step(p, j) /\ UNCHANGED <<edits, sources, lockText, out>>
      /\ job[p].phase = "fetch" /\ Awaited(p) = {}
      /\ staging' = [staging EXCEPT ![d] = Blank]
  BY DEF clearStaging, Doing
<1>2. IsJob(job[p]) /\ JobKnows(job[p]) /\ GoodLock(job[p].lock)
  BY <1>1 DEF TInv, Shapes, Knows, GoodLocks, Locked, Preparing
<1>3. job[p].got = FullGot(job[p].lock)
  BY <1>1, AllFetched
<1>a. j = [job[p] EXCEPT !.phase = "seed", !.roots = roots]
  OBVIOUS
<1> HIDE DEF j
<1>b. j = JobOf("seed", job[p].mode, job[p].m, job[p].scan, job[p].lock, job[p].got, roots,
                job[p].root, job[p].left)
  BY <1>a, <1>2 DEF IsJob, JobOf
<1>4. /\ IsJob(j) /\ j.phase = "seed" /\ j.m = job[p].m /\ j.mode = job[p].mode
      /\ j.lock = job[p].lock /\ j.got = job[p].got /\ j.left = job[p].left /\ j.roots = roots
  BY <1>b, JobFields
<1>5. JobKnows(j)
  BY <1>1, <1>2, <1>3, <1>4 DEF JobKnows, Phases, Preparing, Assembling
<1>6. /\ job' = [q \in Process |-> job'[q]] /\ \A q \in Process : IsJob(job'[q])
      /\ Knows' /\ \A q \in Process : Locked(q)' => GoodLock(job'[q].lock)
      /\ job'[p] = j /\ \A q \in Process : q # p => job'[q] = job[q]
  BY <1>1, <1>2, <1>4, <1>5, JobFrame DEF TInv
<1>7. /\ staging' = [x \in Dirs |-> staging'[x]] /\ \A x \in Dirs : IsTree(staging'[x])
      /\ staging'[d] = Blank /\ \A x \in Dirs : x # d => staging'[x] = staging[x]
  BY <1>1, OutIsDir, BlankTree, TreeFrame DEF TInv
<1>8. OnePlaceOneThing'
  BY <1>7, BlankTree DEF TInv, OnePlaceOneThing
<1>9. TInv'
  BY <1>1, <1>6, <1>7, <1>8 DEF TInv, Sources, Shapes, GoodLocks, sources, lockText
<1>10. job[p].left = {}
  BY <1>1, <1>2 DEF JobKnows
<1> QED BY <1>1, <1>4, <1>6, <1>7, <1>9, <1>10

(* What seedRoot makes of the tree.                                        *)
SeededTree(t, m, root, in) ==
  [t EXCEPT !.made = @ \cup {root},
            !.rows = @ \cup {Row(e) : e \in in},
            !.links = @ \cup {LinkRow(root, l) : l \in Desired(in)},
            !.registry = @ \cup (IF root = Anchor THEN Declared(m) ELSE {})]
LEMMA SeededTreeFields ==
  ASSUME NEW t, IsTree(t), NEW m, NEW root, NEW in, NEW u, u = SeededTree(t, m, root, in)
  PROVE  /\ IsTree(u) /\ u.made = t.made \cup {root}
         /\ u.rows = t.rows \cup {Row(e) : e \in in}
         /\ u.links = t.links \cup {LinkRow(root, l) : l \in Desired(in)}
         /\ u.registry = t.registry \cup (IF root = Anchor THEN Declared(m) ELSE {})
         /\ u.files = t.files /\ u.inventory = t.inventory /\ u.conf = t.conf
<1> DEFINE made == t.made \cup {root}
           rows == t.rows \cup {Row(e) : e \in in}
           links == t.links \cup {LinkRow(root, l) : l \in Desired(in)}
           registry == t.registry \cup (IF root = Anchor THEN Declared(m) ELSE {})
<1>1. u = [t EXCEPT !.made = made, !.rows = rows, !.links = links, !.registry = registry]
  BY DEF SeededTree
<1> HIDE DEF made, rows, links, registry
<1>2. u = TreeOf(made, rows, links, registry, t.files, t.inventory, t.conf)
  BY <1>1 DEF IsTree, TreeOf
<1>3. /\ IsTree(u) /\ u.made = made /\ u.rows = rows /\ u.links = links
      /\ u.registry = registry /\ u.files = t.files /\ u.inventory = t.inventory /\ u.conf = t.conf
  BY <1>2, TreeFields
<1> QED BY <1>3 DEF made, rows, links, registry

LEMMA SeedStep ==
  ASSUME TInv, NEW p \in Process, NEW root \in job[p].roots, seedRoot(p, root)
  PROVE  /\ TInv'
         /\ job[p].phase = "seed" /\ UNCHANGED out
         /\ job'[p].phase = "extract" /\ job'[p].m = job[p].m /\ job'[p].got = job[p].got
         /\ job'[p].lock = job[p].lock /\ job'[p].mode = job[p].mode
         /\ job'[p].roots = job[p].roots \ {root} /\ job'[p].root = root
         /\ job'[p].left = At(job[p].got, root)
         /\ \A q \in Process : q # p => job'[q] = job[q]
         /\ \A x \in Dirs : x # OutDir[p] => staging'[x] = staging[x]
         /\ staging'[OutDir[p]] =
              SeededTree(staging[OutDir[p]], job[p].m, root, At(job[p].got, root))
<1> DEFINE d == OutDir[p]
           in == At(job[p].got, root)
           roots == job[p].roots \ {root}
           t == SeededTree(staging[d], job[p].m, root, in)
           j == [job[p] EXCEPT !.phase = "extract", !.roots = roots, !.root = root, !.left = in]
<1>1. /\ Step(p, j) /\ UNCHANGED <<edits, sources, lockText, out>>
      /\ job[p].phase = "seed" /\ Accepts(staging[d], root, in)
      /\ staging' = [staging EXCEPT ![d] = t]
  BY DEF seedRoot, Doing, SeededTree
<1>2. IsJob(job[p]) /\ JobKnows(job[p]) /\ GoodLock(job[p].lock) /\ d \in Dirs /\ IsTree(staging[d])
  BY <1>1, OutIsDir DEF TInv, Shapes, Knows, GoodLocks, Locked, Assembling
<1>3. PathsApart(in)
  BY <1>1 DEF Accepts, PathsApart
<1>a. j = [job[p] EXCEPT !.phase = "extract", !.roots = roots, !.root = root, !.left = in]
  OBVIOUS
<1> HIDE DEF j
<1>b. j = JobOf("extract", job[p].mode, job[p].m, job[p].scan, job[p].lock, job[p].got, roots,
                root, in)
  BY <1>a, <1>2 DEF IsJob, JobOf
<1>4. /\ IsJob(j) /\ j.phase = "extract" /\ j.m = job[p].m /\ j.mode = job[p].mode
      /\ j.lock = job[p].lock /\ j.got = job[p].got /\ j.left = in /\ j.roots = roots
      /\ j.root = root
  BY <1>b, JobFields
<1>5. JobKnows(j)
  BY <1>1, <1>2, <1>3, <1>4 DEF JobKnows, Phases, Preparing, Assembling
<1>6. /\ job' = [q \in Process |-> job'[q]] /\ \A q \in Process : IsJob(job'[q])
      /\ Knows' /\ \A q \in Process : Locked(q)' => GoodLock(job'[q].lock)
      /\ job'[p] = j /\ \A q \in Process : q # p => job'[q] = job[q]
  BY <1>1, <1>2, <1>4, <1>5, JobFrame DEF TInv
<1>7. IsTree(t) /\ t.files = staging[d].files
  BY <1>2, SeededTreeFields
<1>8. /\ staging' = [x \in Dirs |-> staging'[x]] /\ \A x \in Dirs : IsTree(staging'[x])
      /\ staging'[d] = t /\ \A x \in Dirs : x # d => staging'[x] = staging[x]
  BY <1>1, <1>2, <1>7, TreeFrame DEF TInv
<1>9. OnePlaceOneThing'
  BY <1>7, <1>8 DEF TInv, OnePlaceOneThing
<1>10. TInv'
  BY <1>1, <1>6, <1>8, <1>9 DEF TInv, Sources, Shapes, GoodLocks, sources, lockText
<1> QED BY <1>1, <1>4, <1>6, <1>8, <1>10

(* A tree to which files are added.                                        *)
LEMMA FilesAdded ==
  ASSUME NEW t, IsTree(t), NEW files, NEW u, u = [t EXCEPT !.files = @ \cup files]
  PROVE  /\ IsTree(u) /\ u.files = t.files \cup files /\ u.made = t.made /\ u.rows = t.rows
         /\ u.links = t.links /\ u.registry = t.registry /\ u.inventory = t.inventory
         /\ u.conf = t.conf
<1> DEFINE all == t.files \cup files
<1>1. u = [t EXCEPT !.files = all]
  OBVIOUS
<1> HIDE DEF all
<1>2. u = TreeOf(t.made, t.rows, t.links, t.registry, all, t.inventory, t.conf)
  BY <1>1 DEF IsTree, TreeOf
<1>3. /\ IsTree(u) /\ u.files = all /\ u.made = t.made /\ u.rows = t.rows
      /\ u.links = t.links /\ u.registry = t.registry /\ u.inventory = t.inventory
      /\ u.conf = t.conf
  BY <1>2 DEF TreeOf, IsTree
<1> QED BY <1>3 DEF all

LEMMA ExtractStep ==
  ASSUME TInv, NEW p \in Process, NEW e \in job[p].left, extractPayload(p, e)
  PROVE  /\ TInv'
         /\ UNCHANGED out /\ job[p].phase = "extract" /\ job'[p].phase = "extract"
         /\ job'[p].m = job[p].m /\ job'[p].got = job[p].got /\ job'[p].roots = job[p].roots
         /\ job'[p].root = job[p].root /\ job'[p].left = job[p].left \ {e}
         /\ \A q \in Process : q # p => job'[q] = job[q]
         /\ \A x \in Dirs : x # OutDir[p] => staging'[x] = staging[x]
         /\ staging'[OutDir[p]] = [staging[OutDir[p]] EXCEPT !.files = @ \cup Payload(e)]
<1> DEFINE d == OutDir[p]
           left == job[p].left \ {e}
           t == [staging[d] EXCEPT !.files = @ \cup Payload(e)]
           j == [job[p] EXCEPT !.left = left]
<1>1. /\ Step(p, j) /\ UNCHANGED <<edits, sources, lockText, out>>
      /\ job[p].phase = "extract"
      /\ {f.at : f \in Payload(e)} \cap {f.at : f \in staging[d].files} = {}
      /\ staging' = [staging EXCEPT ![d] = t]
  BY DEF extractPayload, Doing, Occupied
<1>2. IsJob(job[p]) /\ JobKnows(job[p]) /\ GoodLock(job[p].lock) /\ d \in Dirs /\ IsTree(staging[d])
  BY <1>1, OutIsDir DEF TInv, Shapes, Knows, GoodLocks, Locked, Assembling
<1>a. j = [job[p] EXCEPT !.left = left]
  OBVIOUS
<1> HIDE DEF j
<1>b. j = JobOf(job[p].phase, job[p].mode, job[p].m, job[p].scan, job[p].lock, job[p].got,
                job[p].roots, job[p].root, left)
  BY <1>a, <1>2 DEF IsJob, JobOf
<1>4. /\ IsJob(j) /\ j.phase = "extract" /\ j.m = job[p].m /\ j.mode = job[p].mode
      /\ j.lock = job[p].lock /\ j.got = job[p].got /\ j.left = left
      /\ j.roots = job[p].roots /\ j.root = job[p].root
  <2>1. /\ IsJob(j) /\ j.phase = job[p].phase /\ j.mode = job[p].mode /\ j.m = job[p].m
        /\ j.lock = job[p].lock /\ j.got = job[p].got /\ j.roots = job[p].roots
        /\ j.root = job[p].root /\ j.left = left
    BY <1>b, JobFields
  <2> QED BY <2>1, <1>1
<1>5. JobKnows(j)
  BY <1>1, <1>2, <1>4 DEF JobKnows, Phases, Preparing, Assembling
<1>6. /\ job' = [q \in Process |-> job'[q]] /\ \A q \in Process : IsJob(job'[q])
      /\ Knows' /\ \A q \in Process : Locked(q)' => GoodLock(job'[q].lock)
      /\ job'[p] = j /\ \A q \in Process : q # p => job'[q] = job[q]
  BY <1>1, <1>2, <1>4, <1>5, JobFrame DEF TInv
<1>7. IsTree(t) /\ t.files = staging[d].files \cup Payload(e)
  BY <1>2, FilesAdded
<1>8. /\ staging' = [x \in Dirs |-> staging'[x]] /\ \A x \in Dirs : IsTree(staging'[x])
      /\ staging'[d] = t /\ \A x \in Dirs : x # d => staging'[x] = staging[x]
  BY <1>1, <1>2, <1>7, TreeFrame DEF TInv
<1>c. \A f, g \in Payload(e) : f.at = g.at => f = g
  BY DEF Payload, Placed
<1>9. OnePlaceOneThing'
  <2>1. \A f, g \in staging[d].files : f.at = g.at => f = g
    BY <1>2 DEF TInv, OnePlaceOneThing
  <2>2. \A f \in staging[d].files, g \in Payload(e) : f.at # g.at
    BY <1>1
  <2>3. \A f, g \in t.files : f.at = g.at => f = g
    BY <1>7, <1>c, <2>1, <2>2
  <2> QED BY <1>8, <2>3 DEF TInv, OnePlaceOneThing
<1>10. TInv'
  BY <1>1, <1>6, <1>8, <1>9 DEF TInv, Sources, Shapes, GoodLocks, sources, lockText
<1> QED BY <1>1, <1>4, <1>6, <1>8, <1>10

(* Of the packages of a root that claim a role, one comes before the       *)
(* others.                                                                 *)
LEMMA HolderClaims ==
  ASSUME NEW in, \A e \in in : Ranked(e.name), \A e, f \in in : e.name = f.name => e = f,
         NEW role, NEW c \in in, role \in DOMAIN c.file.claims
  PROVE  Holder(role, in) \in in /\ role \in DOMAIN Holder(role, in).file.claims
<1> DEFINE rivals == {e \in in : role \in DOMAIN e.file.claims}
           ranks == {i \in DOMAIN NameOrder : \E e \in rivals : NameOrder[i] = e.name}
<1>1. ranks \in SUBSET Nat /\ ranks # {}
  <2>1. DOMAIN NameOrder \subseteq Nat
    BY ComposeAssumption
  <2> QED BY <2>1 DEF Ranked
<1>2. PICK i \in ranks : \A k \in ranks : i <= k
  BY <1>1, LeastNumber
<1>3. PICK e \in rivals : NameOrder[i] = e.name
  BY <1>2
<1>4. \A f \in in : role \in DOMAIN f.file.claims => f = e \/ Before(e.name, f.name, NameOrder)
  <2> SUFFICES ASSUME NEW f \in in, role \in DOMAIN f.file.claims, f # e
               PROVE  Before(e.name, f.name, NameOrder)
    OBVIOUS
  <2>1. PICK k \in DOMAIN NameOrder : NameOrder[k] = f.name
    BY DEF Ranked
  <2>2. k \in ranks /\ f.name # e.name
    BY <2>1
  <2>3. i <= k /\ i # k /\ i \in Nat /\ k \in Nat
    BY <1>1, <1>2, <1>3, <2>1, <2>2
  <2>4. i < k
    BY <2>3
  <2> QED BY <1>2, <1>3, <2>1, <2>4 DEF Before
<1> HIDE DEF ranks
<1>5. \E h \in in : /\ role \in DOMAIN h.file.claims
                    /\ \A f \in in : role \in DOMAIN f.file.claims =>
                         f = h \/ Before(h.name, f.name, NameOrder)
  BY <1>3, <1>4
<1> QED BY <1>5 DEF Holder

(* Paths under one root that differ lead to different places.              *)
LEMMA PlacesApart ==
  ASSUME NEW root \in PathName, NEW x \in PathName, NEW y \in PathName, root \o x = root \o y
  PROVE  x = y
BY ConcatSimplifications DEF PathName

LEMMA AnchorIsPath == Anchor \in PathName
BY DEF Anchor, PathName

LEMMA MaterializeStep ==
  ASSUME TInv, NEW p \in Process, materializeClaims(p)
  PROVE  /\ TInv'
         /\ UNCHANGED out /\ job[p].phase = "extract" /\ job'[p].phase = "seed"
         /\ job'[p].m = job[p].m /\ job'[p].got = job[p].got /\ job'[p].roots = job[p].roots
         /\ job[p].left = {} /\ job'[p].left = {}
         /\ \A q \in Process : q # p => job'[q] = job[q]
         /\ \A x \in Dirs : x # OutDir[p] => staging'[x] = staging[x]
         /\ staging'[OutDir[p]] = [staging[OutDir[p]] EXCEPT !.files = @ \cup
              {Placed(job[p].root, l.path, l.by.file) : l \in Desired(At(job[p].got, job[p].root))}]
<1> DEFINE d == OutDir[p]
           root == job[p].root
           in == At(job[p].got, root)
           made == {Placed(root, l.path, l.by.file) : l \in Desired(in)}
           t == [staging[d] EXCEPT !.files = @ \cup made]
           j == [job[p] EXCEPT !.phase = "seed"]
<1>1. /\ Step(p, j) /\ UNCHANGED <<edits, sources, lockText, out>>
      /\ job[p].phase = "extract" /\ job[p].left = {}
      /\ {f.at : f \in made} \cap {f.at : f \in staging[d].files} = {}
      /\ staging' = [staging EXCEPT ![d] = t]
  BY DEF materializeClaims, Doing, Occupied, Goto
<1>2. IsJob(job[p]) /\ JobKnows(job[p]) /\ GoodLock(job[p].lock) /\ d \in Dirs /\ IsTree(staging[d])
  BY <1>1, OutIsDir DEF TInv, Shapes, Knows, GoodLocks, Locked, Assembling
<1>a. j = [job[p] EXCEPT !.phase = "seed"]
  OBVIOUS
<1> HIDE DEF j
<1>4. /\ IsJob(j) /\ j.phase = "seed" /\ j.m = job[p].m /\ j.mode = job[p].mode
      /\ j.lock = job[p].lock /\ j.got = job[p].got /\ j.left = job[p].left
      /\ j.roots = job[p].roots
  BY <1>a, <1>2, GotoFields
<1>5. JobKnows(j)
  BY <1>1, <1>2, <1>4 DEF JobKnows, Phases, Preparing, Assembling
<1>6. /\ job' = [q \in Process |-> job'[q]] /\ \A q \in Process : IsJob(job'[q])
      /\ Knows' /\ \A q \in Process : Locked(q)' => GoodLock(job'[q].lock)
      /\ job'[p] = j /\ \A q \in Process : q # p => job'[q] = job[q]
  BY <1>1, <1>2, <1>4, <1>5, JobFrame DEF TInv
<1> HIDE DEF made
<1>7. IsTree(t) /\ t.files = staging[d].files \cup made
  BY <1>2, FilesAdded
<1>8. /\ staging' = [x \in Dirs |-> staging'[x]] /\ \A x \in Dirs : IsTree(staging'[x])
      /\ staging'[d] = t /\ \A x \in Dirs : x # d => staging'[x] = staging[x]
  BY <1>1, <1>2, <1>7, TreeFrame DEF TInv
<1>c. \A f, g \in made : f.at = g.at => f = g
  <2>1. /\ PathsApart(in) /\ root \in RootsOf(job[p].m, job[p].got)
        /\ job[p].m = job[p].lock.intent /\ job[p].got = FullGot(job[p].lock)
        /\ \A g \in job[p].got : g.file \in Files
    BY <1>1, <1>2 DEF JobKnows, Preparing, Assembling
  <2>2. \A g \in job[p].got : g.root \in AnyRoot /\ Ranked(g.name)
    BY <1>2, <2>1 DEF GoodLock, Listing, FullGot, Fetched
  <2>3. root \in PathName
    <3>1. root \in AnyRoot
      BY <1>2, <2>1, <2>2 DEF RootsOf, RootPaths, AnyRoot, GoodLock
    <3>2. \A m \in Manifests : \A r \in Declared(m) : r \in PathName
      BY ComposeAssumption DEF Declared, Manifests
    <3> QED BY <3>1, <3>2, AnchorIsPath DEF RootPaths, AnyRoot
  <2>4. \A e, f \in in : e.name = f.name => e = f
    BY <1>2, <2>1 DEF At, FullGot, Fetched, GoodLock
  <2>5. \A e \in in : Ranked(e.name) /\ e.file \in Files
    BY <2>1, <2>2 DEF At
  <2>6. \A l \in Desired(in) : l.path \in PathName
    <3> SUFFICES ASSUME NEW l \in Desired(in) PROVE l.path \in PathName
      OBVIOUS
    <3>1. PICK role \in UNION {DOMAIN e.file.claims : e \in in} :
            l.path = Holder(role, in).file.claims[role]
      BY DEF Desired
    <3>2. PICK c \in in : role \in DOMAIN c.file.claims
      BY <3>1
    <3>3. Holder(role, in) \in in /\ role \in DOMAIN Holder(role, in).file.claims
      BY <2>4, <2>5, <3>2, HolderClaims
    <3> QED BY <2>5, <3>1, <3>3, ComposeAssumption
  <2> SUFFICES ASSUME NEW f \in made, NEW g \in made, f.at = g.at PROVE f = g
    OBVIOUS
  <2>7. PICK l \in Desired(in) : f = Placed(root, l.path, l.by.file)
    BY DEF made
  <2>8. PICK k \in Desired(in) : g = Placed(root, k.path, k.by.file)
    BY DEF made
  <2>9. root \o l.path = root \o k.path
    BY <2>7, <2>8 DEF Placed
  <2>10. l.path = k.path
    BY <2>3, <2>6, <2>9, PlacesApart
  <2> QED BY <2>1, <2>7, <2>8, <2>10 DEF PathsApart
<1>9. OnePlaceOneThing'
  <2>1. \A f, g \in staging[d].files : f.at = g.at => f = g
    BY <1>2 DEF TInv, OnePlaceOneThing
  <2>2. \A f \in staging[d].files, g \in made : f.at # g.at
    BY <1>1
  <2>3. \A f, g \in t.files : f.at = g.at => f = g
    BY <1>7, <1>c, <2>1, <2>2
  <2> QED BY <1>8, <2>3 DEF TInv, OnePlaceOneThing
<1>10. TInv'
  BY <1>1, <1>6, <1>8, <1>9 DEF TInv, Sources, Shapes, GoodLocks, sources, lockText
<1> QED BY <1>1, <1>4, <1>6, <1>8, <1>10 DEF made

LEMMA FinishStep ==
  ASSUME TInv, NEW p \in Process, finishImage(p)
  PROVE  /\ TInv'
         /\ UNCHANGED out /\ job[p].phase = "seed" /\ job[p].roots = {}
         /\ job'[p].phase = "rename" /\ job'[p].m = job[p].m /\ job'[p].got = job[p].got
         /\ job'[p].roots = {} /\ job'[p].left = {}
         /\ \A q \in Process : q # p => job'[q] = job[q]
         /\ \A x \in Dirs : x # OutDir[p] => staging'[x] = staging[x]
         /\ staging'[OutDir[p]] =
              TreeOf(staging[OutDir[p]].made, staging[OutDir[p]].rows, staging[OutDir[p]].links,
                     staging[OutDir[p]].registry, staging[OutDir[p]].files,
                     {Row(e) : e \in job[p].got}, TRUE)
<1> DEFINE d == OutDir[p]
           s == staging[d]
           inventory == {Row(e) : e \in job[p].got}
           t == TreeOf(s.made, s.rows, s.links, s.registry, s.files, inventory, TRUE)
           j == [job[p] EXCEPT !.phase = "rename"]
<1>1. /\ Step(p, j) /\ UNCHANGED <<edits, sources, lockText, out>>
      /\ job[p].phase = "seed" /\ job[p].roots = {}
      /\ staging' = [staging EXCEPT ![d] = [s EXCEPT !.inventory = inventory, !.conf = TRUE]]
  BY DEF finishImage, Doing, Goto
<1>2. IsJob(job[p]) /\ JobKnows(job[p]) /\ GoodLock(job[p].lock) /\ d \in Dirs /\ IsTree(s)
  BY <1>1, OutIsDir DEF TInv, Shapes, Knows, GoodLocks, Locked, Assembling
<1>a. j = [job[p] EXCEPT !.phase = "rename"]
  OBVIOUS
<1> HIDE DEF j
<1>4. /\ IsJob(j) /\ j.phase = "rename" /\ j.m = job[p].m /\ j.mode = job[p].mode
      /\ j.lock = job[p].lock /\ j.got = job[p].got /\ j.left = job[p].left
      /\ j.roots = job[p].roots
  BY <1>a, <1>2, GotoFields
<1>5. JobKnows(j) /\ job[p].left = {}
  BY <1>1, <1>2, <1>4 DEF JobKnows, Phases, Preparing, Assembling
<1>6. /\ job' = [q \in Process |-> job'[q]] /\ \A q \in Process : IsJob(job'[q])
      /\ Knows' /\ \A q \in Process : Locked(q)' => GoodLock(job'[q].lock)
      /\ job'[p] = j /\ \A q \in Process : q # p => job'[q] = job[q]
  BY <1>1, <1>2, <1>4, <1>5, JobFrame DEF TInv
<1> HIDE DEF inventory
<1>7. IsTree(t) /\ t.files = s.files
  BY DEF IsTree, TreeOf
<1>b. staging' = [staging EXCEPT ![d] = t]
  <2> DEFINE u == [s EXCEPT !.inventory = inventory, !.conf = TRUE]
  <2>1. staging' = [staging EXCEPT ![d] = u]
    BY <1>1
  <2>2. u = [s EXCEPT !.inventory = inventory, !.conf = TRUE]
    OBVIOUS
  <2> HIDE DEF u
  <2>3. IsTree(s)
    BY <1>2
  <2> HIDE DEF s
  <2>4. u = TreeOf(s.made, s.rows, s.links, s.registry, s.files, inventory, TRUE)
    BY <2>2, <2>3 DEF TreeOf, IsTree
  <2> QED BY <2>1, <2>4
<1>8. /\ staging' = [x \in Dirs |-> staging'[x]] /\ \A x \in Dirs : IsTree(staging'[x])
      /\ staging'[d] = t /\ \A x \in Dirs : x # d => staging'[x] = staging[x]
  BY <1>b, <1>2, <1>7, TreeFrame DEF TInv
<1>9. OnePlaceOneThing'
  BY <1>7, <1>8 DEF TInv, OnePlaceOneThing
<1>10. TInv'
  BY <1>1, <1>6, <1>8, <1>9 DEF TInv, Sources, Shapes, GoodLocks, sources, lockText
<1> QED BY <1>1, <1>4, <1>5, <1>6, <1>8, <1>10 DEF inventory

LEMMA PublishStep ==
  ASSUME TInv, NEW p \in Process, publish(p)
  PROVE  /\ TInv'
         /\ job[p].phase = "rename" /\ job'[p].phase = "idle"
         /\ \A q \in Process : q # p => job'[q] = job[q]
         /\ \A x \in Dirs : x # OutDir[p] => staging'[x] = staging[x] /\ out'[x] = out[x]
         /\ out'[OutDir[p]].tree = staging[OutDir[p]] /\ out'[OutDir[p]].mode = job[p].mode
         /\ out'[OutDir[p]].lock = job[p].lock /\ out'[OutDir[p]].m = job[p].m
         /\ job[p].m = job[p].lock.intent /\ job[p].mode.noDeps = job[p].lock.noDeps
         /\ job[p].got = FullGot(job[p].lock) /\ job[p].roots = {} /\ job[p].left = {}
<1> DEFINE d == OutDir[p]
           image == [tree |-> staging[d], mode |-> job[p].mode, lock |-> job[p].lock,
                     m |-> job[p].m]
<1>1. /\ Step(p, Idle) /\ UNCHANGED <<edits, sources, lockText>>
      /\ job[p].phase = "rename"
      /\ staging' = [staging EXCEPT ![d] = Blank] /\ out' = [out EXCEPT ![d] = image]
  BY DEF publish, Doing
<1>2. IsJob(job[p]) /\ JobKnows(job[p]) /\ GoodLock(job[p].lock) /\ d \in Dirs
  BY <1>1, OutIsDir DEF TInv, Shapes, Knows, GoodLocks, Locked, Assembling
<1>3. /\ job' = [q \in Process |-> job'[q]] /\ \A q \in Process : IsJob(job'[q])
      /\ Knows' /\ \A q \in Process : Locked(q)' => GoodLock(job'[q].lock)
      /\ job'[p] = Idle /\ \A q \in Process : q # p => job'[q] = job[q]
  BY <1>1, IdleKnows, JobFrame DEF TInv, Preparing, Assembling
<1>4. /\ staging' = [x \in Dirs |-> staging'[x]] /\ \A x \in Dirs : IsTree(staging'[x])
      /\ staging'[d] = Blank /\ \A x \in Dirs : x # d => staging'[x] = staging[x]
  BY <1>1, <1>2, BlankTree, TreeFrame DEF TInv
<1>5. /\ out' = [x \in Dirs |-> out'[x]] /\ out'[d] = image
      /\ \A x \in Dirs : x # d => out'[x] = out[x]
  <2>1. out' = [x \in Dirs |-> IF x = d THEN image ELSE out[x]]
    BY <1>1 DEF TInv, Shapes
  <2> HIDE DEF image
  <2> QED BY <1>2, <2>1
<1>6. OnePlaceOneThing'
  BY <1>4, BlankTree DEF TInv, OnePlaceOneThing
<1>7. \A x \in Dirs : out'[x] # None => GoodLock(out'[x].lock)
  BY <1>2, <1>5 DEF TInv, GoodLocks
<1>8. TInv'
  BY <1>1, <1>3, <1>4, <1>5, <1>6, <1>7 DEF TInv, Sources, Shapes, GoodLocks, sources, lockText
<1>9. /\ job[p].m = job[p].lock.intent /\ job[p].mode.noDeps = job[p].lock.noDeps
      /\ job[p].got = FullGot(job[p].lock) /\ job[p].roots = {} /\ job[p].left = {}
  BY <1>1, <1>2 DEF JobKnows, Assembling
<1> QED BY <1>1, <1>3, <1>4, <1>5, <1>8, <1>9, IdleKnows

LEMMA InitTInv == Init => TInv
<1> SUFFICES ASSUME Init PROVE TInv
  OBVIOUS
<1>1. Sources
  <2>1. edits \in DOMAIN Manifest /\ listed \subseteq Files /\ revoked \subseteq Key
        /\ pending \subseteq Change
    BY ComposeAssumption DEF Init, Files
  <2>2. \A u \in DOMAIN store : store[u] # None => store[u] \in Files /\ store[u].url = u
    <3> TAKE u \in DOMAIN store
    <3>1. u \in {a.url : a \in Files}
      BY DEF Init
    <3>2. store[u] = IF \E a \in Listed \cup Pool : a.url = u
                     THEN CHOOSE a \in Listed \cup Pool : a.url = u ELSE None
      BY <3>1 DEF Init
    <3> QED BY <3>2 DEF Files
  <2> QED BY <2>1, <2>2 DEF Sources
<1>2. Shapes
  BY IdleKnows, BlankTree DEF Init, Shapes, Dirs
<1>3. GoodLocks
  BY IdleKnows DEF Init, GoodLocks, Locked, Preparing, Assembling, Dirs
<1>4. Knows
  BY IdleKnows DEF Init, Knows
<1>5. OnePlaceOneThing
  BY BlankTree DEF Init, OnePlaceOneThing, Dirs
<1> QED BY <1>1, <1>2, <1>3, <1>4, <1>5 DEF TInv

LEMMA NextTInv == TInv /\ [Next]_vars => TInv'
<1> SUFFICES ASSUME TInv, [Next]_vars PROVE TInv'
  OBVIOUS
<1>1. CASE UNCHANGED vars
  BY <1>1 DEF vars, sources, lockText, TInv, Sources, Shapes, GoodLocks, Knows, Locked, OnePlaceOneThing
<1>2. CASE Edit
  BY <1>2, EditKeeps
<1>3. ASSUME NEW c \in pending, ChangeSources(c) PROVE TInv'
  BY <1>3, ChangeSourcesKeeps
<1>4. ASSUME NEW p \in Process, Build(p) PROVE TInv'
  <2>1. \/ \E mode \in Mode : Start(p, mode)
        \/ useLock(p) \/ scanSources(p) \/ resolve(p) \/ truncate(p) \/ writeLock(p) \/ tearLock(p)
        \/ \E e \in Awaited(p) : fetchOne(p, e)
        \/ clearStaging(p) \/ \E root \in job[p].roots : seedRoot(p, root)
        \/ \E e \in job[p].left : extractPayload(p, e)
        \/ materializeClaims(p) \/ finishImage(p) \/ publish(p) \/ Fail(p)
    BY <1>4 DEF Build
  <2> QED BY <2>1, StartKeeps, UseLockKeeps, ScanKeeps, ResolveKeeps, TruncateKeeps, WriteLockKeeps,
             TearLockKeeps, FetchKeeps, ClearStep, SeedStep, ExtractStep, MaterializeStep,
             FinishStep, PublishStep, FailKeeps
<1> QED BY <1>1, <1>2, <1>3, <1>4 DEF Next

LEMMA TypesFollow == TInv => TypeOK
<1> SUFFICES ASSUME TInv PROVE TypeOK
  OBVIOUS
<1>1. \A p \in Process : job[p].left \subseteq job[p].got
  BY DEF TInv, Knows, JobKnows, At
<1>2. DOMAIN staging = Dirs
  BY DEF TInv, Shapes
<1>3. \A d \in DOMAIN staging : \A f, g \in staging[d].files : f.at = g.at => f = g
  BY <1>2 DEF TInv, OnePlaceOneThing
<1>4. lockFile \notin {None, Unreadable} => lockFile.packages # {}
  BY DEF TInv, GoodLocks, GoodLock
<1> QED BY <1>1, <1>3, <1>4
     DEF TypeOK, TInv, Sources, Knows, JobKnows, Phases, Preparing, Assembling

(* However many builds run, share a lock file or an output path, fail or   *)
(* are killed, every variable has its shape and nothing is written over in *)
(* a staging tree (extractPreparedPayload, materializeClaims).             *)
THEOREM TypeCorrect == Spec => []TypeOK
<1>1. Spec => []TInv
  BY InitTInv, NextTInv, PTL DEF Spec
<1> QED BY <1>1, TypesFollow, PTL

-----------------------------------------------------------------------------
(* A staging tree that one run has to itself holds what that run has made. *)

LEMMA AssembledFields ==
  ASSUME NEW j, NEW t, t = Assembled(j)
  PROVE  /\ IsTree(t) /\ t.made = Seeded(j)
         /\ t.rows = {Row(e) : e \in {g \in j.got : g.root \in Seeded(j)}}
         /\ t.links = LinksIn(j.got, Seeded(j))
         /\ t.registry = (IF Anchor \in Seeded(j) THEN Declared(j.m) ELSE {})
         /\ t.files = FilesOf({g \in j.got : g.root \in Seeded(j) /\ g \notin j.left})
                        \cup LinkFiles(LinksIn(j.got, Linked(j)))
         /\ t.inventory = (IF j.phase = "rename" THEN {Row(e) : e \in j.got} ELSE {})
         /\ t.conf = (j.phase = "rename")
<1> DEFINE made == Seeded(j)
           rows == {Row(e) : e \in {g \in j.got : g.root \in Seeded(j)}}
           links == LinksIn(j.got, Seeded(j))
           registry == IF Anchor \in Seeded(j) THEN Declared(j.m) ELSE {}
           files == FilesOf({g \in j.got : g.root \in Seeded(j) /\ g \notin j.left})
                      \cup LinkFiles(LinksIn(j.got, Linked(j)))
           inventory == IF j.phase = "rename" THEN {Row(e) : e \in j.got} ELSE {}
           conf == j.phase = "rename"
<1>1. t = TreeOf(made, rows, links, registry, files, inventory, conf)
  BY DEF Assembled, TreeOf
<1> HIDE DEF made, rows, links, registry, files, inventory, conf
<1>2. /\ IsTree(t) /\ t.made = made /\ t.rows = rows /\ t.links = links
      /\ t.registry = registry /\ t.files = files /\ t.inventory = inventory /\ t.conf = conf
  BY <1>1, TreeFields
<1> QED BY <1>2 DEF made, rows, links, registry, files, inventory, conf

(* Before the last phase there is no inventory and no configuration.       *)
LEMMA AssembledMidway ==
  ASSUME NEW j, NEW t, t = Assembled(j), j.phase # "rename"
  PROVE  /\ IsTree(t) /\ t.made = Seeded(j)
         /\ t.rows = {Row(e) : e \in {g \in j.got : g.root \in Seeded(j)}}
         /\ t.links = LinksIn(j.got, Seeded(j))
         /\ t.registry = (IF Anchor \in Seeded(j) THEN Declared(j.m) ELSE {})
         /\ t.files = FilesOf({g \in j.got : g.root \in Seeded(j) /\ g \notin j.left})
                        \cup LinkFiles(LinksIn(j.got, Linked(j)))
         /\ t.inventory = {} /\ t.conf = FALSE
<1>1. t.inventory = (IF j.phase = "rename" THEN {Row(e) : e \in j.got} ELSE {})
  BY AssembledFields
<1>2. t.inventory = {}
  BY <1>1
<1>3. t.conf = (j.phase = "rename")
  BY AssembledFields
<1>4. t.conf = FALSE
  BY <1>3
<1> QED BY <1>2, <1>4, AssembledFields

LEMMA SameTree ==
  ASSUME NEW t, NEW u, IsTree(t), IsTree(u), t.made = u.made, t.rows = u.rows,
         t.links = u.links, t.registry = u.registry, t.files = u.files,
         t.inventory = u.inventory, t.conf = u.conf
  PROVE  t = u
BY DEF IsTree

PlacedLinks(got, root) == {Placed(root, l.path, l.by.file) : l \in Desired(At(got, root))}

LEMMA LinksAdded ==
  ASSUME NEW got, NEW S, NEW root
  PROVE  /\ LinksIn(got, S \cup {root}) =
              LinksIn(got, S) \cup {LinkRow(root, l) : l \in Desired(At(got, root))}
         /\ LinkFiles(LinksIn(got, S \cup {root})) =
              LinkFiles(LinksIn(got, S)) \cup PlacedLinks(got, root)
<1> DEFINE add == {LinkRow(root, l) : l \in Desired(At(got, root))}
           links == LinksIn(got, S)
<1>1. LinksIn(got, S \cup {root}) = links \cup add
  BY DEF LinksIn
<1>2. LinkFiles(links \cup add) = LinkFiles(links) \cup LinkFiles(add)
  BY DEF LinkFiles
<1>3. LinkFiles(add) = PlacedLinks(got, root)
  <2>1. \A l : LET k == LinkRow(root, l)
               IN Placed(k.root, k.path, k.by) = Placed(root, l.path, l.by.file)
    BY DEF LinkRow
  <2>2. LinkFiles(add) =
          {Placed(LinkRow(root, l).root, LinkRow(root, l).path, LinkRow(root, l).by)
             : l \in Desired(At(got, root))}
    BY DEF LinkFiles
  <2> QED BY <2>1, <2>2 DEF PlacedLinks
<1> QED BY <1>1, <1>2, <1>3

LEMMA FilesOfAdded ==
  ASSUME NEW S, NEW e
  PROVE  FilesOf(S \cup {e}) = FilesOf(S) \cup Payload(e)
BY DEF FilesOf

(* One step of one run, with the rest left alone.                          *)
LEMMA ProgressFrom ==
  ASSUME OutputsApart, TInv, Progress, NEW p \in Process,
         \A q \in Process : q # p => job'[q] = job[q],
         \A x \in Dirs : x # OutDir[p] => staging'[x] = staging[x],
         job'[p].phase \in Assembling => staging'[OutDir[p]] = Assembled(job'[p])
  PROVE  Progress'
<1>1. ASSUME NEW q \in Process, job'[q].phase \in Assembling
      PROVE  staging'[OutDir[q]] = Assembled(job'[q])
  <2>1. CASE q = p
    BY <2>1, <1>1
  <2>2. CASE q # p
    <3>1. OutDir[q] # OutDir[p] /\ OutDir[q] \in Dirs
      BY <2>2, OutIsDir DEF OutputsApart
    <3>2. job'[q] = job[q] /\ staging'[OutDir[q]] = staging[OutDir[q]]
      BY <2>2, <3>1
    <3>3. job[q].phase \in Assembling
      BY <1>1, <3>2
    <3>4. staging[OutDir[q]] = Assembled(job[q])
      BY <3>3 DEF Progress
    <3> QED BY <3>2, <3>4
  <2> QED BY <2>1, <2>2
<1> QED BY <1>1 DEF Progress, Assembling

Quiet(p) ==
  \/ \E mode \in Mode : Start(p, mode)
  \/ useLock(p) \/ scanSources(p) \/ resolve(p) \/ truncate(p) \/ writeLock(p) \/ tearLock(p)
  \/ \E e \in Awaited(p) : fetchOne(p, e)
  \/ Fail(p)

(* A run that is not assembling leaves the trees alone.                    *)
LEMMA QuietStep ==
  ASSUME TInv, NEW p \in Process, Quiet(p)
  PROVE  /\ UNCHANGED <<staging, out>>
         /\ \A q \in Process : q # p => job'[q] = job[q]
         /\ job'[p].phase \notin Assembling
<1>1. job = [q \in Process |-> job[q]] /\ IsJob(job[p])
  BY DEF TInv, Shapes
<1>2. ASSUME NEW j, Step(p, j), j.phase \notin Assembling
      PROVE  /\ \A q \in Process : q # p => job'[q] = job[q]
             /\ job'[p].phase \notin Assembling
  <2>1. job' = [q \in Process |-> IF q = p THEN j ELSE job[q]]
    BY <1>1, <1>2 DEF Step
  <2> QED BY <2>1, <1>2
<1>3. Idle.phase \notin Assembling
  BY DEF Idle, Assembling
<1>4. ASSUME NEW mode \in Mode, Start(p, mode)
      PROVE  UNCHANGED <<staging, out>> /\ \E j : Step(p, j) /\ j.phase \notin Assembling
  <2> DEFINE j == [Idle EXCEPT !.phase = "choose", !.mode = mode, !.m = Manifest[edits]]
  <2>1. j.phase = "choose"
    BY DEF Idle
  <2> QED BY <1>4, <2>1 DEF Start, Assembling
<1>5. ASSUME useLock(p)
      PROVE  UNCHANGED <<staging, out>> /\ \E j : Step(p, j) /\ j.phase \notin Assembling
  <2> DEFINE j == [job[p] EXCEPT !.phase = "fetch", !.lock = lockFile]
  <2>1. j.phase = "fetch"
    BY <1>1 DEF IsJob
  <2> QED BY <1>5, <2>1 DEF useLock, Assembling
<1>6. ASSUME scanSources(p)
      PROVE  UNCHANGED <<staging, out>> /\ \E j : Step(p, j) /\ j.phase \notin Assembling
  <2>1. PICK reached \in BOOLEAN :
          Step(p, [job[p] EXCEPT !.phase = "resolve", !.scan = ScanSources(job[p].m, reached)])
    BY <1>6 DEF scanSources
  <2>2. [job[p] EXCEPT !.phase = "resolve", !.scan = ScanSources(job[p].m, reached)].phase
          = "resolve"
    BY <1>1 DEF IsJob
  <2> QED BY <1>6, <2>1, <2>2 DEF scanSources, Assembling
<1>7. ASSUME resolve(p)
      PROVE  UNCHANGED <<staging, out>> /\ \E j : Step(p, j) /\ j.phase \notin Assembling
  <2>1. PICK lock : Step(p, [job[p] EXCEPT !.phase = "truncate", !.scan = None, !.lock = lock])
    BY <1>7 DEF resolve
  <2>2. [job[p] EXCEPT !.phase = "truncate", !.scan = None, !.lock = lock].phase = "truncate"
    BY <1>1 DEF IsJob
  <2> QED BY <1>7, <2>1, <2>2 DEF resolve, Assembling
<1>8. ASSUME truncate(p) \/ writeLock(p)
      PROVE  UNCHANGED <<staging, out>> /\ \E j : Step(p, j) /\ j.phase \notin Assembling
  <2>1. PICK phase \in {"write", "fetch", "idle"} : Step(p, Idle) \/ Goto(p, phase)
    BY <1>8 DEF truncate, writeLock
  <2>2. [job[p] EXCEPT !.phase = phase].phase = phase
    BY <1>1 DEF IsJob
  <2>3. UNCHANGED <<staging, out>>
    BY <1>8 DEF truncate, writeLock
  <2>4. CASE Step(p, Idle)
    BY <2>3, <2>4, <1>3
  <2>5. CASE Goto(p, phase)
    <3>1. Step(p, [job[p] EXCEPT !.phase = phase]) /\ phase \notin Assembling
      BY <2>5 DEF Goto, Assembling
    <3> QED BY <2>2, <2>3, <3>1
  <2> QED BY <2>1, <2>4, <2>5
<1>9. ASSUME tearLock(p) \/ Fail(p)
      PROVE  UNCHANGED <<staging, out>> /\ \E j : Step(p, j) /\ j.phase \notin Assembling
  BY <1>3, <1>9 DEF tearLock, Fail
<1>10. ASSUME NEW e \in Awaited(p), fetchOne(p, e)
       PROVE  UNCHANGED <<staging, out>> /\ \E j : Step(p, j) /\ j.phase \notin Assembling
  <2>1. PICK got : Step(p, [job[p] EXCEPT !.got = got])
    BY <1>10 DEF fetchOne
  <2>2. [job[p] EXCEPT !.got = got].phase = "fetch"
    BY <1>1, <1>10 DEF IsJob, fetchOne, Doing
  <2> QED BY <1>10, <2>1, <2>2 DEF fetchOne, Assembling
<1>11. UNCHANGED <<staging, out>> /\ \E j : Step(p, j) /\ j.phase \notin Assembling
  BY <1>4, <1>5, <1>6, <1>7, <1>8, <1>9, <1>10 DEF Quiet
<1> QED BY <1>2, <1>11

LEMMA QuietProgress ==
  ASSUME OutputsApart, TInv, Progress, NEW p \in Process, Quiet(p) PROVE Progress'
<1>1. staging' = staging /\ job'[p].phase \notin Assembling
      /\ \A q \in Process : q # p => job'[q] = job[q]
  BY QuietStep
<1> QED BY <1>1, ProgressFrom

(* Nothing is in a cleared tree, and nothing is assembled yet.             *)
LEMMA ClearProgress ==
  ASSUME OutputsApart, TInv, Progress, NEW p \in Process, clearStaging(p) PROVE Progress'
<1> DEFINE d == OutDir[p]
           j == job'[p]
           t == Assembled(j)
<1>1. /\ j.phase = "seed" /\ j.left = {} /\ j.roots = RootsOf(j.m, j.got)
      /\ \A q \in Process : q # p => job'[q] = job[q]
      /\ \A x \in Dirs : x # d => staging'[x] = staging[x]
      /\ staging'[d] = Blank
  BY ClearStep
<1> HIDE DEF j
<1>2. Seeded(j) = {} /\ Linked(j) = {}
  BY <1>1 DEF Seeded, Linked
<1> HIDE DEF t
<1>3. /\ IsTree(t) /\ t.made = {} /\ t.rows = {} /\ t.links = {} /\ t.registry = {}
      /\ t.files = {} /\ t.inventory = {} /\ t.conf = FALSE
  <2>1. \A got : LinksIn(got, {}) = {}
    BY DEF LinksIn
  <2>2. LinkFiles({}) = {} /\ FilesOf({}) = {}
    BY DEF LinkFiles, FilesOf
  <2>3. {g \in j.got : g.root \in Seeded(j) /\ g \notin j.left} = {}
        /\ {Row(e) : e \in {g \in j.got : g.root \in Seeded(j)}} = {}
    BY <1>2
  <2>4. /\ IsTree(t) /\ t.made = Seeded(j)
        /\ t.rows = {Row(e) : e \in {g \in j.got : g.root \in Seeded(j)}}
        /\ t.links = LinksIn(j.got, Seeded(j))
        /\ t.registry = (IF Anchor \in Seeded(j) THEN Declared(j.m) ELSE {})
        /\ t.files = FilesOf({g \in j.got : g.root \in Seeded(j) /\ g \notin j.left})
                       \cup LinkFiles(LinksIn(j.got, Linked(j)))
        /\ t.inventory = {} /\ t.conf = FALSE
    <3>1. t = Assembled(j) /\ j.phase # "rename"
      BY <1>1 DEF t
    <3> HIDE DEF t, j
    <3> QED BY <3>1, AssembledMidway
  <2> QED BY <1>2, <2>1, <2>2, <2>3, <2>4
<1>4. t = Blank
  BY <1>3, BlankTree, SameTree DEF Blank
<1> QED BY <1>1, <1>4, ProgressFrom DEF j, t

LEMMA SeedProgress ==
  ASSUME OutputsApart, TInv, Progress, NEW p \in Process, NEW root \in job[p].roots,
         seedRoot(p, root)
  PROVE  Progress'
<1> DEFINE d == OutDir[p]
           k == job[p]
           j == job'[p]
           s == staging[d]
           in == At(k.got, root)
           t == SeededTree(s, k.m, root, in)
           u == Assembled(j)
<1>1. /\ k.phase = "seed" /\ j.phase = "extract" /\ j.m = k.m /\ j.got = k.got
      /\ j.roots = k.roots \ {root} /\ j.root = root /\ j.left = in
      /\ \A q \in Process : q # p => job'[q] = job[q]
      /\ \A x \in Dirs : x # d => staging'[x] = staging[x]
      /\ staging'[d] = t
  BY SeedStep
<1>2. s = Assembled(k) /\ k.roots \subseteq RootsOf(k.m, k.got) /\ k.left = {} /\ root \in k.roots
  BY <1>1 DEF Progress, TInv, Knows, JobKnows, Assembling
<1> HIDE DEF k, j, s, d
<1>3. Seeded(j) = Seeded(k) \cup {root} /\ root \notin Seeded(k)
  BY <1>1, <1>2 DEF Seeded
<1>4. Linked(j) = Linked(k) /\ Linked(k) = Seeded(k)
  BY <1>1, <1>3 DEF Linked
<1>5. /\ IsTree(s) /\ s.made = Seeded(k)
      /\ s.rows = {Row(e) : e \in {g \in k.got : g.root \in Seeded(k)}}
      /\ s.links = LinksIn(k.got, Seeded(k))
      /\ s.registry = (IF Anchor \in Seeded(k) THEN Declared(k.m) ELSE {})
      /\ s.files = FilesOf({g \in k.got : g.root \in Seeded(k) /\ g \notin k.left})
                     \cup LinkFiles(LinksIn(k.got, Linked(k)))
      /\ s.inventory = {} /\ s.conf = FALSE
  <2>1. s = Assembled(k) /\ k.phase # "rename"
    BY <1>1, <1>2
  <2> QED BY <2>1, AssembledMidway
<1> HIDE DEF t, in
<1>6. /\ IsTree(t) /\ t.made = s.made \cup {root}
      /\ t.rows = s.rows \cup {Row(e) : e \in in}
      /\ t.links = s.links \cup {LinkRow(root, l) : l \in Desired(in)}
      /\ t.registry = s.registry \cup (IF root = Anchor THEN Declared(k.m) ELSE {})
      /\ t.files = s.files /\ t.inventory = s.inventory /\ t.conf = s.conf
  BY <1>5, SeededTreeFields DEF t
<1> HIDE DEF u
<1>7. /\ IsTree(u) /\ u.made = Seeded(j)
      /\ u.rows = {Row(e) : e \in {g \in j.got : g.root \in Seeded(j)}}
      /\ u.links = LinksIn(j.got, Seeded(j))
      /\ u.registry = (IF Anchor \in Seeded(j) THEN Declared(j.m) ELSE {})
      /\ u.files = FilesOf({g \in j.got : g.root \in Seeded(j) /\ g \notin j.left})
                     \cup LinkFiles(LinksIn(j.got, Linked(j)))
      /\ u.inventory = {} /\ u.conf = FALSE
  <2>1. u = Assembled(j) /\ j.phase # "rename"
    BY <1>1 DEF u
  <2> QED BY <2>1, AssembledMidway
<1>8. t.rows = u.rows
  BY <1>1, <1>3, <1>5, <1>6, <1>7 DEF in, At
<1>9. t.links = u.links
  BY <1>1, <1>3, <1>5, <1>6, <1>7, LinksAdded DEF in
<1>10. t.registry = u.registry
  BY <1>1, <1>3, <1>5, <1>6, <1>7
<1>11. t.files = u.files
  <2>1. {g \in k.got : g.root \in Seeded(k) /\ g \notin k.left}
          = {g \in j.got : g.root \in Seeded(j) /\ g \notin j.left}
    BY <1>1, <1>2, <1>3 DEF in, At
  <2> QED BY <2>1, <1>1, <1>4, <1>5, <1>6, <1>7
<1>12. t = u
  BY <1>3, <1>5, <1>6, <1>7, <1>8, <1>9, <1>10, <1>11, SameTree
<1> QED BY <1>1, <1>12, ProgressFrom DEF j, u, d

LEMMA ExtractProgress ==
  ASSUME OutputsApart, TInv, Progress, NEW p \in Process, NEW e \in job[p].left,
         extractPayload(p, e)
  PROVE  Progress'
<1> DEFINE d == OutDir[p]
           k == job[p]
           j == job'[p]
           s == staging[d]
           t == [s EXCEPT !.files = @ \cup Payload(e)]
           u == Assembled(j)
<1>1. /\ k.phase = "extract" /\ j.phase = "extract" /\ j.m = k.m /\ j.got = k.got
      /\ j.roots = k.roots /\ j.root = k.root /\ j.left = k.left \ {e}
      /\ \A q \in Process : q # p => job'[q] = job[q]
      /\ \A x \in Dirs : x # d => staging'[x] = staging[x]
      /\ staging'[d] = t
  BY ExtractStep
<1>2. /\ s = Assembled(k) /\ k.root \in RootsOf(k.m, k.got) \ k.roots
      /\ k.left \subseteq At(k.got, k.root) /\ e \in k.left
  BY <1>1 DEF Progress, TInv, Knows, JobKnows, Assembling
<1> HIDE DEF k, j, s, d
<1>3. Seeded(j) = Seeded(k) /\ Linked(j) = Linked(k) /\ k.root \in Seeded(k)
  BY <1>1, <1>2 DEF Seeded, Linked
<1>5. /\ IsTree(s) /\ s.made = Seeded(k)
      /\ s.rows = {Row(f) : f \in {g \in k.got : g.root \in Seeded(k)}}
      /\ s.links = LinksIn(k.got, Seeded(k))
      /\ s.registry = (IF Anchor \in Seeded(k) THEN Declared(k.m) ELSE {})
      /\ s.files = FilesOf({g \in k.got : g.root \in Seeded(k) /\ g \notin k.left})
                     \cup LinkFiles(LinksIn(k.got, Linked(k)))
      /\ s.inventory = {} /\ s.conf = FALSE
  <2>1. k.phase # "rename" /\ s = Assembled(k)
    BY <1>1, <1>2
  <2> QED BY <2>1, AssembledMidway
<1>a. t = [s EXCEPT !.files = @ \cup Payload(e)]
  OBVIOUS
<1> HIDE DEF t
<1>6. /\ IsTree(t) /\ t.files = s.files \cup Payload(e) /\ t.made = s.made /\ t.rows = s.rows
      /\ t.links = s.links /\ t.registry = s.registry /\ t.inventory = s.inventory
      /\ t.conf = s.conf
  <2> DEFINE more == Payload(e)
  <2>1. IsTree(s) /\ t = [s EXCEPT !.files = @ \cup more]
    BY <1>a, <1>5
  <2> HIDE DEF more
  <2>2. /\ IsTree(t) /\ t.files = s.files \cup more /\ t.made = s.made /\ t.rows = s.rows
        /\ t.links = s.links /\ t.registry = s.registry /\ t.inventory = s.inventory
        /\ t.conf = s.conf
    BY <2>1, FilesAdded
  <2> QED BY <2>2 DEF more
<1> HIDE DEF u
<1>7. /\ IsTree(u) /\ u.made = Seeded(j)
      /\ u.rows = {Row(f) : f \in {g \in j.got : g.root \in Seeded(j)}}
      /\ u.links = LinksIn(j.got, Seeded(j))
      /\ u.registry = (IF Anchor \in Seeded(j) THEN Declared(j.m) ELSE {})
      /\ u.files = FilesOf({g \in j.got : g.root \in Seeded(j) /\ g \notin j.left})
                     \cup LinkFiles(LinksIn(j.got, Linked(j)))
      /\ u.inventory = {} /\ u.conf = FALSE
  <2>1. u = Assembled(j) /\ j.phase # "rename"
    BY <1>1 DEF u
  <2> QED BY <2>1, AssembledMidway
<1>8. t.files = u.files
  <2> DEFINE before == {g \in k.got : g.root \in Seeded(k) /\ g \notin k.left}
             after == {g \in j.got : g.root \in Seeded(j) /\ g \notin j.left}
  <2>1. e \in k.got /\ e.root = k.root
    BY <1>2 DEF At
  <2>2. after = before \cup {e}
    BY <2>1, <1>1, <1>2, <1>3
  <2> HIDE DEF before, after
  <2>3. FilesOf(after) = FilesOf(before) \cup Payload(e)
    BY <2>2, FilesOfAdded
  <2>4. s.files = FilesOf(before) \cup LinkFiles(LinksIn(k.got, Linked(k)))
    BY <1>5 DEF before
  <2>5. u.files = FilesOf(after) \cup LinkFiles(LinksIn(j.got, Linked(j)))
    BY <1>7 DEF after
  <2>6. LinkFiles(LinksIn(j.got, Linked(j))) = LinkFiles(LinksIn(k.got, Linked(k)))
    BY <1>1, <1>3
  <2> QED BY <2>3, <2>4, <2>5, <2>6, <1>6
<1>9. t = u
  <2>1. t.made = u.made /\ t.inventory = u.inventory /\ t.conf = u.conf
    BY <1>3, <1>5, <1>6, <1>7
  <2>2. t.rows = u.rows
    BY <1>1, <1>3, <1>5, <1>6, <1>7
  <2>3. t.links = u.links
    BY <1>1, <1>3, <1>5, <1>6, <1>7
  <2>4. t.registry = u.registry
    BY <1>1, <1>3, <1>5, <1>6, <1>7
  <2> QED BY <2>1, <2>2, <2>3, <2>4, <1>6, <1>7, <1>8, SameTree
<1> QED BY <1>1, <1>9, ProgressFrom DEF j, u, d

LEMMA MaterializeProgress ==
  ASSUME OutputsApart, TInv, Progress, NEW p \in Process, materializeClaims(p) PROVE Progress'
<1> DEFINE d == OutDir[p]
           k == job[p]
           j == job'[p]
           s == staging[d]
           made == {Placed(k.root, l.path, l.by.file) : l \in Desired(At(k.got, k.root))}
           t == staging'[d]
           u == Assembled(j)
<1>1. /\ k.phase = "extract" /\ j.phase = "seed" /\ j.m = k.m /\ j.got = k.got
      /\ j.roots = k.roots /\ k.left = {} /\ j.left = {}
      /\ \A q \in Process : q # p => job'[q] = job[q]
      /\ \A x \in Dirs : x # d => staging'[x] = staging[x]
      /\ t = [s EXCEPT !.files = @ \cup made]
  BY MaterializeStep
<1>2. s = Assembled(k) /\ k.root \in RootsOf(k.m, k.got) \ k.roots
  BY <1>1 DEF Progress, TInv, Knows, JobKnows, Assembling
<1> HIDE DEF k, j, s, t, d, made
<1>3. /\ Seeded(j) = Seeded(k) /\ Linked(j) = Linked(k) \cup {k.root}
  BY <1>1, <1>2 DEF Seeded, Linked
<1>5. /\ IsTree(s) /\ s.made = Seeded(k)
      /\ s.rows = {Row(f) : f \in {g \in k.got : g.root \in Seeded(k)}}
      /\ s.links = LinksIn(k.got, Seeded(k))
      /\ s.registry = (IF Anchor \in Seeded(k) THEN Declared(k.m) ELSE {})
      /\ s.files = FilesOf({g \in k.got : g.root \in Seeded(k) /\ g \notin k.left})
                     \cup LinkFiles(LinksIn(k.got, Linked(k)))
      /\ s.inventory = {} /\ s.conf = FALSE
  <2>1. k.phase # "rename" /\ s = Assembled(k)
    BY <1>1, <1>2
  <2> QED BY <2>1, AssembledMidway
<1>6. /\ IsTree(t) /\ t.files = s.files \cup made /\ t.made = s.made /\ t.rows = s.rows
      /\ t.links = s.links /\ t.registry = s.registry /\ t.inventory = s.inventory
      /\ t.conf = s.conf
  <2>1. IsTree(s) /\ t = [s EXCEPT !.files = @ \cup made]
    BY <1>1, <1>5
  <2> QED BY <2>1, FilesAdded
<1> HIDE DEF u
<1>7. /\ IsTree(u) /\ u.made = Seeded(j)
      /\ u.rows = {Row(f) : f \in {g \in j.got : g.root \in Seeded(j)}}
      /\ u.links = LinksIn(j.got, Seeded(j))
      /\ u.registry = (IF Anchor \in Seeded(j) THEN Declared(j.m) ELSE {})
      /\ u.files = FilesOf({g \in j.got : g.root \in Seeded(j) /\ g \notin j.left})
                     \cup LinkFiles(LinksIn(j.got, Linked(j)))
      /\ u.inventory = {} /\ u.conf = FALSE
  <2>1. u = Assembled(j) /\ j.phase # "rename"
    BY <1>1 DEF u
  <2> QED BY <2>1, AssembledMidway
<1>8. t.files = u.files
  <2> DEFINE all == FilesOf({g \in k.got : g.root \in Seeded(k) /\ g \notin k.left})
  <2>1. FilesOf({g \in j.got : g.root \in Seeded(j) /\ g \notin j.left}) = all
    BY <1>1, <1>3
  <2> HIDE DEF all
  <2>2. LinkFiles(LinksIn(j.got, Linked(j))) = LinkFiles(LinksIn(k.got, Linked(k))) \cup made
    <3>1. LinkFiles(LinksIn(k.got, Linked(k) \cup {k.root})) =
            LinkFiles(LinksIn(k.got, Linked(k))) \cup made
      <4>1. made = PlacedLinks(k.got, k.root)
        BY DEF made, PlacedLinks
      <4> QED BY <4>1, LinksAdded
    <3> QED BY <3>1, <1>1, <1>3
  <2>3. s.files = all \cup LinkFiles(LinksIn(k.got, Linked(k)))
    BY <1>5 DEF all
  <2>4. u.files = all \cup LinkFiles(LinksIn(j.got, Linked(j)))
    BY <1>7, <2>1
  <2> QED BY <2>2, <2>3, <2>4, <1>6
<1>9. t = u
  <2>1. t.made = u.made /\ t.inventory = u.inventory /\ t.conf = u.conf
    BY <1>3, <1>5, <1>6, <1>7
  <2>2. t.rows = u.rows
    BY <1>1, <1>3, <1>5, <1>6, <1>7
  <2>3. t.links = u.links
    BY <1>1, <1>3, <1>5, <1>6, <1>7
  <2>4. t.registry = u.registry
    BY <1>1, <1>3, <1>5, <1>6, <1>7
  <2> QED BY <2>1, <2>2, <2>3, <2>4, <1>6, <1>7, <1>8, SameTree
<1> QED BY <1>1, <1>9, ProgressFrom DEF j, t, u, d

LEMMA FinishProgress ==
  ASSUME OutputsApart, TInv, Progress, NEW p \in Process, finishImage(p) PROVE Progress'
<1> DEFINE d == OutDir[p]
           k == job[p]
           j == job'[p]
           s == staging[d]
           inventory == {Row(e) : e \in k.got}
           t == staging'[d]
           u == Assembled(j)
<1>1. /\ k.phase = "seed" /\ k.roots = {} /\ j.phase = "rename" /\ j.m = k.m /\ j.got = k.got
      /\ j.roots = {} /\ j.left = {}
      /\ \A q \in Process : q # p => job'[q] = job[q]
      /\ \A x \in Dirs : x # d => staging'[x] = staging[x]
      /\ t = TreeOf(s.made, s.rows, s.links, s.registry, s.files, inventory, TRUE)
  BY FinishStep
<1>2. s = Assembled(k) /\ k.left = {}
  BY <1>1 DEF Progress, TInv, Knows, JobKnows, Assembling
<1> HIDE DEF k, j, s, t, d, inventory
<1>3. Seeded(j) = Seeded(k) /\ Linked(j) = Linked(k)
  BY <1>1, <1>2 DEF Seeded, Linked
<1>5. /\ IsTree(s) /\ s.made = Seeded(k)
      /\ s.rows = {Row(f) : f \in {g \in k.got : g.root \in Seeded(k)}}
      /\ s.links = LinksIn(k.got, Seeded(k))
      /\ s.registry = (IF Anchor \in Seeded(k) THEN Declared(k.m) ELSE {})
      /\ s.files = FilesOf({g \in k.got : g.root \in Seeded(k) /\ g \notin k.left})
                     \cup LinkFiles(LinksIn(k.got, Linked(k)))
  BY <1>2, AssembledFields
<1>6. /\ IsTree(t) /\ t.made = s.made /\ t.rows = s.rows /\ t.links = s.links
      /\ t.registry = s.registry /\ t.files = s.files /\ t.inventory = inventory /\ t.conf = TRUE
  <2> DEFINE a == s.made
             b == s.rows
             c == s.links
             e == s.registry
             f == s.files
             g == TRUE
  <2>1. t = TreeOf(a, b, c, e, f, inventory, g)
    BY <1>1
  <2> HIDE DEF a, b, c, e, f, g
  <2>2. /\ IsTree(t) /\ t.made = a /\ t.rows = b /\ t.links = c
        /\ t.registry = e /\ t.files = f /\ t.inventory = inventory /\ t.conf = g
    BY <2>1, TreeFields
  <2> QED BY <2>2 DEF a, b, c, e, f, g
<1> HIDE DEF u
<1>7. /\ IsTree(u) /\ u.made = Seeded(j)
      /\ u.rows = {Row(f) : f \in {g \in j.got : g.root \in Seeded(j)}}
      /\ u.links = LinksIn(j.got, Seeded(j))
      /\ u.registry = (IF Anchor \in Seeded(j) THEN Declared(j.m) ELSE {})
      /\ u.files = FilesOf({g \in j.got : g.root \in Seeded(j) /\ g \notin j.left})
                     \cup LinkFiles(LinksIn(j.got, Linked(j)))
      /\ u.inventory = {Row(e) : e \in j.got} /\ u.conf = TRUE
  <2>1. u = Assembled(j) /\ j.phase = "rename"
    BY <1>1 DEF u
  <2> QED BY <2>1, AssembledFields
<1>9. t = u
  <2>1. t.made = u.made /\ t.rows = u.rows /\ t.links = u.links /\ t.registry = u.registry
        /\ t.inventory = u.inventory /\ t.conf = u.conf
    BY <1>1, <1>3, <1>5, <1>6, <1>7 DEF inventory
  <2>2. t.files = u.files
    <3>1. {g \in j.got : g.root \in Seeded(j) /\ g \notin j.left}
            = {g \in k.got : g.root \in Seeded(k) /\ g \notin k.left}
      BY <1>1, <1>2, <1>3
    <3>2. LinksIn(j.got, Linked(j)) = LinksIn(k.got, Linked(k))
      BY <1>1, <1>3
    <3> QED BY <3>1, <3>2, <1>5, <1>6, <1>7
  <2> QED BY <2>1, <2>2, <1>6, <1>7, SameTree
<1> QED BY <1>1, <1>9, ProgressFrom DEF j, t, u, d

(* What is renamed is the image of the lock, whole.                        *)
LEMMA RenamedWhole ==
  ASSUME NEW j, j.phase = "rename", j.roots = {}, j.left = {}
  PROVE  Assembled(j) = Image(j.m, j.got)
<1>1. Seeded(j) = RootsOf(j.m, j.got) /\ Linked(j) = RootsOf(j.m, j.got)
  BY DEF Seeded, Linked
<1>2. \A g \in j.got : g.root \in RootsOf(j.m, j.got)
  BY DEF RootsOf
<1>3. {g \in j.got : g.root \in Seeded(j) /\ g \notin j.left} = j.got
      /\ {g \in j.got : g.root \in Seeded(j)} = j.got
  BY <1>1, <1>2
<1>4. Anchor \in Seeded(j)
  BY <1>1 DEF RootsOf
<1> QED BY <1>1, <1>3, <1>4 DEF Assembled, Image

LEMMA PublishProgress ==
  ASSUME OutputsApart, IInv, NEW p \in Process, publish(p) PROVE Progress' /\ Published'
<1> DEFINE d == OutDir[p]
           k == job[p]
<1>1. /\ k.phase = "rename" /\ job'[p].phase = "idle"
      /\ \A q \in Process : q # p => job'[q] = job[q]
      /\ \A x \in Dirs : x # d => staging'[x] = staging[x] /\ out'[x] = out[x]
      /\ out'[d].tree = staging[d] /\ out'[d].mode = k.mode
      /\ out'[d].lock = k.lock /\ out'[d].m = k.m
      /\ k.m = k.lock.intent /\ k.mode.noDeps = k.lock.noDeps
      /\ k.got = FullGot(k.lock) /\ k.roots = {} /\ k.left = {}
  BY PublishStep DEF IInv
<1>2. Progress'
  BY <1>1, ProgressFrom DEF IInv, Assembling
<1>3. staging[d] = Image(k.m, k.got)
  <2>1. staging[d] = Assembled(k)
    BY <1>1 DEF IInv, Progress, Assembling
  <2> QED BY <2>1, <1>1, RenamedWhole
<1> HIDE DEF k
<1>4. ASSUME NEW x \in Dirs, out'[x] # None
      PROVE  /\ out'[x].m = out'[x].lock.intent /\ out'[x].mode.noDeps = out'[x].lock.noDeps
             /\ out'[x].tree = Image(out'[x].m, FullGot(out'[x].lock))
  <2>1. CASE x = d
    BY <2>1, <1>1, <1>3
  <2>2. CASE x # d
    BY <2>2, <1>1, <1>4 DEF IInv, Published
  <2> QED BY <2>1, <2>2
<1> QED BY <1>2, <1>4 DEF Published

LEMMA InitIInv == Init => IInv
<1> SUFFICES ASSUME Init PROVE IInv
  OBVIOUS
<1>1. TInv
  BY InitTInv
<1>2. Progress
  BY IdleKnows DEF Init, Progress, Assembling
<1>3. Published
  BY DEF Init, Published, Dirs
<1> QED BY <1>1, <1>2, <1>3 DEF IInv

LEMMA NextIInv == OutputsApart /\ IInv /\ [Next]_vars => IInv'
<1> SUFFICES ASSUME OutputsApart, IInv, [Next]_vars PROVE IInv'
  OBVIOUS
<1>1. TInv /\ TInv'
  BY NextTInv DEF IInv
<1>2. CASE UNCHANGED vars \/ Edit \/ \E c \in pending : ChangeSources(c)
  <2>1. UNCHANGED <<staging, out, job>>
    BY <1>2 DEF vars, Edit, ChangeSources
  <2>2. Progress' /\ Published'
    BY <2>1 DEF IInv, Progress, Published
  <2> QED BY <1>1, <2>2 DEF IInv
<1>3. ASSUME NEW p \in Process, Build(p) PROVE IInv'
  <2>1. ASSUME Quiet(p) PROVE Progress' /\ UNCHANGED out
    BY <2>1, <1>1, QuietProgress, QuietStep DEF IInv
  <2>2. ASSUME clearStaging(p) PROVE Progress' /\ UNCHANGED out
    BY <2>2, <1>1, ClearProgress, ClearStep DEF IInv
  <2>3. ASSUME NEW root \in job[p].roots, seedRoot(p, root) PROVE Progress' /\ UNCHANGED out
    BY <2>3, <1>1, SeedProgress, SeedStep DEF IInv
  <2>4. ASSUME NEW e \in job[p].left, extractPayload(p, e) PROVE Progress' /\ UNCHANGED out
    BY <2>4, <1>1, ExtractProgress, ExtractStep DEF IInv
  <2>5. ASSUME materializeClaims(p) PROVE Progress' /\ UNCHANGED out
    BY <2>5, <1>1, MaterializeProgress, MaterializeStep DEF IInv
  <2>6. ASSUME finishImage(p) PROVE Progress' /\ UNCHANGED out
    BY <2>6, <1>1, FinishProgress, FinishStep DEF IInv
  <2>7. ASSUME publish(p) PROVE Progress' /\ Published'
    BY <2>7, PublishProgress
  <2>8. UNCHANGED out /\ Published => Published'
    BY DEF Published
  <2>9. \/ Quiet(p)
        \/ clearStaging(p) \/ \E root \in job[p].roots : seedRoot(p, root)
        \/ \E e \in job[p].left : extractPayload(p, e)
        \/ materializeClaims(p) \/ finishImage(p) \/ publish(p)
    BY <1>3 DEF Build, Quiet
  <2>10. Progress' /\ Published'
    BY <2>1, <2>2, <2>3, <2>4, <2>5, <2>6, <2>7, <2>8, <2>9 DEF IInv
  <2> QED BY <1>1, <2>10 DEF IInv
<1> QED BY <1>2, <1>3 DEF Next

(* The invariant of builds with output paths of their own: TInv, that each *)
(* staging tree is what its run's progress says, and that an image is the  *)
(* one function Image of the lock it was built from.                       *)
THEOREM Invariance == ASSUME OutputsApart PROVE Spec => []IInv
<1>1. Init => IInv
  BY InitIInv
<1>2. IInv /\ [Next]_vars => IInv'
  BY NextIInv
<1> QED BY <1>1, <1>2, PTL DEF Spec

OwnedFiles(rows) == UNION {{Placed(x.root, path, x.of) : path \in x.of.paths} : x \in rows}

(* The image of a lock is whole.                                           *)
LEMMA WholeImage ==
  ASSUME NEW m, NEW got, NEW t, t = Image(m, got)
  PROVE  /\ Whole(t) /\ t.registry = Declared(m)
         /\ {x.root : x \in t.rows} = {g.root : g \in got}
<1> DEFINE links == LinksIn(got, RootsOf(m, got))
           rows == {Row(e) : e \in got}
<1>1. /\ t.made = RootsOf(m, got) /\ t.rows = rows /\ t.links = links /\ t.registry = Declared(m)
      /\ t.files = FilesOf(got) \cup LinkFiles(links) /\ t.inventory = rows /\ t.conf
  BY DEF Image
<1>2. \A e \in got : Row(e).of = e.file /\ Row(e).root = e.root
  BY DEF Row
<1>3. OwnedFiles(rows) = FilesOf(got)
  <2>1. OwnedFiles(rows) =
          UNION {{Placed(Row(e).root, path, Row(e).of) : path \in Row(e).of.paths} : e \in got}
    BY DEF OwnedFiles
  <2>2. \A e \in got :
          {Placed(Row(e).root, path, Row(e).of) : path \in Row(e).of.paths} = Payload(e)
    BY <1>2 DEF Payload
  <2> QED BY <2>1, <2>2 DEF FilesOf
<1>4. {x.root : x \in rows} = {g.root : g \in got}
  BY <1>2
<1>5. RootsOf(m, got) = {Anchor} \cup Declared(m) \cup {x.root : x \in rows}
  BY <1>4 DEF RootsOf
<1> HIDE DEF links, rows
<1>6. t.files = OwnedFiles(t.rows) \cup LinkFiles(t.links)
  BY <1>1, <1>3
<1>7. t.files = (UNION {{Placed(x.root, path, x.of) : path \in x.of.paths} : x \in t.rows})
                  \cup {Placed(l.root, l.path, l.by) : l \in t.links}
  BY <1>6 DEF LinkFiles, OwnedFiles
<1>8. /\ t.made = {Anchor} \cup t.registry \cup {x.root : x \in t.rows}
      /\ t.inventory = t.rows /\ t.conf
  BY <1>1, <1>5
<1> QED BY <1>1, <1>4, <1>7, <1>8 DEF Whole

(* A build that has its output path to itself publishes a whole image or   *)
(* none, whatever fails, is killed, is edited, published or revoked beside *)
(* it, whatever leftover staging tree it starts on, and however torn the   *)
(* lock it reads: nothing but the rename puts a tree in the output, and it *)
(* does so only after every root (BuildWithResult, assemble, assembleRoot, *)
(* seedDatabase).  A root is in it that is not registered only if a write  *)
(* of the lock failed or overlapped another (writeLock).                   *)
THEOREM WholeImages == ASSUME OutputsApart PROVE Spec => []ImageWhole
<1>1. IInv => ImageWhole
  <2> SUFFICES ASSUME IInv, NEW d \in Images
               PROVE  /\ Whole(out[d].tree)
                      /\ ~out[d].lock.torn =>
                           {x.root : x \in out[d].tree.rows} \subseteq {Anchor} \cup out[d].tree.registry
    BY DEF ImageWhole
  <2>1. d \in Dirs /\ out[d] # None
    BY DEF IInv, TInv, Shapes, Images
  <2> DEFINE l == out[d].lock
             m == out[d].m
  <2>2. GoodLock(l) /\ m = l.intent /\ out[d].tree = Image(m, FullGot(l))
    BY <2>1 DEF IInv, TInv, GoodLocks, Published
  <2>3. /\ Whole(out[d].tree) /\ out[d].tree.registry = Declared(m)
        /\ {x.root : x \in out[d].tree.rows} = {g.root : g \in FullGot(l)}
    BY <2>2, WholeImage
  <2>4. ~l.torn => \A g \in FullGot(l) : g.root \in {Anchor} \cup Declared(m)
    BY <2>2 DEF FullGot, Fetched, GoodLock, RootPaths
  <2> HIDE DEF l, m
  <2>5. ~l.torn => {x.root : x \in out[d].tree.rows} \subseteq {Anchor} \cup out[d].tree.registry
    BY <2>3, <2>4
  <2> QED BY <2>3, <2>5 DEF l
<1> QED BY <1>1, Invariance, PTL

(* Two builds of one lock publish the same image: every file is taken by   *)
(* the hash the lock records, and nothing else that a build reads reaches  *)
(* the tree (fetchOne, checkHash; ensureLockMatches, since the registry is *)
(* written from the manifest and not from the lock).                       *)
THEOREM SameLockSameImage == ASSUME OutputsApart PROVE Spec => []Reproducible
<1>1. IInv => Reproducible
  <2> SUFFICES ASSUME IInv, NEW d \in Images, NEW e \in Images, Text(out[d].lock) = Text(out[e].lock)
               PROVE  out[d].tree = out[e].tree
    BY DEF Reproducible
  <2> DEFINE k == out[d].lock
             l == out[e].lock
  <2>1. d \in Dirs /\ out[d] # None /\ e \in Dirs /\ out[e] # None
    BY DEF IInv, TInv, Shapes, Images
  <2>2. /\ out[d].tree = Image(k.intent, FullGot(k)) /\ out[e].tree = Image(l.intent, FullGot(l))
        /\ IsLock(k) /\ IsLock(l)
    BY <2>1 DEF IInv, TInv, GoodLocks, GoodLock, Published
  <2>3. [k EXCEPT !.torn = FALSE] = [l EXCEPT !.torn = FALSE]
    BY DEF Text
  <2> HIDE DEF k, l
  <2>4. k.intent = l.intent /\ k.packages = l.packages
    BY <2>2, <2>3 DEF IsLock
  <2>5. FullGot(k) = FullGot(l)
    BY <2>4 DEF FullGot
  <2> QED BY <2>2, <2>4, <2>5
<1> QED BY <1>1, Invariance, PTL

-----------------------------------------------------------------------------
(* What a lock promises, and an image built from it keeps.                 *)

(* A manifest asks for a name once.                                        *)
OneRequestPerName == \A m \in Manifests : \A r, s \in m.packages : r.name = s.name => r = s

(* Every version of a package names the same root for itself.              *)
DefaultsAgree == \A a, b \in Files : a.name = b.name => a.default = b.default

(* A file rebuilt under the same name, version and architecture needs what *)
(* the one it replaces needs.                                              *)
RebuiltAlike ==
  \A a, b \in Files : a.url = b.url /\ identityOf(a) = identityOf(b) => a.needs = b.needs

(* Each request is met in its root and, unless dependencies were left out, *)
(* each dependency where it is to be.                                      *)
Meets(m, noDeps, packages) ==
  /\ \A r \in m.packages : \E e \in packages :
       /\ e.hash.name = r.name /\ matchesPin(r, e.hash)
       /\ e.root = packageRootKey(r, m, {e.hash})
  /\ noDeps \/ \A e \in packages : \A n \in e.hash.needs : \E f \in packages :
       /\ f.root = Place(n, e.root, m) /\ f.hash.name = n.name
       /\ f.hash.version \in n.constraint.allowed
Requested(l) == ~l.torn => Meets(l.intent, l.noDeps, l.packages)

Stored == DOMAIN store = {a.url : a \in Files}

Promised ==
  /\ lockFile \notin {None, Unreadable} => Requested(lockFile)
  /\ \A p \in Process : Locked(p) => Requested(job[p].lock)
  /\ \A d \in Dirs : out[d] # None => Requested(out[d].lock)

(* What the lock records for a chosen file has its URL, its name and its   *)
(* version, and so what the file was chosen for.                           *)
LEMMA HashedAlike ==
  ASSUME TInv, Stored, NEW whole \in SUBSET Files, NEW x, verifyLocalPackage(x.of),
         \E c \in whole : c.url = x.of.url /\ identityOf(c) = identityOf(x.of)
  PROVE  LET e == LockedPackage(x, whole)
         IN /\ e.root = x.root /\ e.hash \in Files /\ e.hash.url = x.of.url
            /\ identityOf(e.hash) = identityOf(x.of)
            /\ e.hash.name = x.of.name /\ e.hash.version = x.of.version
<1> DEFINE c == CHOOSE b \in whole : b.url = x.of.url /\ identityOf(b) = identityOf(x.of)
           e == LockedPackage(x, whole)
<1>1. c \in whole /\ c.url = x.of.url /\ identityOf(c) = identityOf(x.of)
  OBVIOUS
<1>2. e.root = x.root /\ e.hash = Hashed(c)
  BY DEF LockedPackage
<1> HIDE DEF c, e
<1>3. Hashed(c) \in Files /\ Hashed(c).url = x.of.url /\ identityOf(Hashed(c)) = identityOf(x.of)
  <2>1. CASE c.url[1] # LocalSource
    BY <1>1, <2>1 DEF Hashed
  <2>2. CASE c.url[1] = LocalSource
    <3>1. x.of.url \in DOMAIN store
      BY <1>1 DEF Stored
    <3>2. store[x.of.url] # None /\ identityOf(store[x.of.url]) = identityOf(x.of)
      BY <1>1, <2>2 DEF verifyLocalPackage
    <3>3. store[x.of.url] \in Files /\ store[x.of.url].url = x.of.url
      BY <3>1, <3>2 DEF TInv, Sources
    <3> QED BY <1>1, <2>2, <3>2, <3>3 DEF Hashed
  <2> QED BY <2>1, <2>2
<1>4. \A a : identityOf(a) = identityOf(x.of) => a.name = x.of.name /\ a.version = x.of.version
  BY DEF identityOf
<1> QED BY <1>2, <1>3, <1>4 DEF e

(* Only what a package is by default, and the request, decide its root.    *)
LEMMA RootByDefault ==
  ASSUME NEW r, NEW m, NEW cs, NEW ds,
         (CHOOSE c \in cs : c.name = r.name).default = (CHOOSE c \in ds : c.name = r.name).default
  PROVE  packageRootKey(r, m, cs) = packageRootKey(r, m, ds)
BY DEF packageRootKey

LEMMA StrippedFacts ==
  ASSUME NEW S \in SUBSET Files, NEW c \in stripped(S)
  PROVE  \E a \in S : /\ c.version = a.version /\ c.name = a.name /\ c.arch = a.arch
                      /\ c.url = a.url /\ c.default = a.default
<1>1. PICK a \in S : c = [a EXCEPT !.needs = {}]
  BY DEF stripped
<1>2. PackageField \subseteq DOMAIN a
  BY ComposeAssumption
<1> QED BY <1>1, <1>2 DEF PackageField

(* A new lock keeps the promise: the pins leave only candidates that suit  *)
(* the one request for their name, and the consistency check sees to the   *)
(* dependencies (applyManifestPins, checkConsistency).                     *)
LEMMA NewLockRequested ==
  ASSUME OneRequestPerName, DefaultsAgree, RebuiltAlike, TInv, Stored,
         NEW m \in Manifests, NEW scan, scan.candidates \subseteq Files, NEW noDeps,
         NEW pinned, pinned = applyManifestPins(scan.candidates, m),
         NEW candidates, candidates = IF noDeps THEN stripped(pinned) ELSE pinned,
         Resolvable(m, candidates),
         \A x \in Closure(m, candidates) : verifyLocalPackage(x.of),
         NEW l, l = NewLock(m, noDeps, scan, Closure(m, candidates))
  PROVE  Requested(l)
<1> DEFINE C == Closure(m, candidates)
           E(x) == LockedPackage(x, scan.candidates)
<1>1. pinned \subseteq scan.candidates
  BY DEF applyManifestPins
<1>2. candidates \in SUBSET Offered
  BY <1>1 DEF Offered, stripped
<1>3. asked(m, candidates) \subseteq C /\ \A x \in C : x.of \in candidates
  BY <1>2, ClosureChosen DEF Resolvable
<1>4. \A c \in candidates : \E a \in pinned :
        /\ c.version = a.version /\ c.name = a.name /\ c.arch = a.arch
        /\ c.url = a.url /\ c.default = a.default
  BY <1>1, StrippedFacts
<1>5. l.intent = m /\ l.noDeps = noDeps /\ l.packages = {E(x) : x \in C}
  BY DEF NewLock
<1>6. \A x \in C : verifyLocalPackage(x.of)
  OBVIOUS
<1>7. Consistent(C, m) /\ \A r \in m.packages : \E c \in candidates : c.name = r.name
  BY DEF Resolvable
<1> HIDE DEF C
<1>8. \A x \in C : /\ E(x).root = x.root /\ E(x).hash \in Files /\ E(x).hash.url = x.of.url
                   /\ identityOf(E(x).hash) = identityOf(x.of)
                   /\ E(x).hash.name = x.of.name /\ E(x).hash.version = x.of.version
  <2> TAKE x \in C
  <2>1. PICK a \in pinned : /\ x.of.version = a.version /\ x.of.name = a.name
                            /\ x.of.arch = a.arch /\ x.of.url = a.url
    BY <1>3, <1>4
  <2>2. a \in scan.candidates /\ a.url = x.of.url /\ identityOf(a) = identityOf(x.of)
    BY <1>1, <2>1 DEF identityOf
  <2>3. verifyLocalPackage(x.of)
    BY <1>6
  <2> QED BY <2>2, <2>3, HashedAlike
<1> HIDE DEF E
<1>9. ASSUME NEW r \in m.packages
      PROVE  \E e \in l.packages : /\ e.hash.name = r.name /\ matchesPin(r, e.hash)
                                   /\ e.root = packageRootKey(r, m, {e.hash})
  <2> DEFINE fits == {c \in candidates : c.name = r.name}
             y == Best(fits)
             x == [root |-> packageRootKey(r, m, candidates), of |-> y]
             h == E(x).hash
  <2>1. fits \in SUBSET Offered /\ fits # {}
    BY <1>2, <1>7
  <2> HIDE DEF fits
  <2>2. y \in fits
    BY <2>1, BestChosen
  <2>3. x \in C
    BY <1>3 DEF asked, fits
  <2>4. y \in candidates /\ y.name = r.name
    BY <2>2 DEF fits
  <2> HIDE DEF y
  <2>5. /\ E(x).root = packageRootKey(r, m, candidates) /\ h \in Files /\ h.url = y.url
        /\ h.name = r.name /\ h.version = y.version
    BY <1>8, <2>3, <2>4
  <2>6. PICK a \in pinned : /\ y.version = a.version /\ y.name = a.name /\ y.url = a.url
    BY <1>4, <2>4
  <2>7. PICK s \in m.packages : s.name = r.name /\ matchesPin(s, a)
    BY <2>4, <2>6 DEF applyManifestPins
  <2>8. s = r
    BY <2>7 DEF OneRequestPerName
  <2>9. matchesPin(r, h)
    BY <2>5, <2>6, <2>7, <2>8 DEF matchesPin
  <2>10. E(x) \in l.packages
    BY <1>5, <2>3
  <2>11. (CHOOSE c \in candidates : c.name = r.name).default
           = (CHOOSE c \in {h} : c.name = r.name).default
    <3> DEFINE c == CHOOSE b \in candidates : b.name = r.name
               g == CHOOSE b \in {h} : b.name = r.name
    <3>1. c \in candidates /\ c.name = r.name
      BY <2>4
    <3>2. g = h
      BY <2>5
    <3> HIDE DEF c, g
    <3>3. PICK b \in pinned : b.name = c.name /\ b.default = c.default
      BY <1>4, <3>1
    <3>4. b \in Files
      BY <1>1
    <3>5. c.default = h.default
      BY <2>5, <3>1, <3>3, <3>4 DEF DefaultsAgree
    <3> QED BY <3>2, <3>5 DEF c, g
  <2> HIDE DEF x, h
  <2>12. packageRootKey(r, m, candidates) = packageRootKey(r, m, {h})
    <3> DEFINE one == {h}
    <3>1. (CHOOSE c \in candidates : c.name = r.name).default
            = (CHOOSE c \in one : c.name = r.name).default
      BY <2>11
    <3> HIDE DEF one
    <3>2. packageRootKey(r, m, candidates) = packageRootKey(r, m, one)
      BY <3>1, RootByDefault
    <3> QED BY <3>2 DEF one
  <2> QED BY <2>5, <2>9, <2>10, <2>12 DEF h
<1>10. ASSUME ~noDeps, NEW e \in l.packages, NEW n \in e.hash.needs
       PROVE  \E f \in l.packages : /\ f.root = Place(n, e.root, m) /\ f.hash.name = n.name
                                    /\ f.hash.version \in n.constraint.allowed
  <2>1. PICK x \in C : e = E(x)
    BY <1>5
  <2>2. x.of \in Files
    BY <1>1, <1>3, <1>10
  <2>3. e.root = x.root /\ e.hash.needs = x.of.needs
    BY <1>8, <2>1, <2>2 DEF RebuiltAlike
  <2>4. PICK y \in C : /\ y.root = Place(n, x.root, m) /\ y.of.name = n.name
                       /\ y.of.version \in n.constraint.allowed
    BY <1>7, <2>3 DEF Consistent
  <2>5. E(y) \in l.packages
    BY <1>5
  <2> QED BY <1>8, <2>3, <2>4, <2>5
<1>11. Meets(m, noDeps, l.packages)
  BY <1>9, <1>10 DEF Meets
<1> QED BY <1>5, <1>11 DEF Requested

LEMMA RequestedOf ==
  ASSUME NEW l, Requested(l), ~l.torn, NEW k,
         ~k.torn => k.intent = l.intent /\ k.noDeps = l.noDeps /\ k.packages = l.packages
  PROVE  Requested(k)
BY DEF Requested

LEMMA PromiseFrame ==
  ASSUME TInv, Promised, NEW p \in Process, NEW j, Step(p, j), UNCHANGED out,
         j.phase \in Preparing \cup Assembling => Requested(j.lock),
         lockFile' \notin {None, Unreadable} => Requested(lockFile')
  PROVE  Promised'
<1>1. job = [q \in Process |-> job[q]]
  BY DEF TInv, Shapes
<1>2. job' = [q \in Process |-> IF q = p THEN j ELSE job[q]]
  BY <1>1 DEF Step
<1>3. \A q \in Process : Locked(q)' => Requested(job'[q].lock)
  <2> SUFFICES ASSUME NEW q \in Process, job'[q].phase \in Preparing \cup Assembling
               PROVE  Requested(job'[q].lock)
    BY DEF Locked
  <2>1. CASE q = p
    BY <1>2, <2>1
  <2>2. CASE q # p
    BY <1>2, <2>2 DEF Promised, Locked
  <2> QED BY <2>1, <2>2
<1> QED BY <1>3 DEF Promised

(* A run that has a lock keeps it.                                         *)
LEMMA LockKept ==
  ASSUME TInv, NEW p \in Process,
         \/ truncate(p) \/ \E e \in Awaited(p) : fetchOne(p, e)
         \/ clearStaging(p) \/ \E root \in job[p].roots : seedRoot(p, root)
         \/ \E e \in job[p].left : extractPayload(p, e)
         \/ materializeClaims(p) \/ finishImage(p)
  PROVE  Locked(p) /\ UNCHANGED out /\ lockFile' \in {lockFile, Unreadable}
         /\ \E j : Step(p, j) /\ j.lock = job[p].lock
<1>1. IsJob(job[p])
  BY DEF TInv, Shapes
<1>2. \A phase : [job[p] EXCEPT !.phase = phase].lock = job[p].lock
  BY <1>1 DEF IsJob
<1>3. CASE truncate(p)
  BY <1>2, <1>3 DEF truncate, Doing, Locked, Preparing, Goto
<1>4. ASSUME NEW e \in Awaited(p), fetchOne(p, e)
      PROVE  Locked(p) /\ UNCHANGED <<out, lockFile>> /\ \E j : Step(p, j) /\ j.lock = job[p].lock
  <2>1. PICK got : Step(p, [job[p] EXCEPT !.got = got])
    BY <1>4 DEF fetchOne
  <2>2. [job[p] EXCEPT !.got = got].lock = job[p].lock
    BY <1>1 DEF IsJob
  <2> QED BY <1>4, <2>1, <2>2 DEF fetchOne, lockText, Doing, Locked, Preparing
<1>5. ASSUME clearStaging(p)
      PROVE  Locked(p) /\ UNCHANGED <<out, lockFile>> /\ \E j : Step(p, j) /\ j.lock = job[p].lock
  <2>1. PICK roots : Step(p, [job[p] EXCEPT !.phase = "seed", !.roots = roots])
    BY <1>5 DEF clearStaging
  <2>2. [job[p] EXCEPT !.phase = "seed", !.roots = roots].lock = job[p].lock
    BY <1>1 DEF IsJob
  <2> QED BY <1>5, <2>1, <2>2 DEF clearStaging, lockText, Doing, Locked, Preparing
<1>6. ASSUME NEW root \in job[p].roots, seedRoot(p, root)
      PROVE  Locked(p) /\ UNCHANGED <<out, lockFile>> /\ \E j : Step(p, j) /\ j.lock = job[p].lock
  <2>0. job'[p].lock = job[p].lock /\ job[p].phase = "seed"
    BY <1>6, SeedStep
  <2>1. \E j : Step(p, j) /\ job'[p] = j
    <3>1. PICK j : Step(p, j)
      BY <1>6 DEF seedRoot
    <3>2. job'[p] = j
      BY <3>1 DEF Step, TInv, Shapes
    <3> QED BY <3>1, <3>2
  <2> QED BY <1>6, <2>0, <2>1 DEF seedRoot, lockText, Locked, Assembling
<1>7. ASSUME NEW e \in job[p].left, extractPayload(p, e)
      PROVE  Locked(p) /\ UNCHANGED <<out, lockFile>> /\ \E j : Step(p, j) /\ j.lock = job[p].lock
  <2>1. PICK left : Step(p, [job[p] EXCEPT !.left = left])
    BY <1>7 DEF extractPayload
  <2>2. [job[p] EXCEPT !.left = left].lock = job[p].lock
    BY <1>1 DEF IsJob
  <2> QED BY <1>7, <2>1, <2>2 DEF extractPayload, lockText, Doing, Locked, Assembling
<1>8. ASSUME materializeClaims(p) \/ finishImage(p)
      PROVE  Locked(p) /\ UNCHANGED <<out, lockFile>> /\ \E j : Step(p, j) /\ j.lock = job[p].lock
  <2>1. PICK phase \in {"seed", "rename"} : Step(p, [job[p] EXCEPT !.phase = phase])
    BY <1>8 DEF materializeClaims, finishImage, Goto
  <2>2. UNCHANGED <<out, lockFile>> /\ Locked(p)
    BY <1>8 DEF materializeClaims, finishImage, lockText, Doing, Locked, Assembling
  <2> QED BY <1>2, <2>1, <2>2
<1> QED BY <1>3, <1>4, <1>5, <1>6, <1>7, <1>8

LEMMA InitPromised == Init => Promised /\ Stored
<1> SUFFICES ASSUME Init PROVE Promised /\ Stored
  OBVIOUS
<1>1. Stored
  BY DEF Init, Stored
<1>2. Promised
  BY IdleKnows DEF Init, Promised, Locked, Preparing, Assembling, Dirs
<1> QED BY <1>1, <1>2

LEMMA NextPromised ==
  ASSUME OneRequestPerName, DefaultsAgree, RebuiltAlike, TInv, Promised, Stored, [Next]_vars
  PROVE  Promised' /\ Stored'
<1>1. Stored'
  <2>1. ASSUME NEW c \in pending, ChangeSources(c) PROVE DOMAIN store' = DOMAIN store
    BY <2>1 DEF ChangeSources
  <2>2. ASSUME NEW p \in Process, Build(p) PROVE UNCHANGED store
    BY <2>2 DEF Build, Start, useLock, scanSources, resolve, truncate, writeLock, tearLock, fetchOne,
                clearStaging, seedRoot, extractPayload, materializeClaims, finishImage, publish,
                Fail, sources
  <2>3. Edit \/ UNCHANGED vars => UNCHANGED store
    BY DEF Edit, vars, sources
  <2> QED BY <2>1, <2>2, <2>3 DEF Stored, Next
<1>2. CASE UNCHANGED vars \/ Edit \/ \E c \in pending : ChangeSources(c)
  <2>1. UNCHANGED <<lockFile, out, job>>
    BY <1>2 DEF vars, Edit, ChangeSources, lockText
  <2> QED BY <1>1, <2>1 DEF Promised, Locked
<1>3. ASSUME NEW p \in Process, Build(p) PROVE Promised'
  <2>a. IsJob(job[p]) /\ JobKnows(job[p])
    BY DEF TInv, Shapes, Knows
  <2>b. Idle.phase \notin Preparing \cup Assembling
    BY IdleKnows DEF Preparing, Assembling
  <2>1. CASE \E mode \in Mode : Start(p, mode)
    <3>1. PICK mode \in Mode : Start(p, mode)
      BY <2>1
    <3>2. [Idle EXCEPT !.phase = "choose", !.mode = mode, !.m = Manifest[edits]].phase = "choose"
      BY DEF Idle
    <3>3. "choose" \notin Preparing \cup Assembling
      BY DEF Preparing, Assembling
    <3>4. UNCHANGED <<lockFile, out>>
      BY <3>1 DEF Start, lockText
    <3> QED BY <3>1, <3>2, <3>3, <3>4, PromiseFrame DEF Start, Promised
  <2>2. CASE useLock(p)
    <3> DEFINE j == [job[p] EXCEPT !.phase = "fetch", !.lock = lockFile]
    <3>1. j.lock = lockFile
      BY <2>a DEF IsJob
    <3>2. Step(p, j) /\ lockFile \notin {None, Unreadable} /\ UNCHANGED <<lockFile, out>>
      BY <2>2 DEF useLock, lockText
    <3> HIDE DEF j
    <3>3. Requested(j.lock) /\ (lockFile' \notin {None, Unreadable} => Requested(lockFile'))
      BY <3>1, <3>2 DEF Promised
    <3> QED BY <3>2, <3>3, PromiseFrame
  <2>3. CASE scanSources(p)
    <3>1. PICK reached \in BOOLEAN :
            Step(p, [job[p] EXCEPT !.phase = "resolve", !.scan = ScanSources(job[p].m, reached)])
      BY <2>3 DEF scanSources
    <3> DEFINE j == [job[p] EXCEPT !.phase = "resolve", !.scan = ScanSources(job[p].m, reached)]
    <3>2. j.phase = "resolve"
      BY <2>a DEF IsJob
    <3>3. Step(p, j) /\ UNCHANGED <<lockFile, out>>
      BY <2>3, <3>1 DEF scanSources, lockText
    <3> HIDE DEF j
    <3>4. j.phase \notin Preparing \cup Assembling
      BY <3>2 DEF Preparing, Assembling
    <3> QED BY <3>3, <3>4, PromiseFrame DEF Promised
  <2>4. CASE resolve(p)
    <3> DEFINE m == job[p].m
               noDeps == job[p].mode.noDeps
               scan == job[p].scan
               pinned == applyManifestPins(scan.candidates, m)
               candidates == IF noDeps THEN stripped(pinned) ELSE pinned
               l == NewLock(m, noDeps, scan, Closure(m, candidates))
               j == [job[p] EXCEPT !.phase = "truncate", !.scan = None, !.lock = l]
    <3>1. /\ job[p].phase = "resolve" /\ Step(p, j) /\ UNCHANGED <<lockFile, out>>
          /\ Resolvable(m, candidates)
          /\ \A x \in Closure(m, candidates) : verifyLocalPackage(x.of)
      BY <2>4 DEF resolve, Doing, lockText
    <3>2. m \in Manifests /\ scan.candidates \subseteq Files
      BY <2>a, <3>1 DEF JobKnows
    <3>3. j.lock = l
      <4> HIDE DEF l
      <4> QED BY <2>a DEF IsJob
    <3>p. pinned = applyManifestPins(scan.candidates, m)
      OBVIOUS
    <3> HIDE DEF pinned
    <3>c. candidates = IF noDeps THEN stripped(pinned) ELSE pinned
      OBVIOUS
    <3> HIDE DEF candidates
    <3>l. l = NewLock(m, noDeps, scan, Closure(m, candidates))
      OBVIOUS
    <3> HIDE DEF l, m, scan, noDeps
    <3>4. Requested(l)
      BY <3>1, <3>2, <3>p, <3>c, <3>l, NewLockRequested
    <3> HIDE DEF j
    <3>5. lockFile' \notin {None, Unreadable} => Requested(lockFile')
      BY <3>1 DEF Promised
    <3> QED BY <3>1, <3>3, <3>4, <3>5, PromiseFrame
  <2>w. ASSUME writeLock(p) \/ tearLock(p)
        PROVE  /\ UNCHANGED out /\ Requested(job[p].lock)
               /\ lockFile' \notin {None, Unreadable} => Requested(lockFile')
    <3>1. /\ job[p].phase = "write" /\ UNCHANGED out
          /\ lockFile' # lockFile => lockFile' = Unreadable \/
               (~lockFile'.torn => /\ lockFile'.intent = job[p].lock.intent
                                   /\ lockFile'.noDeps = job[p].lock.noDeps
                                   /\ lockFile'.packages = job[p].lock.packages)
      BY <2>w, LockWritten
    <3>2. Requested(job[p].lock) /\ ~job[p].lock.torn
      BY <2>a, <3>1 DEF Promised, Locked, Preparing, JobKnows
    <3>3. CASE lockFile' = lockFile
      BY <3>1, <3>2, <3>3 DEF Promised
    <3>4. CASE lockFile' # lockFile
      BY <3>1, <3>2, <3>4, RequestedOf
    <3> QED BY <3>1, <3>2, <3>3, <3>4
  <2>5. CASE writeLock(p)
    <3>3. \E j : Step(p, j) /\ (j = Idle \/ j.lock = job[p].lock)
      <4>1. [job[p] EXCEPT !.phase = "fetch"].lock = job[p].lock
        BY <2>a DEF IsJob
      <4> QED BY <2>5, <4>1 DEF writeLock, Goto
    <3> QED BY <2>b, <2>w, <2>5, <3>3, PromiseFrame
  <2>6. CASE tearLock(p)
    <3>1. Step(p, Idle)
      BY <2>6 DEF tearLock
    <3> QED BY <2>b, <2>w, <2>6, <3>1, PromiseFrame
  <2>7. CASE \/ truncate(p) \/ \E e \in Awaited(p) : fetchOne(p, e)
             \/ clearStaging(p) \/ \E root \in job[p].roots : seedRoot(p, root)
             \/ \E e \in job[p].left : extractPayload(p, e)
             \/ materializeClaims(p) \/ finishImage(p)
    <3>1. Locked(p) /\ UNCHANGED out /\ lockFile' \in {lockFile, Unreadable}
      BY <2>7, LockKept
    <3>2. PICK j : Step(p, j) /\ j.lock = job[p].lock
      BY <2>7, LockKept
    <3>3. Requested(j.lock) /\ (lockFile' \notin {None, Unreadable} => Requested(lockFile'))
      BY <3>1, <3>2 DEF Promised
    <3> QED BY <3>1, <3>2, <3>3, PromiseFrame
  <2>8. CASE publish(p)
    <3> DEFINE d == OutDir[p]
    <3>1. /\ job[p].phase = "rename" /\ job'[p].phase = "idle"
          /\ \A q \in Process : q # p => job'[q] = job[q]
          /\ \A x \in Dirs : x # d => out'[x] = out[x]
          /\ out'[d].lock = job[p].lock
      BY <2>8, PublishStep
    <3>2. UNCHANGED lockFile
      BY <2>8 DEF publish, lockText
    <3>3. Requested(job[p].lock)
      BY <3>1 DEF Promised, Locked, Assembling
    <3>4. \A q \in Process : Locked(q)' => Requested(job'[q].lock)
      <4> SUFFICES ASSUME NEW q \in Process, job'[q].phase \in Preparing \cup Assembling
                   PROVE  Requested(job'[q].lock)
        BY DEF Locked
      <4>1. q # p
        BY <3>1 DEF Preparing, Assembling
      <4> QED BY <3>1, <4>1 DEF Promised, Locked
    <3>5. \A x \in Dirs : out'[x] # None => Requested(out'[x].lock)
      BY <3>1, <3>3 DEF Promised
    <3> QED BY <3>2, <3>4, <3>5 DEF Promised
  <2>9. CASE Fail(p)
    <3>1. Step(p, Idle) /\ UNCHANGED <<lockFile, out>>
      BY <2>9 DEF Fail, lockText
    <3> QED BY <2>b, <3>1, PromiseFrame DEF Promised
  <2> QED BY <1>3, <2>1, <2>2, <2>3, <2>4, <2>5, <2>6, <2>7, <2>8, <2>9 DEF Build
<1> QED BY <1>1, <1>2, <1>3 DEF Next

(* Every image holds what its manifest asked for, whatever manifest, lock, *)
(* sources or dependency mode became between the resolution and the build  *)
(* (ensureLockMatches, ensureLockMode, fetchOne), when builds have outputs *)
(* of their own, no manifest asks for one name twice, the versions of a    *)
(* package agree on its root and a rebuilt file needs what it needed.      *)
THEOREM RequestsMet ==
  ASSUME OutputsApart, OneRequestPerName, DefaultsAgree, RebuiltAlike
  PROVE  Spec => []ImageAsRequested
<1> DEFINE J == IInv /\ Promised /\ Stored
<1>1. Init => J
  BY InitIInv, InitPromised
<1>2. J /\ [Next]_vars => J'
  <2> SUFFICES ASSUME J, [Next]_vars PROVE J'
    OBVIOUS
  <2>1. IInv'
    BY NextIInv
  <2>2. Promised' /\ Stored'
    BY NextPromised DEF IInv
  <2> QED BY <2>1, <2>2
<1>3. J => ImageAsRequested
  <2> SUFFICES ASSUME IInv, Promised, NEW d \in Images, ~out[d].lock.torn
               PROVE  LET b == out[d]
                          installed == {[root |-> x.root, name |-> x.of.name, version |-> x.of.version]
                                          : x \in b.tree.rows}
                      IN /\ \A r \in b.m.packages : \E x \in b.tree.rows :
                              /\ x.of.name = r.name /\ matchesPin(r, x.of)
                              /\ x.root = packageRootKey(r, b.m, {x.of})
                         /\ b.mode.noDeps \/ \A x \in b.tree.rows : \A n \in x.of.needs :
                              \E v \in n.constraint.allowed :
                                [root |-> Place(n, x.root, b.m), name |-> n.name, version |-> v]
                                  \in installed
    BY DEF ImageAsRequested
  <2> DEFINE b == out[d]
             l == b.lock
             At1(e) == [root |-> e.root, of |-> e.hash]
  <2>1. d \in Dirs /\ b # None
    BY DEF IInv, TInv, Shapes, Images
  <2>2. /\ Requested(l) /\ b.m = l.intent /\ b.mode.noDeps = l.noDeps
        /\ b.tree = Image(b.m, FullGot(l))
    BY <2>1 DEF IInv, Published, Promised
  <2>3. b.tree.rows = {Row(g) : g \in FullGot(l)}
    BY <2>2 DEF Image
  <2>4. \A e : Row(Fetched(e, e.hash)) = At1(e)
    BY DEF Row, Fetched
  <2>5. \A x : x \in b.tree.rows <=> \E e \in l.packages : x = At1(e)
    BY <2>3, <2>4 DEF FullGot
  <2> HIDE DEF b, l
  <2>6. ~l.torn
    BY DEF l, b
  <2>7. ASSUME NEW r \in b.m.packages
        PROVE  \E x \in b.tree.rows : /\ x.of.name = r.name /\ matchesPin(r, x.of)
                                      /\ x.root = packageRootKey(r, b.m, {x.of})
    <3>1. PICK e \in l.packages : /\ e.hash.name = r.name /\ matchesPin(r, e.hash)
                                  /\ e.root = packageRootKey(r, b.m, {e.hash})
      BY <2>2, <2>6 DEF Requested, Meets
    <3>2. At1(e) \in b.tree.rows
      BY <2>5
    <3>3. At1(e).of = e.hash /\ At1(e).root = e.root
      OBVIOUS
    <3> HIDE DEF At1
    <3>4. /\ At1(e).of.name = r.name /\ matchesPin(r, At1(e).of)
          /\ At1(e).root = packageRootKey(r, b.m, {At1(e).of})
      BY <3>1, <3>3
    <3> QED BY <3>2, <3>4
  <2>8. ASSUME ~b.mode.noDeps, NEW x \in b.tree.rows, NEW n \in x.of.needs
        PROVE  \E v \in n.constraint.allowed :
                 [root |-> Place(n, x.root, b.m), name |-> n.name, version |-> v]
                   \in {[root |-> y.root, name |-> y.of.name, version |-> y.of.version]
                          : y \in b.tree.rows}
    <3>1. PICK e \in l.packages : x = At1(e)
      BY <2>5
    <3>2. PICK f \in l.packages : /\ f.root = Place(n, e.root, b.m) /\ f.hash.name = n.name
                                  /\ f.hash.version \in n.constraint.allowed
      BY <2>2, <2>6, <2>8, <3>1 DEF Requested, Meets
    <3>3. At1(f) \in b.tree.rows
      BY <2>5
    <3>4. x.root = e.root /\ At1(f).root = f.root /\ At1(f).of = f.hash
      BY <3>1
    <3> HIDE DEF At1
    <3> DEFINE Identity(y) == [root |-> y.root, name |-> y.of.name, version |-> y.of.version]
               v == f.hash.version
    <3>5. Identity(At1(f)) \in {Identity(y) : y \in b.tree.rows}
      BY <3>3
    <3>6. [root |-> Place(n, x.root, b.m), name |-> n.name, version |-> v] = Identity(At1(f))
      BY <3>2, <3>4
    <3> HIDE DEF Identity
    <3>7. [root |-> Place(n, x.root, b.m), name |-> n.name, version |-> v]
            \in {Identity(y) : y \in b.tree.rows}
      BY <3>5, <3>6
    <3> USE DEF Identity
    <3> QED BY <3>2, <3>7
  <2> QED BY <2>7, <2>8 DEF b
<1> QED BY <1>1, <1>2, <1>3, PTL DEF Spec
=============================================================================
