------------------------------ MODULE Resolver ------------------------------
(***************************************************************************)
(* Dependency resolution: Resolve and ResolveMultiRoot                     *)
(* (internal/resolver).  A pure function from the requests, the packages   *)
(* installed in each root and the candidates the repositories offer to a   *)
(* plan or a rejection.  The loop is greedy: it takes the preferred        *)
(* candidate for each unsatisfied dependency and never reconsiders.        *)
(*                                                                         *)
(* A package is a record of its manifest's fields and the repository it    *)
(* comes from.  A version is a natural number, the order of                *)
(* version.Compare; a constraint is the set of versions it matches.  The   *)
(* world is a set of entries, at most one for each root and name:          *)
(*   root, pkg   where, and what would be installed there                  *)
(*   chosen      this resolution chose pkg (candidate # nil)               *)
(*   was         the package installed there now, or None                  *)
(*                                                                         *)
(* Abstracted: notices, the details in messages, download facts.           *)
(***************************************************************************)
EXTENDS Integers, FiniteSets, SequencesExt

CONSTANTS NameSeq,     \* package and capability names, in lexical order
          RepoSeq,     \* repository names, in lexical order
          RootSeq,     \* roots, in path order
          Priority,    \* [repository -> priority], lower is more trusted
          OrphanPriority, \* the priority of an origin no longer configured
          PrimaryArch, NoArch,  \* this system's architecture; noarch
          Local,       \* the origin of a package installed from a file
          Here,        \* a dependency that names no root
          None,        \* no package, no root, no rejection, no version asked
          MaxResolveSteps       \* maxResolveSteps

Name == ToSet(NameSeq)
Repo == ToSet(RepoSeq)
Root == ToSet(RootSeq)

(* Why a resolution is rejected (reject.go).                               *)
Reasons == {"unsatisfiable", "conflict", "arch-mismatch", "version-regression",
            "cycle", "removal-blocked", "too-complex"}

ASSUME ResolverAssumption ==
  /\ NameSeq \in Seq(Name) /\ RepoSeq \in Seq(Repo) /\ RootSeq \in Seq(Root)
  /\ Priority \in [Repo -> Nat] /\ OrphanPriority \in Int
  /\ \A r \in Repo : OrphanPriority < Priority[r]
  /\ Local \notin Repo /\ Here \notin Root
  /\ None \notin Root \cup Reasons /\ \A S \in SUBSET Root : None # S
  /\ MaxResolveSteps \in Nat

(* The version of a `provides` entry that states none; versions are        *)
(* positive, so it ranks below every stated version.                       *)
Unversioned == 0

Position(seq, x) == SelectInSeq(seq, LAMBDA y : y = x)

(* The elements of a sequence that are in a set, in order.                 *)
Select(seq, S) ==
  LET chosen[k \in 0 .. Len(seq)] ==
        IF k = 0 THEN << >>
        ELSE IF seq[k] \in S THEN Append(chosen[k - 1], seq[k]) ELSE chosen[k - 1]
  IN chosen[Len(seq)]

Concat(seqs) == FoldLeft(LAMBDA s, t : s \o t, << >>, seqs)
Map(Op(_), seq) == [i \in DOMAIN seq |-> Op(seq[i])]

(* The n-fold application of Step to s.                                    *)
Iterate(Step(_), s, n) ==
  LET after[k \in 0..n] == IF k = 0 THEN s ELSE Step(after[k - 1]) IN after[n]

(***************************************************************************)
(* Satisfaction (resolve.go).                                              *)
(***************************************************************************)
effectiveArch(arch) == IF arch = NoArch THEN PrimaryArch ELSE arch
installableArch(arch) == arch \in {PrimaryArch, NoArch}

satisfies(pkg, dep, dependerArch) ==
  /\ pkg.arch \in {NoArch, effectiveArch(dependerArch)}
  /\ \/ pkg.name = dep.name /\ pkg.ver \in dep.vers
     \/ \E p \in pkg.provides :
          p.name = dep.name /\ (p.ver = Unversioned \/ p.ver \in dep.vers)

(* The root a dependency is placed and satisfied in.  refs is the set of   *)
(* registered named roots, or None in single-root resolution, where every  *)
(* dependency stays with its depender.                                     *)
routeRoot(dep, dependerRoot, refs) ==
  IF dep.in = Here \/ refs = None THEN dependerRoot
  ELSE IF dep.in \in refs THEN dep.in ELSE None

worldSatisfiesInRoot(world, dep, dependerArch, root) ==
  \E e \in world : e.root = root /\ satisfies(e.pkg, dep, dependerArch)

Satisfied(world, e, dep, refs) ==
  worldSatisfiesInRoot(world, dep, e.pkg.arch, routeRoot(dep, e.root, refs))

KeyBefore(e, f) ==
  \/ Position(RootSeq, e.root) < Position(RootSeq, f.root)
  \/ e.root = f.root /\ Position(NameSeq, e.pkg.name) < Position(NameSeq, f.pkg.name)

FirstOf(S) == CHOOSE e \in S : \A f \in S \ {e} : KeyBefore(e, f)

At(world, root, name) == {e \in world : e.root = root /\ e.pkg.name = name}
The(world, key) == CHOOSE e \in At(world, key[1], key[2]) : TRUE

(***************************************************************************)
(* Candidate selection (select.go).  A depender is the repository a        *)
(* dependency is resolved for and that repository's priority.              *)
(***************************************************************************)
NoDepender == [repo |-> Local, priority |-> 0]

(* Mutant: an origin that is no longer configured is trusted least.        *)
PriorityOf_OrphanLast(repo, configured) ==
  IF repo \in configured THEN Priority[repo] ELSE 99

PriorityOf(repo, configured) ==
  IF repo \in configured THEN Priority[repo]
  ELSE IF repo = Local THEN 0 ELSE OrphanPriority

originRepo(e, configured) ==
  [repo |-> e.pkg.repo, priority |-> PriorityOf(e.pkg.repo, configured)]

(* What a candidate offers for a name: its own version, or that of its     *)
(* `provides` entry.                                                       *)
roleVersion(c, name) ==
  IF c.name = name THEN c.ver ELSE (CHOOSE p \in c.provides : p.name = name).ver

PriorityOfCandidate(c) == IF c.repo = Local THEN 0 ELSE Priority[c.repo]

Score(holds) == IF holds THEN 1 ELSE 0
Native(c) == Score(c.arch = PrimaryArch)

KeepsRepository(c, d, depender) ==
  /\ depender.repo # Local
  /\ c.repo = depender.repo /\ d.repo # depender.repo
  /\ depender.priority <= PriorityOfCandidate(d)

(* The selection rules in order, each positive when it prefers a to b.     *)
SelectionRules(a, b, name, depender) ==
  << IF a.name = b.name THEN 0 ELSE Native(a) - Native(b),
     Score(KeepsRepository(a, b, depender)) - Score(KeepsRepository(b, a, depender)),
     PriorityOfCandidate(b) - PriorityOfCandidate(a),
     roleVersion(a, name) - roleVersion(b, name),
     IF a.name = b.name THEN a.ver - b.ver ELSE 0,
     IF a.name = b.name THEN Native(a) - Native(b) ELSE 0,
     Position(NameSeq, b.name) - Position(NameSeq, a.name),
     Position(RepoSeq, b.repo) - Position(RepoSeq, a.repo) >>

(* The first rule that tells a and b apart decides.                        *)
morePreferred(a, b, name, depender) ==
  \E rules \in {SelectionRules(a, b, name, depender)} : \E i \in DOMAIN rules :
    rules[i] > 0 /\ \A j \in 1 .. i - 1 : rules[j] = 0

preferredOf(seq, name, depender) ==
  FoldLeft(LAMBDA best, c : IF morePreferred(c, best, name, depender) THEN c ELSE best,
           Head(seq), Tail(seq))

(* One revision of each package first, then the preferred of those, in the *)
(* order the candidates come in.                                           *)
revisions(matches, c) == Select(matches, {d \in ToSet(matches) : d.name = c.name})
firstRevisions(matches) ==
  Select(matches, {c \in ToSet(matches) : Head(revisions(matches, c)) = c})

(* Mutant: one scan over all the candidates.                               *)
pickBest_OneScan(matches, name, depender) ==
  IF matches = << >> THEN None ELSE preferredOf(matches, name, depender)

pickBest(matches, name, depender) ==
  IF matches = << >> THEN None
  ELSE preferredOf(Map(LAMBDA c : preferredOf(revisions(matches, c), name, depender),
                       firstRevisions(matches)), name, depender)

bestNamed(available, name, vers) ==
  pickBest(SetToSeq({c \in available : /\ c.name = name /\ c.ver \in vers
                                       /\ installableArch(c.arch)}),
           name, NoDepender)

GoalMatches(available, name) ==
  {c \in available : /\ installableArch(c.arch)
                     /\ c.name = name \/ \E p \in c.provides : p.name = name}

bestForGoal(available, name) ==
  pickBest(SetToSeq(GoalMatches(available, name)), name, NoDepender)

DependencyMatches(available, dep, dependerArch) ==
  {c \in available : satisfies(c, dep, dependerArch) /\ installableArch(c.arch)}

bestForDependency(available, dep, dependerArch, depender) ==
  pickBest(SetToSeq(DependencyMatches(available, dep, dependerArch)), dep.name, depender)

(***************************************************************************)
(* The resolution in progress: the world, the requests' and the worklist's *)
(* keys still to be looked at, the elevated actions raised so far, the     *)
(* number of worklist items processed and, when there is one, the reason   *)
(* of the rejection that ends it.                                          *)
(***************************************************************************)
InstalledWorld(installed) ==
  UNION {{[root |-> r, pkg |-> p, chosen |-> FALSE, was |-> p] : p \in installed[r]} :
            r \in Root}

Rejected(s, why) == [s EXCEPT !.reason = why]
Open(s) == s.reason = None

(* applyRemovals (removal.go): the targets go, then whatever that breaks,  *)
(* or the removal is refused.                                              *)
removeTarget(s, key) ==
  IF ~Open(s) THEN s
  ELSE IF At(s.world, key[1], key[2]) = {} THEN Rejected(s, "removal-blocked")
  ELSE [s EXCEPT !.world = @ \ At(s.world, key[1], key[2])]

(* Mutant: a dependency is looked for in its depender's root only.         *)
broken_OwnRoot(world, refs) ==
  {e \in world : \E dep \in e.pkg.deps : ~worldSatisfiesInRoot(world, dep, e.pkg.arch, e.root)}

broken(world, refs) ==
  {e \in world : \E dep \in e.pkg.deps :
     routeRoot(dep, e.root, refs) # None /\ ~Satisfied(world, e, dep, refs)}

dropFirst(s, B, cascade) ==
  IF B = {} THEN s
  ELSE IF cascade THEN [s EXCEPT !.world = @ \ {FirstOf(B)}]
  ELSE Rejected(s, "removal-blocked")

removeBroken(s, refs, cascade) ==
  IF Open(s) THEN dropFirst(s, broken(s.world, refs), cascade) ELSE s

applyRemovals(s, targets, refs, cascade) ==
  IF targets = << >> THEN s
  ELSE Iterate(LAMBDA t : removeBroken(t, refs, cascade),
               FoldLeft(removeTarget, s, targets), Cardinality(s.world) + 1)

placeCandidate(world, cand, root) ==
  (world \ At(world, root, cand.name)) \cup
    {[root |-> root, pkg |-> cand, chosen |-> TRUE,
      was |-> IF At(world, root, cand.name) = {} THEN None
              ELSE The(world, <<root, cand.name>>).was]}

Goal(s, root, name) == [s EXCEPT !.work = Append(@, <<root, name>>)]
Placed(s, cand, root) ==
  Goal([s EXCEPT !.world = placeCandidate(@, cand, root)], root, cand.name)
PlacedIfAny(s, cand, root) ==
  IF cand = None THEN Rejected(s, "unsatisfiable") ELSE Placed(s, cand, root)

(* applyGoal (resolve.go): one operator per kind of request.               *)
installGoal(s, req, available) ==
  IF At(s.world, req.root, req.name) # {} THEN Goal(s, req.root, req.name)
  ELSE PlacedIfAny(s, bestForGoal(available, req.name), req.root)

(* Mutant: the loop over the packages ends with the first newer one.       *)
PlacedIfNewer_FirstOnly(s, e, cand) ==
  IF cand # None /\ cand.ver > e.pkg.ver /\ \A f \in s.world : ~f.chosen
  THEN Placed(s, cand, e.root) ELSE Goal(s, e.root, e.pkg.name)

PlacedIfNewer(s, e, cand) ==
  IF cand # None /\ cand.ver > e.pkg.ver THEN Placed(s, cand, e.root)
  ELSE Goal(s, e.root, e.pkg.name)

(* Every place a package can be in, in the order of its key.              *)
KeySeq ==
  [i \in 1 .. Len(RootSeq) * Len(NameSeq) |->
     <<RootSeq[((i - 1) \div Len(NameSeq)) + 1], NameSeq[((i - 1) % Len(NameSeq)) + 1]>>]

upgradeKey(s, key, available) ==
  IF At(s.world, key[1], key[2]) = {} THEN s
  ELSE LET e == The(s.world, key)
       IN PlacedIfNewer(s, e, bestNamed(available, e.pkg.name, Nat))

upgradeTargets(world) == Select(KeySeq, {<<e.root, e.pkg.name>> : e \in world})

upgradeGoal(s, req, available) ==
  IF req.name = None
  THEN FoldLeft(LAMBDA t, key : upgradeKey(t, key, available), s, upgradeTargets(s.world))
  ELSE IF At(s.world, req.root, req.name) = {} THEN Rejected(s, "unsatisfiable")
  ELSE upgradeKey(s, <<req.root, req.name>>, available)

downgradeGoal(s, req, available) ==
  PlacedIfAny(s, bestNamed(available, req.name, {req.ver}), req.root)

applyGoal(s, req, available) ==
  CASE ~Open(s) \/ req.kind = "remove" -> s
    [] Open(s) /\ req.kind = "install" -> installGoal(s, req, available)
    [] Open(s) /\ req.kind = "upgrade" -> upgradeGoal(s, req, available)
    [] Open(s) /\ req.kind = "downgrade" -> downgradeGoal(s, req, available)

Authorization ==
  [kind : {"low-trust-provides", "foreign-replaces", "downgrade"}, name : Name]

(* The elevated action of meeting a dependency by a `provides` entry while *)
(* a more trusted repository offers the name in a version that fails.      *)
lowTrustProvidesAuthorization(available, dep, cand) ==
  IF \/ cand.name = dep.name /\ cand.ver \in dep.vers
     \/ \A c \in available : c.name = dep.name =>
          \/ PriorityOfCandidate(c) >= PriorityOfCandidate(cand)
          \/ c.ver \in dep.vers
  THEN {} ELSE {[kind |-> "low-trust-provides", name |-> cand.name]}

(* Dependencies that name an available package come before capabilities,  *)
(* each in the order of the names.                                         *)
DependencyNames(e, available) ==
  LET wanted == {dep.name : dep \in e.pkg.deps}
      offered == {c.name : c \in available}
  IN Select(NameSeq, wanted \cap offered) \o Select(NameSeq, wanted \ offered)

meetBy(s, dep, cand, root, available) ==
  IF root = None \/ cand = None THEN Rejected(s, "unsatisfiable")
  ELSE [Placed(s, cand, root) EXCEPT
          !.auths = @ \cup lowTrustProvidesAuthorization(available, dep, cand)]

resolveDependency(s, e, dep, available, refs, configured) ==
  IF ~Open(s) \/ (routeRoot(dep, e.root, refs) # None /\ Satisfied(s.world, e, dep, refs))
  THEN s
  ELSE meetBy(s, dep,
              bestForDependency(available, dep, e.pkg.arch, originRepo(e, configured)),
              routeRoot(dep, e.root, refs), available)

DependenciesOn(e, name) == SetToSeq({dep \in e.pkg.deps : dep.name = name})

resolveEntry(s, e, available, refs, configured) ==
  FoldLeft(LAMBDA t, name :
             FoldLeft(LAMBDA u, dep : resolveDependency(u, e, dep, available, refs, configured),
                      t, DependenciesOn(e, name)),
           s, DependencyNames(e, available))

(* One turn of resolveForward: the head of the worklist.                   *)
resolveNext(s, available, refs, configured) ==
  IF ~Open(s) \/ s.work = << >> THEN s
  ELSE IF s.steps = MaxResolveSteps THEN Rejected(s, "too-complex")
  ELSE resolveEntry([s EXCEPT !.work = Tail(@), !.steps = @ + 1],
                    The(s.world, s.work[1]), available, refs, configured)

resolveForward(s, available, refs, configured) ==
  Iterate(LAMBDA t : resolveNext(t, available, refs, configured), s, MaxResolveSteps + 1)

(* PSPU 5.21 succession: a chosen package supersedes the installed packages *)
(* of its root that it declares to replace.                                *)
replacesIn(p, v) ==
  /\ p.chosen /\ p.root = v.root /\ v.was # None
  /\ \E r \in p.pkg.replaces : r.name = v.pkg.name /\ v.was.ver \in r.vers

takeovers(world) == {pv \in world \X world : replacesIn(pv[1], pv[2])}

foreign(pv, configured) ==
  /\ pv[2].was.repo # Local
  /\ PriorityOfCandidate(pv[1].pkg) > PriorityOf(pv[2].was.repo, configured)

applyReplaces(s, configured) ==
  IF ~Open(s) THEN s
  ELSE [s EXCEPT
          !.world = @ \ {pv[2] : pv \in takeovers(@)},
          !.auths = @ \cup {[kind |-> "foreign-replaces", name |-> pv[1].pkg.name] :
                             pv \in {t \in takeovers(s.world) : foreign(t, configured)}}]

(***************************************************************************)
(* checkConsistency (check.go): what a greedy resolution may still have    *)
(* got wrong.                                                              *)
(***************************************************************************)
archMismatch(world) == \E e \in world : ~installableArch(e.pkg.arch)

conflictIn(world) ==
  \E a \in world, b \in world : /\ a # b /\ a.root = b.root
                                /\ \E c \in a.pkg.conflicts : satisfies(b.pkg, c, a.pkg.arch)

(* Mutant: only what the resolution chose is checked.                      *)
unmetDependency_Chosen(world, refs) ==
  \E e \in world : e.chosen /\ \E dep \in e.pkg.deps : ~Satisfied(world, e, dep, refs)

unmetDependency(world, refs) ==
  \E e \in world : \E dep \in e.pkg.deps : ~Satisfied(world, e, dep, refs)

regression(world, opts, downgradeAllowed) ==
  /\ ~opts.allowDowngrade
  /\ \E e \in world : /\ e.chosen /\ e.was # None
                       /\ <<e.root, e.pkg.name>> \notin downgradeAllowed
                       /\ e.pkg.ver < e.was.ver

checkConsistency(s, refs, opts, downgradeAllowed) ==
  IF ~Open(s) THEN s
  ELSE IF archMismatch(s.world) THEN Rejected(s, "arch-mismatch")
  ELSE IF conflictIn(s.world) THEN Rejected(s, "conflict")
  ELSE IF unmetDependency(s.world, refs) THEN Rejected(s, "unsatisfiable")
  ELSE IF regression(s.world, opts, downgradeAllowed) THEN Rejected(s, "version-regression")
  ELSE s

(***************************************************************************)
(* buildPlan (plan.go): the operations, removals first.                    *)
(***************************************************************************)
OpKind(e) == IF e.was = None THEN "install"
             ELSE IF e.pkg.ver > e.was.ver THEN "upgrade" ELSE "downgrade"

(* A package chosen again at its installed version is no operation.        *)
forwardEntries(world) ==
  {e \in world : e.chosen /\ (e.was = None \/ e.pkg.ver # e.was.ver)}

removedEntries(world, installed) ==
  {e \in InstalledWorld(installed) : At(world, e.root, e.pkg.name) = {}}

(* The entries among S that one of e's dependencies could be met by.       *)
dependenciesAmong(S, e, refs) ==
  {f \in S \ {e} : \E dep \in e.pkg.deps :
     f.root = routeRoot(dep, e.root, refs) /\ satisfies(f.pkg, dep, e.pkg.arch)}

(* One step of topoSort's depth-first walk: stack holds the active         *)
(* entries, out those that are done, in order, and next those that may be  *)
(* visited now.                                                            *)
unvisited(t, S, refs) ==
  (IF t.stack = << >> THEN S ELSE dependenciesAmong(S, Last(t.stack), refs)) \ ToSet(t.out)

visit(t, next) ==
  IF t.cycle \/ (t.stack = << >> /\ next = {}) THEN t
  ELSE IF next = {} THEN [t EXCEPT !.stack = Front(@), !.out = Append(@, Last(t.stack))]
  ELSE IF FirstOf(next) \in ToSet(t.stack) THEN [t EXCEPT !.cycle = TRUE]
  ELSE [t EXCEPT !.stack = Append(@, FirstOf(next))]

topoSort(S, refs) ==
  Iterate(LAMBDA t : visit(t, unvisited(t, S, refs)),
          [stack |-> << >>, out |-> << >>, cycle |-> FALSE], 2 * Cardinality(S) + 1)

removal(e) == [kind |-> "remove", root |-> e.root, name |-> e.pkg.name,
               from |-> e.pkg, to |-> None]
forward(e) == [kind |-> OpKind(e), root |-> e.root, name |-> e.pkg.name,
               from |-> e.was, to |-> e.pkg]

NoPlan(why) == [reason |-> why, ops |-> << >>, auths |-> {}]

elevations(ops, auths) ==
  auths \cup {[kind |-> "downgrade", name |-> op.name] :
                op \in {o \in ToSet(ops) : o.kind = "downgrade"}}

(* Mutant: removals in the order of installs, dependencies first.          *)
planOf_DependenciesFirst(s, gone, come) ==
  IF gone.cycle \/ come.cycle THEN NoPlan("cycle")
  ELSE [reason |-> None, ops |-> Map(removal, gone.out) \o Map(forward, come.out),
        auths |-> elevations(Map(forward, come.out), s.auths)]

planOf(s, gone, come) ==
  IF gone.cycle \/ come.cycle THEN NoPlan("cycle")
  ELSE [reason |-> None,
        ops |-> Map(removal, Reverse(gone.out)) \o Map(forward, come.out),
        auths |-> elevations(Map(forward, come.out), s.auths)]

buildPlan(s, installed, refs) ==
  IF ~Open(s) THEN NoPlan(s.reason)
  ELSE planOf(s, topoSort(removedEntries(s.world, installed), refs),
                 topoSort(forwardEntries(s.world), refs))

Asked(reqs, kind) == Select(reqs, {q \in ToSet(reqs) : q.kind = kind})
Keys(reqs) == Map(LAMBDA q : <<q.root, q.name>>, reqs)

seedGoals(s, reqs, available) ==
  FoldLeft(LAMBDA t, req : applyGoal(t, req, available), s, reqs)

Fresh(installed) ==
  [world |-> InstalledWorld(installed), work |-> << >>, auths |-> {}, steps |-> 0, reason |-> None]

(* resolveCore.  refs = None is the single-root entry point Resolve.       *)
Resolve(reqs, installed, available, refs, configured, opts) ==
  buildPlan(
    checkConsistency(
      applyReplaces(
        resolveForward(
          seedGoals(
            applyRemovals(Fresh(installed), Keys(Asked(reqs, "remove")), refs, opts.cascade),
            reqs, available),
          available, refs, configured),
        configured),
      refs, opts, ToSet(Keys(Asked(reqs, "downgrade")))),
    installed, refs)
=============================================================================
