------------------------------ MODULE Commands ------------------------------
(***************************************************************************)
(* The commands that change what is installed: install, upgrade,           *)
(* uninstall, downgrade and undo (internal/cli/lifecycle.go, alternate.go, *)
(* local.go), on a tree of roots.  A command resolves a plan from the      *)
(* recorded packages and the cached indexes without a lock, shows it to    *)
(* the operator, and executes it when the operator agrees.  Execution is   *)
(* one step here, all or nothing: FileTxn and CrossRoot are about that     *)
(* step.  Meanwhile repositories publish packages and the operator adds    *)
(* and removes repositories.                                               *)
(*                                                                         *)
(* Besides the fields Resolver reads, a package has alt, whether it        *)
(* declares alternate_upgrade, and home, its default_root or Here.         *)
(*                                                                         *)
(* Abstracted: claims, licence policy, freshness of the indexes (Refresh), *)
(* the commands that change nothing.                                       *)
(***************************************************************************)
EXTENDS Resolver

CONSTANTS Upstreams,  \* what repositories hold: records of two sets of packages,
                      \* now, published at the start, and later, to be published
          Files,      \* the package files the operator has
          Below,      \* [root -> the named roots that can be reached from it]
          Stand,      \* the roots the operator runs commands in
          Arguments,  \* the lists of names the operator types
          Process,    \* peipkg processes
          MaxRemoved  \* bound: repositories a root is without at one time

Catalog == Files \cup UNION {u.now \cup u.later : u \in Upstreams}

ASSUME CommandsAssumption ==
  /\ IsFiniteSet(Catalog)
  /\ \A c \in Catalog : c.name \in Name /\ c.ver \in Nat \ {0}
  /\ \A c \in Catalog : IsFiniteSet(c.deps) /\ \A dep \in c.deps : dep.name \in Name
  /\ \A c \in Catalog : \A p \in c.provides : p.ver \in Nat
  /\ \A c \in Catalog : c.repo \in Repo \cup {Local} /\ (c.repo = Local <=> c \in Files)
  /\ \A u \in Upstreams : u.now \cap u.later = {} /\ (u.now \cup u.later) \cap Files = {}
  /\ None \notin Catalog /\ None \notin Name /\ None # "alternate-upgrade"
  /\ Below \in [Root -> SUBSET Root] /\ Stand \subseteq Root
  /\ Arguments \subseteq Seq(Name)
  /\ MaxRemoved \in Nat

VARIABLES installed,   \* [Root -> packages]
          published,   \* packages the repositories have published
          upcoming,    \* packages they have yet to publish
          configured,  \* [Root -> repositories with a .repo file there]
          last,        \* [Root -> its last committed transaction, or None]
          job          \* [Process -> the plan it has shown, or None]

vars == <<installed, published, upcoming, configured, last, job>>

(* An operation of a plan: what it replaces and what it puts in place.     *)
Operation == [kind : {"install", "upgrade", "downgrade", "remove"}, root : Root, name : Name,
              from : Catalog \cup {None}, to : Catalog \cup {None}]

Shown == [verb : {"install", "upgrade", "upgrade here", "uninstall", "downgrade", "undo"},
          at : Root, asked : Seq(Name), ops : Seq(Operation),
          auths : SUBSET Authorization, separate : BOOLEAN]

TypeOK ==
  /\ installed \in [Root -> SUBSET Catalog]
  /\ \A r \in Root : \A c \in installed[r], d \in installed[r] : c.name = d.name => c = d
  /\ published \subseteq Catalog \ Files /\ upcoming \subseteq Catalog \ (published \cup Files)
  /\ configured \in [Root -> SUBSET Repo]
  /\ last \in [Root -> {None} \cup [cross : BOOLEAN, ops : Seq(Operation)]]
  /\ \A r \in Root : last[r] # None => \E op \in ToSet(last[r].ops) : op.root = r
  /\ job \in [Process -> {None} \cup Shown]
  /\ \A p \in Process : job[p] # None =>
       \A op \in ToSet(job[p].ops) : op.root \in {job[p].at} \cup Below[job[p].at]

Init ==
  /\ installed = [r \in Root |-> {}]
  /\ \E u \in Upstreams : published = u.now /\ upcoming = u.later
  /\ configured = [r \in Root |-> IF r \in Stand THEN Repo ELSE {}]
  /\ last = [r \in Root |-> None]
  /\ job = [p \in Process |-> None]

(***************************************************************************)
(* What a resolution is given.                                             *)
(***************************************************************************)

(* The active index keeps the newest version of each name.                 *)
deriveActive == {c \in published : \A d \in published :
                   d.repo = c.repo /\ d.name = c.name => d.ver <= c.ver}

availableSet(at) == {c \in deriveActive : c.repo \in configured[at]}
archiveCandidates(at) == {c \in published : c.repo \in configured[at]}

Reach(at) == {at} \cup Below[at]

gatherInstalledByRoot(at) ==
  [r \in Root |-> IF r \in Reach(at) THEN installed[r] ELSE {}]

resolveCrossRoot(at, reqs, available, opts) ==
  Resolve(reqs, gatherInstalledByRoot(at), available, Below[at], configured[at], opts)

resolveSingleRoot(at, reqs, available, opts) ==
  Resolve(reqs, [r \in Root |-> IF r = at THEN installed[at] ELSE {}],
          available, None, configured[at], opts)

Options == [allowDowngrade |-> FALSE, cascade |-> FALSE]
Backward == [Options EXCEPT !.allowDowngrade = TRUE]
Request(kind, root, name) == [kind |-> kind, root |-> root, name |-> name, ver |-> 0]

(* A named upgrade goes to every reachable root that holds the package.    *)
routeRequest(at, name) ==
  LET holders == {r \in Reach(at) : \E c \in installed[r] : c.name = name}
      request(r) == Request("upgrade", r, name)
  IN IF holders = {} THEN << request(at) >> ELSE Map(request, Select(RootSeq, holders))

(* Where an install may land: where the operator stands, which an explicit *)
(* --root makes final, or the one default_root the packages declare.       *)
topLevelTargetRoots(at, args, files) ==
  LET homes == {c.home : c \in {d \in availableSet(at) \cup files : d.name \in ToSet(args)}}
  IN {at} \cup (IF Cardinality(homes \ {Here}) = 1 THEN homes \cap Below[at] ELSE {})

(* How an upgrade resolves; --no-recurse keeps to one root.                *)
resolve(at, reqs, noRecurse) ==
  IF noRecurse THEN resolveSingleRoot(at, reqs, availableSet(at), Options)
  ELSE resolveCrossRoot(at, reqs, availableSet(at), Options)

(***************************************************************************)
(* A plan that would install or upgrade a package with an alternate        *)
(* upgrade path is refused; an upgrade of everything is narrowed instead.  *)
(* A candidate from an archive index does not carry the declaration.       *)
(***************************************************************************)
alternateUpgradeOps(plan) ==
  {op \in ToSet(plan.ops) : /\ op.kind \in {"install", "upgrade"}
                            /\ op.to.alt /\ op.to \in deriveActive \cup Files}

refuseAlternateUpgrade(plan) ==
  IF alternateUpgradeOps(plan) = {} THEN plan ELSE NoPlan("alternate-upgrade")

holdBack(plan, at, noRecurse) ==
  LET held == {op.name : op \in alternateUpgradeOps(plan)}
      rest == Select(plan.ops, {op \in ToSet(plan.ops) : op.kind = "upgrade" /\ op.name \notin held})
      again(op) == Request("upgrade", op.root, op.name)
  IN IF held = {} THEN plan
     ELSE IF rest = << >> THEN NoPlan(None)
     ELSE refuseAlternateUpgrade(resolve(at, Map(again, rest), noRecurse))

(***************************************************************************)
(* Planning.  bypass is --bypass-alternate-upgrade.  A rejected or empty   *)
(* plan ends the command.  separate marks a plan whose operations each run *)
(* in their own root whatever roots there are (undoCrossRoot).             *)
(***************************************************************************)
Show(p, verb, at, asked, plan, separate) ==
  /\ plan.reason = None /\ plan.ops # << >>
  /\ job' = [job EXCEPT ![p] = [verb |-> verb, at |-> at, asked |-> asked, ops |-> plan.ops,
                                auths |-> plan.auths, separate |-> separate]]
  /\ UNCHANGED <<installed, published, upcoming, configured, last>>

(* A .peipkg file among the arguments joins the candidates and is          *)
(* requested by its name.                                                  *)
cmdInstall(p, at, args, files) ==
  /\ job[p] = None /\ args # << >>
  /\ \A f \in files : f.name \in ToSet(args)
  /\ \E target \in topLevelTargetRoots(at, args, files) :
       LET request(name) == Request("install", target, name)
           plan == resolveCrossRoot(target, Map(request, args),
                                   availableSet(target) \cup files, Options)
       IN \E bypass \in BOOLEAN :
            Show(p, "install", target, args,
                 IF bypass THEN plan ELSE refuseAlternateUpgrade(plan), FALSE)

orphanedPackages(at) ==
  {c.name : c \in {d \in installed[at] : d.repo \notin configured[at] \cup {Local}}}

refuseOrphanUpgrade(at, args) ==
  \E i \in DOMAIN args : /\ args[i] \in orphanedPackages(at)
                         /\ \A c \in availableSet(at) : c.name # args[i]

UpgradeRequests(at, args, noRecurse) ==
  IF args = << >> THEN << Request("upgrade", at, None) >>
  ELSE IF noRecurse THEN Map(LAMBDA name : Request("upgrade", at, name), args)
  ELSE Concat(Map(LAMBDA name : routeRequest(at, name), args))

cmdUpgrade(p, at, args, noRecurse) ==
  LET plan == resolve(at, UpgradeRequests(at, args, noRecurse), noRecurse)
      screened == IF args = << >> THEN holdBack(plan, at, noRecurse)
                  ELSE refuseAlternateUpgrade(plan)
  IN /\ job[p] = None
     /\ ~refuseOrphanUpgrade(at, args)
     /\ \E bypass \in BOOLEAN :
          Show(p, IF noRecurse THEN "upgrade here" ELSE "upgrade", at, args,
               IF bypass THEN plan ELSE screened, FALSE)

cmdUninstall(p, at, args) ==
  LET request(name) == Request("remove", at, name)
  IN /\ job[p] = None /\ args # << >>
     /\ \E cascade \in BOOLEAN :
          Show(p, "uninstall", at, args,
               resolveCrossRoot(at, Map(request, args), availableSet(at),
                                [Options EXCEPT !.cascade = cascade]), FALSE)

(* A downgrade and an undo run under the verb of an upgrade, so a plan of  *)
(* theirs that installs an alternate-upgrade package is refused as well.   *)
cmdDowngrade(p, at, name, ver) ==
  LET req == [Request("downgrade", at, name) EXCEPT !.ver = ver]
      plan == resolveCrossRoot(at, << req >>, availableSet(at) \cup archiveCandidates(at), Backward)
  IN /\ job[p] = None
     /\ Show(p, "downgrade", at, << name >>, refuseAlternateUpgrade(plan), FALSE)

(* Mutant: what was removed comes back in its newest version.              *)
inverseRequest_Newest(op) ==
  IF op.kind = "install" THEN Request("remove", op.root, op.name)
  ELSE IF op.kind = "remove" THEN Request("install", op.root, op.name)
  ELSE [Request("downgrade", op.root, op.name) EXCEPT !.ver = op.from.ver]

inverseRequest(op) ==
  IF op.kind = "install" THEN Request("remove", op.root, op.name)
  ELSE [Request("downgrade", op.root, op.name) EXCEPT !.ver = op.from.ver]

(* The requests that reverse the last transaction of root at.  roots is    *)
(* the order in which the reachable roots are looked at.                   *)
UndoRequests(at, roots) ==
  LET in(r) == Select(last[at].ops, {op \in ToSet(last[at].ops) : op.root = r})
  IN Map(inverseRequest, Concat(Map(in, roots)))

UndoPlan(at, roots) ==
  LET plan == resolveCrossRoot(at, UndoRequests(at, roots),
                               availableSet(at) \cup archiveCandidates(at), Backward)
  IN IF last[at].cross THEN plan ELSE refuseAlternateUpgrade(plan)

cmdUndo(p, at) ==
  /\ job[p] = None /\ last[at] # None
  /\ \E roots \in SetToSeqs(Reach(at)) :
       Show(p, "undo", at, << >>, UndoPlan(at, roots), last[at].cross)

(***************************************************************************)
(* Execution.  A plan that spans several roots, and the undo of a          *)
(* cross-root transaction, runs each operation in its root; any other plan *)
(* runs in the root the command was given.                                 *)
(***************************************************************************)
planRoots(ops) == {op.root : op \in ToSet(ops)}
CrossRootPlan(j) == j.separate \/ Cardinality(planRoots(j.ops)) > 1

Ran(j) == IF CrossRootPlan(j) THEN j.ops
          ELSE Map(LAMBDA op : [op EXCEPT !.root = j.at], j.ops)

(* An operation replaces, by name, what its root has; only an install of a *)
(* package that has got there meanwhile fails.                             *)
(* Mutant: the version an upgrade replaces keeps its record.               *)
runOp_KeepsOld(packages, op) ==
  [packages EXCEPT ![op.root] =
     IF op.to = None THEN {c \in @ : c.name # op.name} ELSE @ \cup {op.to}]

runOp(packages, op) ==
  [packages EXCEPT ![op.root] =
     {c \in @ : c.name # op.name} \cup (IF op.to = None THEN {} ELSE {op.to})]

Execute(p) ==
  /\ job[p] # None
  /\ LET ops == Ran(job[p])
     IN /\ \A op \in ToSet(ops) : op.kind = "install" =>
             \A c \in installed[op.root] : c.name # op.name
        /\ installed' = FoldLeft(runOp, installed, ops)
        /\ last' = [r \in Root |-> IF r \in planRoots(ops)
                      THEN [cross |-> CrossRootPlan(job[p]), ops |-> ops] ELSE last[r]]
  /\ job' = [job EXCEPT ![p] = None]
  /\ UNCHANGED <<published, upcoming, configured>>

(* The operator declines, a download fails, or a check of the transaction  *)
(* does.                                                                   *)
Abandon(p) ==
  /\ job[p] # None
  /\ job' = [job EXCEPT ![p] = None]
  /\ UNCHANGED <<installed, published, upcoming, configured, last>>

(***************************************************************************)
(* The repositories.                                                       *)
(***************************************************************************)

(* A release is never changed once published, and two architectures of one *)
(* version cannot both be the newest.                                      *)
Publish(c) ==
  /\ c \in upcoming
  /\ \A d \in published : d.repo = c.repo /\ d.name = c.name => d.ver # c.ver
  /\ published' = published \cup {c}
  /\ upcoming' = upcoming \ {c}
  /\ UNCHANGED <<installed, configured, last, job>>

removeRepository(at, repo) ==
  /\ repo \in configured[at] /\ Cardinality(Repo \ configured[at]) < MaxRemoved
  /\ configured' = [configured EXCEPT ![at] = @ \ {repo}]
  /\ UNCHANGED <<installed, published, upcoming, last, job>>

addRepository(at, repo) ==
  /\ repo \notin configured[at]
  /\ configured' = [configured EXCEPT ![at] = @ \cup {repo}]
  /\ UNCHANGED <<installed, published, upcoming, last, job>>

FileChoices == {{}} \cup {{f} : f \in Files}

Next ==
  \/ \E p \in Process, at \in Stand :
       \/ \E args \in Arguments, files \in FileChoices : cmdInstall(p, at, args, files)
       \/ \E args \in Arguments, noRecurse \in BOOLEAN : cmdUpgrade(p, at, args, noRecurse)
       \/ \E args \in Arguments : cmdUninstall(p, at, args)
       \/ \E c \in archiveCandidates(at) : cmdDowngrade(p, at, c.name, c.ver)
       \/ cmdUndo(p, at)
  \/ \E p \in Process : Execute(p) \/ Abandon(p)
  \/ \E c \in upcoming : Publish(c)
  \/ \E at \in Stand, repo \in Repo : removeRepository(at, repo) \/ addRepository(at, repo)

Spec == Init /\ [][Next]_vars

(***************************************************************************)
(* Properties.                                                             *)
(***************************************************************************)
Meets(W, e) ==
  \A dep \in e.pkg.deps : \E f \in W :
    f.root = (IF dep.in = Here THEN e.root ELSE dep.in) /\ satisfies(f.pkg, dep, e.pkg.arch)

Clash(W) ==
  \E e \in W, f \in W : /\ e # f /\ e.root = f.root
                       /\ \E c \in e.pkg.conflicts : satisfies(f.pkg, c, e.pkg.arch)

(* After any sequence of commands every package installed in any root has  *)
(* its dependencies, in the roots they name, and no two packages of a root *)
(* conflict: the greedy choices, the successions, the cascades and the     *)
(* routing to roots together leave no package broken (resolve.go,          *)
(* check.go, lifecycle.go).                                                *)
InstalledWhole ==
  LET W == InstalledWorld(installed)
  IN (\A e \in W : Meets(W, e)) /\ ~Clash(W)

(* A plan can be carried out one operation at a time: what an operation    *)
(* puts in place has its dependencies there already, and a removal never   *)
(* takes a dependency from a package that is removed later (plan.go's      *)
(* order across roots).                                                    *)
StepwiseMet ==
  \A p \in Process : job[p] # None =>
    LET ops == job[p].ops
        W(i) == InstalledWorld(FoldLeft(runOp, installed, SubSeq(ops, 1, i)))
        removedLater(i, e) == \E j \in i + 1 .. Len(ops) :
          ops[j].kind = "remove" /\ ops[j].root = e.root /\ ops[j].name = e.pkg.name
    IN \A i \in DOMAIN ops : \A e \in W(i) :
         \/ ops[i].to = e.pkg /\ ops[i].root = e.root
         \/ ops[i].kind = "remove" /\ removedLater(i, e)
         => Meets(W(i), e)

(* Without the operator's explicit authorisation a plan never moves a      *)
(* package to an older version, and never removes one that was not named   *)
(* in an uninstall or undone, except for a successor installed in the same *)
(* root from a repository at least as trusted; a package whose repository  *)
(* is gone counts as the most trusted (resolve.go's authorizations).       *)
AtLeastAsTrusted(from, to, repos) ==
  \/ to = Local \/ from = Local
  \/ from \in repos /\ Priority[to] <= Priority[from]

RoutineOnly(j) ==
  \A op \in ToSet(j.ops) :
    /\ op.from # None /\ op.to # None => op.to.ver > op.from.ver
    /\ op.kind = "remove" /\ j.verb \notin {"uninstall", "undo"} =>
         \E by \in ToSet(j.ops) :
           /\ by.to # None /\ by.root = op.root
           /\ \E r \in by.to.replaces : r.name = op.name /\ op.from.ver \in r.vers
           /\ AtLeastAsTrusted(op.from.repo, by.to.repo, configured[j.at])

ElevationsAsked ==
  [][\A p \in Process :
       job[p] = None /\ job'[p] # None /\ job'[p].auths = {} => RoutineOnly(job'[p])]_vars

(* Running an undo puts every package the last transaction touched, in     *)
(* each root, back to the version it had; any other package stays, unless  *)
(* one that comes back declares to replace it (cmdUndo, undoCrossRoot).    *)
VersionsOf(packages, op) == {c.ver : c \in {d \in packages[op.root] : d.name = op.name}}

Restored(j) ==
  LET undone == ToSet(last[j.at].ops)
      touched == {<<op.root, op.name>> : op \in undone}
  IN /\ \A op \in undone : VersionsOf(installed', op)
                           = IF op.from = None THEN {} ELSE {op.from.ver}
     /\ \A r \in Root : \A c \in installed[r] :
          <<r, c.name>> \notin touched =>
            \/ c \in installed'[r]
            \/ \E d \in installed'[r] \ installed[r] : \E q \in d.replaces : q.name = c.name

UndoRestores ==
  [][\A p \in Process : Execute(p) /\ job[p].verb = "undo" => Restored(job[p])]_vars

(* Which package fills a name does not depend on the order the indexes     *)
(* list the candidates in: the selection rules are one total order for     *)
(* every set of candidates (pickBest, morePreferred).  What is installed   *)
(* plays no part, so the property looks at the choice while nothing is.    *)
SelectionOrderIndependent ==
  (\A r \in Root : installed[r] = {}) =>
    \A at \in Stand, name \in Name :
      LET M == GoalMatches(availableSet(at) \cup archiveCandidates(at), name)
      IN \A s, t \in SetToSeqs(M) : pickBest(s, name, NoDepender) = pickBest(t, name, NoDepender)

(* An uninstall leaves the most that can be left: the largest set of the   *)
(* other packages in which every dependency is met.  A cascade takes no    *)
(* bystander, and without a cascade nobody is left broken (removal.go).    *)
CascadeExact ==
  \A p \in Process : job[p] # None /\ job[p].verb = "uninstall" =>
    LET asked == {e \in InstalledWorld(installed) :
                    e.root = job[p].at /\ e.pkg.name \in ToSet(job[p].asked)}
        others == InstalledWorld(installed) \ asked
        whole == {S \in SUBSET others : \A e \in S : Meets(S, e)}
    IN InstalledWorld(FoldLeft(runOp, installed, job[p].ops)) = UNION whole

(* An upgrade of everything is finished when it has run: planned again on  *)
(* what it would leave, it finds nothing to do but packages held back for  *)
(* their alternate upgrade path (applyGoal, enforceAlternateUpgrade).      *)
UpgradeConverges ==
  [][\A p \in Process :
       job[p] = None /\ job'[p] # None /\ job'[p].verb = "upgrade" /\ job'[p].asked = << >> =>
         LET at == job'[p].at
             then == FoldLeft(runOp, gatherInstalledByRoot(at), job'[p].ops)
             again == Resolve(<< Request("upgrade", at, None) >>, then, availableSet(at),
                              Below[at], configured[at], Options)
         IN \A op \in ToSet(again.ops) : op.to # None /\ op.to.alt]_vars

(* What a plan showed for a root is what that root has once the plan has   *)
(* run: an upgrade reaches the roots that hold the package                 *)
(* (routeRequests, the choice of executor in transact).                    *)
RunsWhereShown ==
  [][\A p \in Process : Execute(p) =>
       \A op \in ToSet(job[p].ops) : op.to # None => op.to \in installed'[op.root]]_vars

(* The last transaction can be undone while nothing it did has been built  *)
(* upon and every version to go back to is still archived (cmdUndo): there *)
(* is a plan, whatever the transaction was.                                *)
UndoPossible ==
  \A at \in Stand :
    /\ last[at] # None
    /\ \A r \in Reach(at) : last[r] \in {last[at], None}
    /\ \A op \in ToSet(last[at].ops) : op.from # None => op.from \in archiveCandidates(at)
    => \E roots \in SetToSeqs(Reach(at)) : UndoPlan(at, roots).reason = None
=============================================================================
