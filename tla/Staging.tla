------------------------------ MODULE Staging ------------------------------
(***************************************************************************)
(* What a transaction decides to do to one root: internal/install/stage.go *)
(* (which files are written, kept, set aside or removed, and which are     *)
(* refused), internal/install/claims.go with internal/claims (who holds a  *)
(* role and which links that makes), reclaim.go, pinned.go and space.go    *)
(* (directories) and sideeffects.go (depmod).                              *)
(*                                                                         *)
(* A transaction is planned in one step and committed or rolled back in    *)
(* another.  How the commit survives a kill is FileTxn's subject: here a   *)
(* transaction that does not commit is rolled back, by the process itself  *)
(* or by the recovery of the next one, with the same effect on disk.       *)
(*                                                                         *)
(* The operator edits, places and deletes files between transactions and,  *)
(* when Racing, between the planning and the commit of one.                *)
(*                                                                         *)
(* Abstracted: a file is its content hash; a symlink is its target; sizes, *)
(* modes and descriptors are left out; what the layout rules say of a      *)
(* payload is the manifest's own flag "strays".                            *)
(***************************************************************************)
EXTENDS Naturals, Sequences, FiniteSets

CONSTANTS PkgOrder,      \* the package names, in lexicographic order
          Path, Dir,     \* non-directory and directory logical paths
          Above,         \* [Path \cup Dir -> SUBSET Dir]: the directories over a path
          EtcPath,       \* the paths under /usr/etc or /etc
          NewName,       \* the .peipkg-new sibling of a path
          Role,
          Relative,      \* Relative[path][target]: the text of a link at path to target
          Release,       \* [Path -> kernel release or None]: where a module belongs
          Manifest,      \* [package -> sequence of its versions' verified packages]
          OperatorEntry, \* [paths the operator acts on -> what they may put there]
          Options,       \* flags and answers a command is run with
          None,
          MaxOps,        \* bound: operations in a plan
          Together,      \* bound: the sets of packages one plan touches at once
          MaxEdited,     \* bound: paths in the operator's state at once
          MaxKept,       \* bound: displaced content left on disk
          MaxClaimPaths, \* claim paths materialised for one role
          Racing         \* whether the operator acts inside a transaction

Pkg == {PkgOrder[i] : i \in DOMAIN PkgOrder}
Before(p, q) == \E i, j \in DOMAIN PkgOrder : i < j /\ PkgOrder[i] = p /\ PkgOrder[j] = q

Versions == UNION {{0} \cup DOMAIN Manifest[p] : p \in Pkg}  \* 0 is "not installed"

Entry(kind, val) == [kind |-> kind, val |-> val]
Absent == Entry("none", None)
IsEntry(e) == e = Entry(e.kind, e.val) /\ e.kind \in {"file", "link"}

ASSUME StagingAssumption ==
  /\ MaxOps \in Nat /\ MaxClaimPaths \in Nat
  /\ MaxEdited \in Nat /\ MaxKept \in Nat /\ Racing \in BOOLEAN
  /\ DOMAIN PkgOrder \subseteq Nat
  /\ EtcPath \subseteq Path /\ Path \cap Dir = {}
  /\ \A x \in Path \cup Dir : Above[x] \subseteq Dir /\ x \notin Above[x]
  /\ \A p \in EtcPath : NewName[p] \in Path
  /\ \A p \in DOMAIN OperatorEntry : p \in Path /\ \A e \in OperatorEntry[p] : IsEntry(e)
  /\ \A p \in Pkg : DOMAIN Manifest[p] \subseteq Nat \ {0}
  /\ \A p \in Pkg : \A v \in DOMAIN Manifest[p] :
       LET m == Manifest[p][v]
       IN /\ DOMAIN m.files \subseteq Path /\ m.dirs \subseteq Dir
          /\ \A x \in DOMAIN m.files : IsEntry(m.files[x])
          /\ \A s \in m.provides : s.path \in Path \cup {None}
          /\ \A c \in m.consumes : c.path \in Path

VARIABLES disk,      \* [Path -> entry]: what is at each path
          kept,      \* displaced content left beside a path, as <<path, entry>>
          dirs,      \* the directories that exist
          rows,      \* package_file
          installed, \* [Pkg -> version]: package
          holder,    \* [Role -> package or None]: claim_holder
          links,     \* claim_link
          index,     \* [Path -> whether the last depmod saw a module there]
          work,      \* the planned, uncommitted transaction, or None
          edited     \* paths the operator changed since peipkg last wrote or adopted them

vars == <<disk, kept, dirs, rows, installed, holder, links, index, work, edited>>

-----------------------------------------------------------------------------
(* One package operation of a plan.                                        *)

M(op) == Manifest[op.pkg][op.to]
Forward(plan) == {plan[i] : i \in {j \in DOMAIN plan : plan[j].kind # "remove"}}
Removed(plan) == {plan[i].pkg : i \in {j \in DOMAIN plan : plan[j].kind = "remove"}}
Touched(plan) == {plan[i].pkg : i \in DOMAIN plan}

Legal(op) ==
  /\ op.to \in {0} \cup DOMAIN Manifest[op.pkg]
  /\ \/ op.kind = "install" /\ installed[op.pkg] = 0 /\ op.to > 0
     \/ op.kind = "upgrade" /\ installed[op.pkg] \in 1 .. op.to - 1
     \/ op.kind = "downgrade" /\ op.to > 0 /\ installed[op.pkg] > op.to
     \/ op.kind = "remove" /\ op.to = 0 /\ installed[op.pkg] > 0

Operation == [pkg : Pkg, kind : {"install", "upgrade", "downgrade", "remove"}, to : Versions]

(* The resolver puts removals before forward operations.                   *)
Plans ==
  {plan \in UNION {[1 .. n -> {op \in Operation : Legal(op)}] : n \in 1 .. MaxOps} :
     /\ Cardinality(Touched(plan)) = Len(plan)
     /\ Len(plan) = 1 \/ Touched(plan) \in Together
     /\ \A i, j \in DOMAIN plan : i < j /\ plan[j].kind = "remove" => plan[i].kind = "remove"}

Prior(op) == IF op.kind = "install" THEN {} ELSE {r \in rows : r.pkg = op.pkg}
Owners(p) == {r.pkg : r \in {s \in rows : s.path = p}}
Recorded(r) == Entry(r.kind, r.val)

(* fileModified over the scope of isEtcPath.                               *)
Modified(r) ==
  /\ r.kind = "file" /\ r.path \in EtcPath
  /\ disk[r.path] # Absent /\ disk[r.path] # Recorded(r)

Untouched(op, p) ==
  /\ M(op).files[p].kind = "file" /\ p \notin M(op).stamped
  /\ disk[p] # Absent
  /\ \E r \in Prior(op) : r.path = p /\ Recorded(r) = M(op).files[p]

Preserved(op, p) ==
  /\ M(op).files[p].kind = "file" /\ ~Untouched(op, p)
  /\ \E r \in Prior(op) : r.path = p /\ Modified(r)

Dest(op, p) == IF Preserved(op, p) THEN NewName[p] ELSE p

(* unownedPolicy: content that belongs to no package and differs from what *)
(* would be installed.                                                     *)
Foreign(p, e) == disk[p] # Absent /\ Owners(p) = {} /\ disk[p] # e

PlannedOp(p, e) ==
  [path |-> p, action |-> IF disk[p] = Absent THEN "create" ELSE "replace",
   entry |-> e, keep |-> Foreign(p, e)]
Drop(p, keep) == [path |-> p, action |-> "remove", entry |-> Absent, keep |-> keep]

Paths(op) ==
  DOMAIN M(op).files \cup M(op).dirs
    \cup {NewName[p] : p \in {q \in DOMAIN M(op).files : Preserved(op, q)}}

Staged(op) == {p \in DOMAIN M(op).files : ~Untouched(op, p)}
PackageOps(op) ==
  {PlannedOp(Dest(op, p), M(op).files[p]) : p \in Staged(op)}
    \cup {Drop(r.path, FALSE) : r \in {s \in Prior(op) : s.kind # "dir" /\ s.path \notin Paths(op)}}

PackageRow(op, p, e) == [pkg |-> op.pkg, path |-> p, kind |-> e.kind, val |-> e.val]

(* Mutant: a preserved file is recorded with the hash its package carries. *)
X_PackageRows(op) ==
  {PackageRow(op, d, Entry("dir", None)) : d \in M(op).dirs}
    \cup {PackageRow(op, p, M(op).files[p]) : p \in DOMAIN M(op).files}
    \cup {PackageRow(op, NewName[p], M(op).files[p]) :
            p \in {q \in DOMAIN M(op).files : Preserved(op, q)}}

(* recordedHash: what is recorded for a preserved file is what is on disk. *)
PackageRows(op) ==
  {PackageRow(op, d, Entry("dir", None)) : d \in M(op).dirs}
    \cup {PackageRow(op, p, IF Preserved(op, p) THEN disk[p] ELSE M(op).files[p]) :
            p \in DOMAIN M(op).files}
    \cup {PackageRow(op, NewName[p], M(op).files[p]) :
            p \in {q \in DOMAIN M(op).files : Preserved(op, q)}}

Mine(op) == {r \in rows : r.pkg = op.pkg /\ r.kind # "dir" /\ Owners(r.path) = {op.pkg}}

(* Mutant: a modified file whose removal was authorised is not set aside.  *)
X_RemovalOps(op, decide) ==
  {Drop(r.path, FALSE) : r \in {s \in Mine(op) : ~(Modified(s) /\ decide = "keep")}}

(* stageRemoval, past the refusal of "abort".                              *)
RemovalOps(op, decide) ==
  {Drop(r.path, Modified(r)) : r \in {s \in Mine(op) : ~(Modified(s) /\ decide = "keep")}}

StagedOps(op, opt) == IF op.kind = "remove" THEN RemovalOps(op, opt.decide) ELSE PackageOps(op)
Released(op) ==
  {r.path : r \in {s \in Prior(op) :
     s.kind = "dir" /\ (op.kind = "remove" \/ s.path \notin Paths(op))}}

-----------------------------------------------------------------------------
(* Claims: who holds a role after the transaction, and which links follow. *)

After(plan) ==
  [p \in Pkg |-> IF \E i \in DOMAIN plan : plan[i].pkg = p
                 THEN plan[CHOOSE i \in DOMAIN plan : plan[i].pkg = p].to
                 ELSE installed[p]]

Slots(p, v, role) == {s \in Manifest[p][v].provides : s.role = role /\ s.target # None}
EligibleProvider(p, v, role) == v # 0 /\ Slots(p, v, role) # {}

ConsumerPaths(at, role, slot) ==
  {c.path : c \in {d \in UNION {Manifest[p][at[p]].consumes : p \in {q \in Pkg : at[q] # 0}} :
                     d.role = role /\ d.slot = slot}}

SlotLinks(at, s) ==
  {[path |-> x, role |-> s.role, slot |-> s.slot, target |-> s.target] :
     x \in ({s.path} \cup ConsumerPaths(at, s.role, s.slot)) \ {None}}

RoleLinks(at, who, role) ==
  IF who[role] = None \/ at[who[role]] = 0 THEN {}
  ELSE UNION {SlotLinks(at, s) : s \in Slots(who[role], at[who[role]], role)}

Desired(at, who) == UNION {RoleLinks(at, who, role) : role \in Role}

Overclaimed(at, who) ==
  \/ \E l, m \in Desired(at, who) : l.path = m.path /\ l # m
  \/ \E role \in Role :
       Cardinality({l.path : l \in RoleLinks(at, who, role)}) > MaxClaimPaths

(* computeHolders: of two packages of one plan the smaller name is taken.  *)
Candidates(plan, role) ==
  {op.pkg : op \in {o \in Forward(plan) : EligibleProvider(o.pkg, o.to, role)}}
First(pkgs) == CHOOSE p \in pkgs : \A q \in pkgs : p = q \/ Before(p, q)

PostHolder(plan, opt) ==
  [role \in Role |->
     LET left == IF holder[role] \in Removed(plan) THEN None ELSE holder[role]
         offered == Candidates(plan, role)
     IN IF offered # {} /\ (opt.claim = "all" \/ role \in opt.roles
                              \/ (left = None /\ opt.claim # "none"))
        THEN First(offered) ELSE left]

PostOwned(plan) ==
  {r.path : r \in {s \in rows : s.pkg \notin Touched(plan)}}
    \cup UNION {DOMAIN M(op).files \cup M(op).dirs : op \in Forward(plan)}

LinkEntry(l) == Entry("link", Relative[l.path][l.target])
Fresh(want) == {l \in want : \A m \in links : m.path # l.path}

(* Mutant: a link whose path is already claimed counts as materialised.    *)
X_Repointed(want) == {}

Repointed(want) == {l \in want \ links : \E m \in links : m.path = l.path}
Stale(want) == {m \in links : \A l \in want : l.path # m.path}

(* An identical link nobody owns is adopted: a row, and no operation.      *)
Adopted(want) ==
  {l \in Fresh(want) : Owners(l.path) = {} /\ disk[l.path] = LinkEntry(l)}

(* Mutant: claim links skip the payload's unowned-content gate.            *)
X_LinkOp(l, fresh) ==
  [path |-> l.path, action |-> IF disk[l.path] = Absent THEN "create" ELSE "swap",
   entry |-> LinkEntry(l), keep |-> FALSE]

(* unownedPolicy again, for a link that is new.                            *)
LinkOp(l, fresh) ==
  [path |-> l.path, action |-> IF disk[l.path] = Absent THEN "create" ELSE "swap",
   entry |-> LinkEntry(l), keep |-> fresh /\ Foreign(l.path, LinkEntry(l))]

ClaimOps(want) ==
  {LinkOp(l, TRUE) : l \in Fresh(want) \ Adopted(want)}
    \cup {LinkOp(l, FALSE) : l \in Repointed(want)}
    \cup {Drop(m.path, FALSE) : m \in Stale(want)}

(* The link's own operation displaces the removed package's file.          *)
Settled(ops, claimed) ==
  {o \in ops : ~(o.action = "remove" /\ \E c \in claimed : c.path = o.path)}

(* Mutant: a removed file keeps its operation beside the link's.           *)
X_AllOps(plan, opt, want) ==
  ClaimOps(want) \cup UNION {StagedOps(plan[i], opt) : i \in DOMAIN plan}

(* resolveClaimOverRemoval over the package operations, and the links.     *)
AllOps(plan, opt, want) ==
  ClaimOps(want) \cup UNION {Settled(StagedOps(plan[i], opt), ClaimOps(want)) : i \in DOMAIN plan}

-----------------------------------------------------------------------------
(* What refuses a plan, before anything is opened and after.               *)

Refused(plan, opt) ==
  \E op \in Forward(plan) :
    \/ M(op).strays /\ ~(M(op).special /\ opt.bypass)
    \/ M(op).overrides /\ ~opt.vouched

Collides(plan, op) == \E p \in DOMAIN M(op).files : Owners(p) \ Touched(plan) # {}
ClaimLinkCollides(op) == \E l \in links : l.path \in DOMAIN M(op).files \cup M(op).dirs
BadTarget(op) ==
  \E s \in M(op).provides :
    s.target # None /\ s.target \notin DOMAIN M(op).files \cup M(op).dirs

MustAsk(plan, opt) ==
  opt.decide = "abort"
    /\ \E i \in DOMAIN plan : plan[i].kind = "remove" /\ \E r \in Mine(plan[i]) : Modified(r)

Overwrites(ops, opt) == ~opt.overwrite /\ \E o \in ops : o.keep /\ o.action # "remove"

PackagesRefused(plan, opt) ==
  \/ MustAsk(plan, opt)
  \/ \E op \in Forward(plan) :
       \/ Collides(plan, op) \/ ClaimLinkCollides(op) \/ BadTarget(op)
       \/ Overwrites(PackageOps(op), opt)

ClaimsConflict(plan, opt, at, who) ==
  \/ \E role \in opt.roles : Candidates(plan, role) = {}
  \/ Overclaimed(at, who)
  \/ \E l \in Desired(at, who) : l.path \in PostOwned(plan)

ClaimsRefused(plan, opt, at, who) ==
  \/ ClaimsConflict(plan, opt, at, who)
  \/ Overwrites(ClaimOps(Desired(at, who)), opt)

(* Two operations on one path cannot both enter the journal: not of two    *)
(* packages, not of a package and a claim, and not of two files of one     *)
(* package, one of which would become the other's .peipkg-new.             *)
DoubleBooked(plan, opt, want) ==
  LET booked(i) == {o.path : o \in Settled(StagedOps(plan[i], opt), ClaimOps(want))}
  IN \/ \E i, j \in DOMAIN plan : i # j /\ booked(i) \cap booked(j) # {}
     \/ \E op \in Forward(plan) : \E p, q \in Staged(op) : p # q /\ Dest(op, p) = Dest(op, q)
     \/ \E i \in DOMAIN plan : booked(i) \cap {o.path : o \in ClaimOps(want)} # {}

-----------------------------------------------------------------------------
(* Directories.  checkDiskSpace resolves the parent of every regular file, *)
(* creating it, before the transaction has a journal; a symlink's parent   *)
(* is created while its package is planned.  Only what is still missing    *)
(* when a directory entry or a claim link is planned is journalled.        *)

Parents(plan, kind) ==
  UNION {UNION {Above[p] : p \in {q \in DOMAIN M(op).files : M(op).files[q].kind = kind}} :
           op \in Forward(plan)}
ShippedDirs(plan) == UNION {UNION {{d} \cup Above[d] : d \in M(op).dirs} : op \in Forward(plan)}
ClaimParents(want) == UNION {Above[l.path] : l \in Fresh(want) \cup Repointed(want)}

CreatedDirs(plan, want) ==
  (ShippedDirs(plan) \cup ClaimParents(want))
    \ (dirs \cup Parents(plan, "file") \cup (Parents(plan, "link") \ ShippedDirs(plan)))

(* Those of a set of directories that a deepest-first removal can remove.  *)
Vacant(these, existing, content, aside) ==
  {d \in these \cap existing :
     /\ \A p \in Path : d \in Above[p] => content[p] = Absent /\ \A k \in aside : k[1] # p
     /\ \A e \in existing : d \in Above[e] => e \in these}

-----------------------------------------------------------------------------
(* Commands.                                                               *)

Stage(plan, ops, filed, noted, who, want, asked) ==
  /\ work' = [plan |-> plan, ops |-> ops, rows |-> filed, noted |-> noted, who |-> who,
              want |-> want, asked |-> asked, made |-> CreatedDirs(plan, want),
              released |-> UNION {Released(plan[i]) : i \in DOMAIN plan}]
  /\ dirs' = dirs \cup Parents(plan, "file") \cup Parents(plan, "link")
                  \cup ShippedDirs(plan) \cup ClaimParents(want)

(* A plan that passes every check, up to the end of prepareTxn.            *)
Prepare(plan, opt) ==
  LET who == PostHolder(plan, opt)
      want == Desired(After(plan), who)
  IN /\ work = None /\ ~Refused(plan, opt)
     /\ ~PackagesRefused(plan, opt)
     /\ ~ClaimsRefused(plan, opt, After(plan), who)
     /\ ~DoubleBooked(plan, opt, want)
     /\ Stage(plan, AllOps(plan, opt, want),
              UNION {PackageRows(op) : op \in Forward(plan)},
              UNION {{p \in DOMAIN M(op).files : Preserved(op, p)} : op \in Forward(plan)},
              who, want,
              IF opt.claim = "all" THEN Role ELSE opt.roles)
     /\ UNCHANGED <<disk, kept, rows, installed, holder, links, index, edited>>

(* A plan refused, or failed by a call, before anything is staged: the     *)
(* directories made while planning it are in no journal row and stay.      *)
Abandon(plan, opt) ==
  LET who == PostHolder(plan, opt)
      early == PackagesRefused(plan, opt) \/ ClaimsConflict(plan, opt, After(plan), who)
      claimed == IF early THEN {} ELSE ClaimParents(Desired(After(plan), who))
  IN /\ work = None /\ ~Refused(plan, opt)
     /\ \E left \in {{}, Parents(plan, "link"), Parents(plan, "link") \cup claimed} :
          dirs' = dirs \cup Parents(plan, "file") \cup left
     /\ UNCHANGED <<disk, kept, rows, installed, holder, links, index, work, edited>>

(* install.Claim: the same reconciliation with no package plan, and never  *)
(* with leave to overwrite.  Losing a link is never refused.               *)
ClaimFlags == [overwrite |-> FALSE, roles |-> {}]
Regrant(role, pkg) == [holder EXCEPT ![role] = pkg]

ClaimChange(role, pkg) ==
  LET who == Regrant(role, pkg)
      want == Desired(installed, who)
  IN /\ work = None
     /\ ~ClaimsRefused(<<>>, ClaimFlags, installed, who)
     /\ Stage(<<>>, ClaimOps(want), {}, {}, who, want, {role})
     /\ UNCHANGED <<disk, kept, rows, installed, holder, links, index, edited>>

ClaimAbandoned(role, pkg) ==
  LET who == Regrant(role, pkg)
  IN /\ work = None
     /\ ~ClaimsConflict(<<>>, ClaimFlags, installed, who)
     /\ \E left \in {{}, ClaimParents(Desired(installed, who))} : dirs' = dirs \cup left
     /\ UNCHANGED <<disk, kept, rows, installed, holder, links, index, work, edited>>

Grant(role, p) ==
  /\ EligibleProvider(p, installed[p], role)
  /\ ClaimChange(role, p) \/ ClaimAbandoned(role, p)

Revoke(role) ==
  /\ holder[role] # None
  /\ ClaimChange(role, None)

-----------------------------------------------------------------------------
(* Commit and rollback.                                                    *)

DiskAfter(ops) ==
  [p \in Path |-> IF \E o \in ops : o.path = p
                  THEN (CHOOSE o \in ops : o.path = p).entry ELSE disk[p]]

RowsAfter(plan, filed) == {r \in rows : r.pkg \notin Touched(plan)} \cup filed

OnePathOneOwner(filed) ==
  \A r, s \in filed : r.path = s.path /\ r.kind # "dir" /\ s.kind # "dir" => r = s

(* Mutant: only the roles that change hands are written.                   *)
X_HolderRows(plan, who) ==
  LET deleted == {plan[i].pkg : i \in {j \in DOMAIN plan : plan[j].kind # "install"}}
  IN [role \in Role |-> IF who[role] # holder[role] THEN who[role]
                         ELSE IF holder[role] \in deleted THEN None ELSE holder[role]]

(* Deleting a package row cascades to the roles it holds; applyClaim-      *)
(* Metadata then sets every role that has a holder after the transaction.  *)
HolderRows(plan, who) ==
  LET deleted == {plan[i].pkg : i \in {j \in DOMAIN plan : plan[j].kind # "install"}}
      cascaded == [role \in Role |-> IF holder[role] \in deleted THEN None ELSE holder[role]]
      cleared == [role \in Role |-> IF who[role] = None THEN None ELSE cascaded[role]]
  IN [role \in Role |-> IF who[role] # None THEN who[role] ELSE cleared[role]]

(* depmod runs for each release a staged package carries modules of or a   *)
(* removed package did, when any of them declares it.                      *)
DepmodReleases(plan, filed) ==
  LET gone == {r \in rows : r.pkg \in Removed(plan)}
      declared == \E i \in DOMAIN plan :
        IF plan[i].kind = "remove" THEN Manifest[plan[i].pkg][installed[plan[i].pkg]].depmod
        ELSE M(plan[i]).depmod
  IN IF declared
     THEN {Release[r.path] : r \in {s \in filed \cup gone : s.kind = "file"}} \ {None}
     ELSE {}

IndexAfter(plan, filed, content) ==
  [p \in Path |-> IF Release[p] \in DepmodReleases(plan, filed)
                  THEN content[p] # Absent ELSE index[p]]

(* reclaimDirectories, after the commit.                                   *)
DirsAfter(released, filed, content, aside) ==
  dirs \ Vacant({d \in released : \A r \in filed : r.path # d}, dirs, content, aside)

Commit ==
  /\ work # None
  /\ \A o \in work.ops : o.action \in {"replace", "swap"} => disk[o.path] # Absent
  /\ OnePathOneOwner(RowsAfter(work.plan, work.rows))
  /\ disk' = DiskAfter(work.ops)
  /\ kept' = kept \cup {<<o.path, disk[o.path]>> : o \in {x \in work.ops : x.keep /\ disk[x.path] # Absent}}
  /\ Cardinality(kept') <= MaxKept
  /\ rows' = RowsAfter(work.plan, work.rows)
  /\ installed' = After(work.plan)
  /\ holder' = HolderRows(work.plan, work.who)
  /\ links' = work.want
  /\ index' = IndexAfter(work.plan, work.rows, disk')
  /\ dirs' = DirsAfter(work.released, rows', disk', kept')
  /\ edited' = edited \ ({o.path : o \in work.ops} \cup work.noted
                          \cup {r.path : r \in {s \in work.rows : s.kind # "dir" /\ Recorded(s) = disk'[s.path]}}
                          \cup {l.path : l \in {m \in work.want : LinkEntry(m) = disk'[m.path]}})
  /\ work' = None

(* A failing call, or a kill and the next command's recovery: what the     *)
(* operations displaced is put back, what they would create is removed,    *)
(* and the journalled directories are removed where empty.                 *)
RollBack ==
  /\ work # None
  /\ disk' = [p \in Path |-> IF \E o \in work.ops : o.path = p /\ o.action = "create"
                             THEN Absent ELSE disk[p]]
  /\ dirs' = dirs \ Vacant(work.made, dirs, disk', kept)
  /\ work' = None
  /\ UNCHANGED <<kept, rows, installed, holder, links, index, edited>>

(* The operator writes a file into an existing directory, or deletes one.  *)
OperatorActs(p, e) ==
  /\ work = None \/ Racing
  /\ Above[p] \subseteq dirs /\ disk[p] # e
  /\ Cardinality(edited \cup {p}) <= MaxEdited
  /\ disk' = [disk EXCEPT ![p] = e]
  /\ edited' = edited \cup {p}
  /\ UNCHANGED <<kept, dirs, rows, installed, holder, links, index, work>>

Init ==
  /\ disk = [p \in Path |-> Absent] /\ kept = {} /\ dirs = {}
  /\ rows = {} /\ installed = [p \in Pkg |-> 0]
  /\ holder = [r \in Role |-> None] /\ links = {}
  /\ index = [p \in Path |-> FALSE] /\ work = None /\ edited = {}

Next ==
  \/ \E plan \in Plans, opt \in Options : Prepare(plan, opt) \/ Abandon(plan, opt)
  \/ \E role \in Role : Revoke(role) \/ \E p \in Pkg : Grant(role, p)
  \/ Commit
  \/ RollBack
  \/ \E p \in DOMAIN OperatorEntry : \E e \in OperatorEntry[p] \cup {Absent} : OperatorActs(p, e)

Spec == Init /\ [][Next]_vars

-----------------------------------------------------------------------------
(* Properties.                                                             *)

EntryKinds == {"none", "file", "link"}

(* Every variable has its shape, and a planned transaction carries one     *)
(* operation per path (prepareTxn, internal/install/execute.go).           *)
TypeOK ==
  /\ \A p \in Path : disk[p].kind \in EntryKinds
  /\ \A k \in kept : k[1] \in Path /\ k[2] # Absent
  /\ dirs \subseteq Dir /\ edited \subseteq Path
  /\ \A r \in rows : r.pkg \in Pkg /\ r.path \in Path \cup Dir
  /\ installed \in [Pkg -> Versions]
  /\ holder \in [Role -> Pkg \cup {None}]
  /\ index \in [Path -> BOOLEAN]
  /\ work # None => \A o1, o2 \in work.ops : o1.path = o2.path => o1 = o2

(* What `peipkg verify` reports is the operator's doing: a path nobody     *)
(* else changed holds what its one row records, the preserved /etc file    *)
(* and its .peipkg-new included, and an owned directory exists.            *)
DatabaseMatchesDisk ==
  /\ OnePathOneOwner(rows)
  /\ \A r \in rows : /\ r.kind = "dir" => r.path \in dirs
                     /\ r.kind # "dir" /\ r.path \notin edited => disk[r.path] = Recorded(r)

(* The links are at all times the cross-product of each held role's slots  *)
(* and the declared paths, in the database and on disk, and no package     *)
(* owns a claim path (reconcileClaims, checkClaimLinkCollisions).          *)
LinksAsClaimed ==
  /\ links = Desired(installed, holder)
  /\ \A l \in links : /\ Owners(l.path) = {}
                      /\ l.path \notin edited => disk[l.path] = LinkEntry(l)

Survives(p) == disk'[p] = disk[p] \/ <<p, disk[p]>> \in kept'
Settling == work # None /\ work' = None

Unowned(p) == disk[p] # Absent /\ Owners(p) = {} /\ \A l \in links : l.path # p

(* Content that belongs to no package and no role is never destroyed, only *)
(* adopted or set aside (unownedPolicy, for payload and for claim links).  *)
UnownedKept == [][Settling => \A p \in Path : Unowned(p) => Survives(p)]_vars

(* An /etc file that differs from what is recorded for it survives the     *)
(* upgrade of its package to a version that ships it, and the removal of   *)
(* the package when no other takes the path: in place, or set aside when   *)
(* the operator authorised its removal (preparePackage, stageRemoval).     *)
StillTheirs(r) ==
  \E i \in DOMAIN work.plan :
    /\ work.plan[i].pkg = r.pkg
    /\ IF work.plan[i].kind = "remove"
       THEN \A op \in Forward(work.plan) : r.path \notin DOMAIN M(op).files
       ELSE r.path \in DOMAIN M(work.plan[i]).files
EditsKept ==
  [][Settling => \A r \in rows : Modified(r) /\ StillTheirs(r) => Survives(r.path)]_vars

(* A role passes from its holder only when that package is removed or the  *)
(* operator names the role: an upgrade of the holder, whose package row is *)
(* deleted and written again, and another provider's install leave it.     *)
HoldersKept ==
  [][\A role \in Role :
       holder[role] # None /\ holder'[role] # holder[role] =>
         holder[role] \in Removed(work.plan) \/ role \in work.asked]_vars

(* "Modified: the operator's file is kept" (DESIGN.md): content the        *)
(* operator wrote at an /etc path outlives every upgrade, not only the     *)
(* first one after the edit.                                               *)
EtcContentKept ==
  [][Settling /\ (\A i \in DOMAIN work.plan : work.plan[i].kind = "upgrade") =>
       \A p \in EtcPath \cap DOMAIN OperatorEntry :
         disk[p] \in OperatorEntry[p] => Survives(p)]_vars

(* "Only an eligible provider may hold a role" (internal/claims).          *)
HoldersEligible ==
  \A role \in Role : holder[role] # None => EligibleProvider(holder[role], installed[holder[role]], role)

(* Between transactions depmod's index agrees with the modules on disk.    *)
IndexFresh ==
  \A p \in Path \ edited : Release[p] # None => (index[p] <=> disk[p] # Absent)
=============================================================================
