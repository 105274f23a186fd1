--------------------------- MODULE StagingProofs ---------------------------
(* Proofs about Staging, for any packages, paths, roles, manifests, claims *)
(* and plans.  What a plan may be committed with is settled when it is     *)
(* made: Sound(w) lists the facts about a planned transaction w that its   *)
(* commit relies on.  The guards of the planner establish them, nothing    *)
(* disturbs them while the transaction is pending, and they are all that a *)
(* commit needs to lead from an agreeing state to an agreeing state.       *)
EXTENDS Staging, FiniteSetTheorems, WellFoundedInduction, TLAPS

-----------------------------------------------------------------------------
(* Well-formed plans and what the database holds.                          *)

(* Plans, as its conditions are used: one legal operation per package.     *)
PlanOK(plan) ==
  /\ \A i \in DOMAIN plan : plan[i] \in Operation /\ Legal(plan[i])
  /\ \A i, j \in DOMAIN plan : plan[i].pkg = plan[j].pkg => i = j

Known(at) == at \in [Pkg -> Versions] /\ \A p \in Pkg : at[p] \in {0} \cup DOMAIN Manifest[p]
Holders == [Role -> Pkg \cup {None}]

EntryOK(e) == e = Absent \/ IsEntry(e)
RowOK(r) ==
  /\ r.pkg \in Pkg
  /\ r.kind = "dir" => r.path \in Dir
  /\ r.kind # "dir" => r.path \in Path /\ IsEntry(Recorded(r))

Separate(want) == \A l, m \in want : l.path = m.path => l = m
OnePerPath(ops) == \A o1, o2 \in ops : o1.path = o2.path => o1 = o2

(* The shape of the state.                                                 *)
Shapes ==
  /\ disk = [p \in Path |-> disk[p]] /\ \A p \in Path : EntryOK(disk[p])
  /\ \A k \in kept : k[1] \in Path /\ k[2] # Absent
  /\ dirs \subseteq Dir /\ edited \subseteq Path
  /\ \A r \in rows : RowOK(r)
  /\ Known(installed) /\ holder \in Holders /\ index \in [Path -> BOOLEAN]

(* A role leaves its holder for a reason.                                  *)
Reasoned(w) ==
  \A role \in Role :
    holder[role] # None /\ w.who[role] # holder[role] =>
      holder[role] \in Removed(w.plan) \/ role \in w.asked

(* The shape of a planned transaction.                                     *)
WorkShapes(w) ==
  /\ PlanOK(w.plan)
  /\ \A o \in w.ops : o.path \in Path /\ EntryOK(o.entry)
  /\ OnePerPath(w.ops)
  /\ \A r \in w.rows : RowOK(r)
  /\ w.who \in Holders
  /\ w.want = Desired(After(w.plan), w.who)

TInv ==
  /\ Shapes
  /\ OnePathOneOwner(rows)
  /\ links = Desired(installed, holder)
  /\ work # None => WorkShapes(work) /\ Reasoned(work)

-----------------------------------------------------------------------------
(* Plans.                                                                  *)

(* As many packages as operations: each package has one.                   *)
LEMMA PlansAreOK ==
  ASSUME NEW plan \in Plans
  PROVE  PlanOK(plan)
<1>1. PICK n \in 1 .. MaxOps : plan \in [1 .. n -> {op \in Operation : Legal(op)}]
  BY DEF Plans
<1>2. Cardinality(Touched(plan)) = Len(plan)
  BY DEF Plans
<1> n \in Nat /\ DOMAIN plan = 1 .. n /\ Len(plan) = n
  BY <1>1, StagingAssumption
<1>3. \A i \in DOMAIN plan : plan[i] \in Operation /\ Legal(plan[i])
  BY <1>1
<1> DEFINE f == [i \in 1 .. n |-> plan[i].pkg]
<1>4. f \in Surjection(1 .. n, Touched(plan))
  BY DEF Touched, Surjection
<1>5. IsFiniteSet(1 .. n) /\ Cardinality(1 .. n) = n
  BY FS_Interval
<1>6. f \in Injection(1 .. n, Touched(plan))
  BY <1>2, <1>4, <1>5, FS_Surjection
<1>7. \A i, j \in 1 .. n : f[i] = f[j] => i = j
  BY <1>6 DEF Injection, IsInjective
<1> QED
  BY <1>3, <1>7 DEF PlanOK

LEMMA OperationFacts ==
  ASSUME NEW op \in Operation, Legal(op)
  PROVE  /\ op.pkg \in Pkg
         /\ op.to \in {0} \cup DOMAIN Manifest[op.pkg] /\ op.to \in Versions
         /\ op.kind # "remove" => op.to \in DOMAIN Manifest[op.pkg]
         /\ op.kind = "install" <=> installed[op.pkg] = 0
         /\ op.kind = "remove" => op.to = 0
<1>1. op.pkg \in Pkg /\ op.to \in Versions /\ DOMAIN Manifest[op.pkg] \subseteq Nat \ {0}
  BY StagingAssumption DEF Operation
<1> QED
  BY <1>1 DEF Legal, Operation

(* What a package brings is well-formed.                                   *)
LEMMA ManifestFacts ==
  ASSUME NEW op \in Operation, Legal(op), op.kind # "remove"
  PROVE  /\ DOMAIN M(op).files \subseteq Path /\ M(op).dirs \subseteq Dir
         /\ \A x \in DOMAIN M(op).files : IsEntry(M(op).files[x])
<1>1. op.pkg \in Pkg /\ op.to \in DOMAIN Manifest[op.pkg]
  BY OperationFacts
<1> QED
  BY <1>1, StagingAssumption DEF M

-----------------------------------------------------------------------------
(* Operations of a plan.                                                   *)

(* The operations of one package of the plan that are journalled.          *)
Booked(plan, i, opt, want) == Settled(StagedOps(plan[i], opt), ClaimOps(want))

LEMMA OpOrigin ==
  ASSUME NEW plan, NEW opt, NEW want, NEW o \in AllOps(plan, opt, want)
  PROVE  \/ \E i \in DOMAIN plan : o \in Booked(plan, i, opt, want)
         \/ o \in ClaimOps(want)
BY DEF AllOps, Booked

(* A package writes, drops what its new version lacks, or drops all it has.*)
Writes(op, o) ==
  op.kind # "remove" /\ \E p \in Staged(op) : o = PlannedOp(Dest(op, p), M(op).files[p])
Retires(op, o) ==
  op.kind # "remove"
    /\ \E r \in Prior(op) : r.kind # "dir" /\ r.path \notin Paths(op) /\ o = Drop(r.path, FALSE)
Removes(op, o, opt) ==
  op.kind = "remove"
    /\ \E r \in Mine(op) : ~(Modified(r) /\ opt.decide = "keep") /\ o = Drop(r.path, Modified(r))

LEMMA PackageOpForm ==
  ASSUME NEW op, NEW opt, NEW o \in StagedOps(op, opt)
  PROVE  Writes(op, o) \/ Retires(op, o) \/ Removes(op, o, opt)
<1>1. CASE op.kind = "remove"
  BY <1>1 DEF StagedOps, RemovalOps, Removes
<1>2. CASE op.kind # "remove"
  BY <1>2 DEF StagedOps, PackageOps, Writes, Retires
<1> QED
  BY <1>1, <1>2

(* A claim links a new path, repoints a link or drops one.                 *)
LEMMA ClaimOpForm ==
  ASSUME NEW want, NEW o \in ClaimOps(want)
  PROVE  \/ \E l \in Fresh(want) \ Adopted(want) : o = LinkOp(l, TRUE)
         \/ \E l \in Repointed(want) : o = LinkOp(l, FALSE)
         \/ \E m \in Stale(want) : o = Drop(m.path, FALSE)
BY DEF ClaimOps

(* A package's destinations are paths of its own making.                   *)
LEMMA DestFacts ==
  ASSUME NEW op \in Operation, Legal(op), op.kind # "remove", NEW p \in DOMAIN M(op).files
  PROVE  /\ p \in Path /\ IsEntry(M(op).files[p])
         /\ Dest(op, p) \in Path /\ Dest(op, p) \in Paths(op)
<1>1. p \in Path /\ IsEntry(M(op).files[p])
  BY ManifestFacts
<1>2. Preserved(op, p) => p \in EtcPath
  BY DEF Preserved, Modified
<1>3. Dest(op, p) \in Path
  BY <1>1, <1>2, StagingAssumption DEF Dest
<1>4. Dest(op, p) \in Paths(op)
  BY DEF Dest, Paths
<1> QED
  BY <1>1, <1>3, <1>4

(* The links of a role are at declared claim paths.                        *)
LEMMA DesiredFacts ==
  ASSUME NEW at, Known(at), NEW who \in Holders, NEW l \in Desired(at, who)
  PROVE  /\ l.path \in Path /\ l.role \in Role
         /\ \/ \E p \in Pkg : \E v \in DOMAIN Manifest[p] :
                 \E s \in Manifest[p][v].provides : l.path = s.path
            \/ \E p \in Pkg : \E v \in DOMAIN Manifest[p] :
                 \E c \in Manifest[p][v].consumes : l.path = c.path
<1>1. PICK role \in Role : l \in RoleLinks(at, who, role)
  BY DEF Desired
<1>2. who[role] \in Pkg /\ at[who[role]] \in DOMAIN Manifest[who[role]]
  BY <1>1 DEF RoleLinks, Holders, Known
<1>3. PICK s \in Slots(who[role], at[who[role]], role) : l \in SlotLinks(at, s)
  BY <1>1 DEF RoleLinks
<1>4. s \in Manifest[who[role]][at[who[role]]].provides /\ s.role = role
  BY <1>3 DEF Slots
<1>5. PICK x \in ({s.path} \cup ConsumerPaths(at, s.role, s.slot)) \ {None} :
             l = [path |-> x, role |-> s.role, slot |-> s.slot, target |-> s.target]
  BY <1>3 DEF SlotLinks
<1>6. l.path = x /\ l.role = role
  BY <1>4, <1>5
<1>7. CASE x = s.path
  BY <1>2, <1>4, <1>6, <1>7, <1>5, StagingAssumption
<1>8. CASE x \in ConsumerPaths(at, s.role, s.slot)
  <2>1. PICK p \in Pkg : at[p] # 0 /\ \E c \in Manifest[p][at[p]].consumes : x = c.path
    BY <1>8 DEF ConsumerPaths
  <2>2. at[p] \in DOMAIN Manifest[p]
    BY <2>1 DEF Known
  <2> QED
    BY <1>6, <2>1, <2>2, StagingAssumption
<1> QED
  BY <1>5, <1>7, <1>8

(* What is installed after a plan.                                         *)
LEMMA AfterKnown ==
  ASSUME NEW plan, PlanOK(plan), Known(installed)
  PROVE  Known(After(plan))
<1> SUFFICES ASSUME NEW p \in Pkg
             PROVE  After(plan)[p] \in Versions /\ After(plan)[p] \in {0} \cup DOMAIN Manifest[p]
  BY DEF Known, After
<1>1. CASE \E i \in DOMAIN plan : plan[i].pkg = p
  <2> DEFINE i == CHOOSE j \in DOMAIN plan : plan[j].pkg = p
  <2>1. i \in DOMAIN plan /\ plan[i].pkg = p
    BY <1>1
  <2>2. After(plan)[p] = plan[i].to
    BY <1>1 DEF After
  <2> HIDE DEF i
  <2> QED
    BY <2>1, <2>2, OperationFacts DEF PlanOK
<1>2. CASE ~\E i \in DOMAIN plan : plan[i].pkg = p
  BY <1>2 DEF After, Known
<1> QED
  BY <1>1, <1>2

(* No two operations of a plan are on one path.                            *)
LEMMA PackageOpsApart ==
  ASSUME OnePathOneOwner(rows), NEW op \in Operation, Legal(op), NEW opt,
         op.kind # "remove" =>
           \A p, q \in Staged(op) : Dest(op, p) = Dest(op, q) => p = q
  PROVE  OnePerPath(StagedOps(op, opt))
<1> SUFFICES ASSUME NEW o1 \in StagedOps(op, opt), NEW o2 \in StagedOps(op, opt),
                    o1.path = o2.path
             PROVE  o1 = o2
  BY DEF OnePerPath
<1>1. /\ Writes(op, o1) \/ Retires(op, o1) \/ Removes(op, o1, opt)
      /\ Writes(op, o2) \/ Retires(op, o2) \/ Removes(op, o2, opt)
  BY PackageOpForm
<1>2. \A o : Writes(op, o) => o.path \in Paths(op)
  <2> SUFFICES ASSUME NEW o, Writes(op, o)
               PROVE  o.path \in Paths(op)
    OBVIOUS
  <2>1. PICK p \in Staged(op) : o = PlannedOp(Dest(op, p), M(op).files[p])
    BY DEF Writes
  <2>2. Dest(op, p) \in Paths(op)
    BY DestFacts DEF Writes, Staged
  <2> QED
    BY <2>1, <2>2 DEF PlannedOp
<1>3. \A o : Retires(op, o) => o = Drop(o.path, FALSE) /\ o.path \notin Paths(op)
  BY DEF Retires, Drop
<1>4. CASE Writes(op, o1) /\ Writes(op, o2)
  <2>1. PICK p \in Staged(op) : o1 = PlannedOp(Dest(op, p), M(op).files[p])
    BY <1>4 DEF Writes
  <2>2. PICK q \in Staged(op) : o2 = PlannedOp(Dest(op, q), M(op).files[q])
    BY <1>4 DEF Writes
  <2>3. Dest(op, p) = Dest(op, q)
    BY <2>1, <2>2 DEF PlannedOp
  <2>4. p = q
    BY <1>4, <2>3 DEF Writes
  <2> QED
    BY <2>1, <2>2, <2>4
<1>5. CASE Removes(op, o1, opt) /\ Removes(op, o2, opt)
  <2>1. PICK r \in Mine(op) : o1 = Drop(r.path, Modified(r))
    BY <1>5 DEF Removes
  <2>2. PICK s \in Mine(op) : o2 = Drop(s.path, Modified(s))
    BY <1>5 DEF Removes
  <2>3. r.path = s.path
    BY <2>1, <2>2 DEF Drop
  <2>4. r = s
    BY <2>3 DEF Mine, OnePathOneOwner
  <2> QED
    BY <2>1, <2>2, <2>4
<1> QED
  BY <1>1, <1>2, <1>3, <1>4, <1>5 DEF Writes, Retires, Removes

LEMMA ClaimOpsApart ==
  ASSUME NEW want, Separate(want)
  PROVE  OnePerPath(ClaimOps(want))
<1> SUFFICES ASSUME NEW o1 \in ClaimOps(want), NEW o2 \in ClaimOps(want), o1.path = o2.path
             PROVE  o1 = o2
  BY DEF OnePerPath
<1>1. \A o \in ClaimOps(want) :
        \/ \E l \in want : /\ l.path = o.path
                           /\ \/ l \in Fresh(want) /\ o = LinkOp(l, TRUE)
                              \/ l \in Repointed(want) /\ o = LinkOp(l, FALSE)
        \/ o = Drop(o.path, FALSE) /\ \A l \in want : l.path # o.path
  <2> TAKE o \in ClaimOps(want)
  <2>1. CASE \E l \in Fresh(want) \ Adopted(want) : o = LinkOp(l, TRUE)
    <3>1. PICK l \in Fresh(want) \ Adopted(want) : o = LinkOp(l, TRUE)
      BY <2>1
    <3>2. l \in want /\ l.path = o.path
      BY <3>1 DEF LinkOp, Fresh
    <3> QED
      BY <3>1, <3>2
  <2>2. CASE \E l \in Repointed(want) : o = LinkOp(l, FALSE)
    <3>1. PICK l \in Repointed(want) : o = LinkOp(l, FALSE)
      BY <2>2
    <3>2. l \in want /\ l.path = o.path
      BY <3>1 DEF LinkOp, Repointed
    <3> QED
      BY <3>1, <3>2
  <2>3. CASE \E m \in Stale(want) : o = Drop(m.path, FALSE)
    <3>1. PICK m \in Stale(want) : o = Drop(m.path, FALSE)
      BY <2>3
    <3>2. o.path = m.path
      BY <3>1 DEF Drop
    <3> QED
      BY <3>1, <3>2 DEF Stale
  <2> QED
    BY <2>1, <2>2, <2>3, ClaimOpForm
<1>2. \A l \in want : ~(l \in Fresh(want) /\ l \in Repointed(want))
  BY DEF Fresh, Repointed
<1>3. CASE \E l \in want : l.path = o1.path
  <2>1. PICK l \in want : /\ l.path = o1.path
                          /\ \/ l \in Fresh(want) /\ o1 = LinkOp(l, TRUE)
                             \/ l \in Repointed(want) /\ o1 = LinkOp(l, FALSE)
    BY <1>1, <1>3
  <2>2. PICK k \in want : /\ k.path = o2.path
                          /\ \/ k \in Fresh(want) /\ o2 = LinkOp(k, TRUE)
                             \/ k \in Repointed(want) /\ o2 = LinkOp(k, FALSE)
    BY <1>1, <1>3
  <2>3. l = k
    BY <2>1, <2>2 DEF Separate
  <2> QED
    BY <1>2, <2>1, <2>2, <2>3
<1>4. CASE ~\E l \in want : l.path = o1.path
  <2>1. o1 = Drop(o1.path, FALSE) /\ o2 = Drop(o2.path, FALSE)
    BY <1>1, <1>4
  <2> QED
    BY <2>1
<1> QED
  BY <1>3, <1>4

LEMMA AllOpsApart ==
  ASSUME OnePathOneOwner(rows), NEW plan, PlanOK(plan), NEW opt,
         NEW want, Separate(want), ~DoubleBooked(plan, opt, want)
  PROVE  OnePerPath(AllOps(plan, opt, want))
<1> SUFFICES ASSUME NEW o1 \in AllOps(plan, opt, want), NEW o2 \in AllOps(plan, opt, want),
                    o1.path = o2.path
             PROVE  o1 = o2
  BY DEF OnePerPath
<1>1. /\ \A i, j \in DOMAIN plan : i # j =>
           \A a \in Booked(plan, i, opt, want), b \in Booked(plan, j, opt, want) : a.path # b.path
      /\ \A i \in DOMAIN plan : \A a \in Booked(plan, i, opt, want), b \in ClaimOps(want) :
           a.path # b.path
      /\ \A op \in Forward(plan) : \A p, q \in Staged(op) : Dest(op, p) = Dest(op, q) => p = q
  <2> DEFINE booked(i) == {o.path : o \in Booked(plan, i, opt, want)}
             claimed == {o.path : o \in ClaimOps(want)}
  <2>1. /\ \A i, j \in DOMAIN plan : i # j => booked(i) \cap booked(j) = {}
        /\ \A i \in DOMAIN plan : booked(i) \cap claimed = {}
    BY DEF DoubleBooked, Booked
  <2>2. \A i \in DOMAIN plan : \A a \in Booked(plan, i, opt, want) : a.path \in booked(i)
    OBVIOUS
  <2>3. \A b \in ClaimOps(want) : b.path \in claimed
    OBVIOUS
  <2>4. \A op \in Forward(plan) : \A p, q \in Staged(op) : Dest(op, p) = Dest(op, q) => p = q
    BY DEF DoubleBooked
  <2> HIDE DEF booked, claimed
  <2> QED BY <2>1, <2>2, <2>3, <2>4
<1>2. ASSUME NEW i \in DOMAIN plan
      PROVE  OnePerPath(Booked(plan, i, opt, want))
  <2>1. plan[i] \in Operation /\ Legal(plan[i])
    BY DEF PlanOK
  <2>2. plan[i].kind # "remove" => plan[i] \in Forward(plan)
    BY DEF Forward
  <2>3. OnePerPath(StagedOps(plan[i], opt))
    BY <1>1, <2>1, <2>2, PackageOpsApart
  <2> QED
    BY <2>3 DEF OnePerPath, Booked, Settled
<1>3. CASE \E i \in DOMAIN plan : o1 \in Booked(plan, i, opt, want)
  BY <1>1, <1>2, <1>3, OpOrigin DEF OnePerPath
<1>4. CASE o1 \in ClaimOps(want)
  BY <1>1, <1>4, OpOrigin, ClaimOpsApart DEF OnePerPath
<1> QED
  BY <1>3, <1>4, OpOrigin

(* The operations of a plan have their shape.                              *)
LEMMA AllOpsShaped ==
  ASSUME Shapes, links = Desired(installed, holder), NEW plan, PlanOK(plan), NEW opt,
         NEW want, \A l \in want : l.path \in Path,
         NEW o \in AllOps(plan, opt, want)
  PROVE  o.path \in Path /\ EntryOK(o.entry)
<1>1. ASSUME NEW i \in DOMAIN plan, o \in Booked(plan, i, opt, want)
      PROVE  o.path \in Path /\ EntryOK(o.entry)
  <2> DEFINE op == plan[i]
  <2>1. op \in Operation /\ Legal(op) /\ o \in StagedOps(op, opt)
    BY <1>1 DEF PlanOK, Booked, Settled
  <2> HIDE DEF op
  <2>2. CASE Writes(op, o)
    <3>1. PICK p \in Staged(op) : o = PlannedOp(Dest(op, p), M(op).files[p])
      BY <2>2 DEF Writes
    <3>2. Dest(op, p) \in Path /\ IsEntry(M(op).files[p])
      BY <2>1, <2>2, DestFacts DEF Writes, Staged
    <3> QED
      BY <3>1, <3>2 DEF PlannedOp, EntryOK
  <2>3. CASE Retires(op, o)
    <3>1. PICK r \in rows : r.kind # "dir" /\ o = Drop(r.path, FALSE)
      BY <2>3 DEF Retires, Prior
    <3> QED
      BY <3>1 DEF Drop, EntryOK, Shapes, RowOK
  <2>4. CASE Removes(op, o, opt)
    <3>1. PICK r \in rows : r.kind # "dir" /\ o = Drop(r.path, Modified(r))
      BY <2>4 DEF Removes, Mine
    <3> QED
      BY <3>1 DEF Drop, EntryOK, Shapes, RowOK
  <2> QED
    BY <2>1, <2>2, <2>3, <2>4, PackageOpForm
<1>2. ASSUME o \in ClaimOps(want)
      PROVE  o.path \in Path /\ EntryOK(o.entry)
  <2>1. ASSUME NEW l
        PROVE  EntryOK(LinkEntry(l))
    <3>1. \A v : IsEntry(Entry("link", v))
      BY DEF Entry, IsEntry
    <3> QED
      BY <3>1 DEF LinkEntry, EntryOK
  <2>2. \A m \in links : m.path \in Path
    BY DesiredFacts DEF Shapes
  <2>3. ASSUME NEW l \in want, o = LinkOp(l, TRUE) \/ o = LinkOp(l, FALSE)
        PROVE  o.path \in Path /\ EntryOK(o.entry)
    <3>1. o.path = l.path /\ o.entry = LinkEntry(l)
      BY <2>3 DEF LinkOp
    <3> QED
      BY <2>1, <3>1
  <2>4. ASSUME NEW m \in links, o = Drop(m.path, FALSE)
        PROVE  o.path \in Path /\ EntryOK(o.entry)
    BY <2>2, <2>4 DEF Drop, EntryOK
  <2>5. Fresh(want) \subseteq want /\ Repointed(want) \subseteq want /\ Stale(want) \subseteq links
    BY DEF Fresh, Repointed, Stale
  <2> QED
    BY <1>2, <2>3, <2>4, <2>5, ClaimOpForm
<1> QED
  BY <1>1, <1>2, OpOrigin

-----------------------------------------------------------------------------
(* Rows of a plan.                                                         *)

LEMMA RowFields ==
  ASSUME NEW op, NEW p, NEW e
  PROVE  LET r == PackageRow(op, p, e)
         IN r.pkg = op.pkg /\ r.path = p /\ r.kind = e.kind /\ (IsEntry(e) => Recorded(r) = e)
BY DEF PackageRow, Recorded, IsEntry

(* A row is of a directory, of a file under its own name, or of a new      *)
(* default beside a preserved file.                                        *)
DirRow(op, r) == \E d \in M(op).dirs : r = PackageRow(op, d, Entry("dir", None))
OwnRow(op, r) ==
  \E p \in DOMAIN M(op).files :
    r = PackageRow(op, p, IF Preserved(op, p) THEN disk[p] ELSE M(op).files[p])
NewRow(op, r) ==
  \E p \in DOMAIN M(op).files :
    Preserved(op, p) /\ r = PackageRow(op, NewName[p], M(op).files[p])

LEMMA RowForm ==
  ASSUME NEW op, NEW r \in PackageRows(op)
  PROVE  DirRow(op, r) \/ OwnRow(op, r) \/ NewRow(op, r)
BY DEF PackageRows, DirRow, OwnRow, NewRow

LEMMA PreservedFacts ==
  ASSUME Shapes, NEW op, NEW p \in Path, Preserved(op, p)
  PROVE  p \in EtcPath /\ IsEntry(disk[p]) /\ disk[p] # Absent /\ ~Untouched(op, p)
BY DEF Preserved, Modified, Shapes, EntryOK

LEMMA PackageRowsShaped ==
  ASSUME Shapes, NEW op \in Operation, Legal(op), op.kind # "remove", NEW r \in PackageRows(op)
  PROVE  RowOK(r) /\ r.pkg = op.pkg
<1>1. op.pkg \in Pkg
  BY OperationFacts
<1>2. CASE DirRow(op, r)
  <2>1. PICK d \in M(op).dirs : r = PackageRow(op, d, Entry("dir", None))
    BY <1>2 DEF DirRow
  <2>2. d \in Dir
    BY ManifestFacts
  <2>3. r.pkg = op.pkg /\ r.path = d /\ r.kind = "dir"
    BY <2>1, RowFields DEF Entry
  <2> QED
    BY <1>1, <2>2, <2>3 DEF RowOK
<1>3. CASE OwnRow(op, r)
  <2>1. PICK p \in DOMAIN M(op).files :
               r = PackageRow(op, p, IF Preserved(op, p) THEN disk[p] ELSE M(op).files[p])
    BY <1>3 DEF OwnRow
  <2> DEFINE e == IF Preserved(op, p) THEN disk[p] ELSE M(op).files[p]
  <2>2. p \in Path /\ IsEntry(M(op).files[p])
    BY DestFacts
  <2>3. IsEntry(e)
    BY <2>2, PreservedFacts
  <2> HIDE DEF e
  <2>4. r.pkg = op.pkg /\ r.path = p /\ r.kind = e.kind /\ Recorded(r) = e
    BY <2>1, <2>3, RowFields DEF e
  <2> QED
    BY <1>1, <2>2, <2>3, <2>4 DEF RowOK, IsEntry
<1>4. CASE NewRow(op, r)
  <2>1. PICK p \in DOMAIN M(op).files :
               Preserved(op, p) /\ r = PackageRow(op, NewName[p], M(op).files[p])
    BY <1>4 DEF NewRow
  <2> DEFINE e == M(op).files[p]
  <2>2. p \in Path /\ IsEntry(e)
    BY DestFacts
  <2>3. NewName[p] \in Path
    BY <2>1, <2>2, PreservedFacts, StagingAssumption
  <2> HIDE DEF e
  <2>4. r.pkg = op.pkg /\ r.path = NewName[p] /\ r.kind = e.kind /\ Recorded(r) = e
    BY <2>1, <2>2, RowFields DEF e
  <2> QED
    BY <1>1, <2>2, <2>3, <2>4 DEF RowOK, IsEntry
<1> QED
  BY <1>2, <1>3, <1>4, RowForm

-----------------------------------------------------------------------------
(* Roles.                                                                  *)

(* Of some packages, one comes first.                                      *)
LEMMA FirstOfSome ==
  ASSUME NEW pkgs, pkgs \subseteq Pkg, pkgs # {}
  PROVE  First(pkgs) \in pkgs
<1> DEFINE at == {i \in DOMAIN PkgOrder : PkgOrder[i] \in pkgs}
<1>1. at \subseteq Nat /\ at # {}
  BY StagingAssumption DEF Pkg
<1> HIDE DEF at
<1>2. PICK n \in at : \A i \in at : n <= i
  <2> DEFINE less == OpToRel(<, Nat)
  <2>1. \A i, n \in Nat : <<i, n>> \in less <=> i < n
    BY DEF OpToRel
  <2>2. IsWellFoundedOn(less, Nat)
    BY NatLessThanWellFounded
  <2> HIDE DEF less
  <2>3. PICK n \in at : \A i \in at : <<i, n>> \notin less
    BY <1>1, <2>2, WFMin
  <2>4. ASSUME NEW i \in at
        PROVE  n <= i
    <3>1. i \in Nat /\ n \in Nat /\ ~(i < n)
      BY <1>1, <2>1, <2>3
    <3> QED
      BY <3>1
  <2> QED
    BY <2>3, <2>4
<1> USE DEF at
<1>3. \A q \in pkgs : PkgOrder[n] = q \/ Before(PkgOrder[n], q)
  <2> TAKE q \in pkgs
  <2>1. PICK i \in DOMAIN PkgOrder : PkgOrder[i] = q
    BY DEF Pkg
  <2>2. i \in at /\ i \in Nat /\ n \in Nat
    BY <1>1, <2>1
  <2>3. n = i \/ n < i
    BY <1>2, <2>2
  <2> QED
    BY <1>2, <2>1, <2>3 DEF Before
<1> QED
  BY <1>2, <1>3 DEF First

(* Whom a plan leaves a role to, and why.                                  *)
LEMMA PostHolderFacts ==
  ASSUME holder \in Holders, NEW plan, PlanOK(plan), NEW opt
  PROVE  /\ PostHolder(plan, opt) \in Holders
         /\ \A role \in Role :
              holder[role] # None /\ PostHolder(plan, opt)[role] # holder[role] =>
                \/ holder[role] \in Removed(plan)
                \/ role \in IF opt.claim = "all" THEN Role ELSE opt.roles
<1> SUFFICES ASSUME NEW role \in Role
             PROVE  /\ PostHolder(plan, opt)[role] \in Pkg \cup {None}
                    /\ holder[role] # None /\ PostHolder(plan, opt)[role] # holder[role] =>
                         \/ holder[role] \in Removed(plan)
                         \/ role \in IF opt.claim = "all" THEN Role ELSE opt.roles
  BY DEF PostHolder, Holders
<1> DEFINE left == IF holder[role] \in Removed(plan) THEN None ELSE holder[role]
           offered == Candidates(plan, role)
           taken == offered # {} /\ (opt.claim = "all" \/ role \in opt.roles
                                       \/ (left = None /\ opt.claim # "none"))
<1>1. PostHolder(plan, opt)[role] = IF taken THEN First(offered) ELSE left
  BY DEF PostHolder
<1>2. offered \subseteq Pkg
  <2>1. \A op \in Forward(plan) : op.pkg \in Pkg
    BY OperationFacts DEF Forward, PlanOK
  <2> QED
    BY <2>1 DEF Candidates
<1>3. taken => First(offered) \in Pkg
  BY <1>2, FirstOfSome
<1>4. left \in Pkg \cup {None}
  BY DEF Holders
<1> QED
  BY <1>1, <1>3, <1>4

-----------------------------------------------------------------------------
(* Steps keep the shape of the state.                                      *)

LEMMA ForwardFacts ==
  ASSUME NEW plan, PlanOK(plan), NEW op \in Forward(plan)
  PROVE  op \in Operation /\ Legal(op) /\ op.kind # "remove" /\ op.pkg \in Touched(plan)
BY DEF Forward, PlanOK, Touched

LEMMA DirFacts ==
  ASSUME NEW plan, PlanOK(plan), NEW want, \A l \in want : l.path \in Path
  PROVE  /\ \A kind : Parents(plan, kind) \subseteq Dir
         /\ ShippedDirs(plan) \subseteq Dir
         /\ ClaimParents(want) \subseteq Dir
<1>1. ASSUME NEW kind
      PROVE  Parents(plan, kind) \subseteq Dir
  <2>1. \A op \in Forward(plan) : DOMAIN M(op).files \subseteq Path
    BY ForwardFacts, ManifestFacts
  <2>2. \A p \in Path : Above[p] \subseteq Dir
    BY StagingAssumption
  <2> QED
    BY <2>1, <2>2 DEF Parents
<1>2. ShippedDirs(plan) \subseteq Dir
  <2>1. \A op \in Forward(plan) : M(op).dirs \subseteq Dir
    BY ForwardFacts, ManifestFacts
  <2>2. \A d \in Dir : Above[d] \subseteq Dir
    BY StagingAssumption
  <2> QED
    BY <2>1, <2>2 DEF ShippedDirs
<1>3. ClaimParents(want) \subseteq Dir
  <2>1. \A p \in Path : Above[p] \subseteq Dir
    BY StagingAssumption
  <2> QED
    BY <2>1 DEF ClaimParents, Fresh, Repointed
<1> QED
  BY <1>1, <1>2, <1>3

(* A plan that passes the checks has the shape it needs.                   *)
LEMMA PlannedShapes ==
  ASSUME TInv, NEW plan, PlanOK(plan), NEW opt, NEW who \in Holders,
         NEW want, want = Desired(After(plan), who),
         ~Overclaimed(After(plan), who), ~DoubleBooked(plan, opt, want),
         NEW w, w.plan = plan, w.who = who, w.want = want, w.ops = AllOps(plan, opt, want),
         w.rows = UNION {PackageRows(op) : op \in Forward(plan)}
  PROVE  WorkShapes(w) /\ Separate(want) /\ \A l \in want : l.path \in Path
<1>1. Known(After(plan))
  BY AfterKnown DEF TInv, Shapes
<1>2. \A l \in want : l.path \in Path
  BY <1>1, DesiredFacts
<1>3. Separate(want)
  BY DEF Overclaimed, Separate
<1>4. OnePerPath(w.ops)
  BY <1>3, AllOpsApart DEF TInv
<1>5. \A o \in w.ops : o.path \in Path /\ EntryOK(o.entry)
  BY <1>2, AllOpsShaped DEF TInv
<1>6. \A r \in w.rows : RowOK(r)
  BY ForwardFacts, PackageRowsShaped DEF TInv
<1> QED
  BY <1>2, <1>3, <1>4, <1>5, <1>6 DEF WorkShapes

LEMMA WorkFrame ==
  ASSUME installed' = installed, holder' = holder,
         NEW w, work' = w, WorkShapes(w), Reasoned(w)
  PROVE  (WorkShapes(work) /\ Reasoned(work))'
BY DEF WorkShapes, Reasoned, PlanOK, Legal, After

(* Planning with no packages is reconciling the claims.                    *)
LEMMA NoPlan ==
  ASSUME Known(installed), NEW opt, NEW want
  PROVE  /\ PlanOK(<<>>) /\ After(<<>>) = installed /\ Forward(<<>>) = {} /\ Touched(<<>>) = {}
         /\ AllOps(<<>>, opt, want) = ClaimOps(want)
         /\ UNION {PackageRows(op) : op \in Forward(<<>>)} = {}
         /\ ~DoubleBooked(<<>>, opt, want)
<1>1. DOMAIN <<>> = {}
  OBVIOUS
<1>2. Forward(<<>>) = {} /\ Touched(<<>>) = {} /\ PlanOK(<<>>)
  BY <1>1 DEF Forward, Touched, PlanOK
<1>3. After(<<>>) = installed
  BY <1>1 DEF After, Known
<1>4. AllOps(<<>>, opt, want) = ClaimOps(want)
  BY <1>1 DEF AllOps
<1>5. ~DoubleBooked(<<>>, opt, want)
  BY <1>1, <1>2 DEF DoubleBooked
<1> QED
  BY <1>2, <1>3, <1>4, <1>5

(* What Stage records.                                                     *)
LEMMA StageShapes ==
  ASSUME TInv, NEW plan, PlanOK(plan), NEW opt, NEW who \in Holders,
         NEW want, want = Desired(After(plan), who),
         ~Overclaimed(After(plan), who), ~DoubleBooked(plan, opt, want),
         NEW noted, NEW asked,
         \A role \in Role : holder[role] # None /\ who[role] # holder[role] =>
           holder[role] \in Removed(plan) \/ role \in asked,
         Stage(plan, AllOps(plan, opt, want),
               UNION {PackageRows(op) : op \in Forward(plan)}, noted, who, want, asked),
         UNCHANGED <<disk, kept, rows, installed, holder, links, index, edited>>
  PROVE  TInv'
<1>1. PICK w : work' = w
  OBVIOUS
<1>2. /\ w.plan = plan /\ w.who = who /\ w.want = want /\ w.ops = AllOps(plan, opt, want)
      /\ w.rows = UNION {PackageRows(op) : op \in Forward(plan)} /\ w.asked = asked
  BY <1>1 DEF Stage
<1>3. WorkShapes(w) /\ \A l \in want : l.path \in Path
  BY <1>2, PlannedShapes
<1>4. Reasoned(w)
  BY <1>2 DEF Reasoned
<1>5. (WorkShapes(work) /\ Reasoned(work))'
  BY <1>1, <1>3, <1>4, WorkFrame
<1>6. dirs' \subseteq Dir
  BY <1>3, DirFacts DEF Stage, TInv, Shapes
<1>7. Shapes'
  BY <1>6 DEF TInv, Shapes, RowOK, Recorded, Known
<1> QED
  BY <1>5, <1>7 DEF TInv, OnePathOneOwner

LEMMA PrepareShapes ==
  ASSUME TInv, NEW plan \in Plans, NEW opt \in Options, Prepare(plan, opt)
  PROVE  TInv'
<1> DEFINE who == PostHolder(plan, opt)
           want == Desired(After(plan), who)
           asked == IF opt.claim = "all" THEN Role ELSE opt.roles
           noted == UNION {{p \in DOMAIN M(op).files : Preserved(op, p)} : op \in Forward(plan)}
<1>1. PlanOK(plan)
  BY PlansAreOK
<1>2. who \in Holders /\ \A role \in Role : holder[role] # None /\ who[role] # holder[role] =>
                             holder[role] \in Removed(plan) \/ role \in asked
  BY <1>1, PostHolderFacts DEF TInv, Shapes
<1>3. ~Overclaimed(After(plan), who)
  BY DEF Prepare, ClaimsRefused, ClaimsConflict
<1>4. ~DoubleBooked(plan, opt, want)
  BY DEF Prepare
<1>5. Stage(plan, AllOps(plan, opt, want),
            UNION {PackageRows(op) : op \in Forward(plan)}, noted, who, want, asked)
  BY DEF Prepare
<1>6. UNCHANGED <<disk, kept, rows, installed, holder, links, index, edited>>
  BY DEF Prepare
<1> HIDE DEF who, asked, noted
<1> QED
  BY <1>1, <1>2, <1>3, <1>4, <1>5, <1>6, StageShapes

LEMMA RegrantFacts ==
  ASSUME holder \in Holders, NEW role \in Role, NEW pkg \in Pkg \cup {None}
  PROVE  /\ Regrant(role, pkg) \in Holders
         /\ \A r \in Role : Regrant(role, pkg)[r] # holder[r] => r \in {role}
BY DEF Regrant, Holders

LEMMA ClaimShapes ==
  ASSUME TInv, NEW role \in Role, NEW pkg \in Pkg \cup {None}, ClaimChange(role, pkg)
  PROVE  TInv'
<1> DEFINE who == Regrant(role, pkg)
           want == Desired(installed, who)
<1>1. who \in Holders /\ \A r \in Role : who[r] # holder[r] => r \in {role}
  BY RegrantFacts DEF TInv, Shapes
<1>2. /\ ~Overclaimed(installed, who)
      /\ Stage(<<>>, ClaimOps(want), {}, {}, who, want, {role})
      /\ UNCHANGED <<disk, kept, rows, installed, holder, links, index, edited>>
  BY DEF ClaimChange, ClaimsRefused, ClaimsConflict
<1>3. /\ PlanOK(<<>>) /\ After(<<>>) = installed
      /\ AllOps(<<>>, ClaimFlags, want) = ClaimOps(want)
      /\ UNION {PackageRows(op) : op \in Forward(<<>>)} = {}
      /\ ~DoubleBooked(<<>>, ClaimFlags, want)
  BY NoPlan DEF TInv, Shapes
<1> HIDE DEF who
<1> QED
  BY <1>1, <1>2, <1>3, StageShapes

(* A plan that is refused leaves at most directories.                      *)
LEMMA AbandonShapes ==
  ASSUME TInv, NEW plan \in Plans, NEW opt \in Options, Abandon(plan, opt)
  PROVE  TInv'
<1> DEFINE who == PostHolder(plan, opt)
           want == Desired(After(plan), who)
<1>1. PlanOK(plan)
  BY PlansAreOK
<1>2. \A l \in want : l.path \in Path
  BY <1>1, AfterKnown, PostHolderFacts, DesiredFacts DEF TInv, Shapes
<1>3. Parents(plan, "file") \subseteq Dir /\ Parents(plan, "link") \subseteq Dir
      /\ ClaimParents(want) \subseteq Dir
  BY <1>1, <1>2, DirFacts
<1>4. dirs' \subseteq dirs \cup Parents(plan, "file") \cup Parents(plan, "link") \cup ClaimParents(want)
  BY DEF Abandon
<1>5. dirs' \subseteq Dir
  BY <1>3, <1>4 DEF TInv, Shapes
<1> QED
  BY <1>5 DEF Abandon, TInv, Shapes, RowOK, Recorded, Known, OnePathOneOwner

LEMMA ClaimAbandonShapes ==
  ASSUME TInv, NEW role \in Role, NEW pkg \in Pkg, ClaimAbandoned(role, pkg)
  PROVE  TInv'
<1> DEFINE want == Desired(installed, Regrant(role, pkg))
<1>1. \A l \in want : l.path \in Path
  BY RegrantFacts, DesiredFacts DEF TInv, Shapes
<1>2. ClaimParents(want) \subseteq Dir
  <2>1. PlanOK(<<>>)
    BY NoPlan DEF TInv, Shapes
  <2> QED
    BY <1>1, <2>1, DirFacts
<1>3. dirs' \subseteq dirs \cup ClaimParents(want)
  BY DEF ClaimAbandoned
<1>4. dirs' \subseteq Dir
  BY <1>2, <1>3 DEF TInv, Shapes
<1> QED
  BY <1>4 DEF ClaimAbandoned, TInv, Shapes, RowOK, Recorded, Known, OnePathOneOwner

(* The commit writes the holders that were planned: what the deletion of a *)
(* package row cascades to is set again.                                   *)
LEMMA HolderRowsFacts ==
  ASSUME NEW plan, NEW who \in Holders
  PROVE  HolderRows(plan, who) = who
BY DEF HolderRows, Holders

(* What is at a path after the operations.                                 *)
LEMMA DiskAfterFacts ==
  ASSUME NEW ops, OnePerPath(ops), NEW p \in Path
  PROVE  /\ \A o \in ops : o.path = p => DiskAfter(ops)[p] = o.entry
         /\ (\A o \in ops : o.path # p) => DiskAfter(ops)[p] = disk[p]
<1>1. ASSUME NEW o \in ops, o.path = p
      PROVE  DiskAfter(ops)[p] = o.entry
  <2>1. (CHOOSE x \in ops : x.path = p) = o
    BY <1>1 DEF OnePerPath
  <2> QED
    BY <1>1, <2>1 DEF DiskAfter
<1> QED
  BY <1>1 DEF DiskAfter

LEMMA CommitShapes ==
  ASSUME TInv, Commit
  PROVE  TInv'
<1>1. WorkShapes(work)
  BY DEF TInv, Commit
<1>2. installed' = After(work.plan) /\ holder' = work.who /\ links' = work.want
  BY <1>1, HolderRowsFacts DEF Commit, WorkShapes
<1>3. Known(installed) /\ links' = Desired(installed', holder')
  BY <1>1, <1>2 DEF TInv, Shapes, WorkShapes
<1>4. Known(installed') /\ holder' \in Holders
  BY <1>1, <1>2, <1>3, AfterKnown DEF WorkShapes
<1>5. disk' = [p \in Path |-> disk'[p]] /\ \A p \in Path : EntryOK(disk'[p])
  <2>1. disk' = DiskAfter(work.ops)
    BY DEF Commit
  <2>2. \A p \in Path : EntryOK(DiskAfter(work.ops)[p])
    <3> TAKE p \in Path
    <3>1. CASE \E o \in work.ops : o.path = p
      BY <1>1, <3>1, DiskAfterFacts DEF WorkShapes
    <3>2. CASE \A o \in work.ops : o.path # p
      BY <1>1, <3>2, DiskAfterFacts DEF WorkShapes, TInv, Shapes
    <3> QED
      BY <3>1, <3>2
  <2>3. DiskAfter(work.ops) = [p \in Path |-> DiskAfter(work.ops)[p]]
    BY DEF DiskAfter
  <2> QED
    BY <2>1, <2>2, <2>3
<1>6. \A k \in kept' : k[1] \in Path /\ k[2] # Absent
  <2>1. ASSUME NEW o \in work.ops, disk[o.path] # Absent
        PROVE  <<o.path, disk[o.path]>>[1] \in Path /\ <<o.path, disk[o.path]>>[2] # Absent
    BY <1>1, <2>1 DEF WorkShapes
  <2> QED
    BY <2>1 DEF Commit, TInv, Shapes
<1>7. dirs' \subseteq Dir /\ edited' \subseteq Path
  BY DEF Commit, DirsAfter, TInv, Shapes
<1>8. \A r \in rows' : RowOK(r)
  BY <1>1 DEF Commit, RowsAfter, WorkShapes, TInv, Shapes
<1>9. index' \in [Path -> BOOLEAN]
  BY DEF Commit, IndexAfter, TInv, Shapes
<1>10. OnePathOneOwner(rows')
  BY DEF Commit
<1>11. work' = None
  BY DEF Commit
<1>12. Shapes'
  BY <1>4, <1>5, <1>6, <1>7, <1>8, <1>9 DEF Shapes, EntryOK, RowOK, Known, Recorded, IsEntry
<1> QED
  BY <1>3, <1>10, <1>11, <1>12 DEF TInv, OnePathOneOwner

LEMMA RollBackShapes ==
  ASSUME TInv, RollBack
  PROVE  TInv'
<1>1. disk' = [p \in Path |-> disk'[p]] /\ \A p \in Path : EntryOK(disk'[p])
  BY DEF RollBack, TInv, Shapes, EntryOK
<1>2. dirs' \subseteq Dir
  BY DEF RollBack, TInv, Shapes
<1> QED
  BY <1>1, <1>2 DEF RollBack, TInv, Shapes, RowOK, Recorded, Known, OnePathOneOwner

LEMMA OperatorShapes ==
  ASSUME TInv, NEW p \in DOMAIN OperatorEntry, NEW e \in OperatorEntry[p] \cup {Absent},
         OperatorActs(p, e)
  PROVE  TInv'
<1>1. p \in Path /\ EntryOK(e)
  BY StagingAssumption DEF EntryOK
<1>2. disk' = [disk EXCEPT ![p] = e] /\ edited' = edited \cup {p}
  BY DEF OperatorActs
<1>3. disk' = [q \in Path |-> disk'[q]] /\ \A q \in Path : EntryOK(disk'[q])
  BY <1>1, <1>2 DEF TInv, Shapes
<1>4. UNCHANGED <<kept, dirs, rows, installed, holder, links, index, work>>
  BY DEF OperatorActs
<1>5. (work # None => WorkShapes(work) /\ Reasoned(work))'
  BY <1>4, WorkFrame DEF TInv
<1>6. edited' \subseteq Path
  BY <1>1, <1>2 DEF TInv, Shapes
<1> QED
  BY <1>3, <1>4, <1>5, <1>6 DEF TInv, Shapes, RowOK, Recorded, Known, OnePathOneOwner

LEMMA InitShapes ==
  ASSUME Init
  PROVE  TInv
<1>1. Shapes
  <2>1. \A p \in Pkg : 0 \in Versions
    BY DEF Versions
  <2> QED
    BY <2>1 DEF Init, Shapes, Known, Holders, EntryOK
<1>2. links = Desired(installed, holder)
  BY DEF Init, Desired, RoleLinks
<1> QED
  BY <1>1, <1>2 DEF Init, TInv, OnePathOneOwner

LEMMA StutterShapes ==
  ASSUME TInv, UNCHANGED vars
  PROVE  TInv'
<1>1. (work # None => WorkShapes(work) /\ Reasoned(work))'
  BY WorkFrame DEF vars, TInv
<1> QED
  BY <1>1 DEF vars, TInv, Shapes, RowOK, Recorded, Known, OnePathOneOwner

LEMMA NextShapes ==
  ASSUME TInv, [Next]_vars
  PROVE  TInv'
<1>1. ASSUME NEW plan \in Plans, NEW opt \in Options, Prepare(plan, opt) \/ Abandon(plan, opt)
      PROVE  TInv'
  BY <1>1, PrepareShapes, AbandonShapes
<1>2. ASSUME NEW role \in Role, Revoke(role)
      PROVE  TInv'
  BY <1>2, ClaimShapes DEF Revoke
<1>3. ASSUME NEW role \in Role, NEW p \in Pkg, Grant(role, p)
      PROVE  TInv'
  BY <1>3, ClaimShapes, ClaimAbandonShapes DEF Grant
<1> QED
  BY <1>1, <1>2, <1>3, CommitShapes, RollBackShapes, OperatorShapes, StutterShapes DEF Next

(* Every variable has its shape and a planned transaction carries one      *)
(* operation per path, whatever is planned and whenever the operator acts. *)
THEOREM TypeCorrect == Spec => []TypeOK
<1>1. Spec => []TInv
  BY InitShapes, NextShapes, PTL DEF Spec
<1>2. TInv => TypeOK
  BY DEF TInv, Shapes, WorkShapes, TypeOK, EntryKinds, EntryOK, IsEntry, Absent, Entry, RowOK,
         Known, Holders, OnePerPath
<1> QED
  BY <1>1, <1>2, PTL

(* A role leaves its holder only when that package is removed or the       *)
(* operator names the role (computeHolders, and applyClaimMetadata after   *)
(* the cascade of DeletePackage).                                          *)
THEOREM HoldersStay == Spec => HoldersKept
<1>1. Spec => []TInv
  BY InitShapes, NextShapes, PTL DEF Spec
<1> DEFINE Kept(role) ==
      holder[role] # None /\ holder'[role] # holder[role] =>
        holder[role] \in Removed(work.plan) \/ role \in work.asked
<1>2. TInv /\ [Next]_vars => [\A role \in Role : Kept(role)]_vars
  <2> SUFFICES ASSUME TInv, Next, NEW role \in Role
               PROVE  Kept(role)
    BY DEF vars
  <2>1. CASE Commit
    BY <2>1, HolderRowsFacts DEF Commit, TInv, WorkShapes, Reasoned
  <2>2. CASE holder' = holder
    BY <2>2
  <2>3. Commit \/ holder' = holder
    BY DEF Next, Prepare, Abandon, Revoke, Grant, ClaimChange, ClaimAbandoned, RollBack, OperatorActs
  <2> QED
    BY <2>1, <2>2, <2>3
<1> QED
  BY <1>1, <1>2, PTL DEF Spec, HoldersKept

-----------------------------------------------------------------------------
(* Agreement of database, links and disk.  It needs that the operator does *)
(* not act between the planning and the commit of a transaction, and that  *)
(* no package declares a claim path at the .peipkg-new sibling of an /etc  *)
(* path: checkClaimLinkCollisions and postTransactionOwnership look at the *)
(* payload, which does not list siblings.                                  *)

Declared(x) ==
  \E p \in Pkg : \E v \in DOMAIN Manifest[p] :
    \/ \E s \in Manifest[p][v].provides : s.path = x
    \/ \E c \in Manifest[p][v].consumes : c.path = x
SiblingsUnclaimed == \A p \in EtcPath : ~Declared(NewName[p])

(* Why a path changes: a row is written there, a link is, or nothing that  *)
(* the transaction leaves behind is there.                                 *)
Explained(w, o) ==
  \/ \E r \in w.rows : r.path = o.path /\ r.kind # "dir" /\ o.entry = Recorded(r)
  \/ \E l \in w.want : l.path = o.path /\ o.entry = LinkEntry(l)
  \/ /\ o.entry = Absent
     /\ \A r \in RowsAfter(w.plan, w.rows) : r.path # o.path
     /\ \A l \in w.want : l.path # o.path

(* What is to be at a path is put there, is there, or is the operator's.   *)
Lands(w, path, entry) ==
  \/ \E o \in w.ops : o.path = path /\ o.entry = entry
  \/ path \in edited
  \/ disk[path] = entry

Sound(w) ==
  /\ \A o \in w.ops : Explained(w, o)
  /\ \A r \in w.rows : r.kind # "dir" => Lands(w, r.path, Recorded(r))
  /\ \A p \in w.noted : \E r \in w.rows : r.path = p /\ r.kind # "dir" /\ disk[p] = Recorded(r)
  /\ \A l \in w.want : /\ l.path \in Path /\ Lands(w, l.path, LinkEntry(l))
                       /\ \A r \in RowsAfter(w.plan, w.rows) : r.path # l.path
  /\ Separate(w.want)
  /\ \A o \in w.ops : o.action = "create" => disk[o.path] = Absent
  /\ \A o \in w.ops : Unowned(o.path) => o.keep \/ o.entry = disk[o.path]

(* Owned directories are there, and no rollback takes them.                *)
DirsSound(w) ==
  /\ \A r \in w.rows : r.kind = "dir" => r.path \in dirs
  /\ \A r \in rows : r.kind = "dir" => r.path \notin w.made

IInv ==
  /\ TInv
  /\ DatabaseMatchesDisk
  /\ LinksAsClaimed
  /\ work # None => Sound(work) /\ DirsSound(work)

(* A plan every check of the planner let through.                          *)
Cleared(plan, opt, who, want) ==
  /\ PlanOK(plan) /\ who \in Holders /\ want = Desired(After(plan), who)
  /\ ~Overclaimed(After(plan), who) /\ ~DoubleBooked(plan, opt, want)
  /\ \A l \in want : l.path \notin PostOwned(plan)
  /\ \A op \in Forward(plan) : ~Collides(plan, op) /\ ~ClaimLinkCollides(op)

Filed(plan) == UNION {PackageRows(op) : op \in Forward(plan)}

-----------------------------------------------------------------------------
(* What is filed and what is linked.                                       *)

LEMMA LinksUnowned ==
  ASSUME LinksAsClaimed, NEW l \in links, NEW r \in rows
  PROVE  r.path # l.path
BY DEF LinksAsClaimed, Owners

(* A package files its directories, its files, and the new defaults of     *)
(* those it preserves.                                                     *)
LEMMA FiledFacts ==
  ASSUME Shapes, NEW plan, PlanOK(plan), NEW r \in Filed(plan)
  PROVE  \E op \in Forward(plan) :
           /\ r.pkg = op.pkg /\ RowOK(r)
           /\ \/ r.kind = "dir" /\ r.path \in M(op).dirs
              \/ /\ r.kind # "dir" /\ r.path \in DOMAIN M(op).files
                 /\ Recorded(r) = IF Preserved(op, r.path) THEN disk[r.path] ELSE M(op).files[r.path]
              \/ /\ r.kind # "dir"
                 /\ \E p \in DOMAIN M(op).files : /\ Preserved(op, p) /\ r.path = NewName[p]
                                                  /\ Recorded(r) = M(op).files[p]
<1>1. PICK op \in Forward(plan) : r \in PackageRows(op)
  BY DEF Filed
<1>2. op \in Operation /\ Legal(op) /\ op.kind # "remove"
  BY ForwardFacts
<1>3. RowOK(r) /\ r.pkg = op.pkg
  BY <1>1, <1>2, PackageRowsShaped
<1>4. CASE DirRow(op, r)
  <2>1. PICK d \in M(op).dirs : r = PackageRow(op, d, Entry("dir", None))
    BY <1>4 DEF DirRow
  <2>2. r.path = d /\ r.kind = "dir"
    BY <2>1, RowFields DEF Entry
  <2> QED
    BY <1>3, <2>2
<1>5. CASE OwnRow(op, r)
  <2>1. PICK p \in DOMAIN M(op).files :
               r = PackageRow(op, p, IF Preserved(op, p) THEN disk[p] ELSE M(op).files[p])
    BY <1>5 DEF OwnRow
  <2> DEFINE e == IF Preserved(op, p) THEN disk[p] ELSE M(op).files[p]
  <2>2. IsEntry(e)
    BY <1>2, DestFacts, PreservedFacts
  <2>3. r.path = p /\ r.kind = e.kind /\ Recorded(r) = e
    BY <2>1, <2>2, RowFields
  <2>4. r.kind # "dir"
    BY <2>2, <2>3 DEF IsEntry
  <2> QED
    BY <1>3, <2>3, <2>4
<1>6. CASE NewRow(op, r)
  <2>1. PICK p \in DOMAIN M(op).files :
               Preserved(op, p) /\ r = PackageRow(op, NewName[p], M(op).files[p])
    BY <1>6 DEF NewRow
  <2> DEFINE e == M(op).files[p]
  <2>2. IsEntry(e)
    BY <1>2, DestFacts
  <2>3. r.path = NewName[p] /\ r.kind = e.kind /\ Recorded(r) = e
    BY <2>1, <2>2, RowFields
  <2>4. r.kind # "dir"
    BY <2>2, <2>3 DEF IsEntry
  <2> QED
    BY <1>3, <2>1, <2>3, <2>4
<1> QED
  BY <1>1, <1>4, <1>5, <1>6, RowForm

LEMMA WantedDeclared ==
  ASSUME NEW at, Known(at), NEW who \in Holders, NEW l \in Desired(at, who)
  PROVE  l.path \in Path /\ Declared(l.path)
BY DesiredFacts DEF Declared

(* No row that stays or is filed is at a path that is to be a link.        *)
LEMMA WantedUnowned ==
  ASSUME SiblingsUnclaimed, Shapes, NEW plan, NEW opt, NEW who, NEW want,
         Cleared(plan, opt, who, want),
         NEW l \in want, NEW r \in RowsAfter(plan, Filed(plan))
  PROVE  r.path # l.path
<1>1. l.path \in Path /\ Declared(l.path)
  BY AfterKnown, WantedDeclared DEF Cleared, Shapes
<1>2. l.path \notin PostOwned(plan)
  BY DEF Cleared
<1>3. CASE r \in Filed(plan)
  <2>1. PICK op \in Forward(plan) :
           \/ r.path \in M(op).dirs \/ r.path \in DOMAIN M(op).files
           \/ \E p \in DOMAIN M(op).files : Preserved(op, p) /\ r.path = NewName[p]
    BY <1>3, FiledFacts DEF Cleared
  <2>2. CASE r.path \in M(op).dirs \/ r.path \in DOMAIN M(op).files
    BY <1>2, <2>2 DEF PostOwned
  <2>3. CASE \E p \in DOMAIN M(op).files : Preserved(op, p) /\ r.path = NewName[p]
    <3>1. PICK p \in DOMAIN M(op).files : Preserved(op, p) /\ r.path = NewName[p]
      BY <2>3
    <3>2. p \in EtcPath
      BY <3>1 DEF Preserved, Modified
    <3> QED
      BY <1>1, <3>1, <3>2 DEF SiblingsUnclaimed
  <2> QED
    BY <2>1, <2>2, <2>3
<1>4. CASE r \in rows /\ r.pkg \notin Touched(plan)
  BY <1>2, <1>4 DEF PostOwned
<1> QED
  BY <1>3, <1>4 DEF RowsAfter

(* Paths of files are not paths of directories.                            *)
LEMMA PathRow ==
  ASSUME NEW r, RowOK(r), r.path \in Path
  PROVE  r.kind # "dir"
BY StagingAssumption DEF RowOK

-----------------------------------------------------------------------------
(* Each operation is explained.                                            *)

(* A staged file has its operation, journalled for its package.            *)
LEMMA StagedIsBooked ==
  ASSUME NEW plan, NEW opt, NEW want, NEW i \in DOMAIN plan, plan[i].kind # "remove",
         NEW p \in Staged(plan[i])
  PROVE  LET o == PlannedOp(Dest(plan[i], p), M(plan[i]).files[p])
         IN /\ o \in Booked(plan, i, opt, want) /\ o \in AllOps(plan, opt, want)
            /\ o.path = Dest(plan[i], p) /\ o.entry = M(plan[i]).files[p]
<1> DEFINE o == PlannedOp(Dest(plan[i], p), M(plan[i]).files[p])
<1>1. o \in StagedOps(plan[i], opt)
  BY DEF StagedOps, PackageOps
<1>2. o.action # "remove" /\ o.path = Dest(plan[i], p) /\ o.entry = M(plan[i]).files[p]
  BY DEF PlannedOp
<1>3. o \in Booked(plan, i, opt, want)
  BY <1>1, <1>2 DEF Booked, Settled
<1>4. o \in AllOps(plan, opt, want)
  BY <1>3 DEF AllOps, Booked
<1> QED
  BY <1>2, <1>3, <1>4

(* What is written has its row.                                            *)
LEMMA WrittenIsFiled ==
  ASSUME NEW op \in Operation, Legal(op), NEW o, Writes(op, o)
  PROVE  \E r \in PackageRows(op) : r.path = o.path /\ r.kind # "dir" /\ o.entry = Recorded(r)
<1>1. PICK p \in Staged(op) : o = PlannedOp(Dest(op, p), M(op).files[p])
  BY DEF Writes
<1> DEFINE e == M(op).files[p]
<1>2. p \in DOMAIN M(op).files /\ IsEntry(e) /\ o.path = Dest(op, p) /\ o.entry = e
  BY <1>1, DestFacts DEF Writes, Staged, PlannedOp
<1> DEFINE r == PackageRow(op, Dest(op, p), e)
<1>3. r \in PackageRows(op)
  BY <1>2 DEF PackageRows, Dest
<1>4. r.path = o.path /\ r.kind # "dir" /\ o.entry = Recorded(r)
  BY <1>2, RowFields DEF IsEntry
<1> QED
  BY <1>3, <1>4

(* A journalled removal: of a file the package owns, with no link coming.  *)
LEMMA DroppedFacts ==
  ASSUME NEW plan, NEW opt, NEW want, NEW i \in DOMAIN plan,
         NEW o \in Booked(plan, i, opt, want),
         Retires(plan[i], o) \/ Removes(plan[i], o, opt)
  PROVE  /\ \E s \in rows : s.pkg = plan[i].pkg /\ s.kind # "dir" /\ s.path = o.path
         /\ plan[i].kind # "remove" => o.path \notin Paths(plan[i])
         /\ o.entry = Absent /\ o.action = "remove"
         /\ \A c \in ClaimOps(want) : c.path # o.path
<1>1. o.action = "remove" /\ o.entry = Absent
  BY DEF Retires, Removes, Drop
<1>2. \E s \in rows : /\ s.pkg = plan[i].pkg /\ s.kind # "dir" /\ s.path = o.path
                      /\ plan[i].kind # "remove" => o.path \notin Paths(plan[i])
  <2>1. CASE Retires(plan[i], o)
    BY <2>1 DEF Retires, Prior, Drop
  <2>2. CASE Removes(plan[i], o, opt)
    BY <2>2 DEF Removes, Mine, Drop
  <2> QED
    BY <2>1, <2>2
<1> QED
  BY <1>1, <1>2 DEF Booked, Settled

(* No row of the plan is at a path it removes: not of the same package,    *)
(* whose payload is skipped; not of another, which would write there too   *)
(* or would have had a row there before.                                   *)
LEMMA DroppedUnfiled ==
  ASSUME Shapes, OnePathOneOwner(rows), NEW plan, PlanOK(plan), NEW opt, NEW want,
         ~DoubleBooked(plan, opt, want),
         NEW i \in DOMAIN plan, NEW o \in Booked(plan, i, opt, want),
         Retires(plan[i], o) \/ Removes(plan[i], o, opt),
         NEW r \in Filed(plan)
  PROVE  r.path # o.path
<1> SUFFICES ASSUME r.path = o.path
             PROVE  FALSE
  OBVIOUS
<1>1. PICK s \in rows : s.pkg = plan[i].pkg /\ s.kind # "dir" /\ s.path = o.path
  BY DroppedFacts
<1>2. s.path \in Path
  BY <1>1 DEF Shapes, RowOK
<1>3. PICK op \in Forward(plan) :
           /\ r.pkg = op.pkg /\ RowOK(r)
           /\ \/ r.kind = "dir" /\ r.path \in M(op).dirs
              \/ /\ r.kind # "dir" /\ r.path \in DOMAIN M(op).files
                 /\ Recorded(r) = IF Preserved(op, r.path) THEN disk[r.path] ELSE M(op).files[r.path]
              \/ /\ r.kind # "dir"
                 /\ \E p \in DOMAIN M(op).files : /\ Preserved(op, p) /\ r.path = NewName[p]
                                                  /\ Recorded(r) = M(op).files[p]
  BY FiledFacts
<1>4. r.kind # "dir"
  BY <1>1, <1>2, <1>3, PathRow
<1>5. PICK j \in DOMAIN plan : op = plan[j] /\ plan[j].kind # "remove"
  BY DEF Forward
<1>6. r.path \in Paths(op)
  BY <1>3, <1>4 DEF Paths
<1>7. i # j
  BY <1>5, <1>6, DroppedFacts
<1>8. s.pkg # op.pkg
  BY <1>1, <1>5, <1>7 DEF PlanOK
<1>9. \A b \in Booked(plan, j, opt, want) : b.path # o.path
  BY <1>7 DEF DoubleBooked, Booked
<1>10. \A p \in Staged(op) : Dest(op, p) # o.path
  BY <1>5, <1>9, StagedIsBooked
<1>11. ASSUME NEW p \in DOMAIN M(op).files, Preserved(op, p)
       PROVE  p \in Staged(op) /\ Dest(op, p) = NewName[p]
  BY <1>11 DEF Preserved, Staged, Dest
<1>12. r.path \in DOMAIN M(op).files
  BY <1>3, <1>4, <1>10, <1>11
<1>13. Untouched(op, r.path) \/ Preserved(op, r.path)
  BY <1>10, <1>12 DEF Staged, Dest
<1>14. \E t \in rows : t.pkg = op.pkg /\ t.path = r.path
  BY <1>13 DEF Untouched, Preserved, Prior
<1>15. PICK t \in rows : t.pkg = op.pkg /\ t.path = r.path
  BY <1>14
<1>16. t.kind # "dir"
  BY <1>2, <1>1, <1>15, PathRow DEF Shapes
<1>17. t = s
  BY <1>1, <1>15, <1>16 DEF OnePathOneOwner
<1> QED
  BY <1>8, <1>15, <1>17

(* Nor is a link wanted there.                                             *)
LEMMA OwnedUnwanted ==
  ASSUME LinksAsClaimed, NEW want, NEW s \in rows,
         \A c \in ClaimOps(want) : c.path # s.path, NEW l \in want
  PROVE  l.path # s.path
<1> SUFFICES ASSUME l.path = s.path
             PROVE  FALSE
  OBVIOUS
<1>1. \A m \in links : m.path # l.path
  BY LinksUnowned
<1>2. l \in Fresh(want)
  BY <1>1 DEF Fresh
<1>3. l \notin Adopted(want)
  BY DEF Adopted, Owners
<1>4. LinkOp(l, TRUE) \in ClaimOps(want) /\ LinkOp(l, TRUE).path = l.path
  BY <1>2, <1>3 DEF ClaimOps, LinkOp
<1> QED
  BY <1>4

LEMMA PackageOpExplained ==
  ASSUME TInv, LinksAsClaimed, NEW plan, NEW opt, NEW who, NEW want,
         Cleared(plan, opt, who, want),
         NEW w, w.plan = plan, w.rows = Filed(plan), w.want = want,
         NEW i \in DOMAIN plan, NEW o \in Booked(plan, i, opt, want)
  PROVE  Explained(w, o)
<1>1. plan[i] \in Operation /\ Legal(plan[i]) /\ PlanOK(plan) /\ o \in StagedOps(plan[i], opt)
  BY DEF Cleared, PlanOK, Booked, Settled
<1>2. CASE Writes(plan[i], o)
  <2>1. plan[i] \in Forward(plan)
    BY <1>2 DEF Writes, Forward
  <2> QED
    BY <1>1, <1>2, <2>1, WrittenIsFiled DEF Explained, Filed
<1>3. CASE Retires(plan[i], o) \/ Removes(plan[i], o, opt)
  <2>1. PICK s \in rows : s.pkg = plan[i].pkg /\ s.kind # "dir" /\ s.path = o.path
    BY <1>3, DroppedFacts
  <2>2. o.entry = Absent /\ \A c \in ClaimOps(want) : c.path # s.path
    BY <1>3, <2>1, DroppedFacts
  <2>3. \A l \in want : l.path # o.path
    BY <2>1, <2>2, OwnedUnwanted
  <2>4. \A r \in Filed(plan) : r.path # o.path
    BY <1>1, <1>3, DroppedUnfiled DEF TInv, Cleared
  <2>5. ASSUME NEW r \in rows, r.pkg \notin Touched(plan)
        PROVE  r.path # o.path
    <3> SUFFICES ASSUME r.path = o.path
                 PROVE  FALSE
      OBVIOUS
    <3>1. s.path \in Path
      BY <2>1 DEF TInv, Shapes, RowOK
    <3>2. r.kind # "dir"
      BY <2>1, <3>1, PathRow DEF TInv, Shapes
    <3>3. r = s
      BY <2>1, <3>2 DEF TInv, OnePathOneOwner
    <3> QED
      BY <2>1, <2>5, <3>3 DEF Touched
  <2> QED
    BY <2>2, <2>3, <2>4, <2>5 DEF Explained, RowsAfter
<1> QED
  BY <1>1, <1>2, <1>3, PackageOpForm

LEMMA ClaimOpExplained ==
  ASSUME SiblingsUnclaimed, TInv, LinksAsClaimed, NEW plan, NEW opt, NEW who, NEW want,
         Cleared(plan, opt, who, want),
         NEW w, w.plan = plan, w.rows = Filed(plan), w.want = want,
         NEW o \in ClaimOps(want)
  PROVE  Explained(w, o)
<1>1. CASE \E l \in want : o = LinkOp(l, TRUE) \/ o = LinkOp(l, FALSE)
  BY <1>1 DEF LinkOp, Explained
<1>2. CASE \E m \in Stale(want) : o = Drop(m.path, FALSE)
  <2>1. PICK m \in Stale(want) : o = Drop(m.path, FALSE)
    BY <1>2
  <2>2. o.entry = Absent /\ o.path = m.path /\ m \in links /\ \A l \in want : l.path # m.path
    BY <2>1 DEF Drop, Stale
  <2>3. m.path \in Path /\ Declared(m.path)
    BY <2>2, WantedDeclared DEF TInv, Shapes
  <2>4. \A r \in rows : r.path # m.path
    BY <2>2, LinksUnowned
  <2>5. ASSUME NEW r \in Filed(plan), r.path = m.path
        PROVE  FALSE
    <3>1. PICK op \in Forward(plan) :
             \/ r.path \in M(op).dirs \/ r.path \in DOMAIN M(op).files
             \/ \E p \in DOMAIN M(op).files : Preserved(op, p) /\ r.path = NewName[p]
      BY FiledFacts DEF Cleared, TInv
    <3>2. ~(r.path \in M(op).dirs \/ r.path \in DOMAIN M(op).files)
      BY <2>2, <2>5 DEF Cleared, ClaimLinkCollides
    <3>3. PICK p \in DOMAIN M(op).files : Preserved(op, p) /\ r.path = NewName[p]
      BY <3>1, <3>2
    <3>4. p \in EtcPath
      BY <3>3 DEF Preserved, Modified
    <3> QED
      BY <2>3, <2>5, <3>3, <3>4 DEF SiblingsUnclaimed
  <2> QED
    BY <2>2, <2>4, <2>5 DEF Explained, RowsAfter
<1>3. Fresh(want) \subseteq want /\ Repointed(want) \subseteq want
  BY DEF Fresh, Repointed
<1> QED
  BY <1>1, <1>2, <1>3, ClaimOpForm

-----------------------------------------------------------------------------
(* What is filed and wanted lands on disk.                                 *)

LEMMA FiledLands ==
  ASSUME Shapes, DatabaseMatchesDisk, NEW plan, PlanOK(plan), NEW opt, NEW want,
         NEW w, w.ops = AllOps(plan, opt, want),
         NEW r \in Filed(plan), r.kind # "dir"
  PROVE  Lands(w, r.path, Recorded(r))
<1>1. PICK op \in Forward(plan) :
           \/ /\ r.path \in DOMAIN M(op).files
              /\ Recorded(r) = IF Preserved(op, r.path) THEN disk[r.path] ELSE M(op).files[r.path]
           \/ \E p \in DOMAIN M(op).files : /\ Preserved(op, p) /\ r.path = NewName[p]
                                            /\ Recorded(r) = M(op).files[p]
  BY FiledFacts
<1>2. PICK i \in DOMAIN plan : op = plan[i] /\ plan[i].kind # "remove"
  BY DEF Forward
<1>3. ASSUME NEW p \in Staged(op), r.path = Dest(op, p), Recorded(r) = M(op).files[p]
      PROVE  Lands(w, r.path, Recorded(r))
  <2> DEFINE o == PlannedOp(Dest(op, p), M(op).files[p])
  <2>1. o \in AllOps(plan, opt, want) /\ o.path = Dest(op, p) /\ o.entry = M(op).files[p]
    <3>1. p \in Staged(plan[i]) /\ o = PlannedOp(Dest(plan[i], p), M(plan[i]).files[p])
      BY <1>2
    <3> HIDE DEF o
    <3>2. /\ o \in AllOps(plan, opt, want)
          /\ o.path = Dest(plan[i], p) /\ o.entry = M(plan[i]).files[p]
      BY <3>1, <1>2, StagedIsBooked
    <3> QED BY <3>2, <1>2
  <2> HIDE DEF o
  <2> QED
    BY <1>3, <2>1 DEF Lands
<1>4. ASSUME NEW p \in DOMAIN M(op).files, Preserved(op, p), r.path = NewName[p],
             Recorded(r) = M(op).files[p]
      PROVE  Lands(w, r.path, Recorded(r))
  <2>1. p \in Staged(op) /\ Dest(op, p) = NewName[p]
    BY <1>4 DEF Preserved, Staged, Dest
  <2> QED
    BY <1>3, <1>4, <2>1
<1>5. ASSUME r.path \in DOMAIN M(op).files,
             Recorded(r) = IF Preserved(op, r.path) THEN disk[r.path] ELSE M(op).files[r.path]
      PROVE  Lands(w, r.path, Recorded(r))
  <2>1. CASE Preserved(op, r.path)
    BY <1>5, <2>1 DEF Lands
  <2>2. CASE Untouched(op, r.path)
    <3>1. ~Preserved(op, r.path)
      BY <2>2 DEF Preserved
    <3>2. PICK s \in rows : s.path = r.path /\ Recorded(s) = M(op).files[r.path]
      BY <2>2 DEF Untouched, Prior
    <3>3. s.path \in Path
      BY <1>5, <3>2, ForwardFacts, ManifestFacts
    <3>4. s.kind # "dir"
      BY <3>3, PathRow DEF Shapes
    <3> QED
      BY <1>5, <3>1, <3>2, <3>4 DEF DatabaseMatchesDisk, Lands
  <2>3. CASE ~Preserved(op, r.path) /\ ~Untouched(op, r.path)
    <3>1. r.path \in Staged(op) /\ Dest(op, r.path) = r.path
      BY <1>5, <2>3 DEF Staged, Dest
    <3> QED
      BY <1>3, <1>5, <2>3, <3>1
  <2> QED
    BY <2>1, <2>2, <2>3
<1> QED
  BY <1>1, <1>4, <1>5

(* A preserved file is recorded as it is on disk.                          *)
LEMMA NotedIsFiled ==
  ASSUME Shapes, NEW plan, PlanOK(plan), NEW op \in Forward(plan),
         NEW p \in DOMAIN M(op).files, Preserved(op, p)
  PROVE  \E r \in Filed(plan) : r.path = p /\ r.kind # "dir" /\ disk[p] = Recorded(r)
<1> DEFINE r == PackageRow(op, p, disk[p])
<1>1. p \in Path
  BY ForwardFacts, DestFacts
<1>2. IsEntry(disk[p])
  BY <1>1, PreservedFacts
<1>3. r \in PackageRows(op)
  BY DEF PackageRows
<1>4. r.path = p /\ r.kind # "dir" /\ disk[p] = Recorded(r)
  BY <1>2, RowFields DEF IsEntry
<1> HIDE DEF r
<1> QED
  BY <1>3, <1>4 DEF Filed

LEMMA WantedLands ==
  ASSUME LinksAsClaimed, NEW plan, NEW opt, NEW want, NEW w, w.ops = AllOps(plan, opt, want),
         NEW l \in want
  PROVE  Lands(w, l.path, LinkEntry(l))
<1>1. ASSUME NEW o \in ClaimOps(want), o = LinkOp(l, TRUE) \/ o = LinkOp(l, FALSE)
      PROVE  Lands(w, l.path, LinkEntry(l))
  <2>1. o \in w.ops
    BY DEF AllOps
  <2>2. o.path = l.path /\ o.entry = LinkEntry(l)
    BY <1>1 DEF LinkOp
  <2> QED
    BY <2>1, <2>2 DEF Lands
<1>2. CASE l \in Adopted(want)
  BY <1>2 DEF Adopted, Lands
<1>3. CASE l \in Fresh(want) \ Adopted(want)
  <2>1. LinkOp(l, TRUE) \in ClaimOps(want)
    BY <1>3 DEF ClaimOps
  <2> QED
    BY <1>1, <2>1
<1>4. CASE l \in links
  BY <1>4 DEF LinksAsClaimed, Lands
<1>5. CASE l \in Repointed(want)
  <2>1. LinkOp(l, FALSE) \in ClaimOps(want)
    BY <1>5 DEF ClaimOps
  <2> QED
    BY <1>1, <2>1
<1> QED
  BY <1>2, <1>3, <1>4, <1>5 DEF Fresh, Repointed

-----------------------------------------------------------------------------
(* What is displaced: a creation displaces nothing, and content that       *)
(* belongs to nobody is kept or already what is wanted.                    *)

Harmless(o) ==
  /\ o.action = "create" => disk[o.path] = Absent
  /\ Unowned(o.path) => o.keep \/ o.entry = disk[o.path]

LEMMA PlannedHarmless ==
  ASSUME NEW p, NEW e
  PROVE  Harmless(PlannedOp(p, e))
<1> DEFINE o == PlannedOp(p, e)
<1>1. o.path = p /\ o.entry = e /\ o.keep = Foreign(p, e)
      /\ o.action = IF disk[p] = Absent THEN "create" ELSE "replace"
  BY DEF PlannedOp
<1> QED
  BY <1>1 DEF Harmless, Unowned, Foreign

LEMMA DropHarmless ==
  ASSUME NEW p, NEW keep, ~Unowned(p)
  PROVE  Harmless(Drop(p, keep))
BY DEF Harmless, Drop

LEMMA LinkHarmless ==
  ASSUME NEW l, NEW fresh \in BOOLEAN, fresh \/ ~Unowned(l.path)
  PROVE  Harmless(LinkOp(l, fresh))
<1> DEFINE o == LinkOp(l, fresh)
<1>1. o.path = l.path /\ o.entry = LinkEntry(l) /\ o.keep = (fresh /\ Foreign(l.path, LinkEntry(l)))
      /\ o.action = IF disk[l.path] = Absent THEN "create" ELSE "swap"
  BY DEF LinkOp
<1> QED
  BY <1>1 DEF Harmless, Unowned, Foreign

LEMMA AllHarmless ==
  ASSUME NEW plan, NEW opt, NEW want, NEW o \in AllOps(plan, opt, want)
  PROVE  Harmless(o)
<1>1. ASSUME NEW i \in DOMAIN plan, o \in Booked(plan, i, opt, want)
      PROVE  Harmless(o)
  <2>1. o \in StagedOps(plan[i], opt)
    BY <1>1 DEF Booked, Settled
  <2>2. CASE Writes(plan[i], o)
    BY <2>2, PlannedHarmless DEF Writes
  <2>3. CASE Retires(plan[i], o) \/ Removes(plan[i], o, opt)
    <3>1. \E s \in rows : s.path = o.path
      BY <1>1, <2>3, DroppedFacts
    <3>2. ~Unowned(o.path)
      BY <3>1 DEF Unowned, Owners
    <3>3. \E keep : o = Drop(o.path, keep)
      BY <2>3 DEF Retires, Removes, Drop
    <3> QED
      BY <3>2, <3>3, DropHarmless
  <2> QED
    BY <2>1, <2>2, <2>3, PackageOpForm
<1>2. CASE o \in ClaimOps(want)
  <2>1. CASE \E l \in Fresh(want) \ Adopted(want) : o = LinkOp(l, TRUE)
    BY <2>1, LinkHarmless
  <2>2. CASE \E l \in Repointed(want) : o = LinkOp(l, FALSE)
    BY <2>2, LinkHarmless DEF Repointed, Unowned
  <2>3. CASE \E m \in Stale(want) : o = Drop(m.path, FALSE)
    BY <2>3, DropHarmless DEF Stale, Unowned
  <2> QED
    BY <1>2, <2>1, <2>2, <2>3, ClaimOpForm
<1> QED
  BY <1>1, <1>2, OpOrigin

(* A cleared plan is sound.                                                *)
LEMMA ClearedIsSound ==
  ASSUME SiblingsUnclaimed, TInv, DatabaseMatchesDisk, LinksAsClaimed,
         NEW plan, NEW opt, NEW who, NEW want, Cleared(plan, opt, who, want),
         NEW w, w.plan = plan, w.rows = Filed(plan), w.want = want,
         w.ops = AllOps(plan, opt, want),
         \A p \in w.noted : \E op \in Forward(plan) : p \in DOMAIN M(op).files /\ Preserved(op, p)
  PROVE  Sound(w)
<1>1. PlanOK(plan) /\ Shapes
  BY DEF Cleared, TInv
<1>2. \A o \in w.ops : Explained(w, o)
  BY OpOrigin, PackageOpExplained, ClaimOpExplained
<1>3. \A r \in w.rows : r.kind # "dir" => Lands(w, r.path, Recorded(r))
  BY <1>1, FiledLands
<1>4. \A p \in w.noted : \E r \in w.rows : r.path = p /\ r.kind # "dir" /\ disk[p] = Recorded(r)
  BY <1>1, NotedIsFiled
<1>5. \A l \in w.want : /\ l.path \in Path /\ Lands(w, l.path, LinkEntry(l))
                        /\ \A r \in RowsAfter(w.plan, w.rows) : r.path # l.path
  <2>1. \A l \in want : l.path \in Path
    BY <1>1, AfterKnown, WantedDeclared DEF Cleared, Shapes
  <2> QED
    BY <1>1, <2>1, WantedLands, WantedUnowned
<1>6. Separate(w.want)
  BY DEF Cleared, Overclaimed, Separate
<1>7. \A o \in w.ops : Harmless(o)
  BY AllHarmless
<1> QED
  BY <1>2, <1>3, <1>4, <1>5, <1>6, <1>7 DEF Sound, Harmless

-----------------------------------------------------------------------------
(* Steps keep the agreement.                                               *)

LEMMA SoundFrame ==
  ASSUME UNCHANGED <<disk, rows, links, edited>>, NEW w, work' = w, Sound(w)
  PROVE  Sound(work)'
BY DEF Sound, Explained, Lands, RowsAfter, Separate, Unowned, Owners

LEMMA AgreementFrame ==
  ASSUME DatabaseMatchesDisk, LinksAsClaimed, dirs \subseteq dirs',
         UNCHANGED <<disk, rows, installed, holder, links, edited>>
  PROVE  (DatabaseMatchesDisk /\ LinksAsClaimed)'
BY DEF DatabaseMatchesDisk, LinksAsClaimed, OnePathOneOwner, Recorded, Owners

(* What Stage records is sound, and what it creates was in no row.         *)
LEMMA StageAgrees ==
  ASSUME IInv, SiblingsUnclaimed, TInv',
         NEW plan, NEW opt, NEW who, NEW want, Cleared(plan, opt, who, want),
         NEW noted, NEW asked,
         \A p \in noted : \E op \in Forward(plan) : p \in DOMAIN M(op).files /\ Preserved(op, p),
         Stage(plan, AllOps(plan, opt, want), Filed(plan), noted, who, want, asked),
         UNCHANGED <<disk, kept, rows, installed, holder, links, index, edited>>
  PROVE  IInv'
<1>1. PICK w : work' = w
  OBVIOUS
<1>2. /\ w.plan = plan /\ w.want = want /\ w.ops = AllOps(plan, opt, want)
      /\ w.rows = Filed(plan) /\ w.noted = noted /\ w.made = CreatedDirs(plan, want)
  BY <1>1 DEF Stage
<1>3. Sound(w)
  BY <1>2, ClearedIsSound DEF IInv
<1>4. Sound(work)'
  BY <1>1, <1>3, SoundFrame
<1>5. dirs \subseteq dirs' /\ ShippedDirs(plan) \subseteq dirs'
  BY DEF Stage
<1>6. ASSUME NEW r \in Filed(plan), r.kind = "dir"
      PROVE  r.path \in dirs'
  <2>1. \E op \in Forward(plan) : r.path \in M(op).dirs
    BY <1>6, FiledFacts DEF IInv, TInv, Cleared
  <2>2. r.path \in ShippedDirs(plan)
    BY <2>1 DEF ShippedDirs
  <2> QED
    BY <1>5, <2>2
<1>7. ASSUME NEW r \in rows, r.kind = "dir"
      PROVE  r.path \notin CreatedDirs(plan, want)
  BY <1>7 DEF CreatedDirs, IInv, DatabaseMatchesDisk
<1>8. DirsSound(work)'
  BY <1>1, <1>2, <1>6, <1>7 DEF DirsSound
<1>9. (DatabaseMatchesDisk /\ LinksAsClaimed)'
  BY <1>5, AgreementFrame DEF IInv
<1> QED
  BY <1>4, <1>8, <1>9 DEF IInv

LEMMA PrepareAgrees ==
  ASSUME IInv, SiblingsUnclaimed, NEW plan \in Plans, NEW opt \in Options, Prepare(plan, opt)
  PROVE  IInv'
<1> DEFINE who == PostHolder(plan, opt)
           want == Desired(After(plan), who)
           asked == IF opt.claim = "all" THEN Role ELSE opt.roles
           noted == UNION {{p \in DOMAIN M(op).files : Preserved(op, p)} : op \in Forward(plan)}
<1>1. TInv'
  BY PrepareShapes DEF IInv
<1>2. PlanOK(plan) /\ who \in Holders
  BY PlansAreOK, PostHolderFacts DEF IInv, TInv, Shapes
<1>3. Cleared(plan, opt, who, want)
  BY <1>2 DEF Prepare, ClaimsRefused, ClaimsConflict, PackagesRefused, Cleared
<1>4. /\ Stage(plan, AllOps(plan, opt, want), Filed(plan), noted, who, want, asked)
      /\ UNCHANGED <<disk, kept, rows, installed, holder, links, index, edited>>
  BY DEF Prepare, Filed
<1>5. \A p \in noted : \E op \in Forward(plan) : p \in DOMAIN M(op).files /\ Preserved(op, p)
  OBVIOUS
<1> HIDE DEF who, want, asked, noted
<1> QED
  BY <1>1, <1>3, <1>4, <1>5, StageAgrees

LEMMA ClaimAgrees ==
  ASSUME IInv, SiblingsUnclaimed, NEW role \in Role, NEW pkg \in Pkg \cup {None},
         ClaimChange(role, pkg)
  PROVE  IInv'
<1> DEFINE who == Regrant(role, pkg)
           want == Desired(installed, who)
<1>1. TInv'
  BY ClaimShapes DEF IInv
<1>2. who \in Holders
  BY RegrantFacts DEF IInv, TInv, Shapes
<1>3. /\ PlanOK(<<>>) /\ After(<<>>) = installed /\ Forward(<<>>) = {}
      /\ AllOps(<<>>, ClaimFlags, want) = ClaimOps(want)
      /\ Filed(<<>>) = {}
      /\ ~DoubleBooked(<<>>, ClaimFlags, want)
  BY NoPlan DEF IInv, TInv, Shapes, Filed
<1>4. /\ ~Overclaimed(installed, who) /\ \A l \in want : l.path \notin PostOwned(<<>>)
      /\ Stage(<<>>, ClaimOps(want), {}, {}, who, want, {role})
      /\ UNCHANGED <<disk, kept, rows, installed, holder, links, index, edited>>
  BY DEF ClaimChange, ClaimsRefused, ClaimsConflict
<1>5. Cleared(<<>>, ClaimFlags, who, want)
  BY <1>2, <1>3, <1>4 DEF Cleared
<1> HIDE DEF who, want
<1>6. Stage(<<>>, AllOps(<<>>, ClaimFlags, want), Filed(<<>>), {}, who, want, {role})
  BY <1>3, <1>4
<1> QED
  BY <1>1, <1>4, <1>5, <1>6, StageAgrees

(* A plan that stops before it is recorded leaves directories.             *)
LEMMA AbandonAgrees ==
  ASSUME IInv, TInv', work = None, work' = None, dirs \subseteq dirs',
         UNCHANGED <<disk, rows, installed, holder, links, edited>>
  PROVE  IInv'
BY AgreementFrame DEF IInv

-----------------------------------------------------------------------------
(* The commit.                                                             *)

(* What a path with a row holds afterwards.                                *)
LEMMA CommitRows ==
  ASSUME IInv, Commit, NEW r \in rows', r.kind # "dir", r.path \notin edited'
  PROVE  disk'[r.path] = Recorded(r)
<1> DEFINE p == r.path
<1>1. /\ WorkShapes(work) /\ Sound(work) /\ DatabaseMatchesDisk /\ Shapes
      /\ rows' = RowsAfter(work.plan, work.rows) /\ disk' = DiskAfter(work.ops)
      /\ OnePathOneOwner(rows')
      /\ edited' = edited \ ({o.path : o \in work.ops} \cup work.noted
           \cup {s.path : s \in {t \in work.rows : t.kind # "dir" /\ Recorded(t) = disk'[t.path]}}
           \cup {l.path : l \in {m \in work.want : LinkEntry(m) = disk'[m.path]}})
  BY DEF IInv, TInv, Commit
<1>2. work.rows \subseteq rows' /\ (r \in work.rows \/ r \in rows)
  BY <1>1 DEF RowsAfter
<1>3. p \in Path
  BY <1>1, <1>2 DEF WorkShapes, Shapes, RowOK
<1>4. \A s \in work.rows : s.path = p /\ s.kind # "dir" => s = r
  BY <1>1, <1>2 DEF OnePathOneOwner
<1>5. \A l \in work.want : l.path # p
  BY <1>1 DEF Sound
<1>6. ASSUME NEW o \in work.ops, o.path = p
      PROVE  disk'[p] = Recorded(r)
  <2>1. Explained(work, o)
    BY <1>1 DEF Sound
  <2>2. PICK s \in work.rows : s.path = o.path /\ s.kind # "dir" /\ o.entry = Recorded(s)
    BY <1>1, <1>5, <1>6, <2>1 DEF Explained
  <2>3. o.entry = Recorded(r)
    BY <1>4, <1>6, <2>2
  <2> QED
    BY <1>1, <1>3, <1>6, <2>3, DiskAfterFacts DEF WorkShapes
<1>7. ASSUME \A o \in work.ops : o.path # p
      PROVE  disk'[p] = Recorded(r)
  <2>1. disk'[p] = disk[p]
    BY <1>1, <1>3, <1>7, DiskAfterFacts DEF WorkShapes
  <2>2. p \in edited \/ disk[p] = Recorded(r)
    <3>1. r \in work.rows => Lands(work, p, Recorded(r))
      BY <1>1 DEF Sound
    <3>2. r \in rows => p \in edited \/ disk[p] = Recorded(r)
      BY <1>1 DEF DatabaseMatchesDisk
    <3> QED
      BY <1>2, <1>7, <3>1, <3>2 DEF Lands
  <2>3. CASE p \in edited
    <3>1. \/ p \in work.noted
          \/ \E s \in work.rows : s.kind # "dir" /\ s.path = p /\ Recorded(s) = disk'[p]
      BY <1>1, <1>5, <1>7, <2>3
    <3>2. CASE p \in work.noted
      <4>1. PICK s \in work.rows : s.path = p /\ s.kind # "dir" /\ disk[p] = Recorded(s)
        BY <1>1, <3>2 DEF Sound
      <4> QED
        BY <1>4, <2>1, <4>1
    <3> QED
      BY <1>4, <3>1, <3>2
  <2> QED
    BY <2>1, <2>2, <2>3
<1> QED
  BY <1>6, <1>7

(* What a claimed path holds afterwards.                                   *)
LEMMA CommitLinks ==
  ASSUME IInv, Commit, NEW l \in work.want
  PROVE  /\ \A r \in rows' : r.path # l.path
         /\ l.path \notin edited' => disk'[l.path] = LinkEntry(l)
<1> DEFINE p == l.path
<1>1. /\ WorkShapes(work) /\ Sound(work)
      /\ rows' = RowsAfter(work.plan, work.rows) /\ disk' = DiskAfter(work.ops)
      /\ edited' = edited \ ({o.path : o \in work.ops} \cup work.noted
           \cup {s.path : s \in {t \in work.rows : t.kind # "dir" /\ Recorded(t) = disk'[t.path]}}
           \cup {k.path : k \in {m \in work.want : LinkEntry(m) = disk'[m.path]}})
  BY DEF IInv, TInv, Commit
<1>2. p \in Path /\ \A r \in rows' : r.path # p
  BY <1>1 DEF Sound
<1>3. \A r \in work.rows : r.path # p
  BY <1>1, <1>2 DEF RowsAfter
<1>4. \A k \in work.want : k.path = p => k = l
  BY <1>1 DEF Sound, Separate
<1>5. ASSUME NEW o \in work.ops, o.path = p
      PROVE  disk'[p] = LinkEntry(l)
  <2>1. Explained(work, o)
    BY <1>1 DEF Sound
  <2>2. o.entry = LinkEntry(l)
    BY <1>3, <1>4, <1>5, <2>1 DEF Explained
  <2> QED
    BY <1>1, <1>2, <1>5, <2>2, DiskAfterFacts DEF WorkShapes
<1>6. ASSUME \A o \in work.ops : o.path # p, p \notin edited'
      PROVE  disk'[p] = LinkEntry(l)
  <2>1. disk'[p] = disk[p]
    BY <1>1, <1>2, <1>6, DiskAfterFacts DEF WorkShapes
  <2>2. p \in edited \/ disk[p] = LinkEntry(l)
    <3>1. Lands(work, p, LinkEntry(l))
      BY <1>1 DEF Sound
    <3> QED
      BY <1>6, <3>1 DEF Lands
  <2>3. CASE p \in edited
    <3>1. p \notin work.noted
      BY <1>1, <1>3 DEF Sound
    <3>2. \E k \in work.want : k.path = p /\ LinkEntry(k) = disk'[p]
      BY <1>1, <1>3, <1>6, <2>3, <3>1
    <3> QED
      BY <1>4, <3>2
  <2> QED
    BY <2>1, <2>2, <2>3
<1> QED
  BY <1>2, <1>5, <1>6

LEMMA CommitAgrees ==
  ASSUME IInv, Commit
  PROVE  IInv'
<1>1. TInv'
  BY CommitShapes DEF IInv
<1>2. rows' = RowsAfter(work.plan, work.rows) /\ links' = work.want /\ work' = None
      /\ dirs' = DirsAfter(work.released, rows', disk', kept')
  BY DEF Commit
<1>3. ASSUME NEW r \in rows', r.kind = "dir"
      PROVE  r.path \in dirs'
  <2>1. r.path \in dirs
    BY <1>2, <1>3 DEF RowsAfter, IInv, DatabaseMatchesDisk, DirsSound, Commit
  <2> QED
    BY <1>2, <2>1 DEF DirsAfter, Vacant
<1>4. DatabaseMatchesDisk'
  BY <1>1, <1>3, CommitRows DEF DatabaseMatchesDisk, TInv, Recorded
<1>5. LinksAsClaimed'
  BY <1>1, <1>2, CommitLinks DEF LinksAsClaimed, TInv, Owners
<1> QED
  BY <1>1, <1>2, <1>4, <1>5 DEF IInv

LEMMA RollBackDisk ==
  ASSUME IInv, RollBack
  PROVE  disk' = disk
<1>1. \A p \in Path : disk'[p] = disk[p]
  BY DEF RollBack, IInv, Sound
<1> QED
  BY <1>1 DEF RollBack, IInv, TInv, Shapes

LEMMA RollBackAgrees ==
  ASSUME IInv, RollBack
  PROVE  IInv'
<1>1. TInv' /\ disk' = disk
  BY RollBackShapes, RollBackDisk DEF IInv
<1>2. UNCHANGED <<rows, installed, holder, links, edited>> /\ work' = None
  BY DEF RollBack
<1>3. ASSUME NEW r \in rows, r.kind = "dir"
      PROVE  r.path \in dirs'
  BY <1>3 DEF RollBack, IInv, DatabaseMatchesDisk, DirsSound, Vacant
<1>4. DatabaseMatchesDisk'
  BY <1>1, <1>2, <1>3 DEF IInv, DatabaseMatchesDisk, OnePathOneOwner, Recorded
<1>5. LinksAsClaimed'
  BY <1>1, <1>2 DEF IInv, LinksAsClaimed, Owners
<1> QED
  BY <1>1, <1>2, <1>4, <1>5 DEF IInv

LEMMA OperatorAgrees ==
  ASSUME IInv, ~Racing, NEW p \in DOMAIN OperatorEntry, NEW e \in OperatorEntry[p] \cup {Absent},
         OperatorActs(p, e)
  PROVE  IInv'
<1>1. TInv' /\ work' = None
  BY OperatorShapes DEF IInv, OperatorActs
<1>2. /\ disk' = [disk EXCEPT ![p] = e] /\ edited' = edited \cup {p}
      /\ UNCHANGED <<dirs, rows, installed, holder, links>>
  BY DEF OperatorActs
<1>3. \A q : q # p => disk'[q] = disk[q]
  BY <1>2
<1>4. DatabaseMatchesDisk'
  BY <1>2, <1>3 DEF IInv, DatabaseMatchesDisk, OnePathOneOwner, Recorded
<1>5. LinksAsClaimed'
  BY <1>2, <1>3 DEF IInv, LinksAsClaimed, Owners
<1> QED
  BY <1>1, <1>4, <1>5 DEF IInv

LEMMA StutterAgrees ==
  ASSUME IInv, UNCHANGED vars
  PROVE  IInv'
<1>1. TInv'
  BY StutterShapes DEF IInv
<1>2. (work # None => Sound(work) /\ DirsSound(work))'
  BY SoundFrame DEF IInv, vars, DirsSound
<1>3. (DatabaseMatchesDisk /\ LinksAsClaimed)'
  BY AgreementFrame DEF IInv, vars
<1> QED
  BY <1>1, <1>2, <1>3 DEF IInv

LEMMA NextAgrees ==
  ASSUME IInv, SiblingsUnclaimed, ~Racing, [Next]_vars
  PROVE  IInv'
<1>1. TInv'
  BY NextShapes DEF IInv
<1>2. ASSUME NEW plan \in Plans, NEW opt \in Options, Prepare(plan, opt) \/ Abandon(plan, opt)
      PROVE  IInv'
  <2>1. CASE Abandon(plan, opt)
    BY <1>1, <2>1, AbandonAgrees DEF Abandon
  <2> QED
    BY <1>2, <2>1, PrepareAgrees
<1>3. ASSUME NEW role \in Role, Revoke(role)
      PROVE  IInv'
  BY <1>3, ClaimAgrees DEF Revoke
<1>4. ASSUME NEW role \in Role, NEW p \in Pkg, Grant(role, p)
      PROVE  IInv'
  <2>1. CASE ClaimAbandoned(role, p)
    BY <1>1, <2>1, AbandonAgrees DEF ClaimAbandoned
  <2> QED
    BY <1>4, <2>1, ClaimAgrees DEF Grant
<1> QED
  BY <1>2, <1>3, <1>4, CommitAgrees, RollBackAgrees, OperatorAgrees, StutterAgrees DEF Next

LEMMA InitAgrees ==
  ASSUME Init
  PROVE  IInv
<1>1. TInv
  BY InitShapes
<1> QED
  BY <1>1 DEF Init, IInv, TInv, DatabaseMatchesDisk, LinksAsClaimed

(* The agreement is inductive.                                             *)
THEOREM Agreement ==
  ASSUME SiblingsUnclaimed, ~Racing
  PROVE  Spec => []IInv
<1>1. IInv /\ [Next]_vars => IInv'
  BY NextAgrees
<1> QED
  BY <1>1, InitAgrees, PTL DEF Spec

(* What is recorded is on disk wherever the operator did not act: what     *)
(* `peipkg verify` reports is the operator's doing.                        *)
THEOREM DatabaseAgrees ==
  ASSUME SiblingsUnclaimed, ~Racing
  PROVE  Spec => []DatabaseMatchesDisk
<1>1. IInv => DatabaseMatchesDisk
  BY DEF IInv
<1> QED
  BY <1>1, Agreement, PTL

(* The claim links, recorded and on disk, are the ones the holders and the *)
(* declared paths call for, and no package owns one (reconcileClaims).     *)
THEOREM LinksAgree ==
  ASSUME SiblingsUnclaimed, ~Racing
  PROVE  Spec => []LinksAsClaimed
<1>1. IInv => LinksAsClaimed
  BY DEF IInv
<1> QED
  BY <1>1, Agreement, PTL

(* No transaction destroys content that belongs to no package and no role  *)
(* (unownedPolicy).                                                        *)
THEOREM UnownedStays ==
  ASSUME SiblingsUnclaimed, ~Racing
  PROVE  Spec => UnownedKept
<1>1. IInv /\ [Next]_vars => [Settling => \A p \in Path : Unowned(p) => Survives(p)]_vars
  <2> SUFFICES ASSUME IInv, Next, Settling, NEW p \in Path, Unowned(p)
               PROVE  Survives(p)
    BY DEF vars
  <2>1. Commit \/ RollBack
    BY DEF Next, Settling, Prepare, Abandon, Revoke, Grant, ClaimChange, ClaimAbandoned, OperatorActs
  <2>2. CASE RollBack
    BY <2>2, RollBackDisk DEF Survives
  <2>3. CASE Commit
    <3>1. /\ WorkShapes(work) /\ Sound(work) /\ disk' = DiskAfter(work.ops)
          /\ kept' = kept \cup {<<o.path, disk[o.path]>> :
                                  o \in {x \in work.ops : x.keep /\ disk[x.path] # Absent}}
      BY <2>3 DEF IInv, TInv, Commit
    <3>2. ASSUME NEW o \in work.ops, o.path = p
          PROVE  Survives(p)
      <4>1. o.keep \/ o.entry = disk[p]
        BY <3>1, <3>2 DEF Sound
      <4>2. disk'[p] = o.entry
        BY <3>1, <3>2, DiskAfterFacts DEF WorkShapes
      <4>3. disk[p] # Absent
        BY DEF Unowned
      <4> QED
        BY <3>1, <3>2, <4>1, <4>2, <4>3 DEF Survives
    <3>3. ASSUME \A o \in work.ops : o.path # p
          PROVE  Survives(p)
      BY <3>1, <3>3, DiskAfterFacts DEF WorkShapes, Survives
    <3> QED
      BY <3>2, <3>3
  <2> QED
    BY <2>1, <2>2, <2>3
<1> QED
  BY <1>1, Agreement, PTL DEF Spec, UnownedKept

-----------------------------------------------------------------------------
(* Edited /etc files.  Three more conditions on what packages declare, each*)
(* of which the code relies on without checking it: the .peipkg-new sibling*)
(* of a shipped /etc file is no other's sibling and is not shipped; an /etc*)
(* path is no claim path, since the link's operation, which replaces the   *)
(* removal's, keeps no backup of an owned file; and an /etc file stays a   *)
(* regular file, since a symlink is written without looking for edits.     *)

Ships(p, x) == \E v \in DOMAIN Manifest[p] : x \in DOMAIN Manifest[p][v].files
SiblingsApart ==
  /\ \A x \in EtcPath : \A p \in Pkg : ~Ships(p, NewName[x])
  /\ \A x, y \in EtcPath : \A p, q \in Pkg :
       Ships(p, x) /\ Ships(q, y) /\ NewName[x] = NewName[y] => x = y
EtcUnclaimed == \A x \in EtcPath : ~Declared(x)
EtcStaysFile ==
  \A p \in Pkg : \A v, u \in DOMAIN Manifest[p] :
    \A x \in EtcPath \cap DOMAIN Manifest[p][v].files \cap DOMAIN Manifest[p][u].files :
      Manifest[p][v].files[x].kind = "file" => Manifest[p][u].files[x].kind = "file"

(* A row is of a path some version of its package ships, of the kind it    *)
(* has there, or of the sibling of an /etc file of the package.            *)
FromPayload(filed) ==
  \A r \in filed : r.kind # "dir" =>
    \/ \E v \in DOMAIN Manifest[r.pkg] :
         /\ r.path \in DOMAIN Manifest[r.pkg][v].files
         /\ r.kind = "file" => Manifest[r.pkg][v].files[r.path].kind = "file"
    \/ \E x \in EtcPath : /\ r.path = NewName[x] /\ Ships(r.pkg, x)
                          /\ \E s \in filed : s.pkg = r.pkg /\ s.path = x
Present(filed, at) == \A r \in filed : at[r.pkg] # 0

(* StillTheirs, of any planned transaction.                                *)
Theirs(w, r) ==
  \E i \in DOMAIN w.plan :
    /\ w.plan[i].pkg = r.pkg
    /\ IF w.plan[i].kind = "remove"
       THEN \A op \in Forward(w.plan) : r.path \notin DOMAIN M(op).files
       ELSE r.path \in DOMAIN M(w.plan[i]).files

(* A transaction that can commit keeps or leaves what is edited.           *)
Careful(w) ==
  OnePathOneOwner(RowsAfter(w.plan, w.rows)) =>
    \A r \in rows : Modified(r) /\ Theirs(w, r) =>
      \A o \in w.ops : o.path = r.path => o.keep \/ o.entry = disk[r.path]

EInv ==
  /\ IInv
  /\ FromPayload(rows) /\ Present(rows, installed)
  /\ work # None =>
       /\ FromPayload(work.rows) /\ Present(work.rows, After(work.plan))
       /\ \A r \in work.rows : r.pkg \in Touched(work.plan)
       /\ Careful(work)

LEMMA AfterTouched ==
  ASSUME NEW plan, PlanOK(plan), NEW i \in DOMAIN plan
  PROVE  After(plan)[plan[i].pkg] = plan[i].to
<1>1. plan[i].pkg \in Pkg
  BY OperationFacts DEF PlanOK
<1>2. (CHOOSE j \in DOMAIN plan : plan[j].pkg = plan[i].pkg) = i
  BY DEF PlanOK
<1> QED
  BY <1>1, <1>2 DEF After

LEMMA FiledFromPayload ==
  ASSUME Shapes, NEW plan, PlanOK(plan)
  PROVE  /\ FromPayload(Filed(plan)) /\ Present(Filed(plan), After(plan))
         /\ \A r \in Filed(plan) : r.pkg \in Touched(plan)
<1> SUFFICES ASSUME NEW r \in Filed(plan)
             PROVE  /\ After(plan)[r.pkg] # 0 /\ r.pkg \in Touched(plan)
                    /\ r.kind # "dir" =>
                         \/ \E v \in DOMAIN Manifest[r.pkg] :
                              /\ r.path \in DOMAIN Manifest[r.pkg][v].files
                              /\ r.kind = "file" => Manifest[r.pkg][v].files[r.path].kind = "file"
                         \/ \E x \in EtcPath :
                              /\ r.path = NewName[x] /\ Ships(r.pkg, x)
                              /\ \E s \in Filed(plan) : s.pkg = r.pkg /\ s.path = x
  BY DEF FromPayload, Present
<1>1. PICK op \in Forward(plan) : r \in PackageRows(op)
  BY DEF Filed
<1>2. op \in Operation /\ Legal(op) /\ op.kind # "remove" /\ op.pkg \in Touched(plan)
  BY ForwardFacts
<1>3. op.pkg \in Pkg /\ op.to \in DOMAIN Manifest[op.pkg] /\ op.to # 0
  BY <1>2, OperationFacts, StagingAssumption
<1>4. r.pkg = op.pkg
  BY <1>1, <1>2, PackageRowsShaped
<1>5. After(plan)[r.pkg] # 0
  BY <1>3, <1>4, AfterTouched DEF Forward
<1>6. CASE DirRow(op, r)
  <2>1. r.kind = "dir"
    BY <1>6, RowFields DEF DirRow, Entry
  <2> QED
    BY <1>2, <1>4, <1>5, <2>1
<1>7. CASE OwnRow(op, r)
  <2>1. PICK p \in DOMAIN M(op).files :
               r = PackageRow(op, p, IF Preserved(op, p) THEN disk[p] ELSE M(op).files[p])
    BY <1>7 DEF OwnRow
  <2>2. r.path = p /\ r.kind = (IF Preserved(op, p) THEN disk[p] ELSE M(op).files[p]).kind
    BY <2>1, RowFields
  <2>3. r.kind = "file" => M(op).files[p].kind = "file"
    BY <2>2 DEF Preserved
  <2> QED
    BY <1>2, <1>3, <1>4, <1>5, <2>2, <2>3 DEF M
<1>8. CASE NewRow(op, r)
  <2>1. PICK p \in DOMAIN M(op).files :
               Preserved(op, p) /\ r = PackageRow(op, NewName[p], M(op).files[p])
    BY <1>8 DEF NewRow
  <2>2. r.path = NewName[p]
    BY <2>1, RowFields
  <2>3. p \in EtcPath
    BY <2>1 DEF Preserved, Modified
  <2>4. Ships(op.pkg, p)
    BY <1>3 DEF Ships, M
  <2> DEFINE s == PackageRow(op, p, disk[p])
  <2>5. s \in PackageRows(op)
    BY <2>1 DEF PackageRows
  <2>6. s.pkg = op.pkg /\ s.path = p
    BY RowFields
  <2> HIDE DEF s
  <2>7. s \in Filed(plan)
    BY <2>5 DEF Filed
  <2> QED
    BY <1>2, <1>4, <1>5, <2>2, <2>3, <2>4, <2>6, <2>7
<1> QED
  BY <1>1, <1>6, <1>7, <1>8, RowForm

(* No operation for a claim is on an /etc path.                            *)
LEMMA ClaimOpsElsewhere ==
  ASSUME EtcUnclaimed, TInv, NEW plan, NEW opt, NEW who, NEW want,
         Cleared(plan, opt, who, want), NEW o \in ClaimOps(want)
  PROVE  o.path \notin EtcPath
<1>1. \A l \in want : Declared(l.path)
  BY AfterKnown, WantedDeclared DEF Cleared, TInv, Shapes
<1>2. \A l \in links : Declared(l.path)
  BY WantedDeclared DEF TInv, Shapes
<1>3. \E l \in want \cup links : o.path = l.path
  <2>1. CASE \E l \in Fresh(want) \ Adopted(want) : o = LinkOp(l, TRUE)
    BY <2>1 DEF LinkOp, Fresh
  <2>2. CASE \E l \in Repointed(want) : o = LinkOp(l, FALSE)
    BY <2>2 DEF LinkOp, Repointed
  <2>3. CASE \E m \in Stale(want) : o = Drop(m.path, FALSE)
    BY <2>3 DEF Drop, Stale
  <2> QED
    BY <2>1, <2>2, <2>3, ClaimOpForm
<1> QED
  BY <1>1, <1>2, <1>3 DEF EtcUnclaimed

(* The upgrade of a package whose file is edited: only another package's   *)
(* file could be written over it, and then two packages own the path.      *)
LEMMA UpgradeCareful ==
  ASSUME EInv, SiblingsApart, EtcStaysFile,
         NEW plan, NEW opt, NEW who, NEW want, Cleared(plan, opt, who, want),
         OnePathOneOwner(RowsAfter(plan, Filed(plan))),
         NEW r \in rows, Modified(r),
         NEW i \in DOMAIN plan, plan[i].pkg = r.pkg, plan[i].kind # "remove",
         r.path \in DOMAIN M(plan[i]).files,
         NEW j \in DOMAIN plan, NEW o \in Booked(plan, j, opt, want), o.path = r.path
  PROVE  o.keep \/ o.entry = disk[r.path]
<1> DEFINE p == r.path
           op == plan[i]
<1>1. /\ op \in Operation /\ Legal(op) /\ PlanOK(plan) /\ op \in Forward(plan)
      /\ plan[j] \in Operation /\ Legal(plan[j]) /\ o \in StagedOps(plan[j], opt)
  BY DEF Cleared, PlanOK, Forward, Booked, Settled
<1>2. Shapes /\ OnePathOneOwner(rows) /\ r.kind = "file" /\ p \in EtcPath /\ p \in Path
  BY StagingAssumption DEF EInv, IInv, TInv, Modified
<1>3. op.pkg \in Pkg /\ op.to \in DOMAIN Manifest[op.pkg]
  BY <1>1, OperationFacts
<1>4. Ships(r.pkg, p)
  BY <1>3 DEF Ships, M
<1>5. \A x \in EtcPath : NewName[x] # p
  BY <1>3, <1>4 DEF SiblingsApart
<1>6. M(op).files[p].kind = "file"
  <2>1. PICK v \in DOMAIN Manifest[r.pkg] :
           p \in DOMAIN Manifest[r.pkg][v].files /\ Manifest[r.pkg][v].files[p].kind = "file"
    BY <1>2, <1>5 DEF EInv, FromPayload
  <2>2. op.pkg = r.pkg
    OBVIOUS
  <2>3. op.to \in DOMAIN Manifest[r.pkg] /\ p \in DOMAIN Manifest[r.pkg][op.to].files
    BY <1>3, <2>2 DEF M
  <2>4. r.pkg \in Pkg /\ p \in EtcPath
    BY <1>2, <1>3
  <2> DEFINE to == op.to
  <2>5. to \in DOMAIN Manifest[r.pkg] /\ p \in DOMAIN Manifest[r.pkg][to].files
    BY <2>3
  <2> HIDE DEF p, to
  <2>6. Manifest[r.pkg][to].files[p].kind = "file"
    BY <2>1, <2>4, <2>5 DEF EtcStaysFile
  <2> QED
    BY <2>2, <2>6 DEF M, to
<1>7. r \in Prior(op)
  <2>1. installed[r.pkg] # 0
    BY DEF EInv, Present
  <2>2. op.kind # "install"
    BY <1>1, <2>1, OperationFacts
  <2> QED
    BY <2>2 DEF Prior
<1>8. Preserved(op, p) \/ Untouched(op, p)
  BY <1>6, <1>7 DEF Preserved
<1>9. \A t \in rows : t.path = p => t = r
  <2> SUFFICES ASSUME NEW t \in rows, t.path = p
               PROVE  t = r
    OBVIOUS
  <2>1. t.kind # "dir"
    BY <1>2, PathRow DEF Shapes
  <2> QED
    BY <1>2, <2>1 DEF OnePathOneOwner
(* The row the upgrade files for the path.                                 *)
<1> DEFINE e == IF Preserved(op, p) THEN disk[p] ELSE M(op).files[p]
           t == PackageRow(op, p, e)
<1>10. t \in Filed(plan) /\ t.pkg = op.pkg /\ t.path = p /\ t.kind # "dir" /\ Recorded(t) = e
  <2>1. IsEntry(e)
    BY <1>1, <1>2, DestFacts, PreservedFacts
  <2>2. t \in PackageRows(op)
    BY DEF PackageRows
  <2>3. t.pkg = op.pkg /\ t.path = p /\ t.kind = e.kind /\ Recorded(t) = e
    BY <2>1, RowFields
  <2> HIDE DEF t, e
  <2> QED
    BY <1>1, <2>1, <2>2, <2>3 DEF Filed, IsEntry
<1> HIDE DEF t, e
<1>11. CASE Writes(plan[j], o)
  <2>1. PICK s \in PackageRows(plan[j]) : s.path = o.path /\ s.kind # "dir" /\ o.entry = Recorded(s)
    BY <1>1, <1>11, WrittenIsFiled
  <2>2. plan[j] \in Forward(plan)
    BY <1>11 DEF Writes, Forward
  <2>3. s \in Filed(plan) /\ s.pkg = plan[j].pkg
    BY <1>1, <1>2, <2>1, <2>2, <1>11, PackageRowsShaped DEF Filed, Writes
  <2>4. s = t
    BY <1>10, <2>1, <2>3 DEF OnePathOneOwner, RowsAfter
  <2>5. plan[j] = op
    BY <1>1, <1>10, <2>3, <2>4 DEF PlanOK
  <2>6. PICK q \in Staged(op) : o = PlannedOp(Dest(op, q), M(op).files[q])
    BY <1>11, <2>5 DEF Writes
  <2>7. q \in EtcPath \/ ~Preserved(op, q)
    BY DEF Preserved, Modified
  <2>8. Dest(op, q) = p
    BY <2>6 DEF PlannedOp
  <2>9. q = p
    BY <1>5, <2>7, <2>8 DEF Dest
  <2>10. Preserved(op, p)
    BY <1>8, <2>9 DEF Staged
  <2> QED
    BY <1>5, <1>2, <2>8, <2>9, <2>10 DEF Dest
<1>12. CASE Retires(plan[j], o) \/ Removes(plan[j], o, opt)
  <2>1. PICK s \in rows : /\ s.pkg = plan[j].pkg /\ s.path = o.path
                          /\ plan[j].kind # "remove" => o.path \notin Paths(plan[j])
    BY <1>12, DroppedFacts
  <2>2. j = i
    BY <1>1, <1>9, <2>1 DEF PlanOK
  <2>3. p \in Paths(op)
    BY DEF Paths
  <2> QED
    BY <2>1, <2>2, <2>3
<1> QED
  BY <1>1, <1>11, <1>12, PackageOpForm

(* The removal of a package whose file is edited: its own operation keeps  *)
(* the file, and no other package that stays writes there.                 *)
LEMMA RemovalCareful ==
  ASSUME EInv, SiblingsApart,
         NEW plan, NEW opt, NEW who, NEW want, Cleared(plan, opt, who, want),
         NEW r \in rows, Modified(r),
         NEW i \in DOMAIN plan, plan[i].pkg = r.pkg, plan[i].kind = "remove",
         \A op \in Forward(plan) : r.path \notin DOMAIN M(op).files,
         NEW j \in DOMAIN plan, NEW o \in Booked(plan, j, opt, want), o.path = r.path
  PROVE  o.keep \/ o.entry = disk[r.path]
<1> DEFINE p == r.path
<1>1. /\ plan[j] \in Operation /\ Legal(plan[j]) /\ PlanOK(plan)
      /\ o \in StagedOps(plan[j], opt)
  BY DEF Cleared, PlanOK, Booked, Settled
<1>2. Shapes /\ OnePathOneOwner(rows) /\ r.kind = "file" /\ p \in EtcPath /\ p \in Path
  BY StagingAssumption DEF EInv, IInv, TInv, Modified
<1>3. \A q \in Path : \A s, t \in rows : s.path = q /\ t.path = q => s = t
  <2> SUFFICES ASSUME NEW q \in Path, NEW s \in rows, NEW t \in rows, s.path = q, t.path = q
               PROVE  s = t
    OBVIOUS
  <2>1. s.kind # "dir" /\ t.kind # "dir"
    BY <1>2, PathRow DEF Shapes
  <2> QED
    BY <1>2, <2>1 DEF OnePathOneOwner
<1>4. CASE Writes(plan[j], o)
  <2> DEFINE op == plan[j]
  <2>1. op \in Forward(plan) /\ op.kind # "remove"
    BY <1>4 DEF Writes, Forward
  <2>2. PICK q \in Staged(op) : o = PlannedOp(Dest(op, q), M(op).files[q])
    BY <1>4 DEF Writes
  <2>3. Dest(op, q) = p /\ q \in DOMAIN M(op).files
    BY <2>2 DEF PlannedOp, Staged
  <2>4. q # p /\ Preserved(op, q) /\ NewName[q] = p
    BY <2>1, <2>3 DEF Dest
  <2>5. PICK s \in rows : s.pkg = op.pkg /\ s.path = q /\ q \in EtcPath
    BY <2>4 DEF Preserved, Prior, Modified
  <2>6. op.pkg \in Pkg /\ Ships(op.pkg, q)
    BY <1>1, <2>1, <2>3, OperationFacts DEF Ships, M
  <2>7. r.pkg \in Pkg /\ ~Ships(r.pkg, p)
    BY <1>2, <2>4, <2>5 DEF SiblingsApart, Shapes, RowOK
  <2>8. PICK x \in EtcPath : /\ p = NewName[x] /\ Ships(r.pkg, x)
                             /\ \E t \in rows : t.pkg = r.pkg /\ t.path = x
    BY <1>2, <2>7 DEF EInv, FromPayload, Ships
  <2>9. x = q
    BY <2>4, <2>5, <2>6, <2>7, <2>8 DEF SiblingsApart
  <2>10. op.pkg = r.pkg
    BY <1>3, <2>5, <2>8, <2>9, StagingAssumption
  <2> QED
    BY <1>1, <2>1, <2>10 DEF PlanOK
<1>5. CASE Retires(plan[j], o) \/ Removes(plan[j], o, opt)
  <2>1. PICK s \in rows : s.pkg = plan[j].pkg /\ s.path = o.path
    BY <1>5, DroppedFacts
  <2>2. j = i
    BY <1>1, <1>2, <1>3, <2>1 DEF PlanOK
  <2>3. PICK u \in Mine(plan[i]) : o = Drop(u.path, Modified(u))
    BY <1>5, <2>2 DEF Retires, Removes
  <2>4. u.path = p /\ u \in rows
    BY <2>3 DEF Drop, Mine
  <2>5. u = r
    BY <1>2, <1>3, <2>4
  <2> QED
    BY <2>3, <2>5 DEF Drop
<1> QED
  BY <1>1, <1>4, <1>5, PackageOpForm

LEMMA ClearedIsCareful ==
  ASSUME EInv, SiblingsApart, EtcUnclaimed, EtcStaysFile,
         NEW plan, NEW opt, NEW who, NEW want, Cleared(plan, opt, who, want),
         NEW w, w.plan = plan, w.rows = Filed(plan), w.ops = AllOps(plan, opt, want)
  PROVE  Careful(w)
<1> SUFFICES ASSUME OnePathOneOwner(RowsAfter(plan, Filed(plan))),
                    NEW r \in rows, Modified(r), Theirs(w, r),
                    NEW o \in AllOps(plan, opt, want), o.path = r.path
             PROVE  o.keep \/ o.entry = disk[r.path]
  BY DEF Careful
<1>1. r.path \in EtcPath
  BY DEF Modified
<1>2. o \notin ClaimOps(want)
  BY <1>1, ClaimOpsElsewhere DEF EInv, IInv
<1>3. PICK j \in DOMAIN plan : o \in Booked(plan, j, opt, want)
  BY <1>2, OpOrigin
<1>4. PICK i \in DOMAIN plan :
         /\ plan[i].pkg = r.pkg
         /\ IF plan[i].kind = "remove"
            THEN \A op \in Forward(plan) : r.path \notin DOMAIN M(op).files
            ELSE r.path \in DOMAIN M(plan[i]).files
  BY DEF Theirs
<1>5. CASE plan[i].kind = "remove"
  BY <1>3, <1>4, <1>5, RemovalCareful
<1>6. CASE plan[i].kind # "remove"
  BY <1>3, <1>4, <1>6, UpgradeCareful
<1> QED
  BY <1>5, <1>6

LEMMA CarefulFrame ==
  ASSUME UNCHANGED <<disk, rows>>, NEW w, work' = w, Careful(w)
  PROVE  Careful(work)'
BY DEF Careful, Theirs, Modified, Recorded, RowsAfter, OnePathOneOwner

LEMMA StageCareful ==
  ASSUME EInv, SiblingsApart, EtcUnclaimed, EtcStaysFile, IInv',
         NEW plan, NEW opt, NEW who, NEW want, Cleared(plan, opt, who, want),
         NEW noted, NEW asked,
         Stage(plan, AllOps(plan, opt, want), Filed(plan), noted, who, want, asked),
         UNCHANGED <<disk, kept, rows, installed, holder, links, index, edited>>
  PROVE  EInv'
<1>1. PICK w : work' = w
  OBVIOUS
<1>2. w.plan = plan /\ w.ops = AllOps(plan, opt, want) /\ w.rows = Filed(plan)
  BY <1>1 DEF Stage
<1>3. Careful(work)'
  BY <1>1, <1>2, ClearedIsCareful, CarefulFrame
<1>4. /\ FromPayload(Filed(plan)) /\ Present(Filed(plan), After(plan))
      /\ \A r \in Filed(plan) : r.pkg \in Touched(plan)
  BY FiledFromPayload DEF EInv, IInv, TInv, Cleared
<1>5. After(plan)' = After(plan)
  BY DEF After
<1>6. (FromPayload(rows) /\ Present(rows, installed))'
  BY DEF EInv
<1>7. (/\ FromPayload(work.rows) /\ Present(work.rows, After(work.plan))
       /\ \A r \in work.rows : r.pkg \in Touched(work.plan))'
  <2> DEFINE filed == Filed(plan)
  <2>1. work'.rows = filed /\ work'.plan = plan
    BY <1>1, <1>2
  <2>2. FromPayload(filed) /\ Present(filed, After(plan)) /\ \A r \in filed : r.pkg \in Touched(plan)
    BY <1>4
  <2> HIDE DEF filed
  <2>3. FromPayload(work.rows)'
    BY <2>1, <2>2 DEF FromPayload
  <2>4. After(work.plan)' = After(plan)
    BY <2>1 DEF After
  <2>5. Present(work.rows, After(work.plan))'
    BY <2>1, <2>2, <2>4 DEF Present
  <2>6. (\A r \in work.rows : r.pkg \in Touched(work.plan))'
    BY <2>1, <2>2 DEF Touched
  <2> QED BY <2>3, <2>5, <2>6
<1> QED
  BY <1>3, <1>6, <1>7 DEF EInv

LEMMA PrepareCareful ==
  ASSUME EInv, SiblingsApart, EtcUnclaimed, EtcStaysFile, IInv',
         NEW plan \in Plans, NEW opt \in Options, Prepare(plan, opt)
  PROVE  EInv'
<1> DEFINE who == PostHolder(plan, opt)
           want == Desired(After(plan), who)
           asked == IF opt.claim = "all" THEN Role ELSE opt.roles
           noted == UNION {{p \in DOMAIN M(op).files : Preserved(op, p)} : op \in Forward(plan)}
<1>1. PlanOK(plan) /\ who \in Holders
  BY PlansAreOK, PostHolderFacts DEF EInv, IInv, TInv, Shapes
<1>2. Cleared(plan, opt, who, want)
  BY <1>1 DEF Prepare, ClaimsRefused, ClaimsConflict, PackagesRefused, Cleared
<1>3. /\ Stage(plan, AllOps(plan, opt, want), Filed(plan), noted, who, want, asked)
      /\ UNCHANGED <<disk, kept, rows, installed, holder, links, index, edited>>
  BY DEF Prepare, Filed
<1> HIDE DEF who, want, asked, noted
<1> QED
  BY <1>2, <1>3, StageCareful

LEMMA ClaimCareful ==
  ASSUME EInv, SiblingsApart, EtcUnclaimed, EtcStaysFile, IInv',
         NEW role \in Role, NEW pkg \in Pkg \cup {None}, ClaimChange(role, pkg)
  PROVE  EInv'
<1> DEFINE who == Regrant(role, pkg)
           want == Desired(installed, who)
<1>1. who \in Holders
  BY RegrantFacts DEF EInv, IInv, TInv, Shapes
<1>2. /\ PlanOK(<<>>) /\ After(<<>>) = installed /\ Forward(<<>>) = {}
      /\ AllOps(<<>>, ClaimFlags, want) = ClaimOps(want)
      /\ Filed(<<>>) = {}
      /\ ~DoubleBooked(<<>>, ClaimFlags, want)
  BY NoPlan DEF EInv, IInv, TInv, Shapes, Filed
<1>3. /\ ~Overclaimed(installed, who) /\ \A l \in want : l.path \notin PostOwned(<<>>)
      /\ Stage(<<>>, ClaimOps(want), {}, {}, who, want, {role})
      /\ UNCHANGED <<disk, kept, rows, installed, holder, links, index, edited>>
  BY DEF ClaimChange, ClaimsRefused, ClaimsConflict
<1>4. Cleared(<<>>, ClaimFlags, who, want)
  BY <1>1, <1>2, <1>3 DEF Cleared
<1> HIDE DEF who, want
<1>5. Stage(<<>>, AllOps(<<>>, ClaimFlags, want), Filed(<<>>), {}, who, want, {role})
  BY <1>2, <1>3
<1> QED
  BY <1>3, <1>4, <1>5, StageCareful

(* Rows that stay and rows that come: both are of what is shipped.         *)
LEMMA PayloadJoin ==
  ASSUME NEW A, NEW B, NEW T, FromPayload(A), FromPayload(B)
  PROVE  FromPayload({r \in A : r.pkg \notin T} \cup B)
<1> DEFINE C == {r \in A : r.pkg \notin T} \cup B
           Shipped(r) == \E v \in DOMAIN Manifest[r.pkg] :
                           /\ r.path \in DOMAIN Manifest[r.pkg][v].files
                           /\ r.kind = "file" => Manifest[r.pkg][v].files[r.path].kind = "file"
           Beside(r, S) == \E x \in EtcPath : /\ r.path = NewName[x] /\ Ships(r.pkg, x)
                                             /\ \E s \in S : s.pkg = r.pkg /\ s.path = x
<1>1. \A S : FromPayload(S) <=> \A r \in S : r.kind # "dir" => Shipped(r) \/ Beside(r, S)
  BY DEF FromPayload
<1>2. \A r \in A : r.pkg \notin T /\ Beside(r, A) => Beside(r, C)
  OBVIOUS
<1>3. \A r \in B : Beside(r, B) => Beside(r, C)
  OBVIOUS
<1> HIDE DEF Shipped, Beside
<1>4. \A r \in C : r.kind # "dir" => Shipped(r) \/ Beside(r, C)
  BY <1>1, <1>2, <1>3
<1> QED
  BY <1>1, <1>4

LEMMA CommitCareful ==
  ASSUME EInv, Commit, IInv'
  PROVE  EInv'
<1>1. /\ rows' = {r \in rows : r.pkg \notin Touched(work.plan)} \cup work.rows
      /\ installed' = After(work.plan) /\ work' = None
  BY DEF Commit, RowsAfter
<1>2. FromPayload(rows')
  <2>1. FromPayload(rows) /\ FromPayload(work.rows)
    BY DEF EInv, Commit
  <2>2. FromPayload({r \in rows : r.pkg \notin Touched(work.plan)} \cup work.rows)
    BY <2>1, PayloadJoin
  <2> QED
    BY <1>1, <2>2
<1>3. Present(rows', installed')
  <2>1. \A r \in rows : r.pkg \notin Touched(work.plan) => After(work.plan)[r.pkg] = installed[r.pkg]
    BY DEF EInv, IInv, TInv, Shapes, RowOK, After, Touched
  <2> QED
    BY <1>1, <2>1 DEF EInv, Present, Commit
<1> QED
  BY <1>1, <1>2, <1>3 DEF EInv, FromPayload, Present

(* Every other step leaves rows and versions alone.                        *)
LEMMA QuietCareful ==
  ASSUME EInv, IInv', UNCHANGED <<rows, installed>>,
         work' = None \/ UNCHANGED <<disk, work>>
  PROVE  EInv'
<1>1. (FromPayload(rows) /\ Present(rows, installed))'
  BY DEF EInv
<1>2. (work # None =>
         /\ FromPayload(work.rows) /\ Present(work.rows, After(work.plan))
         /\ \A r \in work.rows : r.pkg \in Touched(work.plan)
         /\ Careful(work))'
  <2>1. CASE work' # None
    <3>1. UNCHANGED <<disk, work, rows, installed>>
      BY <2>1
    <3>2. work # None
      BY <2>1, <3>1
    <3>3. Careful(work)'
      BY <3>1, <3>2, CarefulFrame DEF EInv
    <3>4. FromPayload(work.rows)'
      BY <3>1, <3>2 DEF EInv
    <3>5. After(work.plan)' = After(work.plan)
      BY <3>1 DEF After
    <3>6. Present(work.rows, After(work.plan))'
      BY <3>1, <3>2, <3>5 DEF EInv
    <3>7. (\A r \in work.rows : r.pkg \in Touched(work.plan))'
      BY <3>1, <3>2 DEF EInv, Touched
    <3> QED
      BY <3>3, <3>4, <3>6, <3>7
  <2> QED
    BY <2>1
<1> QED
  BY <1>1, <1>2 DEF EInv

LEMMA NextCareful ==
  ASSUME EInv, SiblingsUnclaimed, SiblingsApart, EtcUnclaimed, EtcStaysFile, ~Racing, [Next]_vars
  PROVE  EInv'
<1>1. IInv'
  BY NextAgrees DEF EInv
<1>2. ASSUME NEW plan \in Plans, NEW opt \in Options, Prepare(plan, opt) \/ Abandon(plan, opt)
      PROVE  EInv'
  BY <1>1, <1>2, PrepareCareful, QuietCareful DEF Abandon
<1>3. ASSUME NEW role \in Role, Revoke(role)
      PROVE  EInv'
  BY <1>1, <1>3, ClaimCareful DEF Revoke
<1>4. ASSUME NEW role \in Role, NEW p \in Pkg, Grant(role, p)
      PROVE  EInv'
  BY <1>1, <1>4, ClaimCareful, QuietCareful DEF Grant, ClaimAbandoned
<1>5. CASE Commit
  BY <1>1, <1>5, CommitCareful
<1>6. CASE RollBack
  BY <1>1, <1>6, QuietCareful DEF RollBack
<1>7. ASSUME NEW p, NEW e, OperatorActs(p, e)
      PROVE  EInv'
  BY <1>1, <1>7, QuietCareful DEF OperatorActs
<1>8. CASE UNCHANGED vars
  BY <1>1, <1>8, QuietCareful DEF vars
<1> QED
  BY <1>2, <1>3, <1>4, <1>5, <1>6, <1>7, <1>8 DEF Next

(* An edited /etc file survives the upgrade of its package to a version    *)
(* that ships it, and the removal of its package when no other takes the   *)
(* path (preparePackage, stageRemoval).                                    *)
THEOREM EditsStay ==
  ASSUME SiblingsUnclaimed, SiblingsApart, EtcUnclaimed, EtcStaysFile, ~Racing
  PROVE  Spec => EditsKept
<1>1. Init => EInv
  BY InitAgrees DEF Init, EInv, FromPayload, Present
<1>2. EInv /\ [Next]_vars => EInv'
  BY NextCareful
<1>3. EInv /\ [Next]_vars =>
        [Settling => \A r \in rows : Modified(r) /\ StillTheirs(r) => Survives(r.path)]_vars
  <2> SUFFICES ASSUME EInv, Next, Settling, NEW r \in rows, Modified(r), StillTheirs(r)
               PROVE  Survives(r.path)
    BY DEF vars
  <2>1. Commit \/ RollBack
    BY DEF Next, Settling, Prepare, Abandon, Revoke, Grant, ClaimChange, ClaimAbandoned, OperatorActs
  <2>2. CASE RollBack
    BY <2>2, RollBackDisk DEF Survives, EInv
  <2>3. CASE Commit
    <3>1. /\ WorkShapes(work) /\ Careful(work) /\ disk' = DiskAfter(work.ops)
          /\ OnePathOneOwner(RowsAfter(work.plan, work.rows))
          /\ kept' = kept \cup {<<o.path, disk[o.path]>> :
                                  o \in {x \in work.ops : x.keep /\ disk[x.path] # Absent}}
      BY <2>3 DEF EInv, IInv, TInv, Commit
    <3>2. r.path \in Path /\ disk[r.path] # Absent /\ Theirs(work, r)
      BY StagingAssumption DEF Modified, StillTheirs, Theirs
    <3>3. ASSUME NEW o \in work.ops, o.path = r.path
          PROVE  Survives(r.path)
      <4>1. o.keep \/ o.entry = disk[r.path]
        BY <3>1, <3>2, <3>3 DEF Careful
      <4>2. disk'[r.path] = o.entry
        BY <3>1, <3>2, <3>3, DiskAfterFacts DEF WorkShapes
      <4> QED
        BY <3>1, <3>2, <3>3, <4>1, <4>2 DEF Survives
    <3>4. ASSUME \A o \in work.ops : o.path # r.path
          PROVE  Survives(r.path)
      BY <3>1, <3>2, <3>4, DiskAfterFacts DEF WorkShapes, Survives
    <3> QED
      BY <3>3, <3>4
  <2> QED
    BY <2>1, <2>2, <2>3
<1> QED
  BY <1>1, <1>2, <1>3, PTL DEF Spec, EditsKept
=============================================================================
