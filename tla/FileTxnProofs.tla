--------------------------- MODULE FileTxnProofs ---------------------------
(* Proofs about FileTxn, for any paths, contents, plans and bounds: any    *)
(* number of transactions, of operations in one, of kills, of failing      *)
(* calls and of edits by the operator.                                     *)
EXTENDS FileTxn, TLAPS

-----------------------------------------------------------------------------
(* Types.                                                                  *)

(* TypeOK in parts, and where a running phase may be.                      *)
DiskTypes == base \in [Path -> File] /\ staged \in [Stem -> File] /\ backup \in [Stem -> File]
RecordTypes ==
  /\ record \in [Path -> File] /\ state \in {"none", "pending", "committed", "rolled-back"}
  /\ rows \in Seq(Row)
HistTypes == plan \in Seq(FileOp) /\ before \in [Path -> File] /\ edited \subseteq Path
BoundTypes ==
  /\ txns \in 0 .. MaxTxn /\ crashes \in 0 .. MaxCrash /\ faults \in 0 .. MaxFault
  /\ edits \in 0 .. MaxEdit
Forward == {"journal", "stage", "apply", "commit", "discard"}
ProcTypes ==
  /\ pc \in {"idle", "ready", "undo"} \cup Forward
  /\ ops \in Seq(FileOp)
  /\ pos \in 0 .. Len(ops) + 1 /\ half \in 0 .. 2 /\ undoFailed \in BOOLEAN
  /\ pc \in Forward => pos > 0
  /\ pc = "undo" => pos <= Len(ops)
TInv == DiskTypes /\ RecordTypes /\ HistTypes /\ BoundTypes /\ ProcTypes

LEMMA TypesInParts == TInv => TypeOK
BY DEF TInv, DiskTypes, RecordTypes, HistTypes, BoundTypes, ProcTypes, Forward, TypeOK

LEMMA OpTyped ==
  ASSUME TInv, pos \in 1 .. Len(ops)
  PROVE  /\ ops[pos] \in FileOp /\ ops[pos].path \in Path /\ ops[pos].new \in File
         /\ ops[pos].action \in Action
         /\ stem[ops[pos].path] \in Stem
         /\ staged[stem[ops[pos].path]] \in File
         /\ backup[stem[ops[pos].path]] \in File
         /\ base[ops[pos].path] \in File
         /\ journalRow(ops[pos]) \in Row
<1>1. ops[pos] \in FileOp
  BY DEF TInv, DiskTypes, ProcTypes, BoundTypes, RecordTypes, HistTypes
<1>2. ops[pos].path \in Path /\ ops[pos].new \in File /\ ops[pos].action \in Action
  BY <1>1 DEF FileOp
<1>3. stem[ops[pos].path] \in Stem
  BY <1>2, ConstantsAssumption
<1>4. journalRow(ops[pos]) \in Row
  BY <1>2 DEF journalRow, Row, txnFileAction, Action
<1> QED
  BY <1>1, <1>2, <1>3, <1>4 DEF TInv, DiskTypes, ProcTypes, BoundTypes, RecordTypes, HistTypes

LEMMA FromJournalTyped ==
  ASSUME rows \in Seq(Row)
  PROVE  fileOpsFromJournal \in Seq(FileOp) /\ Len(fileOpsFromJournal) = Len(rows)
<1>1. Len(rows) \in Nat /\ \A i \in 1 .. Len(rows) : rows[i] \in Row
  OBVIOUS
<1>2. \A i \in 1 .. Len(rows) :
        [path |-> rows[i].path, action |-> rows[i].action, new |-> Absent, keep |-> FALSE] \in FileOp
  BY <1>1 DEF Row, FileOp, File, Action
<1> QED
  BY <1>1, <1>2 DEF fileOpsFromJournal

LEMMA PlanTyped ==
  ASSUME NEW list \in Plans
  PROVE  /\ list \in Seq(FileOp) /\ Len(list) \in Nat
         /\ \A i \in 1 .. Len(list) :
              /\ list[i] \in FileOp /\ list[i].path \in Path /\ list[i].action \in Action
              /\ (list[i].new = Absent) <=> (list[i].action = "remove")
              /\ list[i].action = "swap" => list[i].path \in ClaimPath
<1>1. list \in Seq(FileOp)
  BY ConstantsAssumption
<1>2. \A i \in 1 .. Len(list) : list[i] \in FileOp
  BY <1>1
<1> QED
  BY <1>1, <1>2, ConstantsAssumption DEF FileOp

LEMMA RecordedTyped ==
  ASSUME NEW list \in Seq(FileOp), NEW rec \in [Path -> File]
  PROVE  Recorded(list, rec) \in [Path -> File]
<1> SUFFICES ASSUME NEW p \in Path
             PROVE  Recorded(list, rec)[p] \in File
  BY DEF Recorded
<1>1. CASE \E i \in 1 .. Len(list) : list[i].path = p
  <2> DEFINE i == CHOOSE i \in 1 .. Len(list) : list[i].path = p
  <2>1. i \in 1 .. Len(list)
    BY <1>1
  <2>2. list[i] \in FileOp
    BY <2>1
  <2> QED
    BY <1>1, <2>2 DEF Recorded, FileOp
<1>2. CASE ~ \E i \in 1 .. Len(list) : list[i].path = p
  BY <1>2 DEF Recorded
<1> QED
  BY <1>1, <1>2

(* What a step of an operation does to the three places is typed.          *)
LEMMA DiskTyped ==
  ASSUME TInv, pos \in 1 .. Len(ops), commitOp(ops[pos]) \/ rollbackOp(ops[pos])
  PROVE  /\ base' \in [Path -> File] /\ staged' \in [Stem -> File] /\ backup' \in [Stem -> File]
         /\ half' \in 0 .. 2
         /\ \/ commitOp(ops[pos]) /\ pos' \in {pos, pos + 1}
            \/ rollbackOp(ops[pos]) /\ pos' \in {pos, pos - 1}
<1> DEFINE op == ops[pos]
<1>1. /\ base \in [Path -> File] /\ staged \in [Stem -> File] /\ backup \in [Stem -> File]
      /\ pos \in Nat /\ Absent \in File
  BY DEF TInv, DiskTypes, ProcTypes, BoundTypes, RecordTypes, HistTypes, File
<1>2. /\ op.path \in Path /\ stem[op.path] \in Stem
      /\ staged[stem[op.path]] \in File /\ backup[stem[op.path]] \in File /\ base[op.path] \in File
  BY OpTyped
<1> HIDE DEF op
<1>3. ASSUME commitOp(op)
      PROVE  /\ base' \in [Path -> File] /\ staged' \in [Stem -> File] /\ backup' \in [Stem -> File]
             /\ half' \in 0 .. 2 /\ pos' \in {pos, pos + 1}
  <2>1. CASE commitCreate(op)
    BY <1>1, <1>2, <2>1 DEF commitCreate, InstallStaged, NextOp
  <2>2. CASE commitReplace(op)
    BY <1>1, <1>2, <2>2 DEF commitReplace, BackUp, InstallStaged, NextOp, SameOp
  <2>3. CASE commitRemove(op)
    BY <1>1, <1>2, <2>3 DEF commitRemove, BackUp, NextOp, disk
  <2>4. CASE commitSwap(op)
    BY <1>1, <1>2, <2>4 DEF commitSwap, Exchange, SetAside, NextOp, SameOp
  <2> QED
    BY <1>3, <2>1, <2>2, <2>3, <2>4 DEF commitOp
<1>4. ASSUME rollbackOp(op)
      PROVE  /\ base' \in [Path -> File] /\ staged' \in [Stem -> File] /\ backup' \in [Stem -> File]
             /\ half' \in 0 .. 2 /\ pos' \in {pos, pos - 1}
  <2>1. CASE rollbackCreate(op)
    BY <1>1, <1>2, <2>1 DEF rollbackCreate, RemoveBase, RemoveStaged, PrevOp, SameOp
  <2>2. CASE rollbackDisplaced(op)
    BY <1>1, <1>2, <2>2
    DEF rollbackDisplaced, RemoveBase, RemoveStaged, RestoreBackup, AfterRestore, PrevOp, SameOp, disk
  <2> QED
    BY <1>4, <2>1, <2>2 DEF rollbackOp
<1> QED
  BY <1>3, <1>4 DEF op

(* The frame of each part, and where Goto leads.                           *)
LEMMA Frames ==
  ASSUME TInv
  PROVE  /\ UNCHANGED disk => DiskTypes'
         /\ UNCHANGED <<record, state, rows>> => RecordTypes'
         /\ UNCHANGED <<plan, before, edited>> => HistTypes'
         /\ UNCHANGED bounds => BoundTypes'
         /\ Fault => BoundTypes'
         /\ UNCHANGED proc => ProcTypes'
<1>1. UNCHANGED disk => DiskTypes'
  BY DEF TInv, disk, DiskTypes
<1>2. UNCHANGED <<record, state, rows>> => RecordTypes'
  BY DEF TInv, RecordTypes
<1>3. UNCHANGED <<plan, before, edited>> => HistTypes'
  BY DEF TInv, HistTypes
<1>4. (UNCHANGED bounds \/ Fault) => BoundTypes'
  BY ConstantsAssumption DEF TInv, bounds, BoundTypes, Fault
<1>5. UNCHANGED proc => ProcTypes'
  BY DEF TInv, proc, ProcTypes
<1> QED
  BY <1>1, <1>2, <1>3, <1>4, <1>5

LEMMA GotoTyped ==
  ASSUME NEW phase \in {"idle", "ready", "undo"} \cup Forward, NEW list \in Seq(FileOp), NEW at,
         at \in 0 .. Len(list) + 1, phase \in Forward => at > 0, phase = "undo" => at <= Len(list),
         Goto(phase, list, at)
  PROVE  ProcTypes'
<1>1. undoFailed' \in BOOLEAN
  BY Zenon DEF Goto
<1>2. /\ pc' \in {"idle", "ready", "undo"} \cup Forward /\ ops' \in Seq(FileOp)
      /\ pos' \in 0 .. Len(ops') + 1 /\ half' \in 0 .. 2
      /\ (pc' \in Forward => pos' > 0) /\ (pc' = "undo" => pos' <= Len(ops'))
  BY DEF Goto
<1> QED
  BY <1>1, <1>2 DEF ProcTypes

LEMMA LeaveTyped == Leave => ProcTypes'
<1>1. <<>> \in Seq(FileOp) /\ 0 \in 0 .. Len(<<>>) + 1 /\ "idle" \notin Forward
  BY DEF Forward
<1> QED
  BY <1>1, GotoTyped DEF Leave

(* Every step keeps the types.                                             *)
LEMMA NextTyped ==
  ASSUME TInv, [Next]_vars
  PROVE  TInv'
<1>1. /\ ops \in Seq(FileOp) /\ Len(ops) \in Nat /\ rows \in Seq(Row) /\ Len(rows) \in Nat
      /\ pos \in Nat /\ Len(ops) \in 0 .. Len(ops) + 1 /\ 1 \in 0 .. Len(ops) + 1
  BY DEF TInv, RecordTypes, ProcTypes
<1>2. Empty \in [Stem -> File]
  BY DEF Empty, File
<1>3. CASE UNCHANGED vars
  BY <1>3, Frames DEF vars, TInv, bounds, disk, hist, proc
<1>4. CASE Execute
  <2>1. ProcTypes'
    <3>1. CASE Pending
      <4>1. Goto("undo", fileOpsFromJournal, Len(rows))
        BY <1>4, <3>1 DEF Execute
      <4>2. "undo" \notin Forward
        BY DEF Forward
      <4> QED
        BY <1>1, <4>1, <4>2, FromJournalTyped, GotoTyped
    <3>2. CASE ~Pending
      <4>1. Goto("ready", <<>>, 0)
        BY <1>4, <3>2 DEF Execute
      <4>2. "ready" \notin Forward /\ <<>> \in Seq(FileOp) /\ 0 \in 0 .. Len(<<>>) + 1
        BY DEF Forward
      <4> QED
        BY <4>1, <4>2, GotoTyped
    <3> QED
      BY <3>1, <3>2
  <2> QED
    BY <1>4, <2>1, Frames DEF Execute, TInv, hist
<1>5. ASSUME NEW list \in Plans, Begin(list)
      PROVE  TInv'
  <2>1. ProcTypes'
    BY <1>5, PlanTyped, GotoTyped DEF Begin, Forward
  <2>2. DiskTypes'
    BY <1>2, <1>5 DEF Begin, TInv, DiskTypes
  <2>3. RecordTypes' /\ HistTypes'
    BY <1>5, PlanTyped DEF Begin, TInv, RecordTypes, HistTypes, DiskTypes
  <2>4. BoundTypes'
    BY <1>5, ConstantsAssumption DEF Begin, TInv, BoundTypes
  <2> QED
    BY <2>1, <2>2, <2>3, <2>4 DEF TInv
<1>6. CASE Decline
  BY <1>6, Frames, LeaveTyped DEF Decline, TInv, hist
<1>7. CASE writeJournal
  <2>1. pos \in 1 .. Len(ops)
    BY <1>1, <1>7 DEF writeJournal, TInv, ProcTypes, Forward
  <2>2. journalRow(ops[pos]) \in Row
    BY <2>1, OpTyped
  <2>3. RecordTypes'
    BY <1>1, <1>7, <2>2 DEF writeJournal, TInv, RecordTypes
  <2>4. ProcTypes'
    BY <1>1, <1>7, <2>1 DEF writeJournal, TInv, ProcTypes
  <2> QED
    BY <1>7, <2>3, <2>4, Frames DEF writeJournal, TInv, hist
<1>8. CASE journalWritten \/ materialized \/ applied
  <2>1. \E phase \in Forward : Goto(phase, ops, 1)
    BY <1>8 DEF journalWritten, materialized, applied, Forward
  <2>2. ProcTypes'
    BY <1>1, <2>1, GotoTyped DEF Forward
  <2> QED
    BY <1>8, <2>2, Frames DEF journalWritten, materialized, applied, TInv, hist
<1>9. CASE materialize
  <2>1. pos \in 1 .. Len(ops)
    BY <1>1, <1>9 DEF materialize, TInv, ProcTypes, Forward
  <2>2. ops[pos].new \in File
    BY <2>1, OpTyped
  <2>3. DiskTypes'
    BY <1>9, <2>2 DEF materialize, TInv, DiskTypes
  <2>4. ProcTypes'
    BY <1>1, <1>9, <2>1 DEF materialize, TInv, ProcTypes
  <2> QED
    BY <1>9, <2>3, <2>4, Frames DEF materialize, TInv, hist
<1>10. CASE commitOps
  <2>1. pos \in 1 .. Len(ops) /\ commitOp(ops[pos])
    BY <1>1, <1>10 DEF commitOps, TInv, ProcTypes, Forward
  <2>2. DiskTypes' /\ half' \in 0 .. 2
    BY <2>1, DiskTyped DEF DiskTypes
  <2>3. pos' \in {pos, pos + 1}
    BY <2>1 DEF commitOp, commitCreate, commitReplace, commitRemove, commitSwap, NextOp, SameOp
  <2>4. ProcTypes'
    BY <1>1, <1>10, <2>1, <2>2, <2>3 DEF commitOps, TInv, ProcTypes, Forward
  <2> QED
    BY <1>10, <2>2, <2>4, Frames DEF commitOps, TInv, hist
<1>11. CASE commitTxn
  <2>1. record' \in [Path -> File]
    BY <1>1, <1>11, RecordedTyped DEF commitTxn, TInv, RecordTypes
  <2>2. ProcTypes'
    BY <1>1, <1>11, GotoTyped DEF commitTxn, Forward
  <2>3. RecordTypes' /\ HistTypes'
    BY <1>11, <2>1 DEF commitTxn, TInv, RecordTypes, HistTypes, hist
  <2> QED
    BY <1>11, <2>2, <2>3, Frames DEF commitTxn, TInv
<1>12. CASE discardBackups \/ discardFails
  <2>1. DiskTypes'
    BY <1>12 DEF discardBackups, discardFails, TInv, DiskTypes, File, disk
  <2>2. ProcTypes'
    BY <1>1, <1>12 DEF discardBackups, discardFails, TInv, ProcTypes
  <2> QED
    BY <1>12, <2>1, <2>2, Frames DEF discardBackups, discardFails, TInv, hist
<1>13. CASE abandon
  <2>1. staged' \in [Stem -> File]
    <3>1. CASE UNCHANGED staged
      BY <3>1 DEF TInv, DiskTypes
    <3>2. CASE ~UNCHANGED staged
      <4>1. /\ pc = "stage" /\ pos <= Len(ops)
            /\ staged' = [staged EXCEPT ![stem[ops[pos].path]] = ops[pos].new]
        BY <1>13, <3>2 DEF abandon
      <4>2. ops[pos].new \in File
        BY <1>1, <4>1, OpTyped DEF TInv, ProcTypes, Forward
      <4> QED
        BY <4>1, <4>2 DEF TInv, DiskTypes
    <3> QED
      BY <3>1, <3>2
  <2>2. DiskTypes'
    BY <1>13, <2>1 DEF abandon, TInv, DiskTypes
  <2>3. ProcTypes'
    <3>1. "undo" \notin Forward
      BY DEF Forward
    <3> QED
      BY <1>1, <1>13, <3>1, GotoTyped DEF abandon, StartUndo
  <2>4. BoundTypes'
    BY <1>13, Frames DEF abandon
  <2> QED
    BY <1>13, <2>2, <2>3, <2>4, Frames DEF abandon, TInv, hist
<1>14. CASE rollbackOps
  <2>1. pos \in 1 .. Len(ops) /\ rollbackOp(ops[pos])
    BY <1>1, <1>14 DEF rollbackOps, TInv, ProcTypes
  <2>2. DiskTypes' /\ half' \in 0 .. 2
    BY <2>1, DiskTyped DEF DiskTypes
  <2>3. pos' \in {pos, pos - 1}
    BY <2>1 DEF rollbackOp, rollbackCreate, rollbackDisplaced, AfterRestore, PrevOp, SameOp
  <2>4. ProcTypes'
    BY <1>1, <1>14, <2>1, <2>2, <2>3 DEF rollbackOps, TInv, ProcTypes, Forward
  <2> QED
    BY <1>14, <2>2, <2>4, Frames DEF rollbackOps, TInv, hist
<1>15. CASE rollbackOpFails
  <2>1. ProcTypes'
    BY <1>1, <1>15 DEF rollbackOpFails, PrevOp, TInv, ProcTypes, Forward
  <2> QED
    BY <1>15, <2>1, Frames DEF rollbackOpFails, TInv, hist
<1>16. CASE finishRolledBack \/ finishFails
  <2>1. RecordTypes'
    BY <1>16 DEF finishRolledBack, finishFails, TInv, RecordTypes
  <2>2. ProcTypes' /\ BoundTypes'
    BY <1>16, LeaveTyped, Frames DEF finishRolledBack, finishFails
  <2> QED
    BY <1>16, <2>1, <2>2, Frames DEF finishRolledBack, finishFails, TInv, hist
<1>17. CASE finished
  BY <1>17, Frames, LeaveTyped DEF finished, TInv, hist
<1>18. CASE Crash
  <2>1. BoundTypes'
    BY <1>18, ConstantsAssumption DEF Crash, TInv, BoundTypes
  <2> QED
    BY <1>18, <2>1, Frames, LeaveTyped DEF Crash, TInv, hist
<1>19. ASSUME NEW p \in Path, NEW c \in File, OperatorEdit(p, c)
       PROVE  TInv'
  <2>1. DiskTypes' /\ HistTypes'
    BY <1>19 DEF OperatorEdit, TInv, DiskTypes, HistTypes, hist
  <2>2. BoundTypes'
    BY <1>19, ConstantsAssumption DEF OperatorEdit, TInv, BoundTypes
  <2> QED
    BY <1>19, <2>1, <2>2, Frames DEF OperatorEdit, TInv
<1> QED
  BY <1>3, <1>4, <1>5, <1>6, <1>7, <1>8, <1>9, <1>10, <1>11, <1>12, <1>13, <1>14, <1>15,
     <1>16, <1>17, <1>18, <1>19 DEF Next, Step

LEMMA InitTyped == Init => TInv
<1> SUFFICES ASSUME Init
             PROVE  TInv
  OBVIOUS
<1>1. <<>> \in Seq(FileOp) /\ <<>> \in Seq(Row) /\ Len(<<>>) = 0
  OBVIOUS
<1>2. undoFailed \in BOOLEAN
  BY Zenon DEF Init
<1>3. ProcTypes
  BY <1>1, <1>2 DEF Init, ProcTypes, Forward
<1>4. DiskTypes /\ RecordTypes /\ HistTypes /\ BoundTypes
  BY <1>1, ConstantsAssumption
  DEF Init, DiskTypes, RecordTypes, HistTypes, BoundTypes, Empty, File
<1> QED
  BY <1>3, <1>4 DEF TInv

(* Every variable has its type in every reachable state.                   *)
THEOREM TypeCorrect == Spec => []TypeOK
BY InitTyped, NextTyped, TypesInParts, PTL DEF Spec

-----------------------------------------------------------------------------
(* How far a transaction has come, operation by operation.  An operation   *)
(* is waiting, half-way or done while the list is applied and undone again *)
(* behind the position of a rollback; what recovery relies on, Open, says  *)
(* nothing of the process and so outlives it.                              *)

(* Two paths never share the sibling names that tempPath derives.          *)
StemsApart == \A p, q \in Path : stem[p] = stem[q] => p = q

Index == 1 .. Len(plan)
Was(i) == before[plan[i].path]
Now(i) == base[plan[i].path]
Incoming(i) == staged[stem[plan[i].path]]
Displaced(i) == backup[stem[plan[i].path]]

(* The journal lists a prefix of the plan, each path once.                 *)
Full == Len(rows) = Len(plan)
Journalled ==
  /\ Len(rows) <= Len(plan)
  /\ \A i \in 1 .. Len(rows) : rows[i] = journalRow(plan[i])
  /\ \A i, j \in 1 .. Len(rows) : rows[i].path = rows[j].path => i = j

(* What a plan was checked against when it was made.                       *)
WellPlanned ==
  \A i \in Index :
    /\ (plan[i].new = Absent) <=> (plan[i].action = "remove")
    /\ plan[i].action = "swap" => plan[i].path \in ClaimPath
    /\ plan[i].action = "create" => Was(i) = Absent
    /\ plan[i].action \in {"replace", "swap"} => Was(i) # Absent

(* Which phases a transaction is open in, and what is worked through.      *)
SameWork(i) ==
  /\ ops[i].path = plan[i].path
  /\ ops[i].action \in {plan[i].action, txnFileAction(plan[i].action)}
Phases ==
  /\ pc \in {"journal", "stage", "apply", "commit", "undo"} => Pending
  /\ pc \in {"ready", "discard"} => ~Pending
  /\ pc = "discard" => state = "committed"
  /\ pc \in {"journal", "stage", "apply", "commit", "discard"} => ops = plan /\ pos > 0
  /\ pc = "journal" => pos = Len(rows) + 1
  /\ pc \in {"stage", "apply", "commit", "discard"} => Full
  /\ pc = "undo" => /\ Len(rows) <= Len(ops) /\ Len(ops) <= Len(plan) /\ pos <= Len(ops)
                    /\ \A i \in 1 .. Len(ops) : SameWork(i)
  /\ state = "committed" => Full

(* Nothing has been touched.                                               *)
Clean == base = before /\ staged = Empty /\ backup = Empty

(* How far one operation has come.                                         *)
Waiting(i) ==
  /\ Now(i) = Was(i) /\ Displaced(i) = Absent
  /\ Incoming(i) = IF Stages(plan[i]) THEN plan[i].new ELSE Absent
Halfway(i) ==
  \/ /\ plan[i].action = "replace"
     /\ Now(i) = Absent /\ Displaced(i) = Was(i) /\ Incoming(i) = plan[i].new
  \/ /\ plan[i].action = "swap"
     /\ Now(i) = plan[i].new /\ Displaced(i) = Absent /\ Incoming(i) = Was(i)
Done(i) ==
  /\ Now(i) = plan[i].new /\ Incoming(i) = Absent
  /\ Displaced(i) = IF BacksUp(plan[i]) THEN Was(i) ELSE Absent
Undone(i) ==
  /\ Incoming(i) = Absent /\ Displaced(i) = Absent
  /\ plan[i].action = "create" => Now(i) = Absent

(* What was displaced is either set aside or still there.                  *)
Reversible(i) ==
  plan[i].action \in {"replace", "remove"} =>
    IF Displaced(i) = Absent THEN Now(i) = Was(i) ELSE Displaced(i) = Was(i)

(* Every sibling belongs to an operation whose undoing removes it.         *)
Accounted ==
  /\ \A s \in Stem : staged[s] # Absent =>
       \E i \in Index : stem[plan[i].path] = s /\ Stages(plan[i])
  /\ \A s \in Stem : backup[s] # Absent =>
       \E i \in Index : stem[plan[i].path] = s /\ BacksUp(plan[i])

Open ==
  /\ \A p \in Path : ~Planned(p) => base[p] = before[p]
  /\ \A i \in Index : Reversible(i)
  /\ Accounted
  /\ ~Full \/ pc = "journal" => Clean

StageInv ==
  /\ base = before /\ backup = Empty
  /\ \A i \in Index : i < pos => Waiting(i)
  /\ \A i \in Index : i >= pos => Incoming(i) = Absent

ApplyInv ==
  /\ half \in {0, 1}
  /\ \A i \in Index : i < pos => Done(i)
  /\ \A i \in Index : i > pos \/ (i = pos /\ half = 0) => Waiting(i)
  /\ \A i \in Index : i = pos /\ half = 1 => Halfway(i)

UndoInv ==
  /\ half # 0 => pos > 0
  /\ half = 1 /\ ops[pos].action # "create" => Displaced(pos) # Absent
  /\ half = 2 => ops[pos].action # "create" /\ Displaced(pos) = Absent
  /\ ~undoFailed => \A i \in Index : i > pos => Undone(i)
  /\ half = 1 /\ ops[pos].action = "create" => Now(pos) = Absent

IInv ==
  /\ TInv /\ Journalled /\ WellPlanned /\ Phases
  /\ Pending => Open
  /\ pc = "stage" => StageInv
  /\ pc = "apply" => ApplyInv
  /\ pc = "commit" => \A i \in Index : Done(i)
  /\ pc = "undo" => UndoInv
  /\ NoLitter
  /\ KeepsDisplaced

-----------------------------------------------------------------------------
(* Reading the invariant.                                                  *)

LEMMA PlanFields ==
  ASSUME IInv, NEW i \in Index
  PROVE  /\ plan[i] \in FileOp /\ plan[i].path \in Path /\ plan[i].action \in Action
         /\ plan[i].new \in File /\ plan[i].keep \in BOOLEAN
         /\ stem[plan[i].path] \in Stem
         /\ Was(i) \in File /\ Now(i) \in File /\ Incoming(i) \in File /\ Displaced(i) \in File
<1>1. plan[i] \in FileOp
  BY DEF IInv, TInv, HistTypes, Index
<1>2. /\ plan[i].path \in Path /\ plan[i].action \in Action
      /\ plan[i].new \in File /\ plan[i].keep \in BOOLEAN
  BY <1>1 DEF FileOp
<1>3. stem[plan[i].path] \in Stem
  BY <1>2, ConstantsAssumption
<1> QED
  BY <1>1, <1>2, <1>3 DEF IInv, TInv, HistTypes, DiskTypes, Was, Now, Incoming, Displaced

(* A complete journal has one row per path, so the operations of the plan  *)
(* have their destinations and siblings to themselves.                     *)
LEMMA Apart ==
  ASSUME IInv, StemsApart, Full, NEW i \in Index, NEW j \in Index, i # j
  PROVE  plan[i].path # plan[j].path /\ stem[plan[i].path] # stem[plan[j].path]
<1>1. i \in 1 .. Len(rows) /\ j \in 1 .. Len(rows)
  BY DEF Full, Index
<1>2. rows[i] = journalRow(plan[i]) /\ rows[j] = journalRow(plan[j]) /\ rows[i].path # rows[j].path
  BY <1>1 DEF IInv, Journalled
<1>3. plan[i].path # plan[j].path
  BY <1>2 DEF journalRow
<1> QED
  BY <1>3, PlanFields DEF StemsApart

LEMMA Lengths ==
  ASSUME IInv
  PROVE  /\ Len(plan) \in Nat /\ Len(rows) \in Nat /\ Len(ops) \in Nat /\ pos \in Nat
         /\ Len(rows) <= Len(plan)
BY DEF IInv, TInv, HistTypes, RecordTypes, ProcTypes, Journalled

(* A step that leaves the files and the journal alone leaves alone what    *)
(* is said of them.                                                        *)
LEMMA QuietOpen ==
  ASSUME Open, UNCHANGED <<base, staged, backup, plan, before, rows>>,
         pc' = "journal" => pc = "journal"
  PROVE  Open'
<1>1. (\A p \in Path : ~Planned(p) => base[p] = before[p])'
  BY DEF Open, Planned
<1>4. (~Full \/ pc = "journal" => Clean)'
  <2>1. Full' = Full /\ Clean' = Clean
    BY DEF Full, Clean, Empty
  <2> QED
    BY <2>1 DEF Open
<1>2. (\A i \in Index : Reversible(i))'
  BY DEF Open, Index, Reversible, Was, Now, Displaced
<1>3. Accounted'
  BY DEF Open, Accounted, Index, Stages, BacksUp
<1> QED
  BY <1>1, <1>2, <1>3, <1>4 DEF Open

LEMMA QuietPlan ==
  ASSUME IInv
  PROVE  /\ UNCHANGED <<rows, plan>> => Journalled'
         /\ UNCHANGED <<plan, before>> => WellPlanned'
         /\ UNCHANGED <<staged, backup, state>> => NoLitter'
         /\ UNCHANGED <<backup, state, plan, before>> => KeepsDisplaced'
<1>1. UNCHANGED <<rows, plan>> => Journalled'
  BY DEF IInv, Journalled, journalRow
<1>2. UNCHANGED <<plan, before>> => WellPlanned'
  BY DEF IInv, WellPlanned, Index, Was
<1>3. UNCHANGED <<staged, backup, state>> => NoLitter'
  BY DEF IInv, NoLitter, Empty
<1>4. UNCHANGED <<backup, state, plan, before>> => KeepsDisplaced'
  BY DEF IInv, KeepsDisplaced, BacksUp
<1> QED
  BY <1>1, <1>2, <1>3, <1>4

-----------------------------------------------------------------------------
(* Steps that change no file.                                              *)

LEMMA ExecuteKeeps ==
  ASSUME IInv, StemsApart, Execute, TInv'
  PROVE  IInv'
<1>1. /\ UNCHANGED <<base, staged, backup, plan, before, rows, state>>
      /\ pc = "idle" /\ Journalled' /\ WellPlanned' /\ NoLitter' /\ KeepsDisplaced'
  BY QuietPlan DEF Execute, disk, hist
<1>2. CASE Pending
  <2>1. /\ pc' = "undo" /\ ops' = fileOpsFromJournal /\ pos' = Len(rows) /\ half' = 0
        /\ Open
    BY <1>2 DEF Execute, Goto, IInv
  <2>2. Open'
    BY <1>1, <2>1, QuietOpen
  <2>3. Len(ops') = Len(rows)
    BY <2>1, FromJournalTyped DEF IInv, TInv, RecordTypes
  <2>6. ASSUME NEW i \in 1 .. Len(rows)
        PROVE  SameWork(i)'
    <3>1. rows[i] = journalRow(plan[i])
      BY DEF IInv, Journalled
    <3>2. ops'[i].path = rows[i].path /\ ops'[i].action = rows[i].action
      BY <2>1 DEF fileOpsFromJournal
    <3>3. plan' = plan
      BY <1>1
    <3> QED
      BY <3>1, <3>2, <3>3 DEF journalRow, SameWork
  <2>4. Phases'
    BY <1>1, <1>2, <2>1, <2>3, <2>6, Lengths DEF Phases, Pending, IInv
  <2>5. UndoInv'
    <3>1. ASSUME NEW i \in Index, i > Len(rows)
          PROVE  Undone(i)'
      <4>1. Clean
        BY <2>1, <3>1, Lengths DEF Open, Full, Index
      <4>2. Incoming(i) = Absent /\ Displaced(i) = Absent /\ Now(i) = Was(i)
        BY <4>1, PlanFields DEF Clean, Empty, Incoming, Displaced, Now, Was
      <4>3. plan[i].action = "create" => Was(i) = Absent
        BY DEF IInv, WellPlanned
      <4> QED
        BY <1>1, <4>2, <4>3 DEF Undone, Incoming, Displaced, Now, Was
    <3>2. \A i \in Index' : i > pos' => Undone(i)'
      BY <1>1, <2>1, <3>1 DEF Index
    <3> QED
      BY <2>1, <3>2 DEF UndoInv
  <2> QED
    BY <1>1, <2>1, <2>2, <2>4, <2>5 DEF IInv
<1>3. CASE ~Pending
  <2>1. pc' = "ready"
    BY <1>3 DEF Execute, Goto
  <2>2. Phases'
    BY <1>1, <1>3, <2>1 DEF Phases, Pending, IInv, Full
  <2> QED
    BY <1>1, <1>3, <2>1, <2>2 DEF IInv, Pending
<1> QED
  BY <1>2, <1>3

(* Every way to stop: the process's memory is lost, and nothing else.      *)
LEMMA LeaveKeeps ==
  ASSUME IInv, StemsApart, TInv', Leave,
         UNCHANGED <<base, staged, backup, plan, before, rows, state>>
  PROVE  IInv'
<1>1. Journalled' /\ WellPlanned' /\ NoLitter' /\ KeepsDisplaced'
  BY QuietPlan
<1>2. pc' = "idle"
  BY DEF Leave, Goto
<1>3. Phases'
  BY <1>2 DEF Phases, IInv, Full
<1>4. Pending' => Open'
  BY <1>2, QuietOpen DEF IInv, Pending
<1> QED
  BY <1>1, <1>2, <1>3, <1>4 DEF IInv

LEMMA WriteJournalKeeps ==
  ASSUME IInv, StemsApart, writeJournal, TInv'
  PROVE  IInv'
<1>1. /\ UNCHANGED <<base, staged, backup, plan, before, state, ops, pc>>
      /\ pc = "journal" /\ pos' = pos + 1 /\ ops = plan /\ pos = Len(rows) + 1 /\ pos <= Len(plan)
      /\ rows' = Append(rows, journalRow(plan[pos])) /\ Pending /\ Open /\ Clean
  BY DEF writeJournal, disk, hist, IInv, Phases, Open
<1>2. WellPlanned' /\ NoLitter' /\ KeepsDisplaced'
  BY <1>1, QuietPlan
<1>3. /\ Len(rows') = Len(rows) + 1
      /\ \A i \in 1 .. Len(rows) : rows'[i] = rows[i]
      /\ rows'[Len(rows) + 1] = journalRow(plan[pos])
  BY <1>1 DEF IInv, TInv, RecordTypes
<1>4. Journalled'
  <2>1. \A i \in 1 .. Len(rows') : i \in 1 .. Len(rows) \/ i = pos
    BY <1>1, <1>3, Lengths
  <2>2. \A i \in 1 .. Len(rows') : rows'[i] = journalRow(plan[i])
    BY <1>1, <1>3, <2>1 DEF IInv, Journalled
  <2>3. \A i \in 1 .. Len(rows) : rows[i].path # rows'[pos].path
    BY <1>1, <1>3 DEF writeJournal, journalRow
  <2>4. \A i, j \in 1 .. Len(rows') : rows'[i].path = rows'[j].path => i = j
    BY <1>1, <1>3, <2>1, <2>3 DEF IInv, Journalled
  <2>5. Len(rows') <= Len(plan')
    BY <1>1, <1>3, Lengths
  <2> QED
    BY <1>1, <2>2, <2>4, <2>5 DEF Journalled, journalRow
<1>5. Open'
  <2>1. Clean'
    BY <1>1 DEF Clean, Empty
  <2>2. (\A p \in Path : ~Planned(p) => base[p] = before[p])'
    BY <1>1 DEF Open, Planned
  <2>3. (\A i \in Index : Reversible(i))'
    BY <1>1 DEF Open, Index, Reversible, Was, Now, Displaced
  <2>4. Accounted'
    BY <1>1 DEF Open, Accounted, Index, Stages, BacksUp
  <2> QED
    BY <2>1, <2>2, <2>3, <2>4 DEF Open
<1>6. Phases'
  BY <1>1, <1>3, Lengths DEF Phases, Pending, IInv
<1> QED
  BY <1>1, <1>2, <1>4, <1>5, <1>6 DEF IInv, Pending

LEMMA PhaseKeeps ==
  ASSUME IInv, StemsApart, journalWritten \/ materialized \/ applied, TInv'
  PROVE  IInv'
<1>1. /\ UNCHANGED <<base, staged, backup, plan, before, rows, state, ops>>
      /\ pos > Len(plan) /\ ops = plan /\ pos' = 1 /\ half' = 0 /\ Pending /\ Open
      /\ \/ pc = "journal" /\ pc' = "stage" /\ pos = Len(rows) + 1 /\ Clean
         \/ pc = "stage" /\ pc' = "apply" /\ StageInv
         \/ pc = "apply" /\ pc' = "commit" /\ ApplyInv
  BY DEF journalWritten, materialized, applied, Goto, disk, hist, IInv, Phases, Open
<1>2. Journalled' /\ WellPlanned' /\ NoLitter' /\ KeepsDisplaced'
  BY <1>1, QuietPlan
<1>3. Open'
  BY <1>1, QuietOpen
<1>4. Full
  BY <1>1, Lengths DEF IInv, Phases, Full
<1>5. Phases'
  BY <1>1, <1>4 DEF Phases, Pending, IInv, Full
<1>6. pc' = "stage" => StageInv'
  <2> SUFFICES ASSUME pc' = "stage"
               PROVE  StageInv'
    OBVIOUS
  <2>1. base = before /\ backup = Empty /\ staged = Empty
    BY <1>1 DEF Clean
  <2>2. \A i \in Index : Incoming(i) = Absent
    BY <2>1, PlanFields DEF Empty, Incoming
  <2>3. \A i \in Index' : i >= 1 /\ (Incoming(i))' = Absent
    BY <1>1, <2>2, Lengths DEF Index, Incoming
  <2>4. (base = before /\ backup = Empty)'
    BY <1>1, <2>1 DEF Empty
  <2>5. \A i \in Index' : ~(i < 1)
    BY <2>3, <1>1, Lengths DEF Index
  <2> QED
    BY <1>1, <2>3, <2>4, <2>5 DEF StageInv
<1>7. pc' = "apply" => ApplyInv'
  <2> SUFFICES ASSUME pc' = "apply"
               PROVE  ApplyInv'
    OBVIOUS
  <2>1. \A i \in Index : i < pos /\ i >= 1
    BY <1>1, Lengths DEF Index
  <2>2. \A i \in Index : Waiting(i)
    BY <1>1, <2>1 DEF StageInv
  <2>3. \A i \in Index' : Waiting(i)' /\ ~(i < 1)
    BY <1>1, <2>1, <2>2, Lengths DEF Index, Waiting, Now, Was, Incoming, Displaced, Stages
  <2> QED
    BY <1>1, <2>3 DEF ApplyInv
<1>8. pc' = "commit" => (\A i \in Index : Done(i))'
  <2> SUFFICES ASSUME pc' = "commit"
               PROVE  (\A i \in Index : Done(i))'
    OBVIOUS
  <2>1. \A i \in Index : i < pos
    BY <1>1, Lengths DEF Index
  <2>2. \A i \in Index : Done(i)
    BY <1>1, <2>1 DEF ApplyInv
  <2> QED
    BY <1>1, <2>2 DEF Index, Done, Now, Was, Incoming, Displaced, BacksUp
<1> QED
  BY <1>1, <1>2, <1>3, <1>5, <1>6, <1>7, <1>8 DEF IInv, Pending

(* The boundary: every operation is done, so nothing is staged and what    *)
(* was displaced is set aside.                                             *)
LEMMA CommitTxnKeeps ==
  ASSUME IInv, StemsApart, commitTxn, TInv'
  PROVE  IInv'
<1>1. /\ UNCHANGED <<base, staged, backup, plan, before, rows>>
      /\ ops' = plan /\ pos' = 1 /\ pc' = "discard" /\ state' = "committed"
      /\ Full /\ Open /\ \A i \in Index : Done(i)
  BY DEF commitTxn, Goto, disk, hist, IInv, Phases, Open
<1>2. Journalled' /\ WellPlanned'
  BY <1>1, QuietPlan
<1>3. Phases'
  BY <1>1 DEF Phases, Pending, Full
<1>4. staged = Empty
  <2>1. \A s \in Stem : staged[s] = Absent
    BY <1>1 DEF Open, Accounted, Done, Incoming
  <2> QED
    BY <2>1 DEF IInv, TInv, DiskTypes, Empty
<1>5. NoLitter'
  BY <1>1, <1>4 DEF NoLitter, Empty
<1>6. KeepsDisplaced'
  <2>1. \A i \in Index : BacksUp(plan[i]) => Displaced(i) = Was(i)
    BY <1>1 DEF Done
  <2> QED
    BY <1>1, <2>1 DEF KeepsDisplaced, Index, Displaced, Was, BacksUp
<1> QED
  BY <1>1, <1>2, <1>3, <1>5, <1>6 DEF IInv, Pending

(* Only an operation whose backup is not to be kept loses it, and siblings *)
(* are not shared.                                                         *)
LEMMA DiscardKeeps ==
  ASSUME IInv, StemsApart, discardBackups \/ discardFails, TInv'
  PROVE  IInv'
<1>1. /\ UNCHANGED <<base, staged, plan, before, rows, state, ops, pc>>
      /\ pos \in Index /\ pos' = pos + 1 /\ pc = "discard" /\ state = "committed" /\ Full /\ ops = plan
  BY Lengths DEF discardBackups, discardFails, disk, hist, IInv, Phases, Index
<1>2. Journalled' /\ WellPlanned'
  BY <1>1, QuietPlan
<1>3. Phases'
  BY <1>1, Lengths DEF Phases, Pending, Full, IInv
<1>4. NoLitter'
  BY <1>1 DEF IInv, NoLitter, Empty
<1>5. KeepsDisplaced'
  <2>1. ASSUME NEW i \in Index, plan[i].keep, BacksUp(plan[i])
        PROVE  backup'[stem[plan[i].path]] = backup[stem[plan[i].path]]
    <3>1. CASE UNCHANGED backup
      BY <3>1
    <3>2. CASE /\ ~plan[pos].keep
               /\ backup' = [backup EXCEPT ![stem[plan[pos].path]] = Absent]
      <4>1. stem[plan[i].path] # stem[plan[pos].path]
        BY <1>1, <2>1, <3>2, Apart
      <4> QED
        BY <3>2, <4>1 DEF IInv, TInv, DiskTypes
    <3> QED
      BY <1>1, <3>1, <3>2 DEF discardBackups, discardFails, disk
  <2>2. \A i \in Index : plan[i].keep /\ BacksUp(plan[i]) => backup'[stem[plan[i].path]] = before[plan[i].path]
    BY <1>1, <2>1 DEF IInv, KeepsDisplaced, Index
  <2> QED
    BY <1>1, <2>2 DEF KeepsDisplaced, Index, BacksUp
<1> QED
  BY <1>1, <1>2, <1>3, <1>4, <1>5 DEF IInv, Pending

(* A transaction's own rollback and a failing step of one.                 *)
LEMMA UndoFailsKeeps ==
  ASSUME IInv, StemsApart, rollbackOpFails, TInv'
  PROVE  IInv'
<1>1. /\ UNCHANGED <<base, staged, backup, plan, before, rows, state, ops, pc>>
      /\ pos > 0 /\ pos' = pos - 1 /\ pc = "undo" /\ Pending /\ Open /\ half' = 0 /\ undoFailed' = TRUE
  BY DEF rollbackOpFails, PrevOp, disk, hist, IInv, Phases
<1>2. Journalled' /\ WellPlanned' /\ NoLitter' /\ KeepsDisplaced' /\ Open'
  BY <1>1, QuietPlan, QuietOpen
<1>3. Phases'
  BY <1>1, Lengths DEF Phases, Pending, Full, IInv, SameWork
<1>4. UndoInv'
  BY <1>1 DEF UndoInv
<1> QED
  BY <1>1, <1>2, <1>3, <1>4 DEF IInv, Pending

(* A rollback in which nothing failed has removed every sibling.           *)
LEMMA FinishRolledBackKeeps ==
  ASSUME IInv, StemsApart, finishRolledBack, TInv'
  PROVE  IInv'
<1>1. /\ UNCHANGED <<base, staged, backup, plan, before, rows>>
      /\ pc = "undo" /\ pos = 0 /\ Pending /\ Open /\ UndoInv /\ pc' = "idle"
  BY DEF finishRolledBack, Leave, Goto, disk, hist, IInv, Phases
<1>2. CASE undoFailed
  BY <1>1, <1>2, LeaveKeeps DEF finishRolledBack
<1>3. CASE ~undoFailed
  <2>1. state' = "rolled-back"
    BY <1>3 DEF finishRolledBack
  <2>2. Journalled' /\ WellPlanned'
    BY <1>1, QuietPlan
  <2>3. \A i \in Index : Incoming(i) = Absent /\ Displaced(i) = Absent
    BY <1>1, <1>3, Lengths DEF UndoInv, Undone, Index
  <2>4. \A s \in Stem : staged[s] = Absent /\ backup[s] = Absent
    BY <1>1, <2>3 DEF Open, Accounted, Incoming, Displaced
  <2>5. staged = Empty /\ backup = Empty
    BY <2>4 DEF IInv, TInv, DiskTypes, Empty
  <2>6. NoLitter' /\ KeepsDisplaced'
    BY <1>1, <2>1, <2>5 DEF NoLitter, KeepsDisplaced, Empty
  <2>7. Phases'
    BY <1>1, <2>1 DEF Phases
  <2> QED
    BY <1>1, <2>1, <2>2, <2>6, <2>7 DEF IInv, Pending
<1> QED
  BY <1>2, <1>3

LEMMA EditKeeps ==
  ASSUME IInv, StemsApart, NEW p \in Path, NEW c \in File, OperatorEdit(p, c), TInv'
  PROVE  IInv'
<1>1. /\ UNCHANGED <<staged, backup, plan, before, rows, state, ops, pos, pc>>
      /\ ~Pending /\ pc = "idle"
  BY DEF OperatorEdit, hist, proc
<1>2. Journalled' /\ WellPlanned' /\ NoLitter' /\ KeepsDisplaced'
  BY <1>1, QuietPlan
<1>3. Phases'
  BY <1>1 DEF Phases, Pending, Full, IInv
<1> QED
  BY <1>1, <1>2, <1>3 DEF IInv, Pending

(* A new transaction starts from untouched files.                          *)
LEMMA BeginKeeps ==
  ASSUME IInv, StemsApart, NEW list \in Plans, Begin(list), TInv'
  PROVE  IInv'
<1>1. /\ base' = base /\ before' = base /\ staged' = Empty /\ backup' = Empty
      /\ plan' = list /\ rows' = <<>> /\ state' = "pending"
      /\ pc' = "journal" /\ ops' = list /\ pos' = 1 /\ half' = 0
      /\ \A i \in 1 .. Len(list) : plannedOp(list[i])
  BY DEF Begin, Goto
<1>2. Clean'
  BY <1>1 DEF Clean, Empty
<1>3. Journalled'
  BY <1>1, PlanTyped DEF Journalled
<1>4. WellPlanned'
  <2>1. \A i \in 1 .. Len(list) :
          /\ list[i].action = "create" => base[list[i].path] = Absent
          /\ list[i].action \in {"replace", "swap"} => base[list[i].path] # Absent
    BY <1>1 DEF plannedOp
  <2> QED
    BY <1>1, <2>1, PlanTyped DEF WellPlanned, Index, Was
<1>5. Phases'
  BY <1>1 DEF Phases, Pending
<1>6. Open'
  <2>1. \A i \in 1 .. Len(list) : list[i].path \in Path /\ stem[list[i].path] \in Stem
    BY PlanTyped, ConstantsAssumption
  <2>2. (\A i \in Index : Reversible(i))'
    BY <1>1, <2>1 DEF Index, Reversible, Displaced, Now, Was, Empty
  <2>3. Accounted'
    BY <1>1 DEF Accounted, Empty
  <2> QED
    BY <1>1, <1>2, <2>2, <2>3 DEF Open
<1>7. NoLitter' /\ KeepsDisplaced'
  BY <1>1 DEF NoLitter, KeepsDisplaced
<1> QED
  BY <1>1, <1>3, <1>4, <1>5, <1>6, <1>7 DEF IInv, Pending

-----------------------------------------------------------------------------
(* Steps that write, rename or remove.  What they do to one operation they *)
(* do to no other: the places of an operation are its own.                 *)

LEMMA StagedOpen ==
  ASSUME IInv, Open, NEW i \in Index, Stages(plan[i]), Full, pc' # "journal",
         UNCHANGED <<base, backup, plan, before, rows>>,
         staged' = [staged EXCEPT ![stem[plan[i].path]] = plan[i].new]
  PROVE  Open'
<1>1. (\A p \in Path : ~Planned(p) => base[p] = before[p])'
  BY DEF Open, Planned
<1>2. (\A j \in Index : Reversible(j))'
  BY DEF Open, Index, Reversible, Was, Now, Displaced
<1>3. Accounted'
  <2>1. ASSUME NEW s \in Stem, staged'[s] # Absent
        PROVE  \E j \in Index : stem[plan[j].path] = s /\ Stages(plan[j])
    <3>1. CASE s = stem[plan[i].path]
      BY <3>1
    <3>2. CASE s # stem[plan[i].path]
      BY <2>1, <3>2 DEF IInv, TInv, DiskTypes, Open, Accounted
    <3> QED
      BY <3>1, <3>2
  <2> QED
    BY <2>1 DEF Open, Accounted, Index, Stages, BacksUp
<1>4. Full'
  BY DEF Full
<1> QED
  BY <1>1, <1>2, <1>3, <1>4 DEF Open

LEMMA MaterializeKeeps ==
  ASSUME IInv, StemsApart, materialize, TInv'
  PROVE  IInv'
<1>1. /\ UNCHANGED <<base, backup, plan, before, rows, state, ops, pc>>
      /\ pos \in Index /\ pos' = pos + 1 /\ pc = "stage" /\ Pending /\ Full /\ ops = plan
      /\ Open /\ StageInv
  BY Lengths DEF materialize, disk, hist, IInv, Phases, Index, Open
<1>2. \/ ~Stages(plan[pos]) /\ UNCHANGED staged
      \/ Stages(plan[pos]) /\ staged' = [staged EXCEPT ![stem[plan[pos].path]] = plan[pos].new]
  BY <1>1 DEF materialize
<1>3. Journalled' /\ WellPlanned'
  BY <1>1, QuietPlan
<1>4. Open'
  BY <1>1, <1>2, StagedOpen, QuietOpen
<1>5. Phases'
  BY <1>1, Lengths DEF Phases, Pending, Full, IInv
<1>6. StageInv'
  <2>1. ASSUME NEW i \in Index, i # pos
        PROVE  (Incoming(i))' = Incoming(i)
    <3>1. stem[plan[i].path] # stem[plan[pos].path] /\ stem[plan[i].path] \in Stem
      BY <1>1, <2>1, Apart, PlanFields
    <3> QED
      BY <1>1, <1>2, <3>1 DEF Incoming, IInv, TInv, DiskTypes
  <2>8. PICK k \in Index : k = pos
    BY <1>1
  <2>2. (Incoming(k))' = IF Stages(plan[k]) THEN plan[k].new ELSE Absent
    <3>1. Incoming(k) = Absent
      BY <1>1, <2>8, Lengths DEF StageInv
    <3> QED
      BY <1>1, <1>2, <2>8, <3>1, PlanFields DEF Incoming, IInv, TInv, DiskTypes
  <2>3. Waiting(k)'
    <3>1. Now(k) = Was(k) /\ Displaced(k) = Absent
      BY <1>1, PlanFields DEF StageInv, Now, Was, Displaced, Empty
    <3>2. UNCHANGED <<Now(k), Was(k), Displaced(k)>>
      BY <1>1 DEF Now, Was, Displaced
    <3>3. plan' = plan
      BY <1>1
    <3> QED
      BY <2>2, <3>1, <3>2, <3>3 DEF Waiting, Stages
  <2>4. ASSUME NEW i \in Index, i < pos
        PROVE  Waiting(i)'
    <3>1. i # pos
      BY <2>4, Lengths DEF Index
    <3>2. Waiting(i)
      BY <1>1, <2>4 DEF StageInv
    <3>3. UNCHANGED <<Now(i), Was(i), Displaced(i), Incoming(i), plan>>
      BY <1>1, <2>1, <3>1 DEF Now, Was, Displaced
    <3> QED
      BY <3>2, <3>3 DEF Waiting, Stages
  <2>5. \A i \in Index : i < pos' => Waiting(i)'
    BY <1>1, <2>3, <2>4, <2>8, Lengths DEF Index
  <2>6. \A i \in Index : i >= pos' => (Incoming(i))' = Absent
    BY <1>1, <2>1, Lengths DEF StageInv, Index
  <2>7. (base = before /\ backup = Empty)'
    BY <1>1 DEF StageInv, Empty
  <2> QED
    BY <1>1, <2>5, <2>6, <2>7 DEF StageInv, Index
<1>7. NoLitter' /\ KeepsDisplaced'
  BY <1>1, QuietPlan DEF NoLitter, Pending
<1> QED
  BY <1>1, <1>3, <1>4, <1>5, <1>6, <1>7 DEF IInv, Pending

(* A failure before the boundary leaves the list to be undone from its end.*)
LEMMA AbandonKeeps ==
  ASSUME IInv, StemsApart, abandon, TInv'
  PROVE  IInv'
<1>1. /\ UNCHANGED <<base, backup, plan, before, rows, state>>
      /\ ops' = ops /\ ops = plan /\ pos' = Len(plan) /\ half' = 0 /\ pc' = "undo"
      /\ Pending /\ Open
  BY DEF abandon, StartUndo, Goto, hist, IInv, Phases, Open
<1>2. Journalled' /\ WellPlanned' /\ KeepsDisplaced'
  BY <1>1, QuietPlan
<1>3. NoLitter'
  BY <1>1 DEF NoLitter, Pending
<1>4. Open'
  <2>1. CASE UNCHANGED staged
    BY <1>1, <2>1, QuietOpen
  <2>2. CASE ~UNCHANGED staged
    <3>1. /\ pc = "stage" /\ pos \in Index /\ Stages(plan[pos]) /\ Full
          /\ staged' = [staged EXCEPT ![stem[plan[pos].path]] = plan[pos].new]
      BY <1>1, <2>2, Lengths DEF abandon, IInv, Phases, Index
    <3> QED
      BY <1>1, <3>1, StagedOpen
  <2> QED
    BY <2>1, <2>2
<1>5. Phases'
  BY <1>1, Lengths DEF Phases, Pending, SameWork
<1>6. UndoInv'
  BY <1>1, Lengths DEF UndoInv, Index
<1> QED
  BY <1>1, <1>2, <1>3, <1>4, <1>5, <1>6 DEF IInv, Pending

LEMMA Elsewhere ==
  ASSUME IInv, NEW k \in Index, NEW op, op.path = plan[k].path, commitOp(op) \/ rollbackOp(op)
  PROVE  /\ \A p \in Path : p # plan[k].path => base'[p] = base[p]
         /\ \A s \in Stem : s # stem[plan[k].path] => staged'[s] = staged[s] /\ backup'[s] = backup[s]
<1>1. base \in [Path -> File] /\ staged \in [Stem -> File] /\ backup \in [Stem -> File]
  BY DEF IInv, TInv, DiskTypes
<1> USE DEF disk
<1>2. \/ UNCHANGED disk \/ InstallStaged(op) \/ BackUp(op) \/ Exchange(op) \/ SetAside(op)
      \/ RemoveBase(op) \/ RemoveStaged(op) \/ RestoreBackup(op)
  <2>1. CASE commitOp(op)
    BY <2>1 DEF commitOp, commitCreate, commitReplace, commitRemove, commitSwap
  <2>2. CASE rollbackOp(op)
    BY <2>2 DEF rollbackOp, rollbackCreate, rollbackDisplaced
  <2> QED
    BY <2>1, <2>2
<1>3. CASE UNCHANGED disk
  BY <1>3
<1>4. CASE InstallStaged(op)
  BY <1>1, <1>4 DEF InstallStaged
<1>5. CASE BackUp(op)
  BY <1>1, <1>5 DEF BackUp
<1>6. CASE Exchange(op)
  BY <1>1, <1>6 DEF Exchange
<1>7. CASE SetAside(op)
  BY <1>1, <1>7 DEF SetAside
<1>8. CASE RemoveBase(op) \/ RemoveStaged(op)
  BY <1>1, <1>8 DEF RemoveBase, RemoveStaged
<1>9. CASE RestoreBackup(op)
  BY <1>1, <1>9 DEF RestoreBackup
<1> QED
  BY <1>2, <1>3, <1>4, <1>5, <1>6, <1>7, <1>8, <1>9

(* The calls of commitOp take an operation from waiting, by way of half-way*)
(* for those of two calls, to done.                                        *)
LEMMA OpAdvances ==
  ASSUME IInv, NEW k \in Index, k = pos, commitOp(plan[k]), UNCHANGED <<plan, before>>,
         half \in {0, 1}, half = 0 => Waiting(k), half = 1 => Halfway(k)
  PROVE  \/ half' = 1 /\ pos' = pos /\ Halfway(k)'
         \/ half' = 0 /\ pos' = pos + 1 /\ Done(k)'
<1> DEFINE p == plan[k].path
           s == stem[plan[k].path]
<1>1. /\ base \in [Path -> File] /\ staged \in [Stem -> File] /\ backup \in [Stem -> File]
      /\ p \in Path /\ s \in Stem
      /\ plan[k].action \in Action
      /\ (plan[k].new = Absent) <=> (plan[k].action = "remove")
      /\ plan[k].action = "create" => before[p] = Absent
      /\ plan[k].action \in {"replace", "swap"} => before[p] # Absent
  BY PlanFields DEF IInv, TInv, DiskTypes, WellPlanned, Was
<1>2. half = 0 => /\ base[p] = before[p] /\ backup[s] = Absent
                  /\ staged[s] = IF plan[k].action # "remove" THEN plan[k].new ELSE Absent
  BY DEF Waiting, Now, Was, Displaced, Incoming, Stages
<1>3. half = 1 =>
        \/ /\ plan[k].action = "replace"
           /\ base[p] = Absent /\ backup[s] = before[p] /\ staged[s] = plan[k].new
        \/ /\ plan[k].action = "swap"
           /\ base[p] = plan[k].new /\ backup[s] = Absent /\ staged[s] = before[p]
  BY DEF Halfway, Now, Was, Displaced, Incoming
<1>4. CASE commitCreate(plan[k])
  <2>1. half = 0 /\ half' = 0 /\ pos' = pos + 1 /\ InstallStaged(plan[k]) /\ plan[k].action = "create"
    BY <1>3, <1>4 DEF commitCreate, NextOp
  <2>2. base'[p] = plan[k].new /\ staged'[s] = Absent /\ backup'[s] = Absent
    BY <1>1, <1>2, <2>1 DEF InstallStaged
  <2> QED
    BY <2>1, <2>2 DEF Done, Now, Was, Displaced, Incoming, BacksUp
<1>5. CASE commitReplace(plan[k]) /\ half = 0
  <2>1. half' = 1 /\ pos' = pos /\ BackUp(plan[k]) /\ plan[k].action = "replace"
    BY <1>5 DEF commitReplace, SameOp
  <2>2. base'[p] = Absent /\ backup'[s] = before[p] /\ staged'[s] = plan[k].new
    BY <1>1, <1>2, <1>5, <2>1 DEF BackUp
  <2> QED
    BY <2>1, <2>2 DEF Halfway, Now, Was, Displaced, Incoming
<1>6. CASE commitReplace(plan[k]) /\ half = 1
  <2>1. half' = 0 /\ pos' = pos + 1 /\ InstallStaged(plan[k]) /\ plan[k].action = "replace"
    BY <1>6 DEF commitReplace, NextOp
  <2>2. base'[p] = plan[k].new /\ staged'[s] = Absent /\ backup'[s] = before[p]
    BY <1>1, <1>3, <1>6, <2>1 DEF InstallStaged
  <2> QED
    BY <2>1, <2>2 DEF Done, Now, Was, Displaced, Incoming, BacksUp
<1>7. CASE commitRemove(plan[k])
  <2>1. half = 0 /\ half' = 0 /\ pos' = pos + 1 /\ plan[k].action = "remove" /\ plan[k].new = Absent
    BY <1>1, <1>3, <1>7 DEF commitRemove, NextOp
  <2>2. base'[p] = Absent /\ staged'[s] = Absent /\ backup'[s] = before[p]
    BY <1>1, <1>2, <1>7, <2>1 DEF commitRemove, BackUp, disk
  <2> QED
    BY <2>1, <2>2 DEF Done, Now, Was, Displaced, Incoming, BacksUp
<1>8. CASE commitSwap(plan[k]) /\ half = 0
  <2>1. half' = 1 /\ pos' = pos /\ Exchange(plan[k]) /\ plan[k].action = "swap"
    BY <1>8 DEF commitSwap, SameOp
  <2>2. base'[p] = plan[k].new /\ staged'[s] = before[p] /\ backup'[s] = Absent
    BY <1>1, <1>2, <1>8, <2>1 DEF Exchange
  <2> QED
    BY <2>1, <2>2 DEF Halfway, Now, Was, Displaced, Incoming
<1>9. CASE commitSwap(plan[k]) /\ half = 1
  <2>1. half' = 0 /\ pos' = pos + 1 /\ SetAside(plan[k]) /\ plan[k].action = "swap"
    BY <1>9 DEF commitSwap, NextOp
  <2>2. base'[p] = plan[k].new /\ staged'[s] = Absent /\ backup'[s] = before[p]
    BY <1>1, <1>3, <1>9, <2>1 DEF SetAside
  <2> QED
    BY <2>1, <2>2 DEF Done, Now, Was, Displaced, Incoming, BacksUp
<1> QED
  BY <1>4, <1>5, <1>6, <1>7, <1>8, <1>9 DEF commitOp

(* A step on one operation adds no sibling that is not its own.            *)
LEMMA StillAccounted ==
  ASSUME IInv, Accounted, NEW k \in Index, UNCHANGED plan,
         \A s \in Stem : s # stem[plan[k].path] => staged'[s] = staged[s] /\ backup'[s] = backup[s],
         Stages(plan[k]) \/ staged'[stem[plan[k].path]] \in {Absent, staged[stem[plan[k].path]]},
         BacksUp(plan[k]) \/ backup'[stem[plan[k].path]] \in {Absent, backup[stem[plan[k].path]]}
  PROVE  Accounted'
<1>1. ASSUME NEW s \in Stem, staged'[s] # Absent
      PROVE  \E i \in Index : stem[plan[i].path] = s /\ Stages(plan[i])
  BY <1>1 DEF Accounted
<1>2. ASSUME NEW s \in Stem, backup'[s] # Absent
      PROVE  \E i \in Index : stem[plan[i].path] = s /\ BacksUp(plan[i])
  BY <1>2 DEF Accounted
<1> QED
  BY <1>1, <1>2 DEF Accounted, Index, Stages, BacksUp

LEMMA CommitOpsKeeps ==
  ASSUME IInv, StemsApart, commitOps, TInv'
  PROVE  IInv'
<1>1. PICK k \in Index : k = pos
  BY Lengths DEF commitOps, IInv, Phases, Index
<1>2. /\ UNCHANGED <<plan, before, rows, state, ops, pc>>
      /\ pc = "apply" /\ Pending /\ Full /\ ops = plan /\ commitOp(plan[k])
      /\ Open /\ ApplyInv
  BY <1>1 DEF commitOps, hist, IInv, Phases, Open
<1>3. \/ half' = 1 /\ pos' = pos /\ Halfway(k)'
      \/ half' = 0 /\ pos' = pos + 1 /\ Done(k)'
  BY <1>1, <1>2, OpAdvances DEF ApplyInv
<1>4. /\ \A p \in Path : p # plan[k].path => base'[p] = base[p]
      /\ \A s \in Stem : s # stem[plan[k].path] => staged'[s] = staged[s] /\ backup'[s] = backup[s]
  BY <1>2, Elsewhere
<1>5. ASSUME NEW i \in Index, i # k
      PROVE  UNCHANGED <<Now(i), Was(i), Incoming(i), Displaced(i)>>
  BY <1>2, <1>4, <1>5, Apart, PlanFields DEF Now, Was, Incoming, Displaced
<1>6. \A i \in Index : i < k => Done(i)'
  <2> SUFFICES ASSUME NEW i \in Index, i < k
               PROVE  Done(i)'
    OBVIOUS
  <2>1. Done(i) /\ i # k
    BY <1>1, <1>2, Lengths DEF ApplyInv, Index
  <2> QED
    BY <1>2, <1>5, <2>1 DEF Done, BacksUp
<1>7. \A i \in Index : i > k => Waiting(i)'
  <2> SUFFICES ASSUME NEW i \in Index, i > k
               PROVE  Waiting(i)'
    OBVIOUS
  <2>1. Waiting(i) /\ i # k
    BY <1>1, <1>2, Lengths DEF ApplyInv, Index
  <2> QED
    BY <1>2, <1>5, <2>1 DEF Waiting, Stages
<1>8. ApplyInv'
  <2>1. CASE half' = 1 /\ pos' = pos /\ Halfway(k)'
    BY <1>1, <1>2, <1>6, <1>7, <2>1, Lengths DEF ApplyInv, Index
  <2>2. CASE half' = 0 /\ pos' = pos + 1 /\ Done(k)'
    BY <1>1, <1>2, <1>6, <1>7, <2>2, Lengths DEF ApplyInv, Index
  <2> QED
    BY <1>3, <2>1, <2>2
<1>9. Open'
  <2>1. ASSUME NEW i \in Index
        PROVE  Reversible(i)'
    <3>1. Waiting(i)' \/ Halfway(i)' \/ Done(i)'
      BY <1>3, <1>6, <1>7, Lengths DEF Index
    <3>2. /\ plan' = plan /\ (Was(i))' = Was(i)
          /\ plan[i].action \in {"replace", "swap"} => Was(i) # Absent
          /\ plan[i].action = "remove" => plan[i].new = Absent
      BY <1>2, PlanFields DEF IInv, WellPlanned, Was
    <3> QED
      BY <3>1, <3>2 DEF Reversible, Waiting, Halfway, Done, BacksUp, Stages
  <2>2. ASSUME NEW p \in Path, ~Planned(p)
        PROVE  base'[p] = before'[p]
    BY <1>2, <1>4, <2>2 DEF Open, Planned, Index
  <2>3. Accounted'
    <3>1. plan[k].action = "remove" => UNCHANGED staged
      BY <1>2 DEF commitOp, commitCreate, commitReplace, commitRemove, commitSwap, BackUp, disk
    <3>2. plan[k].action = "create" => UNCHANGED backup
      BY <1>2 DEF commitOp, commitCreate, commitReplace, commitRemove, commitSwap, InstallStaged, disk
    <3> QED
      BY <1>2, <1>4, <3>1, <3>2, StillAccounted DEF Open, Stages, BacksUp
  <2>4. Full' /\ pc' # "journal"
    BY <1>2 DEF Full
  <2>5. (\A p \in Path : ~Planned(p) => base[p] = before[p])'
    BY <1>2, <2>2 DEF Planned
  <2>6. (\A i \in Index : Reversible(i))'
    BY <1>2, <2>1 DEF Index
  <2> QED
    BY <2>3, <2>4, <2>5, <2>6 DEF Open
<1>10. Journalled' /\ WellPlanned'
  BY <1>2, QuietPlan
<1>11. Phases'
  BY <1>1, <1>2, <1>3, Lengths DEF Phases, Pending, Full, IInv
<1>12. NoLitter' /\ KeepsDisplaced'
  BY <1>2 DEF NoLitter, KeepsDisplaced, Pending
<1> QED
  BY <1>2, <1>8, <1>9, <1>10, <1>11, <1>12 DEF IInv, Pending

(* A created file has no backup and a removal nothing staged.              *)
LEMMA NoForeignSibling ==
  ASSUME IInv, StemsApart, Open, NEW k \in Index
  PROVE  /\ plan[k].action = "create" => Displaced(k) = Absent
         /\ plan[k].action = "remove" => Incoming(k) = Absent
<1>1. CASE Full
  <2>1. \A i \in Index : stem[plan[i].path] = stem[plan[k].path] => i = k
    BY <1>1, Apart
  <2> QED
    BY <2>1, PlanFields DEF Open, Accounted, Displaced, Incoming, Stages, BacksUp
<1>2. CASE ~Full
  BY <1>2, PlanFields DEF Open, Clean, Empty, Displaced, Incoming
<1> QED
  BY <1>1, <1>2

LEMMA SameKind ==
  ASSUME IInv, NEW k \in Index, SameWork(k)
  PROVE  /\ ops[k].path = plan[k].path
         /\ ops[k].action = "create" <=> plan[k].action = "create"
         /\ Stages(ops[k]) <=> Stages(plan[k])
         /\ BacksUp(ops[k]) <=> BacksUp(plan[k])
BY PlanFields DEF SameWork, txnFileAction, Stages, BacksUp, Action

(* The calls of rollbackOp: a created file goes, then what was staged for  *)
(* it; a displaced one goes for its backup, then what was staged.          *)
LEMMA OpRetreats ==
  ASSUME IInv, StemsApart, Open, UndoInv, NEW k \in Index, k = pos, SameWork(k),
         rollbackOp(ops[k]), UNCHANGED <<plan, before>>
  PROVE  /\ \/ half' = 1 /\ pos' = pos /\ plan[k].action = "create" /\ (Now(k))' = Absent
            \/ half' = 1 /\ pos' = pos /\ plan[k].action # "create" /\ (Displaced(k))' # Absent
            \/ half' = 2 /\ pos' = pos /\ plan[k].action # "create" /\ (Displaced(k))' = Absent
            \/ half' = 0 /\ pos' = pos - 1 /\ Undone(k)'
         /\ Reversible(k)'
<1> DEFINE p == plan[k].path
           s == stem[plan[k].path]
           op == ops[k]
<1>1. /\ base \in [Path -> File] /\ staged \in [Stem -> File] /\ backup \in [Stem -> File]
      /\ p \in Path /\ s \in Stem /\ op.path = p
      /\ op.action = "create" <=> plan[k].action = "create"
      /\ Stages(op) <=> plan[k].action # "remove"
      /\ BacksUp(op) <=> plan[k].action # "create"
  BY PlanFields, SameKind DEF IInv, TInv, DiskTypes, Stages, BacksUp
<1>2. /\ plan[k].action = "create" => backup[s] = Absent
      /\ plan[k].action = "remove" => staged[s] = Absent
      /\ plan[k].action \in {"replace", "remove"} =>
           IF backup[s] = Absent THEN base[p] = before[p] ELSE backup[s] = before[p]
  BY NoForeignSibling DEF Open, Reversible, Displaced, Incoming, Now, Was
<1>3. /\ half = 1 /\ plan[k].action # "create" => backup[s] # Absent
      /\ half = 1 /\ plan[k].action = "create" => base[p] = Absent
      /\ half = 2 => plan[k].action # "create" /\ backup[s] = Absent
  BY <1>1 DEF UndoInv, Displaced, Now
<1> HIDE DEF op
<1>4. CASE RemoveBase(op) /\ SameOp(1) /\ plan[k].action = "create"
  <2>1. half' = 1 /\ pos' = pos /\ base'[p] = Absent
    BY <1>1, <1>4 DEF RemoveBase, SameOp
  <2> QED
    BY <1>4, <2>1 DEF Now, Reversible
<1>5. CASE RemoveStaged(op) /\ PrevOp /\ (half = 2 \/ (half = 1 /\ plan[k].action = "create"))
  <2>1. half' = 0 /\ pos' = pos - 1 /\ staged'[s] = Absent /\ base'[p] = base[p] /\ backup'[s] = backup[s]
    BY <1>1, <1>5 DEF RemoveStaged, PrevOp
  <2>2. backup[s] = Absent /\ (plan[k].action = "create" => base[p] = Absent)
    BY <1>2, <1>3, <1>5
  <2>3. Undone(k)' /\ Reversible(k)'
    BY <1>2, <2>1, <2>2 DEF Undone, Reversible, Displaced, Incoming, Now, Was
  <2> QED
    BY <2>1, <2>3
<1>6. CASE RemoveBase(op) /\ SameOp(1) /\ plan[k].action # "create" /\ backup[s] # Absent
  <2>1. half' = 1 /\ pos' = pos /\ backup'[s] = backup[s]
    BY <1>1, <1>6 DEF RemoveBase, SameOp
  <2> QED
    BY <1>2, <1>6, <2>1 DEF Displaced, Reversible, Was
<1>7. CASE /\ AfterRestore(op) /\ plan[k].action # "create" /\ UNCHANGED staged
           /\ backup'[s] = Absent
           /\ plan[k].action \in {"replace", "remove"} => base'[p] = before[p]
  <2>1. Reversible(k)'
    BY <1>7 DEF Reversible, Displaced, Now, Was
  <2>2. CASE plan[k].action = "remove"
    <3>1. half' = 0 /\ pos' = pos - 1
      BY <1>1, <1>7, <2>2 DEF AfterRestore, PrevOp
    <3>2. Undone(k)'
      BY <1>2, <1>7, <2>2 DEF Undone, Displaced, Incoming
    <3> QED
      BY <2>1, <3>1, <3>2
  <2>3. CASE plan[k].action # "remove"
    <3>1. half' = 2 /\ pos' = pos
      BY <1>1, <1>7, <2>3 DEF AfterRestore, SameOp
    <3> QED
      BY <1>7, <2>1, <3>1 DEF Displaced
  <2> QED
    BY <2>2, <2>3
<1>8. CASE rollbackCreate(op)
  BY <1>1, <1>4, <1>5, <1>8 DEF rollbackCreate
<1>9. CASE rollbackDisplaced(op)
  <2>1. plan[k].action # "create"
    BY <1>1, <1>9 DEF rollbackDisplaced
  <2>2. CASE half = 0 /\ backup[stem[op.path]] # Absent /\ RemoveBase(op) /\ SameOp(1)
    BY <1>1, <1>6, <2>1, <2>2
  <2>3. CASE half = 0 /\ backup[stem[op.path]] = Absent /\ UNCHANGED disk /\ AfterRestore(op)
    BY <1>1, <1>2, <1>7, <2>1, <2>3 DEF disk
  <2>4. CASE half = 1 /\ RestoreBackup(op) /\ AfterRestore(op)
    <3>1. backup'[s] = Absent /\ base'[p] = backup[s] /\ UNCHANGED staged
      BY <1>1, <2>4 DEF RestoreBackup
    <3> QED
      BY <1>2, <1>3, <1>7, <2>1, <2>4, <3>1
  <2>5. CASE half = 2 /\ RemoveStaged(op) /\ PrevOp
    BY <1>5, <2>5
  <2> QED
    BY <1>9, <2>2, <2>3, <2>4, <2>5 DEF rollbackDisplaced
<1> QED
  BY <1>8, <1>9 DEF rollbackOp, op

LEMMA RollbackOpsKeeps ==
  ASSUME IInv, StemsApart, rollbackOps, TInv'
  PROVE  IInv'
<1>1. /\ UNCHANGED <<plan, before, rows, state, ops, pc, undoFailed>>
      /\ pc = "undo" /\ Pending /\ rollbackOp(ops[pos]) /\ Open /\ UndoInv
      /\ Len(ops) <= Len(plan) /\ pos > 0 /\ pos <= Len(ops)
  BY DEF rollbackOps, hist, IInv, Phases, Open
<1>2. PICK k \in Index : k = pos
  BY <1>1, Lengths DEF Index
<1>3. SameWork(k)
  BY <1>1, <1>2, Lengths DEF IInv, Phases, Index
<1>4. /\ \/ half' = 1 /\ pos' = pos /\ plan[k].action = "create" /\ (Now(k))' = Absent
         \/ half' = 1 /\ pos' = pos /\ plan[k].action # "create" /\ (Displaced(k))' # Absent
         \/ half' = 2 /\ pos' = pos /\ plan[k].action # "create" /\ (Displaced(k))' = Absent
         \/ half' = 0 /\ pos' = pos - 1 /\ Undone(k)'
      /\ Reversible(k)'
  BY <1>1, <1>2, <1>3, OpRetreats
<1>5. /\ \A p \in Path : p # plan[k].path => base'[p] = base[p]
      /\ \A s \in Stem : s # stem[plan[k].path] => staged'[s] = staged[s] /\ backup'[s] = backup[s]
  BY <1>1, <1>2, <1>3, Elsewhere, SameKind
<1>6. ~Full => UNCHANGED <<base, staged, backup>>
  <2> SUFFICES ASSUME ~Full
               PROVE  UNCHANGED <<base, staged, backup>>
    OBVIOUS
  <2>1. Clean
    BY <1>1 DEF Open
  <2>2. backup[stem[plan[k].path]] = Absent /\ staged[stem[plan[k].path]] = Absent
    BY <2>1, PlanFields DEF Clean, Empty
  <2>3. plan[k].action = "create" => base[plan[k].path] = Absent
    BY <2>1 DEF Clean, IInv, WellPlanned, Was
  <2>4. half = 1 => ops[k].action = "create"
    BY <1>1, <1>2, <2>2 DEF UndoInv, Displaced
  <2>5. /\ base \in [Path -> File] /\ staged \in [Stem -> File]
        /\ ops[k].path = plan[k].path /\ (ops[k].action = "create" <=> plan[k].action = "create")
    BY <1>3, SameKind DEF IInv, TInv, DiskTypes
  <2>6. CASE rollbackCreate(ops[k])
    BY <2>2, <2>3, <2>5, <2>6 DEF rollbackCreate, RemoveBase, RemoveStaged
  <2>7. CASE rollbackDisplaced(ops[k])
    BY <2>2, <2>4, <2>5, <2>7 DEF rollbackDisplaced, RemoveStaged, BacksUp, disk
  <2> QED
    BY <1>1, <1>2, <2>6, <2>7 DEF rollbackOp
<1>7. ASSUME NEW i \in Index, i # k
      PROVE  UNCHANGED <<Now(i), Was(i), Incoming(i), Displaced(i)>>
  <2>1. CASE Full
    BY <1>1, <1>5, <1>7, <2>1, Apart, PlanFields DEF Now, Was, Incoming, Displaced
  <2>2. CASE ~Full
    BY <1>1, <1>6, <2>2 DEF Now, Was, Incoming, Displaced
  <2> QED
    BY <2>1, <2>2
<1>8. UndoInv'
  <2>1. ~undoFailed' => \A i \in Index' : i > pos' => Undone(i)'
    <3> SUFFICES ASSUME ~undoFailed', NEW i \in Index, i > pos'
                 PROVE  Undone(i)'
      BY <1>1 DEF Index
    <3>1. CASE i = k
      BY <1>2, <1>4, <3>1, Lengths DEF Index
    <3>2. CASE i # k
      <4>1. Undone(i)
        BY <1>1, <1>2, <1>4, <3>2, Lengths DEF UndoInv, Index
      <4> QED
        BY <1>1, <1>7, <3>2, <4>1 DEF Undone
    <3> QED
      BY <3>1, <3>2
  <2>2. pos' = pos => /\ ops'[pos'] = ops[k]
                      /\ ops[k].action = "create" <=> plan[k].action = "create"
                      /\ (Displaced(k))' = Displaced(pos)' /\ (Now(k))' = Now(pos)'
    BY <1>1, <1>2, <1>3, SameKind DEF Displaced, Now
  <2>3. half' # 0 => pos' = pos
    BY <1>4
  <2> QED
    BY <1>1, <1>4, <2>1, <2>2, <2>3 DEF UndoInv
<1>9. Open'
  <2>1. ASSUME NEW i \in Index
        PROVE  Reversible(i)'
    <3>1. CASE i = k
      BY <1>4, <3>1
    <3>2. CASE i # k
      BY <1>1, <1>7, <3>2 DEF Open, Reversible
    <3> QED
      BY <3>1, <3>2
  <2>2. (\A p \in Path : ~Planned(p) => base[p] = before[p])'
    <3> SUFFICES ASSUME NEW p \in Path, ~Planned(p)
                 PROVE  base'[p] = before'[p]
      BY <1>1 DEF Planned
    <3>1. p # plan[k].path
      BY DEF Planned, Index
    <3> QED
      BY <1>1, <1>5, <3>1 DEF Open
  <2>3. Accounted'
    <3>1. /\ ops[k].path = plan[k].path
          /\ staged \in [Stem -> File] /\ backup \in [Stem -> File]
      BY <1>3, SameKind DEF IInv, TInv, DiskTypes
    <3>2. \/ UNCHANGED disk \/ RemoveBase(ops[k]) \/ RemoveStaged(ops[k]) \/ RestoreBackup(ops[k])
      BY <1>1, <1>2 DEF rollbackOp, rollbackCreate, rollbackDisplaced
    <3>3. /\ staged'[stem[plan[k].path]] \in {Absent, staged[stem[plan[k].path]]}
          /\ backup'[stem[plan[k].path]] \in {Absent, backup[stem[plan[k].path]]}
      BY <3>1, <3>2, PlanFields DEF RemoveBase, RemoveStaged, RestoreBackup, disk
    <3> QED
      BY <1>1, <1>5, <3>3, StillAccounted DEF Open
  <2>4. (~Full \/ pc = "journal" => Clean)'
    <3>1. Full' = Full /\ pc' # "journal"
      BY <1>1 DEF Full
    <3>2. ~Full => Clean'
      BY <1>1, <1>6 DEF Open, Clean, Empty
    <3> QED
      BY <3>1, <3>2
  <2>5. (\A i \in Index : Reversible(i))'
    BY <1>1, <2>1 DEF Index
  <2> QED
    BY <2>2, <2>3, <2>4, <2>5 DEF Open
<1>10. Journalled' /\ WellPlanned'
  BY <1>1, QuietPlan
<1>11. Phases'
  BY <1>1, <1>4, Lengths DEF Phases, Pending, Full, IInv, SameWork
<1>12. NoLitter' /\ KeepsDisplaced'
  BY <1>1 DEF NoLitter, KeepsDisplaced, Pending
<1> QED
  BY <1>1, <1>8, <1>9, <1>10, <1>11, <1>12 DEF IInv, Pending

-----------------------------------------------------------------------------
(* The invariant, and what it gives.                                       *)

LEMMA NextKeeps ==
  ASSUME IInv, StemsApart, [Next]_vars
  PROVE  IInv'
<1>1. TInv'
  BY NextTyped DEF IInv
<1>2. CASE UNCHANGED vars
  <2>1. UNCHANGED <<base, staged, backup, plan, before, rows, state, ops, pos, half, undoFailed, pc>>
    BY <1>2 DEF vars, disk, hist, proc
  <2>2. Journalled' /\ WellPlanned' /\ NoLitter' /\ KeepsDisplaced'
    BY <2>1, QuietPlan
  <2>3. Phases'
    BY <2>1 DEF Phases, Pending, Full, IInv, SameWork
  <2>4. Pending' => Open'
    BY <2>1, QuietOpen DEF IInv, Pending
  <2>5. UNCHANGED <<Index, StageInv, ApplyInv, UndoInv, \A i \in Index : Done(i)>>
    BY <2>1 DEF StageInv, ApplyInv, UndoInv, Index, Waiting, Halfway, Done, Undone,
                Now, Was, Incoming, Displaced, Stages, BacksUp, Empty
  <2> QED
    BY <1>1, <2>1, <2>2, <2>3, <2>4, <2>5 DEF IInv
<1>3. CASE Next
  <2>1. CASE \E list \in Plans : Begin(list)
    BY <1>1, <2>1, BeginKeeps
  <2>2. CASE \E p \in Path, c \in File : OperatorEdit(p, c)
    BY <1>1, <2>2, EditKeeps
  <2>3. CASE Decline \/ finished \/ finishFails \/ Crash
    <3>1. Leave /\ UNCHANGED <<base, staged, backup, plan, before, rows, state>>
      BY <2>3 DEF Decline, finished, finishFails, Crash, disk, hist
    <3> QED
      BY <1>1, <3>1, LeaveKeeps
  <2> QED
    BY <1>1, <1>3, <2>1, <2>2, <2>3, ExecuteKeeps, WriteJournalKeeps, PhaseKeeps, MaterializeKeeps,
       CommitOpsKeeps, CommitTxnKeeps, DiscardKeeps, AbandonKeeps, RollbackOpsKeeps,
       UndoFailsKeeps, FinishRolledBackKeeps
    DEF Next, Step
<1> QED
  BY <1>2, <1>3

LEMMA InitKeeps == Init => IInv
<1> SUFFICES ASSUME Init
             PROVE  IInv
  OBVIOUS
<1>1. TInv
  BY InitTyped
<1>2. Journalled /\ WellPlanned /\ Phases /\ NoLitter /\ KeepsDisplaced
  BY DEF Init, Journalled, WellPlanned, Phases, NoLitter, KeepsDisplaced, Pending, Index
<1> QED
  BY <1>1, <1>2 DEF Init, IInv, Pending

(* What is half-way or done can be reversed.                               *)
LEMMA OpenIsRecoverable ==
  ASSUME IInv
  PROVE  Recoverable
<1> SUFFICES ASSUME Pending, NEW p \in Path, ~Swapped(p)
             PROVE  RecoveredImage[p] = before[p]
  BY DEF Recoverable
<1>1. CASE Created(p)
  BY <1>1 DEF Created, RecoveredImage, IInv, WellPlanned, Index, Was
<1>2. CASE ~Created(p) /\ ~Planned(p)
  BY <1>2 DEF RecoveredImage, IInv, Open
<1>3. CASE ~Created(p) /\ Planned(p)
  <2>1. PICK i \in Index : plan[i].path = p
    BY <1>3 DEF Planned, Index
  <2>2. plan[i].action \in {"replace", "remove"}
    BY <1>3, <2>1, PlanFields DEF Created, Swapped, Index, Action
  <2>3. Reversible(i)
    BY DEF IInv, Open
  <2> QED
    BY <1>3, <2>1, <2>2, <2>3 DEF RecoveredImage, Reversible, Displaced, Now, Was
<1> QED
  BY <1>1, <1>2, <1>3

(* The inductive invariant: whatever is pending is journalled, each        *)
(* operation is waiting, half-way or done in an order the phase allows     *)
(* (commitOps, rollbackOps), and what is finished left nothing behind.     *)
THEOREM Invariance ==
  ASSUME StemsApart
  PROVE  Spec => []IInv
BY InitKeeps, NextKeeps, PTL DEF Spec

(* However far a transaction and the attempts to undo it got, reversing    *)
(* what the journal lists gives back the files there were when it began    *)
(* (rollbackOps, rollbackTxn).                                             *)
THEOREM AlwaysRecoverable ==
  ASSUME StemsApart
  PROVE  Spec => []Recoverable
BY OpenIsRecoverable, Invariance, PTL

(* A finished transaction leaves no sibling it should not (commitOps,      *)
(* rollbackOps).                                                           *)
THEOREM LeavesNoLitter ==
  ASSUME StemsApart
  PROVE  Spec => []NoLitter
<1>1. IInv => NoLitter
  BY DEF IInv
<1> QED
  BY <1>1, Invariance, PTL

(* Content displaced with keepBackup outlives the commit (commitReplace,   *)
(* commitRemove, discardBackups).                                          *)
THEOREM DisplacedStays ==
  ASSUME StemsApart
  PROVE  Spec => []KeepsDisplaced
<1>1. IInv => KeepsDisplaced
  BY DEF IInv
<1> QED
  BY <1>1, Invariance, PTL

-----------------------------------------------------------------------------
(* FileTxn implements AtomicInstall on payload paths.                      *)

image == [p \in PayloadPath |-> IF Pending THEN RecoveredImage[p] ELSE base[p]]
payloadRecord == [p \in PayloadPath |-> record[p]]
payloadEdited == edited \cap PayloadPath

(* Until the boundary the root is what it was before.                      *)
LEMMA ImagePending ==
  ASSUME IInv, Pending
  PROVE  image = [p \in PayloadPath |-> before[p]]
<1> SUFFICES ASSUME NEW p \in PayloadPath
             PROVE  RecoveredImage[p] = before[p]
  BY DEF image
<1>1. p \in Path /\ ~Swapped(p)
  BY DEF PayloadPath, Swapped, IInv, WellPlanned, Index
<1> QED
  BY <1>1, OpenIsRecoverable DEF Recoverable

LEMMA ImageSettled ==
  ASSUME ~Pending
  PROVE  image = [p \in PayloadPath |-> base[p]]
BY DEF image

(* The boundary is where the whole list shows.                             *)
LEMMA CommitApplies ==
  ASSUME IInv, StemsApart, commitTxn
  PROVE  \E S \in SUBSET PayloadPath : \E changes \in [S -> File] :
           /\ image' = [p \in PayloadPath |-> IF p \in DOMAIN changes THEN changes[p] ELSE image[p]]
           /\ payloadRecord' =
                [p \in PayloadPath |-> IF p \in DOMAIN changes THEN changes[p] ELSE payloadRecord[p]]
           /\ payloadEdited' = payloadEdited \ DOMAIN changes
<1> DEFINE S == {p \in PayloadPath : Planned(p)}
           changes == [p \in S |-> base[p]]
<1>1. /\ base' = base /\ ops = plan /\ Pending /\ ~Pending' /\ Full /\ Open
      /\ record' = Recorded(plan, record)
      /\ edited' = {p \in edited : \A i \in 1 .. Len(plan) : plan[i].path # p}
      /\ \A i \in Index : Done(i)
  BY DEF commitTxn, disk, IInv, Phases, Open, Pending
<1>2. S \in SUBSET PayloadPath /\ changes \in [S -> File]
  BY DEF IInv, TInv, DiskTypes, PayloadPath
<1>3. \A p \in PayloadPath : ~Planned(p) => base[p] = before[p]
  BY <1>1 DEF Open, PayloadPath
<1>4. image' = [p \in PayloadPath |-> base[p]]
  BY <1>1 DEF image
<1>5. image = [p \in PayloadPath |-> before[p]]
  BY <1>1, ImagePending
<1>6. image' = [p \in PayloadPath |-> IF p \in DOMAIN changes THEN changes[p] ELSE image[p]]
  BY <1>3, <1>4, <1>5
<1>7. ASSUME NEW p \in PayloadPath
      PROVE  Recorded(plan, record)[p] = IF p \in S THEN base[p] ELSE record[p]
  <2>1. CASE Planned(p)
    <3> DEFINE i == CHOOSE i \in 1 .. Len(plan) : plan[i].path = p
    <3>1. i \in Index /\ plan[i].path = p
      BY <2>1 DEF Planned, Index
    <3>2. plan[i].new = base[p]
      BY <1>1, <3>1 DEF Done, Now
    <3>3. Recorded(plan, record)[p] = plan[i].new
      BY <2>1 DEF Recorded, Planned, PayloadPath
    <3> QED
      BY <2>1, <3>2, <3>3
  <2>2. CASE ~Planned(p)
    BY <2>2 DEF Recorded, Planned, PayloadPath
  <2> QED
    BY <2>1, <2>2
<1>8. payloadRecord' =
        [p \in PayloadPath |-> IF p \in DOMAIN changes THEN changes[p] ELSE payloadRecord[p]]
  BY <1>1, <1>7 DEF payloadRecord
<1>9. payloadEdited' = payloadEdited \ DOMAIN changes
  BY <1>1 DEF payloadEdited, Planned
<1> QED
  BY <1>2, <1>6, <1>8, <1>9

(* A rollback that ends has put back what the journal could restore.       *)
LEMMA RollbackRestoresImage ==
  ASSUME IInv, StemsApart, finishRolledBack, ~undoFailed
  PROVE  image' = image
<1>1. /\ base' = base /\ Pending /\ ~Pending' /\ Open /\ UndoInv /\ pos = 0
  BY DEF finishRolledBack, disk, IInv, Phases, Open, Pending
<1>2. ASSUME NEW p \in PayloadPath
      PROVE  base[p] = before[p]
  <2>1. CASE ~Planned(p)
    BY <1>1, <2>1 DEF Open, PayloadPath
  <2>2. CASE Planned(p)
    <3>1. PICK i \in Index : plan[i].path = p
      BY <2>2 DEF Planned, Index
    <3>2. Undone(i)
      BY <1>1, Lengths DEF UndoInv, Index
    <3>3. plan[i].action # "swap"
      BY <3>1 DEF IInv, WellPlanned, PayloadPath
    <3>4. Reversible(i) /\ (plan[i].action = "create" => Was(i) = Absent)
      BY <1>1 DEF Open, IInv, WellPlanned
    <3> QED
      BY <3>1, <3>2, <3>3, <3>4, PlanFields DEF Undone, Reversible, Now, Was, Action
  <2> QED
    BY <2>1, <2>2
<1>3. image = [p \in PayloadPath |-> before[p]] /\ image' = [p \in PayloadPath |-> base[p]]
  BY <1>1, ImagePending DEF image
<1> QED
  BY <1>2, <1>3

(* Every step of the executor is a step of the abstraction or none.        *)
LEMMA StepRefines ==
  ASSUME IInv, StemsApart, [Next]_vars, IInv'
  PROVE  \/ UNCHANGED <<image, payloadRecord, payloadEdited>>
         \/ \E S \in SUBSET PayloadPath : \E changes \in [S -> File] :
              /\ image' = [p \in PayloadPath |-> IF p \in DOMAIN changes THEN changes[p] ELSE image[p]]
              /\ payloadRecord' =
                   [p \in PayloadPath |-> IF p \in DOMAIN changes THEN changes[p] ELSE payloadRecord[p]]
              /\ payloadEdited' = payloadEdited \ DOMAIN changes
         \/ \E p \in PayloadPath, c \in File :
              /\ image' = [image EXCEPT ![p] = c]
              /\ payloadEdited' = payloadEdited \cup {p}
              /\ UNCHANGED payloadRecord
<1>1. CASE commitTxn
  BY <1>1, CommitApplies
<1>2. CASE finishRolledBack /\ ~undoFailed
  BY <1>2, RollbackRestoresImage DEF finishRolledBack, payloadRecord, payloadEdited
<1>3. ASSUME NEW list \in Plans, Begin(list)
      PROVE  UNCHANGED <<image, payloadRecord, payloadEdited>>
  <2>1. /\ ~Pending /\ Pending' /\ before' = base
        /\ UNCHANGED <<record, edited>>
    BY <1>3 DEF Begin, IInv, Phases, Pending
  <2>2. image' = [p \in PayloadPath |-> before'[p]]
    <3>1. (IInv /\ Pending)' => (image = [p \in PayloadPath |-> before[p]])'
      BY ImagePending, PTL
    <3> QED
      BY <2>1, <3>1
  <2> QED
    BY <2>1, <2>2, ImageSettled DEF payloadRecord, payloadEdited
<1>4. ASSUME NEW p \in Path, NEW c \in File, OperatorEdit(p, c)
      PROVE  \/ UNCHANGED <<image, payloadRecord, payloadEdited>>
             \/ /\ p \in PayloadPath /\ image' = [image EXCEPT ![p] = c]
                /\ payloadEdited' = payloadEdited \cup {p}
                /\ UNCHANGED payloadRecord
  <2>1. /\ ~Pending /\ ~Pending' /\ base' = [base EXCEPT ![p] = c] /\ edited' = edited \cup {p}
        /\ UNCHANGED record /\ base \in [Path -> File]
    BY <1>4 DEF OperatorEdit, Pending, IInv, TInv, DiskTypes
  <2>2. image = [q \in PayloadPath |-> base[q]] /\ image' = [q \in PayloadPath |-> base'[q]]
    BY <2>1 DEF image
  <2>3. CASE p \in PayloadPath
    BY <2>1, <2>2, <2>3 DEF payloadRecord, payloadEdited, PayloadPath
  <2>4. CASE p \notin PayloadPath
    BY <2>1, <2>2, <2>4 DEF payloadRecord, payloadEdited, PayloadPath
  <2> QED
    BY <2>3, <2>4
<1>5. CASE /\ UNCHANGED <<state, record, edited, before>>
           /\ Pending \/ UNCHANGED base
  <2>1. CASE Pending
    <3>1. image' = [p \in PayloadPath |-> before'[p]]
      <4>1. (IInv /\ Pending)' => (image = [p \in PayloadPath |-> before[p]])'
        BY ImagePending, PTL
      <4> QED
        BY <1>5, <2>1, <4>1 DEF Pending
    <3> QED
      BY <1>5, <2>1, <3>1, ImagePending DEF payloadRecord, payloadEdited
  <2>2. CASE ~Pending
    <3>1. ~Pending' /\ base' = base
      BY <1>5, <2>2 DEF Pending
    <3> QED
      BY <1>5, <2>2, <3>1 DEF image, payloadRecord, payloadEdited
  <2> QED
    BY <2>1, <2>2
<1>6. CASE commitOps \/ rollbackOps
  <2>1. Pending /\ UNCHANGED <<state, record, edited, before>>
    BY <1>6 DEF commitOps, rollbackOps, hist, IInv, Phases
  <2> QED
    BY <1>5, <2>1
<1>7. CASE /\ ~commitTxn /\ ~commitOps /\ ~rollbackOps
           /\ ~(finishRolledBack /\ ~undoFailed)
           /\ ~(\E list \in Plans : Begin(list))
           /\ ~(\E p \in Path, c \in File : OperatorEdit(p, c))
  <2>1. UNCHANGED <<state, record, edited, before, base>>
    BY <1>7 DEF Next, Step, Execute, Decline, writeJournal, journalWritten, materialize, materialized,
                applied, discardBackups, finished, abandon, finishRolledBack, discardFails,
                rollbackOpFails, finishFails, Crash, disk, hist, vars
  <2> QED
    BY <1>5, <2>1
<1> QED
  BY <1>1, <1>2, <1>3, <1>4, <1>6, <1>7

(* The executor implements AtomicInstall: whatever is killed or fails, a   *)
(* transaction shows entirely and with its record, or not at all (Execute, *)
(* commitTxn, recoverPending).                                             *)
THEOREM Refinement ==
  ASSUME StemsApart
  PROVE  Spec => Refines
<1>1. Init => Atomic!Init
  BY DEF Init, Pending, Atomic!Init, PayloadPath
<1>2. IInv /\ IInv' /\ [Next]_vars =>
        [Atomic!Next]_<<image, payloadRecord, payloadEdited>>
  BY StepRefines DEF Atomic!Next, Atomic!Apply, Atomic!Edit, Atomic!Over, image, payloadRecord, payloadEdited
<1> QED
  BY <1>1, <1>2, Invariance, PTL DEF Spec, Refines, Atomic!Spec, image, payloadRecord, payloadEdited
=============================================================================
