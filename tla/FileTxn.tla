------------------------------- MODULE FileTxn -------------------------------
(***************************************************************************)
(* One root's transaction executor, at the granularity of the single       *)
(* system call: internal/install/files.go (commitOp, rollbackOp,           *)
(* discardBackups), the phases of execute.go that drive it (prepareTxn,    *)
(* commitTxn, finishRolledBack, recoverPending, rollbackTxn) and the       *)
(* journal that makes it recoverable (journal.go, db/txn.go).              *)
(*                                                                         *)
(* A process may be killed between any two steps and any call may fail.    *)
(* What survives a kill is the disk (base, staged, backup), the txn and    *)
(* txn_file rows (state, rows) and the recorded package state (record);    *)
(* what is lost is the process's own memory (pc, ops, pos, half,           *)
(* undoFailed).                                                            *)
(*                                                                         *)
(* The three sibling names of a path.  A transaction moves content between *)
(* the destination itself and two temporary siblings, <stem>.staged-<txn>  *)
(* and <stem>.backup-<txn>.  base is indexed by path; staged and backup are *)
(* indexed by stem, because tempPath truncates a long base name, so two    *)
(* long paths may share a stem.  The names carry the transaction id and    *)
(* ids are never reused, so a new transaction starts with both empty.      *)
(*                                                                         *)
(* Abstracted: the parent directories of the paths exist and stay; file    *)
(* content, mode and link target are one value of Content.                 *)
(***************************************************************************)
EXTENDS Naturals, Sequences

CONSTANTS Path,      \* destination paths under the root
          ClaimPath, \* those among them where claim links are materialised
          Content,   \* what can be at a path: file bytes or a link target
          Absent,    \* nothing there
          Stem,      \* truncated base names
          stem,      \* tempPath's truncation, a function from Path to Stem
          Plans,     \* the file-operation lists a plan may stage
          MaxTxn,    \* bound: transactions begun
          MaxCrash,  \* bound: kills
          MaxFault,  \* bound: failing calls
          MaxEdit    \* bound: operator edits

File == Content \cup {Absent}
Action == {"create", "replace", "remove", "swap"}
FileOp == [path : Path, action : Action, new : File, keep : BOOLEAN]
Row == [path : Path, action : {"create", "replace", "remove"}]

ASSUME ConstantsAssumption ==
  /\ Absent \notin Content
  /\ ClaimPath \subseteq Path
  /\ stem \in [Path -> Stem]
  /\ Plans \subseteq Seq(FileOp)
  /\ \A list \in Plans : \A i \in 1 .. Len(list) :
        /\ (list[i].new = Absent) <=> (list[i].action = "remove")
        /\ list[i].action = "swap" => list[i].path \in ClaimPath
  /\ MaxTxn \in Nat /\ MaxCrash \in Nat /\ MaxFault \in Nat /\ MaxEdit \in Nat

VARIABLES base,        \* [Path -> File]: what is at each destination
          staged,      \* [Stem -> File]: incoming content
          backup,      \* [Stem -> File]: displaced content
          state,       \* state of the newest txn row, "none" before the first
          rows,        \* its txn_file rows, in seq order
          record,      \* [Path -> File]: the package_file and claim_link rows
          pc,          \* the phase of the process holding the lock
          ops,         \* its []fileOp
          pos,         \* the operation it is at
          half,        \* system calls of that operation already made
          undoFailed,  \* some rollbackOp of this pass returned an error
          txns, crashes, faults, edits,  \* counters of the bounds
          plan,        \* history: the operations the newest transaction staged
          before,      \* history: base when it began
          edited       \* history: paths the operator changed since recorded

disk == <<base, staged, backup>>
proc == <<pc, ops, pos, half, undoFailed>>
bounds == <<txns, crashes, faults, edits>>
hist == <<plan, before>>
vars == <<disk, state, rows, record, proc, bounds, hist, edited>>

PayloadPath == Path \ ClaimPath
Pending == state = "pending"
Empty == [s \in Stem |-> Absent]
Stages(op) == op.action # "remove"
BacksUp(op) == op.action # "create"

-----------------------------------------------------------------------------
(* Recovery has the journal only: a swap comes back as a replace, the      *)
(* staged content is not recorded and keepBackup is lost.                  *)
(* Mutant: a swap is journalled under its own name.                        *)
txnFileAction_Raw(a) == a

txnFileAction(a) == IF a = "swap" THEN "replace" ELSE a
journalRow(op) == [path |-> op.path, action |-> txnFileAction(op.action)]
fileOpsFromJournal ==
  [i \in 1 .. Len(rows) |->
     [path |-> rows[i].path, action |-> rows[i].action, new |-> Absent, keep |-> FALSE]]

(* plannedOp: a destination that exists is replaced (or swapped, for a     *)
(* claim link), one that does not is created.  A removal is planned from   *)
(* the package's recorded files, so its destination may be gone.           *)
plannedOp(op) ==
  CASE op.action = "create" -> base[op.path] = Absent
    [] op.action = "remove" -> TRUE
    [] OTHER -> base[op.path] # Absent

Init ==
  /\ base \in [Path -> File] /\ record = base
  /\ staged = Empty /\ backup = Empty
  /\ state = "none" /\ rows = <<>>
  /\ pc = "idle" /\ ops = <<>> /\ pos = 0 /\ half = 0 /\ undoFailed = FALSE
  /\ txns = 0 /\ crashes = 0 /\ faults = 0 /\ edits = 0
  /\ plan = <<>> /\ before = base /\ edited = {}

Fault == faults < MaxFault /\ faults' = faults + 1 /\ UNCHANGED <<txns, crashes, edits>>

Goto(phase, list, at) ==
  /\ pc' = phase /\ ops' = list /\ pos' = at /\ half' = 0 /\ undoFailed' = FALSE
Leave == Goto("idle", <<>>, 0)
StartUndo == Goto("undo", ops, Len(ops))

-----------------------------------------------------------------------------
(* Execute: take the lock, then recoverPending before anything else.  A    *)
(* journal left pending sends the process into the rollback of what the    *)
(* journal lists; otherwise it may begin.                                  *)
Execute ==
  /\ pc = "idle"
  /\ IF Pending THEN Goto("undo", fileOpsFromJournal, Len(rows))
                ELSE Goto("ready", <<>>, 0)
  /\ UNCHANGED <<disk, state, rows, record, bounds, hist, edited>>

(* BeginCrossRootTxn opens the journal row under a fresh id; every file    *)
(* operation is then computed against the disk as it is.                   *)
Begin(list) ==
  /\ pc = "ready" /\ txns < MaxTxn
  /\ \A i \in 1 .. Len(list) : plannedOp(list[i])
  /\ state' = "pending" /\ rows' = <<>>
  /\ staged' = Empty /\ backup' = Empty
  /\ Goto("journal", list, 1)
  /\ txns' = txns + 1
  /\ plan' = list /\ before' = base
  /\ UNCHANGED <<base, record, crashes, faults, edits, edited>>

(* A plan with nothing to do, or an operator who declines: the lock is     *)
(* released and nothing was written.                                       *)
Decline ==
  /\ pc = "ready" /\ Leave
  /\ UNCHANGED <<disk, state, rows, record, bounds, hist, edited>>

(* InsertTxnFiles inserts row by row, outside any SQL transaction.  Its    *)
(* primary key is (txn_id, final_path): a second row for a path fails.     *)
writeJournal ==
  /\ pc = "journal" /\ pos <= Len(ops)
  /\ \A i \in 1 .. Len(rows) : rows[i].path # ops[pos].path
  /\ rows' = Append(rows, journalRow(ops[pos]))
  /\ pos' = pos + 1
  /\ UNCHANGED <<disk, state, record, pc, ops, half, undoFailed, bounds, hist, edited>>

journalWritten ==
  /\ pc = "journal" /\ pos > Len(ops)
  /\ Goto("stage", ops, 1)
  /\ UNCHANGED <<disk, state, rows, record, bounds, hist, edited>>

DuplicateRow ==
  pos <= Len(ops) /\ \E i \in 1 .. Len(rows) : rows[i].path = ops[pos].path

(* materializePackage, materializeClaims: O_EXCL creation of each staged   *)
(* sibling.  A removal stages nothing.                                     *)
materialize ==
  /\ pc = "stage" /\ pos <= Len(ops)
  /\ IF Stages(ops[pos])
       THEN /\ staged[stem[ops[pos].path]] = Absent
            /\ staged' = [staged EXCEPT ![stem[ops[pos].path]] = ops[pos].new]
       ELSE UNCHANGED staged
  /\ pos' = pos + 1
  /\ UNCHANGED <<base, backup, state, rows, record, pc, ops, half, undoFailed,
                 bounds, hist, edited>>

materialized ==
  /\ pc = "stage" /\ pos > Len(ops)
  /\ Goto("apply", ops, 1)
  /\ UNCHANGED <<disk, state, rows, record, bounds, hist, edited>>

StagedNameTaken ==
  pos <= Len(ops) /\ Stages(ops[pos]) /\ staged[stem[ops[pos].path]] # Absent

-----------------------------------------------------------------------------
(* The renames of commitOp, each within one directory.                     *)
InstallStaged(op) ==
  /\ staged[stem[op.path]] # Absent
  /\ base' = [base EXCEPT ![op.path] = staged[stem[op.path]]]
  /\ staged' = [staged EXCEPT ![stem[op.path]] = Absent]
  /\ UNCHANGED backup

BackUp(op) ==
  /\ base[op.path] # Absent
  /\ backup' = [backup EXCEPT ![stem[op.path]] = base[op.path]]
  /\ base' = [base EXCEPT ![op.path] = Absent]
  /\ UNCHANGED staged

Exchange(op) ==
  /\ base[op.path] # Absent /\ staged[stem[op.path]] # Absent
  /\ base' = [base EXCEPT ![op.path] = staged[stem[op.path]]]
  /\ staged' = [staged EXCEPT ![stem[op.path]] = base[op.path]]
  /\ UNCHANGED backup

SetAside(op) ==
  /\ staged[stem[op.path]] # Absent
  /\ backup' = [backup EXCEPT ![stem[op.path]] = staged[stem[op.path]]]
  /\ staged' = [staged EXCEPT ![stem[op.path]] = Absent]
  /\ UNCHANGED base

NextOp == pos' = pos + 1 /\ half' = 0
SameOp(h) == half' = h /\ UNCHANGED pos

commitCreate(op) == op.action = "create" /\ InstallStaged(op) /\ NextOp

(* Mutant: the replaced file is not backed up.                             *)
commitReplace_NoBackup(op) == op.action = "replace" /\ InstallStaged(op) /\ NextOp

commitReplace(op) ==
  /\ op.action = "replace"
  /\ \/ half = 0 /\ BackUp(op) /\ SameOp(1)
     \/ half = 1 /\ InstallStaged(op) /\ NextOp

commitRemove(op) ==
  /\ op.action = "remove"
  /\ IF base[op.path] = Absent THEN UNCHANGED disk ELSE BackUp(op)
  /\ NextOp

commitSwap(op) ==
  /\ op.action = "swap"
  /\ \/ half = 0 /\ Exchange(op) /\ SameOp(1)
     \/ half = 1 /\ SetAside(op) /\ NextOp

commitOp(op) == commitCreate(op) \/ commitReplace(op) \/ commitRemove(op) \/ commitSwap(op)

commitOps ==
  /\ pc = "apply" /\ pos <= Len(ops)
  /\ commitOp(ops[pos])
  /\ UNCHANGED <<state, rows, record, pc, ops, undoFailed, bounds, hist, edited>>

applied ==
  /\ pc = "apply" /\ pos > Len(ops)
  /\ Goto("commit", ops, 1)
  /\ UNCHANGED <<disk, state, rows, record, bounds, hist, edited>>

(* commitTxn: the recorded package state and the journal's closure change  *)
(* in one SQLite transaction - the durability boundary.                    *)
Recorded(list, rec) ==
  [p \in Path |->
     IF \E i \in 1 .. Len(list) : list[i].path = p
     THEN list[CHOOSE i \in 1 .. Len(list) : list[i].path = p].new
     ELSE rec[p]]

commitTxn ==
  /\ pc = "commit"
  /\ record' = Recorded(ops, record)
  /\ state' = "committed"
  /\ edited' = {p \in edited : \A i \in 1 .. Len(ops) : ops[i].path # p}
  /\ Goto("discard", ops, 1)
  /\ UNCHANGED <<disk, rows, bounds, hist>>

(* discardBackups: after the boundary, every backup but the kept ones goes. *)
(* A removal that fails is a warning.                                      *)
(* Mutant: keepBackup is ignored.                                          *)
discardBackups_All ==
  /\ pc = "discard" /\ pos <= Len(ops)
  /\ backup' = IF BacksUp(ops[pos])
               THEN [backup EXCEPT ![stem[ops[pos].path]] = Absent] ELSE backup
  /\ pos' = pos + 1
  /\ UNCHANGED <<base, staged, state, rows, record, pc, ops, half, undoFailed,
                 bounds, hist, edited>>

discardBackups ==
  /\ pc = "discard" /\ pos <= Len(ops)
  /\ backup' = IF BacksUp(ops[pos]) /\ ~ops[pos].keep
               THEN [backup EXCEPT ![stem[ops[pos].path]] = Absent] ELSE backup
  /\ pos' = pos + 1
  /\ UNCHANGED <<base, staged, state, rows, record, pc, ops, half, undoFailed,
                 bounds, hist, edited>>

discardFails ==
  /\ pc = "discard" /\ pos <= Len(ops) /\ BacksUp(ops[pos]) /\ ~ops[pos].keep
  /\ Fault /\ pos' = pos + 1
  /\ UNCHANGED <<disk, state, rows, record, pc, ops, half, undoFailed, hist, edited>>

finished ==
  /\ pc = "discard" /\ pos > Len(ops)
  /\ Leave
  /\ UNCHANGED <<disk, state, rows, record, bounds, hist, edited>>

-----------------------------------------------------------------------------
(* Any failure before the boundary abandons the transaction: the whole     *)
(* list is rolled back.  A duplicate journal row, a staged name already    *)
(* taken and a rename whose source is gone fail by themselves; anything    *)
(* else is a fault.  A staged write that fails may leave the file behind.  *)
SourceGone(op) ==
  \/ op.action \in {"create", "replace"} /\ half = (IF op.action = "create" THEN 0 ELSE 1)
       /\ staged[stem[op.path]] = Absent
  \/ op.action \in {"replace", "swap"} /\ half = 0 /\ base[op.path] = Absent
  \/ op.action = "swap" /\ staged[stem[op.path]] = Absent

Fails ==
  \/ pc = "journal" /\ DuplicateRow
  \/ pc = "stage" /\ StagedNameTaken
  \/ pc = "apply" /\ pos <= Len(ops) /\ SourceGone(ops[pos])

abandon ==
  /\ pc \in {"journal", "stage", "apply", "commit"}
  /\ (Fails /\ UNCHANGED bounds) \/ Fault
  /\ \/ UNCHANGED staged
     \/ /\ pc = "stage" /\ pos <= Len(ops) /\ Stages(ops[pos])
        /\ staged[stem[ops[pos].path]] = Absent
        /\ staged' = [staged EXCEPT ![stem[ops[pos].path]] = ops[pos].new]
  /\ StartUndo
  /\ UNCHANGED <<base, backup, state, rows, record, hist, edited>>

(* rollbackOp, call by call.  Every step looks before it acts.             *)
RemoveBase(op) == base' = [base EXCEPT ![op.path] = Absent] /\ UNCHANGED <<staged, backup>>
RemoveStaged(op) ==
  staged' = [staged EXCEPT ![stem[op.path]] = Absent] /\ UNCHANGED <<base, backup>>
RestoreBackup(op) ==
  /\ base' = [base EXCEPT ![op.path] = backup[stem[op.path]]]
  /\ backup' = [backup EXCEPT ![stem[op.path]] = Absent]
  /\ UNCHANGED staged

PrevOp == pos' = pos - 1 /\ half' = 0
(* Mutant: a displaced path keeps its staged sibling.                      *)
AfterRestore_Keeps(op) == op.path \in Path /\ PrevOp

AfterRestore(op) == IF Stages(op) THEN SameOp(2) ELSE PrevOp

(* Mutant: a created file is left in place.                                *)
rollbackCreate_Leaves(op) == op.action = "create" /\ RemoveStaged(op) /\ PrevOp

rollbackCreate(op) ==
  /\ op.action = "create"
  /\ \/ half = 0 /\ RemoveBase(op) /\ SameOp(1)
     \/ half = 1 /\ RemoveStaged(op) /\ PrevOp

rollbackDisplaced(op) ==
  /\ BacksUp(op)
  /\ \/ half = 0 /\ backup[stem[op.path]] # Absent /\ RemoveBase(op) /\ SameOp(1)
     \/ half = 0 /\ backup[stem[op.path]] = Absent /\ UNCHANGED disk /\ AfterRestore(op)
     \/ half = 1 /\ RestoreBackup(op) /\ AfterRestore(op)
     \/ half = 2 /\ RemoveStaged(op) /\ PrevOp

rollbackOp(op) == rollbackCreate(op) \/ rollbackDisplaced(op)

rollbackOps ==
  /\ pc = "undo" /\ pos > 0
  /\ rollbackOp(ops[pos])
  /\ UNCHANGED <<state, rows, record, pc, ops, undoFailed, bounds, hist, edited>>

(* A failing rollback step ends that operation; the others still run.      *)
rollbackOpFails ==
  /\ pc = "undo" /\ pos > 0
  /\ Fault /\ PrevOp /\ undoFailed' = TRUE
  /\ UNCHANGED <<disk, state, rows, record, pc, ops, hist, edited>>

(* finishRolledBack, rollbackTxn: the row is closed only by a rollback in  *)
(* which every step succeeded; otherwise it stays pending.                 *)
(* Mutant: the row is never closed.                                        *)
finishRolledBack_Never ==
  /\ pc = "undo" /\ pos = 0
  /\ Leave
  /\ UNCHANGED <<disk, state, rows, record, bounds, hist, edited>>

finishRolledBack ==
  /\ pc = "undo" /\ pos = 0
  /\ state' = IF undoFailed THEN state ELSE "rolled-back"
  /\ Leave
  /\ UNCHANGED <<disk, rows, record, bounds, hist, edited>>

finishFails ==
  /\ pc = "undo" /\ pos = 0 /\ ~undoFailed
  /\ Fault /\ Leave
  /\ UNCHANGED <<disk, state, rows, record, hist, edited>>

-----------------------------------------------------------------------------
(* The process is killed; the kernel releases its lock.                    *)
Crash ==
  /\ pc # "idle" /\ crashes < MaxCrash
  /\ crashes' = crashes + 1
  /\ Leave
  /\ UNCHANGED <<disk, state, rows, record, txns, faults, edits, hist, edited>>

(* The operator edits, adds or deletes a file between transactions.        *)
OperatorEdit(p, c) ==
  /\ pc = "idle" /\ ~Pending /\ edits < MaxEdit
  /\ c # base[p]
  /\ base' = [base EXCEPT ![p] = c]
  /\ edited' = edited \cup {p}
  /\ edits' = edits + 1
  /\ UNCHANGED <<staged, backup, state, rows, record, proc, txns, crashes, faults, hist>>

Step ==
  \/ writeJournal \/ journalWritten \/ materialize \/ materialized
  \/ commitOps \/ applied \/ commitTxn \/ discardBackups \/ finished
  \/ abandon \/ rollbackOps \/ finishRolledBack

Next ==
  \/ Execute \/ Decline \/ (\E list \in Plans : Begin(list))
  \/ Step \/ discardFails \/ rollbackOpFails \/ finishFails
  \/ Crash \/ (\E p \in Path, c \in File : OperatorEdit(p, c))

Spec == Init /\ [][Next]_vars

(* A started process keeps running unless it is killed, and peipkg is run  *)
(* again after it was.                                                     *)
FairSpec == Spec /\ WF_vars(Step) /\ WF_vars(Pending /\ Execute)

-----------------------------------------------------------------------------
(* What recovery would make of a path, were it to run now: the journalled  *)
(* operation on it reversed.  This is the root's real state while a        *)
(* transaction is pending.                                                 *)
Planned(p) == \E i \in 1 .. Len(plan) : plan[i].path = p
Swapped(p) == \E i \in 1 .. Len(plan) : plan[i].path = p /\ plan[i].action = "swap"
Created(p) == \E i \in 1 .. Len(plan) : plan[i].path = p /\ plan[i].action = "create"

RecoveredImage ==
  [p \in Path |->
     CASE Created(p) -> Absent
       [] Planned(p) /\ ~Created(p) /\ backup[stem[p]] # Absent -> backup[stem[p]]
       [] OTHER -> base[p]]

TypeOK ==
  /\ base \in [Path -> File] /\ record \in [Path -> File] /\ before \in [Path -> File]
  /\ staged \in [Stem -> File] /\ backup \in [Stem -> File]
  /\ state \in {"none", "pending", "committed", "rolled-back"}
  /\ rows \in Seq(Row) /\ ops \in Seq(FileOp) /\ plan \in Seq(FileOp)
  /\ pc \in {"idle", "ready", "journal", "stage", "apply", "commit", "discard", "undo"}
  /\ pos \in 0 .. Len(ops) + 1 /\ half \in 0 .. 2 /\ undoFailed \in BOOLEAN
  /\ txns \in 0 .. MaxTxn /\ crashes \in 0 .. MaxCrash /\ faults \in 0 .. MaxFault
  /\ edits \in 0 .. MaxEdit /\ edited \subseteq Path

(* However far a transaction got, and however far an earlier attempt to    *)
(* undo it got, reversing the journal yields the files that were there     *)
(* when it began: rollbackOps is "correct whether the transaction had not  *)
(* started, was partway through, or had fully applied".  A path repointed  *)
(* by a swap is left out: see RollbackRestores.                            *)
Recoverable ==
  Pending => \A p \in Path : ~Swapped(p) => RecoveredImage[p] = before[p]

(* A transaction recorded as rolled back has put every path back - the     *)
(* swapped ones included.                                                  *)
RollbackRestores ==
  [][Pending /\ state' = "rolled-back" => base' = before]_vars

(* keepBackup: content that an authorised overwrite or removal displaced   *)
(* outlives the commit, whatever interrupts the clean-up after it.         *)
KeepsDisplaced ==
  state = "committed" =>
    \A i \in 1 .. Len(plan) :
      plan[i].keep /\ BacksUp(plan[i]) => backup[stem[plan[i].path]] = before[plan[i].path]

(* A finished transaction leaves no staged sibling behind, and one that    *)
(* was rolled back no backup either, after any number of retries.          *)
NoLitter ==
  /\ state \in {"committed", "rolled-back"} => staged = Empty
  /\ state = "rolled-back" => backup = Empty

(* A plan that passed planning rolls back only because something failed:   *)
(* a call, or the process.                                                 *)
NoSpuriousRollback ==
  state = "rolled-back" => faults + crashes > 0

(* Every interrupted transaction is settled by a later invocation, once    *)
(* calls stop failing.                                                     *)
PendingResolved == Pending ~> ~Pending

(* On payload paths the executor implements AtomicInstall: until the       *)
(* boundary the root's state is what recovery would restore, and it moves  *)
(* together with the record.                                               *)
Atomic == INSTANCE AtomicInstall WITH
            Path <- PayloadPath,
            image <- [p \in PayloadPath |-> IF Pending THEN RecoveredImage[p] ELSE base[p]],
            record <- [p \in PayloadPath |-> record[p]],
            edited <- edited \cap PayloadPath
Refines == Atomic!Spec

=============================================================================
