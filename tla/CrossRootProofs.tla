--------------------------- MODULE CrossRootProofs ---------------------------
(***************************************************************************)
(* Theorems about CrossRoot, for any number of roots, transactions and     *)
(* recoverers and any bound on kills and failures.                         *)
(*                                                                         *)
(* TypeOK and BackstopUnused follow from one inductive invariant, IInv,    *)
(* whatever the roots reach and whether or not a recoverer's scan may be   *)
(* stale.  NotTorn and SettledMatchesDisk need both hypotheses, and rest   *)
(* on two more layers, Whole and Intact, in the second half of the module. *)
(* The parts of IInv, besides TypeOK:                                      *)
(*   Phases   a process is in a phase of its own kind of run;              *)
(*   Locks    a process holds the locks it passed, and all of them from    *)
(*            its first effect on;                                         *)
(*   Alone    while a transaction prepares, no other is pending in its     *)
(*            roots;                                                       *)
(*   OwnRows  what a running transaction's rows can be, phase by phase;    *)
(*   Targets  the roots a recoverer has yet to settle are pending, and it  *)
(*            rolls forward only what some root committed;                 *)
(*   NoHalf   once a root committed, no root is left before "prepared";    *)
(*   Disk     where the row says rolled back, every file is restored.      *)
(* There is one lemma per step.  The steps that end a process are one      *)
(* lemma, ExitsStep, since all an exit does is release locks; the steps    *)
(* that close a row go through Settles.                                    *)
(***************************************************************************)
EXTENDS CrossRoot, NaturalsInduction, WellFoundedInduction, TLAPS

TxnPhase == {"idle", "lock", "prepare", "unwind", "commit", "done"}
RecoverPhase == {"idle", "lock", "scanUp", "scanDown", "settle"}

(* A process is only ever in a phase of its own kind of run.               *)
Phases ==
  /\ \A t \in Txn : pc[t] \in TxnPhase
  /\ \A q \in Recoverer : pc[q] \in RecoverPhase /\ (pc[q] # "idle" => target[q] \in Txn)

(* Locks are held from the moment they are passed until the exit.          *)
Locks ==
  /\ \A p \in Proc : pc[p] = "lock" => \A r \in roots[p] : r <= at[p] => lock[r] = p
  /\ \A t \in Txn : pc[t] \in {"prepare", "unwind", "commit"} =>
       \A r \in roots[t] : lock[r] = t
  /\ \A q \in Recoverer : pc[q] = "settle" => \A r \in roots[q] : lock[r] = q

(* No other transaction is pending where one is being prepared.            *)
Alone ==
  \A t \in Txn : pc[t] = "prepare" =>
    \A r \in roots[t], u \in Txn : u # t => ~Pending(r, u)

(* What the rows of a running transaction can be, phase by phase.          *)
OwnRowsOf(t) ==
    /\ pc[t] \in {"idle", "lock"} => \A r \in Root : row[r][t] = "none"
    /\ pc[t] \in {"prepare", "unwind", "commit"} =>
         \A r \in Root \ roots[t] : row[r][t] = "none"
    /\ pc[t] = "prepare" =>
         \A r \in roots[t] : IF r <= at[t] THEN row[r][t] = "prepared"
                             ELSE row[r][t] \in {"none", "begun", "payload"}
    /\ pc[t] = "unwind" => \A r \in roots[t] : row[r][t] # "committed"
    /\ pc[t] = "commit" => \A r \in roots[t] : row[r][t] \in {"prepared", "committed"}
OwnRows == \A t \in Txn : OwnRowsOf(t)

(* What a recoverer has yet to settle, and when it rolls forward.          *)
Targets ==
  \A q \in Recoverer :
    /\ pc[q] = "settle" =>
         \A r \in roots[q] : at[q] < r => Pending(r, target[q])
    /\ forward[q] => pc[q] = "settle" /\ \E r \in Root : row[r][target[q]] = "committed"

(* After the first commit no root is behind "prepared".                    *)
NoHalf ==
  \A t \in Txn, r, s \in Root :
    row[r][t] = "committed" => row[s][t] \notin {"begun", "payload"}

(* A row is closed as rolled back after the last file, never before.       *)
Disk == \A t \in Txn, r \in Root : row[r][t] = "rolled-back" => files[r][t] = "old"

(* The inductive invariant.                                                *)
IInv == TypeOK /\ Phases /\ Locks /\ Alone /\ OwnRows /\ Targets /\ NoHalf /\ Disk

(* What a step towards closing a journal row does to the durable state: it *)
(* settles transaction t in root r as s, or it leaves the row pending and  *)
(* at most restores some of its files.                                     *)
RowSettles(r, t, s) ==
  /\ row' \in [Root -> [Txn -> RowState]]
  /\ \A r2 \in Root, t2 \in Txn : r2 # r \/ t2 # t => row'[r2][t2] = row[r2][t2]
  /\ row'[r][t] = row[r][t] \/ (Pending(r, t) /\ row'[r][t] = s)
FilesSettle(r, t, s) ==
  /\ files' \in [Root -> [Txn -> FileState]] /\ aside' \in [Root -> SUBSET Txn]
  /\ \A r2 \in Root, t2 \in Txn : r2 # r \/ t2 # t => files'[r2][t2] = files[r2][t2]
  /\ files'[r][t] = files[r][t] \/ (s = "rolled-back" /\ Pending(r, t))
  /\ row'[r][t] = "rolled-back" =>
       files'[r][t] = "old" \/ (row[r][t] = "rolled-back" /\ files'[r][t] = files[r][t])
Settles(r, t, s) == RowSettles(r, t, s) /\ FilesSettle(r, t, s)

(* Restoring files leaves the row pending.                                 *)
LEMMA RestoreSettles ==
  ASSUME TypeOK, NEW r \in Root, NEW t \in Txn, Pending(r, t), RestoreFiles(r, t)
  PROVE  Settles(r, t, "rolled-back")
<1>1. PICK f \in {"mixed", "old"} : files' = [files EXCEPT ![r][t] = f]
  BY DEF RestoreFiles, SetFiles
<1>2. aside' \in [Root -> SUBSET Txn] /\ row' = row
  BY DEF RestoreFiles, TypeOK
<1> QED BY <1>1, <1>2 DEF Settles, RowSettles, FilesSettle, Pending, PendingState,
        TypeOK, FileState

(* A row is closed as rolled back with all its files restored.             *)
LEMMA CloseSettles ==
  ASSUME TypeOK, NEW r \in Root, NEW t \in Txn, Pending(r, t), CloseRow(r, t)
  PROVE  Settles(r, t, "rolled-back")
<1>1. row' = [row EXCEPT ![r][t] = "rolled-back"] /\ UNCHANGED <<files, aside>>
      /\ files[r][t] = "old"
  BY DEF CloseRow, FinishTxn
<1> QED BY <1>1 DEF Settles, RowSettles, FilesSettle, Pending, PendingState, TypeOK,
        RowState

(* A settling step that fails changes nothing durable.                     *)
LEMMA UnchangedSettles ==
  ASSUME TypeOK, NEW r \in Root, NEW t \in Txn, NEW s, UNCHANGED durable
  PROVE  Settles(r, t, s)
  BY DEF Settles, RowSettles, FilesSettle, Pending, PendingState, TypeOK, durable

(* FinishTxn closes a pending row as committed and leaves the files; a     *)
(* settled row does not move.                                              *)
LEMMA CommitSettles ==
  ASSUME TypeOK, NEW r \in Root, NEW t \in Txn, FinishTxn(r, t, "committed"),
         UNCHANGED files, aside' \in [Root -> SUBSET Txn]
  PROVE  Settles(r, t, "committed")
<1>1. CASE Pending(r, t)
  <2>1. row' = [row EXCEPT ![r][t] = "committed"]
    BY <1>1 DEF FinishTxn
  <2> QED BY <1>1, <2>1 DEF Settles, RowSettles, FilesSettle, Pending, PendingState,
          TypeOK, RowState
<1>2. CASE ~Pending(r, t)
  BY <1>2 DEF Settles, RowSettles, FilesSettle, Pending, PendingState, TypeOK, FinishTxn
<1> QED BY <1>1, <1>2

(* Closing a row makes no other row pending.                               *)
LEMMA SettlesAlone ==
  ASSUME IInv, NEW t \in Txn, NEW r \in Root, NEW s \in {"committed", "rolled-back"},
         Settles(r, t, s), UNCHANGED roots,
         \A u \in Txn : pc'[u] = "prepare" => pc[u] = "prepare"
  PROVE  Alone'
<1>1. \A x \in Root, u \in Txn : Pending(x, u)' => Pending(x, u)
  BY DEF Settles, RowSettles, Pending, PendingState
<1>2. \A u \in Txn : roots[u] \subseteq Root
  BY DEF IInv, TypeOK, Proc
<1> QED BY <1>1, <1>2 DEF IInv, Alone

(* Only a row whose files are restored is closed as rolled back.           *)
LEMMA SettlesDisk ==
  ASSUME IInv, NEW t \in Txn, NEW r \in Root, NEW s, Settles(r, t, s)
  PROVE  Disk'
<1> SUFFICES ASSUME NEW u \in Txn, NEW x \in Root, row'[x][u] = "rolled-back"
             PROVE  files'[x][u] = "old"
  BY DEF Disk
<1>1. CASE x = r /\ u = t
  <2>1. row[r][t] = "rolled-back" => files[r][t] = "old"
    BY DEF IInv, Disk
  <2> QED BY <1>1, <2>1 DEF Settles, FilesSettle
<1>2. CASE ~(x = r /\ u = t)
  BY <1>2 DEF Settles, RowSettles, FilesSettle, IInv, Disk
<1> QED BY <1>1, <1>2

(* A running transaction closes rows under locks that no recoverer at work *)
(* can hold.                                                               *)
LEMMA TxnTargets ==
  ASSUME IInv, NEW t \in Txn, pc[t] \in {"prepare", "unwind", "commit"}, NEW r \in roots[t],
         NEW s, Settles(r, t, s), UNCHANGED <<roots, target, forward>>,
         \A p \in Proc : p # t => pc'[p] = pc[p] /\ at'[p] = at[p]
  PROVE  Targets'
<1>1. r \in Root /\ lock[r] = t
  BY DEF IInv, TypeOK, Locks, Proc
<1> SUFFICES ASSUME NEW x \in Recoverer
             PROVE  /\ pc[x] = "settle" =>
                         \A y \in roots[x] : at[x] < y => row'[y][target[x]] \in PendingState
                    /\ forward[x] => pc[x] = "settle"
                                     /\ \E y \in Root : row'[y][target[x]] = "committed"
  BY CrossRootAssumption DEF Targets, Pending, Proc
<1>2. ASSUME pc[x] = "settle", NEW y \in roots[x], at[x] < y
      PROVE  row'[y][target[x]] \in PendingState
  <2>1. y \in Root /\ target[x] \in Txn /\ y # r
    BY <1>1, <1>2, CrossRootAssumption DEF IInv, TypeOK, Phases, Locks, Proc
  <2> QED BY <1>2, <2>1 DEF IInv, Targets, Settles, RowSettles, Pending
<1>3. ASSUME forward[x]
      PROVE  pc[x] = "settle" /\ \E y \in Root : row'[y][target[x]] = "committed"
  <2>1. PICK y \in Root : row[y][target[x]] = "committed"
    BY <1>3 DEF IInv, Targets
  <2>2. pc[x] = "settle" /\ target[x] \in Txn
    BY <1>3 DEF IInv, Targets, Phases
  <2> QED BY <1>1, <2>1, <2>2 DEF Settles, RowSettles, Pending, PendingState
<1> QED BY <1>2, <1>3

(* Planning touches no durable state and starts with no row and no lock.   *)
LEMMA PlanStep ==
  ASSUME IInv, NEW t \in Txn, NEW S \in PlanRoots,
         Plan(t, S)
  PROVE  IInv'
<1>1. TypeOK'
  BY CrossRootAssumption DEF IInv, TypeOK, Proc, Pending, Plan, GotoPhase, NoFault,
     durable
<1>2. Phases'
  BY CrossRootAssumption DEF IInv, Phases, Proc, TxnPhase, RecoverPhase, RowState,
     PendingState, Pending, Plan, GotoPhase, NoFault, durable
<1>3. Locks'
  BY CrossRootAssumption DEF IInv, TypeOK, Locks, Root, Proc, TxnPhase, RecoverPhase,
     RowState, PendingState, Pending, Plan, GotoPhase, NoFault, durable
<1>4. Alone'
  BY CrossRootAssumption DEF IInv, Alone, Pending, Plan, GotoPhase, NoFault, durable
<1>5. OwnRows'
  BY CrossRootAssumption DEF IInv, OwnRows, OwnRowsOf, Proc, Pending, Plan, GotoPhase,
     NoFault, durable
<1>6. Targets'
  BY CrossRootAssumption DEF IInv, Targets, Proc, Pending, Plan, GotoPhase, NoFault,
     durable
<1>7. NoHalf'
  BY CrossRootAssumption DEF IInv, NoHalf, Proc, Pending, Plan, GotoPhase, NoFault,
     durable
<1>8. Disk'
  BY CrossRootAssumption DEF IInv, Disk, Pending, Plan, GotoPhase, NoFault, durable
<1> QED BY <1>1, <1>2, <1>3, <1>4, <1>5, <1>6, <1>7, <1>8 DEF IInv

(* A lock is taken only when nobody holds it, so no other process loses    *)
(* its own.                                                                *)
LEMMA AcquireStep ==
  ASSUME IInv, NEW p \in Proc,
         Acquire(p)
  PROVE  IInv'
<1>1. TypeOK'
  BY CrossRootAssumption DEF IInv, TypeOK, Root, Proc, TxnPhase, RecoverPhase, RowState,
     PendingState, Pending, Acquire, Turn, Advance, NoFault, durable
<1>2. Phases'
  BY DEF IInv, Phases, Acquire, Turn, Advance, NoFault
<1>3. Locks'
  BY CrossRootAssumption DEF IInv, TypeOK, Locks, Root, Proc, TxnPhase, RecoverPhase,
     RowState, PendingState, Pending, Acquire, Turn, Advance, NoFault, durable
<1>4. Alone'
  BY CrossRootAssumption DEF IInv, Alone, Pending, Acquire, Turn, Advance, NoFault,
     durable
<1>5. OwnRows'
  BY CrossRootAssumption DEF IInv, OwnRows, OwnRowsOf, Proc, Pending, Acquire, Turn,
     Advance, NoFault, durable
<1>6. Targets'
  BY CrossRootAssumption DEF IInv, Targets, Proc, Pending, Acquire, Turn, Advance,
     NoFault, durable
<1>7. NoHalf'
  BY CrossRootAssumption DEF IInv, NoHalf, Proc, Pending, Acquire, Turn, Advance,
     NoFault, durable
<1>8. Disk'
  BY CrossRootAssumption DEF IInv, Disk, Pending, Acquire, Turn, Advance, NoFault,
     durable
<1> QED BY <1>1, <1>2, <1>3, <1>4, <1>5, <1>6, <1>7, <1>8 DEF IInv

(* A process that returns, fails or is killed releases its locks and       *)
(* leaves the rows and the files as they are.                              *)
LEMMA ExitsStep ==
  ASSUME IInv, NEW p \in Proc,
         pc[p] # "idle", Exit(p), UNCHANGED durable,
         crashes' \in 0 .. MaxCrash, faults' \in 0 .. MaxFault
  PROVE  IInv'
<1>1. TypeOK'
  BY CrossRootAssumption DEF IInv, TypeOK, Pending, Exit, Released, durable
<1>2. Phases'
  BY CrossRootAssumption DEF IInv, TypeOK, Phases, Proc, TxnPhase, RecoverPhase,
     RowState, PendingState, Pending, Exit, Released, durable
<1>3. Locks'
  BY CrossRootAssumption DEF IInv, TypeOK, Locks, Proc, Pending, Exit, Released, durable
<1>4. Alone'
  BY CrossRootAssumption DEF IInv, Alone, Pending, Exit, Released, durable
<1>5. OwnRows'
  BY CrossRootAssumption DEF IInv, TypeOK, OwnRows, OwnRowsOf, Proc, Pending, Exit,
     Released, durable
<1>6. Targets'
  <2>1. SUFFICES ASSUME NEW q \in Recoverer
                 PROVE  /\ pc'[q] = "settle" =>
                             \A r \in roots'[q] : at'[q] < r => row'[r][target'[q]] \in PendingState
                        /\ forward'[q] => pc'[q] = "settle"
                             /\ \E r \in Root : row'[r][target'[q]] = "committed"
    BY DEF Targets, Pending
  <2>2. CASE q = p
    BY <2>2, CrossRootAssumption DEF IInv, TypeOK, Exit, Proc
  <2>3. CASE q # p
    <3>1. /\ pc'[q] = pc[q] /\ roots'[q] = roots[q] /\ at'[q] = at[q]
          /\ target'[q] = target[q] /\ row' = row
      BY <2>3 DEF IInv, TypeOK, Exit, durable, Proc
    <3>2. forward'[q] = forward[q]
      BY <2>3 DEF IInv, TypeOK, Exit
    <3> QED BY <3>1, <3>2 DEF IInv, Targets, Pending
  <2> QED BY <2>2, <2>3
<1>7. NoHalf'
  BY CrossRootAssumption DEF IInv, NoHalf, Proc, Pending, Exit, Released, durable
<1>8. Disk'
  BY CrossRootAssumption DEF IInv, Disk, Pending, Exit, Released, durable
<1> QED BY <1>1, <1>2, <1>3, <1>4, <1>5, <1>6, <1>7, <1>8 DEF IInv

(* recoverPending lets a run go on only when none of its roots has a       *)
(* pending row, all of whose locks it holds.                               *)
LEMMA PrepareStep ==
  ASSUME IInv, NEW t \in Txn,
         pc[t] = "lock", Through(t), ~\E r \in roots[t], u \in Txn : Pending(r, u),
         GotoPhase(t, "prepare"),
         UNCHANGED <<lock, roots, target, forward, durable, crashes, faults>>
  PROVE  IInv'
<1>1. TypeOK'
  BY CrossRootAssumption DEF IInv, TypeOK, Proc, Pending, GotoPhase, Through, durable
<1>2. Phases'
  BY CrossRootAssumption DEF IInv, Phases, Proc, TxnPhase, RecoverPhase, RowState,
     PendingState, Pending, GotoPhase, Through, durable
<1>3. Locks'
  BY CrossRootAssumption DEF IInv, Locks, Proc, Pending, GotoPhase, Through, durable
<1>4. Alone'
  BY CrossRootAssumption DEF IInv, Alone, Pending, GotoPhase, Through, durable
<1>5. OwnRows'
  BY CrossRootAssumption DEF IInv, TypeOK, Locks, OwnRows, OwnRowsOf, Root, Proc,
     TxnPhase, RecoverPhase, RowState, PendingState, Pending, GotoPhase, Through, durable
<1>6. Targets'
  BY CrossRootAssumption DEF IInv, Targets, Proc, Pending, GotoPhase, Through, durable
<1>7. NoHalf'
  BY CrossRootAssumption DEF IInv, NoHalf, Proc, Pending, GotoPhase, Through, durable
<1>8. Disk'
  BY CrossRootAssumption DEF IInv, Disk, Pending, GotoPhase, Through, durable
<1> QED BY <1>1, <1>2, <1>3, <1>4, <1>5, <1>6, <1>7, <1>8 DEF IInv

(* Opening a journal row makes the transaction pending in a root where     *)
(* nothing else is.                                                        *)
LEMMA BeginStep ==
  ASSUME IInv, NEW t \in Txn, NEW r \in Root,
         beginTxn(t, r)
  PROVE  IInv'
<1>1. TypeOK'
  BY CrossRootAssumption DEF IInv, TypeOK, TxnPhase, RecoverPhase, RowState,
     PendingState, Pending, beginTxn, SecondPending, Turn, SetRow, local, NoFault
<1>2. Phases'
  BY DEF IInv, Phases, beginTxn, SecondPending, Turn, SetRow, local, NoFault
<1>3. Locks'
  BY DEF IInv, Locks, beginTxn, SecondPending, Turn, SetRow, local, NoFault
<1>4. Alone'
  BY CrossRootAssumption DEF IInv, Locks, Alone, Root, Proc, TxnPhase, RecoverPhase,
       RowState, PendingState, Pending, beginTxn, SecondPending, Turn, SetRow, local,
       NoFault
<1>5. OwnRows'
  BY DEF IInv, OwnRows, OwnRowsOf, beginTxn, SecondPending, Turn, SetRow, local, NoFault
<1>6. Targets'
  BY CrossRootAssumption DEF IInv, Targets, Proc, Pending, beginTxn, SecondPending,
     Turn, SetRow, local, NoFault
<1>7. NoHalf'
  BY CrossRootAssumption DEF IInv, OwnRows, OwnRowsOf, Targets, NoHalf, Root, Proc,
     TxnPhase, RecoverPhase, RowState, PendingState, Pending, beginTxn, SecondPending,
     Turn, SetRow, local, NoFault
<1>8. Disk'
  BY DEF IInv, Disk, beginTxn, SecondPending, Turn, SetRow, local, NoFault
<1> QED BY <1>1, <1>2, <1>3, <1>4, <1>5, <1>6, <1>7, <1>8 DEF IInv

(* The commit payload is recorded before any file moves.                   *)
LEMMA PayloadStep ==
  ASSUME IInv, NEW t \in Txn, NEW r \in Root,
         setCommitPayload(t, r)
  PROVE  IInv'
<1>1. TypeOK'
  BY CrossRootAssumption DEF IInv, TypeOK, TxnPhase, RecoverPhase, RowState,
     PendingState, Pending, setCommitPayload, Turn, SetRow, local, NoFault
<1>2. Phases'
  BY DEF IInv, Phases, setCommitPayload, Turn, SetRow, local, NoFault
<1>3. Locks'
  BY DEF IInv, Locks, setCommitPayload, Turn, SetRow, local, NoFault
<1>4. Alone'
  BY CrossRootAssumption DEF IInv, Alone, Proc, TxnPhase, RecoverPhase, RowState,
     PendingState, Pending, setCommitPayload, Turn, SetRow, local, NoFault
<1>5. OwnRows'
  BY DEF IInv, OwnRows, OwnRowsOf, setCommitPayload, Turn, SetRow, local, NoFault
<1>6. Targets'
  BY CrossRootAssumption DEF IInv, Targets, Proc, TxnPhase, RecoverPhase, RowState,
     PendingState, Pending, setCommitPayload, Turn, SetRow, local, NoFault
<1>7. NoHalf'
  BY DEF IInv, NoHalf, setCommitPayload, Turn, SetRow, local, NoFault
<1>8. Disk'
  BY DEF IInv, Disk, setCommitPayload, Turn, SetRow, local, NoFault
<1> QED BY <1>1, <1>2, <1>3, <1>4, <1>5, <1>6, <1>7, <1>8 DEF IInv

(* The first of the files moves.                                           *)
LEMMA ApplyFirstStep ==
  ASSUME IInv, NEW t \in Txn, NEW r \in Root, applyFirst(t, r)
  PROVE  IInv'
<1>1. /\ files' = [files EXCEPT ![r][t] = "mixed"]
      /\ UNCHANGED <<lock, row, aside, pc, at, roots, target, forward, crashes, faults>>
      /\ row[r][t] = "payload"
  BY DEF applyFirst, SetFiles, local, NoFault
<1>2. TypeOK'
  BY <1>1 DEF IInv, TypeOK, FileState
<1>3. Phases' /\ Locks'
  BY <1>1 DEF IInv, Phases, Locks
<1>4. Alone' /\ OwnRows'
  BY <1>1 DEF IInv, Alone, OwnRows, OwnRowsOf, Pending
<1>5. Targets' /\ NoHalf'
  BY <1>1 DEF IInv, Targets, NoHalf, Pending
<1>6. Disk'
  BY <1>1 DEF IInv, TypeOK, Disk
<1> QED BY <1>2, <1>3, <1>4, <1>5, <1>6 DEF IInv

(* The last file in place is the vote of a root.                           *)
LEMMA ApplyStep ==
  ASSUME IInv, NEW t \in Txn, NEW r \in Root,
         applyFiles(t, r)
  PROVE  IInv'
<1>1. TypeOK'
  BY CrossRootAssumption DEF IInv, TypeOK, Root, Proc, TxnPhase, RecoverPhase,
       RowState, PendingState, Pending, applyFiles, Turn, SetRow, SetFiles, FileState,
       Advance, NoFault
<1>2. Phases'
  BY DEF IInv, Phases, applyFiles, Turn, SetRow, SetFiles, FileState, Advance, NoFault
<1>3. Locks'
  BY DEF IInv, Locks, applyFiles, Turn, SetRow, SetFiles, FileState, Advance, NoFault
<1>4. Alone'
  BY CrossRootAssumption DEF IInv, Alone, Proc, TxnPhase, RecoverPhase, RowState,
       PendingState, Pending, applyFiles, Turn, SetRow, SetFiles, FileState, Advance,
       NoFault
<1>5. OwnRows'
  BY CrossRootAssumption DEF IInv, TypeOK, Locks, OwnRows, OwnRowsOf, Root, Proc,
       TxnPhase, RecoverPhase, RowState, PendingState, Pending, applyFiles, Turn,
       SetRow, SetFiles, FileState, Advance, NoFault
<1>6. Targets'
  BY CrossRootAssumption DEF IInv, Targets, Proc, TxnPhase, RecoverPhase, RowState,
       PendingState, Pending, applyFiles, Turn, SetRow, SetFiles, FileState, Advance,
       NoFault
<1>7. NoHalf'
  BY DEF IInv, NoHalf, applyFiles, Turn, SetRow, SetFiles, FileState, Advance, NoFault
<1>8. Disk'
  BY CrossRootAssumption DEF IInv, TypeOK, Disk, Pending, applyFiles, Turn, SetRow,
       SetFiles, FileState, Advance, NoFault
<1> QED BY <1>1, <1>2, <1>3, <1>4, <1>5, <1>6, <1>7, <1>8 DEF IInv

(* A failing prepare leaves its own root pending; no root has committed.   *)
LEMMA PrepareFailsStep ==
  ASSUME IInv, NEW t \in Txn, NEW r \in Root, prepareFails(t, r)
  PROVE  IInv'
<1>1. Settles(r, t, "rolled-back")
  BY UnchangedSettles DEF IInv, prepareFails
<1>2. /\ pc[t] = "prepare" /\ r \in roots[t] /\ at[t] < r
      /\ pc' = [pc EXCEPT ![t] = "unwind"] /\ at' = [at EXCEPT ![t] = 0]
      /\ UNCHANGED <<lock, roots, target, forward, crashes>> /\ faults' \in 0 .. MaxFault
  BY CrossRootAssumption DEF IInv, TypeOK, prepareFails, Turn, GotoPhase, Fault, NoFault
<1>3. \A s \in Root : row[s][t] # "committed"
  BY <1>2 DEF IInv, TypeOK, OwnRows, OwnRowsOf, Root, Proc
<1>4. TypeOK'
  BY <1>1, <1>2, <1>3, CrossRootAssumption DEF IInv, TypeOK, Settles, RowSettles,
       FilesSettle, Proc, Pending
<1>5. Phases'
  BY <1>1, <1>2, <1>3, CrossRootAssumption DEF IInv, Phases, Settles, RowSettles,
       Proc, TxnPhase, RecoverPhase, RowState, PendingState, Pending
<1>6. Locks'
  BY <1>1, <1>2, <1>3 DEF IInv, Locks, Settles, RowSettles
<1>7. Alone'
  BY <1>1, <1>2, CrossRootAssumption, SettlesAlone DEF IInv, TypeOK, Proc
<1>8. Targets'
  BY <1>1, <1>2, CrossRootAssumption, TxnTargets DEF IInv, TypeOK, Proc
<1>9. OwnRows'
  <2>1. SUFFICES ASSUME NEW u \in Txn PROVE OwnRowsOf(u)'
    BY DEF OwnRows
  <2>2. CASE u = t
    <3>1. pc'[t] = "unwind" /\ roots'[t] = roots[t]
      BY <1>2 DEF IInv, TypeOK, Proc
    <3>2. \A s \in Root \ roots[t] : row'[s][t] = "none"
      BY <1>1, <1>2 DEF IInv, OwnRows, OwnRowsOf, Settles, RowSettles
    <3>3. \A s \in roots[t] : row'[s][t] # "committed"
      <4>1. ASSUME NEW s \in roots[t], s # r PROVE row'[s][t] = row[s][t] /\ s \in Root
        BY <1>1, <4>1 DEF IInv, TypeOK, Proc, Settles, RowSettles
      <4> QED BY <1>1, <1>2, <1>3, <4>1
              DEF IInv, OwnRows, OwnRowsOf, Settles, RowSettles, Pending, PendingState
    <3> QED BY <2>2, <3>1, <3>2, <3>3 DEF OwnRowsOf
  <2>3. CASE u # t
    BY <1>1, <1>2, <2>3 DEF IInv, TypeOK, OwnRows, OwnRowsOf, Settles, RowSettles, Proc
  <2> QED BY <2>2, <2>3
<1>10. NoHalf'
  BY <1>1, <1>3 DEF IInv, NoHalf, Settles, RowSettles
<1>11. Disk'
  BY <1>1, SettlesDisk
<1> QED BY <1>4, <1>5, <1>6, <1>7, <1>8, <1>9, <1>10, <1>11 DEF IInv

(* Reversing a root, or failing to, happens before any root committed.     *)
LEMMA UnwindStep ==
  ASSUME IInv, NEW t \in Txn, NEW r \in Root, rollbackPrepared(t, r)
  PROVE  IInv'
<1>0. Pending(r, t)
  BY DEF rollbackPrepared, Unwinding
<1>1. Settles(r, t, "rolled-back")
  BY <1>0, RestoreSettles, CloseSettles, UnchangedSettles DEF IInv, rollbackPrepared
<1>2. /\ pc[t] = "unwind" /\ r \in roots[t]
      /\ at' \in [Proc -> 0 .. NRoots + 1] /\ \A p \in Proc : p # t => at'[p] = at[p]
      /\ UNCHANGED <<lock, pc, roots, target, forward, crashes, faults>>
  BY CrossRootAssumption
  DEF rollbackPrepared, Unwinding, Advance, NoFault, IInv, TypeOK, Root
<1>3. \A s \in Root : row[s][t] # "committed"
  BY <1>2 DEF IInv, TypeOK, OwnRows, OwnRowsOf, Root, Proc
<1>4. TypeOK'
  BY <1>1, <1>2, <1>3, CrossRootAssumption DEF IInv, TypeOK, Settles, RowSettles,
       FilesSettle, Root, Proc, TxnPhase, RecoverPhase, RowState, PendingState,
       Pending
<1>5. Phases'
  BY <1>1, <1>2, <1>3 DEF IInv, Phases, Settles, RowSettles
<1>6. Locks'
  BY <1>1, <1>2, <1>3 DEF IInv, Locks, Settles, RowSettles
<1>7. Alone'
  BY <1>1, <1>2, CrossRootAssumption, SettlesAlone DEF IInv, TypeOK, Proc
<1>8. Targets'
  BY <1>1, <1>2, CrossRootAssumption, TxnTargets DEF IInv, TypeOK, Proc
<1>9. OwnRows'
  <2>1. SUFFICES ASSUME NEW u \in Txn PROVE OwnRowsOf(u)'
    BY DEF OwnRows
  <2>2. CASE u = t
    <3>1. pc'[t] = "unwind" /\ roots'[t] = roots[t]
      BY <1>2 DEF IInv, TypeOK, Proc
    <3>2. \A s \in Root \ roots[t] : row'[s][t] = "none"
      BY <1>1, <1>2 DEF IInv, OwnRows, OwnRowsOf, Settles, RowSettles
    <3>3. \A s \in roots[t] : row'[s][t] # "committed"
      <4>1. ASSUME NEW s \in roots[t], s # r PROVE row'[s][t] = row[s][t] /\ s \in Root
        BY <1>1, <4>1 DEF IInv, TypeOK, Proc, Settles, RowSettles
      <4> QED BY <1>1, <1>2, <1>3, <4>1
              DEF IInv, OwnRows, OwnRowsOf, Settles, RowSettles, Pending, PendingState
    <3> QED BY <2>2, <3>1, <3>2, <3>3 DEF OwnRowsOf
  <2>3. CASE u # t
    BY <1>1, <1>2, <2>3 DEF IInv, TypeOK, OwnRows, OwnRowsOf, Settles, RowSettles, Proc
  <2> QED BY <2>2, <2>3
<1>10. NoHalf'
  BY <1>1, <1>3 DEF IInv, NoHalf, Settles, RowSettles
<1>11. Disk'
  BY <1>1, SettlesDisk
<1> QED BY <1>4, <1>5, <1>6, <1>7, <1>8, <1>9, <1>10, <1>11 DEF IInv

(* The commit loop starts only when every root is prepared.                *)
LEMMA PreparedStep ==
  ASSUME IInv, NEW t \in Txn,
         prepared(t)
  PROVE  IInv'
<1>1. TypeOK'
  BY CrossRootAssumption DEF IInv, TypeOK, Proc, Pending, prepared, Through, GotoPhase,
     NoFault, durable
<1>2. Phases'
  BY CrossRootAssumption DEF IInv, Phases, Proc, TxnPhase, RecoverPhase, RowState,
     PendingState, Pending, prepared, Through, GotoPhase, NoFault, durable
<1>3. Locks'
  BY DEF IInv, Locks, prepared, Through, GotoPhase, NoFault
<1>4. Alone'
  BY CrossRootAssumption DEF IInv, Alone, Pending, prepared, Through, GotoPhase,
     NoFault, durable
<1>5. OwnRows'
  BY CrossRootAssumption DEF IInv, TypeOK, OwnRows, OwnRowsOf, Proc, Pending, prepared,
     Through, GotoPhase, NoFault, durable
<1>6. Targets'
  BY CrossRootAssumption DEF IInv, Targets, Proc, Pending, prepared, Through, GotoPhase,
     NoFault, durable
<1>7. NoHalf'
  BY CrossRootAssumption DEF IInv, NoHalf, Proc, Pending, prepared, Through, GotoPhase,
     NoFault, durable
<1>8. Disk'
  BY CrossRootAssumption DEF IInv, Disk, Pending, prepared, Through, GotoPhase, NoFault,
     durable
<1> QED BY <1>1, <1>2, <1>3, <1>4, <1>5, <1>6, <1>7, <1>8 DEF IInv

(* Crossing one boundary, or failing to, leaves every root of the          *)
(* transaction prepared or committed.                                      *)
LEMMA CommitStep ==
  ASSUME IInv, NEW t \in Txn, NEW r \in Root, commitRoot(t, r)
  PROVE  IInv'
<1>1. Settles(r, t, "committed")
  BY CommitSettles, UnchangedSettles DEF IInv, TypeOK, commitRoot, durable
<1>2. /\ pc[t] = "commit" /\ r \in roots[t] /\ at[t] < r
      /\ at' = [at EXCEPT ![t] = r]
      /\ UNCHANGED <<lock, pc, roots, target, forward, crashes>> /\ faults' \in 0 .. MaxFault
  BY CrossRootAssumption DEF IInv, TypeOK, commitRoot, Turn, Advance, Fault, NoFault
<1>3. \A s \in Root : row[s][t] \in {"none", "prepared", "committed"}
  BY <1>2 DEF IInv, TypeOK, OwnRows, OwnRowsOf, Root, Proc
<1>4. TypeOK'
  BY <1>1, <1>2, <1>3, CrossRootAssumption DEF IInv, TypeOK, Settles, RowSettles,
       FilesSettle, Root, Proc, TxnPhase, RecoverPhase, RowState, PendingState,
       Pending
<1>5. Phases'
  BY <1>1, <1>2, <1>3 DEF IInv, Phases, Settles, RowSettles
<1>6. Locks'
  BY <1>1, <1>2, <1>3 DEF IInv, Locks, Settles, RowSettles
<1>7. Alone'
  BY <1>1, <1>2, CrossRootAssumption, SettlesAlone DEF IInv, TypeOK, Proc
<1>8. Targets'
  BY <1>1, <1>2, CrossRootAssumption, TxnTargets DEF IInv, TypeOK, Proc
<1>9. OwnRows'
  <2>1. SUFFICES ASSUME NEW u \in Txn PROVE OwnRowsOf(u)'
    BY DEF OwnRows
  <2>2. CASE u = t
    <3>1. pc'[t] = "commit" /\ roots'[t] = roots[t]
      BY <1>2 DEF IInv, TypeOK, Proc
    <3>2. \A s \in Root \ roots[t] : row'[s][t] = "none"
      BY <1>1, <1>2 DEF IInv, OwnRows, OwnRowsOf, Settles, RowSettles
    <3>3. \A s \in roots[t] : row'[s][t] \in {"prepared", "committed"}
      <4>1. ASSUME NEW s \in roots[t], s # r PROVE row'[s][t] = row[s][t] /\ s \in Root
        BY <1>1, <4>1 DEF IInv, TypeOK, Proc, Settles, RowSettles
      <4> QED BY <1>1, <1>2, <1>3, <4>1
              DEF IInv, OwnRows, OwnRowsOf, Settles, RowSettles, Pending, PendingState
    <3> QED BY <2>2, <3>1, <3>2, <3>3 DEF OwnRowsOf
  <2>3. CASE u # t
    BY <1>1, <1>2, <2>3 DEF IInv, TypeOK, OwnRows, OwnRowsOf, Settles, RowSettles, Proc
  <2> QED BY <2>2, <2>3
<1>10. NoHalf'
  BY <1>1, <1>3 DEF IInv, NoHalf, Settles, RowSettles
<1>11. Disk'
  BY <1>1, SettlesDisk
<1> QED BY <1>4, <1>5, <1>6, <1>7, <1>8, <1>9, <1>10, <1>11 DEF IInv

(* Starting a recovery reads and locks nothing yet.                        *)
LEMMA RecoverAllStep ==
  ASSUME IInv, NEW q \in Recoverer, NEW here \in RecoverAt, NEW t \in Txn,
         recoverAll(q, here, t)
  PROVE  IInv'
<1>0. /\ Reach[here] \in SUBSET Root
      /\ \E ph \in {"scanUp", "scanDown"}, k \in {0, NRoots + 1} :
           pc' = [pc EXCEPT ![q] = ph] /\ at' = [at EXCEPT ![q] = k]
  BY CrossRootAssumption DEF recoverAll
<1>1. TypeOK'
  BY <1>0, CrossRootAssumption DEF IInv, TypeOK, recoverAll, NoFault, durable, Proc
<1>2. Phases'
  BY <1>0, CrossRootAssumption DEF IInv, TypeOK, Phases, recoverAll, Proc, TxnPhase,
     RecoverPhase
<1>3. Locks'
  BY CrossRootAssumption DEF IInv, TypeOK, Locks, Proc, Pending, recoverAll, NoFault,
     durable
<1>4. Alone'
  BY CrossRootAssumption DEF IInv, TypeOK, Alone, Proc, Pending, recoverAll, NoFault,
     durable
<1>5. OwnRows'
  BY CrossRootAssumption DEF IInv, TypeOK, OwnRows, OwnRowsOf, Proc, Pending,
     recoverAll, NoFault, durable
<1>6. Targets'
  BY CrossRootAssumption DEF IInv, TypeOK, Targets, Proc, Pending, recoverAll, NoFault,
     durable
<1>7. NoHalf'
  BY CrossRootAssumption DEF IInv, NoHalf, Proc, Pending, recoverAll, NoFault, durable
<1>8. Disk'
  BY CrossRootAssumption DEF IInv, Disk, Pending, recoverAll, NoFault, durable
<1> QED BY <1>1, <1>2, <1>3, <1>4, <1>5, <1>6, <1>7, <1>8 DEF IInv

(* Looking at a database without a lock changes only the list of           *)
(* participants.                                                           *)
LEMMA LookStep ==
  ASSUME IInv, NEW q \in Recoverer, NEW r \in Root,
         pc[q] \in {"scanUp", "scanDown"}, Look(q, r)
  PROVE  IInv'
<1>1. TypeOK'
  BY CrossRootAssumption DEF IInv, TypeOK, Root, Proc, TxnPhase, RecoverPhase, RowState,
     PendingState, Pending, Look, NoFault, durable
<1>2. Phases'
  BY DEF IInv, Phases, Look, NoFault
<1>3. Locks'
  BY DEF IInv, Locks, Look, NoFault
<1>4. Alone'
  BY CrossRootAssumption DEF IInv, Alone, Pending, Look, NoFault, durable
<1>5. OwnRows'
  BY CrossRootAssumption DEF IInv, OwnRows, OwnRowsOf, Proc, Pending, Look, NoFault,
     durable
<1>6. Targets'
  BY CrossRootAssumption DEF IInv, Targets, Proc, Pending, Look, NoFault, durable
<1>7. NoHalf'
  BY CrossRootAssumption DEF IInv, NoHalf, Proc, Pending, Look, NoFault, durable
<1>8. Disk'
  BY CrossRootAssumption DEF IInv, Disk, Pending, Look, NoFault, durable
<1> QED BY <1>1, <1>2, <1>3, <1>4, <1>5, <1>6, <1>7, <1>8 DEF IInv

(* A recoverer that found participants starts locking them from the        *)
(* first.                                                                  *)
LEMMA ParticipantsStep ==
  ASSUME IInv, NEW q \in Recoverer,
         pc[q] \in {"scanUp", "scanDown"}, GotoPhase(q, "lock"),
         UNCHANGED <<lock, roots, target, forward, durable, crashes, faults>>
  PROVE  IInv'
<1>1. TypeOK'
  BY CrossRootAssumption DEF IInv, TypeOK, Proc, Pending, GotoPhase, durable
<1>2. Phases'
  BY CrossRootAssumption DEF IInv, Phases, Proc, TxnPhase, RecoverPhase, RowState,
     PendingState, Pending, GotoPhase, durable
<1>3. Locks'
  BY CrossRootAssumption DEF IInv, TypeOK, Locks, Root, Proc, TxnPhase, RecoverPhase,
     RowState, PendingState, Pending, GotoPhase, durable
<1>4. Alone'
  BY CrossRootAssumption DEF IInv, Alone, Pending, GotoPhase, durable
<1>5. OwnRows'
  BY CrossRootAssumption DEF IInv, OwnRows, OwnRowsOf, Proc, Pending, GotoPhase, durable
<1>6. Targets'
  BY CrossRootAssumption DEF IInv, Targets, Proc, Pending, GotoPhase, durable
<1>7. NoHalf'
  BY CrossRootAssumption DEF IInv, NoHalf, Proc, Pending, GotoPhase, durable
<1>8. Disk'
  BY CrossRootAssumption DEF IInv, Disk, Pending, GotoPhase, durable
<1> QED BY <1>1, <1>2, <1>3, <1>4, <1>5, <1>6, <1>7, <1>8 DEF IInv

(* Under the locks the recoverer keeps the pending participants, and       *)
(* rolls forward only if one committed.                                    *)
LEMMA DecideStep ==
  ASSUME IInv, NEW q \in Recoverer,
         decide(q)
  PROVE  IInv'
<1>1. TypeOK'
  BY CrossRootAssumption DEF IInv, TypeOK, Proc, Pending, decide, Through, GotoPhase,
     NoFault, durable
<1>2. Phases'
  BY CrossRootAssumption DEF IInv, Phases, Proc, TxnPhase, RecoverPhase, RowState,
     PendingState, Pending, decide, Through, GotoPhase, NoFault, durable
<1>3. Locks'
  BY CrossRootAssumption DEF IInv, Locks, Proc, Pending, decide, Through, GotoPhase,
     NoFault, durable
<1>4. Alone'
  BY CrossRootAssumption DEF IInv, Alone, Pending, decide, Through, GotoPhase, NoFault,
     durable
<1>5. OwnRows'
  BY CrossRootAssumption DEF IInv, OwnRows, OwnRowsOf, Proc, Pending, decide, Through,
     GotoPhase, NoFault, durable
<1>6. Targets'
  BY CrossRootAssumption DEF IInv, TypeOK, Targets, Proc, Pending, decide, Through,
     GotoPhase, NoFault, durable
<1>7. NoHalf'
  BY CrossRootAssumption DEF IInv, NoHalf, Proc, Pending, decide, Through, GotoPhase,
     NoFault, durable
<1>8. Disk'
  BY CrossRootAssumption DEF IInv, Disk, Pending, decide, Through, GotoPhase, NoFault,
     durable
<1> QED BY <1>1, <1>2, <1>3, <1>4, <1>5, <1>6, <1>7, <1>8 DEF IInv

(* Rolling a root forward: its transaction has ended.                      *)
LEMMA ForwardStep ==
  ASSUME IInv, NEW q \in Recoverer, NEW r \in Root, rollForward(q, r)
  PROVE  IInv'
<1> DEFINE t == target[q]
<1>1. /\ pc[q] = "settle" /\ r \in roots[q] /\ at[q] < r /\ t \in Txn
      /\ Pending(r, t) /\ lock[r] = q /\ forward[q] /\ row[r][t] # "begun"
  BY CrossRootAssumption DEF IInv, Phases, Targets, Locks, rollForward, Turn, TypeOK,
     Proc
<1>2. Settles(r, t, "committed")
  BY <1>1, CommitSettles DEF IInv, TypeOK, rollForward
<1>3. /\ at' = [at EXCEPT ![q] = r]
      /\ UNCHANGED <<lock, pc, roots, target, forward, crashes, faults>>
  BY DEF rollForward, Advance, NoFault
<1> HIDE DEF t
<1>4. pc[t] = "done"
  <2>1. row[r][t] # "none" /\ lock[r] # t
    BY <1>1, CrossRootAssumption DEF Pending, PendingState
  <2>2. pc[t] \notin {"idle", "lock"}
    BY <1>1, <2>1 DEF IInv, OwnRows, OwnRowsOf
  <2>3. pc[t] \notin {"prepare", "unwind", "commit"}
    BY <1>1, <2>1 DEF IInv, OwnRows, OwnRowsOf, Locks
  <2> QED BY <1>1, <2>2, <2>3 DEF IInv, Phases, TxnPhase
<1>5. TypeOK'
  BY <1>1, <1>2, <1>3, <1>4, CrossRootAssumption DEF IInv, TypeOK, Settles,
       RowSettles, FilesSettle, Root, Proc, TxnPhase, RecoverPhase, RowState,
       PendingState, Pending
<1>6. Phases'
  BY <1>1, <1>2, <1>3, <1>4 DEF IInv, Phases, Settles, RowSettles
<1>7. Locks'
  BY <1>1, <1>2, <1>3, <1>4 DEF IInv, Locks, Settles, RowSettles
<1>8. Alone'
  BY <1>1, <1>2, <1>3, SettlesAlone
<1>9. Targets'
  <2>1. SUFFICES ASSUME NEW x \in Recoverer
                 PROVE  /\ pc[x] = "settle" =>
                             \A y \in roots[x] : at'[x] < y => row'[y][target[x]] \in PendingState
                        /\ forward[x] => pc[x] = "settle"
                                         /\ \E y \in Root : row'[y][target[x]] = "committed"
    BY <1>3 DEF Targets, Pending
  <2>2. ASSUME pc[x] = "settle", NEW y \in roots[x], at'[x] < y
        PROVE  row'[y][target[x]] \in PendingState
    <3>1. y \in Root /\ target[x] \in Txn /\ at[x] < y /\ y # r
      BY <1>1, <1>3, <2>2, CrossRootAssumption DEF IInv, TypeOK, Phases, Locks, Root,
           Proc
    <3> QED BY <1>2, <2>2, <3>1 DEF IInv, Targets, Settles, RowSettles, Pending
  <2>3. ASSUME forward[x]
        PROVE  pc[x] = "settle" /\ \E y \in Root : row'[y][target[x]] = "committed"
    <3>1. PICK y \in Root : row[y][target[x]] = "committed"
      BY <2>3 DEF IInv, Targets
    <3>2. pc[x] = "settle" /\ target[x] \in Txn
      BY <2>3 DEF IInv, Targets, Phases
    <3> QED BY <1>1, <1>2, <3>1, <3>2 DEF Settles, RowSettles, Pending, PendingState
  <2> QED BY <2>2, <2>3
<1>10. OwnRows'
  <2>1. SUFFICES ASSUME NEW u \in Txn PROVE OwnRowsOf(u)'
    BY DEF OwnRows
  <2>2. CASE u = t
    BY <1>3, <1>4, <2>2 DEF OwnRowsOf
  <2>3. CASE u # t
    BY <1>1, <1>2, <1>3, <2>3, CrossRootAssumption
    DEF IInv, TypeOK, OwnRows, OwnRowsOf, Settles, RowSettles, Proc
  <2> QED BY <2>2, <2>3
<1>11. NoHalf'
  <2> SUFFICES ASSUME NEW u \in Txn, NEW x \in Root, NEW y \in Root,
                      row'[x][u] = "committed"
               PROVE  row'[y][u] \notin {"begun", "payload"}
    BY DEF NoHalf
  <2>1. u # t => row'[x][u] = row[x][u] /\ row'[y][u] = row[y][u]
    BY <1>2 DEF Settles, RowSettles
  <2>2. row'[y][t] \in {row[y][t], "committed"}
    <3>1. y # r => row'[y][t] = row[y][t]
      BY <1>1, <1>2 DEF Settles, RowSettles
    <3>2. row'[r][t] \in {row[r][t], "committed"}
      BY <1>2 DEF Settles, RowSettles
    <3> QED BY <3>1, <3>2
  <2>3. PICK z \in Root : row[z][t] = "committed"
    BY <1>1 DEF IInv, Targets, t
  <2>4. row[y][t] \notin {"begun", "payload"}
    BY <1>1, <2>3 DEF IInv, NoHalf
  <2>5. CASE u = t
    BY <2>2, <2>4, <2>5
  <2>6. CASE u # t
    BY <2>1, <2>6 DEF IInv, NoHalf
  <2> QED BY <2>5, <2>6
<1>12. Disk'
  BY <1>1, <1>2, SettlesDisk
<1> QED BY <1>5, <1>6, <1>7, <1>8, <1>9, <1>10, <1>11, <1>12 DEF IInv

(* Rolling a root back: its transaction has ended.                         *)
LEMMA BackStep ==
  ASSUME IInv, NEW q \in Recoverer, NEW r \in Root, rollbackTxn(q, r)
  PROVE  IInv'
<1> DEFINE t == target[q]
<1>1. /\ pc[q] = "settle" /\ r \in roots[q] /\ at[q] < r /\ t \in Txn
      /\ Pending(r, t) /\ lock[r] = q /\ ~forward[q]
  BY CrossRootAssumption DEF IInv, Phases, Targets, Locks, rollbackTxn, Turn, TypeOK,
     Proc
<1>2. Settles(r, t, "rolled-back")
  BY <1>1, RestoreSettles, CloseSettles DEF IInv, rollbackTxn
<1>3. /\ (at' = at /\ row' = row) \/ at' = [at EXCEPT ![q] = r]
      /\ UNCHANGED <<lock, pc, roots, target, forward, crashes, faults>>
  BY DEF rollbackTxn, RestoreFiles, Advance, NoFault
<1> at' \in [Proc -> 0 .. NRoots + 1] /\ \A p \in Proc : p # q => at'[p] = at[p]
  BY <1>3, CrossRootAssumption DEF IInv, TypeOK, Root
<1> HIDE DEF t
<1>4. pc[t] = "done"
  <2>1. row[r][t] # "none" /\ lock[r] # t
    BY <1>1, CrossRootAssumption DEF Pending, PendingState
  <2>2. pc[t] \notin {"idle", "lock"}
    BY <1>1, <2>1 DEF IInv, OwnRows, OwnRowsOf
  <2>3. pc[t] \notin {"prepare", "unwind", "commit"}
    BY <1>1, <2>1 DEF IInv, OwnRows, OwnRowsOf, Locks
  <2> QED BY <1>1, <2>2, <2>3 DEF IInv, Phases, TxnPhase
<1>5. TypeOK'
  BY <1>1, <1>2, <1>3, CrossRootAssumption
  DEF IInv, TypeOK, Settles, RowSettles, FilesSettle
<1>6. Phases'
  BY <1>1, <1>2, <1>3, <1>4 DEF IInv, Phases, Settles, RowSettles
<1>7. Locks'
  BY <1>1, <1>3, CrossRootAssumption DEF IInv, Locks, Proc
<1>8. Alone'
  BY <1>1, <1>2, <1>3, SettlesAlone
<1>9. Targets'
  <2>1. SUFFICES ASSUME NEW x \in Recoverer
                 PROVE  /\ pc[x] = "settle" =>
                             \A y \in roots[x] : at'[x] < y => row'[y][target[x]] \in PendingState
                        /\ forward[x] => pc[x] = "settle"
                                         /\ \E y \in Root : row'[y][target[x]] = "committed"
    BY <1>3 DEF Targets, Pending
  <2>2. ASSUME pc[x] = "settle", NEW y \in roots[x], at'[x] < y
        PROVE  row'[y][target[x]] \in PendingState
    <3>1. CASE at' = at /\ row' = row
      BY <2>2, <3>1 DEF IInv, Targets, Pending
    <3>2. CASE at' = [at EXCEPT ![q] = r]
      <4>1. y \in Root /\ target[x] \in Txn /\ at[x] < y /\ y # r
        BY <1>1, <1>3, <2>2, <3>2, CrossRootAssumption
        DEF IInv, TypeOK, Phases, Locks, Root, Proc
      <4> QED BY <1>2, <2>2, <4>1 DEF IInv, Targets, Settles, RowSettles, Pending
    <3> QED BY <1>3, <3>1, <3>2
  <2>3. ASSUME forward[x]
        PROVE  pc[x] = "settle" /\ \E y \in Root : row'[y][target[x]] = "committed"
    <3>1. PICK y \in Root : row[y][target[x]] = "committed"
      BY <2>3 DEF IInv, Targets
    <3>2. pc[x] = "settle" /\ target[x] \in Txn
      BY <2>3 DEF IInv, Targets, Phases
    <3> QED BY <1>1, <1>2, <3>1, <3>2 DEF Settles, RowSettles, Pending, PendingState
  <2> QED BY <2>2, <2>3
<1>10. OwnRows'
  <2>1. SUFFICES ASSUME NEW u \in Txn PROVE OwnRowsOf(u)'
    BY DEF OwnRows
  <2>2. CASE u = t
    BY <1>3, <1>4, <2>2 DEF OwnRowsOf
  <2>3. CASE u # t
    <3>1. u # q /\ u \in Proc
      BY CrossRootAssumption DEF Proc
    <3>2. \A x \in Root : row'[x][u] = row[x][u]
      BY <1>2, <2>3 DEF Settles, RowSettles
    <3>3. at'[u] = at[u] /\ roots[u] \subseteq Root
      BY <3>1 DEF IInv, TypeOK
    <3> QED BY <1>3, <3>2, <3>3 DEF IInv, OwnRows, OwnRowsOf
  <2> QED BY <2>2, <2>3
<1>11. NoHalf'
  BY <1>1, <1>2 DEF IInv, NoHalf, Settles, RowSettles
<1>12. Disk'
  BY <1>1, <1>2, SettlesDisk
<1> QED BY <1>5, <1>6, <1>7, <1>8, <1>9, <1>10, <1>11, <1>12 DEF IInv

(* The initial state satisfies the inductive invariant: nobody holds a     *)
(* lock and no database holds a row.                                       *)
LEMMA InitIInv == Init => IInv
  BY CrossRootAssumption DEF Init, IInv, TypeOK, Phases, Locks, Alone, OwnRows,
       OwnRowsOf, Targets, NoHalf, Disk, Proc, Root, RowState, FileState, TxnPhase,
       RecoverPhase

(* A bounded counter stays within its bound when a call fails.             *)
LEMMA FaultBound ==
  ASSUME TypeOK, Fault \/ NoFault
  PROVE  crashes' \in 0 .. MaxCrash /\ faults' \in 0 .. MaxFault
  BY CrossRootAssumption DEF TypeOK, Fault, NoFault

(* Every step of ExecuteCrossRoot, `peipkg recover` or a kill preserves    *)
(* the inductive invariant.                                                *)
LEMMA NextIInv == IInv /\ [Next]_vars => IInv'
<1>1. SUFFICES ASSUME IInv, [Next]_vars PROVE IInv'
  OBVIOUS
<1>2. TypeOK
  BY <1>1 DEF IInv
<1>3. ASSUME NEW t \in Txn,
             (\E S \in PlanRoots : Plan(t, S)) \/ TxnStep(t) \/ provideFails(t)
               \/ (\E r \in Root : prepareFails(t, r))
      PROVE  IInv'
  <2> t \in Proc
    BY DEF Proc
  <2>1. CASE \E S \in PlanRoots : Plan(t, S)
    BY <1>1, <2>1, PlanStep
  <2>2. CASE Acquire(t)
    BY <1>1, <2>2, AcquireStep
  <2>3. CASE AcquireBusy(t)
    BY <1>1, <1>2, <2>3, FaultBound, ExitsStep DEF AcquireBusy
  <2>4. CASE recoverPending(t)
    <3>1. CASE \E r \in roots[t], u \in Txn : Pending(r, u)
      BY <1>1, <1>2, <2>4, <3>1, FaultBound, ExitsStep DEF recoverPending
    <3>2. CASE ~\E r \in roots[t], u \in Txn : Pending(r, u)
      BY <1>1, <2>4, <3>2, PrepareStep DEF recoverPending, NoFault
    <3> QED BY <3>1, <3>2
  <2>5. CASE \E r \in Root : \/ beginTxn(t, r) \/ setCommitPayload(t, r) \/ applyFirst(t, r)
                             \/ applyFiles(t, r) \/ rollbackPrepared(t, r) \/ commitRoot(t, r)
    BY <1>1, <2>5, BeginStep, PayloadStep, ApplyFirstStep, ApplyStep, UnwindStep,
         CommitStep
  <2>6. CASE unwound(t)
    BY <1>1, <1>2, <2>6, FaultBound, ExitsStep DEF unwound
  <2>7. CASE prepared(t)
    BY <1>1, <2>7, PreparedStep
  <2>8. CASE committed(t)
    BY <1>1, <1>2, <2>8, FaultBound, ExitsStep DEF committed
  <2>9. CASE provideFails(t)
    BY <1>1, <1>2, <2>9, FaultBound, ExitsStep DEF provideFails
  <2>10. CASE \E r \in Root : prepareFails(t, r)
    BY <1>1, <2>10, PrepareFailsStep
  <2> QED
    BY <1>3, <2>1, <2>2, <2>3, <2>4, <2>5, <2>6, <2>7, <2>8, <2>9, <2>10 DEF TxnStep
<1>4. ASSUME NEW q \in Recoverer, Recover(q) \/ RecoverStep(q)
      PROVE  IInv'
  <2> q \in Proc
    BY DEF Proc
  <2>1. CASE Recover(q)
    BY <1>1, <2>1, RecoverAllStep DEF Recover
  <2>2. CASE lookUp(q)
    BY <1>1, <2>2, LookStep DEF lookUp
  <2>3. CASE lookDown(q)
    <3>1. roots[q] \subseteq Root
      BY <1>2 DEF TypeOK
    <3> QED BY <1>1, <2>3, <3>1, LookStep DEF lookDown
  <2>4. CASE participants(q)
    <3>1. pc[q] \in {"scanUp", "scanDown"}
      BY <2>4 DEF participants
    <3>2. CASE roots[q] = {}
      BY <1>1, <1>2, <2>4, <3>1, <3>2, FaultBound, ExitsStep DEF participants
    <3>3. CASE roots[q] # {}
      BY <1>1, <2>4, <3>1, <3>3, ParticipantsStep DEF participants, NoFault
    <3> QED BY <3>2, <3>3
  <2>5. CASE Acquire(q)
    BY <1>1, <2>5, AcquireStep
  <2>6. CASE AcquireBusy(q)
    BY <1>1, <1>2, <2>6, FaultBound, ExitsStep DEF AcquireBusy
  <2>7. CASE decide(q)
    BY <1>1, <2>7, DecideStep
  <2>8. CASE \E r \in Root : rollForward(q, r) \/ rollbackTxn(q, r)
    BY <1>1, <2>8, ForwardStep, BackStep
  <2>9. CASE settleFails(q)
    BY <1>1, <1>2, <2>9, FaultBound, ExitsStep DEF settleFails
  <2>10. CASE settled(q)
    BY <1>1, <1>2, <2>10, FaultBound, ExitsStep DEF settled
  <2> QED
    BY <1>4, <2>1, <2>2, <2>3, <2>4, <2>5, <2>6, <2>7, <2>8, <2>9, <2>10 DEF RecoverStep
<1>5. ASSUME NEW p \in Proc, Crash(p)
      PROVE  IInv'
  <2>1. crashes' \in 0 .. MaxCrash /\ faults' \in 0 .. MaxFault
    BY <1>2, <1>5, CrossRootAssumption DEF Crash, TypeOK
  <2> QED BY <1>1, <1>5, <2>1, ExitsStep DEF Crash
<1>6. CASE UNCHANGED vars
  BY <1>1, <1>6 DEF vars, durable, local, IInv, TypeOK, Phases, Locks, Alone, OwnRows,
     OwnRowsOf, Targets, NoHalf, Disk, Pending
<1> QED BY <1>1, <1>3, <1>4, <1>5, <1>6 DEF Next

(* The inductive invariant holds throughout every behaviour.               *)
THEOREM Inductive == Spec => []IInv
  BY InitIInv, NextIInv, PTL DEF Spec

(* Every reachable state has the declared types: in particular a txn row   *)
(* only ever holds a state the database's CHECK constraint knows.          *)
THEOREM TypeCorrect == Spec => []TypeOK
<1>1. IInv => TypeOK
  BY DEF IInv
<1> QED BY <1>1, Inductive, PTL

(* The per-root locks and recoverPending keep a root to one pending        *)
(* transaction: a run never meets the unique index over pending rows.      *)
THEOREM OnePending == Spec => []BackstopUnused
<1>1. IInv => BackstopUnused
  <2>1. SUFFICES ASSUME IInv, NEW t \in Txn, NEW r \in Root, pc[t] = "prepare", Turn(t, r),
                        row[r][t] = "none", NEW u \in Txn, Pending(r, u)
                 PROVE  FALSE
    BY DEF BackstopUnused, SecondPending
  <2>2. u # t
    BY <2>1 DEF Pending, PendingState
  <2> QED BY <2>1, <2>2 DEF IInv, Alone, Turn
<1> QED BY <1>1, Inductive, PTL

-----------------------------------------------------------------------------
(***************************************************************************)
(* NotTorn and SettledMatchesDisk.  Two things the code does not see to    *)
(* are hypotheses: a root from which `peipkg recover` reaches one root of  *)
(* a plan reaches them all, and no boundary fails while a recoverer holds  *)
(* a stale list of participants (~StaleScan).  Without either TLC tears a  *)
(* transaction, and commits one over files partly restored.                *)
(* The strengthening, Whole, has these parts:                              *)
(*   InOrder   roots begin in path order;                                  *)
(*   Reached   a place to recover from reaches all of a transaction or     *)
(*             none of it;                                                 *)
(*   Lowest    a recoverer's list has the lowest participant;              *)
(*   Ended     a recoverer settles only transactions that have ended;      *)
(*   Complete  once a boundary failed, every list is complete;             *)
(*   Noticed   once a root committed, every list has such a root;          *)
(*   Forward   once a root committed, no recoverer rolls back.             *)
(* and on it rests Intact, for the files:                                  *)
(*   Applied   a root that voted has its files in place as long as its     *)
(*             transaction prepares or commits;                            *)
(*   Placed    once a root committed, they are in place wherever the row   *)
(*             is prepared or committed.                                   *)
(***************************************************************************)

(* `peipkg recover` is run where it reaches whole plans.                   *)
ReachesWholePlans ==
  \A here \in RecoverAt, S \in PlanRoots : S \cap Reach[here] # {} => S \subseteq Reach[here]

(* A transaction takes part in the roots where it has a row.               *)
Began(r, t) == row[r][t] # "none"
Scanning(q) == pc[q] \in {"scanUp", "scanDown", "lock"}
SomeCommitted(t) == \E r \in Root : row[r][t] = "committed"

InOrder ==
  \A t \in Txn : pc[t] = "prepare" =>
    \A r, s \in roots[t] : r < s /\ Began(s, t) => Began(r, t)

Reached ==
  \A t \in Txn, here \in RecoverAt, r, s \in Root :
    (r \in roots[t] \/ Began(r, t)) /\ (s \in roots[t] \/ Began(s, t)) /\ r \in Reach[here]
      => s \in Reach[here]

Lowest ==
  \A q \in Recoverer : Scanning(q) =>
    \E s \in roots[q] : /\ Began(s, target[q])
                        /\ \A r \in Root : Began(r, target[q]) => s <= r

Ended == \A q \in Recoverer : pc[q] = "settle" => pc[target[q]] = "done"

Complete ==
  \A t \in Txn :
    pc[t] = "commit" /\ (\E r \in roots[t] : r <= at[t] /\ row[r][t] # "committed")
      => ~ScanMissed(t)

Noticed ==
  \A q \in Recoverer : Scanning(q) /\ SomeCommitted(target[q]) =>
    \E r \in roots[q] : row[r][target[q]] = "committed"

Forward == \A q \in Recoverer : pc[q] = "settle" /\ SomeCommitted(target[q]) => forward[q]

(* The second inductive invariant, which rests on the first.               *)
Whole ==
  InOrder /\ Reached /\ Lowest /\ Ended /\ Complete /\ Noticed /\ Forward /\ NotTorn

(* A list keeps the committed root it has noticed while rows stand still.  *)
LEMMA NoticedFrame ==
  ASSUME Noticed, UNCHANGED <<row, target>>,
         \A q \in Recoverer : Scanning(q)' => Scanning(q),
         \A q \in Recoverer : \A r \in roots[q] :
           row[r][target[q]] # "none" => r \in roots'[q]
  PROVE  Noticed'
<1> SUFFICES ASSUME NEW q \in Recoverer, Scanning(q)', SomeCommitted(target[q])'
             PROVE  \E r \in roots'[q] : row'[r][target'[q]] = "committed"
  BY DEF Noticed
<1>1. Scanning(q) /\ SomeCommitted(target[q])
  BY DEF SomeCommitted
<1>2. PICK r \in roots[q] : row[r][target[q]] = "committed"
  BY <1>1 DEF Noticed
<1>3. r \in roots'[q]
  BY <1>2
<1> QED BY <1>2, <1>3

(* A plan that reaches into the roots of a recovery lies within them.      *)
LEMMA PlanWhole ==
  ASSUME IInv, Whole, ReachesWholePlans, NEW t \in Txn, NEW S \in PlanRoots, Plan(t, S)
  PROVE  Whole'
<1>1. InOrder'
  BY CrossRootAssumption
  DEF Whole, IInv, TypeOK, Proc, InOrder, Began, Plan, GotoPhase, NoFault, durable
<1>2. Reached'
  BY CrossRootAssumption
  DEF Whole, IInv, TypeOK, Proc, Reached, Began, Plan, GotoPhase, NoFault, durable,
      ReachesWholePlans, OwnRows, OwnRowsOf
<1>3. Lowest'
  BY CrossRootAssumption
  DEF Whole, IInv, TypeOK, Proc, Lowest, Scanning, Began, Plan, GotoPhase, NoFault,
      durable
<1>4. Ended'
  BY CrossRootAssumption
  DEF Whole, IInv, TypeOK, Proc, Ended, Plan, GotoPhase, NoFault, durable
<1>5. Complete'
  BY CrossRootAssumption
  DEF Whole, IInv, TypeOK, Proc, Complete, ScanMissed, Plan, GotoPhase, NoFault,
      durable
<1>6. Noticed'
  BY CrossRootAssumption
  DEF Whole, IInv, TypeOK, Proc, Noticed, Scanning, SomeCommitted, Plan, GotoPhase,
      NoFault, durable
<1>7. Forward'
  BY CrossRootAssumption
  DEF Whole, IInv, TypeOK, Proc, Forward, SomeCommitted, Plan, GotoPhase, NoFault,
      durable
<1>8. NotTorn'
  BY CrossRootAssumption
  DEF Whole, IInv, TypeOK, Proc, NotTorn, Plan, GotoPhase, NoFault, durable
<1> QED BY <1>1, <1>2, <1>3, <1>4, <1>5, <1>6, <1>7, <1>8 DEF Whole

(* Taking a lock only moves a loop on.                                     *)
LEMMA AcquireWhole ==
  ASSUME IInv, Whole, NEW p \in Proc, Acquire(p)
  PROVE  Whole'
<1>1. InOrder'
  BY CrossRootAssumption
  DEF Whole, IInv, TypeOK, Proc, InOrder, Began, Acquire, Turn, Advance, NoFault,
      durable
<1>2. Reached'
  BY CrossRootAssumption
  DEF Whole, IInv, TypeOK, Proc, Reached, Began, Acquire, Turn, Advance, NoFault,
      durable
<1>3. Lowest'
  BY CrossRootAssumption
  DEF Whole, IInv, TypeOK, Proc, Lowest, Scanning, Began, Acquire, Turn, Advance,
      NoFault, durable
<1>4. Ended'
  BY CrossRootAssumption
  DEF Whole, IInv, TypeOK, Proc, Ended, Acquire, Turn, Advance, NoFault, durable
<1>5. Complete'
  BY CrossRootAssumption
  DEF Whole, IInv, TypeOK, Proc, Complete, ScanMissed, Acquire, Turn, Advance,
      NoFault, durable
<1>6. Noticed'
  <2>1. UNCHANGED <<row, target, roots, pc>>
    BY DEF Acquire, Advance, durable
  <2>2. \A q \in Recoverer : Scanning(q)' => Scanning(q)
    BY <2>1 DEF Scanning
  <2> QED BY <2>1, <2>2, NoticedFrame DEF Whole
<1>7. Forward'
  BY CrossRootAssumption
  DEF Whole, IInv, TypeOK, Proc, Forward, SomeCommitted, Acquire, Turn, Advance,
      NoFault, durable
<1>8. NotTorn'
  BY CrossRootAssumption
  DEF Whole, IInv, TypeOK, Proc, NotTorn, Acquire, Turn, Advance, NoFault, durable
<1> QED BY <1>1, <1>2, <1>3, <1>4, <1>5, <1>6, <1>7, <1>8 DEF Whole

(* A process that ends leaves no list of participants behind.              *)
LEMMA ExitWhole ==
  ASSUME IInv, Whole, NEW p \in Proc, pc[p] # "idle", Exit(p), UNCHANGED durable
  PROVE  Whole'
<1>1. InOrder'
  BY CrossRootAssumption
  DEF Whole, IInv, TypeOK, Proc, InOrder, Began, Exit, durable, Phases
<1>2. Reached'
  BY CrossRootAssumption
  DEF Whole, IInv, TypeOK, Proc, Reached, Began, Exit, durable, Phases
<1>3. Lowest'
  BY CrossRootAssumption
  DEF Whole, IInv, TypeOK, Proc, Lowest, Scanning, Began, Exit, durable, Phases
<1>4. Ended'
  BY CrossRootAssumption
  DEF Whole, IInv, TypeOK, Proc, Ended, Exit, durable, Phases
<1>5. Complete'
  BY CrossRootAssumption
  DEF Whole, IInv, TypeOK, Proc, Complete, ScanMissed, Exit, durable, Phases
<1>6. Noticed'
  BY CrossRootAssumption
  DEF Whole, IInv, TypeOK, Proc, Noticed, Scanning, SomeCommitted, Exit, durable,
      Phases
<1>7. Forward'
  BY CrossRootAssumption
  DEF Whole, IInv, TypeOK, Proc, Forward, SomeCommitted, Exit, durable, Phases
<1>8. NotTorn'
  BY CrossRootAssumption
  DEF Whole, IInv, TypeOK, Proc, NotTorn, Exit, durable, Phases
<1> QED BY <1>1, <1>2, <1>3, <1>4, <1>5, <1>6, <1>7, <1>8 DEF Whole

(* A run that starts to prepare has no row yet.                            *)
LEMMA PrepareWhole ==
  ASSUME IInv, Whole, NEW t \in Txn, pc[t] = "lock", GotoPhase(t, "prepare"),
         UNCHANGED <<roots, target, forward, row>>
  PROVE  Whole'
<1>1. InOrder'
  BY CrossRootAssumption
  DEF Whole, IInv, TypeOK, Proc, InOrder, Began, GotoPhase, OwnRows, OwnRowsOf, Phases
<1>2. Reached'
  BY CrossRootAssumption
  DEF Whole, IInv, TypeOK, Proc, Reached, Began, GotoPhase, OwnRows, OwnRowsOf, Phases
<1>3. Lowest'
  BY CrossRootAssumption
  DEF Whole, IInv, TypeOK, Proc, Lowest, Scanning, Began, GotoPhase, OwnRows,
      OwnRowsOf, Phases
<1>4. Ended'
  BY CrossRootAssumption
  DEF Whole, IInv, TypeOK, Proc, Ended, GotoPhase, OwnRows, OwnRowsOf, Phases
<1>5. Complete'
  BY CrossRootAssumption
  DEF Whole, IInv, TypeOK, Proc, Complete, ScanMissed, GotoPhase, OwnRows, OwnRowsOf,
      Phases
<1>6. Noticed'
  <2>1. \A q \in Recoverer : pc'[q] = pc[q]
    BY CrossRootAssumption DEF IInv, TypeOK, Proc, GotoPhase
  <2>2. \A q \in Recoverer : Scanning(q)' => Scanning(q)
    BY <2>1 DEF Scanning
  <2> QED BY <2>2, NoticedFrame DEF Whole
<1>7. Forward'
  BY CrossRootAssumption
  DEF Whole, IInv, TypeOK, Proc, Forward, SomeCommitted, GotoPhase, OwnRows,
      OwnRowsOf, Phases
<1>8. NotTorn'
  BY CrossRootAssumption
  DEF Whole, IInv, TypeOK, Proc, NotTorn, GotoPhase, OwnRows, OwnRowsOf, Phases
<1> QED BY <1>1, <1>2, <1>3, <1>4, <1>5, <1>6, <1>7, <1>8 DEF Whole

(* A row that stays pending or becomes pending is no commit.               *)
LEMMA PendingRow ==
  ASSUME IInv, NEW t \in Txn, NEW r \in Root, NEW s \in PendingState,
         SetRow(r, t, s), row[r][t] \notin {"committed", "rolled-back"}
  PROVE  /\ \A x \in Root, u \in Txn : row'[x][u] = "committed" <=> row[x][u] = "committed"
         /\ \A x \in Root, u \in Txn : row'[x][u] = "rolled-back" <=> row[x][u] = "rolled-back"
         /\ \A x \in Root, u \in Txn : Began(x, u)' <=> Began(x, u) \/ (x = r /\ u = t)
  BY DEF IInv, TypeOK, SetRow, Began, PendingState

(* A root that moves on while its transaction prepares: what was lowest on *)
(* a list stays lowest, since roots begin in path order.                   *)
LEMMA PrepareRowWhole ==
  ASSUME IInv, Whole, NEW t \in Txn, NEW r \in Root, NEW s \in PendingState,
         pc[t] = "prepare", Turn(t, r), SetRow(r, t, s),
         row[r][t] \notin {"committed", "rolled-back"},
         UNCHANGED <<pc, roots, target, forward>>,
         \A p \in Proc : p # t => at'[p] = at[p]
  PROVE  Whole'
<1>1. /\ \A x \in Root, u \in Txn : row'[x][u] = "committed" <=> row[x][u] = "committed"
      /\ \A x \in Root, u \in Txn : row'[x][u] = "rolled-back" <=> row[x][u] = "rolled-back"
      /\ \A x \in Root, u \in Txn : Began(x, u)' <=> Began(x, u) \/ (x = r /\ u = t)
  BY PendingRow
<1>2. \A x \in roots[t] : x < r => Began(x, t)
  BY CrossRootAssumption DEF IInv, TypeOK, OwnRows, OwnRowsOf, Turn, Began, Proc, Root
<1>3. /\ roots[t] \subseteq Root /\ r \in roots[t]
      /\ \A q \in Recoverer : roots[q] \subseteq Root /\ (pc[q] # "idle" => target[q] \in Txn)
  BY DEF IInv, TypeOK, Phases, Turn, Proc
<1>4. InOrder'
  <2> SUFFICES ASSUME NEW u \in Txn, pc[u] = "prepare", NEW x \in roots[u], NEW y \in roots[u],
                      x < y, Began(y, u)'
               PROVE  Began(x, u)'
    BY DEF InOrder
  <2>1. x \in Root /\ y \in Root
    BY DEF IInv, TypeOK, Proc
  <2>2. CASE u = t /\ y = r
    BY <1>1, <1>2, <2>1, <2>2
  <2>3. CASE Began(y, u)
    BY <1>1, <2>1, <2>3 DEF Whole, InOrder
  <2> QED BY <1>1, <2>1, <2>2, <2>3
<1>5. Reached'
  BY <1>1, <1>3 DEF Whole, Reached
<1>6. Lowest'
  <2> SUFFICES ASSUME NEW q \in Recoverer, Scanning(q)
               PROVE  \E w \in roots[q] : /\ Began(w, target[q])'
                        /\ \A x \in Root : Began(x, target[q])' => w <= x
    BY DEF Lowest, Scanning
  <2>1. PICK w \in roots[q] : /\ Began(w, target[q])
                             /\ \A x \in Root : Began(x, target[q]) => w <= x
    BY DEF Whole, Lowest
  <2>2. target[q] \in Txn /\ w \in Root
    BY <1>3 DEF Scanning
  <2>3. target[q] = t => w <= r
    <3>1. SUFFICES ASSUME target[q] = t, r < w PROVE FALSE
      BY <2>2 DEF Root
    <3>2. w \in roots[t]
      BY <2>1, <2>2, <3>1 DEF IInv, OwnRows, OwnRowsOf, Began
    <3>3. Began(r, t)
      BY <1>3, <2>1, <3>1, <3>2 DEF Whole, InOrder
    <3> QED BY <2>1, <2>2, <3>1, <3>3 DEF Root
  <2> QED BY <1>1, <2>1, <2>2, <2>3
<1>7. Ended'
  BY DEF Whole, Ended
<1>8. Complete'
  BY <1>1, <1>3 DEF Whole, IInv, TypeOK, Complete, ScanMissed, Proc
<1>9. Noticed'
  <2> SUFFICES ASSUME NEW q \in Recoverer, Scanning(q), NEW x \in Root,
                      row'[x][target[q]] = "committed"
               PROVE  \E y \in roots[q] : row'[y][target[q]] = "committed"
    BY DEF Noticed, Scanning, SomeCommitted
  <2>1. target[q] \in Txn
    BY <1>3 DEF Scanning
  <2>2. PICK y \in roots[q] : row[y][target[q]] = "committed"
    BY <1>1, <2>1 DEF Whole, Noticed, SomeCommitted
  <2> QED BY <1>1, <1>3, <2>1, <2>2
<1>10. Forward'
  BY <1>1, <1>3 DEF Whole, Forward, SomeCommitted
<1>11. NotTorn'
  BY <1>1 DEF Whole, NotTorn
<1> QED BY <1>4, <1>5, <1>6, <1>7, <1>8, <1>9, <1>10, <1>11 DEF Whole

(* No boundary has failed when the first is about to be crossed.           *)
LEMMA PreparedWhole ==
  ASSUME IInv, Whole, NEW t \in Txn, prepared(t)
  PROVE  Whole'
<1>1. InOrder'
  BY CrossRootAssumption
  DEF Whole, IInv, TypeOK, Proc, InOrder, Began, prepared, Through, GotoPhase,
      NoFault, durable
<1>2. Reached'
  BY CrossRootAssumption
  DEF Whole, IInv, TypeOK, Proc, Reached, Began, prepared, Through, GotoPhase,
      NoFault, durable
<1>3. Lowest'
  BY CrossRootAssumption
  DEF Whole, IInv, TypeOK, Proc, Lowest, Scanning, Began, prepared, Through,
      GotoPhase, NoFault, durable
<1>4. Ended'
  BY CrossRootAssumption
  DEF Whole, IInv, TypeOK, Proc, Ended, prepared, Through, GotoPhase, NoFault, durable
<1>5. Complete'
  <2> SUFFICES ASSUME NEW u \in Txn, pc'[u] = "commit", NEW x \in roots[u],
                      x <= at'[u], row[x][u] # "committed"
               PROVE  ~ScanMissed(u)
    BY DEF Complete, ScanMissed, prepared, durable
  <2>1. u # t
    BY DEF IInv, TypeOK, Proc, Root, prepared, GotoPhase
  <2>2. pc[u] = "commit" /\ x <= at[u]
    BY <2>1 DEF IInv, TypeOK, Proc, prepared, GotoPhase
  <2> QED BY <2>2 DEF Whole, Complete
<1>6. Noticed'
  BY CrossRootAssumption
  DEF Whole, IInv, TypeOK, Proc, Noticed, Scanning, SomeCommitted, prepared, Through,
      GotoPhase, NoFault, durable
<1>7. Forward'
  BY CrossRootAssumption
  DEF Whole, IInv, TypeOK, Proc, Forward, SomeCommitted, prepared, Through, GotoPhase,
      NoFault, durable
<1>8. NotTorn'
  BY CrossRootAssumption
  DEF Whole, IInv, TypeOK, Proc, NotTorn, prepared, Through, GotoPhase, NoFault,
      durable
<1> QED BY <1>1, <1>2, <1>3, <1>4, <1>5, <1>6, <1>7, <1>8 DEF Whole

(* A set of roots that is not empty has a lowest root.                     *)
LEMMA LowestRoot ==
  ASSUME NEW S \in SUBSET Root, S # {}
  PROVE  \E s \in S : \A r \in S : s <= r
<1> DEFINE less == OpToRel(<, Nat)
<1>1. IsWellFoundedOn(less, Nat)
  BY NatLessThanWellFounded
<1>2. \A i, n \in Nat : <<i, n>> \notin less => n <= i
  BY DEF OpToRel
<1>3. S \subseteq Nat
  BY DEF Root
<1> HIDE DEF less
<1>4. PICK n \in S : \A i \in S : <<i, n>> \notin less
  BY <1>1, <1>3, WFMin
<1> QED BY <1>2, <1>3, <1>4

(* A new recovery lists every participant there is: it began where one is  *)
(* pending, and so reaches them all.                                       *)
LEMMA RecoverAllWhole ==
  ASSUME IInv, Whole, NEW q \in Recoverer, NEW here \in RecoverAt, NEW t \in Txn,
         recoverAll(q, here, t)
  PROVE  Whole'
<1>1. /\ target' = [target EXCEPT ![q] = t] /\ roots' = [roots EXCEPT ![q] = Reach[here]]
      /\ UNCHANGED <<lock, row, forward>>
      /\ \E r \in Reach[here] : Pending(r, t)
      /\ pc'[q] \in {"scanUp", "scanDown"}
  BY DEF recoverAll, durable, IInv, TypeOK, Proc
<1>2. Reach[here] \subseteq Root
  BY CrossRootAssumption
<1>3. \A p \in Proc : p # q => pc'[p] = pc[p] /\ at'[p] = at[p] /\ roots'[p] = roots[p]
  BY <1>1 DEF recoverAll, IInv, TypeOK, Proc
<1>4. roots'[q] = Reach[here] /\ target'[q] = t
  BY <1>1 DEF IInv, TypeOK, Proc
<1>5. \A x \in Recoverer : x # q => target'[x] = target[x]
  BY <1>1 DEF IInv, TypeOK
<1>6. \A u \in Txn : u \in Proc /\ u # q
  BY CrossRootAssumption DEF Proc
<1>7. \A s \in Root : s \in roots[t] \/ Began(s, t) => s \in Reach[here]
  <2>1. PICK r \in Reach[here] : Began(r, t)
    BY <1>1 DEF Pending, PendingState, Began
  <2> QED BY <1>2, <2>1 DEF Whole, Reached
<1>8. InOrder'
  BY <1>1, <1>3, <1>6 DEF Whole, InOrder, Began
<1>9. Reached'
  BY <1>1, <1>3, <1>6 DEF Whole, Reached, Began
<1>10. Lowest'
  <2>1. ASSUME NEW x \in Recoverer, x # q, Scanning(x)'
        PROVE  \E s \in roots'[x] : /\ Began(s, target[x])'
                 /\ \A r \in Root : Began(r, target[x])' => s <= r
    <3>1. Scanning(x) /\ roots'[x] = roots[x] /\ target'[x] = target[x]
      BY <1>3, <1>5, <2>1 DEF Scanning, Proc
    <3> QED BY <1>1, <2>1, <3>1 DEF Whole, Lowest, Began
  <2>2. \E s \in roots'[q] : /\ Began(s, target[q])'
          /\ \A r \in Root : Began(r, target[q])' => s <= r
    <3> DEFINE B == {r \in Root : Began(r, t)}
    <3>1. B # {}
      BY <1>1, <1>2 DEF Pending, PendingState, Began
    <3>2. PICK s \in B : \A r \in B : s <= r
      BY <3>1, LowestRoot
    <3> QED BY <1>1, <1>4, <1>7, <3>2 DEF Began
  <2> QED BY <2>1, <2>2 DEF Lowest
<1>11. Ended'
  BY <1>1, <1>3, <1>5, <1>6 DEF Whole, Ended, IInv, Phases, Proc
<1>12. Complete'
  <2> SUFFICES ASSUME NEW u \in Txn, pc'[u] = "commit", NEW x \in roots'[u],
                      x <= at'[u], row'[x][u] # "committed",
                      NEW z \in Recoverer, target'[z] = u
               PROVE  roots'[u] \subseteq roots'[z]
    BY DEF Complete, ScanMissed
  <2>1. /\ pc[u] = "commit" /\ x \in roots[u] /\ x <= at[u] /\ row[x][u] # "committed"
        /\ roots'[u] = roots[u] /\ roots[u] \subseteq Root
    BY <1>1, <1>3, <1>6 DEF IInv, TypeOK
  <2>2. CASE z = q
    BY <1>4, <1>7, <2>1, <2>2
  <2>3. CASE z # q
    BY <1>3, <1>5, <2>1, <2>3 DEF Whole, Complete, ScanMissed, Proc
  <2> QED BY <2>2, <2>3
<1>13. Noticed'
  <2> SUFFICES ASSUME NEW x \in Recoverer, Scanning(x)', NEW c \in Root,
                      row[c][target'[x]] = "committed"
               PROVE  \E r \in roots'[x] : row[r][target'[x]] = "committed"
    BY <1>1 DEF Noticed, SomeCommitted
  <2>1. CASE x = q
    BY <1>4, <1>7, <2>1 DEF Began
  <2>2. CASE x # q
    <3>1. Scanning(x) /\ roots'[x] = roots[x] /\ target'[x] = target[x]
      BY <1>3, <1>5, <2>2 DEF Scanning, Proc
    <3> QED BY <3>1 DEF Whole, Noticed, SomeCommitted
  <2> QED BY <2>1, <2>2
<1>14. Forward'
  <2> SUFFICES ASSUME NEW x \in Recoverer, pc'[x] = "settle", SomeCommitted(target[x])'
               PROVE  forward[x]
    BY <1>1 DEF Forward
  <2>1. x # q
    BY <1>1
  <2> QED BY <1>1, <1>3, <1>5, <2>1 DEF Whole, Forward, SomeCommitted, Proc
<1>15. NotTorn'
  BY <1>1 DEF Whole, NotTorn
<1> QED BY <1>8, <1>9, <1>10, <1>11, <1>12, <1>13, <1>14, <1>15 DEF Whole

(* Looking drops only roots without a row.                                 *)
LEMMA LookWhole ==
  ASSUME IInv, Whole, NEW q \in Recoverer, NEW r \in Root,
         pc[q] \in {"scanUp", "scanDown"}, Look(q, r)
  PROVE  Whole'
<1>1. InOrder'
  BY CrossRootAssumption
  DEF Whole, IInv, TypeOK, Proc, InOrder, Began, Look, NoFault, durable, OwnRows,
      OwnRowsOf, Phases
<1>2. Reached'
  BY CrossRootAssumption
  DEF Whole, IInv, TypeOK, Proc, Reached, Began, Look, NoFault, durable, OwnRows,
      OwnRowsOf, Phases
<1>3. Lowest'
  BY CrossRootAssumption
  DEF Whole, IInv, TypeOK, Proc, Lowest, Scanning, Began, Look, NoFault, durable,
      OwnRows, OwnRowsOf, Phases
<1>4. Ended'
  BY CrossRootAssumption
  DEF Whole, IInv, TypeOK, Proc, Ended, Look, NoFault, durable, OwnRows, OwnRowsOf,
      Phases
<1>5. Complete'
  <2> SUFFICES ASSUME NEW u \in Txn, pc'[u] = "commit", NEW x \in roots'[u],
                      x <= at'[u], row'[x][u] # "committed",
                      NEW c \in Recoverer, target'[c] = u
               PROVE  roots'[u] \subseteq roots'[c]
    BY DEF Complete, ScanMissed
  <2>1. UNCHANGED <<row, pc, target>>
    BY DEF Look, durable
  <2>2. u \in Proc /\ c \in Proc /\ q \in Proc /\ u # q
    BY CrossRootAssumption DEF Proc
  <2>3. /\ roots'[q] = IF row[r][target[q]] = "none" THEN roots[q] \ {r} ELSE roots[q]
        /\ \A p \in Proc : p # q => roots'[p] = roots[p] /\ at'[p] = at[p]
    BY <2>1, <2>2 DEF IInv, TypeOK, Look
  <2>4. roots[u] \subseteq roots[c]
    BY <2>1, <2>2, <2>3 DEF Whole, Complete, ScanMissed
  <2>5. \A y \in roots[u] : row[y][u] \in {"prepared", "committed"}
    BY <2>1 DEF IInv, OwnRows, OwnRowsOf
  <2>6. CASE c # q
    BY <2>2, <2>3, <2>4, <2>6
  <2>7. CASE c = q
    <3>1. row[r][u] = "none" => r \notin roots[u]
      BY <2>5
    <3>2. roots'[q] = IF row[r][u] = "none" THEN roots[q] \ {r} ELSE roots[q]
      BY <2>1, <2>3, <2>7
    <3> QED BY <2>2, <2>3, <2>4, <2>7, <3>1, <3>2
  <2> QED BY <2>6, <2>7
<1>6. Noticed'
  <2>1. UNCHANGED <<row, target, pc>> /\ q \in Proc
    BY DEF Look, durable, Proc
  <2>2. \A x \in Recoverer : Scanning(x)' => Scanning(x)
    BY <2>1 DEF Scanning
  <2>3. \A x \in Recoverer : \A s \in roots[x] :
          row[s][target[x]] # "none" => s \in roots'[x]
    <3> SUFFICES ASSUME NEW x \in Recoverer, NEW s \in roots[x],
                        row[s][target[x]] # "none"
                 PROVE  s \in roots'[x]
      OBVIOUS
    <3>1. x \in Proc /\ roots \in [Proc -> SUBSET Root]
      BY DEF IInv, TypeOK, Proc
    <3>2. CASE x # q
      BY <3>1, <3>2, <2>1 DEF Look
    <3>3. CASE x = q
      <4>1. roots'[q] = IF row[r][target[q]] = "none" THEN roots[q] \ {r} ELSE roots[q]
        BY <3>1, <2>1 DEF Look
      <4> QED BY <4>1, <3>3
    <3> QED BY <3>2, <3>3
  <2> QED BY <2>1, <2>2, <2>3, NoticedFrame DEF Whole
<1>7. Forward'
  BY CrossRootAssumption
  DEF Whole, IInv, TypeOK, Proc, Forward, SomeCommitted, Look, NoFault, durable,
      OwnRows, OwnRowsOf, Phases
<1>8. NotTorn'
  BY CrossRootAssumption
  DEF Whole, IInv, TypeOK, Proc, NotTorn, Look, NoFault, durable, OwnRows, OwnRowsOf,
      Phases
<1> QED BY <1>1, <1>2, <1>3, <1>4, <1>5, <1>6, <1>7, <1>8 DEF Whole

(* The list of participants is kept while their locks are taken.           *)
LEMMA ParticipantsWhole ==
  ASSUME IInv, Whole, NEW q \in Recoverer,
         pc[q] \in {"scanUp", "scanDown"}, GotoPhase(q, "lock"),
         UNCHANGED <<roots, target, forward, row>>
  PROVE  Whole'
<1>1. InOrder'
  BY CrossRootAssumption
  DEF Whole, IInv, TypeOK, Proc, InOrder, Began, GotoPhase
<1>2. Reached'
  BY CrossRootAssumption
  DEF Whole, IInv, TypeOK, Proc, Reached, Began, GotoPhase
<1>3. Lowest'
  BY CrossRootAssumption
  DEF Whole, IInv, TypeOK, Proc, Lowest, Scanning, Began, GotoPhase
<1>4. Ended'
  BY CrossRootAssumption
  DEF Whole, IInv, TypeOK, Proc, Ended, GotoPhase
<1>5. Complete'
  BY CrossRootAssumption
  DEF Whole, IInv, TypeOK, Proc, Complete, ScanMissed, GotoPhase
<1>6. Noticed'
  BY CrossRootAssumption
  DEF Whole, IInv, TypeOK, Proc, Noticed, Scanning, SomeCommitted, GotoPhase
<1>7. Forward'
  BY CrossRootAssumption
  DEF Whole, IInv, TypeOK, Proc, Forward, SomeCommitted, GotoPhase
<1>8. NotTorn'
  BY CrossRootAssumption
  DEF Whole, IInv, TypeOK, Proc, NotTorn, GotoPhase
<1> QED BY <1>1, <1>2, <1>3, <1>4, <1>5, <1>6, <1>7, <1>8 DEF Whole

(* Holding the lock of the lowest participant, the recoverer knows that    *)
(* the transaction has ended; and it saw a committed root if there is one. *)
LEMMA DecideWhole ==
  ASSUME IInv, Whole, NEW q \in Recoverer, decide(q)
  PROVE  Whole'
<1>1. InOrder'
  BY CrossRootAssumption
  DEF Whole, IInv, TypeOK, Proc, InOrder, Began, decide, Through, GotoPhase, NoFault,
      durable, OwnRows, OwnRowsOf, Phases, Locks
<1>2. Reached'
  BY CrossRootAssumption
  DEF Whole, IInv, TypeOK, Proc, Reached, Began, decide, Through, GotoPhase, NoFault,
      durable, OwnRows, OwnRowsOf, Phases, Locks
<1>3. Lowest'
  BY CrossRootAssumption
  DEF Whole, IInv, TypeOK, Proc, Lowest, Scanning, Began, decide, Through, GotoPhase,
      NoFault, durable, OwnRows, OwnRowsOf, Phases, Locks
<1>4. Ended'
  <2>1. ASSUME NEW x \in Recoverer, x # q, pc'[x] = "settle"
        PROVE  pc'[target'[x]] = "done"
    <3>1. pc[x] = "settle" /\ pc[target[x]] = "done" /\ target' = target
      BY <2>1 DEF decide, GotoPhase, IInv, TypeOK, Proc, Whole, Ended
    <3>2. target[x] # q /\ target[x] \in Proc
      BY <3>1 DEF decide, IInv, Phases, Proc
    <3> QED BY <3>1, <3>2 DEF decide, GotoPhase, IInv, TypeOK
  <2>2. pc'[target'[q]] = "done"
    <3>1. target[q] \in Txn /\ target[q] \in Proc /\ target[q] # q /\ target' = target
      BY CrossRootAssumption DEF decide, IInv, Phases, Proc
    <3>2. PICK s \in roots[q] : Began(s, target[q])
      BY DEF decide, Whole, Lowest, Scanning
    <3>3. s \in Root /\ lock[s] = q
      BY <3>2 DEF decide, Through, IInv, TypeOK, Locks, Proc
    <3>4. pc[target[q]] \notin {"idle", "lock", "prepare", "unwind", "commit"}
      BY <3>1, <3>2, <3>3 DEF IInv, OwnRows, OwnRowsOf, Locks, Began
    <3>5. pc[target[q]] = "done"
      BY <3>1, <3>4 DEF IInv, Phases, TxnPhase
    <3> QED BY <3>1, <3>5 DEF decide, GotoPhase, IInv, TypeOK
  <2> QED BY <2>1, <2>2 DEF Ended
<1>5. Complete'
  <2> SUFFICES ASSUME NEW u \in Txn, pc'[u] = "commit", NEW x \in roots'[u],
                      x <= at'[u], row'[x][u] # "committed",
                      NEW z \in Recoverer, target'[z] = u
               PROVE  roots'[u] \subseteq roots'[z]
    BY DEF Complete, ScanMissed
  <2>1. u \in Proc /\ u # q
    BY CrossRootAssumption DEF Proc
  <2>2. /\ pc[u] = "commit" /\ x \in roots[u] /\ x <= at[u] /\ row[x][u] # "committed"
        /\ roots'[u] = roots[u] /\ target[z] = u
    BY <2>1 DEF decide, GotoPhase, durable, IInv, TypeOK
  <2>3. z # q
    <3>1. pc'[q] = "settle"
      BY DEF decide, GotoPhase, IInv, TypeOK, Proc
    <3> QED BY <1>4, <3>1 DEF Ended
  <2> QED BY <2>2, <2>3 DEF Whole, Complete, ScanMissed, decide, IInv, TypeOK, Proc
<1>6. Noticed'
  BY CrossRootAssumption
  DEF Whole, IInv, TypeOK, Proc, Noticed, Scanning, SomeCommitted, decide, Through,
      GotoPhase, NoFault, durable, OwnRows, OwnRowsOf, Phases, Locks
<1>7. Forward'
  <2> SUFFICES ASSUME NEW x \in Recoverer, pc'[x] = "settle", SomeCommitted(target[x])
               PROVE  forward'[x]
    BY DEF Forward, SomeCommitted, decide, durable
  <2>1. CASE x = q
    <3>1. Scanning(q)
      BY DEF decide, Scanning
    <3>2. \E r \in roots[q] : row[r][target[q]] = "committed"
      BY <2>1, <3>1 DEF Whole, Noticed
    <3> QED BY <2>1, <3>2 DEF decide, IInv, TypeOK
  <2>2. CASE x # q
    BY <2>2 DEF Whole, Forward, decide, GotoPhase, IInv, TypeOK, Proc
  <2> QED BY <2>1, <2>2
<1>8. NotTorn'
  BY CrossRootAssumption
  DEF Whole, IInv, TypeOK, Proc, NotTorn, decide, Through, GotoPhase, NoFault,
      durable, OwnRows, OwnRowsOf, Phases, Locks
<1> QED BY <1>1, <1>2, <1>3, <1>4, <1>5, <1>6, <1>7, <1>8 DEF Whole

(* What closing a row leaves as it is: no row is begun, and a commit       *)
(* stays.                                                                  *)
LEMMA SettledRows ==
  ASSUME NEW t \in Txn, NEW r \in Root, NEW s \in {"committed", "rolled-back"},
         Settles(r, t, s)
  PROVE  /\ \A x \in Root, u \in Txn : Began(x, u)' <=> Began(x, u)
         /\ \A x \in Root, u \in Txn : row[x][u] = "committed" => row'[x][u] = "committed"
         /\ \A x \in Root, u \in Txn :
              row'[x][u] = row[x][u] \/ (x = r /\ u = t /\ row'[x][u] = s)
<1>1. Began(r, t)' <=> Began(r, t)
  BY DEF Settles, RowSettles, Began, Pending, PendingState
<1>2. row[r][t] = "committed" => row'[r][t] = "committed"
  BY DEF Settles, RowSettles, Pending, PendingState
<1> QED BY <1>1, <1>2 DEF Settles, RowSettles, Began

(* The parts of Whole that no closing of a row touches.                    *)
LEMMA SettlesFrame ==
  ASSUME IInv, Whole, NEW t \in Txn, NEW r \in Root, NEW s \in {"committed", "rolled-back"},
         Settles(r, t, s), UNCHANGED <<roots, target, forward>>,
         \A p \in Proc : p # t => pc'[p] = pc[p],
         pc[t] = "done" => pc'[t] = "done",
         pc'[t] = "prepare" => pc[t] = "prepare"
  PROVE  InOrder' /\ Reached' /\ Lowest' /\ Ended'
<1>1. \A x \in Root, u \in Txn : Began(x, u)' <=> Began(x, u)
  BY SettledRows
<1>2. /\ \A p \in Proc : roots[p] \subseteq Root
      /\ \A q \in Recoverer : pc'[q] = pc[q] /\ (pc[q] # "idle" => target[q] \in Txn)
  BY CrossRootAssumption DEF IInv, TypeOK, Phases, Proc
<1>3. InOrder'
  BY <1>1, <1>2 DEF Whole, InOrder, Proc
<1>4. Reached'
  BY <1>1 DEF Whole, Reached
<1>5. Lowest'
  <2> SUFFICES ASSUME NEW q \in Recoverer, Scanning(q)
               PROVE  \E w \in roots[q] : /\ Began(w, target[q])'
                        /\ \A x \in Root : Began(x, target[q])' => w <= x
    BY <1>2 DEF Lowest, Scanning
  <2>1. PICK w \in roots[q] : /\ Began(w, target[q])
                             /\ \A x \in Root : Began(x, target[q]) => w <= x
    BY DEF Whole, Lowest
  <2>2. target[q] \in Txn /\ w \in Root
    BY <1>2 DEF Scanning, Proc
  <2> QED BY <1>1, <2>1, <2>2
<1>6. Ended'
  BY <1>2 DEF Whole, Ended, Proc
<1> QED BY <1>3, <1>4, <1>5, <1>6

(* Closing a row the way the other roots went: a commit follows a commit,  *)
(* a reversal comes where there is none.                                   *)
LEMMA SettlesWhole ==
  ASSUME IInv, Whole, NEW t \in Txn, NEW r \in Root, NEW s \in {"committed", "rolled-back"},
         Settles(r, t, s), UNCHANGED <<roots, target, forward>>,
         s = "committed" <=> SomeCommitted(t),
         \A p \in Proc : p # t => pc'[p] = pc[p],
         \A u \in Txn : u # t => at'[u] = at[u],
         pc[t] # "commit", pc'[t] # "commit", pc[t] = "done" => pc'[t] = "done",
         pc'[t] = "prepare" => pc[t] = "prepare"
  PROVE  Whole'
<1>1. InOrder' /\ Reached' /\ Lowest' /\ Ended'
  BY SettlesFrame
<1>2. /\ \A x \in Root, u \in Txn : row[x][u] = "committed" => row'[x][u] = "committed"
      /\ \A x \in Root, u \in Txn :
           row'[x][u] = row[x][u] \/ (x = r /\ u = t /\ row'[x][u] = s)
  BY SettledRows
<1>3. /\ \A p \in Proc : roots[p] \subseteq Root
      /\ \A q \in Recoverer : pc'[q] = pc[q] /\ (pc[q] # "idle" => target[q] \in Txn)
  <2>1. roots \in [Proc -> SUBSET Root]
    BY DEF IInv, TypeOK
  <2>2. \A q \in Recoverer : q # t /\ q \in Proc
    BY CrossRootAssumption DEF Proc
  <2>3. \A q \in Recoverer : pc[q] # "idle" => target[q] \in Txn
    BY DEF IInv, Phases
  <2> QED BY <2>1, <2>2, <2>3
<1>4. \A u \in Txn : SomeCommitted(u)' <=> SomeCommitted(u)
  BY <1>2 DEF SomeCommitted
<1>5. Complete'
  <2> SUFFICES ASSUME NEW u \in Txn, pc'[u] = "commit", NEW x \in roots[u],
                      x <= at'[u], row'[x][u] # "committed"
               PROVE  ~ScanMissed(u)
    BY DEF Complete, ScanMissed
  <2>1. u # t /\ pc[u] = "commit" /\ x \in Root
    BY <1>3 DEF Proc
  <2> QED BY <1>2, <2>1 DEF Whole, Complete
<1>6. Noticed'
  <2> SUFFICES ASSUME NEW q \in Recoverer, Scanning(q), SomeCommitted(target[q])'
               PROVE  \E y \in roots[q] : row'[y][target[q]] = "committed"
    BY <1>3 DEF Noticed, Scanning
  <2>1. target[q] \in Txn /\ roots[q] \subseteq Root
    BY <1>3 DEF Scanning, Proc
  <2>2. PICK y \in roots[q] : row[y][target[q]] = "committed"
    BY <1>4, <2>1 DEF Whole, Noticed, SomeCommitted
  <2> QED BY <1>2, <2>1, <2>2
<1>7. Forward'
  BY <1>3, <1>4 DEF Whole, Forward, SomeCommitted
<1>8. NotTorn'
  BY <1>2 DEF Whole, NotTorn, SomeCommitted
<1> QED BY <1>1, <1>5, <1>6, <1>7, <1>8 DEF Whole

(* A root is rolled back while its transaction prepares or unwinds: none   *)
(* has committed.                                                          *)
LEMMA PrepareFailsWhole ==
  ASSUME IInv, Whole, NEW t \in Txn, NEW r \in Root, prepareFails(t, r)
  PROVE  Whole'
<1>1. Settles(r, t, "rolled-back")
  BY UnchangedSettles DEF IInv, prepareFails
<1>2. /\ pc[t] = "prepare" /\ GotoPhase(t, "unwind") /\ UNCHANGED <<roots, target, forward>>
  BY DEF prepareFails
<1>3. ~SomeCommitted(t)
  BY <1>2 DEF IInv, OwnRows, OwnRowsOf, SomeCommitted
<1>4. /\ pc'[t] = "unwind" /\ \A p \in Proc : p # t => pc'[p] = pc[p]
      /\ \A u \in Txn : u # t => at'[u] = at[u]
  BY <1>2 DEF GotoPhase, IInv, TypeOK, Proc
<1> QED BY <1>1, <1>2, <1>3, <1>4, SettlesWhole

(* So it is while unwinding.                                               *)
LEMMA UnwindWhole ==
  ASSUME IInv, Whole, NEW t \in Txn, NEW r \in Root, rollbackPrepared(t, r)
  PROVE  Whole'
<1>0. Pending(r, t)
  BY DEF rollbackPrepared, Unwinding
<1>1. Settles(r, t, "rolled-back")
  BY <1>0, RestoreSettles, CloseSettles, UnchangedSettles DEF IInv, rollbackPrepared
<1>2. /\ pc[t] = "unwind" /\ (at' = at \/ at' = [at EXCEPT ![t] = r])
      /\ UNCHANGED <<pc, roots, target, forward>>
  BY DEF rollbackPrepared, Advance
<1>3. ~SomeCommitted(t)
  BY <1>2 DEF IInv, OwnRows, OwnRowsOf, SomeCommitted
<1>4. pc' = pc /\ \A u \in Txn : u # t => at'[u] = at[u]
  BY <1>2 DEF IInv, TypeOK, Proc
<1> QED BY <1>1, <1>2, <1>3, <1>4, SettlesWhole

(* The first root to commit is on every recoverer's list: it is the lowest *)
(* participant, or a boundary failed before it and the lists are complete. *)
LEMMA CommitWhole ==
  ASSUME IInv, Whole, ~StaleScan, NEW t \in Txn, NEW r \in Root, commitRoot(t, r)
  PROVE  Whole'
<1>1. Settles(r, t, "committed")
  BY CommitSettles, UnchangedSettles DEF IInv, TypeOK, commitRoot, durable
<1>2. /\ pc[t] = "commit" /\ Turn(t, r) /\ at' = [at EXCEPT ![t] = r]
      /\ UNCHANGED <<pc, roots, target, forward>>
  BY DEF commitRoot, Advance
<1>3. InOrder' /\ Reached' /\ Lowest' /\ Ended'
  BY <1>1, <1>2, SettlesFrame
<1>4. /\ \A x \in Root, u \in Txn : row[x][u] = "committed" => row'[x][u] = "committed"
      /\ \A x \in Root, u \in Txn :
           row'[x][u] = row[x][u] \/ (x = r /\ u = t /\ row'[x][u] = "committed")
  BY <1>1, SettledRows
<1>5. /\ \A p \in Proc : roots[p] \subseteq Root /\ at[p] \in Nat
      /\ \A q \in Recoverer : pc[q] # "idle" => target[q] \in Txn
  BY CrossRootAssumption DEF IInv, TypeOK, Phases, Proc
<1>6. /\ r \in roots[t] /\ at[t] < r /\ \A x \in roots[t] : at[t] < x => r <= x
      /\ \A x \in roots[t] : row[x][t] \in {"prepared", "committed"}
      /\ \A x \in Root : Began(x, t) => x \in roots[t]
  BY <1>2 DEF Turn, IInv, OwnRows, OwnRowsOf, Began
<1>7. Complete'
  <2> SUFFICES ASSUME NEW u \in Txn, pc[u] = "commit", NEW x \in roots[u],
                      x <= at'[u], row'[x][u] # "committed"
               PROVE  ~ScanMissed(u)
    BY <1>2 DEF Complete, ScanMissed
  <2>1. x \in Root /\ row[x][u] # "committed"
    BY <1>4, <1>5 DEF Proc
  <2>2. CASE u = t /\ x = r
    <3>1. Pending(r, t)
      BY <1>6, <2>1, <2>2 DEF Pending, PendingState
    <3>2. ~FinishTxn(r, t, "committed")
      BY <2>2, <3>1 DEF FinishTxn, IInv, TypeOK
    <3> QED BY <2>2, <3>2 DEF commitRoot
  <2>3. CASE ~(u = t /\ x = r)
    <3>1. x <= at[u]
      <4>1. CASE u = t
        <5>1. x <= r /\ x # r
          BY <1>2, <2>3, <4>1 DEF IInv, TypeOK, Proc
        <5> QED BY <1>5, <1>6, <2>1, <4>1, <5>1 DEF Root, Proc
      <4>2. CASE u # t
        BY <1>2, <4>2 DEF IInv, TypeOK, Proc
      <4> QED BY <4>1, <4>2
    <3> QED BY <2>1, <3>1 DEF Whole, Complete
  <2> QED BY <2>2, <2>3
<1>8. Noticed'
  <2> SUFFICES ASSUME NEW q \in Recoverer, Scanning(q), SomeCommitted(target[q])'
               PROVE  \E y \in roots[q] : row'[y][target[q]] = "committed"
    BY <1>2 DEF Noticed, Scanning
  <2>1. target[q] \in Txn /\ roots[q] \subseteq Root
    BY <1>5 DEF Scanning, Proc
  <2>2. CASE SomeCommitted(target[q])
    <3>1. PICK y \in roots[q] : row[y][target[q]] = "committed"
      BY <2>2 DEF Whole, Noticed, SomeCommitted
    <3> QED BY <1>4, <2>1, <3>1
  <2>3. CASE ~SomeCommitted(target[q])
    <3>1. target[q] = t /\ row'[r][t] = "committed"
      BY <1>2, <1>4, <2>1, <2>3 DEF SomeCommitted
    <3>2. CASE \E x \in roots[t] : x < r
      <4>1. PICK x \in roots[t] : x < r
        BY <3>2
      <4>2. x <= at[t] /\ row[x][t] # "committed" /\ x \in Root
        BY <1>5, <1>6, <2>3, <3>1, <4>1 DEF SomeCommitted, Root, Proc
      <4>3. roots[t] \subseteq roots[q]
        BY <1>2, <3>1, <4>2 DEF Whole, Complete, ScanMissed
      <4> QED BY <1>6, <3>1, <4>3
    <3>3. CASE ~\E x \in roots[t] : x < r
      <4>1. PICK w \in roots[q] : Began(w, t) /\ \A x \in Root : Began(x, t) => w <= x
        BY <3>1 DEF Whole, Lowest
      <4>2. w \in roots[t] /\ w <= r /\ w \in Root
        BY <1>6, <2>1, <4>1 DEF Began
      <4>3. w = r
        BY <3>3, <4>2 DEF Root
      <4> QED BY <3>1, <4>3
    <3> QED BY <3>2, <3>3
  <2> QED BY <2>2, <2>3
<1>9. Forward'
  <2> SUFFICES ASSUME NEW q \in Recoverer, pc[q] = "settle", SomeCommitted(target[q])'
               PROVE  forward[q]
    BY <1>2 DEF Forward
  <2>1. target[q] \in Txn /\ target[q] # t
    BY <1>2, <1>5 DEF Whole, Ended
  <2> QED BY <1>2, <1>4, <2>1 DEF Whole, Forward, SomeCommitted
<1>10. NotTorn'
  <2>1. \A x \in Root : row[x][t] # "rolled-back"
    BY <1>6 DEF Began
  <2> QED BY <1>4, <2>1 DEF Whole, NotTorn
<1> QED BY <1>3, <1>7, <1>8, <1>9, <1>10 DEF Whole

(* A recoverer settles what has ended, and goes the way the others went.   *)
LEMMA ForwardWhole ==
  ASSUME IInv, Whole, NEW q \in Recoverer, NEW r \in Root, rollForward(q, r)
  PROVE  Whole'
<1> DEFINE t == target[q]
<1>1. /\ t \in Txn /\ pc[t] = "done" /\ SomeCommitted(t)
  BY DEF rollForward, IInv, Phases, Targets, SomeCommitted, Whole, Ended
<1>2. Settles(r, t, "committed")
  BY <1>1, CommitSettles DEF IInv, TypeOK, rollForward
<1>3. /\ at' = [at EXCEPT ![q] = r] /\ UNCHANGED <<pc, roots, target, forward>>
  BY DEF rollForward, Advance
<1>4. \A u \in Txn : at'[u] = at[u]
  BY <1>3, CrossRootAssumption DEF IInv, TypeOK, Proc
<1> HIDE DEF t
<1> QED BY <1>1, <1>2, <1>3, <1>4, SettlesWhole

(* Likewise when none of the others committed.                             *)
LEMMA BackWhole ==
  ASSUME IInv, Whole, NEW q \in Recoverer, NEW r \in Root, rollbackTxn(q, r)
  PROVE  Whole'
<1> DEFINE t == target[q]
<1>1. /\ t \in Txn /\ pc[t] = "done" /\ ~SomeCommitted(t) /\ Pending(r, t)
  BY DEF rollbackTxn, Turn, IInv, Phases, Targets, Whole, Ended, Forward
<1>2. Settles(r, t, "rolled-back")
  BY <1>1, RestoreSettles, CloseSettles DEF IInv, rollbackTxn
<1>3. /\ at' = at \/ at' = [at EXCEPT ![q] = r]
      /\ UNCHANGED <<pc, roots, target, forward>>
  BY DEF rollbackTxn, Advance
<1>4. \A u \in Txn : at'[u] = at[u]
  BY <1>3, CrossRootAssumption DEF IInv, TypeOK, Proc
<1> HIDE DEF t
<1> QED BY <1>1, <1>2, <1>3, <1>4, SettlesWhole

(* Before anything has run there is no transaction to tear.                *)
LEMMA InitWhole == Init => Whole
  BY CrossRootAssumption DEF Init, Whole, InOrder, Reached, Lowest, Ended, Complete,
     Noticed, Forward, NotTorn, Scanning, Began, Proc, Root

(* Whole says nothing of the files.                                        *)
LEMMA StandWhole ==
  ASSUME Whole, UNCHANGED <<row, pc, at, roots, target, forward>>
  PROVE  Whole'
  BY DEF Whole, InOrder, Reached, Lowest, Ended, Complete, ScanMissed, Noticed, Forward,
     SomeCommitted, NotTorn, Scanning, Began

(* Every step preserves Whole.                                             *)
LEMMA NextWhole ==
  ASSUME ReachesWholePlans, ~StaleScan
  PROVE  IInv /\ Whole /\ [Next]_vars => Whole'
<1>1. SUFFICES ASSUME IInv, Whole, [Next]_vars PROVE Whole'
  OBVIOUS
<1>2. ASSUME NEW p \in Proc, pc[p] # "idle", Exit(p), UNCHANGED durable
      PROVE  Whole'
  BY <1>1, <1>2, ExitWhole
<1>3. ASSUME NEW t \in Txn,
             (\E S \in PlanRoots : Plan(t, S)) \/ TxnStep(t) \/ provideFails(t)
               \/ (\E r \in Root : prepareFails(t, r))
      PROVE  Whole'
  <2> t \in Proc
    BY DEF Proc
  <2>1. CASE \E S \in PlanRoots : Plan(t, S)
    BY <1>1, <2>1, PlanWhole
  <2>2. CASE Acquire(t)
    BY <1>1, <2>2, AcquireWhole
  <2>3. CASE AcquireBusy(t) \/ unwound(t) \/ committed(t) \/ provideFails(t)
    BY <1>2, <2>3 DEF AcquireBusy, unwound, committed, provideFails
  <2>4. CASE recoverPending(t)
    <3>1. CASE \E r \in roots[t], u \in Txn : Pending(r, u)
      BY <1>2, <2>4, <3>1 DEF recoverPending
    <3>2. CASE ~\E r \in roots[t], u \in Txn : Pending(r, u)
      BY <1>1, <2>4, <3>2, PrepareWhole DEF recoverPending, durable
    <3> QED BY <3>1, <3>2
  <2>5. ASSUME NEW r \in Root, beginTxn(t, r) \/ setCommitPayload(t, r) \/ applyFiles(t, r)
        PROVE  Whole'
    <3>1. PICK s \in PendingState : SetRow(r, t, s)
      BY <2>5 DEF beginTxn, setCommitPayload, applyFiles, PendingState
    <3>2. /\ pc[t] = "prepare" /\ Turn(t, r) /\ UNCHANGED <<pc, roots, target, forward>>
          /\ row[r][t] \notin {"committed", "rolled-back"}
          /\ \A p \in Proc : p # t => at'[p] = at[p]
      BY <1>1, <2>5 DEF beginTxn, setCommitPayload, applyFiles, local, Advance, IInv,
           TypeOK
    <3> QED BY <1>1, <3>1, <3>2, PrepareRowWhole
  <2>6. CASE \E r \in Root : rollbackPrepared(t, r) \/ commitRoot(t, r)
    BY <1>1, <2>6, UnwindWhole, CommitWhole
  <2>7. CASE prepared(t)
    BY <1>1, <2>7, PreparedWhole
  <2>8. CASE \E r \in Root : prepareFails(t, r)
    BY <1>1, <2>8, PrepareFailsWhole
  <2>9. CASE \E r \in Root : applyFirst(t, r)
    BY <1>1, <2>9, StandWhole DEF applyFirst, local
  <2> QED BY <1>3, <2>1, <2>2, <2>3, <2>4, <2>5, <2>6, <2>7, <2>8, <2>9 DEF TxnStep
<1>4. ASSUME NEW q \in Recoverer, Recover(q) \/ RecoverStep(q)
      PROVE  Whole'
  <2> q \in Proc
    BY DEF Proc
  <2>1. CASE Recover(q)
    BY <1>1, <2>1, RecoverAllWhole DEF Recover
  <2>2. CASE lookUp(q) \/ lookDown(q)
    <3>1. PICK r \in Root : pc[q] \in {"scanUp", "scanDown"} /\ Look(q, r)
      BY <1>1, <2>2 DEF lookUp, lookDown, IInv, TypeOK
    <3> QED BY <1>1, <3>1, LookWhole
  <2>3. CASE participants(q)
    <3>1. pc[q] \in {"scanUp", "scanDown"}
      BY <2>3 DEF participants
    <3>2. CASE roots[q] = {}
      BY <1>2, <2>3, <3>1, <3>2 DEF participants
    <3>3. CASE roots[q] # {}
      BY <1>1, <2>3, <3>1, <3>3, ParticipantsWhole DEF participants, durable
    <3> QED BY <3>2, <3>3
  <2>4. CASE Acquire(q)
    BY <1>1, <2>4, AcquireWhole
  <2>5. CASE AcquireBusy(q) \/ settleFails(q) \/ settled(q)
    BY <1>2, <2>5 DEF AcquireBusy, settleFails, settled
  <2>6. CASE decide(q)
    BY <1>1, <2>6, DecideWhole
  <2>7. CASE \E r \in Root : rollForward(q, r) \/ rollbackTxn(q, r)
    BY <1>1, <2>7, ForwardWhole, BackWhole
  <2> QED BY <1>4, <2>1, <2>2, <2>3, <2>4, <2>5, <2>6, <2>7 DEF RecoverStep
<1>5. ASSUME NEW p \in Proc, Crash(p)
      PROVE  Whole'
  BY <1>2, <1>5 DEF Crash, durable
<1>6. CASE UNCHANGED vars
  BY <1>1, <1>6, StandWhole DEF vars, durable, local
<1> QED BY <1>1, <1>3, <1>4, <1>5, <1>6 DEF Next

(* Under the two hypotheses no transaction is ever committed in one root   *)
(* and reversed in another, however many roots, runs, recoveries, kills    *)
(* and failures there are.                                                 *)
THEOREM NeverTorn ==
  ASSUME ReachesWholePlans, ~StaleScan
  PROVE  Spec => []NotTorn
<1>1. IInv /\ Whole /\ [Next]_vars => Whole'
  BY NextWhole
<1>2. Whole => NotTorn
  BY DEF Whole
<1> QED BY <1>1, <1>2, InitWhole, Inductive, PTL DEF Spec

-----------------------------------------------------------------------------
(* A root that voted keeps its files while its transaction prepares the    *)
(* others and crosses the boundaries.                                      *)
Applied ==
  \A t \in Txn :
    /\ pc[t] = "prepare" => \A r \in roots[t] : r <= at[t] => files[r][t] = "new"
    /\ pc[t] = "commit" => \A r \in roots[t] : files[r][t] = "new"

(* Once a root committed, the files are in place wherever the row is       *)
(* prepared or committed.                                                  *)
InPlace(t) ==
  \A r \in Root : row[r][t] \in {"prepared", "committed"} => files[r][t] = "new"
Placed == \A t \in Txn : SomeCommitted(t) => InPlace(t)

Intact == Applied /\ Placed

(* Where the files stand, Applied needs that a loop only begins, goes on   *)
(* or ends.                                                                *)
LEMMA AppliedStands ==
  ASSUME IInv, Applied, UNCHANGED files,
         \A t \in Txn : pc'[t] = "prepare" =>
           roots'[t] = roots[t] /\ (at'[t] = 0 \/ (pc[t] = "prepare" /\ at'[t] = at[t])),
         \A t \in Txn : pc'[t] = "commit" =>
           /\ roots'[t] = roots[t]
           /\ pc[t] = "commit" \/ (pc[t] = "prepare" /\ Through(t))
  PROVE  Applied'
<1> SUFFICES ASSUME NEW t \in Txn
             PROVE  /\ pc'[t] = "prepare" =>
                         \A r \in roots'[t] : r <= at'[t] => files[r][t] = "new"
                    /\ pc'[t] = "commit" => \A r \in roots'[t] : files[r][t] = "new"
  BY DEF Applied
<1>1. roots[t] \subseteq Root
  BY DEF IInv, TypeOK, Proc
<1>2. ASSUME pc'[t] = "prepare", NEW r \in roots'[t], r <= at'[t] PROVE files[r][t] = "new"
  BY <1>1, <1>2, CrossRootAssumption DEF Applied, Root
<1>3. ASSUME pc'[t] = "commit", NEW r \in roots'[t] PROVE files[r][t] = "new"
  BY <1>3 DEF Applied, Through
<1> QED BY <1>2, <1>3

(* Where rows and files stand, so does Placed.                             *)
LEMMA PlacedStands ==
  ASSUME Placed, UNCHANGED durable
  PROVE  Placed'
  BY DEF Placed, SomeCommitted, InPlace, durable

(* A transaction that prepares has committed nowhere.                      *)
LEMMA PlacedPrepares ==
  ASSUME IInv, Placed, NEW t \in Txn, pc[t] = "prepare", NEW r \in Root,
         NEW s \in PendingState, SetRow(r, t, s) \/ UNCHANGED row,
         \A x \in Root, u \in Txn : u # t => files'[x][u] = files[x][u]
  PROVE  Placed'
<1> SUFFICES ASSUME NEW u \in Txn, SomeCommitted(u)' PROVE InPlace(u)'
  BY DEF Placed
<1>1. \A x \in Root : row[x][t] # "committed" /\ row'[x][t] # "committed"
  <2>1. \A x \in Root : row[x][t] # "committed"
    BY DEF IInv, TypeOK, OwnRows, OwnRowsOf, Root, Proc
  <2>2. \A x \in Root : row'[x][t] = row[x][t] \/ row'[x][t] = s
    <3>1. row \in [Root -> [Txn -> RowState]]
      BY DEF IInv, TypeOK
    <3>2. CASE SetRow(r, t, s)
      BY <3>1, <3>2 DEF SetRow
    <3> QED BY <3>2
  <2> QED BY <2>1, <2>2 DEF PendingState
<1>2. u # t
  BY <1>1 DEF SomeCommitted
<1>3. \A x \in Root : row'[x][u] = row[x][u] /\ files'[x][u] = files[x][u]
  BY <1>2 DEF IInv, TypeOK, SetRow
<1> QED BY <1>3 DEF Placed, SomeCommitted, InPlace

(* Closing a row keeps Placed if it follows the other roots: a commit      *)
(* finds the files of every pending root in place, a reversal finds no     *)
(* commit.                                                                 *)
LEMMA PlacedSettles ==
  ASSUME IInv, Placed, NEW t \in Txn, NEW r \in Root, NEW s \in {"committed", "rolled-back"},
         Settles(r, t, s),
         s = "committed" => \A x \in Root : Pending(x, t) => row[x][t] = "prepared",
         s = "committed" => InPlace(t),
         s = "rolled-back" => ~SomeCommitted(t)
  PROVE  Placed'
<1> SUFFICES ASSUME NEW u \in Txn, SomeCommitted(u)', NEW x \in Root,
                    row'[x][u] \in {"prepared", "committed"}
             PROVE  files'[x][u] = "new"
  BY DEF Placed, InPlace
<1>1. /\ \A y \in Root, v \in Txn :
           row'[y][v] = row[y][v] \/ (y = r /\ v = t /\ row'[y][v] = s)
  BY SettledRows
<1>2. CASE u # t
  <2>1. \A y \in Root : row'[y][u] = row[y][u] /\ files'[y][u] = files[y][u]
    BY <1>2 DEF Settles, RowSettles, FilesSettle
  <2> QED BY <2>1 DEF Placed, SomeCommitted, InPlace
<1>3. CASE u = t
  <2>1. s = "committed"
    BY <1>1, <1>3 DEF SomeCommitted
  <2>2. files'[x][t] = files[x][t]
    BY <2>1 DEF Settles, RowSettles, FilesSettle
  <2>3. row[x][t] \in {"prepared", "committed"}
    BY <1>1, <1>3, <2>1 DEF Settles, RowSettles, Pending
  <2> QED BY <1>3, <2>1, <2>2, <2>3 DEF InPlace
<1> QED BY <1>2, <1>3

(* A step of ExecuteCrossRoot keeps Intact.                                *)
LEMMA TxnIntact ==
  ASSUME IInv, Whole, Intact, NEW t \in Txn,
         (\E S \in PlanRoots : Plan(t, S)) \/ TxnStep(t) \/ provideFails(t)
           \/ (\E r \in Root : prepareFails(t, r))
  PROVE  Intact'
<1>0. /\ t \in Proc /\ Txn \subseteq Proc /\ roots[t] \subseteq Root
      /\ pc \in [Proc -> {"idle", "lock", "prepare", "unwind", "commit", "done",
                          "scanUp", "scanDown", "settle"}]
      /\ at \in [Proc -> 0 .. NRoots + 1] /\ roots \in [Proc -> SUBSET Root]
  BY DEF IInv, TypeOK, Proc
<1>1. ASSUME Exit(t), UNCHANGED durable
      PROVE  Intact'
  <2>1. Applied'
    BY <1>0, <1>1, AppliedStands DEF Exit, durable, Intact
  <2> QED BY <1>1, <2>1, PlacedStands DEF Intact
<1>2. ASSUME UNCHANGED <<durable, roots>>,
             NEW ph \in {"lock", "prepare", "unwind", "commit"}, GotoPhase(t, ph),
             ph = "commit" => pc[t] = "prepare" /\ Through(t)
      PROVE  Intact'
  <2>1. Applied'
    BY <1>0, <1>2, AppliedStands DEF GotoPhase, durable, Intact
  <2> QED BY <1>2, <2>1, PlacedStands DEF Intact
<1>3. CASE \E S \in PlanRoots : Plan(t, S)
  <2>1. Applied'
    BY <1>0, <1>3, AppliedStands DEF Plan, GotoPhase, durable, Intact
  <2>2. UNCHANGED durable
    BY <1>3 DEF Plan
  <2> QED BY <2>1, <2>2, PlacedStands DEF Intact
<1>4. CASE Acquire(t)
  <2>1. Applied'
    BY <1>0, <1>4, AppliedStands DEF Acquire, Advance, durable, Intact
  <2>2. UNCHANGED durable
    BY <1>4 DEF Acquire, durable
  <2> QED BY <2>1, <2>2, PlacedStands DEF Intact
<1>5. CASE AcquireBusy(t) \/ unwound(t) \/ committed(t) \/ provideFails(t)
  BY <1>1, <1>5 DEF AcquireBusy, unwound, committed, provideFails
<1>6. CASE recoverPending(t)
  <2>1. CASE \E r \in roots[t], u \in Txn : Pending(r, u)
    BY <1>1, <1>6, <2>1 DEF recoverPending
  <2>2. CASE ~\E r \in roots[t], u \in Txn : Pending(r, u)
    BY <1>2, <1>6, <2>2 DEF recoverPending
  <2> QED BY <2>1, <2>2
<1>7. CASE prepared(t)
  BY <1>2, <1>7 DEF prepared
<1>8. CASE \E r \in Root : prepareFails(t, r)
  BY <1>2, <1>8 DEF prepareFails
<1>9. ASSUME NEW r \in Root, beginTxn(t, r) \/ setCommitPayload(t, r)
      PROVE  Intact'
  <2>1. Applied'
    BY <1>9, AppliedStands DEF beginTxn, setCommitPayload, local, Intact
  <2>2. PICK s \in PendingState : SetRow(r, t, s)
    BY <1>9 DEF beginTxn, setCommitPayload, PendingState
  <2>3. pc[t] = "prepare" /\ UNCHANGED files
    BY <1>9 DEF beginTxn, setCommitPayload
  <2> QED BY <2>1, <2>2, <2>3, PlacedPrepares DEF Intact
<1>10. ASSUME NEW r \in Root, applyFirst(t, r) \/ applyFiles(t, r)
       PROVE  Intact'
  <2>1. PICK s \in PendingState : SetRow(r, t, s) \/ UNCHANGED row
    BY <1>10 DEF applyFirst, applyFiles, PendingState
  <2>2. PICK f \in {"mixed", "new"} :
          /\ files' = [files EXCEPT ![r][t] = f]
          /\ (f = "mixed" /\ at' = at) \/ (f = "new" /\ at' = [at EXCEPT ![t] = r])
    BY <1>10 DEF applyFirst, applyFiles, SetFiles, Advance, local
  <2>3. /\ pc[t] = "prepare" /\ Turn(t, r) /\ UNCHANGED <<pc, roots>>
    BY <1>10 DEF applyFirst, applyFiles, Advance, local
  <2>4. files \in [Root -> [Txn -> FileState]]
    BY DEF IInv, TypeOK
  <2>5. Placed'
    BY <2>1, <2>2, <2>3, <2>4, PlacedPrepares DEF Intact
  <2>6. Applied'
    <3> SUFFICES ASSUME NEW u \in Txn
                 PROVE  /\ pc[u] = "prepare" =>
                             \A x \in roots[u] : x <= at'[u] => files'[x][u] = "new"
                        /\ pc[u] = "commit" => \A x \in roots[u] : files'[x][u] = "new"
      BY <2>3 DEF Applied
    <3>1. CASE u # t
      <4>1. /\ at'[u] = at[u] /\ roots[u] \subseteq Root
            /\ \A x \in Root : files'[x][u] = files[x][u]
        BY <1>0, <2>2, <2>4, <3>1
      <4> QED BY <4>1 DEF Intact, Applied
    <3>2. CASE u = t
      <4>1. ASSUME NEW x \in roots[t], x <= at'[t] PROVE files'[x][t] = "new"
        <5>1. x \in Root /\ r \in Root /\ at[t] \in 0 .. NRoots + 1
          BY <1>0
        <5>2. CASE x = r
          <6>1. at'[t] # at[t]
            BY <4>1, <5>1, <5>2, <2>3 DEF Turn, Root
          <6> QED BY <2>2, <2>4, <5>2, <6>1
        <5>3. CASE x # r
          <6>1. x <= at[t]
            BY <1>0, <2>2, <2>3, <4>1, <5>1, <5>3 DEF Turn, Root
          <6> QED BY <2>2, <2>3, <2>4, <5>1, <5>3, <6>1 DEF Intact, Applied
        <5> QED BY <5>2, <5>3
      <4> QED BY <2>3, <3>2, <4>1
    <3> QED BY <3>1, <3>2
  <2> QED BY <2>5, <2>6 DEF Intact
<1>11. ASSUME NEW r \in Root, rollbackPrepared(t, r)
       PROVE  Intact'
  <2>0. Pending(r, t)
    BY <1>11 DEF rollbackPrepared, Unwinding
  <2>1. Settles(r, t, "rolled-back")
    BY <1>11, <2>0, RestoreSettles, CloseSettles, UnchangedSettles DEF IInv,
         rollbackPrepared
  <2>2. /\ pc[t] = "unwind" /\ UNCHANGED <<pc, roots>>
        /\ at' = at \/ at' = [at EXCEPT ![t] = r]
    BY <1>11 DEF rollbackPrepared, Advance
  <2>3. ~SomeCommitted(t)
    BY <2>2 DEF IInv, OwnRows, OwnRowsOf, SomeCommitted
  <2>4. Applied'
    BY <1>0, <2>1, <2>2 DEF Settles, FilesSettle, Intact, Applied
  <2> QED BY <2>1, <2>3, <2>4, PlacedSettles DEF Intact
<1>12. ASSUME NEW r \in Root, commitRoot(t, r)
       PROVE  Intact'
  <2>1. Settles(r, t, "committed")
    BY <1>12, CommitSettles, UnchangedSettles DEF IInv, TypeOK, commitRoot, durable
  <2>2. /\ pc[t] = "commit" /\ UNCHANGED <<pc, roots, files>> /\ at' = [at EXCEPT ![t] = r]
    BY <1>12 DEF commitRoot, Advance
  <2>3. \A x \in Root : row[x][t] \in {"none", "prepared", "committed"}
    BY <2>2 DEF IInv, OwnRows, OwnRowsOf
  <2>4. InPlace(t)
    BY <2>2 DEF Intact, Applied, InPlace, IInv, OwnRows, OwnRowsOf
  <2>5. Applied'
    BY <1>0, <2>2, AppliedStands DEF Intact
  <2> QED BY <2>1, <2>3, <2>4, <2>5, PlacedSettles DEF Intact, Pending, PendingState
<1> QED BY <1>3, <1>4, <1>5, <1>6, <1>7, <1>8, <1>9, <1>10, <1>11, <1>12 DEF TxnStep

(* A step of `peipkg recover` keeps Intact: it restores files only where   *)
(* no root committed, and rolls forward only what has its files in place.  *)
LEMMA RecoverIntact ==
  ASSUME IInv, Whole, Intact, NEW q \in Recoverer, Recover(q) \/ RecoverStep(q)
  PROVE  Intact'
<1>0. /\ \A t \in Txn : t \in Proc /\ t # q
      /\ q \in Proc /\ pc \in [Proc -> {"idle", "lock", "prepare", "unwind", "commit",
                                        "done", "scanUp", "scanDown", "settle"}]
      /\ at \in [Proc -> 0 .. NRoots + 1] /\ roots \in [Proc -> SUBSET Root]
  BY CrossRootAssumption DEF IInv, TypeOK, Proc
<1>1. ASSUME UNCHANGED durable,
             \A t \in Txn : pc'[t] = pc[t] /\ at'[t] = at[t] /\ roots'[t] = roots[t]
      PROVE  Intact'
  <2>1. Applied'
    BY <1>1, AppliedStands DEF durable, Intact
  <2> QED BY <1>1, <2>1, PlacedStands DEF Intact
<1>2. CASE AcquireBusy(q) \/ settleFails(q) \/ settled(q)
  BY <1>0, <1>1, <1>2 DEF AcquireBusy, settleFails, settled, Exit
<1>3. CASE Recover(q)
  BY <1>0, <1>1, <1>3 DEF Recover, recoverAll
<1>4. CASE lookUp(q) \/ lookDown(q)
  <2>1. PICK r : Look(q, r)
    BY <1>4 DEF lookUp, lookDown
  <2> QED BY <1>0, <1>1, <2>1 DEF Look, durable
<1>5. CASE participants(q)
  BY <1>0, <1>1, <1>5 DEF participants, Exit, GotoPhase
<1>6. CASE Acquire(q)
  BY <1>0, <1>1, <1>6 DEF Acquire, Advance, durable
<1>7. CASE decide(q)
  BY <1>0, <1>1, <1>7 DEF decide, GotoPhase, durable
<1>8. ASSUME NEW r \in Root, rollForward(q, r)
      PROVE  Intact'
  <2> DEFINE t == target[q]
  <2>1. t \in Txn /\ SomeCommitted(t)
    BY <1>8 DEF rollForward, IInv, Phases, Targets, SomeCommitted
  <2>2. Settles(r, t, "committed")
    BY <1>8, <2>1, CommitSettles DEF IInv, TypeOK, rollForward
  <2> HIDE DEF t
  <2>3. \A x \in Root : Pending(x, t) => row[x][t] = "prepared"
    BY <2>1 DEF IInv, NoHalf, SomeCommitted, Pending, PendingState
  <2>4. Applied'
    BY <1>0, <1>8, AppliedStands DEF rollForward, Advance, Intact
  <2>5. InPlace(t)
    BY <2>1 DEF Intact, Placed
  <2> QED BY <2>1, <2>2, <2>3, <2>4, <2>5, PlacedSettles DEF Intact
<1>9. ASSUME NEW r \in Root, rollbackTxn(q, r)
      PROVE  Intact'
  <2> DEFINE t == target[q]
  <2>1. t \in Txn /\ pc[t] = "done" /\ ~SomeCommitted(t) /\ Pending(r, t)
    BY <1>9 DEF rollbackTxn, Turn, IInv, Phases, Targets, Whole, Ended, Forward
  <2>2. Settles(r, t, "rolled-back")
    BY <1>9, <2>1, RestoreSettles, CloseSettles DEF IInv, rollbackTxn
  <2>3. /\ UNCHANGED <<pc, roots>> /\ \A u \in Txn : at'[u] = at[u]
    BY <1>0, <1>9 DEF rollbackTxn, Advance
  <2> HIDE DEF t
  <2>4. Applied'
    BY <1>0, <2>1, <2>2, <2>3 DEF Settles, FilesSettle, Intact, Applied
  <2> QED BY <2>1, <2>2, <2>4, PlacedSettles DEF Intact
<1> QED BY <1>2, <1>3, <1>4, <1>5, <1>6, <1>7, <1>8, <1>9 DEF RecoverStep

(* Every step keeps Intact.                                                *)
LEMMA NextIntact == IInv /\ Whole /\ Intact /\ [Next]_vars => Intact'
<1> SUFFICES ASSUME IInv, Whole, Intact, [Next]_vars PROVE Intact'
  OBVIOUS
<1>1. ASSUME NEW p \in Proc, Crash(p)
      PROVE  Intact'
  <2>1. UNCHANGED durable /\ Exit(p)
    BY <1>1 DEF Crash
  <2>2. Applied'
    BY <2>1, AppliedStands DEF Exit, durable, Intact, IInv, TypeOK, Proc
  <2> QED BY <2>1, <2>2, PlacedStands DEF Intact
<1>2. CASE UNCHANGED vars
  BY <1>2 DEF vars, durable, local, Intact, Applied, Placed, SomeCommitted, InPlace
<1> QED BY <1>1, <1>2, TxnIntact, RecoverIntact DEF Next

(* Before anything has run no row is committed and nothing prepares.       *)
LEMMA InitIntact == Init => Intact
  BY DEF Init, Intact, Applied, Placed, SomeCommitted, InPlace, Proc

(* Under the two hypotheses a settled row tells the truth about the disk,  *)
(* however often an application, a reversal or a replay of the same        *)
(* transaction was cut short before: where it reads committed every file   *)
(* is in place, where it reads rolled back every file is restored.         *)
THEOREM DiskAgrees ==
  ASSUME ReachesWholePlans, ~StaleScan
  PROVE  Spec => []SettledMatchesDisk
<1>1. IInv /\ Whole /\ [Next]_vars => Whole'
  BY NextWhole
<1>2. IInv /\ Intact => SettledMatchesDisk
  BY DEF IInv, Disk, Intact, Placed, SomeCommitted, InPlace, SettledMatchesDisk
<1> QED BY <1>1, <1>2, InitWhole, InitIntact, NextIntact, Inductive, PTL DEF Spec
=============================================================================
