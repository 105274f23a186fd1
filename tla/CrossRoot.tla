------------------------------ MODULE CrossRoot ------------------------------
(***************************************************************************)
(* Transactions that span several installation roots: ExecuteCrossRoot and *)
(* RecoverCrossRoot (internal/install/execute.go) with the driver that     *)
(* finds what to recover (recoverAll, internal/cli/recover.go) and the     *)
(* per-root lock (internal/install/lock.go).                               *)
(*                                                                         *)
(* Each root has its own database, journal and lock file; nothing is       *)
(* shared but a random id written in every participant's txn row.  A       *)
(* transaction prepares every root, then crosses each root's durability    *)
(* boundary in turn.  Processes run concurrently, may be killed between    *)
(* any two steps, and the boundaries, rollbacks and replays may fail.      *)
(*                                                                         *)
(* Roots are numbers in resolved-path order.  What one root does between   *)
(* opening its journal and having its files in place is FileTxn's subject; *)
(* here it is three durable states of its row, "begun" (row pending),      *)
(* "payload" (journal and commit payload durable) and "prepared" (the      *)
(* files were put in place), all of them state 'pending' in the database,  *)
(* and three of its files: "old" (as before the transaction), "mixed" and  *)
(* "new".  Files are moved, and restored, one by one, so that a kill or a  *)
(* failing call leaves any of the three under a pending row.               *)
(***************************************************************************)
EXTENDS Naturals, FiniteSets

CONSTANTS NRoots,      \* number of roots
          Txn,         \* processes running ExecuteCrossRoot; also their ids
          Recoverer,   \* processes running `peipkg recover`
          PlanRoots,   \* the sets of roots a plan may span
          Reach,       \* Reach[r]: what named roots lead to from root r
          RecoverAt,   \* roots `peipkg recover` may be run in
          StaleScan,   \* may a boundary fail while a recoverer's scan is stale?
          MaxCrash, MaxFault   \* bounds: kills, failing calls

Root == 1 .. NRoots
Proc == Txn \cup Recoverer
Nobody == "nobody"

ASSUME CrossRootAssumption ==
  /\ NRoots \in Nat \ {0}
  /\ Txn \cap Recoverer = {} /\ Nobody \notin Proc
  /\ Reach \in [Root -> SUBSET Root] /\ \A r \in Root : r \in Reach[r]
  /\ PlanRoots \subseteq (SUBSET Root) \ {{}}
  /\ RecoverAt \subseteq Root /\ StaleScan \in BOOLEAN
  /\ MaxCrash \in Nat /\ MaxFault \in Nat

PendingState == {"begun", "payload", "prepared"}
RowState == {"none"} \cup PendingState \cup {"committed", "rolled-back"}
FileState == {"old", "mixed", "new"}

VARIABLES lock,     \* [Root -> Proc or Nobody]
          row,      \* [Root -> [Txn -> RowState]]: the txn rows by cross-root id
          files,    \* [Root -> [Txn -> FileState]]
          aside,    \* [Root -> SUBSET Txn]: whose kept backups are on disk
          pc,       \* [Proc -> phase]
          at,       \* [Proc -> root the phase's loop is at]
          roots,    \* [Proc -> roots this run is about]
          target,   \* [Recoverer -> the id being reconciled, or Nobody]
          forward,  \* [Recoverer -> roll forward rather than back]
          crashes, faults

durable == <<row, files, aside>>
local == <<pc, at, roots, target, forward>>
vars == <<lock, durable, local, crashes, faults>>

Pending(r, t) == row[r][t] \in PendingState
Settled(r, t) == row[r][t] \in {"committed", "rolled-back"}

Init ==
  /\ lock = [r \in Root |-> Nobody]
  /\ row = [r \in Root |-> [t \in Txn |-> "none"]]
  /\ files = [r \in Root |-> [t \in Txn |-> "old"]] /\ aside = [r \in Root |-> {}]
  /\ pc = [p \in Proc |-> "idle"] /\ at = [p \in Proc |-> 0]
  /\ roots = [p \in Proc |-> {}]
  /\ target = [q \in Recoverer |-> Nobody] /\ forward = [q \in Recoverer |-> FALSE]
  /\ crashes = 0 /\ faults = 0

NoFault == UNCHANGED <<crashes, faults>>
Fault == faults < MaxFault /\ faults' = faults + 1 /\ UNCHANGED crashes

(* The loops run over the process's roots in path order.                   *)
Turn(p, r) == r \in roots[p] /\ at[p] < r /\ \A s \in roots[p] : at[p] < s => r <= s
Through(p) == \A r \in roots[p] : r <= at[p]
GotoPhase(p, phase) == pc' = [pc EXCEPT ![p] = phase] /\ at' = [at EXCEPT ![p] = 0]
Advance(p, r) == at' = [at EXCEPT ![p] = r] /\ UNCHANGED pc

(* Locks are released by defer on every return, and by the kernel when a   *)
(* process dies.  flock is not inherited and never blocks: Acquire fails   *)
(* at once when another process holds the lock.                            *)
Released(p) == [r \in Root |-> IF lock[r] = p THEN Nobody ELSE lock[r]]
Exit(p) ==
  /\ lock' = Released(p)
  /\ pc' = [pc EXCEPT ![p] = IF p \in Txn THEN "done" ELSE "idle"]
  /\ at' = [at EXCEPT ![p] = 0]
  /\ roots' = [roots EXCEPT ![p] = {}]
  /\ target' = [q \in Recoverer |-> IF q = p THEN Nobody ELSE target[q]]
  /\ forward' = [q \in Recoverer |-> q # p /\ forward[q]]

SetRow(r, t, s) == row' = [row EXCEPT ![r][t] = s]

(* UPDATE txn ... WHERE state = 'pending': a settled row does not move.    *)
FinishTxn(r, t, s) == row' = IF Pending(r, t) THEN [row EXCEPT ![r][t] = s] ELSE row

-----------------------------------------------------------------------------
(* ExecuteCrossRoot.                                                       *)

(* The plan is partitioned by root; the roots are sorted.                  *)
Plan(t, S) ==
  /\ pc[t] = "idle"
  /\ roots' = [roots EXCEPT ![t] = S]
  /\ GotoPhase(t, "lock")
  /\ UNCHANGED <<lock, durable, target, forward>> /\ NoFault

Acquire(p) ==
  /\ pc[p] = "lock"
  /\ \E r \in Root :
       /\ Turn(p, r) /\ lock[r] = Nobody
       /\ lock' = [lock EXCEPT ![r] = p]
       /\ Advance(p, r)
  /\ UNCHANGED <<durable, roots, target, forward>> /\ NoFault

AcquireBusy(p) ==
  /\ pc[p] = "lock"
  /\ \E r \in Root : Turn(p, r) /\ lock[r] # Nobody
  /\ Exit(p)
  /\ UNCHANGED durable /\ NoFault

(* recoverPending in every root: a pending cross-root row is refused, so   *)
(* the run ends; with none pending the packages are fetched and verified.  *)
(* Mutant: a pending cross-root row is not refused.                        *)
recoverPending_Proceeds(t) ==
  /\ pc[t] = "lock" /\ t \in Txn /\ Through(t)
  /\ GotoPhase(t, "prepare")
  /\ UNCHANGED <<lock, durable, roots, target, forward>> /\ NoFault

recoverPending(t) ==
  /\ pc[t] = "lock" /\ t \in Txn /\ Through(t)
  /\ IF \E r \in roots[t], u \in Txn : Pending(r, u)
       THEN Exit(t)
       ELSE GotoPhase(t, "prepare") /\ UNCHANGED <<lock, roots, target, forward>>
  /\ UNCHANGED durable /\ NoFault

provideFails(t) ==
  /\ pc[t] = "prepare" /\ at[t] = 0 /\ \A r \in roots[t] : row[r][t] = "none"
  /\ Fault /\ Exit(t) /\ UNCHANGED durable

(* prepareTxn on one root: open the journal, make it and the commit        *)
(* payload durable, then move the files into place.  idx_txn_one_pending   *)
(* refuses a second pending row.                                           *)
SecondPending(t, r) == row[r][t] = "none" /\ \E u \in Txn : Pending(r, u)

beginTxn(t, r) ==
  /\ pc[t] = "prepare" /\ Turn(t, r) /\ row[r][t] = "none" /\ ~SecondPending(t, r)
  /\ SetRow(r, t, "begun")
  /\ UNCHANGED <<lock, files, aside, local>> /\ NoFault

setCommitPayload(t, r) ==
  /\ pc[t] = "prepare" /\ Turn(t, r) /\ row[r][t] = "begun"
  /\ SetRow(r, t, "payload")
  /\ UNCHANGED <<lock, files, aside, local>> /\ NoFault

SetFiles(r, t, s) == files' = [files EXCEPT ![r][t] = s]

applyFirst(t, r) ==
  /\ pc[t] = "prepare" /\ Turn(t, r) /\ row[r][t] = "payload" /\ files[r][t] = "old"
  /\ SetFiles(r, t, "mixed")
  /\ UNCHANGED <<lock, row, aside, local>> /\ NoFault

applyFiles(t, r) ==
  /\ pc[t] = "prepare" /\ Turn(t, r) /\ row[r][t] = "payload" /\ files[r][t] = "mixed"
  /\ SetRow(r, t, "prepared") /\ SetFiles(r, t, "new")
  /\ aside' = [aside EXCEPT ![r] = @ \cup {t}]
  /\ Advance(t, r)
  /\ UNCHANGED <<lock, roots, target, forward>> /\ NoFault

(* finishRolledBack and rollbackTxn: the files are restored one by one and *)
(* the directories made are removed; only then is the row closed.          *)
RestoreFiles(r, t) ==
  /\ \/ files[r][t] = "new" /\ SetFiles(r, t, "mixed") /\ UNCHANGED aside
     \/ files[r][t] \in {"new", "mixed"} /\ SetFiles(r, t, "old")
        /\ aside' = [aside EXCEPT ![r] = @ \ {t}]
  /\ UNCHANGED row

(* Mutant: the row is given a state of its own.                            *)
CloseRow_Failed(r, t) ==
  files[r][t] = "old" /\ FinishTxn(r, t, "failed") /\ UNCHANGED <<files, aside>>

CloseRow(r, t) ==
  files[r][t] = "old" /\ FinishTxn(r, t, "rolled-back") /\ UNCHANGED <<files, aside>>

(* prepareTxn fails: the root abandons itself, if it has a row, and then   *)
(* the roots that already voted are rolled back, most recent first.        *)
prepareFails(t, r) ==
  /\ pc[t] = "prepare" /\ Turn(t, r)
  /\ Fault \/ (SecondPending(t, r) /\ NoFault)
  /\ GotoPhase(t, "unwind")
  /\ UNCHANGED <<lock, durable, roots, target, forward>>

(* What made the prepare fail may fail a rollback too, at any point, which *)
(* leaves that root pending, its files perhaps partly restored; the unwind *)
(* goes on.                                                                *)
Unwinding(t) == {r \in roots[t] : Pending(r, t) /\ (at[t] = 0 \/ r < at[t])}
(* Mutant: the row is closed although the reversal failed.                 *)
rollbackPrepared_Closes(t, r) ==
  /\ pc[t] = "unwind" /\ r \in Unwinding(t) /\ \A s \in Unwinding(t) : s <= r
  /\ \/ RestoreFiles(r, t) /\ UNCHANGED <<pc, at>>
     \/ FinishTxn(r, t, "rolled-back") /\ UNCHANGED <<files, aside>> /\ Advance(t, r)
  /\ UNCHANGED <<lock, roots, target, forward>> /\ NoFault

rollbackPrepared(t, r) ==
  /\ pc[t] = "unwind" /\ r \in Unwinding(t) /\ \A s \in Unwinding(t) : s <= r
  /\ \/ RestoreFiles(r, t) /\ UNCHANGED <<pc, at>>
     \/ CloseRow(r, t) /\ Advance(t, r)
     \/ UNCHANGED durable /\ Advance(t, r)
  /\ UNCHANGED <<lock, roots, target, forward>> /\ NoFault

unwound(t) ==
  /\ pc[t] = "unwind" /\ Unwinding(t) = {}
  /\ Exit(t) /\ UNCHANGED durable /\ NoFault

prepared(t) ==
  /\ pc[t] = "prepare" /\ Through(t)
  /\ GotoPhase(t, "commit")
  /\ UNCHANGED <<lock, durable, roots, target, forward>> /\ NoFault

(* A recoverer looked for t's participants before t had begun in all of    *)
(* its roots, and works from that incomplete list.                         *)
ScanMissed(t) ==
  \E q \in Recoverer : target[q] = t /\ ~(roots[t] \subseteq roots[q])

(* commitTxn(rollbackOnFailure = false), in path order, past any failure.  *)
(* StaleScan = FALSE confines failures to the moments when no recoverer    *)
(* has a stale scan; with TRUE the transaction can be torn (NotTorn).      *)
commitRoot(t, r) ==
  /\ pc[t] = "commit" /\ Turn(t, r)
  /\ \/ FinishTxn(r, t, "committed") /\ NoFault
     \/ UNCHANGED row /\ Fault /\ (StaleScan \/ ~ScanMissed(t))
  /\ Advance(t, r)
  /\ UNCHANGED <<lock, files, aside, roots, target, forward>>

committed(t) ==
  /\ pc[t] = "commit" /\ Through(t)
  /\ Exit(t) /\ UNCHANGED durable /\ NoFault

-----------------------------------------------------------------------------
(* peipkg recover.  recoverAll looks, without a lock, for pending rows in  *)
(* the roots reachable from where it runs and reconciles the ids it found  *)
(* one by one; a run over several ids is several runs here.                *)
(* Mutant: only the root it runs in is looked at for pending rows.         *)
recoverAll_OwnRoot(q, here, t) ==
  /\ pc[q] = "idle" /\ here \in RecoverAt /\ Pending(here, t)
  /\ target' = [target EXCEPT ![q] = t]
  /\ roots' = [roots EXCEPT ![q] = Reach[here]]
  /\ pc' = [pc EXCEPT ![q] = "scanUp"] /\ at' = [at EXCEPT ![q] = 0]
  /\ UNCHANGED <<lock, durable, forward>> /\ NoFault

recoverAll(q, here, t) ==
  /\ pc[q] = "idle" /\ here \in RecoverAt
  /\ \E r \in Reach[here] : Pending(r, t)
  /\ target' = [target EXCEPT ![q] = t]
  /\ roots' = [roots EXCEPT ![q] = Reach[here]]
  /\ \/ pc' = [pc EXCEPT ![q] = "scanUp"] /\ at' = [at EXCEPT ![q] = 0]
     \/ pc' = [pc EXCEPT ![q] = "scanDown"] /\ at' = [at EXCEPT ![q] = NRoots + 1]
  /\ UNCHANGED <<lock, durable, forward>> /\ NoFault

(* RecoverCrossRoot asks each reachable database, one after the other and  *)
(* still without a lock, whether it holds the id.  It walks a Go map, in   *)
(* no fixed order: both directions are modelled.                           *)
Look(q, r) ==
  /\ at' = [at EXCEPT ![q] = r]
  /\ roots' = [roots EXCEPT ![q] = IF row[r][target[q]] = "none" THEN @ \ {r} ELSE @]
  /\ UNCHANGED <<lock, durable, pc, target, forward>> /\ NoFault

lookUp(q) ==
  pc[q] = "scanUp" /\ \E r \in Root : Turn(q, r) /\ Look(q, r)

lookDown(q) ==
  /\ pc[q] = "scanDown"
  /\ \E r \in roots[q] :
       r < at[q] /\ (\A s \in roots[q] : s < at[q] => s <= r) /\ Look(q, r)

participants(q) ==
  /\ \/ pc[q] = "scanUp" /\ Through(q)
     \/ pc[q] = "scanDown" /\ \A r \in roots[q] : at[q] <= r
  /\ IF roots[q] = {} THEN Exit(q)
     ELSE GotoPhase(q, "lock") /\ UNCHANGED <<lock, roots, target, forward>>
  /\ UNCHANGED durable /\ NoFault

(* Under the locks the participants' states are read again.  Some root     *)
(* committed: every pending one is rolled forward, in path order.  None    *)
(* did: every pending one is rolled back.                                  *)
(* Mutant: the committed siblings are not looked for.                      *)
decide_AlwaysBack(q) ==
  /\ pc[q] = "lock" /\ q \in Recoverer /\ Through(q)
  /\ roots' = [roots EXCEPT ![q] = {r \in roots[q] : Pending(r, target[q])}]
  /\ GotoPhase(q, "settle")
  /\ UNCHANGED <<lock, durable, target, forward>> /\ NoFault

decide(q) ==
  /\ pc[q] = "lock" /\ q \in Recoverer /\ Through(q)
  /\ forward' = [forward EXCEPT ![q] = \E r \in roots[q] : row[r][target[q]] = "committed"]
  /\ roots' = [roots EXCEPT ![q] = {r \in roots[q] : Pending(r, target[q])}]
  /\ GotoPhase(q, "settle")
  /\ UNCHANGED <<lock, durable, target>> /\ NoFault

(* rollForwardTxn replays the commit payload, whatever the files are.  The *)
(* journal does not record keepBackup, so the discardBackups that follows  *)
(* removes every backup.                                                   *)
rollForward(q, r) ==
  /\ pc[q] = "settle" /\ forward[q] /\ Turn(q, r)
  /\ row[r][target[q]] # "begun"
  /\ FinishTxn(r, target[q], "committed")
  /\ aside' = [aside EXCEPT ![r] = @ \ {target[q]}]
  /\ Advance(q, r)
  /\ UNCHANGED <<lock, files, roots, target, forward>> /\ NoFault

rollbackTxn(q, r) ==
  /\ pc[q] = "settle" /\ ~forward[q] /\ Turn(q, r)
  /\ \/ RestoreFiles(r, target[q]) /\ UNCHANGED <<pc, at>>
     \/ CloseRow(r, target[q]) /\ Advance(q, r)
  /\ UNCHANGED <<lock, roots, target, forward>> /\ NoFault

(* A replay or rollback that fails, at any point, or a root that has no    *)
(* payload to replay, ends the run; the remaining roots wait for the next  *)
(* one.                                                                    *)
settleFails(q) ==
  /\ pc[q] = "settle" /\ ~Through(q)
  /\ \/ Fault
     \/ NoFault /\ forward[q] /\ \E r \in Root : Turn(q, r) /\ row[r][target[q]] = "begun"
  /\ Exit(q) /\ UNCHANGED durable

settled(q) ==
  /\ pc[q] = "settle" /\ Through(q)
  /\ Exit(q) /\ UNCHANGED durable /\ NoFault

Crash(p) ==
  /\ pc[p] \notin {"idle", "done"} /\ crashes < MaxCrash
  /\ crashes' = crashes + 1 /\ Exit(p)
  /\ UNCHANGED <<durable, faults>>

-----------------------------------------------------------------------------
TxnStep(t) ==
  \/ Acquire(t) \/ AcquireBusy(t) \/ recoverPending(t)
  \/ (\E r \in Root : \/ beginTxn(t, r) \/ setCommitPayload(t, r)
                      \/ applyFirst(t, r) \/ applyFiles(t, r)
                      \/ rollbackPrepared(t, r) \/ commitRoot(t, r))
  \/ unwound(t) \/ prepared(t) \/ committed(t)

RecoverStep(q) ==
  \/ lookUp(q) \/ lookDown(q) \/ participants(q)
  \/ Acquire(q) \/ AcquireBusy(q) \/ decide(q)
  \/ (\E r \in Root : rollForward(q, r) \/ rollbackTxn(q, r))
  \/ settleFails(q) \/ settled(q)

Recover(q) == \E here \in RecoverAt, t \in Txn : recoverAll(q, here, t)

Next ==
  \/ \E t \in Txn : \/ (\E S \in PlanRoots : Plan(t, S)) \/ TxnStep(t) \/ provideFails(t)
                    \/ (\E r \in Root : prepareFails(t, r))
  \/ \E q \in Recoverer : Recover(q) \/ RecoverStep(q)
  \/ \E p \in Proc : Crash(p)

Spec == Init /\ [][Next]_vars

(* A running process keeps running; the operator runs `peipkg recover`     *)
(* again while something is pending.                                       *)
FairSpec ==
  /\ Spec
  /\ \A t \in Txn : WF_vars(TxnStep(t))
  /\ \A q \in Recoverer : WF_vars(RecoverStep(q)) /\ WF_vars(Recover(q))

-----------------------------------------------------------------------------
TypeOK ==
  /\ lock \in [Root -> Proc \cup {Nobody}]
  /\ row \in [Root -> [Txn -> RowState]]
  /\ files \in [Root -> [Txn -> FileState]] /\ aside \in [Root -> SUBSET Txn]
  /\ pc \in [Proc -> {"idle", "lock", "prepare", "unwind", "commit", "done",
                      "scanUp", "scanDown", "settle"}]
  /\ at \in [Proc -> 0 .. NRoots + 1]
  /\ roots \in [Proc -> SUBSET Root]
  /\ target \in [Recoverer -> Txn \cup {Nobody}] /\ forward \in [Recoverer -> BOOLEAN]
  /\ crashes \in 0 .. MaxCrash /\ faults \in 0 .. MaxFault

(* No cross-root transaction ends torn: committed in one root and reversed *)
(* in another - "the torn state the cross-root id exists to prevent".      *)
NotTorn ==
  \A t \in Txn, r, s \in Root : ~(row[r][t] = "committed" /\ row[s][t] = "rolled-back")

(* A settled row tells the truth about the disk, however often reversing   *)
(* or applying the files was cut short before: all of a transaction's      *)
(* files are at their destinations in every root that committed it, and    *)
(* none is in a root that reversed it.                                     *)
SettledMatchesDisk ==
  \A t \in Txn, r \in Root :
    /\ row[r][t] = "committed" => files[r][t] = "new"
    /\ row[r][t] = "rolled-back" => files[r][t] = "old"

(* Locks and recoverPending suffice to keep a root to one pending          *)
(* transaction: a run that starts on a root never meets the unique index   *)
(* idx_txn_one_pending, which is only "the backstop".                      *)
BackstopUnused ==
  \A t \in Txn, r \in Root : pc[t] = "prepare" /\ Turn(t, r) => ~SecondPending(t, r)

(* Content displaced by an authorised overwrite is kept by the commit,     *)
(* whether the boundary is crossed by the first run or by recovery.        *)
DisplacedKept ==
  \A t \in Txn, r \in Root : row[r][t] = "committed" => t \in aside[r]

(* Every interrupted transaction is settled in every root, once calls stop *)
(* failing and `peipkg recover` is run.                                    *)
EventuallySettled ==
  \A t \in Txn, r \in Root : Pending(r, t) ~> Settled(r, t)
=============================================================================
