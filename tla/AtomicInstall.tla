---------------------------- MODULE AtomicInstall ----------------------------
(***************************************************************************)
(* What the executor promises, with the journal, the staging area and the  *)
(* crashes hidden: a root is an image (what is at each path) and a record  *)
(* (what the package database says is there).  A transaction changes the   *)
(* two together and in one step, or changes nothing; only the operator     *)
(* changes the image alone.  Promised by the doc comments of Execute and   *)
(* commitTxn (internal/install/execute.go).                                *)
(***************************************************************************)
CONSTANTS Path, File

VARIABLES image, record,
          edited  \* paths changed outside the package manager since recorded

Init == image \in [Path -> File] /\ record = image /\ edited = {}

Over(changes, old) ==
  [p \in Path |-> IF p \in DOMAIN changes THEN changes[p] ELSE old[p]]

(* A committed transaction.                                                *)
Apply(changes) ==
  /\ image' = Over(changes, image)
  /\ record' = Over(changes, record)
  /\ edited' = edited \ DOMAIN changes

(* An edit made outside the package manager.                               *)
Edit(p, c) ==
  /\ image' = [image EXCEPT ![p] = c]
  /\ edited' = edited \cup {p}
  /\ UNCHANGED record

Next ==
  \/ \E S \in SUBSET Path : \E changes \in [S -> File] : Apply(changes)
  \/ \E p \in Path, c \in File : Edit(p, c)

Spec == Init /\ [][Next]_<<image, record, edited>>
=============================================================================
