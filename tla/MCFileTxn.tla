------------------------------ MODULE MCFileTxn ------------------------------
(* Small instances of FileTxn: which file-operation lists are tried.       *)
EXTENDS FileTxn

CONSTANTS p1, p2, p3, old, new, MaxOps

(* The operations planning can emit: a create displaces nothing, and only  *)
(* an overwrite or removal may be told to keep its backup.                 *)
MCOps ==
  {op \in [path : Path, action : Action, new : {new, Absent}, keep : BOOLEAN] :
     /\ (op.new = Absent) <=> (op.action = "remove")
     /\ op.action = "swap" => op.path \in ClaimPath
     /\ op.keep => op.action \in {"replace", "remove"}}

MCLists == UNION {[1 .. n -> MCOps] : n \in 1 .. MaxOps}
OnePerPath ==
  {list \in MCLists : \A i, j \in DOMAIN list : i # j => list[i].path # list[j].path}

(* Two packages of one plan on one path: one gives it up, the other ships  *)
(* it.                                                                     *)
Handover ==
  {list \in [1 .. 2 -> MCOps] :
     /\ list[1].path = list[2].path
     /\ list[1].action = "remove" /\ list[2].action = "replace"}
MCStem == [p \in Path |-> p]

(* Two names of one directory that differ in their last bytes only.        *)
OneStem == [p \in Path |-> p1]
=============================================================================
