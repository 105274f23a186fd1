----------------------------- MODULE MCStaging -----------------------------
(* Small instances of Staging: a daemon with a configuration file, a rival *)
(* provider of its role, and a consumer that wants the role at a path of   *)
(* its own.                                                                *)
EXTENDS Staging

CONSTANT none

File(v) == Entry("file", v)
Link(v) == Entry("link", v)

MCPath == {"conf", "conf.new", "binA", "binB", "L1", "L2"}
MCDir == {"etc", "bin", "spool"}
MCAbove == [x \in MCPath \cup MCDir |->
              CASE x \in {"conf", "conf.new"} -> {"etc"}
                [] x \in MCDir -> {}
                [] OTHER -> {"bin"}]
MCEtc == {"conf", "conf.new"}
MCNewName == [p \in MCPath |-> "conf.new"]
MCRelative == [p \in MCPath |-> [t \in MCPath |-> t]]
MCNoRelease == [p \in MCPath |-> none]

Provides(target, path) == {[role |-> "r", slot |-> "s", target |-> target, path |-> path]}
Wants(path) == {[role |-> "r", slot |-> "s", path |-> path]}
Package(files, ds, provides, consumes) ==
  [files |-> files, dirs |-> ds, provides |-> provides, consumes |-> consumes,
   stamped |-> {}, overrides |-> FALSE, strays |-> FALSE, special |-> FALSE, depmod |-> FALSE]

A(conf) == [p \in {"conf", "binA"} |-> IF p = "conf" THEN File(conf) ELSE File("x")]
B(v) == [p \in {"binB"} |-> v]
NoFiles == [p \in {} |-> none]

MCManifest ==
  [a |-> <<Package(A("f1"), {"etc", "bin", "spool"}, Provides("binA", "L1"), {}),
           Package(A("f2"), {"etc", "bin"}, Provides("binA", "L1"), {})>>,
   b |-> <<Package(B(Link("y")), {"bin", "spool"}, Provides("binB", none), {}),
           [Package([p \in {"L1"} |-> File("x")], {"bin"}, {}, {})
              EXCEPT !.overrides = TRUE, !.strays = TRUE, !.special = TRUE]>>,
   c |-> <<Package(NoFiles, {}, {}, Wants("L2"))>>]

MCOrder == <<"a", "b", "c">>
MCTogether == {{"a", "b"}}
MCOperator == [p \in {"conf", "L1"} |->
                 IF p = "conf" THEN {File("op")} ELSE {File("op"), Link("binA")}]
Option(overwrite, decide, allowed, claim, roles) ==
  [overwrite |-> overwrite, decide |-> decide, vouched |-> allowed, bypass |-> allowed,
   claim |-> claim, roles |-> roles]
MCOptions == {Option(FALSE, "abort", FALSE, "auto", {}), Option(TRUE, "keep", TRUE, "all", {}),
              Option(FALSE, "remove", TRUE, "none", {})}

(* One package, three versions of its configuration file.                 *)
EOrder == <<"a">>
EManifest == [a |-> <<Package(A("f1"), {}, {}, {}), Package(A("f2"), {}, {}, {}),
                      Package(A("f3"), {}, {}, {})>>]

(* What a payload may do to an edited /etc file: a rival claims its path,  *)
(* or the next version ships a link there.                                 *)
ClaimedConf ==
  [a |-> <<Package(A("f1"), {}, {}, {})>>,
   b |-> <<Package(B(File("y")), {}, Provides("binB", "conf"), {})>>,
   c |-> <<>>]
LinkedConf ==
  [a |-> <<Package(A("f1"), {}, {}, {}),
           Package([p \in {"conf"} |-> Link("binA")], {}, {}, {})>>]

(* A kernel whose second version has moved to another release.            *)
KPath == {"ko1", "ko2"}
KAbove == [x \in KPath \cup {"mods"} |-> IF x = "mods" THEN {} ELSE {"mods"}]
KRelease == [ko1 |-> "r1", ko2 |-> "r2"]
KNoNew == [p \in KPath |-> p]
KRelative == [p \in KPath |-> [t \in KPath |-> t]]
Kernel(path) == [Package([p \in {path} |-> File("m")], {"mods"}, {}, {}) EXCEPT !.depmod = TRUE]
KManifest == [k |-> <<Kernel("ko1"), Kernel("ko2")>>]
KOrder == <<"k">>
KOperator == [p \in {} |-> {}]
KOptions == {Option(FALSE, "abort", FALSE, "auto", {})}
=============================================================================
