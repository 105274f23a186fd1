------------------------------ MODULE MCCompose ------------------------------
(* Small instances of Compose: an anchor and one named root.               *)
EXTENDS Compose, TLC

CONSTANTS none, k1, k2, p, q

Url(from, name) == <<from, name>>
AnyVersion == [allowed |-> {1, 2}, known |-> {1, 2}]
Exactly(v) == [allowed |-> {v}, known |-> {1, 2}]
Need(name, constraint, root) == [name |-> name, constraint |-> constraint, root |-> root]
Package(id, from, name, version, needs, paths, claims, signer) ==
  [id |-> id, name |-> name, version |-> version, arch |-> "x", url |-> Url(from, id),
   needs |-> needs, paths |-> paths, claims |-> claims, signer |-> signer,
   default |-> none, special |-> FALSE]
NoClaims == [r \in {} |-> none]
Role(path) == [r \in {"sh"} |-> path]

(* A program of the anchor needs a library in the named root.  The local   *)
(* tool lives there and claims a name, which the library's next version    *)
(* ships as a file of its own; it is rebuilt in place.                     *)
Lib1 == Package("lib1", "main", "lib", 1, {}, {<<"lib">>}, NoClaims, k1)
Lib2 == Package("lib2", "main", "lib", 2, {}, {<<"lib">>, <<"sh">>}, NoClaims, k2)
App == Package("app", "main", "app", 1, {Need("lib", AnyVersion, "ramfs")}, {<<"app">>}, NoClaims, k1)
Tool == [Package("tool", "local", "tool", 1, {}, {<<"tool">>}, Role(<<"sh">>), none)
           EXCEPT !.default = "ramfs"]
ToolAgain == [Tool EXCEPT !.paths = {<<"tool">>, <<"tool2">>}]
Shim == Package("shim", "local", "shim", 1, {}, {<<"shim">>}, NoClaims, none)

MCListed == {Lib1, App}
MCPool == {Tool, Shim}
MCChange == {[kind |-> "publish", of |-> Lib2], [kind |-> "pool", of |-> ToolAgain]}
Revoked == MCChange \cup {[kind |-> "revoke", key |-> k1]}

Request(name, root) == [name |-> name, root |-> root, repository |-> none, constraint |-> AnyVersion]
Locals == {Url("local", "tool"), Url("local", "shim")}
Ramfs == [r \in {"ramfs"} |-> <<"boot">>]
Program == [packages |-> {Request("app", none), Request("tool", none)}, roots |-> Ramfs,
            locals |-> Locals]
Pinned(name, root, v) == [Request(name, root) EXCEPT !.constraint = Exactly(v)]
Library == [packages |-> {Pinned("lib", none, 1)}, roots |-> [r \in {} |-> none], locals |-> Locals]
MCManifest == <<Program, Library>>
MCRoots == <<<<>>, <<"boot">>>>
MCNames == <<"app", "lib", "shim", "tool">>
Flags(verb, noDeps) == [verb |-> verb, noDeps |-> noDeps, bypass |-> FALSE]
MCModes == {Flags("build", FALSE), Flags("update", TRUE)}
Apart == [x \in {p, q} |-> x]
Swap == Permutations({p, q})
Shared == [x \in {p, q} |-> p]

(* Two runs that both resolved, one before the manifest was edited, and    *)
(* have both truncated the lock; another may start (runs counts so).       *)
Resolved(m) ==
  LET scan == ScanSources(m, TRUE)
  IN [Idle EXCEPT !.phase = "write", !.mode = Flags("lock", FALSE), !.m = m,
                  !.lock = NewLock(m, FALSE, scan, Closure(m, scan.candidates))]
Overlapping ==
  /\ edits = 2 /\ listed = Listed /\ revoked = {} /\ pending = Change
  /\ store = [u \in {a.url : a \in Files} |->
                IF \E a \in Listed \cup Pool : a.url = u
                THEN CHOOSE a \in Listed \cup Pool : a.url = u ELSE None]
  /\ lockFile = Unreadable /\ written = {}
  /\ staging = [d \in {p, q} |-> Blank] /\ out = [d \in {p, q} |-> None]
  /\ job = (p :> Resolved(Program)) @@ (q :> Resolved(Library)) /\ runs = MaxRuns - 1
OverlapSpec == (Init \/ Overlapping) /\ [][Next]_vars

(* One library in both roots, an older version in the anchor.              *)
Twice == [packages |-> {Pinned("lib", none, 1), Pinned("lib", "ramfs", 2)}, roots |-> Ramfs,
          locals |-> {}]
TwicePinned == <<Twice>>
BothLibs == {Lib1, Lib2}
JustBuild == {Flags("build", FALSE)}
Alone == [x \in {p} |-> x]

(* The local tool is rebuilt in place and now needs the shim as well.      *)
ToolNeedy == [Tool EXCEPT !.needs = @ \cup {Need("shim", AnyVersion, none)}]
MCRebuilt == {[kind |-> "pool", of |-> ToolNeedy]}
=============================================================================
