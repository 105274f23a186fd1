----------------------------- MODULE MCCommands -----------------------------
(* A small instance of Commands: the root / with one named root, two       *)
(* repositories of which core is the more trusted, and a few alternative   *)
(* worlds of packages, each made for one behaviour.                        *)
EXTENDS Commands, TLC

CONSTANTS anchor, initramfs, p1, none, here, file

MCRoots == << anchor, initramfs >>
MCBelow == (anchor :> {initramfs}) @@ (initramfs :> {})
MCPriority == [r \in {"core", "extra"} |-> IF r = "core" THEN 1 ELSE 5]
MCRepos == << "core", "extra" >>
MCOrphan == -1
MCNames == << "app", "lib", "tool", "new", "old", "user", "x", "y", "sh" >>

AnyVersion == 1 .. 3
On(name, vers) == [name |-> name, in |-> here, vers |-> vers]
OnIn(name, root) == [name |-> name, in |-> root, vers |-> AnyVersion]
Provide(name, ver) == [name |-> name, ver |-> ver]

Plain(name, ver) ==
  [name |-> name, ver |-> ver, arch |-> "x86_64", repo |-> "core", deps |-> {},
   conflicts |-> {}, provides |-> {}, replaces |-> {}, alt |-> FALSE, home |-> here]

(* A new version needs a new version of its library, and a tool in the     *)
(* initramfs.                                                              *)
App(v) == [Plain("app", v) EXCEPT !.deps = {On("lib", {v}), OnIn("tool", initramfs)}]
Lockstep == [now |-> {App(1), Plain("lib", 1), Plain("tool", 1)},
             later |-> {App(2), Plain("lib", 2)}]

(* A successor in a less trusted repository, which also offers the old     *)
(* name to a user that needs a newer one than core has.                    *)
New == [Plain("new", 1) EXCEPT !.repo = "extra", !.replaces = {On("old", AnyVersion)},
                               !.provides = {Provide("old", 2)}]
User(v) == [Plain("user", v) EXCEPT !.deps = {On("old", v .. 3)}]
Succession == [now |-> {Plain("old", 1), User(1)}, later |-> {New, User(2)}]

(* Several packages fill the role sh: an old native one and a newer noarch *)
(* one of the same name, and a native one that clashes with them.          *)
Shell(name, ver, arch) ==
  [Plain(name, ver) EXCEPT !.arch = arch, !.provides = {Provide("sh", 1)}]
Script == [Plain("user", 1) EXCEPT !.deps = {On("sh", AnyVersion)}]
Roles == [now |-> {Shell("x", 1, "x86_64"), Script},
          later |-> {Shell("x", 2, "noarch"),
                     [Shell("y", 1, "x86_64") EXCEPT !.conflicts = {On("x", {2})}]}]

(* Two dependencies of one package that no choice of lib meets together,   *)
(* which a greedy choice notices only afterwards.                          *)
Greedy == [now |-> {[Plain("app", 1) EXCEPT !.deps = {On("old", AnyVersion), On("user", AnyVersion)}],
                    [Plain("old", 1) EXCEPT !.deps = {On("lib", {1})}],
                    [Plain("user", 1) EXCEPT !.deps = {On("lib", {2})}], Plain("lib", 1)},
           later |-> {[Plain("lib", 2) EXCEPT !.repo = "extra"]}]

(* A package with an alternate upgrade path, and another that follows it.  *)
Alternate == [now |-> {Plain("old", 1), User(1), Plain("lib", 1)},
              later |-> {[Plain("old", 2) EXCEPT !.alt = TRUE], User(2), Plain("lib", 2)}]

(* A tool of its own in the initramfs, upgraded without the app.           *)
Satellite == [now |-> {App(1), Plain("lib", 1), Plain("tool", 1)}, later |-> {Plain("tool", 2)}]

(* A new version that needs what the old one did not.                      *)
Growing == [now |-> {Plain("user", 1), Plain("lib", 1)},
            later |-> {[Plain("user", 2) EXCEPT !.deps = {On("lib", AnyVersion)}]}]

MCUpstreams == {Lockstep, Succession, Roles, Greedy, Alternate}
SatelliteUpstreams == {Satellite}
GrowingUpstreams == {Growing}
MCFiles == {[Plain("new", 3) EXCEPT !.repo = file, !.home = initramfs]}
MCArguments == {<< >>, <<"app">>, <<"lib">>, <<"tool">>, <<"new">>, <<"old">>, <<"user">>, <<"sh">>, <<"x">>,
                <<"user", "y">>, <<"lib", "old">>}
=============================================================================
