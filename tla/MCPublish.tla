------------------------------ MODULE MCPublish ------------------------------
(* Small instances of Publish: a library and a program that needs it.      *)
EXTENDS Publish

CONSTANTS lib1, lib2, lib2b, app1, app1y, none, k1, k2

File(id, name, version, arch, needs, paths, signer) ==
  [id |-> id, name |-> name, version |-> version, arch |-> arch, needs |-> needs,
   paths |-> paths, signer |-> signer]

(* The second version of the library was built twice, the program for two  *)
(* architectures; it installs a file that the library shipped in its first *)
(* version.                                                                *)
App1 == File(app1, "app", 1, "x", {"lib"}, {"f"}, k1)
App1y == File(app1y, "app", 1, "y", {"lib"}, {"f"}, k1)
Lib1 == File(lib1, "lib", 1, "any", {}, {"f"}, k1)
Lib2 == File(lib2, "lib", 2, "x", {}, {"g"}, k1)
Lib2b == File(lib2b, "lib", 2, "x", {}, {"g"}, none)
MCArtifacts == <<App1, App1y, Lib1, Lib2, Lib2b>>
MCNamed == {{}, {App1}, {Lib1}, {Lib2b}, {App1y, Lib2}}

MCKeys == [k \in {k1, k2} |-> IF k = k1 THEN "active" ELSE "revoked"]

Full == [local |-> TRUE, fields |-> {"name", "version", "arch"}]
MCTemplates == {Full}
Flags(replace, rebuild, unsigned) ==
  [replace |-> replace, rebuild |-> rebuild, unsigned |-> unsigned]
MCOptions == {Flags(FALSE, FALSE, FALSE), Flags(TRUE, FALSE, TRUE), Flags(FALSE, TRUE, TRUE)}
=============================================================================
