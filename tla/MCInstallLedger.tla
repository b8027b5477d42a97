-------------------------- MODULE MCInstallLedger --------------------------
(* The instance of InstallLedger that TLC checks: a configuration file and  *)
(* a plain file, each in a module of its own.  The first version ships      *)
(* both; the second has dropped the plain file, and the third excludes it.  *)
EXTENDS InstallLedger

CONSTANTS config, plain, m1, m2, v1, v2, v3, u1

Paths == {config, plain}
Modules == {m1, m2}
Versions == {v1, v2, v3}
Edits == {u1}
Configs == {config}
ModuleOfPath == [p \in Paths |-> IF p = config THEN m1 ELSE m2]
Shipped == [v \in Versions |-> IF v = v2 THEN {config} ELSE Paths]
Barred == [v \in Versions |-> IF v = v3 THEN {plain} ELSE {}]
=============================================================================
