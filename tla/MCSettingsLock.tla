--------------------------- MODULE MCSettingsLock ---------------------------
(* Instances of SettingsLock for TLC.                                       *)
EXTENDS SettingsLock, TLC

(* Processes and inode numbers are interchangeable.                         *)
Symmetry == Permutations(Proc) \cup Permutations(Inode)
=============================================================================
