--------------------------- MODULE MCWorktreeSlots ---------------------------
(***************************************************************************)
(* Small instances of WorktreeSlots for TLC.                               *)
(***************************************************************************)
EXTENDS WorktreeSlots

CONSTANTS daemon, dashboard

(* What the daemon does by itself, and what an operator asks for.          *)
Apart == (daemon :> {"create", "activate"})
           @@ (dashboard :> {"create", "activate", "stop", "cleanup", "resume"})

(* One process at a time, with every operation that changes the limit.     *)
Alone == [p \in Process |-> {"create", "activate", "stop", "prune", "delete", "heartbeats"}]

Symmetry == Permutations(Runner) \cup Permutations(Session)
=============================================================================
