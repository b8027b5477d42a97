------------------------- MODULE MCSessionLifecycle -------------------------
(***************************************************************************)
(* Small instances of SessionLifecycle for TLC.                            *)
(***************************************************************************)
EXTENDS SessionLifecycle, TLC

CONSTANTS daemon, dashboard

(* The daemon, from its start on, and the dashboard with its operator.      *)
Apart ==
  (daemon :> {"heartbeats", "recover"}) @@
  (dashboard :> {"create", "stop", "resume", "delete"})

(* One process at a time, which does most of it.                            *)
Together == [c \in Controller |-> {"create", "heartbeats", "resume", "recover"}]

Symmetry == Permutations(Runner) \cup Permutations(Session)
=============================================================================
