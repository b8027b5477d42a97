------------------------------ MODULE Journal ------------------------------
(* What a user of the context store relies on: a log of revisions to which  *)
(* one whole revision is added at a time, each announced before it is made; *)
(* what was announced is made or forgotten, and nothing made is unmade.     *)
EXTENDS Naturals, Sequences

CONSTANTS Carrier, None

VARIABLES log,     \* the revisions made
          intent   \* the log after the announced revision, or None

Change == [operation : {"apply", "rollback"}, carrier : Carrier]

(* An application changes the carrier; a rollback brings back the one that  *)
(* the last revision replaced.                                              *)
Allowed(change) ==
  CASE change.operation = "apply" ->
         log = << >> \/ log[Len(log)].carrier # change.carrier
    [] change.operation = "rollback" ->
         Len(log) >= 2 /\ log[Len(log) - 1].carrier = change.carrier

Init == log = << >> /\ intent = None

Announce ==
  /\ intent = None
  /\ \E change \in Change : Allowed(change) /\ intent' = Append(log, change)
  /\ UNCHANGED log

Make ==
  /\ intent # None
  /\ log' = intent
  /\ UNCHANGED intent

Forget ==
  /\ intent # None
  /\ intent' = None
  /\ UNCHANGED log

Spec == Init /\ [][Announce \/ Make \/ Forget]_<<log, intent>>
=============================================================================
