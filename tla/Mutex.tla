------------------------------- MODULE Mutex -------------------------------
(* What runWithSettingsLock promises: one process at a time inside its      *)
(* callback, a lock that only its owner gives back, and the lock of a       *)
(* process that is gone may be taken away.                                  *)
CONSTANTS Proc,  \* the processes
          None   \* none of them

VARIABLES owner,    \* the process that has the lock, or None
          inside,   \* the processes that are in their callbacks
          gone      \* the processes that no longer exist
mutexVars == <<owner, inside, gone>>

Init == owner = None /\ inside = {} /\ gone = {}

Take(p) ==
  /\ owner = None /\ p \notin gone
  /\ owner' = p
  /\ UNCHANGED <<inside, gone>>

Enter(p) ==
  /\ owner = p /\ p \notin gone \cup inside
  /\ inside' = inside \cup {p}
  /\ UNCHANGED <<owner, gone>>

Leave(p) ==
  /\ owner = p /\ p \in inside
  /\ owner' = None /\ inside' = inside \ {p}
  /\ UNCHANGED gone

Lapse(p) ==
  /\ owner = p /\ p \in gone
  /\ owner' = None
  /\ UNCHANGED <<inside, gone>>

Die(p) ==
  /\ p \notin gone
  /\ gone' = gone \cup {p} /\ inside' = inside \ {p}
  /\ UNCHANGED owner

Next == \E p \in Proc : Take(p) \/ Enter(p) \/ Leave(p) \/ Lapse(p) \/ Die(p)

Spec == Init /\ [][Next]_mutexVars
=============================================================================
