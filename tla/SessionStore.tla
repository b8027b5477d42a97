---------------------------- MODULE SessionStore ----------------------------
(***************************************************************************)
(* The sessions table of the SQLite state store and the rule that governs  *)
(* its state column.  Every process of the control plane (dashboard,       *)
(* daemon, one-shot commands, session runners) opens the same database, so *)
(* a step of any other module performs at most ONE statement of this one:  *)
(* the statement is the unit of atomicity.                                 *)
(*                                                                         *)
(* A row keeps what decisions are taken on: the state, the recorded pid    *)
(* and whether the last heartbeat is younger than session_timeout_secs.    *)
(* A pid is named by the runner that spawned the process.                  *)
(***************************************************************************)
CONSTANTS None,     \* an absent pid (SQL NULL)
          Runner    \* the run-session processes, each spawning one agent

ASSUME NoneAssumption == None \notin Runner

(* The value that update_state and update_state_and_pid write.             *)
SessionState ==
  {"pending", "running", "idle", "stale", "completed", "failed", "stopped"}

(* States for which the code waits for some process to move the row on.    *)
Settled == {"completed", "failed", "stopped"}

(* SessionState::can_transition_to.  Only update_state consults it.        *)
CanTransition(from, to) ==
  \/ from = to
  \/ from = "pending" /\ to \in {"running", "failed", "stopped"}
  \/ from = "running" /\ to \in {"idle", "stale"} \cup Settled
  \/ from = "idle"    /\ to \in {"running", "stale"} \cup Settled
  \/ from = "stale"   /\ to \in {"running", "idle"} \cup Settled
  \/ from \in {"completed", "failed"} /\ to = "stopped"

(* A row, present ("absent" before INSERT, "deleted" after DELETE).        *)
Row == [state : SessionState \cup {"absent", "deleted"},
        pid   : Runner \cup {None},
        fresh : BOOLEAN]

AbsentRow  == [state |-> "absent", pid |-> None, fresh |-> FALSE]
DeletedRow == [state |-> "deleted", pid |-> None, fresh |-> FALSE]

(* Mutation: the record is inserted with a state outside the enumeration.  *)
NewRowMisspelt == [state |-> "queued", pid |-> None, fresh |-> TRUE]

(* insert_session of a freshly built record.                               *)
NewRow == [state |-> "pending", pid |-> None, fresh |-> TRUE]

(* "UPDATE ... WHERE id = ?" touched a row; otherwise the call is an error *)
Present(row) == row.state \in SessionState

(* The UPDATE statements.  Each one that changes a column also refreshes   *)
(* last_heartbeat_at; none of them looks at the state it overwrites.       *)
WithPid(row, pid)         == [row EXCEPT !.pid = pid, !.fresh = TRUE]
WithState(row, state)     == [row EXCEPT !.state = state, !.fresh = TRUE]
WithStateAndPid(st, pid)  == [state |-> st, pid |-> pid, fresh |-> TRUE]
WithHeartbeat(row)        == [row EXCEPT !.fresh = TRUE]
=============================================================================
