-------------------------- MODULE SessionLifecycle --------------------------
(***************************************************************************)
(* The life of sessions in the ecc2 control plane, at the granularity of   *)
(* one database statement, one signal or one process event per step.       *)
(*                                                                         *)
(* Runners are "ecc run-session" processes (session/runtime.rs): each one  *)
(* reads its row, spawns the agent, records pid and state, waits for the   *)
(* agent and writes the outcome.  Controllers are the processes that       *)
(* operate on sessions from outside (session/manager.rs and daemon.rs):    *)
(* the dashboard, the daemon and one-shot commands.  A controller works    *)
(* from a snapshot of the rows taken when its operation starts, and any    *)
(* other process may run between two of its steps.                         *)
(*                                                                         *)
(* Any statement may be refused by the store (it cannot be opened, it is   *)
(* busy for too long, an I/O error): a runner then takes its error path,   *)
(* which ignores such errors, and a controller's operation ends.           *)
(***************************************************************************)
EXTENDS SessionStore, FiniteSets

CONSTANTS Session,        \* session ids; an id is a uuid and is never reused
          Controller,     \* processes that run manager operations
          AutoTerminate,  \* config auto_terminate_stale_sessions
          Operations,     \* the manager operations each controller is asked for
          Refusable       \* runners whose statements the store may refuse

ASSUME AutoTerminateAssumption == AutoTerminate \in BOOLEAN

ASSUME RefusableAssumption == Refusable \subseteq Runner

Operation == {"create", "stop", "heartbeats", "recover", "resume", "delete"}

ASSUME OperationsAssumption == Operations \in [Controller -> SUBSET Operation]

VARIABLES
  sessions,   \* the sessions table
  pc,         \* runner -> the next step of its capture_command_output
  job,        \* runner -> the session it was spawned for
  agent,      \* runner -> the agent process it spawned
  op,         \* controller -> the operation in progress
  at,         \* controller -> the next step of that operation
  cur,        \* controller -> the session that step is about
  todo,       \* controller -> sessions of the pass still to be visited
  pids,       \* controller -> the pid column as it was when the pass began
  abandoned,  \* history: sessions whose launch died outside any runner
  pidKept,    \* history: runners whose error path could not clear the pid
  stateKept   \* history: runners whose error path could not write Failed

runnerVars == <<pc, job, agent>>
ctlVars    == <<op, at, cur, todo, pids>>
refused    == <<pidKept, stateKept>>
vars       == <<sessions, runnerVars, ctlVars, abandoned, refused>>

-----------------------------------------------------------------------------
(* Runner program counters, by phase.                                      *)

Launching == {"starting", "spawning", "recordPid", "selectRunning",
              "writeRunning"}
Serving   == {"firstBeat", "serving", "clearPid", "selectFinal", "writeFinal"}
Aborting  == {"abort", "selectFailed", "writeFailed"}
Ended     == {"unused", "done", "gaveUp", "crashed"}
RunnerPC  == Launching \cup Serving \cup Aborting \cup Ended

AgentState == {"none", "alive", "success", "failure"}

CtlStep == {"idle", "spawn", "pick", "clearPid", "select", "write",
            "failRow", "requeue", "deleteRow"}

TypeOK ==
  /\ sessions \in [Session -> Row]
  /\ pc \in [Runner -> RunnerPC]
  /\ job \in [Runner -> Session \cup {None}]
  /\ agent \in [Runner -> AgentState]
  /\ op \in [Controller -> Operation \cup {"none"}]
  /\ at \in [Controller -> CtlStep]
  /\ cur \in [Controller -> Session \cup {None}]
  /\ todo \in [Controller -> SUBSET Session]
  /\ pids \in [Controller -> [Session -> Runner \cup {None}]]
  /\ abandoned \subseteq Session
  /\ pidKept \subseteq Runner /\ stateKept \subseteq Runner

NoPids == [s \in Session |-> None]

Init ==
  /\ sessions = [s \in Session |-> AbsentRow]
  /\ pc = [r \in Runner |-> "unused"]
  /\ job = [r \in Runner |-> None]
  /\ agent = [r \in Runner |-> "none"]
  /\ op = [c \in Controller |-> "none"]
  /\ at = [c \in Controller |-> "idle"]
  /\ cur = [c \in Controller |-> None]
  /\ todo = [c \in Controller |-> {}]
  /\ pids = [c \in Controller |-> NoPids]
  /\ abandoned = {}
  /\ pidKept = {} /\ stateKept = {}

-----------------------------------------------------------------------------
(* RUNNERS: run_session and capture_command_output.                        *)

Goto(r, from, to) == pc[r] = from /\ pc' = [pc EXCEPT ![r] = to]

SetRow(s, row) == sessions' = [sessions EXCEPT ![s] = row]

(* An UPDATE by runner r, through its database writer.  On a missing row   *)
(* it is an error, and the store may refuse it on any other.               *)
RunnerWrites(r, from, row, next, onError) ==
  \/ /\ Goto(r, from, next)
     /\ Present(sessions[job[r]])
     /\ SetRow(job[r], row)
  \/ /\ Goto(r, from, onError)
     /\ ~Present(sessions[job[r]]) \/ r \in Refusable
     /\ UNCHANGED sessions

(* The SELECT half of update_state by runner r: an error for a transition  *)
(* that is not allowed, and whenever the store refuses the statement.      *)
RunnerSelects(r, from, target, next, onError) ==
  /\ \/ Goto(r, from, next) /\ CanTransition(sessions[job[r]].state, target)
     \/ /\ Goto(r, from, onError)
        /\ ~CanTransition(sessions[job[r]].state, target) \/ r \in Refusable
  /\ UNCHANGED sessions

(* run_session: skip unless the row is still Pending.  A store that cannot *)
(* be read, or an agent type with no program, is an error that touches     *)
(* neither pid nor state.                                                  *)
ReadSession(r) ==
  /\ \/ Goto(r, "starting", "spawning") /\ sessions[job[r]].state = "pending"
     \/ Goto(r, "starting", "gaveUp")
     \/ Goto(r, "starting", "done") /\ sessions[job[r]].state # "pending"
  /\ UNCHANGED <<sessions, job, agent>>

SpawnAgent(r) ==
  /\ \/ /\ Goto(r, "spawning", "recordPid")
        /\ agent' = [agent EXCEPT ![r] = "alive"]
     \/ /\ Goto(r, "spawning", "abort")
        /\ UNCHANGED agent
  /\ UNCHANGED <<sessions, job>>

RecordPid(r) ==
  /\ RunnerWrites(r, "recordPid", WithPid(sessions[job[r]], r),
                  "selectRunning", "abort")
  /\ UNCHANGED <<job, agent>>

SelectRunning(r) ==
  /\ RunnerSelects(r, "selectRunning", "running", "writeRunning", "abort")
  /\ UNCHANGED <<job, agent>>

WriteRunning(r) ==
  /\ RunnerWrites(r, "writeRunning", WithState(sessions[job[r]], "running"),
                  "firstBeat", "abort")
  /\ UNCHANGED <<job, agent>>

FirstBeat(r) ==
  /\ RunnerWrites(r, "firstBeat", WithHeartbeat(sessions[job[r]]),
                  "serving", "abort")
  /\ UNCHANGED <<job, agent>>

(* The heartbeat task's tick, or a line of output: both refresh            *)
(* last_heartbeat_at and neither changes the state, so a Stale session     *)
(* stays Stale while it beats.                                             *)
Beat(r) ==
  /\ pc[r] = "serving"
  /\ Present(sessions[job[r]]) /\ ~sessions[job[r]].fresh
  /\ SetRow(job[r], WithHeartbeat(sessions[job[r]]))
  /\ UNCHANGED runnerVars

(* Mutation: the pid column is not cleared once the agent was reaped.      *)
ReapAgentKeepsPid(r) ==
  /\ agent[r] \in {"success", "failure"}
  /\ Goto(r, "serving", "selectFinal")
  /\ UNCHANGED <<sessions, job, agent>>

(* child.wait returns, the heartbeat task is aborted and the two output    *)
(* tasks are joined; either may have failed (a line that is not UTF-8, a   *)
(* row deleted under it), which sends the runner to its error path even    *)
(* when the agent succeeded.                                               *)
ReapAgent(r) ==
  /\ agent[r] \in {"success", "failure"}
  /\ \/ Goto(r, "serving", "clearPid")
     \/ Goto(r, "serving", "abort")
  /\ UNCHANGED <<sessions, job, agent>>

ClearPid(r) ==
  /\ RunnerWrites(r, "clearPid", WithPid(sessions[job[r]], None),
                  "selectFinal", "abort")
  /\ UNCHANGED <<job, agent>>

(* Mutation: the exit status is not looked at.                             *)
FinalStateIgnoresStatus(r) == "completed"

FinalState(r) == IF agent[r] = "success" THEN "completed" ELSE "failed"

SelectFinal(r) ==
  /\ RunnerSelects(r, "selectFinal", FinalState(r), "writeFinal", "abort")
  /\ UNCHANGED <<job, agent>>

WriteFinal(r) ==
  /\ RunnerWrites(r, "writeFinal", WithState(sessions[job[r]], FinalState(r)),
                  "done", "abort")
  /\ UNCHANGED <<job, agent>>

(* Mutation: the error path clears the pid and forgets the state.          *)
AbortForgetsState(r) ==
  /\ RunnerWrites(r, "abort", WithPid(sessions[job[r]], None), "done", "done")
  /\ UNCHANGED <<job, agent, refused>>

(* The error path: pid to NULL and state to Failed.  Both results are      *)
(* ignored: what the store refuses here stays in the row, and is noted if  *)
(* it should not.  The agent, if one was spawned, is left running.         *)
KeepsPid(r)   == pidKept' = IF sessions[job[r]].pid = r
                              THEN pidKept \cup {r} ELSE pidKept
KeepsState(r) == stateKept' = IF sessions[job[r]].state \in SessionState \ Settled
                                THEN stateKept \cup {r} ELSE stateKept

AbortClearPid(r) ==
  /\ Goto(r, "abort", "selectFailed")
  /\ \/ /\ Present(sessions[job[r]])
        /\ SetRow(job[r], WithPid(sessions[job[r]], None))
        /\ UNCHANGED pidKept
     \/ /\ ~Present(sessions[job[r]]) \/ r \in Refusable
        /\ KeepsPid(r) /\ UNCHANGED sessions
  /\ UNCHANGED <<job, agent, stateKept>>

AbortSelect(r) ==
  /\ \/ /\ Goto(r, "selectFailed", "writeFailed")
        /\ CanTransition(sessions[job[r]].state, "failed")
        /\ UNCHANGED stateKept
     \/ /\ Goto(r, "selectFailed", "done")
        /\ ~CanTransition(sessions[job[r]].state, "failed") \/ r \in Refusable
        /\ KeepsState(r)
  /\ UNCHANGED <<sessions, job, agent, pidKept>>

AbortWrite(r) ==
  /\ Goto(r, "writeFailed", "done")
  /\ \/ /\ Present(sessions[job[r]])
        /\ SetRow(job[r], WithState(sessions[job[r]], "failed"))
        /\ UNCHANGED stateKept
     \/ /\ ~Present(sessions[job[r]]) \/ r \in Refusable
        /\ KeepsState(r) /\ UNCHANGED sessions
  /\ UNCHANGED <<job, agent, pidKept>>

RunnerStep(r) ==
  /\ \/ /\ \/ ReadSession(r) \/ SpawnAgent(r) \/ RecordPid(r)
           \/ SelectRunning(r) \/ WriteRunning(r) \/ FirstBeat(r)
           \/ ReapAgent(r) \/ ClearPid(r) \/ SelectFinal(r) \/ WriteFinal(r)
        /\ UNCHANGED refused
     \/ AbortClearPid(r) \/ AbortSelect(r) \/ AbortWrite(r)
  /\ UNCHANGED <<ctlVars, abandoned>>

Heartbeat(r) == Beat(r) /\ UNCHANGED <<ctlVars, abandoned, refused>>

(* The agent ends on its own, with either exit status.                     *)
AgentExit(r) ==
  /\ agent[r] = "alive"
  /\ \E status \in {"success", "failure"} : agent' = [agent EXCEPT ![r] = status]
  /\ UNCHANGED <<sessions, pc, job, ctlVars, abandoned, refused>>

(* The runner process dies between two steps; nothing kills its agent,     *)
(* which survives it.                                                      *)
RunnerCrash(r) ==
  /\ pc[r] \in Launching \cup Serving \cup Aborting
  /\ pc' = [pc EXCEPT ![r] = "crashed"]
  /\ UNCHANGED <<sessions, job, agent, ctlVars, abandoned, refused>>

(* session_timeout_secs pass without a refresh of last_heartbeat_at.  Only *)
(* the heartbeat check reads it, and only of a Running or a Stale row;     *)
(* every write of a state refreshes it, so in other rows it says nothing.  *)
Lapse(s) ==
  /\ \E c \in Controller : "heartbeats" \in Operations[c]
  /\ sessions[s].state \in {"running", "stale"} /\ sessions[s].fresh
  /\ SetRow(s, [sessions[s] EXCEPT !.fresh = FALSE])
  /\ UNCHANGED <<runnerVars, ctlVars, abandoned, refused>>

-----------------------------------------------------------------------------
(* CONTROLLERS.  Begin takes the snapshot: the guards of an operation look *)
(* at the states it shows and later steps use only the pids it shows.      *)
(* Finish ends the operation, with or without an error.                    *)

Begin(c, name, step, targets) ==
  /\ name \in Operations[c]
  /\ at[c] = "idle"
  /\ targets # {}
  /\ op' = [op EXCEPT ![c] = name]
  /\ at' = [at EXCEPT ![c] = step]
  /\ todo' = [todo EXCEPT ![c] = targets]
  /\ pids' = [pids EXCEPT ![c] =
               [s \in Session |-> IF s \in targets THEN sessions[s].pid ELSE None]]

Finish(c) ==
  /\ op' = [op EXCEPT ![c] = "none"]
  /\ at' = [at EXCEPT ![c] = "idle"]
  /\ cur' = [cur EXCEPT ![c] = None]
  /\ todo' = [todo EXCEPT ![c] = {}]
  /\ pids' = [pids EXCEPT ![c] = NoPids]

Step(c, from, to) ==
  /\ at[c] = from
  /\ at' = [at EXCEPT ![c] = to]
  /\ UNCHANGED <<op, cur, todo, pids>>

(* The pass turns to session s; what it does next is "step".  The pid of   *)
(* the snapshot is not looked at again.                                    *)
Visit(c, s, step) ==
  /\ at' = [at EXCEPT ![c] = step]
  /\ cur' = [cur EXCEPT ![c] = s]
  /\ pids' = [pids EXCEPT ![c] = [@ EXCEPT ![s] = None]]
  /\ UNCHANGED <<op, todo>>

(* Session s of the pass is dealt with: on to the next one, if any.        *)
Advance(c, s) ==
  IF todo[c] = {s}
    THEN Finish(c)
    ELSE /\ todo' = [todo EXCEPT ![c] = @ \ {s}]
         /\ at' = [at EXCEPT ![c] = "pick"]
         /\ cur' = [cur EXCEPT ![c] = None]
         /\ pids' = [pids EXCEPT ![c] = [@ EXCEPT ![s] = None]]
         /\ UNCHANGED op

(* kill_process on the pid of the snapshot: TERM, then KILL 1.2 s later.   *)
(* An agent that is already gone (ESRCH) is not an error.                  *)
Kill(pid) ==
  IF pid # None /\ agent[pid] = "alive"
    THEN agent' = [agent EXCEPT ![pid] = "failure"]
    ELSE UNCHANGED agent

(* kill(pid, 0): true for a running agent and for one that has exited but  *)
(* is still unreaped because its runner has not returned from wait.        *)
PidIsAlive(pid) ==
  \/ agent[pid] = "alive"
  \/ agent[pid] # "none" /\ pc[pid] \in Launching \cup {"firstBeat", "serving"}

(* queue_session...: the record is inserted, then the runner is spawned.   *)
CreateSession(c, s) ==
  /\ sessions[s].state = "absent"
  /\ Begin(c, "create", "spawn", {s})
  /\ cur' = [cur EXCEPT ![c] = s]
  /\ SetRow(s, NewRow)
  /\ UNCHANGED <<runnerVars, abandoned, refused>>

(* stop_session takes any session; the dashboard's passes                  *)
(* enforce_budget_hard_limits and enforce_conflict_resolution stop some of *)
(* the sessions they saw active.                                           *)
StartStop(c) ==
  /\ \/ \E s \in Session : Present(sessions[s]) /\ Begin(c, "stop", "pick", {s})
     \/ \E some \in SUBSET {s \in Session : /\ Present(sessions[s])
                                           /\ sessions[s].state \notin Settled} :
          Begin(c, "stop", "pick", some)
  /\ UNCHANGED <<sessions, runnerVars, cur, abandoned, refused>>

(* Mutation: only sessions already Stale are checked.                      *)
OverdueSkipsRunning(s) ==
  AutoTerminate /\ sessions[s].state = "stale" /\ ~sessions[s].fresh

Overdue(s) ==
  /\ sessions[s].state \in IF AutoTerminate THEN {"running", "stale"} ELSE {"running"}
  /\ ~sessions[s].fresh

(* enforce_session_heartbeats: the overdue sessions of one list_sessions.  *)
StartHeartbeats(c) ==
  /\ Begin(c, "heartbeats", "pick", {s \in Session : Overdue(s)})
  /\ UNCHANGED <<sessions, runnerVars, cur, abandoned, refused>>

(* resume_crashed_sessions at daemon startup.                              *)
StartRecover(c) ==
  /\ Begin(c, "recover", "pick", {s \in Session : sessions[s].state = "running"})
  /\ UNCHANGED <<sessions, runnerVars, cur, abandoned, refused>>

StartResume(c) ==
  /\ \E s \in Session :
       /\ Present(sessions[s]) /\ sessions[s].state \notin {"completed", "running"}
       /\ Begin(c, "resume", "requeue", {s})
       /\ cur' = [cur EXCEPT ![c] = s]
  /\ UNCHANGED <<sessions, runnerVars, abandoned, refused>>

StartDelete(c) ==
  /\ \E s \in Session :
       /\ Present(sessions[s])
       /\ sessions[s].state \notin {"pending", "running", "idle"}
       /\ Begin(c, "delete", "deleteRow", {s})
       /\ cur' = [cur EXCEPT ![c] = s]
  /\ UNCHANGED <<sessions, runnerVars, abandoned, refused>>

(* stop_session_recorded, first step: kill the pid of the snapshot.        *)
StopKills(c) ==
  /\ op[c] = "stop" /\ at[c] = "pick"
  /\ \E s \in todo[c] : Kill(pids[c][s]) /\ Visit(c, s, "clearPid")
  /\ UNCHANGED <<sessions, pc, job, abandoned>>

StopClearsPid(c) ==
  /\ \/ /\ Step(c, "clearPid", "select")
        /\ Present(sessions[cur[c]])
        /\ SetRow(cur[c], WithPid(sessions[cur[c]], None))
     \/ /\ at[c] = "clearPid" /\ ~Present(sessions[cur[c]])
        /\ Finish(c)
        /\ UNCHANGED sessions
  /\ UNCHANGED <<runnerVars, abandoned>>

(* A heartbeat pass without auto-terminate marks the session Stale.        *)
MarkStale(c) ==
  /\ op[c] = "heartbeats" /\ at[c] = "pick" /\ ~AutoTerminate
  /\ \E s \in todo[c] : Visit(c, s, "select")
  /\ UNCHANGED <<sessions, runnerVars, abandoned>>

(* With auto-terminate it kills the pid of the snapshot and fails the row. *)
TerminateStale(c) ==
  /\ op[c] = "heartbeats" /\ at[c] = "pick" /\ AutoTerminate
  /\ \E s \in todo[c] : Kill(pids[c][s]) /\ Visit(c, s, "failRow")
  /\ UNCHANGED <<sessions, pc, job, abandoned>>

(* resume_crashed_sessions probes the pid of the snapshot.                 *)
ProbePid(c) ==
  /\ op[c] = "recover" /\ at[c] = "pick"
  /\ \E s \in todo[c] :
       IF pids[c][s] # None /\ PidIsAlive(pids[c][s])
         THEN Advance(c, s)
         ELSE Visit(c, s, "failRow")
  /\ UNCHANGED <<sessions, runnerVars, abandoned>>

(* update_state_and_pid(Failed, None): no look at the present state.       *)
FailRow(c) ==
  /\ at[c] = "failRow"
  /\ \/ /\ Present(sessions[cur[c]])
        /\ SetRow(cur[c], WithStateAndPid("failed", None))
        /\ Advance(c, cur[c])
     \/ /\ ~Present(sessions[cur[c]])
        /\ Finish(c)
        /\ UNCHANGED sessions
  /\ UNCHANGED <<runnerVars, abandoned>>

(* The state an operation asks update_state for.                           *)
Target(c) ==
  CASE op[c] = "stop" -> "stopped"
    [] op[c] = "heartbeats" -> "stale"
    [] OTHER -> "failed"

(* update_state, SELECT: a refused transition is an error, which ends the  *)
(* whole pass, sessions not yet visited included.                          *)
CtlSelects(c) ==
  /\ at[c] = "select"
  /\ IF CanTransition(sessions[cur[c]].state, Target(c))
       THEN Step(c, "select", "write")
       ELSE Finish(c)
  /\ UNCHANGED <<sessions, runnerVars, abandoned>>

(* update_state, UPDATE: whatever the state has become meanwhile.          *)
CtlWrites(c) ==
  /\ at[c] = "write"
  /\ \/ /\ Present(sessions[cur[c]])
        /\ SetRow(cur[c], WithState(sessions[cur[c]], Target(c)))
        /\ Advance(c, cur[c])
     \/ /\ ~Present(sessions[cur[c]])
        /\ Finish(c)
        /\ UNCHANGED sessions
  /\ UNCHANGED <<runnerVars, abandoned>>

(* resume_session, after the checks on the snapshot.                       *)
Requeue(c) ==
  /\ \/ /\ Step(c, "requeue", "spawn")
        /\ Present(sessions[cur[c]])
        /\ SetRow(cur[c], WithStateAndPid("pending", None))
     \/ /\ at[c] = "requeue" /\ ~Present(sessions[cur[c]])
        /\ Finish(c)
        /\ UNCHANGED sessions
  /\ UNCHANGED <<runnerVars, abandoned>>

SpawnRunner(c) ==
  /\ at[c] = "spawn"
  /\ \E r \in Runner :
       /\ Goto(r, "unused", "starting")
       /\ job' = [job EXCEPT ![r] = cur[c]]
  /\ Finish(c)
  /\ UNCHANGED <<sessions, agent, abandoned>>

(* Mutation: creation returns the spawn error without failing the row.     *)
SpawnRunnerFailsSilently(c) ==
  /\ at[c] = "spawn"
  /\ Finish(c)
  /\ abandoned' = IF op[c] = "resume" THEN abandoned \cup {cur[c]} ELSE abandoned
  /\ UNCHANGED <<sessions, runnerVars>>

(* The runner cannot be spawned.  Creation then fails the row; resumption  *)
(* returns the error and leaves the row Pending.                           *)
SpawnRunnerFails(c) ==
  /\ at[c] = "spawn"
  /\ \/ op[c] = "create" /\ Step(c, "spawn", "select") /\ UNCHANGED abandoned
     \/ /\ op[c] = "resume" /\ Finish(c)
        /\ abandoned' = abandoned \cup {cur[c]}
  /\ UNCHANGED <<sessions, runnerVars>>

(* delete_session's last statement.  It is refused when a runner added     *)
(* output after the session's output was deleted (foreign key).            *)
DeleteRow(c) ==
  /\ at[c] = "deleteRow"
  /\ \/ Present(sessions[cur[c]]) /\ SetRow(cur[c], DeletedRow)
     \/ /\ \/ \E r \in Runner : job[r] = cur[c] /\ pc[r] = "serving"
           \/ ~Present(sessions[cur[c]])
        /\ UNCHANGED sessions
  /\ Finish(c)
  /\ UNCHANGED <<runnerVars, abandoned>>

(* Controller c is about to spawn a runner for s, or to fail the row of a  *)
(* creation whose runner it could not spawn.                               *)
LaunchedBy(c, s) ==
  /\ cur[c] = s
  /\ at[c] = "spawn" \/ (op[c] = "create" /\ at[c] \in {"select", "write"})

(* The controller process dies between two steps, or the store refuses the *)
(* next statement, which ends the operation with an error.  A launch it    *)
(* was in the middle of is lost.                                           *)
CtlCrash(c) ==
  /\ at[c] # "idle"
  /\ Finish(c)
  /\ abandoned' = abandoned \cup {s \in Session : LaunchedBy(c, s)}
  /\ UNCHANGED <<sessions, runnerVars, refused>>

CtlStarts(c) ==
  \/ \E s \in Session : CreateSession(c, s)
  \/ StartStop(c) \/ StartHeartbeats(c) \/ StartRecover(c)
  \/ StartResume(c) \/ StartDelete(c)

CtlContinues(c) ==
  /\ \/ StopKills(c) \/ StopClearsPid(c) \/ MarkStale(c) \/ TerminateStale(c)
     \/ ProbePid(c) \/ FailRow(c) \/ CtlSelects(c) \/ CtlWrites(c) \/ Requeue(c)
     \/ SpawnRunner(c) \/ SpawnRunnerFails(c) \/ DeleteRow(c)
  /\ UNCHANGED refused

-----------------------------------------------------------------------------
Next ==
  \/ \E r \in Runner : RunnerStep(r) \/ Heartbeat(r) \/ AgentExit(r)
                       \/ RunnerCrash(r)
  \/ \E s \in Session : Lapse(s)
  \/ \E c \in Controller : CtlStarts(c) \/ CtlContinues(c) \/ CtlCrash(c)

Spec == Init /\ [][Next]_vars

(* A live process keeps executing; an agent ends; a session without a      *)
(* beating runner lapses; the daemon's and the dashboard's loops run the   *)
(* heartbeat check again and again, between any other operations, and are  *)
(* not killed in the middle of one for ever.  No crash, no launch and no   *)
(* operator request is fair.                                               *)
Fairness ==
  /\ \A r \in Runner : WF_vars(RunnerStep(r)) /\ WF_vars(AgentExit(r))
  /\ \A s \in Session : WF_vars(Lapse(s))
  /\ \A c \in Controller : WF_vars(CtlContinues(c)) /\ SF_vars(StartHeartbeats(c))
                           /\ <>[][~CtlCrash(c)]_vars

FairSpec == Spec /\ Fairness

-----------------------------------------------------------------------------
(* PROPERTIES                                                              *)

(* A runner that will still write an outcome for s, unless its process     *)
(* dies or the store refuses the last statements of its error path.        *)
(* (Serving and Aborting end in a terminal write or in finding one there.) *)
Custodian(r, s) ==
  /\ job[r] = s
  /\ pc[r] \in Serving \cup Aborting \cup {"crashed"} \/ r \in stateKept

(* No Running row without a process behind it: whenever the table says     *)
(* Running, some runner of that session has yet to write its outcome, died *)
(* on the way or was refused its last write (the cases the heartbeat check *)
(* exists for).  Every other failing statement, and every interleaving of  *)
(* stops, resumes, enforcement passes and two runners of the same session, *)
(* respects this, although update_state is two separate statements.        *)
RunningHasCustodian ==
  \A s \in Session : sessions[s].state = "running" =>
    \E r \in Runner : Custodian(r, s)

(* Someone who will take a Pending session further: a runner on its way to *)
(* Running, a runner on its error path, or a controller that launches it.  *)
Launcher(s) ==
  \/ \E r \in Runner : job[r] = s /\ pc[r] \in Launching \cup Aborting
  \/ \E c \in Controller : LaunchedBy(c, s)

(* What excuses a Pending row that nobody will move: its runner died,      *)
(* could not read the row or found no program for the agent type, was      *)
(* refused the last write of its error path, or the launch was lost before *)
(* any runner existed.                                                     *)
LaunchLost(s) ==
  \/ s \in abandoned
  \/ \E r \in Runner : /\ job[r] = s
                       /\ pc[r] \in {"crashed", "gaveUp"} \/ r \in stateKept

(* A Pending row is never silently forgotten by the processes that work on *)
(* it (insert, requeue, run_session, capture_command_output).              *)
PendingHasLauncher ==
  \A s \in Session : sessions[s].state = "pending" => Launcher(s) \/ LaunchLost(s)

(* Where a runner is between recording its pid and clearing it, or was when *)
(* its process died.                                                       *)
Minding == {"selectRunning", "writeRunning", "firstBeat", "serving", "clearPid",
            "abort", "crashed"}

(* The pid column never names a process whose runner has stopped minding   *)
(* it: if it did, stop, the heartbeat check and the crash check would      *)
(* signal or probe a pid the system may have given to another process.     *)
(* The exceptions are a runner that died and one whose error path was      *)
(* refused the clearing of the pid.                                        *)
PidIsMinded ==
  \A s \in Session, r \in Runner :
    sessions[s].pid = r => job[r] = s /\ (pc[r] \in Minding \/ r \in pidKept)

(* Completed is earned: the state is written only for a session one of     *)
(* whose agents really exited with success.                                *)
CompletedIsEarned ==
  \A s \in Session : sessions[s].state = "completed" =>
    \E r \in Runner : job[r] = s /\ agent[r] = "success"

(* Whatever crashes, a session does not stay Running for ever: its runner  *)
(* writes an outcome, or the heartbeat check finds it overdue.             *)
RunningSettles ==
  \A s \in Session : sessions[s].state = "running" ~> sessions[s].state # "running"

(* A Pending session is run, failed or stopped, unless its launch is lost. *)
PendingIsPickedUp ==
  \A s \in Session :
    sessions[s].state = "pending" ~> sessions[s].state # "pending" \/ LaunchLost(s)
=============================================================================
