----------------------- MODULE SessionLifecycleProofs -----------------------
(***************************************************************************)
(* Proofs about SessionLifecycle, for every set of sessions, runners and   *)
(* controllers.  The invariant is Inv: the type invariant, five auxiliary  *)
(* conjuncts that say what a program counter implies, and the four safety  *)
(* properties, which are inductive relative to the others.                 *)
(***************************************************************************)
EXTENDS SessionLifecycle, TLAPS

(* A runner has a session from the moment it is spawned.                   *)
JobKnown == \A r \in Runner : pc[r] # "unused" => job[r] \in Session

(* Steps that address one row know which.                                  *)
CurKnown == \A c \in Controller : at[c] \notin {"idle", "pick"} => cur[c] \in Session

(* No agent before the spawning step.                                      *)
NoAgentYet ==
  \A r \in Runner : pc[r] \in {"unused", "starting", "spawning"} => agent[r] = "none"

(* The store has refused nothing to a runner that does not exist.          *)
NoRecordYet ==
  \A r \in Runner : pc[r] = "unused" => r \notin pidKept \cup stateKept

(* A row that is not there records no pid.                                 *)
NoPidWhenMissing ==
  \A s \in Session : ~Present(sessions[s]) => sessions[s].pid = None

Inv ==
  /\ TypeOK
  /\ JobKnown
  /\ CurKnown
  /\ NoAgentYet
  /\ NoRecordYet
  /\ NoPidWhenMissing
  /\ RunningHasCustodian
  /\ PendingHasLauncher
  /\ PidIsMinded
  /\ CompletedIsEarned

(* What the store has refused to an error path stays on record, and only   *)
(* runner r adds to it.                                                    *)
RecordGrows(r) ==
  /\ pidKept \subseteq pidKept' /\ pidKept' \subseteq pidKept \cup {r}
  /\ stateKept \subseteq stateKept' /\ stateKept' \subseteq stateKept \cup {r}

LEMMA RecordStands ==
  ASSUME UNCHANGED refused
  PROVE  \A r \in Runner : RecordGrows(r)
BY DEF refused, RecordGrows

-----------------------------------------------------------------------------
(* What the statements of the store do to a row.                           *)

LEMMA WritesOfPid ==
  ASSUME NEW row \in Row, NEW pid \in Runner \cup {None}
  PROVE  /\ WithPid(row, pid) \in Row
         /\ WithPid(row, pid).state = row.state
         /\ WithPid(row, pid).pid = pid
BY DEF Row, SessionState, WithPid

LEMMA WritesOfState ==
  ASSUME NEW row \in Row, NEW st \in SessionState
  PROVE  /\ WithState(row, st) \in Row
         /\ WithState(row, st).state = st
         /\ WithState(row, st).pid = row.pid
BY DEF Row, SessionState, WithState

LEMMA WritesOfHeartbeat ==
  ASSUME NEW row \in Row
  PROVE  /\ WithHeartbeat(row) \in Row
         /\ WithHeartbeat(row).state = row.state
         /\ WithHeartbeat(row).pid = row.pid
         /\ [row EXCEPT !.fresh = FALSE] \in Row
         /\ [row EXCEPT !.fresh = FALSE].state = row.state
         /\ [row EXCEPT !.fresh = FALSE].pid = row.pid
BY DEF Row, SessionState, WithHeartbeat

LEMMA WritesOfStateAndPid ==
  ASSUME NEW st \in SessionState, NEW pid \in Runner \cup {None}
  PROVE  /\ WithStateAndPid(st, pid) \in Row
         /\ WithStateAndPid(st, pid).state = st
         /\ WithStateAndPid(st, pid).pid = pid
BY DEF Row, SessionState, WithStateAndPid

LEMMA FixedRows ==
  /\ NewRow \in Row /\ NewRow.state = "pending" /\ NewRow.pid = None
  /\ AbsentRow \in Row /\ AbsentRow.state = "absent" /\ AbsentRow.pid = None
  /\ DeletedRow \in Row /\ DeletedRow.state = "deleted" /\ DeletedRow.pid = None
BY DEF Row, SessionState, NewRow, AbsentRow, DeletedRow

THEOREM InitInv == Init => Inv
<1>. SUFFICES ASSUME Init PROVE Inv
  OBVIOUS
<1>. USE FixedRows DEF Init
<1>1. TypeOK
  BY DEF TypeOK, RunnerPC, Ended, AgentState, CtlStep, NoPids
<1>2. JobKnown /\ CurKnown /\ NoAgentYet /\ NoRecordYet /\ NoPidWhenMissing
  BY DEF JobKnown, CurKnown, NoAgentYet, NoRecordYet, NoPidWhenMissing
<1>3. RunningHasCustodian /\ PendingHasLauncher /\ CompletedIsEarned
  BY DEF RunningHasCustodian, PendingHasLauncher, CompletedIsEarned
<1>4. PidIsMinded
  BY NoneAssumption DEF PidIsMinded
<1>. QED
  BY <1>1, <1>2, <1>3, <1>4 DEF Inv

-----------------------------------------------------------------------------
(* RUNNER STEPS.  A step of runner r writes at most the row of its own     *)
(* session and moves r's program counter; six conditions on the new row    *)
(* and the new program counter are enough for Inv to survive it.           *)

LEMMA RunnerMoveKeepsInv ==
  ASSUME Inv, NEW r \in Runner, NEW row \in Row, NEW to \in RunnerPC,
         pc[r] # "unused", to # "unused",
         sessions' = [sessions EXCEPT ![job[r]] = row],
         pc' = [pc EXCEPT ![r] = to],
         agent' \in [Runner -> AgentState],
         \A q \in Runner : q # r => agent'[q] = agent[q],
         agent[r] = "success" => agent'[r] = "success",
         to \in {"starting", "spawning"} => agent'[r] = "none",
         UNCHANGED <<job, ctlVars, abandoned>>, RecordGrows(r),
         ~Present(row) => row.pid = None,
         row.state = "running" =>
           \/ to \in Serving \cup Aborting \cup {"crashed"}
           \/ r \in stateKept'
           \/ /\ sessions[job[r]].state = "running"
              /\ pc[r] \notin Serving \cup Aborting \cup {"crashed"},
         row.state = "pending" =>
           /\ sessions[job[r]].state = "pending"
           /\ \/ r \in stateKept'
              \/ to \in Launching \cup Aborting \cup {"crashed", "gaveUp"}
              \/ pc[r] \notin Launching \cup Aborting \cup {"crashed", "gaveUp"},
         row.state = "completed" =>
           sessions[job[r]].state = "completed" \/ agent[r] = "success",
         row.pid # None =>
           \/ row.pid = r /\ (to \in Minding \/ r \in pidKept')
           \/ row.pid # r /\ row.pid = sessions[job[r]].pid
  PROVE  Inv'
<1>. DEFINE s == job[r]
<1>0. /\ TypeOK /\ s \in Session
      /\ sessions'[s] = row
      /\ \A x \in Session : x # s => sessions'[x] = sessions[x]
      /\ pc'[r] = to
      /\ \A q \in Runner : q # r => pc'[q] = pc[q]
  BY DEF Inv, TypeOK, JobKnown
<1>1. TypeOK'
  BY <1>0 DEF TypeOK, ctlVars, RecordGrows
<1>2. JobKnown' /\ CurKnown'
  BY <1>0 DEF Inv, JobKnown, CurKnown, ctlVars
<1>3. NoAgentYet' /\ NoRecordYet'
  BY <1>0 DEF Inv, NoAgentYet, NoRecordYet, RecordGrows
<1>4. NoPidWhenMissing'
  BY <1>0 DEF Inv, NoPidWhenMissing
<1>5. RunningHasCustodian'
  BY <1>0 DEF Inv, RunningHasCustodian, Custodian, RecordGrows
<1>6. PendingHasLauncher'
  BY <1>0 DEF Inv, PendingHasLauncher, Launcher, LaunchedBy, LaunchLost, ctlVars,
               RecordGrows
<1>7. PidIsMinded'
  BY <1>0, NoneAssumption DEF Inv, PidIsMinded, TypeOK, Row, RecordGrows
<1>8. CompletedIsEarned'
  BY <1>0 DEF Inv, CompletedIsEarned
<1>. QED
  BY <1>1, <1>2, <1>3, <1>4, <1>5, <1>6, <1>7, <1>8 DEF Inv

(* Only the heartbeat column changes.                                      *)
LEMMA RowsAlikeKeepInv ==
  ASSUME Inv, sessions' \in [Session -> Row],
         \A x \in Session : /\ sessions'[x].state = sessions[x].state
                            /\ sessions'[x].pid = sessions[x].pid,
         UNCHANGED <<pc, job, agent, ctlVars, abandoned, refused>>
  PROVE  Inv'
<1>1. TypeOK' /\ JobKnown' /\ CurKnown' /\ NoAgentYet' /\ NoRecordYet'
  BY DEF Inv, TypeOK, JobKnown, CurKnown, NoAgentYet, NoRecordYet, ctlVars, refused
<1>2. NoPidWhenMissing'
  BY DEF Inv, NoPidWhenMissing, Present
<1>3. RunningHasCustodian' /\ PendingHasLauncher'
  BY DEF Inv, RunningHasCustodian, Custodian, PendingHasLauncher, Launcher,
         LaunchedBy, LaunchLost, ctlVars, refused
<1>4. PidIsMinded' /\ CompletedIsEarned'
  BY DEF Inv, PidIsMinded, CompletedIsEarned, refused
<1>. QED
  BY <1>1, <1>2, <1>3, <1>4 DEF Inv

(* The same, when the step leaves the table alone.                         *)
LEMMA RunnerTurnKeepsInv ==
  ASSUME Inv, NEW r \in Runner, NEW to \in RunnerPC,
         pc[r] # "unused", to # "unused",
         UNCHANGED sessions,
         pc' = [pc EXCEPT ![r] = to],
         agent' \in [Runner -> AgentState],
         \A q \in Runner : q # r => agent'[q] = agent[q],
         agent[r] = "success" => agent'[r] = "success",
         to \in {"starting", "spawning"} => agent'[r] = "none",
         UNCHANGED <<job, ctlVars, abandoned>>, RecordGrows(r),
         sessions[job[r]].state = "running" =>
           \/ to \in Serving \cup Aborting \cup {"crashed"} \/ r \in stateKept'
           \/ pc[r] \notin Serving \cup Aborting \cup {"crashed"},
         sessions[job[r]].state = "pending" =>
           \/ r \in stateKept'
           \/ to \in Launching \cup Aborting \cup {"crashed", "gaveUp"}
           \/ pc[r] \notin Launching \cup Aborting \cup {"crashed", "gaveUp"},
         sessions[job[r]].pid = r => to \in Minding \/ r \in pidKept'
  PROVE  Inv'
<1>. DEFINE row == sessions[job[r]]
<1>1. job[r] \in Session /\ row \in Row
  BY DEF Inv, JobKnown, TypeOK
<1>2. sessions' = [sessions EXCEPT ![job[r]] = row]
  BY <1>1 DEF Inv, TypeOK
<1>3. ~Present(row) => row.pid = None
  BY <1>1 DEF Inv, NoPidWhenMissing
<1>4. row.state = "completed" =>
        sessions[job[r]].state = "completed" \/ agent[r] = "success"
  OBVIOUS
<1>5. row.pid # None =>
        \/ row.pid = r /\ (to \in Minding \/ r \in pidKept')
        \/ row.pid # r /\ row.pid = sessions[job[r]].pid
  OBVIOUS
<1>. HIDE DEF row
<1>. QED
  BY <1>1, <1>2, <1>3, <1>4, <1>5, RunnerMoveKeepsInv DEF row

(* A statement that is refused, or finds no row, sends a runner that has   *)
(* spawned its agent to its error path.                                    *)
LEMMA RunnerAbortsKeepsInv ==
  ASSUME Inv, NEW r \in Runner,
         pc[r] \in (Launching \cup Serving) \ {"starting", "spawning"},
         pc' = [pc EXCEPT ![r] = "abort"],
         UNCHANGED <<sessions, agent, job, ctlVars, abandoned, refused>>
  PROVE  Inv'
<1>1. agent \in [Runner -> AgentState] /\ RecordGrows(r) /\ pc[r] # "unused"
  BY RecordStands DEF Inv, TypeOK, Launching, Serving
<1>. QED
  BY <1>1, RunnerTurnKeepsInv DEF RunnerPC, Aborting, Minding

(* The SELECT half of a runner's update_state.                             *)
LEMMA RunnerSelectsKeepsInv ==
  ASSUME Inv, NEW r \in Runner, NEW target,
         NEW from \in {"selectRunning", "selectFinal"}, NEW next,
         RunnerSelects(r, from, target, next, "abort"),
         UNCHANGED <<job, agent, ctlVars, abandoned, refused>>,
         from = "selectRunning" => next = "writeRunning",
         from = "selectFinal" => next = "writeFinal"
  PROVE  Inv'
<1>. USE DEF RunnerPC, Launching, Serving, Aborting, Ended, Minding, Goto
<1>1. /\ pc[r] = from /\ job[r] \in Session /\ agent \in [Runner -> AgentState]
      /\ RecordGrows(r)
  BY RecordStands DEF Inv, JobKnown, TypeOK, RunnerSelects
<1>2. sessions[job[r]].pid = r => from = "selectRunning" \/ r \in pidKept
  BY <1>1 DEF Inv, PidIsMinded
<1>3. CASE Goto(r, from, next) /\ UNCHANGED sessions
  BY <1>1, <1>2, <1>3, RunnerTurnKeepsInv DEF RecordGrows
<1>4. CASE Goto(r, from, "abort") /\ UNCHANGED sessions
  BY <1>1, <1>4, RunnerAbortsKeepsInv
<1>. QED
  BY <1>3, <1>4 DEF RunnerSelects

(* The steps up to the outcome.                                            *)
LEMMA RunnerWorksInv ==
  ASSUME Inv, NEW r \in Runner, UNCHANGED <<ctlVars, abandoned, refused>>,
         \/ ReadSession(r) \/ SpawnAgent(r) \/ RecordPid(r)
         \/ SelectRunning(r) \/ WriteRunning(r) \/ FirstBeat(r)
         \/ ReapAgent(r) \/ ClearPid(r) \/ SelectFinal(r) \/ WriteFinal(r)
  PROVE  Inv'
<1>. DEFINE row == sessions[job[r]]
            rest == <<job, ctlVars, abandoned>>
<1>1. /\ TypeOK
      /\ pc[r] # "unused" => job[r] \in Session /\ row \in Row
      /\ RecordGrows(r)
  BY RecordStands DEF Inv, TypeOK, JobKnown
<1>2. pc[r] # "unused" =>
        /\ row.pid = r => pc[r] \in Minding \/ r \in pidKept
        /\ \A pid \in {r, None} : /\ WithPid(row, pid) \in Row
                                  /\ WithPid(row, pid).state = row.state
                                  /\ WithPid(row, pid).pid = pid
        /\ \A st \in SessionState : /\ WithState(row, st) \in Row
                                    /\ WithState(row, st).state = st
                                    /\ WithState(row, st).pid = row.pid
        /\ WithHeartbeat(row) \in Row
        /\ WithHeartbeat(row).state = row.state
        /\ WithHeartbeat(row).pid = row.pid
  <2>. HAVE pc[r] # "unused"
  <2>1. row \in Row /\ (row.pid = r => pc[r] \in Minding \/ r \in pidKept)
    BY <1>1 DEF Inv, PidIsMinded
  <2>. HIDE DEF row
  <2>2. ASSUME NEW pid \in {r, None}
        PROVE  /\ WithPid(row, pid) \in Row
               /\ WithPid(row, pid).state = row.state
               /\ WithPid(row, pid).pid = pid
    BY <2>1, WritesOfPid
  <2>3. ASSUME NEW st \in SessionState
        PROVE  /\ WithState(row, st) \in Row
               /\ WithState(row, st).state = st
               /\ WithState(row, st).pid = row.pid
    BY <2>1, WritesOfState
  <2>. QED
    BY <2>1, <2>2, <2>3, WritesOfHeartbeat
<1>. USE <1>1 DEF RunnerPC, Launching, Serving, Aborting, Ended, Minding, Goto
<1>3. CASE ReadSession(r)
  <2>1. PICK to \in {"spawning", "gaveUp", "done"} :
          /\ Goto(r, "starting", to)
          /\ row.state = "pending" => to # "done"
    BY <1>3 DEF ReadSession
  <2>2. (row.pid = r => r \in pidKept) /\ agent[r] = "none" /\ UNCHANGED <<sessions, agent, rest>>
    BY <1>3, <2>1 DEF ReadSession, Inv, NoAgentYet, PidIsMinded
  <2>. QED
    BY <2>1, <2>2, RunnerTurnKeepsInv DEF TypeOK, RecordGrows
<1>4. CASE SpawnAgent(r)
  <2>1. (row.pid = r => r \in pidKept) /\ agent[r] = "none" /\ UNCHANGED <<sessions, rest>>
    BY <1>4 DEF SpawnAgent, Inv, NoAgentYet, PidIsMinded
  <2>2. CASE Goto(r, "spawning", "recordPid") /\ agent' = [agent EXCEPT ![r] = "alive"]
    BY <2>1, <2>2, RunnerTurnKeepsInv DEF TypeOK, AgentState, RecordGrows
  <2>3. CASE Goto(r, "spawning", "abort") /\ UNCHANGED agent
    BY <2>1, <2>3, RunnerTurnKeepsInv DEF TypeOK
  <2>. QED
    BY <1>4, <2>2, <2>3 DEF SpawnAgent
<1>5. CASE RecordPid(r)
  <2>. DEFINE new == WithPid(row, r)
  <2>1. pc[r] = "recordPid" /\ agent \in [Runner -> AgentState] /\ UNCHANGED <<job, agent>>
    BY <1>5 DEF RecordPid, RunnerWrites, TypeOK
  <2>2. new \in Row /\ new.state = row.state /\ new.pid = r
    BY <1>2, <2>1
  <2>3. CASE Present(row) /\ SetRow(job[r], new) /\ Goto(r, "recordPid", "selectRunning")
    <3>. HIDE DEF new
    <3>1. Present(new) /\ (row.pid = r => pc[r] \in Minding \/ r \in pidKept)
      BY <1>2, <2>1, <2>2, <2>3 DEF Present, SessionState
    <3>. QED
      BY <2>1, <2>2, <2>3, <3>1, RunnerMoveKeepsInv DEF SetRow
  <2>4. CASE UNCHANGED sessions /\ Goto(r, "recordPid", "abort")
    BY <2>1, <2>4, RunnerAbortsKeepsInv
  <2>. QED
    BY <1>5, <2>3, <2>4 DEF RecordPid, RunnerWrites
<1>6. CASE SelectRunning(r)
  BY <1>6, RunnerSelectsKeepsInv DEF SelectRunning
<1>7. CASE WriteRunning(r)
  <2>. DEFINE new == WithState(row, "running")
  <2>1. pc[r] = "writeRunning" /\ agent \in [Runner -> AgentState] /\ UNCHANGED <<job, agent>>
    BY <1>7 DEF WriteRunning, RunnerWrites, TypeOK
  <2>2. new \in Row /\ new.state = "running" /\ new.pid = row.pid
    BY <1>2, <2>1 DEF SessionState
  <2>3. CASE Present(row) /\ SetRow(job[r], new) /\ Goto(r, "writeRunning", "firstBeat")
    <3>. HIDE DEF new
    <3>1. Present(new) /\ (row.pid = r => pc[r] \in Minding \/ r \in pidKept)
      BY <1>2, <2>1, <2>2, <2>3 DEF Present, SessionState
    <3>. QED
      BY <2>1, <2>2, <2>3, <3>1, RunnerMoveKeepsInv DEF SetRow
  <2>4. CASE UNCHANGED sessions /\ Goto(r, "writeRunning", "abort")
    BY <2>1, <2>4, RunnerAbortsKeepsInv
  <2>. QED
    BY <1>7, <2>3, <2>4 DEF WriteRunning, RunnerWrites
<1>8. CASE FirstBeat(r)
  <2>. DEFINE new == WithHeartbeat(row)
  <2>1. pc[r] = "firstBeat" /\ agent \in [Runner -> AgentState] /\ UNCHANGED <<job, agent>>
    BY <1>8 DEF FirstBeat, RunnerWrites, TypeOK
  <2>2. new \in Row /\ new.state = row.state /\ new.pid = row.pid
    BY <1>2, <2>1
  <2>3. CASE Present(row) /\ SetRow(job[r], new) /\ Goto(r, "firstBeat", "serving")
    <3>. HIDE DEF new
    <3>1. Present(new) /\ (row.pid = r => pc[r] \in Minding \/ r \in pidKept)
      BY <1>2, <2>1, <2>2, <2>3 DEF Present, SessionState
    <3>. QED
      BY <2>1, <2>2, <2>3, <3>1, RunnerMoveKeepsInv DEF SetRow
  <2>4. CASE UNCHANGED sessions /\ Goto(r, "firstBeat", "abort")
    BY <2>1, <2>4, RunnerAbortsKeepsInv
  <2>. QED
    BY <1>8, <2>3, <2>4 DEF FirstBeat, RunnerWrites
<1>9. CASE ReapAgent(r)
  <2>1. PICK to \in {"clearPid", "abort"} : Goto(r, "serving", to)
    BY <1>9 DEF ReapAgent
  <2>2. agent \in [Runner -> AgentState] /\ UNCHANGED <<sessions, agent, rest>>
    BY <1>9 DEF ReapAgent, TypeOK
  <2>3. agent[r] \in {"success", "failure"}
    BY <1>9 DEF ReapAgent
  <2>. QED
    BY <2>1, <2>2, <2>3, RunnerTurnKeepsInv
<1>10. CASE ClearPid(r)
  <2>. DEFINE new == WithPid(row, None)
  <2>1. pc[r] = "clearPid" /\ agent \in [Runner -> AgentState] /\ UNCHANGED <<job, agent>>
    BY <1>10 DEF ClearPid, RunnerWrites, TypeOK
  <2>2. new \in Row /\ new.state = row.state /\ new.pid = None
    BY <1>2, <2>1
  <2>3. CASE Present(row) /\ SetRow(job[r], new) /\ Goto(r, "clearPid", "selectFinal")
    <3>. HIDE DEF new
    <3>1. Present(new) /\ (row.pid = r => pc[r] \in Minding \/ r \in pidKept)
      BY <1>2, <2>1, <2>2, <2>3 DEF Present, SessionState
    <3>. QED
      BY <2>1, <2>2, <2>3, <3>1, RunnerMoveKeepsInv DEF SetRow
  <2>4. CASE UNCHANGED sessions /\ Goto(r, "clearPid", "abort")
    BY <2>1, <2>4, RunnerAbortsKeepsInv
  <2>. QED
    BY <1>10, <2>3, <2>4 DEF ClearPid, RunnerWrites
<1>11. CASE SelectFinal(r)
  BY <1>11, RunnerSelectsKeepsInv DEF SelectFinal
<1>12. CASE WriteFinal(r)
  <2>. DEFINE new == WithState(row, FinalState(r))
  <2>1. pc[r] = "writeFinal" /\ agent \in [Runner -> AgentState] /\ UNCHANGED <<job, agent>>
    BY <1>12 DEF WriteFinal, RunnerWrites, TypeOK
  <2>2. /\ new \in Row /\ new.state \in {"completed", "failed"} /\ new.pid = row.pid
        /\ new.state = "completed" => agent[r] = "success"
    BY <1>2, <2>1 DEF SessionState, FinalState
  <2>3. CASE Present(row) /\ SetRow(job[r], new) /\ Goto(r, "writeFinal", "done")
    <3>. HIDE DEF new
    <3>1. Present(new) /\ (row.pid = r => pc[r] \in Minding \/ r \in pidKept)
      BY <1>2, <2>1, <2>2, <2>3 DEF Present, SessionState
    <3>. QED
      BY <2>1, <2>2, <2>3, <3>1, RunnerMoveKeepsInv DEF SetRow, RecordGrows
  <2>4. CASE UNCHANGED sessions /\ Goto(r, "writeFinal", "abort")
    BY <2>1, <2>4, RunnerAbortsKeepsInv
  <2>. QED
    BY <1>12, <2>3, <2>4 DEF WriteFinal, RunnerWrites
<1>. QED
  BY <1>3, <1>4, <1>5, <1>6, <1>7, <1>8, <1>9, <1>10, <1>11, <1>12

(* The error path.                                                         *)
LEMMA RunnerGivesUpInv ==
  ASSUME Inv, NEW r \in Runner, UNCHANGED <<ctlVars, abandoned>>,
         AbortClearPid(r) \/ AbortSelect(r) \/ AbortWrite(r)
  PROVE  Inv'
<1>. DEFINE row == sessions[job[r]]
<1>1. /\ TypeOK /\ job[r] \in Session /\ row \in Row
      /\ agent \in [Runner -> AgentState]
      /\ pc[r] \in Aborting /\ UNCHANGED <<job, agent>>
      /\ row.pid = r => pc[r] \in Minding \/ r \in pidKept
  BY DEF Inv, TypeOK, JobKnown, PidIsMinded, AbortClearPid, AbortSelect, AbortWrite,
         Goto, Aborting
<1>2. RecordGrows(r)
  BY <1>1 DEF TypeOK, RecordGrows, AbortClearPid, AbortSelect, AbortWrite,
              KeepsPid, KeepsState
<1>. USE <1>1, <1>2 DEF RunnerPC, Launching, Serving, Aborting, Ended, Minding, Goto
<1>3. CASE AbortClearPid(r)
  <2>. DEFINE new == WithPid(row, None)
  <2>1. Goto(r, "abort", "selectFailed")
    BY <1>3 DEF AbortClearPid
  <2>2. CASE Present(row) /\ SetRow(job[r], new)
    <3>1. new \in Row /\ new.state = row.state /\ new.pid = None
      BY WritesOfPid
    <3>. HIDE DEF new
    <3>2. Present(new)
      BY <2>2, <3>1 DEF Present
    <3>. QED
      BY <2>1, <2>2, <3>1, <3>2, RunnerMoveKeepsInv DEF SetRow
  <2>3. CASE KeepsPid(r) /\ UNCHANGED sessions
    <3>1. row.pid = r => r \in pidKept'
      BY <2>3 DEF KeepsPid
    <3>. QED
      BY <2>1, <2>3, <3>1, RunnerTurnKeepsInv
  <2>. QED
    BY <1>3, <2>2, <2>3 DEF AbortClearPid
<1>4. ASSUME NEW from \in {"selectFailed", "writeFailed"}, Goto(r, from, "done"),
             KeepsState(r), UNCHANGED sessions
      PROVE  Inv'
  <2>1. row.state \in {"running", "pending"} => r \in stateKept'
    BY <1>4 DEF KeepsState, SessionState, Settled
  <2>2. row.pid = r => r \in pidKept'
    BY <1>4 DEF RecordGrows
  <2>. QED
    BY <1>4, <2>1, <2>2, RunnerTurnKeepsInv
<1>5. CASE AbortSelect(r)
  <2>1. CASE Goto(r, "selectFailed", "writeFailed") /\ UNCHANGED sessions
    <3>1. row.pid = r => r \in pidKept'
      BY <2>1 DEF RecordGrows
    <3>. QED
      BY <2>1, <3>1, RunnerTurnKeepsInv
  <2>. QED
    BY <1>4, <1>5, <2>1 DEF AbortSelect
<1>6. CASE AbortWrite(r)
  <2>. DEFINE new == WithState(row, "failed")
  <2>1. Goto(r, "writeFailed", "done")
    BY <1>6 DEF AbortWrite
  <2>2. CASE Present(row) /\ SetRow(job[r], new)
    <3>1. new \in Row /\ new.state = "failed" /\ new.pid = row.pid
      BY WritesOfState DEF SessionState
    <3>. HIDE DEF new
    <3>2. Present(new) /\ (row.pid = r => r \in pidKept')
      BY <2>1, <3>1 DEF Present, SessionState, RecordGrows
    <3>. QED
      BY <2>1, <2>2, <3>1, <3>2, RunnerMoveKeepsInv DEF SetRow
  <2>. QED
    BY <1>4, <1>6, <2>1, <2>2 DEF AbortWrite
<1>. QED
  BY <1>3, <1>5, <1>6

LEMMA RunnerStepInv ==
  ASSUME Inv, NEW r \in Runner, RunnerStep(r)
  PROVE  Inv'
BY RunnerWorksInv, RunnerGivesUpInv DEF RunnerStep

-----------------------------------------------------------------------------
(* ENVIRONMENT STEPS.                                                      *)

LEMMA RunnerEnvironmentInv ==
  ASSUME Inv, NEW r \in Runner, Heartbeat(r) \/ AgentExit(r) \/ RunnerCrash(r)
  PROVE  Inv'
<1>1. TypeOK /\ agent \in [Runner -> AgentState] /\ RecordGrows(r)
  BY RecordStands DEF Inv, TypeOK, Heartbeat, AgentExit, RunnerCrash
<1>2. CASE Heartbeat(r)
  <2>. DEFINE new == WithHeartbeat(sessions[job[r]])
  <2>1. /\ pc[r] = "serving" /\ job[r] \in Session /\ sessions[job[r]] \in Row
        /\ Present(sessions[job[r]]) /\ sessions' = [sessions EXCEPT ![job[r]] = new]
        /\ UNCHANGED <<pc, job, agent, ctlVars, abandoned, refused>>
    BY <1>2 DEF Heartbeat, Beat, SetRow, runnerVars, Inv, TypeOK, JobKnown
  <2>2. /\ new \in Row /\ new.state = sessions[job[r]].state
        /\ new.pid = sessions[job[r]].pid
    BY <2>1, WritesOfHeartbeat
  <2>3. Present(new)
    BY <2>1, <2>2 DEF Present
  <2>4. pc' = [pc EXCEPT ![r] = "serving"]
    BY <1>1, <2>1 DEF TypeOK
  <2>. HIDE DEF new
  <2>. QED
    BY <1>1, <2>1, <2>2, <2>3, <2>4, RunnerMoveKeepsInv
       DEF RunnerPC, Serving, Minding
<1>3. CASE AgentExit(r)
  <2>1. /\ agent[r] = "alive" /\ pc[r] # "unused" /\ pc[r] \notin {"starting", "spawning"}
        /\ agent' \in [Runner -> AgentState]
        /\ \A q \in Runner : q # r => agent'[q] = agent[q]
        /\ UNCHANGED <<sessions, pc, job, ctlVars, abandoned, refused>>
    BY <1>1, <1>3 DEF AgentExit, AgentState, Inv, NoAgentYet
  <2>2. pc[r] \in RunnerPC /\ pc' = [pc EXCEPT ![r] = pc[r]]
    BY <1>1, <2>1 DEF TypeOK
  <2>3. job[r] \in Session /\ (sessions[job[r]].pid = r => pc[r] \in Minding \/ r \in pidKept')
    BY <1>1, <2>1 DEF Inv, JobKnown, PidIsMinded, RecordGrows
  <2>. QED
    BY <1>1, <2>1, <2>2, <2>3, RunnerTurnKeepsInv
       DEF Launching, Serving, Aborting
<1>4. CASE RunnerCrash(r)
  BY <1>1, <1>4, RunnerTurnKeepsInv
     DEF RunnerCrash, RunnerPC, Launching, Serving, Aborting, Ended, Minding
<1>. QED
  BY <1>2, <1>3, <1>4

LEMMA LapseInv ==
  ASSUME Inv, NEW s \in Session, Lapse(s)
  PROVE  Inv'
<1>. DEFINE new == [sessions[s] EXCEPT !.fresh = FALSE]
<1>1. /\ TypeOK /\ sessions[s] \in Row
      /\ sessions' = [sessions EXCEPT ![s] = new]
      /\ UNCHANGED <<pc, job, agent, ctlVars, abandoned, refused>>
  BY DEF Lapse, SetRow, runnerVars, Inv, TypeOK
<1>2. new \in Row /\ new.state = sessions[s].state /\ new.pid = sessions[s].pid
  BY <1>1, WritesOfHeartbeat
<1>. HIDE DEF new
<1>3. /\ sessions' \in [Session -> Row]
      /\ \A x \in Session : /\ sessions'[x].state = sessions[x].state
                            /\ sessions'[x].pid = sessions[x].pid
  BY <1>1, <1>2 DEF TypeOK
<1>. QED
  BY <1>1, <1>3, RowsAlikeKeepInv

-----------------------------------------------------------------------------
(* CONTROLLER STEPS.  None of them moves a runner; SpawnRunner, which      *)
(* creates one, is treated apart.                                          *)

LEMMA CtlKeepsInv ==
  ASSUME Inv, TypeOK', CurKnown', PendingHasLauncher',
         UNCHANGED <<pc, job, refused>>,
         \A r \in Runner : agent'[r] = agent[r] \/ agent[r] = "alive",
         \A s \in Session :
           /\ sessions'[s].state \in {"running", "completed"} =>
                sessions'[s].state = sessions[s].state
           /\ sessions'[s].pid \in {None, sessions[s].pid}
           /\ ~Present(sessions'[s]) => sessions'[s].pid = None
  PROVE  Inv'
<1>1. JobKnown' /\ NoPidWhenMissing'
  BY DEF Inv, JobKnown, NoPidWhenMissing
<1>2. NoAgentYet' /\ NoRecordYet'
  BY DEF Inv, NoAgentYet, NoRecordYet, refused
<1>3. RunningHasCustodian'
  BY DEF Inv, RunningHasCustodian, Custodian, refused
<1>4. PidIsMinded'
  BY NoneAssumption DEF Inv, PidIsMinded, refused
<1>5. CompletedIsEarned'
  BY DEF Inv, CompletedIsEarned
<1>. QED
  BY <1>1, <1>2, <1>3, <1>4, <1>5 DEF Inv

(* A controller that moves keeps PendingHasLauncher if it was launching no *)
(* session, still launches it, has settled it, or leaves it on record.     *)
LEMMA CtlKeepsLaunchers ==
  ASSUME Inv, NEW c \in Controller,
         UNCHANGED <<pc, job, refused>>, abandoned \subseteq abandoned',
         \A d \in Controller : d # c => /\ op'[d] = op[d] /\ at'[d] = at[d]
                                       /\ cur'[d] = cur[d],
         \A s \in Session : sessions'[s].state = "pending" =>
           \/ LaunchedBy(c, s)'
           \/ s \in abandoned'
           \/ sessions[s].state = "pending" /\ ~LaunchedBy(c, s)
  PROVE  PendingHasLauncher'
BY DEF Inv, PendingHasLauncher, Launcher, LaunchedBy, LaunchLost, refused

(* The operation of an idle controller begins.                             *)
LEMMA CtlStartsInv ==
  ASSUME Inv, NEW c \in Controller, CtlStarts(c)
  PROVE  Inv'
<1>1. TypeOK /\ at[c] = "idle" /\ UNCHANGED <<pc, job, agent, abandoned, refused>>
  BY DEF Inv, CtlStarts, CreateSession, StartStop, StartHeartbeats, StartRecover,
         StartResume, StartDelete, Begin, runnerVars
<1>2. \A s \in Session : ~LaunchedBy(c, s)
  BY <1>1 DEF LaunchedBy
<1>3. ASSUME NEW s \in Session, CreateSession(c, s) PROVE Inv'
  <2>1. /\ sessions' = [sessions EXCEPT ![s] = NewRow]
        /\ at' = [at EXCEPT ![c] = "spawn"]
        /\ op' = [op EXCEPT ![c] = "create"]
        /\ cur' = [cur EXCEPT ![c] = s]
        /\ todo' = [todo EXCEPT ![c] = {s}]
        /\ pids' \in [Controller -> [Session -> Runner \cup {None}]]
    BY <1>1, <1>3 DEF CreateSession, Begin, SetRow, TypeOK, Row
  <2>2. TypeOK' /\ CurKnown'
    BY <1>1, <2>1, FixedRows DEF refused, TypeOK, CtlStep, Operation, Inv, CurKnown
  <2>3. LaunchedBy(c, s)'
    BY <1>1, <2>1 DEF TypeOK, LaunchedBy
  <2>4. PendingHasLauncher'
    BY <1>1, <1>2, <2>1, <2>3, CtlKeepsLaunchers DEF TypeOK
  <2>. QED
    BY <1>1, <2>1, <2>2, <2>4, FixedRows, CtlKeepsInv DEF TypeOK, Inv, NoPidWhenMissing
<1>4. ASSUME NEW name \in Operation, NEW step \in {"pick", "requeue", "deleteRow"},
             NEW targets \in SUBSET Session, Begin(c, name, step, targets),
             UNCHANGED sessions,
             cur' \in [Controller -> Session \cup {None}],
             step # "pick" => cur'[c] \in Session,
             \A d \in Controller : d # c => cur'[d] = cur[d]
      PROVE  Inv'
  <2>1. /\ at' = [at EXCEPT ![c] = step]
        /\ op' = [op EXCEPT ![c] = name]
        /\ todo' = [todo EXCEPT ![c] = targets]
        /\ pids' \in [Controller -> [Session -> Runner \cup {None}]]
    BY <1>1, <1>4 DEF Begin, TypeOK, Row
  <2>2. TypeOK' /\ CurKnown'
    BY <1>1, <1>4, <2>1 DEF refused, TypeOK, CtlStep, Inv, CurKnown
  <2>3. PendingHasLauncher'
    BY <1>1, <1>2, <1>4, <2>1, CtlKeepsLaunchers DEF TypeOK
  <2>. QED
    BY <1>1, <1>4, <2>1, <2>2, <2>3, CtlKeepsInv DEF TypeOK, Inv, NoPidWhenMissing
<1>5. CASE StartStop(c)
  <2>1. UNCHANGED <<sessions, cur>>
    BY <1>1, <1>5 DEF StartStop, TypeOK
  <2>2. ASSUME NEW s \in Session, Begin(c, "stop", "pick", {s}) PROVE Inv'
    BY <1>1, <1>4, <2>1, <2>2 DEF Operation, TypeOK
  <2>3. ASSUME NEW some \in SUBSET Session, Begin(c, "stop", "pick", some) PROVE Inv'
    BY <1>1, <1>4, <2>1, <2>3 DEF Operation, TypeOK
  <2>. QED
    BY <1>5, <2>2, <2>3 DEF StartStop
<1>6. CASE StartHeartbeats(c)
  BY <1>1, <1>4, <1>6 DEF StartHeartbeats, Operation, TypeOK
<1>7. CASE StartRecover(c)
  BY <1>1, <1>4, <1>7 DEF StartRecover, Operation, TypeOK
<1>8. CASE StartResume(c)
  <2>1. PICK s \in Session : /\ Begin(c, "resume", "requeue", {s})
                            /\ cur' = [cur EXCEPT ![c] = s]
    BY <1>8 DEF StartResume
  <2>2. UNCHANGED sessions
    BY <1>8 DEF StartResume
  <2>3. /\ cur' \in [Controller -> Session \cup {None}] /\ cur'[c] \in Session
        /\ \A d \in Controller : d # c => cur'[d] = cur[d]
    BY <1>1, <2>1 DEF TypeOK
  <2>. QED
    BY <1>4, <2>1, <2>2, <2>3 DEF Operation
<1>9. CASE StartDelete(c)
  <2>1. PICK s \in Session : /\ Begin(c, "delete", "deleteRow", {s})
                            /\ cur' = [cur EXCEPT ![c] = s]
    BY <1>9 DEF StartDelete
  <2>2. UNCHANGED sessions
    BY <1>9 DEF StartDelete
  <2>3. /\ cur' \in [Controller -> Session \cup {None}] /\ cur'[c] \in Session
        /\ \A d \in Controller : d # c => cur'[d] = cur[d]
    BY <1>1, <2>1 DEF TypeOK
  <2>. QED
    BY <1>4, <2>1, <2>2, <2>3 DEF Operation
<1>. QED
  BY <1>3, <1>5, <1>6, <1>7, <1>8, <1>9 DEF CtlStarts

(* The variables of the controllers are of their types, and only those of  *)
(* controller c have moved.                                                *)
CtlTyped ==
  /\ op \in [Controller -> Operation \cup {"none"}]
  /\ at \in [Controller -> CtlStep]
  /\ cur \in [Controller -> Session \cup {None}]
  /\ todo \in [Controller -> SUBSET Session]
  /\ pids \in [Controller -> [Session -> Runner \cup {None}]]

OnlyMoved(c) ==
  \A d \in Controller : d # c => /\ op'[d] = op[d] /\ at'[d] = at[d]
                                /\ cur'[d] = cur[d]

LEMMA FinishMoves ==
  ASSUME Inv, NEW c \in Controller, Finish(c)
  PROVE  CtlTyped' /\ CurKnown' /\ OnlyMoved(c) /\ at'[c] = "idle"
BY DEF Inv, TypeOK, CurKnown, Finish, CtlTyped, OnlyMoved, CtlStep, NoPids

LEMMA StepMoves ==
  ASSUME Inv, NEW c \in Controller, NEW from \in CtlStep \ {"idle", "pick"},
         NEW to \in CtlStep, Step(c, from, to)
  PROVE  /\ CtlTyped' /\ CurKnown' /\ OnlyMoved(c)
         /\ at[c] = from /\ at'[c] = to /\ op'[c] = op[c] /\ cur'[c] = cur[c]
BY DEF Inv, TypeOK, CurKnown, Step, CtlTyped, OnlyMoved

LEMMA VisitMoves ==
  ASSUME Inv, NEW c \in Controller, NEW s \in Session, NEW step \in CtlStep,
         Visit(c, s, step)
  PROVE  CtlTyped' /\ CurKnown' /\ OnlyMoved(c)
<1>1. pids' \in [Controller -> [Session -> Runner \cup {None}]]
  BY DEF Inv, TypeOK, Visit
<1>. QED
  BY <1>1 DEF Inv, TypeOK, CurKnown, Visit, CtlTyped, OnlyMoved

LEMMA AdvanceMoves ==
  ASSUME Inv, NEW c \in Controller, NEW s \in Session, Advance(c, s)
  PROVE  CtlTyped' /\ CurKnown' /\ OnlyMoved(c) /\ at'[c] \in {"idle", "pick"}
<1>1. CASE todo[c] = {s}
  BY <1>1, FinishMoves DEF Advance
<1>2. CASE todo[c] # {s}
  <2>1. /\ todo' = [todo EXCEPT ![c] = todo[c] \ {s}]
        /\ at' = [at EXCEPT ![c] = "pick"]
        /\ cur' = [cur EXCEPT ![c] = None]
        /\ pids' = [pids EXCEPT ![c] = [pids[c] EXCEPT ![s] = None]]
        /\ UNCHANGED op
    BY <1>2 DEF Advance
  <2>2. pids' \in [Controller -> [Session -> Runner \cup {None}]]
    BY <2>1 DEF Inv, TypeOK
  <2>. QED
    BY <2>1, <2>2 DEF Inv, TypeOK, CurKnown, CtlTyped, OnlyMoved, CtlStep
<1>. QED
  BY <1>1, <1>2

LEMMA KillHarms ==
  ASSUME Inv, NEW pid \in Runner \cup {None}, Kill(pid)
  PROVE  /\ agent' \in [Runner -> AgentState]
         /\ \A r \in Runner : agent'[r] = agent[r] \/ agent[r] = "alive"
BY DEF Inv, TypeOK, Kill, AgentState

(* What a controller's step must respect for Inv to survive it.            *)
LEMMA CtlTurnKeepsInv ==
  ASSUME Inv, NEW c \in Controller,
         CtlTyped', CurKnown', OnlyMoved(c), UNCHANGED <<pc, job, sessions, refused>>,
         agent' \in [Runner -> AgentState],
         \A r \in Runner : agent'[r] = agent[r] \/ agent[r] = "alive",
         abandoned' \in SUBSET Session, abandoned \subseteq abandoned',
         \A s \in Session : LaunchedBy(c, s) =>
           \/ LaunchedBy(c, s)'
           \/ s \in abandoned'
           \/ sessions[s].state # "pending"
  PROVE  Inv'
<1>1. TypeOK'
  BY DEF refused, Inv, TypeOK, CtlTyped
<1>2. PendingHasLauncher'
  BY CtlKeepsLaunchers DEF OnlyMoved
<1>. QED
  BY <1>1, <1>2, CtlKeepsInv DEF Inv, NoPidWhenMissing

LEMMA CtlWriteKeepsInv ==
  ASSUME Inv, NEW c \in Controller, NEW s \in Session, NEW new \in Row,
         CtlTyped', CurKnown', OnlyMoved(c), UNCHANGED <<pc, job, agent, abandoned, refused>>,
         sessions' = [sessions EXCEPT ![s] = new],
         new.state \in {"running", "completed"} => new.state = sessions[s].state,
         new.pid \in {None, sessions[s].pid}, ~Present(new) => new.pid = None,
         new.state = "pending" =>
           LaunchedBy(c, s)' \/ (sessions[s].state = "pending" /\ ~LaunchedBy(c, s)),
         \A x \in Session : x # s => ~LaunchedBy(c, x)
  PROVE  Inv'
<1>1. /\ TypeOK /\ sessions'[s] = new
      /\ \A x \in Session : x # s => sessions'[x] = sessions[x]
      /\ sessions' \in [Session -> Row]
  BY DEF Inv, TypeOK
<1>2. TypeOK'
  BY <1>1 DEF refused, TypeOK, CtlTyped
<1>3. PendingHasLauncher'
  BY <1>1, CtlKeepsLaunchers DEF OnlyMoved
<1>. QED
  BY <1>1, <1>2, <1>3, CtlKeepsInv DEF Inv, NoPidWhenMissing

(* SpawnRunner hands the launch over to the runner it creates.             *)
LEMMA SpawnRunnerInv ==
  ASSUME Inv, NEW c \in Controller, SpawnRunner(c), UNCHANGED refused
  PROVE  Inv'
<1>1. PICK r \in Runner : /\ Goto(r, "unused", "starting")
                          /\ job' = [job EXCEPT ![r] = cur[c]]
  BY DEF SpawnRunner
<1>2. /\ TypeOK /\ at[c] = "spawn" /\ cur[c] \in Session
      /\ UNCHANGED <<sessions, agent, abandoned, pidKept, stateKept>>
      /\ CtlTyped' /\ CurKnown' /\ OnlyMoved(c)
  BY FinishMoves DEF Inv, CurKnown, SpawnRunner, refused
<1>3. /\ pc[r] = "unused" /\ pc'[r] = "starting" /\ job'[r] = cur[c]
      /\ \A q \in Runner : q # r => pc'[q] = pc[q] /\ job'[q] = job[q]
      /\ pc' \in [Runner -> RunnerPC] /\ job' \in [Runner -> Session \cup {None}]
  BY <1>1, <1>2 DEF Goto, TypeOK, RunnerPC, Launching
<1>4. TypeOK'
  BY <1>2, <1>3 DEF refused, TypeOK, CtlTyped
<1>5. JobKnown' /\ NoAgentYet' /\ NoRecordYet' /\ NoPidWhenMissing'
  BY <1>2, <1>3 DEF Inv, JobKnown, NoAgentYet, NoRecordYet, NoPidWhenMissing
<1>6. RunningHasCustodian'
  BY <1>2, <1>3 DEF Inv, RunningHasCustodian, Custodian, NoRecordYet, Serving, Aborting
<1>7. PendingHasLauncher'
  <2>1. ASSUME NEW s \in Session, sessions[s].state = "pending"
        PROVE  (Launcher(s) \/ LaunchLost(s))'
    <3>1. CASE s = cur[c]
      BY <1>3, <3>1 DEF Launcher, Launching
    <3>2. CASE s # cur[c]
      <4>1. ~LaunchedBy(c, s)
        BY <3>2 DEF LaunchedBy
      <4>. QED
        BY <1>2, <1>3, <2>1, <4>1
           DEF Inv, PendingHasLauncher, Launcher, LaunchedBy, LaunchLost, NoRecordYet, OnlyMoved,
               Launching, Aborting
    <3>. QED
      BY <3>1, <3>2
  <2>. QED
    BY <1>2, <2>1 DEF PendingHasLauncher
<1>8. PidIsMinded'
  BY <1>2, <1>3 DEF Inv, PidIsMinded, NoRecordYet, Minding
<1>9. CompletedIsEarned'
  BY <1>2, <1>3 DEF Inv, CompletedIsEarned, NoAgentYet
<1>. QED
  BY <1>2, <1>4, <1>5, <1>6, <1>7, <1>8, <1>9 DEF Inv

LEMMA CtlContinuesInv ==
  ASSUME Inv, NEW c \in Controller, CtlContinues(c)
  PROVE  Inv'
<1>. DEFINE row == sessions[cur[c]]
<1>1. /\ TypeOK /\ agent \in [Runner -> AgentState] /\ abandoned \in SUBSET Session
      /\ at[c] \notin {"idle", "pick"} => cur[c] \in Session /\ row \in Row
      /\ todo[c] \subseteq Session /\ pids[c] \in [Session -> Runner \cup {None}]
      /\ UNCHANGED refused
  BY DEF Inv, TypeOK, CurKnown, CtlContinues
<1>2. at[c] \notin {"spawn", "select", "write"} =>
        \A s \in Session : ~LaunchedBy(c, s)
  BY DEF LaunchedBy
<1>3. \A s \in Session : s # cur[c] => ~LaunchedBy(c, s)
  BY DEF LaunchedBy
<1>4. CASE StopKills(c)
  <2>1. PICK s \in todo[c] : Kill(pids[c][s]) /\ Visit(c, s, "clearPid")
    BY <1>4 DEF StopKills
  <2>. QED
    BY <1>1, <1>2, <1>4, <2>1, KillHarms, VisitMoves, CtlTurnKeepsInv
       DEF StopKills, CtlStep
<1>5. CASE StopClearsPid(c)
  <2>. DEFINE new == WithPid(row, None)
  <2>1. CASE Step(c, "clearPid", "select") /\ Present(row)
             /\ SetRow(cur[c], WithPid(row, None))
    <3>0. sessions' = [sessions EXCEPT ![cur[c]] = new]
      BY <2>1 DEF SetRow
    <3>1. /\ CtlTyped' /\ CurKnown' /\ OnlyMoved(c) /\ at[c] = "clearPid"
      BY <2>1, StepMoves DEF CtlStep
    <3>2. new \in Row /\ new.state = row.state /\ new.pid = None
      BY <1>1, <3>1, WritesOfPid
    <3>3. UNCHANGED <<pc, job, agent, abandoned, refused>> /\ cur[c] \in Session
      BY <1>1, <1>5, <3>1 DEF StopClearsPid, runnerVars
    <3>. HIDE DEF new
    <3>. QED
      BY <1>1, <1>2, <2>1, <3>1, <3>2, <3>3, <3>0, CtlWriteKeepsInv
  <2>2. CASE at[c] = "clearPid" /\ Finish(c) /\ UNCHANGED sessions
    BY <1>1, <1>2, <1>5, <2>2, FinishMoves, CtlTurnKeepsInv DEF StopClearsPid, runnerVars
  <2>. QED
    BY <1>5, <2>1, <2>2 DEF StopClearsPid
<1>6. CASE MarkStale(c)
  BY <1>1, <1>2, <1>6, VisitMoves, CtlTurnKeepsInv DEF MarkStale, CtlStep, runnerVars
<1>7. CASE TerminateStale(c)
  <2>1. PICK s \in todo[c] : Kill(pids[c][s]) /\ Visit(c, s, "failRow")
    BY <1>7 DEF TerminateStale
  <2>. QED
    BY <1>1, <1>2, <1>7, <2>1, KillHarms, VisitMoves, CtlTurnKeepsInv
       DEF TerminateStale, CtlStep
<1>8. CASE ProbePid(c)
  <2>1. PICK s \in todo[c] : Advance(c, s) \/ Visit(c, s, "failRow")
    BY <1>8 DEF ProbePid
  <2>. QED
    BY <1>1, <1>2, <1>8, <2>1, AdvanceMoves, VisitMoves, CtlTurnKeepsInv
       DEF ProbePid, CtlStep, runnerVars
<1>9. CASE FailRow(c)
  <2>. DEFINE new == WithStateAndPid("failed", None)
  <2>1. CASE SetRow(cur[c], WithStateAndPid("failed", None)) /\ Advance(c, cur[c])
    <3>0. sessions' = [sessions EXCEPT ![cur[c]] = new]
      BY <2>1 DEF SetRow
    <3>1. cur[c] \in Session /\ at[c] = "failRow" /\ UNCHANGED <<pc, job, agent, abandoned, refused>>
      BY <1>1, <1>9 DEF FailRow, runnerVars
    <3>2. new \in Row /\ new.state = "failed" /\ new.pid = None /\ Present(new)
      BY WritesOfStateAndPid DEF SessionState, Present
    <3>3. CtlTyped' /\ CurKnown' /\ OnlyMoved(c)
      BY <2>1, <3>1, AdvanceMoves
    <3>. HIDE DEF new
    <3>. QED
      BY <1>2, <2>1, <3>1, <3>2, <3>3, <3>0, CtlWriteKeepsInv
  <2>2. CASE Finish(c) /\ UNCHANGED sessions
    BY <1>1, <1>2, <1>9, <2>2, FinishMoves, CtlTurnKeepsInv DEF FailRow, runnerVars
  <2>. QED
    BY <1>9, <2>1, <2>2 DEF FailRow
<1>10. CASE CtlSelects(c)
  <2>1. at[c] = "select" /\ UNCHANGED <<sessions, pc, job, agent, abandoned>>
    BY <1>10 DEF CtlSelects, runnerVars
  <2>2. CASE Step(c, "select", "write")
    <3>1. \A s \in Session : LaunchedBy(c, s) => LaunchedBy(c, s)'
      BY <1>1, <2>1, <2>2, StepMoves DEF LaunchedBy, CtlStep
    <3>. QED
      BY <1>1, <2>1, <2>2, <3>1, StepMoves, CtlTurnKeepsInv DEF CtlStep
  <2>3. CASE ~CanTransition(row.state, Target(c)) /\ Finish(c)
    <3>1. \A s \in Session : LaunchedBy(c, s) => sessions[s].state # "pending"
      BY <2>1, <2>3 DEF LaunchedBy, Target, CanTransition
    <3>. QED
      BY <1>1, <2>1, <2>3, <3>1, FinishMoves, CtlTurnKeepsInv
  <2>. QED
    BY <1>10, <2>2, <2>3 DEF CtlSelects
<1>11. CASE CtlWrites(c)
  <2>1. at[c] = "write" /\ cur[c] \in Session /\ UNCHANGED <<pc, job, agent, abandoned, refused>>
    BY <1>1, <1>11 DEF CtlWrites, runnerVars
  <2>. DEFINE new == WithState(row, Target(c))
  <2>2. CASE Present(row) /\ SetRow(cur[c], WithState(row, Target(c))) /\ Advance(c, cur[c])
    <3>0. sessions' = [sessions EXCEPT ![cur[c]] = new]
      BY <2>2 DEF SetRow
    <3>1. Target(c) \in {"stopped", "stale", "failed"} /\ Target(c) \in SessionState
      BY DEF Target, SessionState
    <3>2. new \in Row /\ new.state \in {"stopped", "stale", "failed"} /\ new.pid = row.pid
      BY <1>1, <2>1, <3>1, WritesOfState
    <3>3. Present(new)
      BY <3>2 DEF Present, SessionState
    <3>4. CtlTyped' /\ CurKnown' /\ OnlyMoved(c)
      BY <2>1, <2>2, AdvanceMoves
    <3>. HIDE DEF new
    <3>. QED
      BY <1>3, <2>1, <2>2, <3>2, <3>3, <3>4, <3>0, CtlWriteKeepsInv
  <2>3. CASE ~Present(row) /\ Finish(c) /\ UNCHANGED sessions
    <3>1. \A s \in Session : LaunchedBy(c, s) => sessions[s].state # "pending"
      BY <1>3, <2>3 DEF Present, SessionState
    <3>. QED
      BY <1>1, <2>1, <2>3, <3>1, FinishMoves, CtlTurnKeepsInv
  <2>. QED
    BY <1>11, <2>2, <2>3 DEF CtlWrites
<1>12. CASE Requeue(c)
  <2>. DEFINE new == WithStateAndPid("pending", None)
  <2>1. CASE Step(c, "requeue", "spawn") /\ SetRow(cur[c], WithStateAndPid("pending", None))
    <3>0. sessions' = [sessions EXCEPT ![cur[c]] = new]
      BY <2>1 DEF SetRow
    <3>1. /\ CtlTyped' /\ CurKnown' /\ OnlyMoved(c) /\ at[c] = "requeue"
          /\ at'[c] = "spawn" /\ cur'[c] = cur[c]
      BY <2>1, StepMoves DEF CtlStep
    <3>2. new \in Row /\ new.state = "pending" /\ new.pid = None
      BY WritesOfStateAndPid DEF SessionState
    <3>3. UNCHANGED <<pc, job, agent, abandoned, refused>> /\ cur[c] \in Session
      BY <1>1, <1>12, <3>1 DEF Requeue, runnerVars
    <3>4. LaunchedBy(c, cur[c])'
      BY <3>1 DEF LaunchedBy
    <3>. HIDE DEF new
    <3>. QED
      BY <1>3, <2>1, <3>1, <3>2, <3>3, <3>4, <3>0, CtlWriteKeepsInv
  <2>2. CASE at[c] = "requeue" /\ Finish(c) /\ UNCHANGED sessions
    BY <1>1, <1>2, <1>12, <2>2, FinishMoves, CtlTurnKeepsInv DEF Requeue, runnerVars
  <2>. QED
    BY <1>12, <2>1, <2>2 DEF Requeue
<1>13. CASE SpawnRunnerFails(c)
  <2>1. at[c] = "spawn" /\ UNCHANGED <<sessions, pc, job, agent>>
    BY <1>13 DEF SpawnRunnerFails, runnerVars
  <2>2. CASE op[c] = "create" /\ Step(c, "spawn", "select") /\ UNCHANGED abandoned
    <3>1. \A s \in Session : LaunchedBy(c, s) => LaunchedBy(c, s)'
      BY <2>2, StepMoves DEF LaunchedBy, CtlStep
    <3>. QED
      BY <1>1, <2>1, <2>2, <3>1, StepMoves, CtlTurnKeepsInv DEF CtlStep
  <2>3. CASE Finish(c) /\ abandoned' = abandoned \cup {cur[c]}
    BY <1>1, <1>3, <2>1, <2>3, FinishMoves, CtlTurnKeepsInv
  <2>. QED
    BY <1>13, <2>2, <2>3 DEF SpawnRunnerFails
<1>14. CASE DeleteRow(c)
  <2>1. /\ at[c] = "deleteRow" /\ Finish(c) /\ cur[c] \in Session
        /\ UNCHANGED <<pc, job, agent, abandoned, refused>>
    BY <1>1, <1>14 DEF DeleteRow, runnerVars
  <2>2. CASE SetRow(cur[c], DeletedRow)
    BY <1>1, <1>2, <2>1, <2>2, FixedRows, FinishMoves, CtlWriteKeepsInv DEF SetRow
  <2>3. CASE UNCHANGED sessions
    BY <1>1, <1>2, <2>1, <2>3, FinishMoves, CtlTurnKeepsInv
  <2>. QED
    BY <1>14, <2>2, <2>3 DEF DeleteRow
<1>15. CASE SpawnRunner(c)
  BY <1>1, <1>15, SpawnRunnerInv
<1>. QED
  BY <1>4, <1>5, <1>6, <1>7, <1>8, <1>9, <1>10, <1>11, <1>12, <1>13, <1>14, <1>15
     DEF CtlContinues

LEMMA CtlCrashInv ==
  ASSUME Inv, NEW c \in Controller, CtlCrash(c)
  PROVE  Inv'
<1>1. /\ Finish(c) /\ UNCHANGED <<sessions, pc, job, agent, refused>>
      /\ agent \in [Runner -> AgentState]
      /\ abandoned' = abandoned \cup {s \in Session : LaunchedBy(c, s)}
      /\ abandoned' \in SUBSET Session
  BY DEF CtlCrash, runnerVars, Inv, TypeOK
<1>. QED
  BY <1>1, FinishMoves, CtlTurnKeepsInv

-----------------------------------------------------------------------------
LEMMA NextInv == Inv /\ [Next]_vars => Inv'
<1>. SUFFICES ASSUME Inv, [Next]_vars PROVE Inv'
  OBVIOUS
<1>1. ASSUME NEW r \in Runner, RunnerStep(r) \/ Heartbeat(r) \/ AgentExit(r) \/ RunnerCrash(r)
      PROVE  Inv'
  BY <1>1, RunnerStepInv, RunnerEnvironmentInv
<1>2. ASSUME NEW s \in Session, Lapse(s) PROVE Inv'
  BY <1>2, LapseInv
<1>3. ASSUME NEW c \in Controller, CtlStarts(c) \/ CtlContinues(c) \/ CtlCrash(c)
      PROVE  Inv'
  BY <1>3, CtlStartsInv, CtlContinuesInv, CtlCrashInv
<1>4. CASE UNCHANGED vars
  BY <1>4, RowsAlikeKeepInv DEF vars, runnerVars, Inv, TypeOK
<1>. QED
  BY <1>1, <1>2, <1>3, <1>4 DEF Next

THEOREM InvAlways == Spec => []Inv
BY InitInv, NextInv, PTL DEF Spec

(* Every variable keeps its type.                                          *)
THEOREM TypeCorrect == Spec => []TypeOK
<1>1. Inv => TypeOK
  BY DEF Inv
<1>. QED
  BY <1>1, InvAlways, PTL

(* A Running row always has a runner that will write its outcome, unless   *)
(* that runner's process died or the store refused its last write: for any number of sessions, runners and     *)
(* controllers and any interleaving of the two halves of update_state.     *)
THEOREM RunningIsMinded == Spec => []RunningHasCustodian
<1>1. Inv => RunningHasCustodian
  BY DEF Inv
<1>. QED
  BY <1>1, InvAlways, PTL

(* A Pending row always has somebody who takes it further, or a recorded   *)
(* reason why not.                                                         *)
THEOREM PendingIsLaunched == Spec => []PendingHasLauncher
<1>1. Inv => PendingHasLauncher
  BY DEF Inv
<1>. QED
  BY <1>1, InvAlways, PTL

(* A recorded pid always belongs to a runner of that session that has not  *)
(* cleared it yet, died before it did, or was refused the clearing on its  *)
(* error path.                                                             *)
THEOREM RecordedPidIsMinded == Spec => []PidIsMinded
<1>1. Inv => PidIsMinded
  BY DEF Inv
<1>. QED
  BY <1>1, InvAlways, PTL

(* Completed is only ever written for a session whose agent succeeded.     *)
THEOREM CompletedIsDeserved == Spec => []CompletedIsEarned
<1>1. Inv => CompletedIsEarned
  BY DEF Inv
<1>. QED
  BY <1>1, InvAlways, PTL
=============================================================================
