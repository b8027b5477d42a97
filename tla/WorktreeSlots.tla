---------------------------- MODULE WorktreeSlots ----------------------------
(***************************************************************************)
(* Git worktrees of sessions, the limit on how many there are, and the     *)
(* queue of sessions that wait for one (session/manager.rs and             *)
(* worktree/mod.rs).  Processes are the daemon, the dashboard and one-shot *)
(* commands; each step is one database statement or one git command, and   *)
(* any other process may run in between.                                   *)
(*                                                                         *)
(* Runners are coarser than in SessionLifecycle: update_state is one step, *)
(* and so is the end of a runner, which may come at any time; the kill of  *)
(* an agent by a stop is one reason among others.                          *)
(***************************************************************************)
EXTENDS SessionStore, Integers, FiniteSets, Sequences, SequencesExt

CONSTANTS Session,
          Process,
          MaxWorktrees,   \* config max_parallel_worktrees
          Operations,     \* the operations that each process is asked for
          Crashes         \* whether processes and runners die

ASSUME MaxWorktreesAssumption == MaxWorktrees \in Nat

Operation == {"create", "activate", "stop", "cleanup", "prune", "resume", "delete",
              "heartbeats"}

ASSUME SlotOperationsAssumption == Operations \in [Process -> SUBSET Operation]

ASSUME CrashesAssumption == Crashes \in BOOLEAN

(* None stands for no session; there are finitely many processes.          *)
ASSUME NoSessionAssumption == None \notin Session

ASSUME ProcessAssumption == IsFiniteSet(Process)

VARIABLES
  rows,     \* the sessions table: state, pid (set or not), worktree
  queue,    \* pending_worktree_queue, by requested_at
  disk,     \* sessions whose git worktree and branch exist
  runner,   \* runner -> its position and its session
  proc,     \* process -> the operation in progress
  lost,     \* history: sessions whose launch died with a process
  reset     \* history: sessions that were resumed, or whose worktree was
            \* removed while they were pending

vars == <<rows, queue, disk, runner, proc, lost, reset>>

-----------------------------------------------------------------------------
SlotRow == [state    : SessionState \cup {"absent", "deleted"},
            pid      : BOOLEAN,
            worktree : BOOLEAN]

RunnerPC == {"unused", "starting", "launched", "recorded", "live", "ended", "dead"}

ProcStep == {"idle",
             "makeNew", "insert", "enqueue", "spawnNew", "failNew", "removeNew",
             "list", "look", "drop", "make", "attach", "launch", "done",
             "failDrop", "failState",
             "stopPid", "stopState", "remove", "clear", "resolve",
             "requeue", "respawn", "removeGone", "deleteRow"}

(* What a process remembers: the session it is at, the rest of its list,   *)
(* the slots it believes are free and the row as it read it.               *)
Proc == [op : Operation \cup {"none"}, at : ProcStep, cur : Session \cup {None},
         list : Seq(Session), slots : 0..MaxWorktrees, worktree : BOOLEAN]

Idle == [op |-> "none", at |-> "idle", cur |-> None, list |-> <<>>, slots |-> 0,
         worktree |-> FALSE]

TypeOK ==
  /\ rows \in [Session -> SlotRow]
  /\ queue \in Seq(Session)
  /\ disk \subseteq Session
  /\ runner \in [Runner -> [pc : RunnerPC, job : Session \cup {None}]]
  /\ proc \in [Process -> Proc]
  /\ lost \subseteq Session
  /\ reset \subseteq Session

Init ==
  /\ rows = [s \in Session |-> [state |-> "absent", pid |-> FALSE,
                                worktree |-> FALSE]]
  /\ queue = <<>>
  /\ disk = {}
  /\ runner = [r \in Runner |-> [pc |-> "unused", job |-> None]]
  /\ proc = [p \in Process |-> Idle]
  /\ lost = {}
  /\ reset = {}

-----------------------------------------------------------------------------
(* Helpers.                                                                *)

(* attached_worktree_count counts rows, whatever their state.              *)
Attached == {s \in Session : rows[s].worktree}

(* Mutation: the subtraction does not saturate (here on two bits).         *)
FreeSlotsWraps == (MaxWorktrees - Cardinality(Attached)) % 4

(* max_parallel_worktrees.saturating_sub(attached).                        *)
FreeSlots ==
  IF Cardinality(Attached) >= MaxWorktrees THEN 0
  ELSE MaxWorktrees - Cardinality(Attached)

At(p, step) == proc[p].at = step
Cur(p) == proc[p].cur
Exists(s) == Present(rows[s])

Go(p, step) == proc' = [proc EXCEPT ![p].at = step]
Finish(p)   == proc' = [proc EXCEPT ![p] = Idle]

SetRow(s, row) == rows' = [rows EXCEPT ![s] = row]

(* DELETE of a session's request; session_id is the key of the queue.      *)
Queued(s)   == \E i \in DOMAIN queue : queue[i] = s
Dequeued(s) ==
  IF Queued(s) THEN RemoveAt(queue, CHOOSE i \in DOMAIN queue : queue[i] = s) ELSE queue

(* The next session of a pass, looked at from the given step.              *)
NextOfPass(p, step) ==
  IF proc[p].list = <<>>
    THEN Finish(p)
    ELSE proc' = [proc EXCEPT ![p].at = step, ![p].cur = Head(proc[p].list),
                              ![p].list = Tail(@)]

(* resolve_session: the caller keeps the row as it is now.                 *)
Begin(p, name, step, s) ==
  /\ name \in Operations[p]
  /\ At(p, "idle")
  /\ proc' = [proc EXCEPT ![p] = [Idle EXCEPT !.op = name, !.at = step, !.cur = s,
                                  !.worktree = rows[s].worktree]]

Spawn(s) ==
  \E r \in Runner : /\ runner[r].pc = "unused"
                    /\ runner' = [runner EXCEPT ![r] = [pc |-> "starting", job |-> s]]

-----------------------------------------------------------------------------
(* CREATION with a worktree (queue_session...).                            *)

(* build_session_record counts the attached worktrees.                     *)
StartCreate(p) ==
  /\ \E s \in Session :
       /\ rows[s].state = "absent"
       /\ \A q \in Process : proc[q].op = "create" => Cur(q) # s
       /\ Begin(p, "create", IF FreeSlots > 0 THEN "makeNew" ELSE "insert", s)
  /\ UNCHANGED <<rows, queue, disk, runner, lost, reset>>

(* git worktree add; its failure ends the creation before any row exists.  *)
MakeNew(p) ==
  /\ At(p, "makeNew")
  /\ \/ /\ disk' = disk \cup {Cur(p)}
        /\ proc' = [proc EXCEPT ![p].at = "insert", ![p].worktree = TRUE]
     \/ Finish(p) /\ UNCHANGED disk
  /\ UNCHANGED <<rows, queue, runner, lost, reset>>

Insert(p) ==
  /\ At(p, "insert")
  /\ SetRow(Cur(p), [state |-> "pending", pid |-> FALSE,
                     worktree |-> proc[p].worktree])
  /\ Go(p, IF proc[p].worktree THEN "spawnNew" ELSE "enqueue")
  /\ UNCHANGED <<queue, disk, runner, lost, reset>>

Enqueue(p) ==
  /\ At(p, "enqueue")
  /\ queue' = IF Exists(Cur(p)) THEN Append(Dequeued(Cur(p)), Cur(p)) ELSE queue
  /\ Finish(p)
  /\ UNCHANGED <<rows, disk, runner, lost, reset>>

SpawnNew(p) ==
  /\ At(p, "spawnNew")
  /\ Spawn(Cur(p))
  /\ Finish(p)
  /\ UNCHANGED <<rows, queue, disk, lost, reset>>

SpawnNewFails(p) ==
  /\ At(p, "spawnNew")
  /\ Go(p, "failNew")
  /\ UNCHANGED <<rows, queue, disk, runner, lost, reset>>

(* update_state(Failed); when it is refused nothing else is done.          *)
FailNew(p) ==
  /\ At(p, "failNew")
  /\ IF Exists(Cur(p)) /\ CanTransition(rows[Cur(p)].state, "failed")
       THEN /\ SetRow(Cur(p), [rows[Cur(p)] EXCEPT !.state = "failed"])
            /\ Go(p, "removeNew")
       ELSE Finish(p) /\ UNCHANGED rows
  /\ UNCHANGED <<queue, disk, runner, lost, reset>>

(* The worktree goes; the row still records it.                            *)
RemoveNew(p) ==
  /\ At(p, "removeNew")
  /\ disk' = disk \ {Cur(p)}
  /\ Finish(p)
  /\ UNCHANGED <<rows, queue, runner, lost, reset>>

-----------------------------------------------------------------------------
(* ACTIVATION (activate_pending_worktree_sessions).                        *)

(* Mutation: every slot is taken to be free.                               *)
StartActivateUncounted(p) ==
  /\ "activate" \in Operations[p]
  /\ At(p, "idle")
  /\ proc' = [proc EXCEPT ![p] = [Idle EXCEPT !.op = "activate", !.at = "list",
                                              !.slots = MaxWorktrees]]
  /\ UNCHANGED <<rows, queue, disk, runner, lost, reset>>

StartActivate(p) ==
  /\ "activate" \in Operations[p]
  /\ At(p, "idle")
  /\ FreeSlots > 0
  /\ proc' = [proc EXCEPT ![p] = [Idle EXCEPT !.op = "activate", !.at = "list",
                                              !.slots = FreeSlots]]
  /\ UNCHANGED <<rows, queue, disk, runner, lost, reset>>

(* SELECT ... ORDER BY requested_at LIMIT available_slots.                 *)
ListQueue(p) ==
  /\ At(p, "list")
  /\ IF queue = <<>>
       THEN Finish(p)
       ELSE LET n == IF Len(queue) < proc[p].slots THEN Len(queue) ELSE proc[p].slots
            IN proc' = [proc EXCEPT ![p].at = "look", ![p].cur = Head(queue),
                                    ![p].list = SubSeq(queue, 2, n)]
  /\ UNCHANGED <<rows, queue, disk, runner, lost, reset>>

(* A request is served if the session is there, Pending and without        *)
(* worktree and pid; otherwise it is stale and dropped.                    *)
Look(p) ==
  /\ At(p, "look")
  /\ LET row == rows[Cur(p)]
     IN Go(p, IF row.state = "pending" /\ ~row.worktree /\ ~row.pid
                THEN "make" ELSE "drop")
  /\ UNCHANGED <<rows, queue, disk, runner, lost, reset>>

Drop(p) ==
  /\ At(p, "drop")
  /\ queue' = Dequeued(Cur(p))
  /\ NextOfPass(p, "look")
  /\ UNCHANGED <<rows, disk, runner, lost, reset>>

(* Mutation: git worktree add without -b reuses an existing branch.        *)
MakeShared(p) ==
  /\ At(p, "make")
  /\ disk' = disk \cup {Cur(p)}
  /\ Go(p, "attach")
  /\ UNCHANGED <<rows, queue, runner, lost, reset>>

(* git worktree add -b fails when the branch exists, or for reasons of its *)
(* own.                                                                    *)
Make(p) ==
  /\ At(p, "make")
  /\ \/ /\ Cur(p) \notin disk
        /\ disk' = disk \cup {Cur(p)}
        /\ Go(p, "attach")
     \/ Go(p, "failDrop") /\ UNCHANGED disk
  /\ UNCHANGED <<rows, queue, runner, lost, reset>>

(* attach_worktree; on a missing row the worktree is removed again.        *)
Attach(p) ==
  /\ At(p, "attach")
  /\ IF Exists(Cur(p))
       THEN /\ SetRow(Cur(p), [rows[Cur(p)] EXCEPT !.worktree = TRUE])
            /\ Go(p, "launch")
            /\ UNCHANGED disk
       ELSE /\ disk' = disk \ {Cur(p)}
            /\ Go(p, "failDrop")
            /\ UNCHANGED rows
  /\ UNCHANGED <<queue, runner, lost, reset>>

(* The runner is a task of the activating process; starting it cannot fail.*)
Launch(p) ==
  /\ At(p, "launch")
  /\ Spawn(Cur(p))
  /\ Go(p, "done")
  /\ UNCHANGED <<rows, queue, disk, lost, reset>>

Done(p) ==
  /\ At(p, "done")
  /\ queue' = Dequeued(Cur(p))
  /\ IF proc[p].slots = 1 \/ proc[p].list = <<>>
       THEN Finish(p)
       ELSE proc' = [proc EXCEPT ![p].at = "look", ![p].cur = Head(proc[p].list),
                                 ![p].list = Tail(@), ![p].slots = @ - 1]
  /\ UNCHANGED <<rows, disk, runner, lost, reset>>

(* Mutation: the request is dropped and the session is not failed.         *)
FailDropOnly(p) ==
  /\ At(p, "failDrop")
  /\ queue' = Dequeued(Cur(p))
  /\ NextOfPass(p, "look")
  /\ UNCHANGED <<rows, disk, runner, lost, reset>>

FailDrop(p) ==
  /\ At(p, "failDrop")
  /\ queue' = Dequeued(Cur(p))
  /\ Go(p, "failState")
  /\ UNCHANGED <<rows, disk, runner, lost, reset>>

(* update_state(Failed): when it is refused, or there is no row, the whole *)
(* pass ends with the error.                                               *)
FailState(p) ==
  /\ At(p, "failState")
  /\ IF Exists(Cur(p)) /\ CanTransition(rows[Cur(p)].state, "failed")
       THEN /\ SetRow(Cur(p), [rows[Cur(p)] EXCEPT !.state = "failed"])
            /\ NextOfPass(p, "look")
       ELSE Finish(p) /\ UNCHANGED rows
  /\ UNCHANGED <<queue, disk, runner, lost, reset>>

-----------------------------------------------------------------------------
(* STOP, CLEAN-UP and PRUNING: stop_session removes the worktree too,      *)
(* cleanup_session_worktree stops a Running session first, and             *)
(* prune_inactive_worktrees cleans up the sessions it saw inactive.        *)

StartStop(p) ==
  /\ \E s \in Session : Exists(s) /\ Begin(p, "stop", "stopPid", s)
  /\ UNCHANGED <<rows, queue, disk, runner, lost, reset>>

StartCleanup(p) ==
  /\ \E s \in Session : Exists(s) /\ Begin(p, "cleanup", "resolve", s)
  /\ UNCHANGED <<rows, queue, disk, runner, lost, reset>>

(* Mutation: failed sessions keep their worktrees.                         *)
InactiveUnlessFailed(s) ==
  rows[s].worktree /\ rows[s].state \notin {"pending", "running", "idle", "failed"}

Inactive(s) ==
  rows[s].worktree /\ rows[s].state \notin {"pending", "running", "idle"}

StartPrune(p) ==
  /\ "prune" \in Operations[p]
  /\ At(p, "idle")
  /\ \E order \in SetToSeqs({s \in Session : Inactive(s)}) :
       /\ order # <<>>
       /\ proc' = [proc EXCEPT ![p] = [Idle EXCEPT !.op = "prune", !.at = "resolve",
                                       !.cur = Head(order), !.list = Tail(order)]]
  /\ UNCHANGED <<rows, queue, disk, runner, lost, reset>>

(* cleanup_session_worktree reads the session again and decides on that.   *)
Resolve(p) ==
  /\ At(p, "resolve")
  /\ LET row == rows[Cur(p)]
         seen(step) ==
           proc' = [proc EXCEPT ![p].at = step, ![p].worktree = row.worktree]
     IN \/ ~Exists(Cur(p)) /\ Finish(p)
        \/ row.state = "running" /\ seen("stopPid")
        \/ Exists(Cur(p)) /\ row.state # "running" /\ row.worktree /\ seen("remove")
        \/ /\ Exists(Cur(p)) /\ row.state # "running" /\ ~row.worktree
           /\ NextOfPass(p, "resolve")
  /\ UNCHANGED <<rows, queue, disk, runner, lost, reset>>

StopPid(p) ==
  /\ At(p, "stopPid")
  /\ IF Exists(Cur(p))
       THEN /\ SetRow(Cur(p), [rows[Cur(p)] EXCEPT !.pid = FALSE])
            /\ Go(p, "stopState")
       ELSE Finish(p) /\ UNCHANGED rows
  /\ UNCHANGED <<queue, disk, runner, lost, reset>>

(* Every state may become Stopped.                                         *)
StopState(p) ==
  /\ At(p, "stopState")
  /\ IF Exists(Cur(p))
       THEN /\ SetRow(Cur(p), [rows[Cur(p)] EXCEPT !.state = "stopped"])
            /\ IF proc[p].worktree THEN Go(p, "remove")
               ELSE IF proc[p].op = "stop" THEN Finish(p)
               ELSE Go(p, "clear")
       ELSE Finish(p) /\ UNCHANGED rows
  /\ UNCHANGED <<queue, disk, runner, lost, reset>>

RemoveTree(p) ==
  /\ At(p, "remove")
  /\ disk' = disk \ {Cur(p)}
  /\ reset' = IF rows[Cur(p)].state = "pending" THEN reset \cup {Cur(p)} ELSE reset
  /\ Go(p, "clear")
  /\ UNCHANGED <<rows, queue, runner, lost>>

(* clear_worktree and clear_worktree_to_dir.                               *)
Clear(p) ==
  /\ At(p, "clear")
  /\ IF Exists(Cur(p))
       THEN /\ SetRow(Cur(p), [rows[Cur(p)] EXCEPT !.worktree = FALSE])
            /\ NextOfPass(p, "resolve")
       ELSE Finish(p) /\ UNCHANGED rows
  /\ UNCHANGED <<queue, disk, runner, lost, reset>>

-----------------------------------------------------------------------------
(* RESUMPTION and DELETION.                                                *)

StartResume(p) ==
  /\ \E s \in Session : /\ Exists(s) /\ rows[s].state \notin {"completed", "running"}
                        /\ Begin(p, "resume", "requeue", s)
  /\ UNCHANGED <<rows, queue, disk, runner, lost, reset>>

Requeue(p) ==
  /\ At(p, "requeue")
  /\ IF Exists(Cur(p))
       THEN /\ SetRow(Cur(p), [rows[Cur(p)] EXCEPT !.state = "pending", !.pid = FALSE])
            /\ Go(p, "respawn")
            /\ reset' = reset \cup {Cur(p)}
       ELSE Finish(p) /\ UNCHANGED <<rows, reset>>
  /\ UNCHANGED <<queue, disk, runner, lost>>

Respawn(p) ==
  /\ At(p, "respawn")
  /\ \/ Spawn(Cur(p)) /\ UNCHANGED lost
     \/ lost' = lost \cup {Cur(p)} /\ UNCHANGED runner
  /\ Finish(p)
  /\ UNCHANGED <<rows, queue, disk, reset>>

StartDelete(p) ==
  /\ \E s \in Session :
       /\ Exists(s) /\ rows[s].state \notin {"pending", "running", "idle"}
       /\ Begin(p, "delete", IF rows[s].worktree THEN "removeGone" ELSE "deleteRow", s)
  /\ UNCHANGED <<rows, queue, disk, runner, lost, reset>>

RemoveGone(p) ==
  /\ At(p, "removeGone")
  /\ disk' = disk \ {Cur(p)}
  /\ Go(p, "deleteRow")
  /\ UNCHANGED <<rows, queue, runner, lost, reset>>

(* DELETE cascades to the queue; output added meanwhile makes it fail.     *)
DeleteRow(p) ==
  /\ At(p, "deleteRow")
  /\ \/ /\ SetRow(Cur(p), [rows[Cur(p)] EXCEPT !.state = "deleted", !.pid = FALSE,
                                               !.worktree = FALSE])
        /\ queue' = Dequeued(Cur(p))
     \/ /\ \E r \in Runner : runner[r].job = Cur(p) /\ runner[r].pc = "live"
        /\ UNCHANGED <<rows, queue>>
  /\ Finish(p)
  /\ UNCHANGED <<disk, runner, lost, reset>>

-----------------------------------------------------------------------------
(* RUNNERS.                                                                *)

RunnerAt(r, step) == runner[r].pc = step
RunnerGoes(r, step) == runner' = [runner EXCEPT ![r].pc = step]
RunnerLeaves(r, step) == runner' = [runner EXCEPT ![r] = [pc |-> step, job |-> None]]

(* run_session: skip unless the row is still Pending; spawn the agent.     *)
RunnerReads(r) ==
  /\ RunnerAt(r, "starting")
  /\ IF rows[runner[r].job].state = "pending" THEN RunnerGoes(r, "launched")
                                             ELSE RunnerLeaves(r, "ended")
  /\ UNCHANGED rows

RunnerRecordsPid(r) ==
  /\ RunnerAt(r, "launched")
  /\ LET s == runner[r].job
     IN IF Exists(s)
          THEN RunnerGoes(r, "recorded") /\ SetRow(s, [rows[s] EXCEPT !.pid = TRUE])
          ELSE RunnerLeaves(r, "ended") /\ UNCHANGED rows

(* The end of a runner of session s: its outcome, or Failed if that is     *)
(* refused, or nothing if that is refused too; no pid in any case.         *)
SettleRow(s, outcome) ==
  IF Exists(s)
    THEN \E final \in {"failed", outcome, rows[s].state} :
           /\ \/ final = outcome /\ CanTransition(rows[s].state, outcome)
              \/ final = "failed" /\ ~CanTransition(rows[s].state, outcome)
                                  /\ CanTransition(rows[s].state, "failed")
              \/ final = rows[s].state /\ ~CanTransition(rows[s].state, outcome)
                                       /\ ~CanTransition(rows[s].state, "failed")
           /\ SetRow(s, [rows[s] EXCEPT !.pid = FALSE, !.state = final])
    ELSE UNCHANGED rows

RunnerEntersRunning(r) ==
  /\ RunnerAt(r, "recorded")
  /\ LET s == runner[r].job
     IN IF Exists(s) /\ CanTransition(rows[s].state, "running")
          THEN RunnerGoes(r, "live") /\ SetRow(s, [rows[s] EXCEPT !.state = "running"])
          ELSE RunnerLeaves(r, "ended") /\ SettleRow(s, "failed")

RunnerEnds(r) ==
  /\ RunnerAt(r, "live")
  /\ RunnerLeaves(r, "ended")
  /\ \E outcome \in {"completed", "failed"} : SettleRow(runner[r].job, outcome)

RunnerStep(r) ==
  /\ RunnerReads(r) \/ RunnerRecordsPid(r) \/ RunnerEntersRunning(r) \/ RunnerEnds(r)
  /\ UNCHANGED <<queue, disk, proc, lost, reset>>

-----------------------------------------------------------------------------
(* The heartbeat check finds a Running session overdue.                    *)
GoesStale(s) ==
  /\ \E p \in Process : "heartbeats" \in Operations[p]
  /\ rows[s].state = "running"
  /\ SetRow(s, [rows[s] EXCEPT !.state = "stale"])
  /\ UNCHANGED <<queue, disk, runner, proc, lost, reset>>

(* A process or a runner dies between two steps.                           *)
Crash(p) ==
  /\ Crashes
  /\ ~At(p, "idle")
  /\ Finish(p)
  /\ lost' = IF Cur(p) = None THEN lost ELSE lost \cup {Cur(p)}
  /\ UNCHANGED <<rows, queue, disk, runner, reset>>

RunnerCrash(r) ==
  /\ Crashes
  /\ runner[r].pc \in {"starting", "launched", "recorded", "live"}
  /\ RunnerLeaves(r, "dead")
  /\ lost' = lost \cup {runner[r].job}
  /\ UNCHANGED <<rows, queue, disk, proc, reset>>

Starts(p) ==
  \/ StartCreate(p) \/ StartActivate(p) \/ StartStop(p) \/ StartCleanup(p)
  \/ StartPrune(p) \/ StartResume(p) \/ StartDelete(p)

Continues(p) ==
  \/ MakeNew(p) \/ Insert(p) \/ Enqueue(p) \/ SpawnNew(p) \/ SpawnNewFails(p)
  \/ FailNew(p) \/ RemoveNew(p)
  \/ ListQueue(p) \/ Look(p) \/ Drop(p) \/ Make(p) \/ Attach(p) \/ Launch(p)
  \/ Done(p) \/ FailDrop(p) \/ FailState(p)
  \/ Resolve(p) \/ StopPid(p) \/ StopState(p) \/ RemoveTree(p) \/ Clear(p)
  \/ Requeue(p) \/ Respawn(p) \/ RemoveGone(p) \/ DeleteRow(p)

Next ==
  \/ \E p \in Process : Starts(p) \/ Continues(p) \/ Crash(p)
  \/ \E r \in Runner : RunnerStep(r) \/ RunnerCrash(r)
  \/ \E s \in Session : GoesStale(s)

Spec == Init /\ [][Next]_vars

(* Processes and runners that live go on; the loops of the daemon and the  *)
(* dashboard prune and activate again and again, and are not killed in the *)
(* middle of it for ever.                                                  *)
Fairness ==
  /\ \A r \in Runner : WF_vars(RunnerStep(r))
  /\ \A p \in Process : /\ WF_vars(Continues(p))
                        /\ SF_vars(StartActivate(p)) /\ SF_vars(StartPrune(p))
                        /\ <>[][~Crash(p)]_vars

FairSpec == Spec /\ Fairness

-----------------------------------------------------------------------------
(* PROPERTIES                                                              *)

(* The slots process p still believes it may fill.                         *)
Budget(p) ==
  CASE proc[p].op = "create" -> IF At(p, "makeNew") \/ (At(p, "insert") /\ proc[p].worktree)
                                  THEN 1 ELSE 0
    [] proc[p].op = "activate" -> IF proc[p].at \in {"launch", "done"} THEN proc[p].slots - 1
                                  ELSE proc[p].slots
    [] OTHER -> 0

Claims == {c \in Process \X (1 .. MaxWorktrees) : c[2] <= Budget(c[1])}

(* How far the limit can be exceeded.  Counting and filling are separate   *)
(* steps, so the attached worktrees can outnumber max_parallel_worktrees;  *)
(* but each process fills only what it counted free, which bounds the      *)
(* total by the limit times the number of processes (and by the limit      *)
(* itself when there is one).                                              *)
SlotsBounded ==
  Cardinality(Attached) + Cardinality(Claims) <= MaxWorktrees * Cardinality(Process)

(* Whoever will take a Pending session further: the queue, the process     *)
(* that is launching or failing it, or its runner.                         *)
Launcher(s) ==
  \/ Queued(s)
  \/ \E p \in Process : /\ Cur(p) = s
                        /\ proc[p].at \in {"enqueue", "spawnNew", "failNew", "launch",
                                           "attach", "failDrop", "failState", "respawn"}
  \/ \E r \in Runner : /\ runner[r].job = s
                       /\ runner[r].pc \in {"starting", "launched", "recorded"}

(* A session created with a worktree is never forgotten while Pending: it  *)
(* stays in the queue until somebody carries it, whatever two activators   *)
(* drop or fail.                                                           *)
QueuedIsNotForgotten ==
  \A s \in Session :
    rows[s].state = "pending" => Launcher(s) \/ s \in lost

(* Two activators never run the same session twice: the branch that git    *)
(* worktree add -b creates is the lock.  Only resume_session adds a second *)
(* runner, or a clean-up that removes that branch while the session is     *)
(* still pending (cleanup_session_worktree stops only Running ones).       *)
OneRunnerUnlessReset ==
  \A s \in Session \ reset :
    Cardinality({r \in Runner : runner[r].job = s
                    /\ runner[r].pc \in {"launched", "recorded", "live"}}) <= 1

(* The limit on worktrees.                                                 *)
AttachedWithinLimit == Cardinality(Attached) <= MaxWorktrees

(* A queued session leaves the queue, as long as nothing died on the way   *)
(* holding a slot.                                                         *)
QueueIsServed ==
  \A s \in Session :
    Queued(s) ~> ~Queued(s) \/ lost # {}
=============================================================================
