# Verification of the ECC control plane

TLA+ models, TLC runs and TLAPS proofs of the parts of everything-claude-code (ECC) that
run as several processes on shared state. Most of the repository is prose (skills, agents,
rules, commands); the programs are `ecc2/`, a Rust control plane that runs coding agents as
sessions in git worktrees, and `scripts/`, JavaScript tools for installing, configuring and
observing them.

## 1. The system

### The control plane (`ecc2/src`)

There is no server. Every command (`ecc start`, `stop`, `resume`, `delete`, ...), the terminal
dashboard, the daemon and one `run-session` process per session open the same SQLite file. A
process takes decisions on rows it read earlier; nothing but single statements is atomic
(no explicit transactions around the operations below; `busy_timeout` is 5 s).

| Part | State | Operations | Interacts with |
|---|---|---|---|
| session store (`session/store.rs`, `session/mod.rs`) | table `sessions` (state, pid, worktree, heartbeat), and tables for messages, the worktree queue, schedules, remote requests, daemon activity, harness candidates | `insert_session`, `update_state` (checked SELECT, then UPDATE), `update_state_and_pid` (unchecked), `update_pid`, `touch_heartbeat`, `delete_session`, ... | every other part |
| session runner (`session/runtime.rs`, `run_session`) | its position; the agent process | spawn the agent, record pid and Running, heartbeat, capture output, reap, record the outcome; on any error pid NULL and Failed | its row, its agent |
| session operations (`session/manager.rs`) | a snapshot per call | create, stop, budget and conflict pauses, heartbeat check, resume, delete | rows, agents (signals), runners (spawn), worktrees |
| daemon (`session/daemon.rs`) | loop position; `daemon_activity` row | crash recovery at start; then for ever: heartbeats, schedules, remote requests, backlog, auto-merge, prune, activation | all operations |
| dashboard (`tui/dashboard.rs`) | view state | the same periodic passes, plus what the operator asks for | all operations |
| worktree slots and queue (`manager.rs`, `worktree/mod.rs`) | worktree columns, `pending_worktree_queue`, git worktrees and branches | count, create, attach, queue, activate, clean up, prune | sessions, git |
| backlog (`manager.rs`, `comms/mod.rs`) | unread handoff messages, delegates | send, drain, assign, rebalance, auto-dispatch | sessions, messages |
| merge queue (`manager.rs`, `worktree/mod.rs`) | branches, bases | readiness, merge, rebase, prune | git |
| schedules, remote dispatch | due times, request status | run due, claim and run requests | session creation |
| conflict detection | incidents | open, pause, notify | sessions, messages |
| harness evaluation (`harness_eval.rs`) | active candidate, audits | record, evaluate, promote | store |

### The JavaScript tools (`scripts/`)

Each is a short-lived Node process started by a user or by a hook of a coding assistant; they
meet on files.

| Part | State | Operations | Interacts with |
|---|---|---|---|
| settings lock (`lib/install/claude-settings-lock.js`) | a lock file, a guard directory, private files next to them | acquire (publish by `link`), wait, recover the lock of a dead process, release (rename, compare, remove) | every tool that rewrites a settings file, session aliases, OpenCode installs (several locks in order) |
| context profile store (`lib/context-profile-store.js`) | `state.json`, `pending.json`, receipts, immutable generations, `.lock` | apply, rollback, recover, preview, status | carriers (`lib/context-carriers.js`) |
| state store (`lib/state-store/`) | a database file copied in and out under a lock | migrate, upsert, query | installer, session tools |
| installer (`lib/install/`, `lib/install-lifecycle.js`) | managed files, install state | plan, apply, repair, uninstall | settings lock |
| memory vault, GitHub coordination, control pane, plan canvas, agent proximity, tmux orchestrator | files, issues, in-memory views | see `PROJECT.json` | - |
| hooks (`hooks/*.js`) | small state files | classify one tool call | assistants |

### What makes each part correct, and what makes it hard

* **Sessions.** A row says what its processes do: Running has a runner that will write an
  outcome, Pending has somebody who launches it, the pid is that of an agent whose runner still
  minds it, Completed means that an agent succeeded. Hard because a row has several writers (two
  runners after a resume, the daemon, the dashboard, commands), a transition is checked on a
  SELECT and written by a later UPDATE, passes work on lists read earlier and stop at their first
  error, and any process can die between two statements.
* **Worktree slots.** At most `max_parallel_worktrees` worktrees, nothing queued is forgotten,
  nothing is started twice. Hard because slots are counted in one statement and taken in another,
  by two loops (daemon, dashboard) and by commands.
* **Settings lock.** One callback at a time; a lock whose owner died does not stay. Hard because a
  lock can only be inspected, judged and removed in separate file system calls, and because inode
  numbers and lock names are reused.
* **Backlog.** A task handed over is done by somebody, once; saturation ends. Hard: message
  delivery, assignment and the read mark are separate statements.
* **Context store.** The store is always some revision completely; recovery finishes or undoes.
  Hard: a crash between any two writes, and two recoveries.
* **Merge queue, schedules, remote dispatch.** Each due thing once; a merge is judged on the base
  it is merged into. Hard: decisions on lists that age while they are worked off.
* **Harness evaluation.** At most one active candidate, and only one that passed. Sequential over
  the store, so mostly testable.

## 2. The modules

| Module | Models | Extends / uses |
|---|---|---|
| `SessionStore` | the `sessions` row, the state machine of `SessionState::can_transition_to`, and what each statement does to a row | - |
| `SessionLifecycle` | runners, agents and the manager operations of controllers over that table | `SessionStore` |
| `SessionLifecycleProofs` | TLAPS proofs about it | `SessionLifecycle` |
| `WorktreeSlots` | creation with a worktree, the activation queue, clean-up, pruning, and the git side | `SessionStore` |
| `WorktreeSlotsProofs` | TLAPS proofs about it | `WorktreeSlots` |
| `Mutex` | the abstract lock | - |
| `SettingsLock` | the lock file, link by link and rename by rename; implements `Mutex` | `Mutex` (refinement) |
| `SettingsLockProofs` | TLAPS proofs about it | `SettingsLock` |
| `Journal` | the abstract store: revisions that are announced, then made or forgotten | - |
| `ContextStore` | apply, rollback and recover over the files of the context profile store, write by write; implements `Journal` | `Journal` (refinement) |
| `ContextStoreProofs` | TLAPS proofs about it | `ContextStore` |
| `InstallLedger` | install, repair and uninstall: files, the install state, failures, users' edits | - |
| `InstallLedgerProofs` | TLAPS proofs about it | `InstallLedger` |
| `Backlog` | handoff inboxes, delegates, and the daemon's dispatch and rebalance passes | - |
| `BacklogProofs` | TLAPS proofs about it | `Backlog` |
| `MergeQueue` | building and working off the merge queue over git, with everyone else at work | - |
| `MergeQueueProofs` | TLAPS proofs about it | `MergeQueue` |
| `MCSessionLifecycle`, `MCWorktreeSlots`, `MCSettingsLock`, `MCContextStore`, `MCInstallLedger`, `MCBacklog`, `MCMergeQueue` | the instances of the runs (values of constants; symmetry, where it is used) | their module |

An operation whose comment starts with "Mutation:" is a plausible bug that takes the place of the
operation after it in one extra run per property: the property must then fail. It is no part of
any specification.

### 2.1 SessionStore and SessionLifecycle

`sessions[s]` is the row: its state, its pid (a runner stands for the pid of the agent it
spawned), and whether its heartbeat is overdue. `insert_session`, `update_pid`, `update_state`,
`update_state_and_pid`, `touch_heartbeat` and `delete_session` are row functions; an UPDATE of a
missing row is an error of its caller, as in the code.

A **runner** `r` is one `run-session` process: `pc[r]` is its next statement in
`capture_command_output`, `job[r]` its session, `agent[r]` its child.
`ReadSession` (skip unless Pending), `SpawnAgent`, `RecordPid`, `SelectRunning`/`WriteRunning`
(`update_state` is two statements), `FirstBeat`, `Heartbeat` (an output line or the 30 s timer),
`ReapAgent`, `ClearPid`, `SelectFinal`/`WriteFinal`, and on any error
`AbortClearPid`, `AbortSelect`/`AbortWrite`. A statement fails on a missing row, and for the runners
in `Refusable` on any row: the database writer may have no connection (`StateStore::open` failed), and
any statement may be refused (busy for too long, an I/O error). The error path ignores its own errors,
so a live runner can end and leave its pid in the row, or the row Pending or Running. The histories
`pidKept` and `stateKept` (the runners to which that happened) are what the properties excuse, and
nothing else. A controller's operation ends at its first error; `CtlCrash` stands for that, too.
`gaveUp` is a runner that ends before its error path exists (the store cannot be read, the agent has
no program).

A **controller** `c` is any process that runs manager operations. `op[c]`, `at[c]` and `cur[c]`
say which and where; `todo[c]` and `pids[c]` are the list it read when it began, which it never
refreshes. Modelled: creation (`CreateSession`, `SpawnRunner`, `SpawnRunnerFails`), stop and the
budget and conflict pauses (`StartStop`, `StopKills`, `StopClearsPid`, `CtlSelects`,
`CtlWrites`), the heartbeat check (`StartHeartbeats`, `MarkStale`, `TerminateStale`, `FailRow`),
crash recovery at daemon start (`StartRecover`, `ProbePid`), resume (`StartResume`, `Requeue`)
and delete (`StartDelete`, `DeleteRow`). `RunnerCrash` and `CtlCrash` may come between any two
steps. The constant `Operations` says which operations each controller is asked for; all of them
occur in some run.

### 2.2 WorktreeSlots

`rows` has state, pid (set or not) and the worktree column; `queue` is
`pending_worktree_queue`; `disk` says which sessions have a worktree and a branch in git;
`proc[p]` is what one process remembers of the operation it is in: the list it read, the slots it
counted, the row as it read it. `build_session_record`, insertion, enqueueing, spawning and their
error paths; `activate_pending_worktree_sessions_with` statement by statement (`StartActivate`
counts, `ListQueue`, then per request `Look`, `Drop`, `Make`, `Attach`, `Launch`, `Done`,
or `FailDrop` and `FailState`); `cleanup_session_worktree`, `prune_inactive_worktrees`,
`stop_session` with clean-up, `resume_session`, `delete_session`. `git worktree add` fails if the
branch exists, which is what keeps two activators from running one session twice. Runners are
coarser here than in `SessionLifecycle`: their row's pid, Running, and the end. A runner that the
database refuses its statements, and that ends without having written its row, is one that died
there (`RunnerCrash`): its session is in `lost`.

The queue's key is the session, so a DELETE takes away at most one request (`Queued`, `Dequeued`).
`Operations` says of each process what it is asked for. Two histories serve the properties: `lost`
(sessions with which a process or a runner died) and `reset` (sessions that were resumed, or whose
branch a clean-up removed while they were Pending: from then on a second runner is no accident of
two activators).

### 2.3 SettingsLock and Mutex

`lock` is the file the lock's name refers to (its inode number and the pid in it), `guard` the
process that made `.ecc.lock.recover`; `mine`, `seen` and `moved` are the files each process
created, inspected and renamed away; `pc` is the next file system call. Inode numbers that no
name and no descriptor keeps can be given to new files. A process may end, or be killed, at any
step; its lock and its guard stay. Two constants name what can go wrong around recovery:
`DiesUnderProbe` (an owner ends after its pid was read and before `kill(pid, 0)`) and
`LeaseLapses` (a lock is inspected more than five minutes after it was written, at the moment its
name changes hands). `Mutex` is what a user of `runWithSettingsLock` relies on: an owner, the
processes inside their callbacks, and the processes that are gone; only its owner gives a lock
back, and only the lock of a process that is gone lapses. Not distinguished: a temporary name
left by a kill after publication, and private files left by failed releases.

### 2.4 ContextStore and Journal

The variables are the files: `root` (the directory and its marker `store.json`), `lock`,
`pending` (`pending.json`), `state` (`state.json`), `stage` (staging directories), `generation`,
`receipts`, and `torn` (receipts of which only a part was written). A receipt chains the digest of
its predecessor, so a history of changes stands for its last receipt, for the state made of it and
for the digest of the change; a carrier stands for its files and the selection made of it, and a
generation is named by it. `proc[p]` is what one process remembers of the call it is in.

Each file system call that others can see is a step: `Own`, `Mark`, `SeeLock`, `UnlinkLock`,
`TakeLock`, `Look`, `ReadState`, `Prepare`, `Stage`, `Fill`, `Close`, `Publish`,
`PublishReceipt`, `Recheck`, `Commit`, `Drop`, and for `recoverStore` `Decide`, `ClearDirectory`,
`RemoveDirectory`; then the `finally` of `withLock`, `ReadOwnLock` and `Unlock`. Three reads are
merged where nothing in between can matter: the looks at a dead process's lock (a dead process
stays dead, and what happens to the name afterwards is seen by `UnlinkLock`), the files read by
`readState`, and the files of a payload (one file "in part", then `carrier.json`).
`atomicJson` compares the file with what it was and renames over it; only the rename counts.

`Crash` ends a process anywhere and `Interrupt` makes a step throw; both may leave half a file
where the code creates files exclusively (marker, lock, staged files, receipts), not where it
renames. `src/docs/design/context-profile-delivery.md:119` says of partial writes that they are
kept for inspection, so `Recoverable` and `RecoveryEnds` speak of stores without any
(`NothingTorn`). A process that failed inside the lock goes through `finally` (label `failing`).
`OneRecovery` says whether callers see to it that recoveries do not overlap. `Journal` is what a
user of the store relies on: a log to which whole, announced revisions are added.

### 2.5 InstallLedger

`file` is what is at each destination below one install root, `ledger` the install state (managed
paths, the digest recorded with each, the modules last asked for), `proc[q]` what one invocation
remembers, above all the ledger it read at its start; `forgotten` is a history of paths given up on
purpose. A file stands for its bytes and for their digest, and what ECC installs at a path is named
by the version that ships it.

*Install* (`applyInstallPlan`): `StartInstall` plans and decides what to skip, `WriteBridge`
records everything that will be written before the first write, `CheckFile` looks again whether a
file of a user's has appeared at one path, or a configuration was edited, and `WriteFile` then writes
that path whatever has become of it; `FailWrite` and `WriteCheckpoint` are a write
that throws and the checkpoint after it, `WriteFinal` and `FailFinal` the final state with digests,
`Reconcile` (compare the digest), `Unlink` and `EndInstall` the removal of stale and excluded files.
*Uninstall*: `StartUninstall`, per path `Remove` (compare the digest) and `Unlink`, `DropLedger`.
*Repair*: `StartRepair`, `Refresh` (the bridge that records the digest of whatever is there),
`CheckFile` and `RepairFile`, `EndRepair`, `FailRepair`. `checked[q]` is the path that a call has
checked and writes or unlinks next: the code does that in a later call (`apply.js` checks in line 870
and copies in 973; `retainDriftedCopy` and `uninstallRemovePath`), and other processes and users may
come in between. `Crash` ends a call anywhere, `UserChanges` changes any file.

Nothing in the code serialises calls of one root. Three constants name what goes wrong between looking
at a file and acting on it: `EditsUnderCheck` (a user changes a file between a call's check of it and
the write or removal), `EditsUnderHash` (between the write or inspection of it and the recording of
its digest) and `RepairFails` (a repair ends while the refreshed state names bytes of a user's). All operations are copies; merges into JSON files, hook settings, OpenCode activation and
legacy migrations are left out.

### 2.6 Backlog

`state` are the sessions, `intake` the handoffs that came from outside (sender, recipient, read
mark), `notices` the assignment messages that nobody has read, `team` who was ever handed a task by
whom (which is how the code finds delegates), `activity` the `daemon_activity` row, `daemon` where
the daemon is in `coordinate_backlog_cycle_with`, and `fate` a history of each handoff.

`StartCycle` chooses from the row which pass comes first; `OpenInbox` takes the batch of one lead
(`drain_inbox`), `OpenTeam`, `OpenDelegate` and `CheckMessage` those of a rebalance; `ReuseIdle`,
`Spawn`, `ReuseActive` and `Defer` are the outcomes of
`assign_session_in_dir_with_runner_program`, `Notify` its handoff message, `Mark` the read mark. A
delegate that is spawned has the task from its launch on, before the notice (`announcing`); any other
has it with the notice. Cut short after either and before the mark (`HalfAssigned`), the handoff is
still unread, and the next cycle assigns it again;
`EndDispatch`, `EndRebalance` and `RecordRecovery` write the row. `Abort` kills the daemon, or lets a
statement fail, anywhere. In between, sessions idle, go on and end (`Works`), handoffs arrive
(`Submit`), and the dashboard marks the messages of the session it shows (`Select`).

Abstractions: all handoffs have one priority; messages that are no handoffs are left out; the limit
of 50 rows in `delegated_children` is not reached; the score by which a delegate fits a task is a
nondeterministic choice among those it is computed for; one daemon, and nobody dispatches besides
it. Idle is a state that the state machine admits and no production code sets, and it is kept
because the code decides by it. Ids are bounded: an ended session's id may be given again, and a
state that would need one more is named (`OutOfIds`). `StaleCapacity` says whether the world may
change between a rebalance's check for room and the assignment that relies on it.

### 2.7 MergeQueue

A branch is the set of changes committed on it, and `Clash` says which pairs of changes touch the
same lines; two branches conflict if each has a change the other lacks and the two clash. `active`
and `attached` are the rows, `dir` and `refs` the worktrees and branches of git, `edits` what is
uncommitted, `base` and `root` the base branch and its checkout. `merger[m]` is what one merging
process remembers: the rows it listed, its ready and its conflicting entries, and on which heads of
the base it has tried to rebase.

`StartPass`, `Judge` (row by row) and `JudgeNone` are `build_merge_queue`; `Inspect` is the row read
again with the checks of `merge_into_base`, `Merge` is `git merge`, `Remove` and `DeleteBranch` are
`worktree::remove`, `Clear` is `clear_worktree`; `EndMerging` builds the queue anew if anything was
merged; `TryRebase`, `Rebase` and `FailRebase` are the rebases of entries that conflict with the base.
`StartOne` is an operator who merges one session. A command of git that only reads is one step with
the check it serves, each one that writes is a step, and `Crash` may come between any two. The world
goes on: agents edit and commit (`Edit`, `Commit`), sessions end and are resumed, somebody commits
to the base (`Land`), a merge that conflicts is given up by hand (`Resolve`), and worktrees are
thrown away (`Discard`, whose steps are those of `WorktreeSlots`).

Three histories serve the properties: `made` (all changes), `waived` (changes made in a worktree
after a merge had looked for uncommitted ones, and changes thrown away), `quiet` (the mergers that
were alone since they began to build their queue). Abstractions: all worktrees have the same base
branch, and its checkout is busy only with a merge that conflicts; rows are judged in any order,
of which the code's is one; a completed session is an ended one that happens not to be resumed.

## 3. The runs

| Run | Question and result | Bounds |
|---|---|---|
| `lifecycle_race` | Two runners of one row, the daemon (crash recovery, auto-terminating heartbeat check) and the dashboard (create, stop and pause, resume, delete), every process killable and any statement of a runner refusable: no Running row without a runner that has yet to settle it, or could not (`RunningHasCustodian`), no Pending row without a launcher unless its launch was lost (`PendingHasLauncher`), the pid is minded (`PidIsMinded`), Completed is earned (`CompletedIsEarned`) | 1 session, 2 runners, 2 controllers; 2.8 million states |
| `lifecycle_live` | Running settles (`RunningSettles`) and Pending is picked up or its launch is lost (`PendingIsPickedUp`), with creation, resume and crash recovery in between, kills, and refused statements of one runner | 1 session, 2 runners, 1 controller; 0.34 million |
| `slots_race` | How far two processes can exceed the limit (`SlotsBounded`), nothing Pending is forgotten (`QueuedIsNotForgotten`), and at most one live runner per session unless it was resumed, or cleaned up while Pending (`OneRunnerUnlessReset`). The daemon creates and activates, the dashboard creates, activates, stops, resumes and cleans up | 2 sessions, 2 processes, 2 runners, 1 slot; 2.7 million |
| `slots_alone` | With one process at a time the limit is exact (`AttachedWithinLimit`), nothing is forgotten (`QueuedIsNotForgotten`), and with pruning the queue is served (`QueueIsServed`); creation, activation, stops, deletion, sessions going Stale, and crashes | 2 sessions, 1 process, 2 runners, 1 slot; 0.22 million |
| `lock_excludes` | Without an end inside a probe: mutual exclusion, `ImplementsMutex`, and a dead owner's lock goes if processes keep asking (`RecoveredOnDemand`) | 3 processes, 4 inode numbers |
| `lock_recovers` | `RecoveredOnDemand` with everything allowed | 2 processes, 3 inode numbers |
| `store_recovers` | With one recovery at a time: one writer (`OneWriter`), every revision complete (`StateIsComplete`), what is left behind can be recovered (`Recoverable`), the lock of a live process stays (`LiveLockIsKept`), an expected revision is respected (`ExpectedIsRespected`), the store is a journal (`ImplementsJournal`) and recovery ends (`RecoveryEnds`) | 2 processes, 2 carriers, 3 revisions |
| `install_keeps` | A user's bytes survive every call but one that puts back a file recorded as ECC's (`UserBytesAreKept`), an edited configuration survives all (`ConfigIsTheUsers`), what ECC put down in full stays recorded wherever a call failed (`OwnedIsRecorded`), and retrying converges (`RetrySettles`) | 1 process, 2 paths, 3 versions, 1 user content, no edits between check and write or write and digest; 180 thousand |
| `repair_claims` | *violated*: a repair that fails leaves a user's bytes recorded as ECC's, and the next uninstall removes them (`UserBytesAreKept`) | the same, repairs may fail |
| `backlog_settles` | No handoff is lost (`NoTaskIsLost`) or assigned twice, unless the daemon was cut short after a session had it (`AssignedOnce`); left alone, the daemon works the backlog off or ends in the cool-off (`BacklogSettles`) | 1 lead, 2 workers, 2 handoffs, 2 delegates per lead, batches of 2; 0.35 million |
| `backlog_stuck` | *violated*: a backlog that delegates could absorb is worked off or escalated (`StuckIsEscalated`) | 1 lead, 1 worker, 3 handoffs, 1 delegate per lead, batches of 3 |
| `merges_are_safe` | No work is lost (`WorkIsKept`); each entry of a queue can be merged when its turn comes if nobody else interferes (`QueueIsSound`), and no session waits for one that is not going to be merged (`QueueIsComplete`) | 2 sessions, daemon and operator, 2 clashing changes; 3.1 million |

**Why the bounds are enough.** Every race above is between the processes that touch one row or
one lock: two runners of one session are what one resume gives, two controllers are a reader and
a writer of the same decision, and a third adds no new pair. In the lifecycle one session has all
writers of a row; a pass over several sessions adds its stale list and its end at the first error,
which with one session occur as a row that changed, or went, after it was listed. (The proofs of
section 4 hold for any number.) In the slots, two sessions compete for one slot, so every second one
waits. The number of runners bounds how often sessions are launched (`SpawnRunner` needs an unused
one): two let every session be launched and one be resumed. Three processes are the owner, the
recoverer and the newcomer of the lock; at most three files exist when a fourth is created, so
four inode numbers never block, and both reuse and fresh numbers occur. The store's
log would grow for ever, so `MaxRevision` stops it at three: the second revision is the first that
can be rolled back, the third is made by that rollback or by applying a carrier a second time, for
which a generation is already in place. Two processes are a writer (or what it left) and a recovery.

The installer's two paths are a configuration file and a plain one, each in its own module, and its
versions are one that ships both, one that has dropped the plain file (it is stale) and one that
excludes it. One process suffices for what failures and kills do: a call that follows finds what
they left. Two handoffs let a batch end after its first message and let one be deferred behind the
other, and two workers are what a rebalance moves between; `backlog_stuck` needs the third handoff,
one that is absorbed and two that saturate. Two worktrees with two clashing changes give each kind
of pair in a queue: an entry, one that is blocked by it, one that conflicts with the base and is
rebased; the daemon and an operator merge at the same time.

There is no other cap: row states, lists and program counters are finite by themselves.

**Deadlock** is not checked: all of these systems may stop (every session deleted, every process
ended).

### Fairness

* A live runner, and a controller inside an operation, take their next step (weak fairness of
  `RunnerStep`, `CtlContinues`, `Continues`, `Proceed`): they are ordinary processes whose calls
  return; a lock's callback is a synchronous function.
* An agent ends (`AgentExit`) and a session without a beating runner lapses (`Lapse`, the clock):
  weak fairness.
* The daemon and the dashboard run the heartbeat check, pruning and activation for ever between
  whatever else is done: strong fairness of `StartHeartbeats`, `StartPrune` and `StartActivate`
  (other operations keep interrupting, so they are not continuously enabled), and from some point
  on the loop is not killed in the middle of a pass any more (`<>[][~CtlCrash(c)]_vars`).
* Nothing is assumed of crashes, launches, operators' requests, or of a process starting to use
  the lock: `RecoveredOnDemand` has "some process contends again and again" as its premise. Its
  conclusion excuses a recoverer killed inside recovery, whose guard nobody removes, as the
  comment of `acquireSettingsLock` says.
* Installs, repairs and uninstalls that run go on (weak fairness of `Continues`). `RetrySettles` has
  as its premise that from some time on nothing fails and nobody edits, and one version is installed
  again and again.
* The daemon's cycle goes on (weak fairness of `Cycle`, which restarts itself); nothing is assumed of
  sessions, arrivals or the dashboard. `BacklogSettles` is about a daemon that is from some time on
  left alone (`LeftAlone`): there the conditions of the passes on each other must not keep it from a
  handoff.
* `MergeQueue` has no fairness, and no liveness is claimed of it.
* A process inside a call of the store takes its next step (weak fairness of `Continues`).
  `RecoveryEnds` has as its premise that from some time on no step inside the lock fails and no
  process ends, and that a recovery gets the lock again and again.

### Findings

Each violation run is a behaviour of the code against what a test, comment or message of the
repository says; `PROJECT.json` quotes the line.

1. `repair_claims`: a repair writes the install state with the digest of whatever is at each path
   before it repairs anything. If it then fails or is killed, bytes that a user put there are
   recorded as ECC's, and the next uninstall removes them, although "uninstall preserves drifted
   canonical copied files". Shared configuration files are spared: their digests are kept.
2. `backlog_stuck`: only a dispatch advances the streak of saturated passes, and the cool-off skips
   the dispatch. After one pass that deferred two handoffs, with nothing to rebalance, the streak
   stays at one: neither is capacity that comes back used for the backlog, nor is the operator
   called, whose threshold is five.

What the constants keep out of the passing runs, because the code allows it; set the other way, each
gives a violation:

* `DiesUnderProbe`: the pid is read from a lock before it is probed. An owner that releases and exits
  in between, with a third process acquiring, makes the recoverer rename a live lock away; if the
  inode number was given again it even passes the identity check.
* `OneRecovery` (FALSE, with three processes): `recoverStore` checks the lock of a dead process and
  then unlinks whatever has its name; the slower of two recoveries removes the lock of the faster.
* `StaleCapacity`: a rebalance marks a message read after an assignment that was deferred because the
  capacity it had found was gone; the handoff is then in nobody's inbox (`NoTaskIsLost`).
* `EditsUnderHash`: the digest recorded after a write is that of what is then there, a user's bytes
  included.
* `EditsUnderCheck`: what a user makes of a file after it was checked, and before it is written or
  unlinked, is lost. TLC refutes `UserBytesAreKept` and `ConfigIsTheUsers` in six steps (plan, bridge,
  check, edit, write); `OwnedIsRecorded` holds all the same. The comment in `apply.js` (line 862) says
  of its path checks that such a race remains; the file checks have it, too.

And what the properties bound rather than refute:

* Slots are counted before they are taken, so concurrent creations exceed `max_parallel_worktrees`
  (`SlotsBounded` says by how much). Of two activators of one request the loser's `git worktree add`
  fails, whereupon it writes Failed over the row of the session that the winner started.
* `cleanup_session_worktree` stops only sessions that are Running (`manager.rs`, line 1764). On one
  that is Pending it removes the worktree and the branch that an activation has just made; a second
  activator, which listed the request before, can then make them again, and two runners run the
  session. `OneRunnerUnlessReset` excuses this.
* A resumed session that is queued as well is not served in every order: with resumes among the
  operations of `slots_alone`, TLC refutes `QueueIsServed`. The run leaves them out.
* `stop_session` kills the pid of the row; between the spawn and `update_pid` there is none, and the
  agent outlives its runner (`manager.rs`, line 3612). `resume_session` checks the state it read and
  then writes Pending unchecked; a Completed written in between is lost and the task runs again (line
  1549). `CompletedIsEarned` and `PendingHasLauncher` hold nevertheless.
* The auto-terminating heartbeat check writes Failed over the outcome of a runner that has ended since
  the list was read (line 834), and crash recovery at daemon start fails a session whose runner is just
  between clearing the pid and writing Completed (`daemon.rs`, line 76). Both happen in
  `lifecycle_race`; no property says that outcomes stay, since in the code they do not.
* A runner whose last statements are refused ends like any other and leaves its row Running, Pending or
  with a pid (`runtime.rs`, lines 222-225). The heartbeat check settles a Running one
  (`RunningSettles`, with refusals); nobody looks at a Pending one (`LaunchLost`), and a kept pid may be
  signalled by a later stop.
* A handoff is assigned again if the daemon is cut short between the launch of a new delegate, or the
  notice to an existing one, and the read mark (`manager.rs`, lines 1624, 1637 and 960).
* What is edited in a worktree after a merge has looked for uncommitted changes goes with the worktree
  (`waived`). A `git merge` that meets a conflict is not aborted, so the root stays in the middle of
  it and no further merge starts until somebody resolves it. One row whose worktree directory is gone
  makes `build_merge_queue` fail for all sessions until it is pruned. With a retention of 0 the prune
  after each merge pass removes worktrees that were not merged.

## 4. The proofs

TLC says nothing beyond its bounds; these theorems hold for every set of sessions, runners and
controllers, of processes, inode numbers, paths, versions, handoffs and changes.

**`SessionLifecycleProofs`.** None of the four safety properties is inductive alone. `Inv` is
their conjunction with `TypeOK` and five facts about positions: a runner that is not unused has a
session (`JobKnown`), a controller inside a step has one (`CurKnown`), a runner that has not
spawned has no agent (`NoAgentYet`), a missing row has no pid (`NoPidWhenMissing`), and a runner in
one of the histories of refused statements is in use (`NoRecordYet`), so that a new launch is never
excused by an old one. The proof goes by kinds of step, not by actions: `RunnerMoveKeepsInv` (a runner moves and writes its row),
`RunnerTurnKeepsInv` (moves only), and their counterparts for controllers state what a step must
respect, and each action is shown to be of one of these kinds. `InvAlways` is `Spec => []Inv`;
`TypeCorrect`, `RunningIsMinded`, `PendingIsLaunched`, `RecordedPidIsMinded` and
`CompletedIsDeserved` are the five properties, the middle three with the refused statements as their only excuse besides
those in §2.1. Assumptions: `None` is no runner, `Refusable` is a set of runners (any, from none to all).

**`WorktreeSlotsProofs`.** For any sessions and runners and any finite number of processes, crashes
included. `Typed` adds to `TypeOK` which step belongs to which operation, which session and how many
counted slots it has there, and that only existing rows have worktrees. The bound on slots is inductive with
it: each process claims the slots that it counted and has not yet filled (`Claims`), and the attached
worktrees together with all claims never exceed the limit times the number of processes
(`SlotsStayBounded`). A step that counts claims at most what is free, and a step that attaches gives up
a claim; the lemmas about cardinalities say so once for every action. For one process this is the
limit itself (`AloneWithinLimit`); for two it is not, and TLC refutes it. `Known` says that whatever an
operation, the queue or a runner names has been inserted, except by its one creator;
`AllRemembered` that a Pending session is queued or being queued, or in the hands of a process or a
runner, or was lost with one, and that a request is dropped only when the session is in such hands
(`PendingIsNotForgotten`); and `OneRunner` that, unless it was reset, a session that has not run yet
has at most one of: an activation between `git worktree add` and the launch, a creation that is about
to launch it, a runner, and then its branch exists (`OneRunnerEach`). It is the branch in git, not the
queue, that this proof turns on. `SlotsTyped` is the types. Assumptions: `None` is no session,
`Process` is finite.

**`SettingsLockProofs`.** Types (`LockTyped`) and the guard (`GuardExcludes`: one process at a time is
between making it and removing it) are inductive by themselves, whoever ends and whatever lapses; the
type invariant includes that a file is there whenever a step uses it. Under `Calm` (no end inside a probe, no lapsed lease) the invariant is:
an owner has its file (`OwnerHasLock`), whoever is in recovery has the guard (`OneRecoverer`), a
lock whose owner is found dead stays the inspected file until its finder renames it
(`StaleIsLock`), so nothing is ever put back (`NothingIsPutBack`); and existing files differ in
their inode numbers (`InodesDiffer`), without which "same number" would not mean "same file".
`InvHolds`, `Exclusive` (mutual exclusion) and `LockIsMutex` (every step is a step of `Mutex` or
a stutter) follow. Neither half of `Calm` can be dropped: TLC finds a violation of
mutual exclusion without either.

**`ContextStoreProofs`.** First without an assumption on recoveries: `Chained` says of each process that
the revisions which its change is made of are complete, and what it has checked since of the last one
(`Sound`). No step takes away a receipt or a whole generation (`Grows`), so both survive whatever other
processes do, even when two recoveries take the lock from each other and two processes write at once.
`StateStaysComplete` and `Types` follow: of concurrent recoveries one can take away what another call
has announced (TLC refutes `OneWriter` and `ImplementsJournal` then), but every state that is made is
whole. The rest is under `OneRecovery`. The files alone do not explain why the store is always
whole; `Inv` adds what each process knows at each step. `LockKnown`: whoever is about to unlink a lock
has found it dead, and it still is; whoever is inside has the lock. `RecoversAlone` makes the first
of these stable, and it is the only place that needs one recovery at a time. `KnowsState`: a call
between its preparation and its commit still has the state it read, its change is the pending one,
and the pending one extends the state. `KnowsFiles`: what is in the staging directory and in place at
each step. `GenerationsAreWhole`, `StageIsPending` and `PendingFits` are what remains of this when
the process dies. `Alone` (nobody else is inside) and the lemmas about kinds of steps (`SoleStep`,
`InsideStep`, `OutsideStep`, `StageStep`, `LeaveStep`, `LockChanges`) leave each action with what it
writes. `OneWriterAlways` and `AlwaysRecoverable` follow, and the action properties `ExpectedStaysRespected`, `LiveLockStays` and `StoreImplementsJournal`, for any
number of processes, carriers and revisions (`MaxRevision` is any number). Assumptions: `None` is
neither a history, a lock, a call nor a carrier.

**`InstallLedgerProofs`.** Four invariants. `Safe`: no recorded digest, in the ledger or as a call read
it, is that of a user's bytes (`DigestsAreOurs`, `CallIsSafe`), and what a call in progress has
written is not the user's again (`WrittenIsOurs`); where repairs run, this holds of configuration
files only, which is what `Ours` says. It needs `~EditsUnderHash`. `Cleared`: a user's bytes at a path
that a call has checked are those it looked at, so that what passed the check still passes it; it needs
`~EditsUnderCheck`, and a step touches only what its call has checked (`WhatIsTouched`). Together they
give `ConfigStays`, for all operations and any number of concurrent calls, and `UserBytesStay` where no
repair runs (with one, `repair_claims` is the counterexample). `Recorded`: `Knows` says for each step of a call that what it
has written or will find is in the ledger it has written or is about to; it gives `OwnedStaysRecorded`
for one call at a time (`Alone`: two installs of one root overwrite each other's ledger), whatever
users do and repairs leave. `Accounted` extends the first claim to repairs that are carried through
(`~RepairFails`), one call at a time: a digest in the ledger may be that of a user's bytes, but only
while a repair is in progress that still has to put the path right, and then the path is managed
(with `Cleared`: `UserBytesStayThroughRepairs`). `TypeCorrect` needs no assumption but those on the constants.

**`BacklogProofs`.** `Typed` adds to the types which fields are set at which step. `Once` says that of
the handoffs in hand only the one being marked has been given away, and all others that were given
are read; a rebalance that leaves a handoff with its holder found it read by somebody else meanwhile.
`AssignedJustOnce` follows, without assumption: what excuses a second assignment is in the property
itself (`fate` is `interrupted` if the daemon was cut short after the launch or the notice). `Kept` adds that a rebalance which has found room still has it when it chooses, so that
it never defers: `NoneIsLost`, under `~StaleCapacity`, which is exactly what that needs.

**`MergeQueueProofs`.** `Inv` is `TypeOK`, "a worktree has its branch", `WorkIsKept`, and for each merger
`Knows`: what it may still throw away has been merged or is waived (`Covered`); and while it is alone,
the rows still to be judged are as they were listed (`ListFits`), the entries can be merged and
conflict neither with each other nor with the one at hand (`EntriesFit`), and whatever can be merged is
yet to be judged, an entry, or in conflict with one (`AllListed`). Why it is enough that entries were
compared in pairs is the lemma `MergedBase`: a branch that conflicts neither with the base nor with the
branch merged into it does not conflict with the result. The proof goes by kinds of step (a merger only
looks, it moves on, the world happens). `TypesHold`, `NothingIsLost`, `QueuesAreSound` and
`QueuesAreComplete` are the four properties, for any number of sessions, mergers and changes and any
`Clash`.

**Only model-checked:** the liveness properties (`RunningSettles`, `PendingIsPickedUp`,
`QueueIsServed`, `RecoveredOnDemand`, `RecoveryEnds`, `BacklogSettles`, `RetrySettles`), as fairness
and ENABLED are outside the proof system. Every other property of a passing run is stated by a
theorem; where it has an assumption, section 3 says what TLC finds without it. `OwnedIsRecorded` holds with `EditsUnderHash`,
`EditsUnderCheck` and `RepairFails` TRUE, too, and the proof covers that; `RetrySettles` was checked
without them. `lifecycle_live` lets the statements of one of its two runners be refused, as its state
space with both is beyond the time of a run; the invariants of `lifecycle_race` are checked, and proved,
with any.

## 5. The plan

In this order, each with its runs; the number of runs and of states is near what is practical, so that
a new module takes the place of a question already settled by a theorem.

1. **Schedules and remote dispatch** (`manager.rs` from line 116, and from line 488): due once, claimed once, over crashes and
   two daemons. A due schedule is dispatched before its next run is recorded, and a request is claimed
   before it is run, so one can happen twice and the other not at all.
2. **OpenCode locks in order** (composition of several `SettingsLock`s) and the state store's lock,
   which is never taken from a dead process.
3. **Merge passes end** (liveness of `MergeQueue`), under the condition that the base comes to rest.

## 6. What is not modelled

* *No shared state, or no decision that depends on an interleaving*: rendering and key handling
  (`tui/`), argument parsing (`main.rs`), configuration parsing, risk scoring, notifications, metrics,
  the text analysis of hooks, agent proximity, the control pane and plan canvas (they render state that
  others write), the tmux orchestrator (a plan run top to bottom).
* *Left for the plan above*: schedules and remote dispatch, the OpenCode wrapper around several locks,
  the lock of the JavaScript state store.
* *Sequential over one store, so better tested*: harness evaluation, conflict incidents, memory vault.
* *A foreign system decides*: GitHub coordination claims issues through the API, whose atomicity the
  repository does not state.
* *Within the modelled parts*: the output buffer, boards and metrics tables are written but not read by
  the operations modelled. Git is modelled by what the code asks of it. A stop with clean-up leaves
  `working_dir` at the removed directory, which a later resume uses; directories' contents are outside
  the model. If the root's branch is switched between the check and the merge, the merge goes into the
  branch that is then checked out; the model has one base branch. Process ids are not reused by the
  operating system in any module. The installer's JSON merges, hook settings and migrations, the context
  store's checks of paths, modes, owners and digests against tampering, and dispatch from the command
  line besides the daemon are left out.
* The skills, commands, agents and rules are prose, by far most of the repository's files; the hooks and
  dashboards that follow in size are text analysis and rendering. That is why the models cover a small
  share of its lines: they cover the parts whose correctness depends on the order of steps.
