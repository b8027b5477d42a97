---------------------------- MODULE SettingsLock ----------------------------
(* scripts/lib/install/claude-settings-lock.js: the lock file that every    *)
(* ECC process takes before it rewrites a settings file.                    *)
(*                                                                          *)
(* Acquiring publishes a finished temporary file under the lock's name with *)
(* link(), which fails if the name exists.  A contender that finds the name *)
(* taken makes the directory `.recover`, and as long as it has it it may    *)
(* look at the lock, ask whether the process named in it lives, rename the  *)
(* lock away if not, check by inode number that what it renamed is what it  *)
(* looked at, and publish its own.  Each file system call and the kill(0)   *)
(* is one step; every other process may run between two of them.            *)

CONSTANTS
  Proc,            \* processes that use the lock (a process id is not reused)
  Inode,           \* inode numbers of the directory's file system
  None,            \* no process, no file
  DiesUnderProbe,  \* may a process end while a contender that has read its
                   \* name in the lock has not yet asked whether it lives?
  LeaseLapses      \* may a lock be five minutes old when it is inspected?

ASSUME FlagsAssumption == DiesUnderProbe \in BOOLEAN /\ LeaseLapses \in BOOLEAN

VARIABLES
  lock,    \* the file that the lock's name refers to, or None
  guard,   \* the process that made the directory `.recover`, or None
  pc,      \* the position of each process
  mine,    \* the file that each process created, while it matters
  seen,    \* the file that each process inspected in recovery
  moved    \* the file that each process renamed away
vars == <<lock, guard, pc, mine, seen, moved>>
-----------------------------------------------------------------------------
(* A lock file: its inode number, and the pid written in it before it is    *)
(* published.  Its contents never change.                                   *)
File == [ino : Inode, pid : Proc]

(* What inspectSettingsLock returns: pid is None when the name no longer    *)
(* led to the opened file (metadata: null).                                 *)
Inspection == [ino : Inode, pid : Proc \cup {None}]

ASSUME NoneAssumption == None \notin Proc \cup File \cup Inspection

Guarded == {"opening", "lstat", "probing", "quarantining", "comparing",
            "restoring", "renamingBack", "recreating", "relinking",
            "relinked", "unguarding"}

LockPC == {"idle", "creating", "linking", "linked", "contending", "waiting",
           "holding", "verifying", "returning", "puttingBack", "exited"}
          \cup Guarded

Exited(p) == pc[p] = "exited"

(* The inode numbers in use: a link, a temporary name or an open descriptor *)
(* keeps a file's number; the number of any other file can be given again.  *)
(* (Files that a failure leaves behind under a private name keep theirs too, *)
(* but are not recorded: the model only has more behaviours.)               *)
InUse ==
  {f.ino : f \in {lock} \ {None}}
  \cup {moved[p].ino : p \in {q \in Proc : moved[q] # None}}
  \cup {mine[p].ino : p \in {q \in Proc : pc[q] \in {"linking", "linked", "relinking", "relinked"}}}
  \cup {seen[p].ino : p \in {q \in Proc : pc[q] = "lstat"}}

Init ==
  /\ lock = None /\ guard = None
  /\ pc = [p \in Proc |-> "idle"]
  /\ mine = [p \in Proc |-> None]
  /\ seen = [p \in Proc |-> None]
  /\ moved = [p \in Proc |-> None]
-----------------------------------------------------------------------------
Goto(p, from, to) == pc[p] = from /\ pc' = [pc EXCEPT ![p] = to]

fileVars == <<lock, mine, seen, moved>>

(* acquireSettingsLock is called.                                           *)
Begin(p) ==
  /\ Goto(p, "idle", "creating")
  /\ UNCHANGED <<guard, fileVars>>

(* createSettingsLock writes and closes its temporary file.                 *)
WriteTemp(p) ==
  /\ \/ Goto(p, "creating", "linking")
     \/ Goto(p, "recreating", "relinking")
  /\ \E ino \in Inode \ InUse : mine' = [mine EXCEPT ![p] = [ino |-> ino, pid |-> p]]
  /\ UNCHANGED <<lock, guard, seen, moved>>

(* linkSync, and the removal of the temporary file when the name exists:    *)
(* the first attempt goes on to recovery, one made under the guard has its  *)
(* EEXIST thrown through the finally block.                                 *)
Link(p) ==
  /\ \/ /\ Goto(p, "linking", "linked") \/ Goto(p, "relinking", "relinked")
        /\ lock = None /\ lock' = mine[p]
        /\ UNCHANGED mine
     \/ /\ Goto(p, "linking", "contending") \/ Goto(p, "relinking", "unguarding")
        /\ lock # None /\ UNCHANGED lock
        /\ mine' = [mine EXCEPT ![p] = None]
  /\ UNCHANGED <<guard, seen, moved>>

(* The temporary name goes, after publication; the callback begins.         *)
RemoveTemp(p) ==
  /\ Goto(p, "linked", "holding")
  /\ UNCHANGED <<guard, fileVars>>
-----------------------------------------------------------------------------
(* Mutation: a guard that exists is taken for one's own.                    *)
MakeGuardAlways(p) ==
  /\ Goto(p, "contending", "opening")
  /\ guard' = p
  /\ UNCHANGED fileVars

(* mkdirSync of the guard; EEXIST makes recoverSettingsLock return null.    *)
MakeGuard(p) ==
  /\ IF guard = None
     THEN Goto(p, "contending", "opening") /\ guard' = p
     ELSE Goto(p, "contending", "waiting") /\ UNCHANGED guard
  /\ UNCHANGED fileVars

(* Mutation: it is not noticed that there is nothing to open.               *)
OpenLockUnchecked(p) ==
  /\ Goto(p, "opening", "lstat") /\ seen' = [seen EXCEPT ![p] = lock]
  /\ UNCHANGED <<lock, guard, mine, moved>>

(* inspectSettingsLock opens the lock; ENOENT makes the contender create.   *)
OpenLock(p) ==
  /\ IF lock = None
     THEN Goto(p, "opening", "recreating") /\ UNCHANGED seen
     ELSE Goto(p, "opening", "lstat") /\ seen' = [seen EXCEPT ![p] = lock]
  /\ UNCHANGED <<lock, guard, mine, moved>>

(* lstatSync of the name, compared with the opened file; then its contents  *)
(* are read, unless the two differ.                                         *)
LstatLock(p) ==
  /\ IF lock = None
     THEN Goto(p, "lstat", "recreating") /\ seen' = [seen EXCEPT ![p] = None]
     ELSE /\ Goto(p, "lstat", "probing")
          /\ IF lock.ino = seen[p].ino
             THEN UNCHANGED seen
             ELSE seen' = [seen EXCEPT ![p].pid = None]
  /\ UNCHANGED <<lock, guard, mine, moved>>

(* Mutation: whoever is named in the lock is taken for dead.                *)
ProbeOwnerDead(p) ==
  /\ Goto(p, "probing", IF seen[p].pid = None THEN "unguarding" ELSE "quarantining")
  /\ UNCHANGED <<guard, fileVars>>

(* Mutation: every error of kill counts as life (no test for ESRCH).        *)
ProbeOwnerAlive(p) ==
  /\ Goto(p, "probing", IF seen[p].pid = None THEN "quarantining" ELSE "unguarding")
  /\ UNCHANGED <<guard, fileVars>>

(* Is the inspected lock stale?  By kill(pid, 0), or, if nothing was read,  *)
(* by the five minutes since the opened file was written.                   *)
ProbeOwner(p) ==
  /\ \/ /\ Goto(p, "probing", "quarantining")
        /\ IF seen[p].pid = None THEN LeaseLapses ELSE Exited(seen[p].pid)
        /\ UNCHANGED seen
     \/ /\ Goto(p, "probing", "unguarding")
        /\ IF seen[p].pid = None THEN TRUE ELSE ~Exited(seen[p].pid)
        /\ seen' = [seen EXCEPT ![p] = None]
  /\ UNCHANGED <<lock, guard, mine, moved>>

(* renameSync of the lock to `.stale-...`; ENOENT ends the recovery.        *)
Quarantine(p) ==
  /\ IF lock = None
     THEN /\ Goto(p, "quarantining", "unguarding")
          /\ seen' = [seen EXCEPT ![p] = None]
          /\ UNCHANGED <<lock, moved>>
     ELSE /\ Goto(p, "quarantining", "comparing")
          /\ moved' = [moved EXCEPT ![p] = lock] /\ lock' = None
          /\ UNCHANGED seen
  /\ UNCHANGED <<guard, mine>>

(* The renamed file is the inspected one by its inode number: it is removed *)
(* and the contender creates its own; else it is put back if the name is    *)
(* free.                                                                    *)
Compare(p) ==
  /\ \/ /\ Goto(p, "comparing", "recreating")
        /\ moved[p].ino = seen[p].ino
        /\ moved' = [moved EXCEPT ![p] = None]
     \/ /\ Goto(p, "comparing", "restoring")
        /\ moved[p].ino # seen[p].ino
        /\ UNCHANGED moved
  /\ seen' = [seen EXCEPT ![p] = None]
  /\ UNCHANGED <<lock, guard, mine>>

(* existsSync of the lock before the renamed file is put back.              *)
CheckVacant(p) ==
  /\ Goto(p, "restoring", IF lock = None THEN "renamingBack" ELSE "unguarding")
  /\ UNCHANGED <<guard, fileVars>>

(* renameSync back: it replaces whatever the name refers to by now.         *)
RenameBack(p) ==
  /\ Goto(p, "renamingBack", "unguarding")
  /\ lock' = moved[p] /\ moved' = [moved EXCEPT ![p] = None]
  /\ UNCHANGED <<guard, mine, seen>>

(* Mutation: the guard is removed when a lock was created, not in a finally.*)
RemoveGuardOnSuccess(p) ==
  /\ \/ Goto(p, "relinked", "holding") /\ guard' = None
     \/ Goto(p, "unguarding", "waiting") /\ UNCHANGED guard
  /\ moved' = [moved EXCEPT ![p] = None]
  /\ UNCHANGED <<lock, mine, seen>>

(* The finally block removes the guard and what was renamed away and not    *)
(* put back; the caller returns the lock it created, or looks at the clock. *)
RemoveGuard(p) ==
  /\ Goto(p, "relinked", "holding") \/ Goto(p, "unguarding", "waiting")
  /\ guard' = None
  /\ moved' = [moved EXCEPT ![p] = None]
  /\ UNCHANGED <<lock, mine, seen>>

(* The deadline has passed, or the contender slept and tries again.         *)
Wait(p) ==
  /\ Goto(p, "waiting", "idle") \/ Goto(p, "waiting", "creating")
  /\ UNCHANGED <<guard, fileVars>>
-----------------------------------------------------------------------------
(* The callback is over: release renames the lock to `.release-...`; it     *)
(* throws ENOENT if there is none.                                          *)
Release(p) ==
  /\ IF lock = None
     THEN /\ Goto(p, "holding", "idle")
          /\ mine' = [mine EXCEPT ![p] = None]
          /\ UNCHANGED <<lock, moved>>
     ELSE /\ Goto(p, "holding", "verifying")
          /\ moved' = [moved EXCEPT ![p] = lock] /\ lock' = None
          /\ UNCHANGED mine
  /\ UNCHANGED <<guard, seen>>

(* What was renamed is this process's own file: it is removed.  If not, the *)
(* release fails, after putting the file back if the name is free.          *)
Verify(p) ==
  /\ \/ /\ Goto(p, "verifying", "idle")
        /\ moved[p].ino = mine[p].ino
        /\ moved' = [moved EXCEPT ![p] = None]
     \/ /\ Goto(p, "verifying", "returning")
        /\ moved[p].ino # mine[p].ino
        /\ UNCHANGED moved
  /\ mine' = [mine EXCEPT ![p] = None]
  /\ UNCHANGED <<lock, guard, seen>>

(* existsSync; the renamed file stays where it is if the name is taken.     *)
CheckReturn(p) ==
  /\ \/ /\ Goto(p, "returning", "puttingBack")
        /\ lock = None
        /\ UNCHANGED moved
     \/ /\ Goto(p, "returning", "idle")
        /\ lock # None
        /\ moved' = [moved EXCEPT ![p] = None]
  /\ UNCHANGED <<lock, guard, mine, seen>>

PutBack(p) ==
  /\ Goto(p, "puttingBack", "idle")
  /\ lock' = moved[p] /\ moved' = [moved EXCEPT ![p] = None]
  /\ UNCHANGED <<guard, mine, seen>>

(* A process ends: by itself between two uses, or killed at any point.  Its *)
(* lock and its guard stay, and so does the file under a private name.      *)
Exit(p) ==
  /\ ~Exited(p)
  /\ DiesUnderProbe \/ \A q \in Proc : pc[q] = "probing" => seen[q].pid # p
  /\ pc' = [pc EXCEPT ![p] = "exited"]
  /\ mine' = [mine EXCEPT ![p] = None]
  /\ seen' = [seen EXCEPT ![p] = None]
  /\ moved' = [moved EXCEPT ![p] = None]
  /\ UNCHANGED <<lock, guard>>
-----------------------------------------------------------------------------
Acquires(p) == WriteTemp(p) \/ Link(p) \/ RemoveTemp(p) \/ Wait(p)

Recovers(p) ==
  \/ MakeGuard(p) \/ OpenLock(p) \/ LstatLock(p) \/ ProbeOwner(p)
  \/ Quarantine(p) \/ Compare(p) \/ CheckVacant(p) \/ RenameBack(p)
  \/ RemoveGuard(p)

Releases(p) == Release(p) \/ Verify(p) \/ CheckReturn(p) \/ PutBack(p)

(* A running process goes on: the calls do not block, and the callback of   *)
(* runWithSettingsLock is a synchronous function that returns.              *)
Proceed(p) == Acquires(p) \/ Recovers(p) \/ Releases(p)

Next == \E p \in Proc : Begin(p) \/ Proceed(p) \/ Exit(p)

Spec == Init /\ [][Next]_vars
FairSpec == Spec /\ \A p \in Proc : WF_vars(Proceed(p))
-----------------------------------------------------------------------------
FileVarsTyped ==
  /\ lock \in File \cup {None}
  /\ mine \in [Proc -> File \cup {None}]
  /\ seen \in [Proc -> Inspection \cup {None}]
  /\ moved \in [Proc -> File \cup {None}]

(* Every variable has its type, and files are there when they are used.     *)
TypeOK ==
  /\ FileVarsTyped
  /\ guard \in Proc \cup {None}
  /\ pc \in [Proc -> LockPC]
  /\ \A p \in Proc :
       /\ pc[p] \in {"linking", "linked", "relinking", "relinked", "holding", "verifying"}
            => mine[p] \in File /\ mine[p].pid = p
       /\ pc[p] = "lstat" => seen[p] \in File
       /\ pc[p] \in {"probing", "quarantining", "comparing"} => seen[p] # None
       /\ pc[p] \in {"comparing", "restoring", "renamingBack", "verifying",
                     "returning", "puttingBack"} => moved[p] # None

(* The facts that make the lock exclusive when                              *)
Calm == ~DiesUnderProbe /\ ~LeaseLapses

(* A process that has published its lock and not yet released it has it,    *)
(* and what it renames to release it is its own.                            *)
OwnerHasLock ==
  \A p \in Proc : /\ pc[p] \in {"linked", "relinked", "holding"} => lock = mine[p]
                  /\ pc[p] = "verifying" => moved[p] = mine[p]

OneRecoverer == \A p \in Proc : pc[p] \in Guarded => guard = p

(* From the moment a contender reads the name of a dead process in the      *)
(* lock, the lock is that file until the contender itself renames it.       *)
StaleIsLock ==
  \A p \in Proc :
    /\ pc[p] = "probing" /\ seen[p].pid # None /\ Exited(seen[p].pid) => lock = seen[p]
    /\ pc[p] = "quarantining" => seen[p].pid # None /\ Exited(seen[p].pid) /\ lock = seen[p]
    /\ pc[p] = "comparing" => moved[p] = seen[p]

NothingIsPutBack ==
  \A p \in Proc : pc[p] \notin {"restoring", "renamingBack", "returning", "puttingBack"}

(* Files that exist at the same time differ in their inode numbers.         *)
Live(f) ==
  \/ f = lock
  \/ \E p \in Proc : f = moved[p]
  \/ \E p \in Proc : pc[p] \in {"linking", "linked", "relinking", "relinked"} /\ f = mine[p]
  \/ \E p \in Proc : pc[p] = "lstat" /\ f = seen[p]

InodesDiffer ==
  \A f, g \in File : Live(f) /\ Live(g) /\ f.ino = g.ino => f = g

Inv ==
  /\ TypeOK /\ OwnerHasLock /\ OneRecoverer /\ StaleIsLock
  /\ NothingIsPutBack /\ InodesDiffer

(* Acquire gives exclusive access to the settings file: no two processes    *)
(* run their callbacks at the same time.                                    *)
MutualExclusion ==
  \A p, q \in Proc : pc[p] = "holding" /\ pc[q] = "holding" => p = q

(* The lock implements the abstract one: nobody but its owner takes a live  *)
(* owner's lock away, a release always succeeds, and what recovery takes is *)
(* the lock of a process that has ended.                                    *)
Abstract == INSTANCE Mutex WITH
  owner  <- IF lock = None THEN None ELSE lock.pid,
  inside <- {p \in Proc : pc[p] = "holding"},
  gone   <- {p \in Proc : Exited(p)}

ImplementsMutex == Abstract!Spec

Abandoned == lock # None /\ Exited(lock.pid)

(* If processes keep asking for the lock, one that its owner abandoned goes *)
(* (acquireSettingsLock's recovery), unless a process ended during recovery *)
(* and left the guard, which no contender removes.                          *)
RecoveredOnDemand ==
  ([]<>(\E p \in Proc : pc[p] = "contending"))
    => (Abandoned ~> (~Abandoned \/ (guard # None /\ Exited(guard))))
=============================================================================
