---------------------------- MODULE ContextStore ----------------------------
(* scripts/lib/context-profile-store.js and -store-fs.js: a private store of *)
(* immutable generations.  A change is written down in pending.json, its     *)
(* generation is filled in a staging directory and renamed into place, its   *)
(* receipt is added, and state.json is replaced; then pending.json goes.     *)
(* A writer holds `.lock` meanwhile.  recoverStore, which alone may take the *)
(* lock of a dead process away, finishes a change whose generation is in     *)
(* place and undoes any other.                                               *)
(*                                                                           *)
(* Each file system call that others can see is one step.  A receipt chains  *)
(* the digest of the one before, so the history of changes stands for its    *)
(* last receipt, for the state made of it and for the digest of a pending    *)
(* change; a carrier stands for its files and the selection made of it.      *)
EXTENDS Naturals, Sequences, Functions, SequencesExt

CONSTANTS
  Process,       \* processes that call the store (a pid that is remembered
                 \* in a lock is not given again)
  Carrier,       \* what can be selected
  None,          \* no lock, no pending change, no expected revision
  MaxRevision,   \* bound: a store with this many revisions gets no more
  OneRecovery    \* do callers see to it that one recovery runs at a time?

ASSUME BoundAssumption == MaxRevision \in Nat /\ OneRecovery \in BOOLEAN

VARIABLES
  root,        \* the store's directory: "missing", "bare" (without its marker
               \* store.json), "torn" (half a marker) or "owned"
  lock,        \* `.lock`: None, or the pid in it and whether it was written whole
  pending,     \* pending.json: None, or the history after the pending change
  state,       \* state.json: the history of changes (<<>>: there is none)
  stage,       \* staging directories: what is in that of a pending change
  generation,  \* what the directory of a carrier holds
  receipts,    \* the receipts written whole
  torn,        \* the receipts of which only a part was written
  proc         \* what each process remembers of the call it is in
files == <<root, lock, pending, state, stage, generation, receipts, torn>>
vars == <<files, proc>>
-----------------------------------------------------------------------------
Change == [operation : {"apply", "rollback"}, carrier : Carrier]

History == UNION {[1 .. n -> Change] : n \in 0 .. MaxRevision}

(* A directory of files: none of them, some, all, or with half a file.      *)
Contents == {"empty", "part", "full", "torn"}

LockFile == [pid : Process, whole : BOOLEAN]

Outside == {"owning", "marking", "locking", "unlinking", "taking"}
Undoing == {"clearing", "removing"}
Inside  == {"looking", "reading", "preparing", "staging", "filling", "closing",
            "publishing", "receipting", "rechecking", "committing", "dropping",
            "deciding", "releasing", "failing", "unlocking"} \cup Undoing
Label   == {"idle", "dead"} \cup Outside \cup Inside
Call    == {"apply", "rollback", "recover"}

ASSUME NoneAssumption ==
  None \notin LockFile \cup History \cup Call \cup Carrier

(* The fields of a process: its next step, its call, the carrier asked for, *)
(* options.expectedRevision, the state it read and the change it is making. *)
Memory == [at : Label, call : Call \cup {None}, carrier : Carrier \cup {None},
           expected : Nat \cup {None},
           before : History, change : History]

Forgotten(at) == [at |-> at, call |-> None, carrier |-> None, expected |-> None,
                  before |-> << >>, change |-> << >>]

FilesOK ==
  /\ root \in {"missing", "bare", "torn", "owned"}
  /\ lock \in LockFile \cup {None}
  /\ pending \in (History \ {<< >>}) \cup {None}
  /\ state \in History
  /\ DOMAIN stage \subseteq History /\ \A h \in DOMAIN stage : stage[h] \in Contents
  /\ generation \in [Carrier -> Contents \cup {"none"}]
  /\ receipts \subseteq History /\ torn \subseteq History

TypeOK == FilesOK /\ proc \in [Process -> Memory]

Init ==
  /\ root = "missing" /\ lock = None /\ pending = None /\ state = << >>
  /\ stage = << >> /\ generation = [c \in Carrier |-> "none"]
  /\ receipts = {} /\ torn = {}
  /\ proc = [p \in Process |-> Forgotten("idle")]
-----------------------------------------------------------------------------
At(p, label) == proc[p].at = label

Goto(p, label) ==
  proc' = [proc EXCEPT ![p] = IF label \in {"idle", "dead"} THEN Forgotten(label)
                              ELSE [@ EXCEPT !.at = label]]

(* An exception of a call ends it, inside the lock after `finally`, which   *)
(* gives the lock back.                                                     *)
Throw(p) == Goto(p, IF proc[p].at \in Inside THEN "releasing" ELSE "idle")

Revision(history) == Len(history)

(* The directory and its marker: ownership(root) of a caller that does not  *)
(* create.                                                                  *)
Owned == root = "owned"

(* The carrier that the last change of a history brought in, and the one    *)
(* that it replaced (previousGenerationDigest).                             *)
Current(history)  == Last(history).carrier
Previous(history) == history[Len(history) - 1].carrier

(* readState finds the receipt and the generation that the state names, or  *)
(* throws.                                                                  *)
Readable == state = << >> \/ (state \in receipts /\ generation[Current(state)] = "full")

(* options.expectedRevision as it can get past the first check: none, or    *)
(* the revision of the state as it is then.                                 *)
Expectation == {None, Revision(state)}

RevisionAny(p) == p \in Process   \* Mutation: no look at the revision inside the lock.
RevisionOK(p) == proc[p].expected \in {None, Revision(state)}

(* A staging directory that exists can be written and removed; these are    *)
(* its contents after a step.                                               *)
Staged(history, contents) ==
  stage' = [h \in DOMAIN stage \cup {history} |->
              IF h = history THEN contents ELSE stage[h]]
UnstagedNot(history) == history \in History /\ UNCHANGED stage   \* Mutation: it stays.
Unstaged(history) == stage' = Restrict(stage, DOMAIN stage \ {history})
-----------------------------------------------------------------------------
(* Calls.  applyStore looks at the state before it takes the lock, and may  *)
(* create the store; rollbackStore and recoverStore need one.               *)
Begin(p, label, call, carrier, expected) ==
  /\ At(p, "idle")
  /\ proc' = [proc EXCEPT ![p] = [@ EXCEPT !.at = label, !.call = call,
                                  !.carrier = carrier, !.expected = expected]]
  /\ UNCHANGED files

StartApply(p, carrier, expected) ==
  /\ root = "missing" \/ (Owned /\ Readable)
  /\ Begin(p, "owning", "apply", carrier, expected)

StartRollback(p, expected) == Owned /\ Begin(p, "locking", "rollback", None, expected)

StartRecover(p, expected) ==
  /\ Owned
  /\ OneRecovery => \A q \in Process : proc[q].call # "recover"
  /\ Begin(p, "locking", "recover", None, expected)

(* ownership(root, true): make the directory if it is missing ...           *)
Own(p) ==
  /\ At(p, "owning")
  /\ \/ root = "missing" /\ root' = "bare" /\ Goto(p, "marking")
     \/ Owned /\ Goto(p, "locking") /\ UNCHANGED root
     \/ root \in {"bare", "torn"} /\ Throw(p) /\ UNCHANGED root
  /\ UNCHANGED <<lock, pending, state, stage, generation, receipts, torn>>

(* ... and write its marker.                                                *)
Mark(p) ==
  /\ At(p, "marking")
  /\ root' = "owned"
  /\ Goto(p, "locking")
  /\ UNCHANGED <<lock, pending, state, stage, generation, receipts, torn>>

(* withLock: an existing lock stops the call, but a recovery goes on if the *)
(* lock can be read, its process is dead, and the lock reads the same again *)
(* (a process that is dead stays so, so the three looks are one step).      *)
RecoverableLockAny(p) == proc[p].call = "recover" /\ lock.whole   \* Mutation: the owner may live.
RecoverableLock(p) ==
  proc[p].call = "recover" /\ lock.whole /\ At(lock.pid, "dead")

SeeLock(p) ==
  /\ At(p, "locking")
  /\ \/ lock = None /\ Goto(p, "taking")
     \/ lock # None /\ RecoverableLock(p) /\ Goto(p, "unlinking")
     \/ lock # None /\ ~RecoverableLock(p) /\ Throw(p)
  /\ UNCHANGED files

(* unlinkSync removes whatever has the name by now.                         *)
UnlinkLock(p) ==
  /\ At(p, "unlinking")
  /\ lock' = None
  /\ IF lock # None THEN Goto(p, "taking") ELSE Throw(p)
  /\ UNCHANGED <<root, pending, state, stage, generation, receipts, torn>>

TakeLock(p) ==
  /\ At(p, "taking")
  /\ IF lock = None
       THEN /\ lock' = [pid |-> p, whole |-> TRUE]
            /\ Goto(p, IF proc[p].call = "recover" THEN "reading" ELSE "looking")
       ELSE Throw(p) /\ UNCHANGED lock
  /\ UNCHANGED <<root, pending, state, stage, generation, receipts, torn>>

(* The `finally` of withLock: a lock that reads as the process's own is     *)
(* removed, in another call.                                                *)
ReadOwnLock(p) ==
  /\ proc[p].at \in {"releasing", "failing"}
  /\ Goto(p, IF lock = [pid |-> p, whole |-> TRUE] THEN "unlocking" ELSE "idle")
  /\ UNCHANGED files

Unlock(p) ==
  /\ At(p, "unlocking")
  /\ lock' = None
  /\ Goto(p, "idle")
  /\ UNCHANGED <<root, pending, state, stage, generation, receipts, torn>>
-----------------------------------------------------------------------------
(* Inside the lock.  applyStore and rollbackStore refuse a store with a     *)
(* pending change ...                                                       *)
LookUnchecked(p) ==   \* Mutation: the change that is pending is overwritten.
  /\ At(p, "looking")
  /\ Goto(p, "reading")
  /\ UNCHANGED files

Look(p) ==
  /\ At(p, "looking")
  /\ IF pending = None THEN Goto(p, "reading") ELSE Throw(p)
  /\ UNCHANGED files

(* ... and every call reads the state, and checks the expected revision.    *)
(* Applying what is selected already returns.                               *)
Read(p, label, change) ==
  proc' = [proc EXCEPT ![p] = [@ EXCEPT !.at = label, !.before = state, !.change = change]]

Applied(p) ==
  Append(state, [operation |-> "apply", carrier |-> proc[p].carrier])

RolledBack == Append(state, [operation |-> "rollback", carrier |-> Previous(state)])

MayApply(p) ==
  /\ proc[p].call = "apply"
  /\ state # << >> => Current(state) # proc[p].carrier

MayRollBack(p) ==
  /\ proc[p].call = "rollback"
  /\ Revision(state) >= 2
  /\ generation[Previous(state)] = "full"
  /\ Front(state) \in receipts

ReadState(p) ==
  /\ At(p, "reading")
  /\ LET fine == Readable /\ RevisionOK(p)
         room == Revision(state) < MaxRevision
     IN  CASE fine /\ proc[p].call = "recover" -> Read(p, "deciding", << >>)
           [] fine /\ room /\ MayApply(p)      -> Read(p, "preparing", Applied(p))
           [] fine /\ room /\ MayRollBack(p)   -> Read(p, "preparing", RolledBack)
           [] OTHER -> Throw(p)
  /\ UNCHANGED files

(* transaction: write the change down.  (atomicJson looks whether the file  *)
(* is as it was and renames another over it; what comes between is lost.)   *)
PrepareBefore(p) ==   \* Mutation: the state before is written down instead of the one after.
  /\ At(p, "preparing")
  /\ pending' = proc[p].before
  /\ Goto(p, "staging")
  /\ UNCHANGED <<root, lock, state, stage, generation, receipts, torn>>

Prepare(p) ==
  /\ At(p, "preparing")
  /\ pending' = proc[p].change
  /\ Goto(p, "staging")
  /\ UNCHANGED <<root, lock, state, stage, generation, receipts, torn>>

(* publishGeneration: a generation that is in place must be whole; for any  *)
(* other a staging directory is made.                                       *)
Stage(p) ==
  /\ At(p, "staging")
  /\ LET change == proc[p].change
         there  == generation[Current(change)]
     IN  \/ there = "full" /\ Goto(p, "receipting") /\ UNCHANGED stage
         \/ there \notin {"full", "none"} /\ Throw(p) /\ UNCHANGED stage
         \/ /\ there = "none"
            /\ Goto(p, "filling")
            /\ IF change \in DOMAIN stage THEN UNCHANGED stage ELSE Staged(change, "empty")
  /\ UNCHANGED <<root, lock, pending, state, generation, receipts, torn>>

(* Files are created exclusively: first those of the payload, then          *)
(* carrier.json, whereupon the directory is verified.                       *)
Write(p, from, to, label) ==
  LET change == proc[p].change IN
  /\ IF change \in DOMAIN stage /\ stage[change] = from
       THEN Staged(change, to) /\ Goto(p, label)
       ELSE Throw(p) /\ UNCHANGED stage
  /\ UNCHANGED <<root, lock, pending, state, generation, receipts, torn>>

Fill(p)  == At(p, "filling") /\ Write(p, "empty", "part", "closing")
Close(p) == At(p, "closing") /\ Write(p, "part", "full", "publishing")

Publish(p) ==
  /\ At(p, "publishing")
  /\ LET change == proc[p].change IN
     IF change \in DOMAIN stage /\ generation[Current(change)] = "none"
       THEN /\ generation' = [generation EXCEPT ![Current(change)] = stage[change]]
            /\ Unstaged(change)
            /\ Goto(p, "receipting")
       ELSE Throw(p) /\ UNCHANGED <<stage, generation>>
  /\ UNCHANGED <<root, lock, pending, state, receipts, torn>>

(* publishReceipt: a receipt that is there must be this one.  A recovery    *)
(* then replaces the state without looking at it again.                     *)
PublishReceiptNot(p) ==   \* Mutation: a recovery leaves the receipt out.
  /\ At(p, "receipting")
  /\ receipts' = IF proc[p].call = "recover" THEN receipts ELSE receipts \cup {proc[p].change}
  /\ Goto(p, IF proc[p].call = "recover" THEN "committing" ELSE "rechecking")
  /\ UNCHANGED <<root, lock, pending, state, stage, generation, torn>>

PublishReceipt(p) ==
  /\ At(p, "receipting")
  /\ IF proc[p].change \in torn
       THEN Throw(p) /\ UNCHANGED receipts
       ELSE /\ receipts' = receipts \cup {proc[p].change}
            /\ Goto(p, IF proc[p].call = "recover" THEN "committing" ELSE "rechecking")
  /\ UNCHANGED <<root, lock, pending, state, stage, generation, torn>>

Recheck(p) ==
  /\ At(p, "rechecking")
  /\ IF /\ Readable /\ state = proc[p].before
        /\ generation[Current(proc[p].change)] = "full"
       THEN Goto(p, "committing") ELSE Throw(p)
  /\ UNCHANGED files

Commit(p) ==
  /\ At(p, "committing")
  /\ state' = proc[p].change
  /\ Goto(p, "dropping")
  /\ UNCHANGED <<root, lock, pending, stage, generation, receipts, torn>>

(* unlinkSync(pending.json): the end of a change, made or undone.           *)
Drop(p) ==
  /\ At(p, "dropping")
  /\ pending' = None
  /\ Goto(p, "releasing")
  /\ UNCHANGED <<root, lock, state, stage, generation, receipts, torn>>
-----------------------------------------------------------------------------
(* recoverStore: the state must be the one before or after the pending      *)
(* change.  A generation in place must be whole, with no staging directory  *)
(* left; then the change is finished.  Without it the change is undone.     *)
CanFinishOnce(p) ==   \* Mutation: not when the state was replaced before.
  /\ proc[p].before = Front(pending)
  /\ generation[Current(pending)] = "full" /\ pending \notin DOMAIN stage
CanFinish(p) ==
  /\ proc[p].before \in {Front(pending), pending}
  /\ generation[Current(pending)] = "full" /\ pending \notin DOMAIN stage

CanUndo(p) ==
  /\ proc[p].before = Front(pending)
  /\ generation[Current(pending)] = "none"
  /\ pending \in DOMAIN stage => stage[pending] # "torn"

Decide(p) ==
  /\ At(p, "deciding")
  /\ LET on(label) == proc' = [proc EXCEPT ![p] = [@ EXCEPT !.at = label, !.change = pending]]
     IN  CASE pending = None -> Goto(p, "releasing")
           [] pending # None /\ CanFinish(p) -> on("receipting")
           [] pending # None /\ CanUndo(p) ->
                on(IF pending \in DOMAIN stage THEN "clearing" ELSE "dropping")
           [] OTHER -> Throw(p)
  /\ UNCHANGED files

(* removeTree: the files that were verified, then the directory.            *)
ClearDirectory(p) ==
  /\ At(p, "clearing")
  /\ LET change == proc[p].change IN
     IF change \in DOMAIN stage
       THEN Staged(change, "empty") /\ Goto(p, "removing")
       ELSE Throw(p) /\ UNCHANGED stage
  /\ UNCHANGED <<root, lock, pending, state, generation, receipts, torn>>

RemoveDirectory(p) ==
  /\ At(p, "removing")
  /\ LET change == proc[p].change IN
     IF change \in DOMAIN stage /\ stage[change] = "empty"
       THEN Unstaged(change) /\ Goto(p, "dropping")
       ELSE Throw(p) /\ UNCHANGED stage
  /\ UNCHANGED <<root, lock, pending, state, generation, receipts, torn>>
-----------------------------------------------------------------------------
(* A call that writes a file may be cut off: what exclusive creation leaves *)
(* is the file, or a part of it.  (Other files are written under a private  *)
(* name and renamed.)                                                       *)
HalfWritten(p) ==
  LET change == proc[p].change IN
  \/ /\ At(p, "marking") /\ root' = "torn"
     /\ UNCHANGED <<lock, pending, state, stage, generation, receipts, torn>>
  \/ /\ At(p, "taking") /\ lock = None /\ lock' = [pid |-> p, whole |-> FALSE]
     /\ UNCHANGED <<root, pending, state, stage, generation, receipts, torn>>
  \/ /\ \/ At(p, "filling") /\ change \in DOMAIN stage /\ stage[change] = "empty"
        \/ At(p, "closing") /\ change \in DOMAIN stage /\ stage[change] = "part"
     /\ Staged(change, "torn")
     /\ UNCHANGED <<root, lock, pending, state, generation, receipts, torn>>
  \/ /\ At(p, "receipting") /\ change \notin receipts /\ torn' = torn \cup {change}
     /\ UNCHANGED <<root, lock, pending, state, stage, generation, receipts>>

(* A step fails: an I/O error, the source changed while it was copied, or   *)
(* onCheckpoint threw.  `finally` follows, unless it is what fails.         *)
Interrupt(p) ==
  /\ proc[p].at \notin {"idle", "dead"}
  /\ Goto(p, IF proc[p].at \in Inside \ {"releasing", "failing", "unlocking"}
             THEN "failing" ELSE "idle")
  /\ UNCHANGED files \/ HalfWritten(p)

(* A process ends, inside a call or between calls.                          *)
Crash(p) ==
  /\ proc[p].at # "dead"
  /\ Goto(p, "dead")
  /\ UNCHANGED files \/ HalfWritten(p)

(* A new process; its pid is not one that a lock still names.               *)
Restart(p) ==
  /\ At(p, "dead")
  /\ lock # None => lock.pid # p
  /\ Goto(p, "idle")
  /\ UNCHANGED files

Starts(p) ==
  \/ \E expected \in Expectation :
       \/ \E carrier \in Carrier : StartApply(p, carrier, expected)
       \/ StartRollback(p, expected)
       \/ StartRecover(p, expected)

Continues(p) ==
  \/ Own(p) \/ Mark(p) \/ SeeLock(p) \/ UnlinkLock(p) \/ TakeLock(p)
  \/ Look(p) \/ ReadState(p) \/ Prepare(p) \/ Stage(p) \/ Fill(p) \/ Close(p)
  \/ Publish(p) \/ PublishReceipt(p) \/ Recheck(p) \/ Commit(p) \/ Drop(p)
  \/ Decide(p) \/ ClearDirectory(p) \/ RemoveDirectory(p) \/ ReadOwnLock(p) \/ Unlock(p)

Faults(p) == Interrupt(p) \/ Crash(p)

Next == \E p \in Process : Starts(p) \/ Continues(p) \/ Faults(p) \/ Restart(p)

Spec == Init /\ [][Next]_vars

(* A process inside a call takes its next step.                             *)
FairSpec == Spec /\ \A p \in Process : WF_vars(Continues(p))
-----------------------------------------------------------------------------
(* Properties.                                                              *)

(* One process at a time is between taking the lock and giving it back, and *)
(* the lock is its (withLock).                                              *)
OneWriter ==
  \A p \in Process : proc[p].at \in Inside =>
    /\ lock = [pid |-> p, whole |-> TRUE]
    /\ \A q \in Process \ {p} : proc[q].at \notin Inside

(* Every revision of the state, not only the last, has its receipt and its  *)
(* whole generation, wherever a process ended: the store can be read and    *)
(* rolled back (transaction, publishReceipt, publishGeneration).            *)
StateIsComplete ==
  \A n \in 1 .. Revision(state) :
    /\ SubSeq(state, 1, n) \in receipts
    /\ generation[state[n].carrier] = "full"

(* When no process is inside the lock and nothing was half written, recovery *)
(* finds a pending change that it can finish or undo (recoverStore).        *)
NothingTorn ==
  /\ pending \notin torn
  /\ pending \in DOMAIN stage => stage[pending] # "torn"
  /\ lock # None => lock.whole

Recoverable ==
  Owned /\ NothingTorn /\ (\A p \in Process : proc[p].at \notin Inside) =>
    /\ Readable
    /\ pending # None =>
         LET there == generation[Current(pending)] IN
         \/ state \in {Front(pending), pending} /\ there = "full" /\ pending \notin DOMAIN stage
         \/ state = Front(pending) /\ there = "none"

(* A state made with an expected revision follows that revision, whatever   *)
(* other processes did since it was looked up (revisionCheck).              *)
ExpectedIsRespected ==
  [][\A p \in Process :
       At(p, "committing") /\ proc'[p].at = "dropping" /\ state' # state
       /\ proc[p].call # "recover" /\ proc[p].expected # None
       => Revision(state) = proc[p].expected]_vars

(* The lock of a live process is removed by nobody else (withLock).         *)
LiveLockIsKept ==
  [][lock # None /\ proc[lock.pid].at # "dead" /\ lock' # lock
     => At(lock.pid, "unlocking")]_vars

(* The store implements the journal: what is pending is the announced       *)
(* revision (transaction, recoverStore).                                    *)
J == INSTANCE Journal WITH log <- state, intent <- pending
ImplementsJournal == J!Spec

(* If from some time on no step inside the lock fails and no process ends,  *)
(* and a recovery gets the lock again and again, then no change stays       *)
(* pending for ever, unless something was half written (recoverStore).      *)
FaultAt(p) == proc'[p].at \in {"failing", "dead"} /\ proc'[p] # proc[p]

RecoveryEnds ==
  /\ <>[][~ \E p \in Process : FaultAt(p)]_vars
  /\ []<>(\E p \in Process : proc[p].call = "recover" /\ At(p, "reading"))
  => []<>(pending = None \/ ~NothingTorn)
=============================================================================
