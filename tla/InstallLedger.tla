--------------------------- MODULE InstallLedger ---------------------------
(* scripts/lib/install/apply.js, ownership-guard.js, the reconciliation of   *)
(* stale and excluded files, and the repair and uninstall of                 *)
(* install-lifecycle.js: one install root, its files, and the install state, *)
(* in which ECC records which files are its own and a digest of what it put  *)
(* there.  A call looks at a file and, in a later step, writes or unlinks    *)
(* it.  Users change files at any time; a call can fail or be killed between *)
(* any two steps.                                                            *)
(*                                                                           *)
(* The calls of one root are those of the command line: nothing serialises   *)
(* them here.  A file stands for its bytes and for their digest.  All        *)
(* operations are copies; what ECC installs at a path is named by the        *)
(* version that ships it.                                                    *)
EXTENDS Naturals, FiniteSets

CONSTANTS
  Process,         \* invocations of install, repair and uninstall
  Path,            \* destinations below the install root
  Module,          \* install modules
  ModuleOf,        \* the module that a path belongs to
  Version,         \* checkouts of ECC that commands are run from
  Ships,           \* the paths whose sources a version has
  Excludes,        \* the paths whose sources a version no longer installs
  Config,          \* configuration files that users are meant to edit
                   \* (isCodexUserConfig)
  User,            \* what users write
  None,            \* no file, no digest
  EditsUnderHash,  \* may users change a file between the moment a call wrote
                   \* or inspected it and the moment it records its digest?
  EditsUnderCheck, \* may users change a file between the moment a call checked
                   \* it and the moment it writes or unlinks it?
  RepairFails,     \* may a repair end while the install state records bytes of a
                   \* user's, which it was to replace?
  Operations       \* the operations of an instance

ASSUME PathsAssumption ==
  /\ ModuleOf \in [Path -> Module]
  /\ Ships \in [Version -> SUBSET Path] /\ Excludes \in [Version -> SUBSET Path]
  /\ Config \subseteq Path
  /\ EditsUnderHash \in BOOLEAN /\ EditsUnderCheck \in BOOLEAN /\ RepairFails \in BOOLEAN

(* What a write that failed in the middle leaves behind.                    *)
Torn == "torn"
Content == Version \cup User \cup {Torn}

ASSUME ContentAssumption ==
  None \notin Content /\ Torn \notin Version \cup User /\ Version \cap User = {}

VARIABLES
  file,       \* the bytes at each path, or None
  ledger,     \* the install state (nothing selected: there is none)
  proc,       \* what each invocation remembers
  checked,    \* the path that each invocation has checked and acts on next
  forgotten   \* history: paths that a call stopped recording on purpose
vars == <<file, ledger, proc, checked, forgotten>>
-----------------------------------------------------------------------------
(* The install state: the recorded (managed) destinations, the digest       *)
(* recorded with them, if any, and the modules of the last request.         *)
Ledger == [managed : SUBSET Path, digest : [Path -> Content \cup {None}],
           modules : SUBSET Module]
NoLedger == [managed |-> {}, digest |-> [p \in Path |-> None], modules |-> {}]

Installing == {"bridging", "writing", "finishing", "failing"}
Repairing  == {"refreshing", "repairing"}
Label == {"idle", "reconciling", "removing"} \cup Installing \cup Repairing

(* A call: its next step, its version and modules, the ledger it has read,  *)
(* the paths it plans to install, skips (an uninstall: retains), still has  *)
(* to do, and has written.                                                  *)
Call == [at : Label, version : Version \cup {None}, modules : SUBSET Module,
         previous : Ledger, plan : SUBSET Path, skipped : SUBSET Path,
         todo : SUBSET Path, written : SUBSET Path]
Idle == [at |-> "idle", version |-> None, modules |-> {}, previous |-> NoLedger,
         plan |-> {}, skipped |-> {}, todo |-> {}, written |-> {}]

Init ==
  /\ file \in [Path -> User \cup {None}]
  /\ ledger = NoLedger
  /\ proc = [q \in Process |-> Idle]
  /\ checked = [q \in Process |-> {}]
  /\ forgotten = {}

At(q, label) == proc[q].at = label
Goto(q, label) == proc' = [proc EXCEPT ![q].at = label] /\ UNCHANGED checked
End(q) == proc' = [proc EXCEPT ![q] = Idle] /\ checked' = [checked EXCEPT ![q] = {}]
-----------------------------------------------------------------------------
(* PLANNING.  What is asked of a version, and what the ledger becomes.      *)

Planned(version, modules) ==
  {p \in Ships[version] \ Excludes[version] : ModuleOf[p] \in modules}

(* Mutation: without a recorded digest nothing counts as edited.            *)
EditedIfRecorded(previous, p) ==
  p \in Config /\ file[p] # None /\ previous.digest[p] \notin {file[p], None}

(* hasEditedCodexUserConfig: the bytes are not those that were recorded, or *)
(* nothing was recorded.                                                    *)
Edited(previous, p) ==
  p \in Config /\ file[p] # None /\ file[p] # previous.digest[p]

(* prepareUserOwnedFileGuard: files that exist and are not recorded, and    *)
(* edited configuration, of earlier installs too.                           *)
Skipped(previous, plan) ==
  {p \in plan \ previous.managed : file[p] # None}
    \cup {p \in previous.managed : Edited(previous, p)}

With(l, paths) ==
  [l EXCEPT !.managed = @ \cup paths,
            !.digest = [p \in Path |-> IF p \in paths THEN None ELSE @[p]]]
Without(l, paths) ==
  [l EXCEPT !.managed = @ \ paths,
            !.digest = [p \in Path |-> IF p \in paths THEN None ELSE @[p]]]

(* createDisabledMigration: the recorded operations and over them those of  *)
(* the plan, which have no digest yet, without those that are skipped.      *)
Merged(c) ==
  [Without(With(c.previous, c.plan), c.skipped) EXCEPT !.modules = c.modules]

Applied(c) == c.plan \ c.skipped

(* prepareExcludedPathsReconciliation, prepareStaleOperationsReconciliation *)
Excluded(c) == c.previous.managed \cap Excludes[c.version]
Bridge(c) == Without(Merged(c), Excluded(c))
Stale(c) == {p \in Bridge(c).managed : ModuleOf[p] \in c.modules /\ p \notin c.plan}

(* stateWithContentDigests: what is at the paths now.                       *)
Hashed(l, paths) ==
  [l EXCEPT !.digest =
     [p \in Path |-> IF p \in paths \cap l.managed /\ file[p] # None
                       THEN file[p] ELSE @[p]]]

Final(c) == Hashed(Without(Bridge(c), Stale(c)), Applied(c))

(* preserveUnwrittenFiles, after a failure: what was not written keeps its  *)
(* record, and a file that meanwhile appeared there gets none.              *)
Checkpoint(c) ==
  LET kept == {p \in Bridge(c).managed :
                 p \in c.previous.managed \cup c.written \/ file[p] = None}
  IN  Hashed([managed |-> kept, modules |-> c.modules,
              digest |-> [p \in Path |-> IF p \in kept \ c.written
                                           THEN c.previous.digest[p] ELSE None]],
             c.written)

(* A ledger that replaces the one the call has read; the paths it leaves    *)
(* out are given up: excluded, stale, or an edited configuration.           *)
Record(c, l) ==
  /\ ledger' = l
  /\ forgotten' = forgotten \cup (c.previous.managed \ l.managed)
-----------------------------------------------------------------------------
(* INSTALL: applyInstallPlan                                                *)

StartInstall(q, version, modules) ==
  /\ "install" \in Operations
  /\ At(q, "idle")
  /\ modules # {}
  /\ LET plan == Planned(version, modules)
         skipped == Skipped(ledger, plan)
     IN  proc' = [proc EXCEPT ![q] =
                    [at |-> IF plan \subseteq skipped THEN "finishing" ELSE "bridging",
                     version |-> version, modules |-> modules, previous |-> ledger,
                     plan |-> plan, skipped |-> skipped,
                     todo |-> plan \ skipped, written |-> {}]]
  /\ UNCHANGED <<file, ledger, checked, forgotten>>

(* Mutation: nothing is recorded before the first write.                    *)
BridgeLater(q) == At(q, "bridging") /\ Goto(q, "writing") /\ UNCHANGED <<file, ledger, forgotten>>

(* Everything that will be written is recorded before the first write.      *)
WriteBridge(q) ==
  /\ At(q, "bridging")
  /\ Record(proc[q], Bridge(proc[q]))
  /\ Goto(q, "writing")
  /\ UNCHANGED file

(* assertNoNewUserOwnedFile, before each write: a file appeared where none  *)
(* was, or a configuration was edited.                                      *)
Refused(c, p) ==
  \/ p \notin c.previous.managed /\ file[p] # None
  \/ Edited(c.previous, p)

(* One path of the plan, in any order, is checked, and then written          *)
(* whatever has become of it.                                                *)
CheckFile(q, p) ==
  /\ proc[q].at \in {"writing", "repairing"}
  /\ p \in proc[q].todo /\ checked[q] = {}
  /\ ~Refused(proc[q], p)
  /\ checked' = [checked EXCEPT ![q] = {p}]
  /\ UNCHANGED <<file, ledger, proc, forgotten>>

Put(q, p, next) ==
  /\ p \in proc[q].todo /\ p \in checked[q]
  /\ p \in Ships[proc[q].version]
  /\ file' = [file EXCEPT ![p] = proc[q].version]
  /\ proc' = [proc EXCEPT ![q].todo = @ \ {p}, ![q].written = @ \cup {p},
                          ![q].at = IF proc[q].todo = {p} THEN next ELSE @]
  /\ checked' = [checked EXCEPT ![q] = {}]
  /\ forgotten' = forgotten \ {p}
  /\ UNCHANGED ledger

WriteFile(q, p) == At(q, "writing") /\ Put(q, p, "finishing")

(* A write that throws leaves the file as it was, or half of it, or (after  *)
(* copyFile) none; a refusal leaves it alone.                               *)
Spoil(q) ==
  /\ proc[q].todo # {}
  /\ \/ UNCHANGED file
     \/ \E p \in checked[q], remains \in {Torn, None} : file' = [file EXCEPT ![p] = remains]

FailWrite(q) ==
  /\ At(q, "writing")
  /\ Spoil(q)
  /\ proc' = [proc EXCEPT ![q].at = "failing", ![q].todo = {}]
  /\ checked' = [checked EXCEPT ![q] = {}]
  /\ UNCHANGED <<ledger, forgotten>>

(* Mutation: only what was written stays recorded.                          *)
CheckpointUnwritten(q) ==
  /\ At(q, "failing")
  /\ ledger' = Hashed(Without(Bridge(proc[q]), Path \ proc[q].written), proc[q].written)
  /\ End(q) /\ UNCHANGED <<file, forgotten>>

WriteCheckpoint(q) ==
  /\ At(q, "failing")
  /\ ledger' = Checkpoint(proc[q])
  /\ End(q)
  /\ UNCHANGED <<file, forgotten>>

WriteFinal(q) ==
  /\ At(q, "finishing")
  /\ Record(proc[q], Final(proc[q]))
  /\ proc' = [proc EXCEPT ![q] =
       [Idle EXCEPT !.at = "reconciling", !.previous = proc[q].previous,
                    !.todo = Stale(proc[q]) \cup Excluded(proc[q])]]
  /\ UNCHANGED <<file, checked>>

(* The state cannot be written.                                             *)
FailFinal(q) ==
  /\ At(q, "finishing")
  /\ IF Applied(proc[q]) = {} THEN End(q) ELSE Goto(q, "failing")
  /\ UNCHANGED <<file, ledger, forgotten>>

(* Mutation: a missing digest is taken for a match.                         *)
UnchangedOrUnknown(c, p) == file[p] # None /\ c.previous.digest[p] \in {file[p], None}

(* Only bytes whose digest was recorded may be removed.                     *)
Unchanged(c, p) == file[p] # None /\ file[p] = c.previous.digest[p]

(* A file is to be unlinked if it has not changed.  Otherwise, declined is  *)
(* what the call remembers.                                                 *)
Examine(q, p, declined) ==
  /\ p \in proc[q].todo /\ checked[q] = {}
  /\ IF Unchanged(proc[q], p)
       THEN checked' = [checked EXCEPT ![q] = {p}] /\ UNCHANGED proc
       ELSE proc' = [proc EXCEPT ![q] = declined] /\ UNCHANGED checked
  /\ UNCHANGED <<file, ledger, forgotten>>

(* A stale or excluded file goes, unless it changed.                        *)
Reconcile(q, p) ==
  /\ At(q, "reconciling")
  /\ Examine(q, p, [proc[q] EXCEPT !.todo = @ \ {p}])

(* What was found unchanged is unlinked, by an uninstall, too.              *)
Unlink(q, p) ==
  /\ proc[q].at \in {"reconciling", "removing"}
  /\ p \in checked[q]
  /\ file' = [file EXCEPT ![p] = None]
  /\ proc' = [proc EXCEPT ![q].todo = @ \ {p}]
  /\ checked' = [checked EXCEPT ![q] = {}]
  /\ UNCHANGED <<ledger, forgotten>>

(* Mutation: the call remembers that it is done.                            *)
EndInstallDone(q) == At(q, "reconciling") /\ Goto(q, "done") /\ UNCHANGED <<file, ledger, forgotten>>

EndInstall(q) ==
  /\ At(q, "reconciling") /\ proc[q].todo = {}
  /\ End(q)
  /\ UNCHANGED <<file, ledger, forgotten>>
-----------------------------------------------------------------------------
(* UNINSTALL: uninstallInstalledStates                                      *)

StartUninstall(q) ==
  /\ "uninstall" \in Operations
  /\ At(q, "idle") /\ ledger.modules # {}
  /\ proc' = [proc EXCEPT ![q] = [Idle EXCEPT !.at = "removing", !.previous = ledger,
                                              !.todo = ledger.managed]]
  /\ UNCHANGED <<file, ledger, checked, forgotten>>

(* retainDriftedCopy: what changed, or has no digest, stays; what is gone   *)
(* is gone.                                                                 *)
Remove(q, p) ==
  /\ At(q, "removing")
  /\ Examine(q, p, [proc[q] EXCEPT !.todo = @ \ {p},
                                   !.skipped = IF file[p] = None THEN @ ELSE @ \cup {p}])

(* The state goes if nothing was retained.                                  *)
DropLedger(q) ==
  /\ At(q, "removing") /\ proc[q].todo = {}
  /\ ledger' = IF proc[q].skipped = {} THEN NoLedger ELSE ledger
  /\ End(q)
  /\ UNCHANGED <<file, forgotten>>
-----------------------------------------------------------------------------
(* REPAIR: repairManagedRecord, for a ledger of copies.  The plan is that   *)
(* of the recorded request; what earlier requests left in the ledger is     *)
(* repaired, too.                                                           *)

Desired(c) == Merged(c).managed

(* inspectCopyFileOperation: against the source, if the operation is new or *)
(* has no digest, and else against the digest.                              *)
Healthy(c, p) ==
  /\ file[p] # None
  /\ file[p] = IF p \in c.plan \/ c.previous.digest[p] = None
                 THEN c.version ELSE c.previous.digest[p]

Broken(c) == {p \in Desired(c) : ~Healthy(c, p)}

StartRepair(q, version) ==
  /\ "repair" \in Operations
  /\ At(q, "idle") /\ ledger.modules # {}
  /\ LET plan == Planned(version, ledger.modules)
         c == [Idle EXCEPT !.version = version, !.modules = ledger.modules,
                           !.previous = ledger, !.plan = plan,
                           !.skipped = Skipped(ledger, plan)]
     IN  /\ \A p \in Desired(c) : file[p] # None => p \in Ships[version]
         /\ proc' = [proc EXCEPT ![q] =
              [c EXCEPT !.at = IF Applied(c) # {} /\ Broken(c) # {}
                                 THEN "refreshing" ELSE "repairing",
                        !.todo = Broken(c)]]
  /\ UNCHANGED <<file, ledger, checked, forgotten>>

(* writeRefreshedInstallState: the digest of whatever is at the paths; only *)
(* configuration keeps the digest it had, unless it was written.            *)
Refreshed(c) ==
  LET kept == Config \ c.written
  IN  [Merged(c) EXCEPT !.digest =
         [p \in Path |-> IF p \notin Merged(c).managed THEN None
                         ELSE IF p \in kept THEN c.previous.digest[p] ELSE file[p]]]

Refresh(q) ==
  /\ At(q, "refreshing")
  /\ Record(proc[q], Refreshed(proc[q]))
  /\ Goto(q, "repairing")
  /\ UNCHANGED file

RepairFile(q, p) == At(q, "repairing") /\ Put(q, p, "repairing")

EndRepair(q) ==
  /\ At(q, "repairing") /\ proc[q].todo = {}
  /\ Record(proc[q], Refreshed(proc[q]))
  /\ End(q)
  /\ UNCHANGED file

(* The refreshed install state names bytes of users that the repair is to   *)
(* replace; its last step records what it has put there.                    *)
Claiming(q) == At(q, "repairing") /\ \E p \in Path : ledger.digest[p] \in User

(* A write throws, or a missing file has no source any more.                *)
FailRepair(q) ==
  /\ At(q, "repairing")
  /\ Claiming(q) => RepairFails
  /\ Spoil(q)
  /\ End(q)
  /\ UNCHANGED <<ledger, forgotten>>
-----------------------------------------------------------------------------
(* The invocation is killed, or ends with an error that leaves everything   *)
(* as it is (the bridge or the checkpoint cannot be written, a file cannot  *)
(* be removed).                                                             *)
Crash(q) ==
  /\ proc[q].at # "idle"
  /\ Claiming(q) => RepairFails
  /\ End(q)
  /\ UNCHANGED <<file, ledger, forgotten>>

(* What lies between a write, or an inspection, and its digest.             *)
UnderHash(p) ==
  \E q \in Process : \/ proc[q].at \in Installing /\ p \in proc[q].written
                     \/ proc[q].at \in Repairing

UserChanges(p, bytes) ==
  /\ EditsUnderHash \/ ~UnderHash(p)
  /\ EditsUnderCheck \/ \A q \in Process : p \notin checked[q]
  /\ file' = [file EXCEPT ![p] = bytes]
  /\ UNCHANGED <<ledger, proc, checked, forgotten>>

Starts(q) ==
  \/ \E version \in Version, modules \in SUBSET Module : StartInstall(q, version, modules)
  \/ StartUninstall(q)
  \/ \E version \in Version : StartRepair(q, version)

Continues(q) ==
  \/ WriteBridge(q) \/ WriteCheckpoint(q) \/ WriteFinal(q) \/ EndInstall(q)
  \/ DropLedger(q) \/ Refresh(q) \/ EndRepair(q)
  \/ \E p \in Path : \/ CheckFile(q, p) \/ WriteFile(q, p) \/ RepairFile(q, p)
                    \/ Reconcile(q, p) \/ Remove(q, p) \/ Unlink(q, p)

Fails(q) == FailWrite(q) \/ FailFinal(q) \/ FailRepair(q) \/ Crash(q)

Next ==
  \/ \E q \in Process : Starts(q) \/ Continues(q) \/ Fails(q)
  \/ \E p \in Path, bytes \in User \cup {None} : UserChanges(p, bytes)

Spec == Init /\ [][Next]_vars

(* A running call goes on; nothing is assumed of starts, failures, users.   *)
FairSpec == Spec /\ \A q \in Process : WF_vars(Continues(q))
-----------------------------------------------------------------------------
TypeOK ==
  /\ file \in [Path -> Content \cup {None}]
  /\ ledger \in Ledger
  /\ proc \in [Process -> Call]
  /\ checked \in [Process -> SUBSET Path]
  /\ forgotten \subseteq Path

(* What a call does to the bytes at a path.                                 *)
Touches(q, p) == proc'[q] # proc[q] /\ file'[p] # file[p]

(* A user's bytes survive every call but one: an install or a repair that   *)
(* puts back a file which the install state, as the call read it, lists as  *)
(* ECC's own.  In particular an uninstall and the removal of stale and      *)
(* excluded files leave a changed file alone, whatever was interrupted      *)
(* before (retainDriftedCopy, removeUnchangedStaleFile).  Bytes that come   *)
(* after the check of the file, and before its write or removal, are lost   *)
(* all the same: the constant EditsUnderCheck keeps them out.               *)
UserBytesAreKept ==
  [][\A q \in Process, p \in Path :
       Touches(q, p) /\ file[p] \in User =>
         /\ proc[q].at \in {"writing", "repairing"}
         /\ p \in proc[q].previous.managed]_vars

(* What the user made of a configuration file before a call checked it is   *)
(* not replaced or removed by the call, although ECC installed the file and *)
(* the install state lists it (hasEditedCodexUserConfig).  EditsUnderCheck  *)
(* keeps out what the user makes of it between the check and the write.     *)
ConfigIsTheUsers ==
  [][\A q \in Process, p \in Config :
       Touches(q, p) => file[p] \notin User]_vars

(* One call at a time: ECC knows its files.  Wherever a call failed or was  *)
(* killed, every file that it or an earlier call put down in full is        *)
(* recorded, or was given up by a finished step (the bridge, the            *)
(* checkpoint).  A half-written file (Torn) is not one of them.             *)
OwnedIsRecorded ==
  \A p \in Path : file[p] \in Version => p \in ledger.managed \cup forgotten

(* A path after a complete install of a version: recorded, with the bytes   *)
(* and the digest of the version; or not recorded, because the file is the  *)
(* user's, was given up, or is what a failed write left behind.             *)
Settled(version, p) ==
  IF p \in ledger.managed
    THEN /\ p \in Planned(version, Module)
         /\ file[p] = version /\ ledger.digest[p] = version
    ELSE p \in Planned(version, Module) => file[p] \in User \cup {Torn} \/ p \in forgotten

InstallAgain(q, version) == StartInstall(q, version, Module)

(* Retries converge: when from some time on nobody interferes and one       *)
(* version is installed in full again and again, the install state and the  *)
(* files agree in the end, whatever failed before.                          *)
RetrySettles ==
  \A version \in Version :
    /\ <>[][\E q \in Process : InstallAgain(q, version) \/ Continues(q)]_vars
    /\ []<><<\E q \in Process : InstallAgain(q, version)>>_vars
    => <>[]((\A q \in Process : At(q, "idle")) => \A p \in Path : Settled(version, p))
=============================================================================
