------------------------ MODULE InstallLedgerProofs ------------------------
(* Proofs about InstallLedger, for any number of processes (the last two    *)
(* theorems: for one), paths, modules, versions and contents.               *)
EXTENDS InstallLedger, TLAPS

USE DEF Content

(* The operators on ledgers yield ledgers.                                  *)
LEMMA LedgerOps ==
  ASSUME NEW l \in Ledger, NEW S \in SUBSET Path, TypeOK
  PROVE  With(l, S) \in Ledger /\ Without(l, S) \in Ledger /\ Hashed(l, S) \in Ledger
  BY DEF With, Without, Hashed, Ledger, TypeOK

LEMMA NoLedgerType == NoLedger \in Ledger
  BY DEF NoLedger, Ledger

LEMMA IdleType == Idle \in Call
  BY NoLedgerType DEF Idle, Call, Label

(* What a call is made of.                                                  *)
LEMMA CallParts ==
  ASSUME NEW c \in Call
  PROVE  /\ c.at \in Label /\ c.version \in Version \cup {None}
         /\ c.modules \in SUBSET Module /\ c.previous \in Ledger
         /\ c.plan \in SUBSET Path /\ c.skipped \in SUBSET Path
         /\ c.todo \in SUBSET Path /\ c.written \in SUBSET Path
         /\ c.previous.managed \in SUBSET Path /\ c.previous.modules \in SUBSET Module
         /\ c.previous.digest \in [Path -> Content \cup {None}]
  BY DEF Call, Ledger

(* The bridge and the checkpoint, the final and the refreshed state of a    *)
(* call are ledgers.                                                        *)
LEMMA MergedType ==
  ASSUME NEW c \in Call, TypeOK
  PROVE  /\ Merged(c) \in Ledger
         /\ Merged(c).managed = (c.previous.managed \cup c.plan) \ c.skipped
         /\ Merged(c).modules = c.modules
  BY CallParts DEF Merged, With, Without, Ledger

LEMMA BridgeType ==
  ASSUME NEW c \in Call, TypeOK
  PROVE  /\ Bridge(c) \in Ledger
         /\ Bridge(c).managed = Merged(c).managed \ Excluded(c)
         /\ Excluded(c) \in SUBSET Path /\ Stale(c) \in SUBSET Path
<1>1. Excluded(c) \in SUBSET Path
  BY CallParts DEF Excluded
<1>2. Bridge(c) \in Ledger
  BY <1>1, MergedType, LedgerOps DEF Bridge
<1>3. Stale(c) \in SUBSET Path
  BY <1>2 DEF Stale, Ledger
<1>4. Bridge(c).managed = Merged(c).managed \ Excluded(c)
  BY MergedType DEF Bridge, Without, Ledger
<1> QED BY <1>1, <1>2, <1>3, <1>4

LEMMA FinalType ==
  ASSUME NEW c \in Call, TypeOK
  PROVE  Final(c) \in Ledger /\ Final(c).managed = Bridge(c).managed \ Stale(c)
<1>1. Without(Bridge(c), Stale(c)) \in Ledger
  BY BridgeType, LedgerOps
<1>2. Without(Bridge(c), Stale(c)).managed = Bridge(c).managed \ Stale(c)
  BY BridgeType DEF Without, Ledger
<1>3. Applied(c) \in SUBSET Path
  BY CallParts DEF Applied
<1>4. Final(c) \in Ledger
  BY <1>1, <1>3, LedgerOps DEF Final
<1>5. Final(c).managed = Without(Bridge(c), Stale(c)).managed
  BY <1>1 DEF Final, Hashed, Ledger
<1> QED BY <1>2, <1>4, <1>5

LEMMA CheckpointType ==
  ASSUME NEW c \in Call, TypeOK
  PROVE  /\ Checkpoint(c) \in Ledger
         /\ Checkpoint(c).managed =
              {p \in Bridge(c).managed : p \in c.previous.managed \cup c.written \/ file[p] = None}
<1> DEFINE kept == {p \in Bridge(c).managed :
                      p \in c.previous.managed \cup c.written \/ file[p] = None}
           bare == [managed |-> kept, modules |-> c.modules,
                    digest |-> [p \in Path |-> IF p \in kept \ c.written
                                                 THEN c.previous.digest[p] ELSE None]]
<1>1. kept \in SUBSET Path
  BY BridgeType DEF Ledger
<1>2. bare \in Ledger
  BY <1>1, CallParts DEF Ledger
<1>3. Checkpoint(c) = Hashed(bare, c.written)
  BY DEF Checkpoint
<1>4. Hashed(bare, c.written).managed = bare.managed
  BY <1>2 DEF Hashed, Ledger
<1> QED BY <1>2, <1>3, <1>4, CallParts, LedgerOps

LEMMA RefreshedType ==
  ASSUME NEW c \in Call, TypeOK
  PROVE  Refreshed(c) \in Ledger /\ Refreshed(c).managed = Merged(c).managed
  BY MergedType, CallParts DEF Refreshed, Ledger, TypeOK

LEMMA PlannedType ==
  ASSUME NEW version \in Version, NEW modules \in SUBSET Module
  PROVE  Planned(version, modules) \in SUBSET Path
  BY PathsAssumption DEF Planned

LEMMA SkippedType ==
  ASSUME NEW l \in Ledger, NEW plan \in SUBSET Path
  PROVE  Skipped(l, plan) \in SUBSET Path
  BY DEF Skipped, Ledger
-----------------------------------------------------------------------------
(* TYPES                                                                    *)

LEMMA GotoType ==
  ASSUME TypeOK, NEW q \in Process, NEW l \in Label, Goto(q, l)
  PROVE  proc' \in [Process -> Call] /\ checked' \in [Process -> SUBSET Path]
  BY DEF TypeOK, Goto, Call

LEMMA EndType ==
  ASSUME TypeOK, NEW q \in Process, End(q)
  PROVE  proc' \in [Process -> Call] /\ checked' \in [Process -> SUBSET Path]
  BY IdleType DEF TypeOK, End

LEMMA RecordType ==
  ASSUME TypeOK, NEW c \in Call, NEW l \in Ledger, Record(c, l)
  PROVE  ledger' \in Ledger /\ forgotten' \subseteq Path
  BY CallParts DEF TypeOK, Record

(* The call after it has put down a file, and after a write failed.         *)
AfterPut(c, p, next) ==
  [c EXCEPT !.todo = @ \ {p}, !.written = @ \cup {p}, !.at = IF c.todo = {p} THEN next ELSE @]
AfterFailure(c) == [c EXCEPT !.at = "failing", !.todo = {}]

LEMMA PutMeans ==
  ASSUME TypeOK, NEW q \in Process, NEW p \in Path, NEW next \in Label, Put(q, p, next)
  PROVE  /\ proc' = [proc EXCEPT ![q] = AfterPut(proc[q], p, next)]
         /\ AfterPut(proc[q], p, next) \in Call
         /\ proc[q] \in Call /\ proc[q].version \in Version \cup {None}
<1> DEFINE c == proc[q]
<1>1. c \in Call
  BY DEF TypeOK
<1>2. c.version \in Version \cup {None}
  BY <1>1, CallParts
<1>3. proc' = [proc EXCEPT ![q] = AfterPut(c, p, next)]
  BY DEF Put, AfterPut
<1>4. AfterPut(c, p, next) \in Call
  <2> HIDE DEF c
  <2> QED BY <1>1 DEF AfterPut, Call
<1> QED BY <1>1, <1>2, <1>3, <1>4

LEMMA FailWriteMeans ==
  ASSUME TypeOK, NEW q \in Process, FailWrite(q)
  PROVE  /\ proc' = [proc EXCEPT ![q] = AfterFailure(proc[q])]
         /\ AfterFailure(proc[q]) \in Call
<1>1. proc' = [proc EXCEPT ![q] = AfterFailure(proc[q])]
  BY DEF FailWrite, AfterFailure
<1>2. proc[q] \in Call
  BY DEF TypeOK
<1>3. AfterFailure(proc[q]) \in Call
  BY <1>2 DEF AfterFailure, Call, Label, Installing
<1> QED BY <1>1, <1>3

(* The bytes that calls put down.                                           *)
LEMMA PutType ==
  ASSUME TypeOK, NEW q \in Process, NEW p \in Path, NEW next \in Label, Put(q, p, next)
  PROVE  TypeOK'
<1>1. file' \in [Path -> Content \cup {None}]
  BY PutMeans DEF Put, TypeOK
<1>2. proc' \in [Process -> Call]
  BY PutMeans DEF TypeOK
<1>3. ledger' \in Ledger /\ forgotten' \subseteq Path /\ checked' \in [Process -> SUBSET Path]
  BY DEF Put, TypeOK
<1> QED BY <1>1, <1>2, <1>3 DEF TypeOK

(* The call after it has dealt with a file.                                 *)
Less(c, p) == [c EXCEPT !.todo = @ \ {p}]
Declined(c, p) ==
  [c EXCEPT !.todo = @ \ {p}, !.skipped = IF file[p] = None THEN @ ELSE @ \cup {p}]

LEMMA LessMeans ==
  ASSUME NEW c \in Call, NEW p \in Path
  PROVE  /\ Less(c, p) \in Call /\ Less(c, p).at = c.at /\ Less(c, p).previous = c.previous
         /\ Less(c, p).todo = c.todo \ {p} /\ Less(c, p).skipped = c.skipped
         /\ Less(c, p).written = c.written
         /\ Declined(c, p) \in Call /\ Declined(c, p).at = c.at
         /\ Declined(c, p).previous = c.previous /\ Declined(c, p).todo = c.todo \ {p}
         /\ Declined(c, p).skipped = IF file[p] = None THEN c.skipped ELSE c.skipped \cup {p}
         /\ Declined(c, p).written = c.written
  BY DEF Less, Declined, Call

(* A file that has not changed is checked, and any other is not.            *)
LEMMA ReconcileMeans ==
  ASSUME TypeOK, NEW q \in Process, NEW p \in Path, Reconcile(q, p)
  PROVE  /\ proc[q] \in Call /\ proc[q].at = "reconciling" /\ checked[q] = {}
         /\ UNCHANGED <<file, ledger, forgotten>>
         /\ \/ /\ Unchanged(proc[q], p) /\ UNCHANGED proc
               /\ checked' = [checked EXCEPT ![q] = {p}]
            \/ proc' = [proc EXCEPT ![q] = Less(proc[q], p)] /\ UNCHANGED checked
  BY DEF Reconcile, Examine, At, Less, TypeOK

LEMMA RemoveMeans ==
  ASSUME TypeOK, NEW q \in Process, NEW p \in Path, Remove(q, p)
  PROVE  /\ proc[q] \in Call /\ proc[q].at = "removing" /\ checked[q] = {}
         /\ UNCHANGED <<file, ledger, forgotten>>
         /\ \/ /\ Unchanged(proc[q], p) /\ UNCHANGED proc
               /\ checked' = [checked EXCEPT ![q] = {p}]
            \/ proc' = [proc EXCEPT ![q] = Declined(proc[q], p)] /\ UNCHANGED checked
  BY DEF Remove, Examine, At, Declined, TypeOK

LEMMA UnlinkMeans ==
  ASSUME TypeOK, NEW q \in Process, NEW p \in Path, Unlink(q, p)
  PROVE  /\ proc[q] \in Call /\ proc[q].at \in {"reconciling", "removing"} /\ p \in checked[q]
         /\ file' = [file EXCEPT ![p] = None] /\ file \in [Path -> Content \cup {None}]
         /\ proc' = [proc EXCEPT ![q] = Less(proc[q], p)]
         /\ checked' = [checked EXCEPT ![q] = {}] /\ UNCHANGED <<ledger, forgotten>>
  BY DEF Unlink, Less, TypeOK

LEMMA SpoilType ==
  ASSUME TypeOK, NEW q \in Process, Spoil(q)
  PROVE  file' \in [Path -> Content \cup {None}]
  BY DEF Spoil, TypeOK

LEMMA StartsType ==
  ASSUME TypeOK, NEW q \in Process, Starts(q)
  PROVE  TypeOK'
<1>1. ASSUME NEW version \in Version, NEW modules \in SUBSET Module,
             StartInstall(q, version, modules)
      PROVE  proc' \in [Process -> Call]
  <2> DEFINE plan == Planned(version, modules)
             skipped == Skipped(ledger, plan)
             m == [at |-> IF plan \subseteq skipped THEN "finishing" ELSE "bridging",
                   version |-> version, modules |-> modules, previous |-> ledger,
                   plan |-> plan, skipped |-> skipped,
                   todo |-> plan \ skipped, written |-> {}]
  <2>1. plan \in SUBSET Path /\ skipped \in SUBSET Path
    BY PlannedType, SkippedType DEF TypeOK
  <2>2. proc' = [proc EXCEPT ![q] = m]
    BY <1>1 DEF StartInstall
  <2> HIDE DEF plan, skipped
  <2>3. m \in Call
    BY <2>1 DEF TypeOK, Call, Label, Installing
  <2> QED BY <2>2, <2>3 DEF TypeOK
<1>2. ASSUME StartUninstall(q)
      PROVE  proc' \in [Process -> Call]
  BY <1>2, IdleType DEF StartUninstall, TypeOK, Call, Label, Ledger
<1>3. ASSUME NEW version \in Version, StartRepair(q, version)
      PROVE  proc' \in [Process -> Call]
  <2> DEFINE plan == Planned(version, ledger.modules)
             c == [Idle EXCEPT !.version = version, !.modules = ledger.modules,
                               !.previous = ledger, !.plan = plan,
                               !.skipped = Skipped(ledger, plan)]
             m == [c EXCEPT !.at = IF Applied(c) # {} /\ Broken(c) # {}
                                     THEN "refreshing" ELSE "repairing",
                            !.todo = Broken(c)]
  <2>1. plan \in SUBSET Path /\ Skipped(ledger, plan) \in SUBSET Path /\ ledger.modules \in SUBSET Module
    BY PlannedType, SkippedType DEF TypeOK, Ledger
  <2>2. c \in Call
    BY <2>1, IdleType DEF TypeOK, Call
  <2>3. proc' = [proc EXCEPT ![q] = m]
    BY <1>3 DEF StartRepair
  <2> HIDE DEF c
  <2>4. Broken(c) \in SUBSET Path
    BY <2>2, MergedType DEF Broken, Desired, Ledger
  <2>5. m \in Call
    BY <2>2, <2>4 DEF Call, Label, Repairing
  <2> QED BY <2>3, <2>5 DEF TypeOK
<1>4. UNCHANGED <<file, ledger, checked, forgotten>>
  BY DEF Starts, StartInstall, StartUninstall, StartRepair
<1> QED BY <1>1, <1>2, <1>3, <1>4 DEF Starts, TypeOK

LEMMA ContinuesType ==
  ASSUME TypeOK, NEW q \in Process, Continues(q)
  PROVE  TypeOK'
<1> DEFINE c == proc[q]
<1>0. c \in Call
  BY DEF TypeOK
<1>1. CASE WriteBridge(q)
  BY <1>0, <1>1, BridgeType, GotoType, RecordType DEF WriteBridge, TypeOK, Label, Installing
<1>2. CASE WriteCheckpoint(q)
  BY <1>0, <1>2, CheckpointType, EndType DEF WriteCheckpoint, TypeOK
<1>3. CASE WriteFinal(q)
  <2>1. proc' \in [Process -> Call]
    BY <1>0, <1>3, IdleType, BridgeType DEF WriteFinal, TypeOK, Call, Label
  <2> QED BY <1>0, <1>3, <2>1, FinalType, RecordType DEF WriteFinal, TypeOK
<1>4. CASE EndInstall(q)
  BY <1>4, EndType DEF EndInstall, TypeOK
<1>5. CASE DropLedger(q)
  BY <1>5, EndType, NoLedgerType DEF DropLedger, TypeOK
<1>6. CASE Refresh(q)
  BY <1>0, <1>6, RefreshedType, GotoType, RecordType DEF Refresh, TypeOK, Label, Repairing
<1>7. CASE EndRepair(q)
  BY <1>0, <1>7, RefreshedType, EndType, RecordType DEF EndRepair, TypeOK
<1>8. ASSUME NEW p \in Path, WriteFile(q, p)
      PROVE  TypeOK'
  BY <1>8, PutType DEF WriteFile, Label, Installing
<1>9. ASSUME NEW p \in Path, Reconcile(q, p)
      PROVE  TypeOK'
  <2>1. Less(c, p) \in Call
    BY <1>0, LessMeans
  <2>2. proc' \in [Process -> Call] /\ checked' \in [Process -> SUBSET Path]
    BY <1>9, <2>1, ReconcileMeans DEF TypeOK
  <2> QED BY <1>9, <2>2, ReconcileMeans DEF TypeOK
<1>10. ASSUME NEW p \in Path, Remove(q, p)
       PROVE  TypeOK'
  <2>1. Declined(c, p) \in Call
    BY <1>0, LessMeans
  <2>2. proc' \in [Process -> Call] /\ checked' \in [Process -> SUBSET Path]
    BY <1>10, <2>1, RemoveMeans DEF TypeOK
  <2> QED BY <1>10, <2>2, RemoveMeans DEF TypeOK
<1>11. ASSUME NEW p \in Path, RepairFile(q, p)
       PROVE  TypeOK'
  BY <1>11, PutType DEF RepairFile, Label, Repairing
<1>12. ASSUME NEW p \in Path, CheckFile(q, p)
       PROVE  TypeOK'
  BY <1>12 DEF CheckFile, TypeOK
<1>13. ASSUME NEW p \in Path, Unlink(q, p)
       PROVE  TypeOK'
  <2>1. Less(c, p) \in Call
    BY <1>0, LessMeans
  <2>2. /\ proc' \in [Process -> Call] /\ checked' \in [Process -> SUBSET Path]
        /\ file' \in [Path -> Content \cup {None}]
    BY <1>13, <2>1, UnlinkMeans DEF TypeOK
  <2> QED BY <1>13, <2>2, UnlinkMeans DEF TypeOK
<1> QED
  BY <1>1, <1>2, <1>3, <1>4, <1>5, <1>6, <1>7, <1>8, <1>9, <1>10, <1>11, <1>12, <1>13
     DEF Continues

LEMMA FailsType ==
  ASSUME TypeOK, NEW q \in Process, Fails(q)
  PROVE  TypeOK'
<1>1. CASE FailWrite(q)
  BY <1>1, SpoilType, FailWriteMeans DEF FailWrite, TypeOK
<1>2. CASE FailFinal(q)
  BY <1>2, GotoType, EndType DEF FailFinal, TypeOK, Label, Installing
<1>3. CASE FailRepair(q)
  BY <1>3, SpoilType, EndType DEF FailRepair, TypeOK
<1>4. CASE Crash(q)
  BY <1>4, EndType DEF Crash, TypeOK
<1> QED BY <1>1, <1>2, <1>3, <1>4 DEF Fails

LEMMA TypeInvariance == TypeOK /\ [Next]_vars => TypeOK'
<1> SUFFICES ASSUME TypeOK, [Next]_vars PROVE TypeOK'
  OBVIOUS
<1>1. ASSUME NEW q \in Process, Starts(q) \/ Continues(q) \/ Fails(q)
      PROVE  TypeOK'
  BY <1>1, StartsType, ContinuesType, FailsType
<1>2. ASSUME NEW p \in Path, NEW bytes \in User \cup {None}, UserChanges(p, bytes)
      PROVE  TypeOK'
  BY <1>2 DEF UserChanges, TypeOK
<1>3. CASE UNCHANGED vars
  BY <1>3 DEF TypeOK, vars
<1> QED BY <1>1, <1>2, <1>3 DEF Next

LEMMA TypeInit == Init => TypeOK
  BY IdleType, NoLedgerType DEF Init, TypeOK

(* Files, install state and calls are what they should be: for any number   *)
(* of calls at once, failures and edits at any time.                        *)
THEOREM TypeCorrect == Spec => []TypeOK
  BY TypeInit, TypeInvariance, PTL DEF Spec
-----------------------------------------------------------------------------
(* WHAT IS RECORDED IS NOT THE USER'S                                       *)

(* Where a recorded digest is never that of a user's bytes: everywhere,     *)
(* unless repairs refresh the install state.                                *)
Ours == IF "repair" \in Operations THEN Config ELSE Path

(* The digests that a call has read, and what it has written of its plan.   *)
CallIsSafe(c) ==
  /\ c.at \in Repairing => "repair" \in Operations
  /\ \A p \in Ours : c.previous.digest[p] \notin User
  /\ c.at \in {"bridging", "writing"} => Applied(c) \subseteq c.todo \cup c.written
  /\ c.at = "finishing" => Applied(c) \subseteq c.written

(* What a call in progress has written is still there, or gone.             *)
WrittenIsOurs(c, bytes) ==
  c.at \in Installing \cup Repairing => \A p \in c.written : bytes[p] \notin User

DigestsAreOurs == \A p \in Ours : ledger.digest[p] \notin User

Safe ==
  /\ TypeOK
  /\ DigestsAreOurs
  /\ \A q \in Process : CallIsSafe(proc[q]) /\ WrittenIsOurs(proc[q], file)

LEMMA OursIsPath == Ours \subseteq Path
  BY PathsAssumption DEF Ours

(* A step of one call.                                                      *)
LEMMA SafeStep ==
  ASSUME Safe, TypeOK', NEW q \in Process, NEW m \in Call,
         proc' = [proc EXCEPT ![q] = m],
         CallIsSafe(m), WrittenIsOurs(m, file'), DigestsAreOurs',
         \A p \in Path : file'[p] = file[p] \/ file'[p] \notin User
  PROVE  Safe'
<1>1. ASSUME NEW r \in Process
      PROVE  CallIsSafe(proc'[r]) /\ WrittenIsOurs(proc[r], file)'
  <2>1. CASE r = q
    BY <2>1 DEF Safe, TypeOK, WrittenIsOurs
  <2>2. CASE r # q
    <3>1. proc'[r] = proc[r] /\ proc[r] \in Call
      BY <2>2 DEF Safe, TypeOK
    <3>2. proc[r].written \in SUBSET Path
      BY <3>1, CallParts
    <3> QED BY <3>1, <3>2 DEF Safe, WrittenIsOurs
  <2> QED BY <2>1, <2>2
<1>2. \A r \in Process : CallIsSafe(proc[r])' /\ WrittenIsOurs(proc[r], file)'
  BY <1>1 DEF CallIsSafe, Applied
<1> QED BY <1>2 DEF Safe

LEMMA IdleIsSafe == CallIsSafe(Idle) /\ WrittenIsOurs(Idle, file')
  BY OursIsPath, ContentAssumption
     DEF CallIsSafe, WrittenIsOurs, Idle, NoLedger, Repairing, Installing

(* The digests of what a call writes to the ledger.                         *)
LEMMA MergedDigest ==
  ASSUME NEW c \in Call, TypeOK, NEW p \in Path
  PROVE  /\ Merged(c).digest[p] \in {None, c.previous.digest[p]}
         /\ Bridge(c).digest[p] \in {None, c.previous.digest[p]}
         /\ Without(Bridge(c), Stale(c)).digest[p] \in {None, c.previous.digest[p]}
<1>1. Merged(c).digest[p] \in {None, c.previous.digest[p]}
  BY CallParts DEF Merged, With, Without, Ledger
<1>2. Bridge(c).digest[p] \in {None, Merged(c).digest[p]}
  BY MergedType DEF Bridge, Without, Ledger
<1>3. Without(Bridge(c), Stale(c)).digest[p] \in {None, Bridge(c).digest[p]}
  BY BridgeType DEF Without, Ledger
<1> QED BY <1>1, <1>2, <1>3

LEMMA FinalDigest ==
  ASSUME NEW c \in Call, TypeOK, NEW p \in Path
  PROVE  Final(c).digest[p] \in {None, c.previous.digest[p]} \/
         (p \in Applied(c) /\ Final(c).digest[p] = file[p])
<1> DEFINE l == Without(Bridge(c), Stale(c))
<1>1. l \in Ledger
  BY BridgeType, LedgerOps
<1>2. Final(c).digest[p] = l.digest[p] \/ (p \in Applied(c) /\ Final(c).digest[p] = file[p])
  BY <1>1 DEF Final, Hashed, Ledger
<1> QED BY <1>2, MergedDigest

LEMMA CheckpointDigest ==
  ASSUME NEW c \in Call, TypeOK, NEW p \in Path
  PROVE  Checkpoint(c).digest[p] \in {None, c.previous.digest[p]} \/
         (p \in c.written /\ Checkpoint(c).digest[p] = file[p])
  BY CallParts DEF Checkpoint, Hashed, Ledger

LEMMA RefreshedDigest ==
  ASSUME NEW c \in Call, TypeOK, NEW p \in Config
  PROVE  Refreshed(c).digest[p] \in {None, c.previous.digest[p]} \/
         (p \in c.written /\ Refreshed(c).digest[p] = file[p])
  BY MergedType, CallParts, PathsAssumption DEF Refreshed, Ledger

LEMMA PutIsSafe ==
  ASSUME Safe, TypeOK', NEW q \in Process, NEW p \in Path, NEW next \in Label, Put(q, p, next),
         \/ proc[q].at = "writing" /\ next = "finishing"
         \/ proc[q].at = "repairing" /\ next = "repairing"
  PROVE  Safe'
<1> DEFINE c == proc[q]
           m == AfterPut(c, p, next)
<1>1. c \in Call /\ m \in Call /\ proc' = [proc EXCEPT ![q] = m] /\ c.version \notin User
  BY PutMeans, ContentAssumption DEF Safe
<1>2. CallIsSafe(c) /\ WrittenIsOurs(c, file) /\ p \in c.todo
  BY DEF Safe, Put
<1>3. file' = [file EXCEPT ![p] = c.version] /\ ledger' = ledger /\ file \in [Path -> Content \cup {None}]
  BY DEF Put, Safe, TypeOK
<1> HIDE DEF c
<1>4. /\ m.written = c.written \cup {p} /\ m.todo = c.todo \ {p}
      /\ m.previous = c.previous /\ Applied(m) = Applied(c)
      /\ m.at = IF c.todo = {p} THEN next ELSE c.at
  BY <1>1 DEF AfterPut, Call, Applied
<1> HIDE DEF m
<1>5. CASE c.at = "writing" /\ next = "finishing"
  <2>1. CallIsSafe(m)
    BY <1>2, <1>4, <1>5 DEF CallIsSafe, Repairing
  <2>2. WrittenIsOurs(m, file')
    BY <1>1, <1>2, <1>3, <1>4, <1>5, CallParts DEF WrittenIsOurs, Installing
  <2> QED BY <1>1, <1>3, <2>1, <2>2, SafeStep DEF Safe, DigestsAreOurs
<1>6. CASE c.at = "repairing" /\ next = "repairing"
  <2>1. CallIsSafe(m)
    BY <1>2, <1>4, <1>6 DEF CallIsSafe, Repairing
  <2>2. WrittenIsOurs(m, file')
    BY <1>1, <1>2, <1>3, <1>4, <1>6, CallParts DEF WrittenIsOurs, Repairing
  <2> QED BY <1>1, <1>3, <2>1, <2>2, SafeStep DEF Safe, DigestsAreOurs
<1> QED BY <1>5, <1>6 DEF c

(* The new call m of a process.                                             *)
Begun(q, m) ==
  /\ proc' = [proc EXCEPT ![q] = m]
  /\ m.previous = ledger /\ m.written = {}
  /\ m.at \in Repairing => "repair" \in Operations
  /\ m.at \in {"bridging", "writing"} => Applied(m) \subseteq m.todo
  /\ m.at = "finishing" => Applied(m) = {}

LEMMA StartsAreSafe ==
  ASSUME Safe, TypeOK', NEW q \in Process, Starts(q)
  PROVE  Safe'
<1>0. UNCHANGED <<file, ledger, forgotten>>
  BY DEF Starts, StartInstall, StartUninstall, StartRepair
<1>a. \E m \in Call : Begun(q, m)
  <2>0. proc' [q] \in Call
    BY DEF TypeOK
  <2>1. ASSUME NEW version \in Version, NEW modules \in SUBSET Module,
               StartInstall(q, version, modules)
        PROVE  \E m \in Call : Begun(q, m)
    <3> DEFINE plan == Planned(version, modules)
               skipped == Skipped(ledger, plan)
               m == [at |-> IF plan \subseteq skipped THEN "finishing" ELSE "bridging",
                     version |-> version, modules |-> modules, previous |-> ledger,
                     plan |-> plan, skipped |-> skipped,
                     todo |-> plan \ skipped, written |-> {}]
    <3>1. proc' = [proc EXCEPT ![q] = m]
      BY <2>1 DEF StartInstall
    <3>2. m \in Call
      BY <2>0, <3>1 DEF Safe, TypeOK
    <3>3. /\ m.previous = ledger /\ m.written = {}
          /\ m.at \in Repairing => "repair" \in Operations
          /\ m.at \in {"bridging", "writing"} => Applied(m) \subseteq m.todo
          /\ m.at = "finishing" => Applied(m) = {}
      <4> HIDE DEF plan, skipped
      <4> QED BY DEF Applied, Repairing
    <3> HIDE DEF m
    <3> QED BY <3>1, <3>2, <3>3 DEF Begun
  <2>2. ASSUME StartUninstall(q)
        PROVE  \E m \in Call : Begun(q, m)
    <3> DEFINE m == [Idle EXCEPT !.at = "removing", !.previous = ledger, !.todo = ledger.managed]
    <3>1. proc' = [proc EXCEPT ![q] = m]
      BY <2>2 DEF StartUninstall
    <3>2. m \in Call
      BY <2>0, <3>1 DEF Safe, TypeOK
    <3>3. m.previous = ledger /\ m.written = {} /\ m.at = "removing"
      BY DEF Idle
    <3> HIDE DEF m
    <3> QED BY <3>1, <3>2, <3>3 DEF Begun, Repairing
  <2>3. ASSUME NEW version \in Version, StartRepair(q, version)
        PROVE  \E m \in Call : Begun(q, m)
    <3> DEFINE plan == Planned(version, ledger.modules)
               c == [Idle EXCEPT !.version = version, !.modules = ledger.modules,
                                 !.previous = ledger, !.plan = plan,
                                 !.skipped = Skipped(ledger, plan)]
               m == [c EXCEPT !.at = IF Applied(c) # {} /\ Broken(c) # {}
                                       THEN "refreshing" ELSE "repairing",
                              !.todo = Broken(c)]
    <3>1. proc' = [proc EXCEPT ![q] = m] /\ "repair" \in Operations
      BY <2>3 DEF StartRepair
    <3>2. m \in Call
      BY <2>0, <3>1 DEF Safe, TypeOK
    <3>3. m.previous = ledger /\ m.written = {} /\ m.at \in Repairing
      BY DEF Idle, Repairing
    <3> HIDE DEF m
    <3> QED BY <3>1, <3>2, <3>3 DEF Begun, Repairing
  <2> QED BY <2>1, <2>2, <2>3 DEF Starts
<1>1. PICK m \in Call : Begun(q, m)
  BY <1>a
<1>2. CallIsSafe(m) /\ WrittenIsOurs(m, file')
  BY <1>1 DEF Begun, CallIsSafe, WrittenIsOurs, Safe, DigestsAreOurs
<1> QED BY <1>0, <1>1, <1>2, SafeStep DEF Begun, Safe, DigestsAreOurs

(* A call that ends, or leaves the ledger and the files alone and goes on   *)
(* to a step that asks nothing of what it has written.                      *)
LEMMA EndIsSafe ==
  ASSUME Safe, TypeOK', NEW q \in Process, End(q), DigestsAreOurs',
         \A p \in Path : file'[p] = file[p] \/ file'[p] \notin User
  PROVE  Safe'
  BY IdleIsSafe, IdleType, SafeStep DEF End

LEMMA GotoIsSafe ==
  ASSUME Safe, TypeOK', NEW q \in Process, NEW l \in Label, Goto(q, l), DigestsAreOurs',
         UNCHANGED file, CallIsSafe([proc[q] EXCEPT !.at = l]),
         l \in Installing \cup Repairing => proc[q].at \in Installing \cup Repairing
  PROVE  Safe'
<1> DEFINE m == [proc[q] EXCEPT !.at = l]
<1>1. proc[q] \in Call /\ WrittenIsOurs(proc[q], file)
  BY DEF Safe, TypeOK
<1>2. proc' = [proc EXCEPT ![q] = m]
  BY DEF Goto
<1>3. m \in Call /\ m.at = l /\ m.written = proc[q].written
  BY <1>1 DEF Call
<1>4. CallIsSafe(m)
  OBVIOUS
<1> HIDE DEF m
<1>5. WrittenIsOurs(m, file')
  BY <1>1, <1>3 DEF WrittenIsOurs
<1> QED BY <1>2, <1>3, <1>4, <1>5, SafeStep

(* What is removed, or left torn, is not the user's afterwards.             *)
LEMMA TodoIsSafe ==
  ASSUME Safe, TypeOK', NEW q \in Process, NEW m \in Call,
         proc' = [proc EXCEPT ![q] = m], UNCHANGED ledger,
         m.previous = proc[q].previous, m.at = proc[q].at, m.at \in {"reconciling", "removing"},
         \A p \in Path : file'[p] = file[p] \/ file'[p] = None
  PROVE  Safe'
<1>1. CallIsSafe(m) /\ WrittenIsOurs(m, file')
  BY DEF Safe, CallIsSafe, WrittenIsOurs, Installing, Repairing
<1> QED BY <1>1, SafeStep, ContentAssumption DEF Safe, DigestsAreOurs

(* A check changes nothing.                                                 *)
LEMMA StillIsSafe ==
  ASSUME Safe, TypeOK', UNCHANGED <<file, ledger, proc>>
  PROVE  Safe'
  BY DEF Safe, DigestsAreOurs, CallIsSafe, WrittenIsOurs, Applied

LEMMA ContinuesIsSafe ==
  ASSUME Safe, TypeOK', NEW q \in Process, Continues(q)
  PROVE  Safe'
<1> DEFINE c == proc[q]
<1>0. c \in Call /\ TypeOK /\ file \in [Path -> Content \cup {None}]
  BY DEF Safe, TypeOK
<1>a. CallIsSafe(c) /\ WrittenIsOurs(c, file) /\ DigestsAreOurs
  BY DEF Safe
<1>1. CASE WriteBridge(q)
  <2>1. c.at = "bridging" /\ ledger' = Bridge(c) /\ Goto(q, "writing") /\ UNCHANGED file
    BY <1>1 DEF WriteBridge, Record, At
  <2>2. DigestsAreOurs'
    BY <1>0, <1>a, <2>1, MergedDigest, OursIsPath, ContentAssumption DEF DigestsAreOurs, CallIsSafe
  <2>3. CallIsSafe([c EXCEPT !.at = "writing"])
    BY <1>0, <1>a, <2>1 DEF CallIsSafe, Repairing, Call, Applied
  <2> QED BY <2>1, <2>2, <2>3, GotoIsSafe DEF Installing, Label
<1>2. CASE WriteCheckpoint(q)
  <2>1. c.at = "failing" /\ ledger' = Checkpoint(c) /\ End(q) /\ UNCHANGED file
    BY <1>2 DEF WriteCheckpoint, At
  <2>2. DigestsAreOurs'
    BY <1>0, <1>a, <2>1, CheckpointDigest, OursIsPath, ContentAssumption
       DEF DigestsAreOurs, CallIsSafe, WrittenIsOurs, Installing
  <2> QED BY <2>1, <2>2, EndIsSafe
<1>3. CASE WriteFinal(q)
  <2>1. c.at = "finishing" /\ ledger' = Final(c) /\ UNCHANGED file
    BY <1>3 DEF WriteFinal, Record, At
  <2>2. DigestsAreOurs'
    BY <1>0, <1>a, <2>1, FinalDigest, OursIsPath, ContentAssumption
       DEF DigestsAreOurs, CallIsSafe, WrittenIsOurs, Installing
  <2>3. PICK m \in Call : /\ proc' = [proc EXCEPT ![q] = m]
                          /\ m.previous = c.previous /\ m.at = "reconciling" /\ m.written = {}
    <3> DEFINE m == [Idle EXCEPT !.at = "reconciling", !.previous = c.previous,
                                 !.todo = Stale(c) \cup Excluded(c)]
    <3>1. proc' = [proc EXCEPT ![q] = m]
      BY <1>3 DEF WriteFinal
    <3>2. m \in Call
      BY <1>0, <3>1 DEF TypeOK
    <3>3. m.previous = c.previous /\ m.at = "reconciling" /\ m.written = {}
      BY DEF Idle
    <3> HIDE DEF m
    <3> QED BY <3>1, <3>2, <3>3
  <2>4. CallIsSafe(m) /\ WrittenIsOurs(m, file')
    BY <1>a, <2>3 DEF CallIsSafe, WrittenIsOurs, Repairing
  <2> QED BY <2>1, <2>2, <2>3, <2>4, SafeStep
<1>4. CASE EndInstall(q)
  BY <1>4, EndIsSafe DEF EndInstall, Safe, DigestsAreOurs
<1>5. CASE DropLedger(q)
  <2>1. End(q) /\ UNCHANGED file /\ ledger' \in {ledger, NoLedger}
    BY <1>5 DEF DropLedger
  <2>2. DigestsAreOurs'
    BY <1>a, <2>1, OursIsPath, ContentAssumption DEF DigestsAreOurs, NoLedger
  <2> QED BY <2>1, <2>2, EndIsSafe
<1>b. ASSUME c.at \in Repairing, ledger' = Refreshed(c)
      PROVE  DigestsAreOurs'
  <2>1. Ours = Config
    BY <1>a, <1>b DEF CallIsSafe, Ours
  <2> QED
    BY <1>0, <1>a, <1>b, <2>1, RefreshedDigest, OursIsPath, ContentAssumption
       DEF DigestsAreOurs, CallIsSafe, WrittenIsOurs
<1>6. CASE Refresh(q)
  <2>1. c.at = "refreshing" /\ ledger' = Refreshed(c) /\ Goto(q, "repairing") /\ UNCHANGED file
    BY <1>6 DEF Refresh, Record, At
  <2>2. CallIsSafe([c EXCEPT !.at = "repairing"])
    BY <1>0, <1>a, <2>1 DEF CallIsSafe, Repairing, Call, Applied
  <2> QED BY <1>b, <2>1, <2>2, GotoIsSafe DEF Repairing, Label
<1>7. CASE EndRepair(q)
  BY <1>7, <1>b, EndIsSafe DEF EndRepair, Record, At, Repairing
<1>8. ASSUME NEW p \in Path, WriteFile(q, p)
      PROVE  Safe'
  BY <1>8, PutIsSafe DEF WriteFile, At, Label, Installing
<1>9. ASSUME NEW p \in Path, Reconcile(q, p)
      PROVE  Safe'
  <2>1. c.at = "reconciling" /\ UNCHANGED <<file, ledger>>
    BY <1>0, <1>9, ReconcileMeans
  <2>2. CASE UNCHANGED proc
    BY <2>1, <2>2, StillIsSafe
  <2>3. CASE proc' = [proc EXCEPT ![q] = Less(c, p)]
    BY <1>0, <2>1, <2>3, LessMeans, TodoIsSafe
  <2> QED BY <1>0, <1>9, <2>2, <2>3, ReconcileMeans
<1>10. ASSUME NEW p \in Path, Remove(q, p)
       PROVE  Safe'
  <2>1. c.at = "removing" /\ UNCHANGED <<file, ledger>>
    BY <1>0, <1>10, RemoveMeans
  <2>2. CASE UNCHANGED proc
    BY <2>1, <2>2, StillIsSafe
  <2>3. CASE proc' = [proc EXCEPT ![q] = Declined(c, p)]
    BY <1>0, <2>1, <2>3, LessMeans, TodoIsSafe
  <2> QED BY <1>0, <1>10, <2>2, <2>3, RemoveMeans
<1>11. ASSUME NEW p \in Path, RepairFile(q, p)
       PROVE  Safe'
  BY <1>11, PutIsSafe DEF RepairFile, At, Label, Repairing
<1>12. ASSUME NEW p \in Path, CheckFile(q, p)
       PROVE  Safe'
  BY <1>12, StillIsSafe DEF CheckFile
<1>13. ASSUME NEW p \in Path, Unlink(q, p)
       PROVE  Safe'
  <2>1. \A r \in Path : file'[r] = file[r] \/ file'[r] = None
    BY <1>0, <1>13, UnlinkMeans
  <2>2. /\ Less(c, p) \in Call /\ Less(c, p).at = c.at /\ Less(c, p).previous = c.previous
        /\ proc' = [proc EXCEPT ![q] = Less(c, p)] /\ UNCHANGED ledger
        /\ c.at \in {"reconciling", "removing"}
    BY <1>0, <1>13, UnlinkMeans, LessMeans
  <2> QED BY <2>1, <2>2, TodoIsSafe
<1> QED
  BY <1>1, <1>2, <1>3, <1>4, <1>5, <1>6, <1>7, <1>8, <1>9, <1>10, <1>11, <1>12, <1>13
     DEF Continues

LEMMA SpoilIsSafe ==
  ASSUME Safe, NEW q \in Process, Spoil(q)
  PROVE  \A p \in Path : file'[p] = file[p] \/ file'[p] \notin User
  BY ContentAssumption DEF Spoil, Safe, TypeOK

LEMMA FailsIsSafe ==
  ASSUME Safe, TypeOK', NEW q \in Process, Fails(q)
  PROVE  Safe'
<1> DEFINE c == proc[q]
<1>0. c \in Call /\ CallIsSafe(c) /\ WrittenIsOurs(c, file) /\ DigestsAreOurs
  BY DEF Safe, TypeOK
<1>1. CASE FailWrite(q)
  <2> DEFINE m == AfterFailure(c)
  <2>1. proc' = [proc EXCEPT ![q] = m] /\ m \in Call
    BY <1>1, FailWriteMeans DEF Safe
  <2>2. m.at = "failing" /\ m.previous = c.previous /\ m.written = c.written
    BY <1>0 DEF AfterFailure, Call
  <2>3. c.at = "writing" /\ UNCHANGED ledger
    BY <1>1 DEF FailWrite, At
  <2>4. \A p \in Path : file'[p] = file[p] \/ file'[p] \notin User
    BY <1>1, SpoilIsSafe DEF FailWrite
  <2> HIDE DEF m
  <2>5. CallIsSafe(m)
    BY <1>0, <2>2 DEF CallIsSafe, Repairing
  <2>6. WrittenIsOurs(m, file')
    BY <1>0, <2>2, <2>3, <2>4, CallParts DEF WrittenIsOurs, Installing
  <2> QED BY <1>0, <2>1, <2>3, <2>4, <2>5, <2>6, SafeStep DEF DigestsAreOurs
<1>2. CASE FailFinal(q)
  <2>1. DigestsAreOurs' /\ UNCHANGED file /\ c.at = "finishing"
    BY <1>0, <1>2 DEF DigestsAreOurs, FailFinal, At
  <2>2. CallIsSafe([c EXCEPT !.at = "failing"])
    BY <1>0 DEF CallIsSafe, Repairing, Call
  <2>3. End(q) \/ Goto(q, "failing")
    BY <1>2 DEF FailFinal
  <2> QED BY <2>1, <2>2, <2>3, EndIsSafe, GotoIsSafe DEF Label, Installing
<1>3. CASE FailRepair(q)
  BY <1>0, <1>3, SpoilIsSafe, EndIsSafe DEF FailRepair, DigestsAreOurs
<1>4. CASE Crash(q)
  BY <1>0, <1>4, EndIsSafe DEF Crash, DigestsAreOurs
<1> QED BY <1>1, <1>2, <1>3, <1>4 DEF Fails

(* Users stay away from what was just written, and only from that.          *)
LEMMA UserIsSafe ==
  ASSUME Safe, TypeOK', ~EditsUnderHash,
         NEW p \in Path, NEW bytes \in User \cup {None}, UserChanges(p, bytes)
  PROVE  Safe'
<1>1. UNCHANGED <<ledger, proc>> /\ file' = [file EXCEPT ![p] = bytes] /\ ~UnderHash(p)
  BY DEF UserChanges
<1>2. ASSUME NEW q \in Process
      PROVE  CallIsSafe(proc[q]) /\ WrittenIsOurs(proc[q], file')
  <2>1. proc[q] \in Call /\ file \in [Path -> Content \cup {None}]
    BY DEF Safe, TypeOK
  <2>2. CallIsSafe(proc[q]) /\ WrittenIsOurs(proc[q], file)
    BY DEF Safe
  <2>3. ASSUME proc[q].at \in Installing \cup Repairing, NEW r \in proc[q].written
        PROVE  file'[r] \notin User
    <3>1. r # p
      BY <1>1, <2>3 DEF UnderHash
    <3> QED BY <1>1, <2>1, <2>2, <2>3, <3>1, CallParts DEF WrittenIsOurs
  <2> QED BY <2>2, <2>3 DEF WrittenIsOurs
<1>3. \A q \in Process : CallIsSafe(proc[q])' /\ WrittenIsOurs(proc[q], file)'
  BY <1>1, <1>2 DEF CallIsSafe, Applied
<1> QED BY <1>1, <1>3 DEF Safe, DigestsAreOurs

LEMMA SafeInit == Init => Safe
<1> SUFFICES ASSUME Init PROVE Safe
  OBVIOUS
<1>1. TypeOK
  BY TypeInit
<1>2. DigestsAreOurs
  BY OursIsPath, ContentAssumption DEF Init, DigestsAreOurs, NoLedger
<1>3. ASSUME NEW q \in Process PROVE CallIsSafe(proc[q]) /\ WrittenIsOurs(proc[q], file)
  BY OursIsPath, ContentAssumption
     DEF Init, CallIsSafe, WrittenIsOurs, Idle, NoLedger, Repairing, Installing
<1> QED BY <1>1, <1>2, <1>3 DEF Safe

LEMMA SafeInvariance == ~EditsUnderHash /\ Safe /\ [Next]_vars => Safe'
<1> SUFFICES ASSUME ~EditsUnderHash, Safe, [Next]_vars PROVE Safe'
  OBVIOUS
<1>0. TypeOK'
  BY TypeInvariance DEF Safe
<1>1. ASSUME NEW q \in Process, Starts(q) \/ Continues(q) \/ Fails(q)
      PROVE  Safe'
  BY <1>0, <1>1, StartsAreSafe, ContinuesIsSafe, FailsIsSafe
<1>2. ASSUME NEW p \in Path, NEW bytes \in User \cup {None}, UserChanges(p, bytes)
      PROVE  Safe'
  BY <1>0, <1>2, UserIsSafe
<1>3. CASE UNCHANGED vars
  BY <1>0, <1>3 DEF Safe, DigestsAreOurs, CallIsSafe, WrittenIsOurs, Applied, vars
<1> QED BY <1>1, <1>2, <1>3 DEF Next
-----------------------------------------------------------------------------
(* THEOREMS                                                                 *)

(* WHAT IS CHECKED IS STILL WHAT WAS CHECKED                                *)

(* A user's bytes at a path that a call has checked are those it looked at: *)
(* it found them to be its to write, or to have a recorded digest.          *)
Passed(c, p) ==
  file[p] \in User => \/ c.at \in {"writing", "repairing"} /\ ~Refused(c, p)
                      \/ Unchanged(c, p)

Acting == {"writing", "repairing", "reconciling", "removing"}

Cleared ==
  \A q \in Process, p \in Path : p \in checked[q] => proc[q].at \in Acting /\ Passed(proc[q], p)

(* A call that goes on with what it checked, or with less.                  *)
LEMMA ClearedStep ==
  ASSUME TypeOK, Cleared, NEW q \in Process,
         \A r \in Process \ {q} : proc'[r] = proc[r] /\ checked'[r] = checked[r],
         checked'[q] \subseteq checked[q], checked'[q] # {} => proc'[q] = proc[q],
         \A p \in Path : file'[p] = file[p] \/ file'[p] \notin User
  PROVE  Cleared'
<1> SUFFICES ASSUME NEW r \in Process, NEW p \in Path, p \in checked'[r]
             PROVE  proc'[r].at \in Acting /\ Passed(proc[r], p)'
  BY DEF Cleared
<1>1. p \in checked[r] /\ proc'[r] = proc[r]
  OBVIOUS
<1>2. proc[r].at \in Acting /\ Passed(proc[r], p)
  BY <1>1 DEF Cleared
<1> QED BY <1>1, <1>2 DEF Passed, Refused, Unchanged, Edited

(* A call that checks one more file.                                        *)
LEMMA ClearedCheck ==
  ASSUME TypeOK, Cleared, NEW q \in Process, NEW p \in Path, UNCHANGED <<file, proc>>,
         checked' = [checked EXCEPT ![q] = {p}], proc[q].at \in Acting, Passed(proc[q], p)
  PROVE  Cleared'
<1>1. \A r \in Process, s \in Path : s \in checked'[r] => s \in checked[r] \/ (r = q /\ s = p)
  BY DEF TypeOK
<1> QED BY <1>1 DEF Cleared, Passed, Refused, Unchanged, Edited

(* A call that has nothing checked afterwards, or had nothing before.       *)
LEMMA ClearedDone ==
  ASSUME TypeOK, Cleared, NEW q \in Process,
         \E m : proc' = [proc EXCEPT ![q] = m],
         \/ checked' = [checked EXCEPT ![q] = {}]
         \/ UNCHANGED checked /\ checked[q] = {},
         \A p \in Path : file'[p] = file[p] \/ file'[p] \notin User
  PROVE  Cleared'
<1>1. \A r \in Process \ {q} : proc'[r] = proc[r] /\ checked'[r] = checked[r]
  BY DEF TypeOK
<1>2. checked'[q] = {}
  BY DEF TypeOK
<1> QED BY <1>1, <1>2, ClearedStep

LEMMA NothingChecked ==
  ASSUME Cleared, TypeOK, NEW q \in Process, proc[q].at \notin Acting
  PROVE  checked[q] = {}
  BY DEF Cleared, TypeOK

LEMMA ContinuesIsCleared ==
  ASSUME TypeOK, Cleared, NEW q \in Process, Continues(q)
  PROVE  Cleared'
<1> DEFINE c == proc[q]
<1>0. c \in Call /\ file \in [Path -> Content \cup {None}]
  BY DEF TypeOK
<1>1. CASE WriteBridge(q) \/ WriteFinal(q) \/ Refresh(q)
  <2>1. c.at \notin Acting /\ UNCHANGED <<file, checked>> /\ \E m : proc' = [proc EXCEPT ![q] = m]
    BY <1>1 DEF WriteBridge, WriteFinal, Refresh, Goto, At, Acting
  <2> QED BY <2>1, NothingChecked, ClearedDone
<1>2. CASE WriteCheckpoint(q) \/ EndInstall(q) \/ DropLedger(q) \/ EndRepair(q)
  <2>1. End(q) /\ UNCHANGED file
    BY <1>2 DEF WriteCheckpoint, EndInstall, DropLedger, EndRepair
  <2> QED BY <2>1, ClearedDone DEF End
<1>3. ASSUME NEW p \in Path, NEW next \in Label, Put(q, p, next)
      PROVE  Cleared'
  <2>1. /\ file' = [file EXCEPT ![p] = c.version] /\ c.version \notin User
        /\ checked' = [checked EXCEPT ![q] = {}] /\ \E m : proc' = [proc EXCEPT ![q] = m]
    BY <1>3, PutMeans, ContentAssumption DEF Put
  <2>2. \A r \in Path : file'[r] = file[r] \/ file'[r] \notin User
    BY <1>0, <2>1
  <2> QED BY <2>1, <2>2, ClearedDone
<1>4. ASSUME NEW p \in Path, WriteFile(q, p) \/ RepairFile(q, p)
      PROVE  Cleared'
  BY <1>3, <1>4 DEF WriteFile, RepairFile, Label, Installing, Repairing
<1>5. ASSUME NEW p \in Path, CheckFile(q, p)
      PROVE  Cleared'
  BY <1>5, ClearedCheck DEF CheckFile, Passed, Acting
<1>6. ASSUME NEW p \in Path, Reconcile(q, p) \/ Remove(q, p)
      PROVE  Cleared'
  <2>1. c.at \in {"reconciling", "removing"} /\ checked[q] = {} /\ UNCHANGED file
    BY <1>6, ReconcileMeans, RemoveMeans
  <2>2. \/ /\ Unchanged(c, p) /\ UNCHANGED proc
           /\ checked' = [checked EXCEPT ![q] = {p}]
        \/ (\E m : proc' = [proc EXCEPT ![q] = m]) /\ UNCHANGED checked
    BY <1>6, ReconcileMeans, RemoveMeans
  <2> QED BY <2>1, <2>2, ClearedCheck, ClearedDone DEF Passed, Acting
<1>7. ASSUME NEW p \in Path, Unlink(q, p)
      PROVE  Cleared'
  <2>1. \A r \in Path : file'[r] = file[r] \/ file'[r] \notin User
    BY <1>0, <1>7, UnlinkMeans, ContentAssumption
  <2> QED BY <1>7, <2>1, UnlinkMeans, ClearedDone
<1> QED BY <1>1, <1>2, <1>4, <1>5, <1>6, <1>7 DEF Continues

LEMMA FailsIsCleared ==
  ASSUME TypeOK, Cleared, NEW q \in Process, Fails(q)
  PROVE  Cleared'
<1>1. ASSUME Spoil(q)
      PROVE  \A p \in Path : file'[p] = file[p] \/ file'[p] \notin User
  BY <1>1, ContentAssumption DEF Spoil, TypeOK
<1>2. CASE FailWrite(q)
  <2>1. checked' = [checked EXCEPT ![q] = {}] /\ \E m : proc' = [proc EXCEPT ![q] = m]
    BY <1>2, FailWriteMeans DEF FailWrite
  <2> QED BY <1>1, <1>2, <2>1, ClearedDone DEF FailWrite
<1>3. CASE FailFinal(q)
  <2>1. proc[q].at \notin Acting /\ UNCHANGED file
    BY <1>3 DEF FailFinal, At, Acting
  <2>2. End(q) \/ Goto(q, "failing")
    BY <1>3 DEF FailFinal
  <2> QED BY <2>1, <2>2, NothingChecked, ClearedDone DEF End, Goto
<1>4. CASE FailRepair(q) \/ Crash(q)
  BY <1>1, <1>4, ClearedDone DEF FailRepair, Crash, End
<1> QED BY <1>2, <1>3, <1>4 DEF Fails

LEMMA ClearedInvariance ==
  ASSUME ~EditsUnderCheck, TypeOK, Cleared, [Next]_vars
  PROVE  Cleared'
<1>1. ASSUME NEW q \in Process, Starts(q)
      PROVE  Cleared'
  <2>1. proc[q].at = "idle" /\ UNCHANGED <<file, checked>> /\ \E m : proc' = [proc EXCEPT ![q] = m]
    BY <1>1 DEF Starts, StartInstall, StartUninstall, StartRepair, At
  <2> QED BY <2>1, NothingChecked, ClearedDone DEF Acting
<1>2. ASSUME NEW q \in Process, Continues(q) \/ Fails(q)
      PROVE  Cleared'
  BY <1>2, ContinuesIsCleared, FailsIsCleared
<1>3. ASSUME NEW p \in Path, NEW bytes \in User \cup {None}, UserChanges(p, bytes)
      PROVE  Cleared'
  <2>1. /\ UNCHANGED <<proc, checked>> /\ \A q \in Process : p \notin checked[q]
        /\ file' = [file EXCEPT ![p] = bytes] /\ file \in [Path -> Content \cup {None}]
    BY <1>3 DEF UserChanges, TypeOK
  <2>2. \A q \in Process, r \in Path : r \in checked[q] => file'[r] = file[r]
    BY <2>1
  <2> QED BY <2>1, <2>2 DEF Cleared, Passed, Refused, Unchanged, Edited
<1>4. CASE UNCHANGED vars
  BY <1>4 DEF Cleared, Passed, Refused, Unchanged, Edited, vars
<1> QED BY <1>1, <1>2, <1>3, <1>4 DEF Next

LEMMA ClearedInit == Init => Cleared
  BY DEF Init, Cleared
-----------------------------------------------------------------------------
(* THEOREMS                                                                 *)

(* A step of a call replaces or removes only what the call has checked.     *)
LEMMA WhatIsTouched ==
  ASSUME TypeOK, Cleared, [Next]_vars, NEW q \in Process, NEW p \in Path, Touches(q, p)
  PROVE  Passed(proc[q], p)
<1>1. ASSUME NEW r \in Process, Starts(r) \/ Continues(r) \/ Fails(r), proc' # proc
      PROVE  r = q
  <2>1. \E m : proc' = [proc EXCEPT ![r] = m]
    <3>1. CASE Starts(r)
      BY <3>1 DEF Starts, StartInstall, StartUninstall, StartRepair
    <3>2. CASE Continues(r)
      BY <1>1, <3>2 DEF Continues, WriteBridge, WriteCheckpoint, WriteFinal, EndInstall, DropLedger,
                  Refresh, EndRepair, CheckFile, WriteFile, Reconcile, Remove, Examine, Unlink,
                  RepairFile, Put, Goto, End
    <3>3. CASE Fails(r)
      BY <3>3 DEF Fails, FailWrite, FailFinal, FailRepair, Crash, Goto, End
    <3> QED BY <1>1, <3>1, <3>2, <3>3
  <2> QED BY <2>1 DEF Touches, TypeOK
<1>2. CASE Starts(q)
  BY <1>2 DEF Touches, Starts, StartInstall, StartUninstall, StartRepair
<1>3. ASSUME NEW r \in Path, WriteFile(q, r) \/ RepairFile(q, r) \/ Unlink(q, r)
      PROVE  p \in checked[q]
  BY <1>3 DEF Touches, WriteFile, RepairFile, Put, Unlink, TypeOK
<1>4. CASE Continues(q)
  <2>1. p \in checked[q]
    BY <1>3, <1>4 DEF Continues, Touches, WriteBridge, WriteCheckpoint, WriteFinal, EndInstall,
         DropLedger, Refresh, EndRepair, CheckFile, Reconcile, Remove, Examine
  <2> QED BY <2>1 DEF Cleared
<1>5. ASSUME Spoil(q)
      PROVE  p \in checked[q]
  BY <1>5 DEF Spoil, Touches, TypeOK
<1>6. CASE Fails(q)
  <2>1. p \in checked[q]
    BY <1>5, <1>6 DEF Fails, Touches, FailWrite, FailFinal, FailRepair, Crash
  <2> QED BY <2>1 DEF Cleared
<1>7. proc' # proc
  BY DEF Touches
<1>8. CASE UNCHANGED vars
  BY <1>7, <1>8 DEF vars
<1>9. ASSUME NEW r \in Path, NEW bytes \in User \cup {None}, UserChanges(r, bytes)
      PROVE  FALSE
  BY <1>7, <1>9 DEF UserChanges
<1> QED BY <1>1, <1>2, <1>4, <1>6, <1>7, <1>8, <1>9 DEF Next

LEMMA TouchedIsOurs ==
  ASSUME Safe, NEW q \in Process, NEW p \in Ours, Unchanged(proc[q], p)
  PROVE  file[p] \notin User
  BY DEF Safe, CallIsSafe, Unchanged

(* Without repairs, and with nobody editing a file between a call's check   *)
(* of it and the write or removal, or between a write and its digest:       *)
(* whatever fails or is killed, and however many installs and uninstalls    *)
(* run at once, a user's bytes are only replaced by an install that found   *)
(* the file recorded as ECC's own.                                          *)
THEOREM UserBytesStay ==
  ASSUME ~EditsUnderHash, ~EditsUnderCheck, "repair" \notin Operations
  PROVE  Spec => UserBytesAreKept
<1>1. ASSUME Safe, Cleared, [Next]_vars
      PROVE  [\A q \in Process, p \in Path :
               Touches(q, p) /\ file[p] \in User =>
                 /\ proc[q].at \in {"writing", "repairing"}
                 /\ p \in proc[q].previous.managed]_vars
  <2> SUFFICES ASSUME NEW q \in Process, NEW p \in Path, Touches(q, p), file[p] \in User
               PROVE  /\ proc[q].at \in {"writing", "repairing"}
                      /\ p \in proc[q].previous.managed
    OBVIOUS
  <2>1. file[p] # None
    BY ContentAssumption
  <2>2. ~Unchanged(proc[q], p)
    BY <1>1, TouchedIsOurs DEF Ours
  <2>3. proc[q].at \in {"writing", "repairing"} /\ ~Refused(proc[q], p)
    BY <1>1, <2>2, WhatIsTouched DEF Safe, Passed
  <2> QED BY <2>1, <2>3 DEF Refused
<1>2. Safe /\ Cleared /\ [Next]_vars => Safe' /\ Cleared'
  BY SafeInvariance, ClearedInvariance DEF Safe
<1> QED BY <1>1, <1>2, SafeInit, ClearedInit, PTL DEF Spec, UserBytesAreKept

(* The same for configuration files, with repairs, too: what a user made of *)
(* them before a call checked them stays.                                   *)
THEOREM ConfigStays ==
  ASSUME ~EditsUnderHash, ~EditsUnderCheck
  PROVE  Spec => ConfigIsTheUsers
<1>1. ASSUME Safe, Cleared, [Next]_vars
      PROVE  [\A q \in Process, p \in Config : Touches(q, p) => file[p] \notin User]_vars
  <2> SUFFICES ASSUME NEW q \in Process, NEW p \in Config, Touches(q, p), file[p] \in User
               PROVE  FALSE
    OBVIOUS
  <2>1. file[p] # None /\ p \in Path /\ p \in Ours
    BY ContentAssumption, PathsAssumption DEF Ours
  <2>2. ~Unchanged(proc[q], p)
    BY <1>1, <2>1, TouchedIsOurs
  <2>3. ~Edited(proc[q].previous, p)
    BY <1>1, <2>1, <2>2, WhatIsTouched DEF Safe, Passed, Refused
  <2>4. file[p] = proc[q].previous.digest[p]
    BY <2>1, <2>3 DEF Edited
  <2> QED BY <2>1, <2>2, <2>4 DEF Unchanged
<1>2. Safe /\ Cleared /\ [Next]_vars => Safe' /\ Cleared'
  BY SafeInvariance, ClearedInvariance DEF Safe
<1> QED BY <1>1, <1>2, SafeInit, ClearedInit, PTL DEF Spec, ConfigIsTheUsers
-----------------------------------------------------------------------------
(* ONE CALL AT A TIME                                                       *)

Owned(p, bytes) == bytes[p] \in Version

(* What a call relies on, of the bytes, the recorded paths, and the paths   *)
(* that were given up.                                                      *)
Knows(c, bytes, managed, gone) ==
  /\ c.at \in Installing =>
       /\ c.todo \subseteq Applied(c) /\ Applied(c) \cap Excluded(c) = {}
       /\ \A p \in Path : Owned(p, bytes) => p \in c.previous.managed \cup c.written \cup gone
  /\ c.at \in {"bridging", "refreshing"} => managed = c.previous.managed
  /\ c.at \in {"writing", "failing"} => managed = Bridge(c).managed
  /\ c.at = "finishing" =>
       \/ managed = Bridge(c).managed
       \/ managed = c.previous.managed /\ Applied(c) = {}
  /\ c.at = "refreshing" => c.todo \subseteq Merged(c).managed
  /\ c.at = "repairing" => /\ c.todo \subseteq managed
                          /\ managed \in {c.previous.managed, Merged(c).managed}
  /\ c.at = "removing" =>
       \A p \in Path : Owned(p, bytes) => p \in c.todo \cup c.skipped \cup gone

Recorded ==
  /\ TypeOK
  /\ OwnedIsRecorded
  /\ \A q \in Process : Knows(proc[q], file, ledger.managed, forgotten)

Alone == \A q, r \in Process : q = r

LEMMA RecordedStep ==
  ASSUME Recorded, Alone, TypeOK', OwnedIsRecorded', NEW q \in Process, NEW m \in Call,
         proc' = [proc EXCEPT ![q] = m], Knows(m, file', ledger'.managed, forgotten')
  PROVE  Recorded'
<1>1. ASSUME NEW r \in Process
      PROVE  Knows(proc'[r], file', ledger'.managed, forgotten')
  BY DEF Alone, Recorded, TypeOK
<1> QED BY <1>1 DEF Recorded

(* Calls that agree on what they were asked plan the same.                  *)
LEMMA SamePlan ==
  ASSUME NEW c \in Call, NEW m \in Call,
         m.previous = c.previous, m.plan = c.plan, m.skipped = c.skipped,
         m.modules = c.modules, m.version = c.version
  PROVE  /\ Merged(m) = Merged(c) /\ Bridge(m) = Bridge(c)
         /\ Applied(m) = Applied(c) /\ Excluded(m) = Excluded(c)
  BY DEF Merged, Bridge, Applied, Excluded

LEMMA IdleKnows ==
  ASSUME NEW bytes, NEW managed, NEW gone PROVE Knows(Idle, bytes, managed, gone)
  BY DEF Knows, Idle, Installing

LEMMA EndIsRecorded ==
  ASSUME Recorded, Alone, TypeOK', OwnedIsRecorded', NEW q \in Process, End(q)
  PROVE  Recorded'
  BY IdleKnows, IdleType, RecordedStep DEF End

LEMMA PutIsRecorded ==
  ASSUME Recorded, Alone, TypeOK', NEW q \in Process, NEW p \in Path, NEW next \in Label,
         Put(q, p, next),
         \/ proc[q].at = "writing" /\ next = "finishing"
         \/ proc[q].at = "repairing" /\ next = "repairing"
  PROVE  Recorded'
<1> DEFINE c == proc[q]
           m == AfterPut(c, p, next)
<1>1. c \in Call /\ m \in Call /\ proc' = [proc EXCEPT ![q] = m]
  BY PutMeans DEF Recorded
<1>2. Knows(c, file, ledger.managed, forgotten) /\ p \in c.todo
  BY DEF Recorded, Put
<1>3. /\ file' = [file EXCEPT ![p] = c.version] /\ ledger' = ledger /\ forgotten' = forgotten \ {p}
      /\ file \in [Path -> Content \cup {None}]
  BY DEF Put, Recorded, TypeOK
<1>4. \/ c.at = "writing" /\ next = "finishing"
      \/ c.at = "repairing" /\ next = "repairing"
  OBVIOUS
<1>5. OwnedIsRecorded
  BY DEF Recorded
<1> HIDE DEF c
<1>6. /\ m.written = c.written \cup {p} /\ m.todo = c.todo \ {p}
      /\ m.previous = c.previous /\ m.plan = c.plan /\ m.skipped = c.skipped
      /\ m.modules = c.modules /\ m.version = c.version
      /\ m.at = IF c.todo = {p} THEN next ELSE c.at
  BY <1>1 DEF AfterPut, Call
<1> HIDE DEF m
<1>7. /\ Merged(m) = Merged(c) /\ Bridge(m) = Bridge(c)
      /\ Applied(m) = Applied(c) /\ Excluded(m) = Excluded(c)
  BY <1>1, <1>6, SamePlan
<1>8. Bridge(c).managed = ((c.previous.managed \cup c.plan) \ c.skipped) \ Excluded(c)
  BY <1>1, BridgeType, MergedType DEF Recorded
<1>9. p \in ledger.managed
  <2>1. CASE c.at = "writing"
    BY <1>2, <1>8, <2>1 DEF Knows, Installing, Applied
  <2>2. CASE c.at = "repairing"
    BY <1>2, <2>2 DEF Knows
  <2> QED BY <1>4, <2>1, <2>2
<1>10. OwnedIsRecorded'
  BY <1>3, <1>5, <1>9 DEF OwnedIsRecorded
<1>11. Knows(m, file', ledger'.managed, forgotten')
  <2>1. CASE c.at = "writing" /\ next = "finishing"
    <3>1. \A r \in Path : Owned(r, file') => r \in m.previous.managed \cup m.written \cup forgotten'
      BY <1>2, <1>3, <1>6, <2>1 DEF Knows, Installing, Owned
    <3>2. m.todo \subseteq Applied(m) /\ Applied(m) \cap Excluded(m) = {}
      BY <1>2, <1>6, <1>7, <2>1 DEF Knows, Installing
    <3>3. ledger'.managed = Bridge(m).managed
      BY <1>2, <1>3, <1>7, <2>1 DEF Knows
    <3> QED BY <1>6, <2>1, <3>1, <3>2, <3>3 DEF Knows
  <2>2. CASE c.at = "repairing" /\ next = "repairing"
    <3>1. m.at = "repairing"
      BY <1>6, <2>2
    <3>2. m.todo \subseteq ledger'.managed /\ ledger'.managed \in {m.previous.managed, Merged(m).managed}
      BY <1>2, <1>3, <1>6, <1>7, <2>2 DEF Knows
    <3> QED BY <3>1, <3>2 DEF Knows, Installing
  <2> QED BY <1>4, <2>1, <2>2
<1> QED BY <1>1, <1>10, <1>11, RecordedStep

LEMMA StartsAreRecorded ==
  ASSUME Recorded, Alone, TypeOK', NEW q \in Process, Starts(q)
  PROVE  Recorded'
<1>0. UNCHANGED <<file, ledger, forgotten>>
  BY DEF Starts, StartInstall, StartUninstall, StartRepair
<1>1. OwnedIsRecorded /\ OwnedIsRecorded' /\ TypeOK /\ proc'[q] \in Call
  BY <1>0 DEF Recorded, OwnedIsRecorded, TypeOK
<1>2. ASSUME NEW version \in Version, NEW modules \in SUBSET Module,
             StartInstall(q, version, modules)
      PROVE  Recorded'
  <2> DEFINE plan == Planned(version, modules)
             skipped == Skipped(ledger, plan)
             m == [at |-> IF plan \subseteq skipped THEN "finishing" ELSE "bridging",
                   version |-> version, modules |-> modules, previous |-> ledger,
                   plan |-> plan, skipped |-> skipped,
                   todo |-> plan \ skipped, written |-> {}]
  <2>1. proc' = [proc EXCEPT ![q] = m]
    BY <1>2 DEF StartInstall
  <2>2. m \in Call
    BY <1>1, <2>1 DEF TypeOK
  <2>3. plan \cap Excludes[version] = {}
    BY DEF Planned
  <2> HIDE DEF plan, skipped
  <2>4. /\ m.at \in {"finishing", "bridging"} /\ m.previous = ledger /\ m.todo = Applied(m)
        /\ Applied(m) \cap Excluded(m) = {} /\ m.written = {}
        /\ m.at = "finishing" => Applied(m) = {}
    BY <2>3 DEF Applied, Excluded
  <2> HIDE DEF m
  <2>5. Knows(m, file', ledger'.managed, forgotten')
    BY <1>0, <1>1, <2>4 DEF Knows, OwnedIsRecorded, Owned
  <2> QED BY <1>1, <2>1, <2>2, <2>5, RecordedStep
<1>3. ASSUME StartUninstall(q)
      PROVE  Recorded'
  <2> DEFINE m == [Idle EXCEPT !.at = "removing", !.previous = ledger, !.todo = ledger.managed]
  <2>1. proc' = [proc EXCEPT ![q] = m]
    BY <1>3 DEF StartUninstall
  <2>2. m \in Call
    BY <1>1, <2>1 DEF TypeOK
  <2>3. m.at = "removing" /\ m.todo = ledger.managed
    BY DEF Idle
  <2> HIDE DEF m
  <2>4. Knows(m, file', ledger'.managed, forgotten')
    BY <1>0, <1>1, <2>3 DEF Knows, OwnedIsRecorded, Owned, Installing
  <2> QED BY <1>1, <2>1, <2>2, <2>4, RecordedStep
<1>4. ASSUME NEW version \in Version, StartRepair(q, version)
      PROVE  Recorded'
  <2> DEFINE plan == Planned(version, ledger.modules)
             c == [Idle EXCEPT !.version = version, !.modules = ledger.modules,
                               !.previous = ledger, !.plan = plan,
                               !.skipped = Skipped(ledger, plan)]
             m == [c EXCEPT !.at = IF Applied(c) # {} /\ Broken(c) # {}
                                     THEN "refreshing" ELSE "repairing",
                            !.todo = Broken(c)]
  <2>1. proc' = [proc EXCEPT ![q] = m]
    BY <1>4 DEF StartRepair
  <2>2. m \in Call
    BY <1>1, <2>1 DEF TypeOK
  <2>3. plan \in SUBSET Path /\ Skipped(ledger, plan) \in SUBSET Path /\ ledger.modules \in SUBSET Module
    BY <1>1, PlannedType, SkippedType DEF TypeOK, Ledger
  <2>4. c \in Call /\ c.previous = ledger
    BY <1>1, <2>3, IdleType DEF TypeOK, Call
  <2> HIDE DEF c
  <2>5. /\ m.previous = c.previous /\ m.plan = c.plan /\ m.skipped = c.skipped
        /\ m.modules = c.modules /\ m.version = c.version /\ m.todo = Broken(c)
        /\ m.at = IF Applied(c) # {} /\ Broken(c) # {} THEN "refreshing" ELSE "repairing"
    BY <2>4 DEF Call
  <2>6. Broken(c) \subseteq Merged(c).managed
    BY DEF Broken, Desired
  <2> HIDE DEF m
  <2>7. Merged(m) = Merged(c)
    BY <2>2, <2>4, <2>5, SamePlan
  <2>8. m.at = "repairing" => m.todo \subseteq ledger.managed
    <3>1. CASE Broken(c) = {}
      BY <2>5, <3>1
    <3>2. CASE Applied(c) = {}
      BY <1>1, <2>4, <2>5, <2>6, <3>2, MergedType DEF Applied
    <3> QED BY <2>5, <3>1, <3>2
  <2>9. Knows(m, file', ledger'.managed, forgotten')
    BY <1>0, <2>4, <2>5, <2>6, <2>7, <2>8 DEF Knows, Installing
  <2> QED BY <1>1, <2>1, <2>2, <2>9, RecordedStep
<1> QED BY <1>2, <1>3, <1>4 DEF Starts

(* A ledger that lists what the last one did, except for what is given up.  *)
LEMMA RecordKeepsOwned ==
  ASSUME OwnedIsRecorded, NEW c \in Call, NEW l \in Ledger, Record(c, l), UNCHANGED file,
         \A p \in ledger.managed : p \in c.previous.managed \cup l.managed
  PROVE  OwnedIsRecorded'
  BY DEF OwnedIsRecorded, Record

LEMMA StillIsRecorded ==
  ASSUME Recorded, TypeOK', UNCHANGED <<file, ledger, proc, forgotten>>
  PROVE  Recorded'
  BY DEF Recorded, OwnedIsRecorded

LEMMA ContinuesIsRecorded ==
  ASSUME Recorded, Alone, TypeOK', NEW q \in Process, Continues(q)
  PROVE  Recorded'
<1> DEFINE c == proc[q]
<1>0. /\ c \in Call /\ TypeOK /\ file \in [Path -> Content \cup {None}] /\ ledger.managed \subseteq Path
      /\ forgotten \subseteq Path
  BY DEF Recorded, TypeOK, Ledger
<1>a. Knows(c, file, ledger.managed, forgotten) /\ OwnedIsRecorded
  BY DEF Recorded
<1>b. /\ Merged(c).managed = (c.previous.managed \cup c.plan) \ c.skipped
      /\ Bridge(c).managed = Merged(c).managed \ Excluded(c)
      /\ Final(c).managed = Bridge(c).managed \ Stale(c)
      /\ Refreshed(c).managed = Merged(c).managed
      /\ Bridge(c) \in Ledger /\ Final(c) \in Ledger /\ Refreshed(c) \in Ledger
  BY <1>0, MergedType, BridgeType, FinalType, RefreshedType
<1>c. ASSUME NEW l \in Label, Goto(q, l)
      PROVE  \E m \in Call : /\ proc' = [proc EXCEPT ![q] = m] /\ m.at = l
                             /\ m.previous = c.previous /\ m.todo = c.todo /\ m.written = c.written
                             /\ Merged(m) = Merged(c) /\ Bridge(m) = Bridge(c)
                             /\ Applied(m) = Applied(c) /\ Excluded(m) = Excluded(c)
  <2> DEFINE m == [c EXCEPT !.at = l]
  <2>1. proc' = [proc EXCEPT ![q] = m]
    BY <1>c DEF Goto
  <2>2. /\ m \in Call /\ m.at = l /\ m.todo = c.todo /\ m.written = c.written
        /\ m.previous = c.previous /\ m.plan = c.plan /\ m.skipped = c.skipped
        /\ m.modules = c.modules /\ m.version = c.version
    BY <1>0, <1>c DEF Call
  <2> HIDE DEF m
  <2> QED BY <1>0, <2>1, <2>2, SamePlan
<1>1. CASE WriteBridge(q)
  <2>1. c.at = "bridging" /\ Record(c, Bridge(c)) /\ UNCHANGED file /\ Goto(q, "writing")
    BY <1>1 DEF WriteBridge, At
  <2>2. OwnedIsRecorded'
    BY <1>0, <1>a, <1>b, <2>1, RecordKeepsOwned DEF Knows
  <2>3. PICK m \in Call : /\ proc' = [proc EXCEPT ![q] = m] /\ m.at = "writing"
                          /\ m.previous = c.previous /\ m.todo = c.todo /\ m.written = c.written
                          /\ Merged(m) = Merged(c) /\ Bridge(m) = Bridge(c)
                          /\ Applied(m) = Applied(c) /\ Excluded(m) = Excluded(c)
    BY <1>c, <2>1 DEF Label, Installing
  <2>4. ledger'.managed = Bridge(c).managed /\ forgotten \subseteq forgotten'
    BY <2>1 DEF Record
  <2>5. Knows(m, file', ledger'.managed, forgotten')
    BY <1>a, <2>1, <2>3, <2>4 DEF Knows, Installing, Owned
  <2> QED BY <2>2, <2>3, <2>5, RecordedStep
<1>2. CASE WriteCheckpoint(q)
  <2>1. c.at = "failing" /\ ledger' = Checkpoint(c) /\ End(q) /\ UNCHANGED <<file, forgotten>>
    BY <1>2 DEF WriteCheckpoint, At
  <2>2. ASSUME NEW p \in Path, file[p] \in Version
        PROVE  p \in ledger'.managed \cup forgotten
    <3>1. p \in c.previous.managed \cup c.written \cup forgotten
      BY <1>a, <2>1, <2>2 DEF Knows, Installing, Owned
    <3>2. p \in Bridge(c).managed \cup forgotten
      BY <1>a, <2>1, <2>2 DEF Knows, OwnedIsRecorded
    <3> QED BY <1>0, <2>1, <3>1, <3>2, CheckpointType
  <2>3. OwnedIsRecorded'
    BY <2>1, <2>2 DEF OwnedIsRecorded
  <2> QED BY <2>1, <2>3, EndIsRecorded
<1>3. CASE WriteFinal(q)
  <2>1. c.at = "finishing" /\ Record(c, Final(c)) /\ UNCHANGED file
    BY <1>3 DEF WriteFinal, At
  <2>2. ASSUME NEW p \in ledger.managed
        PROVE  p \in c.previous.managed \cup Final(c).managed
    <3>1. p \in c.previous.managed \/ p \in Bridge(c).managed
      BY <1>a, <2>1 DEF Knows
    <3>2. p \in Stale(c) => p \notin c.plan
      BY DEF Stale
    <3> QED BY <1>b, <3>1, <3>2
  <2>3. OwnedIsRecorded'
    BY <1>0, <1>a, <1>b, <2>1, <2>2, RecordKeepsOwned
  <2>4. PICK m \in Call : proc' = [proc EXCEPT ![q] = m] /\ m.at = "reconciling"
    <3> DEFINE m == [Idle EXCEPT !.at = "reconciling", !.previous = c.previous,
                                 !.todo = Stale(c) \cup Excluded(c)]
    <3>1. proc' = [proc EXCEPT ![q] = m]
      BY <1>3 DEF WriteFinal
    <3>2. m \in Call
      BY <1>0, <3>1 DEF TypeOK
    <3>3. m.at = "reconciling"
      BY DEF Idle
    <3> HIDE DEF m
    <3> QED BY <3>1, <3>2, <3>3
  <2>5. Knows(m, file', ledger'.managed, forgotten')
    BY <2>4 DEF Knows, Installing
  <2> QED BY <2>3, <2>4, <2>5, RecordedStep
<1>4. CASE EndInstall(q)
  BY <1>4, <1>a, EndIsRecorded DEF EndInstall, OwnedIsRecorded
<1>5. CASE DropLedger(q)
  <2>1. /\ c.at = "removing" /\ c.todo = {} /\ End(q) /\ UNCHANGED <<file, forgotten>>
        /\ ledger' = IF c.skipped = {} THEN NoLedger ELSE ledger
    BY <1>5 DEF DropLedger, At
  <2>2. CASE c.skipped = {}
    <3>1. OwnedIsRecorded'
      BY <1>a, <2>1, <2>2 DEF Knows, OwnedIsRecorded, Owned
    <3> QED BY <2>1, <3>1, EndIsRecorded
  <2>3. CASE c.skipped # {}
    BY <1>a, <2>1, <2>3, EndIsRecorded DEF OwnedIsRecorded
  <2> QED BY <2>2, <2>3
<1>6. CASE Refresh(q)
  <2>1. c.at = "refreshing" /\ Record(c, Refreshed(c)) /\ UNCHANGED file /\ Goto(q, "repairing")
    BY <1>6 DEF Refresh, At
  <2>2. OwnedIsRecorded'
    BY <1>0, <1>a, <1>b, <2>1, RecordKeepsOwned DEF Knows
  <2>3. PICK m \in Call : /\ proc' = [proc EXCEPT ![q] = m] /\ m.at = "repairing"
                          /\ m.previous = c.previous /\ m.todo = c.todo /\ m.written = c.written
                          /\ Merged(m) = Merged(c) /\ Bridge(m) = Bridge(c)
                          /\ Applied(m) = Applied(c) /\ Excluded(m) = Excluded(c)
    BY <1>c, <2>1 DEF Label, Repairing
  <2>4. ledger'.managed = Merged(c).managed
    BY <1>b, <2>1 DEF Record
  <2>5. Knows(m, file', ledger'.managed, forgotten')
    BY <1>a, <2>1, <2>3, <2>4 DEF Knows, Installing
  <2> QED BY <2>2, <2>3, <2>5, RecordedStep
<1>7. CASE EndRepair(q)
  <2>1. c.at = "repairing" /\ Record(c, Refreshed(c)) /\ UNCHANGED file /\ End(q)
    BY <1>7 DEF EndRepair, At
  <2>2. OwnedIsRecorded'
    BY <1>0, <1>a, <1>b, <2>1, RecordKeepsOwned DEF Knows
  <2> QED BY <2>1, <2>2, EndIsRecorded
<1>8. ASSUME NEW p \in Path, WriteFile(q, p)
      PROVE  Recorded'
  BY <1>8, PutIsRecorded DEF WriteFile, At, Label, Installing
<1>9. ASSUME NEW p \in Path, Reconcile(q, p)
      PROVE  Recorded'
  <2>1. c.at = "reconciling" /\ UNCHANGED <<file, ledger, forgotten>>
    BY <1>0, <1>9, ReconcileMeans
  <2>2. CASE UNCHANGED proc
    BY <2>1, <2>2, StillIsRecorded
  <2>3. CASE proc' = [proc EXCEPT ![q] = Less(c, p)]
    <3>1. Knows(Less(c, p), file', ledger'.managed, forgotten')
      BY <1>0, <2>1, LessMeans DEF Knows, Installing
    <3>2. OwnedIsRecorded'
      BY <1>a, <2>1 DEF OwnedIsRecorded
    <3> QED BY <1>0, <2>3, <3>1, <3>2, LessMeans, RecordedStep
  <2> QED BY <1>0, <1>9, <2>2, <2>3, ReconcileMeans
<1>10. ASSUME NEW p \in Path, Remove(q, p)
       PROVE  Recorded'
  <2>1. c.at = "removing" /\ UNCHANGED <<file, ledger, forgotten>>
    BY <1>0, <1>10, RemoveMeans
  <2>2. CASE UNCHANGED proc
    BY <2>1, <2>2, StillIsRecorded
  <2>3. CASE proc' = [proc EXCEPT ![q] = Declined(c, p)]
    <3> DEFINE m == Declined(c, p)
    <3>a. /\ m.at = c.at /\ m.todo = c.todo \ {p}
          /\ m.skipped = IF file[p] = None THEN c.skipped ELSE c.skipped \cup {p}
      BY <1>0, LessMeans
    <3> HIDE DEF m
    <3>b. Knows(m, file', ledger'.managed, forgotten')
      BY <1>a, <2>1, <3>a, ContentAssumption DEF Knows, Installing, Owned
    <3>1. Knows(Declined(c, p), file', ledger'.managed, forgotten')
      BY <3>b DEF m
    <3>2. OwnedIsRecorded'
      BY <1>a, <2>1 DEF OwnedIsRecorded
    <3> QED BY <1>0, <2>3, <3>1, <3>2, LessMeans, RecordedStep
  <2> QED BY <1>0, <1>10, <2>2, <2>3, RemoveMeans
<1>11. ASSUME NEW p \in Path, RepairFile(q, p)
       PROVE  Recorded'
  BY <1>11, PutIsRecorded DEF RepairFile, At, Label, Repairing
<1>12. ASSUME NEW p \in Path, CheckFile(q, p)
       PROVE  Recorded'
  BY <1>12, StillIsRecorded DEF CheckFile
<1>13. ASSUME NEW p \in Path, Unlink(q, p)
       PROVE  Recorded'
  <2>1. /\ c.at \in {"reconciling", "removing"} /\ file' = [file EXCEPT ![p] = None]
        /\ proc' = [proc EXCEPT ![q] = Less(c, p)] /\ UNCHANGED <<ledger, forgotten>>
    BY <1>0, <1>13, UnlinkMeans
  <2>2. OwnedIsRecorded'
    BY <1>0, <1>a, <2>1, ContentAssumption DEF OwnedIsRecorded
  <2>3. Knows(Less(c, p), file', ledger'.managed, forgotten')
    <3> DEFINE m == Less(c, p)
    <3>1. m.at = c.at /\ m.todo = c.todo \ {p} /\ m.skipped = c.skipped
      BY <1>0, LessMeans
    <3> HIDE DEF m
    <3>2. Knows(m, file', ledger'.managed, forgotten')
      BY <1>0, <1>a, <2>1, <3>1, ContentAssumption DEF Knows, Installing, Owned
    <3> QED BY <3>2 DEF m
  <2> QED BY <1>0, <2>1, <2>2, <2>3, LessMeans, RecordedStep
<1> QED
  BY <1>1, <1>2, <1>3, <1>4, <1>5, <1>6, <1>7, <1>8, <1>9, <1>10, <1>11, <1>12, <1>13
     DEF Continues

LEMMA SpoilIsRecorded ==
  ASSUME TypeOK, NEW q \in Process, Spoil(q)
  PROVE  \A p \in Path : file'[p] \in Version => file[p] \in Version
  BY ContentAssumption DEF Spoil, TypeOK

LEMMA FailsIsRecorded ==
  ASSUME Recorded, Alone, TypeOK', NEW q \in Process, Fails(q)
  PROVE  Recorded'
<1> DEFINE c == proc[q]
<1>0. c \in Call /\ TypeOK /\ Knows(c, file, ledger.managed, forgotten) /\ OwnedIsRecorded
  BY DEF Recorded, TypeOK
<1>1. CASE FailWrite(q)
  <2> DEFINE m == AfterFailure(c)
  <2>1. proc' = [proc EXCEPT ![q] = m] /\ m \in Call
    BY <1>0, <1>1, FailWriteMeans
  <2>2. /\ m.at = "failing" /\ m.written = c.written /\ m.todo = {}
        /\ m.previous = c.previous /\ m.plan = c.plan /\ m.skipped = c.skipped
        /\ m.modules = c.modules /\ m.version = c.version
    BY <1>0 DEF AfterFailure, Call
  <2>3. c.at = "writing" /\ UNCHANGED <<ledger, forgotten>>
    BY <1>1 DEF FailWrite, At
  <2>4. \A p \in Path : file'[p] \in Version => file[p] \in Version
    BY <1>0, <1>1, SpoilIsRecorded DEF FailWrite
  <2> HIDE DEF m
  <2>5. Bridge(m) = Bridge(c) /\ Applied(m) = Applied(c) /\ Excluded(m) = Excluded(c)
    BY <1>0, <2>1, <2>2, SamePlan
  <2>6. Knows(m, file', ledger'.managed, forgotten')
    BY <1>0, <2>2, <2>3, <2>4, <2>5 DEF Knows, Installing, Owned
  <2>7. OwnedIsRecorded'
    BY <1>0, <2>3, <2>4 DEF OwnedIsRecorded
  <2> QED BY <2>1, <2>6, <2>7, RecordedStep
<1>2. CASE FailFinal(q)
  <2>1. c.at = "finishing" /\ UNCHANGED <<file, ledger, forgotten>>
    BY <1>2 DEF FailFinal, At
  <2>2. OwnedIsRecorded'
    BY <1>0, <2>1 DEF OwnedIsRecorded
  <2>3. CASE End(q)
    BY <2>2, <2>3, EndIsRecorded
  <2>4. CASE Applied(c) # {} /\ Goto(q, "failing")
    <3> DEFINE m == [c EXCEPT !.at = "failing"]
    <3>1. proc' = [proc EXCEPT ![q] = m]
      BY <2>4 DEF Goto
    <3>2. /\ m \in Call /\ m.at = "failing" /\ m.written = c.written /\ m.todo = c.todo
          /\ m.previous = c.previous /\ m.plan = c.plan /\ m.skipped = c.skipped
          /\ m.modules = c.modules /\ m.version = c.version
      BY <1>0 DEF Call, Label, Installing
    <3> HIDE DEF m
    <3>3. Bridge(m) = Bridge(c) /\ Applied(m) = Applied(c) /\ Excluded(m) = Excluded(c)
      BY <1>0, <3>2, SamePlan
    <3>4. Knows(m, file', ledger'.managed, forgotten')
      BY <1>0, <2>1, <2>4, <3>2, <3>3 DEF Knows, Installing, Owned
    <3> QED BY <2>2, <3>1, <3>2, <3>4, RecordedStep
  <2> QED BY <1>2, <2>3, <2>4 DEF FailFinal
<1>3. CASE FailRepair(q)
  <2>1. OwnedIsRecorded'
    BY <1>0, <1>3, SpoilIsRecorded DEF FailRepair, OwnedIsRecorded
  <2> QED BY <1>3, <2>1, EndIsRecorded DEF FailRepair
<1>4. CASE Crash(q)
  BY <1>0, <1>4, EndIsRecorded DEF Crash, OwnedIsRecorded
<1> QED BY <1>1, <1>2, <1>3, <1>4 DEF Fails

LEMMA RecordedInit == Init => Recorded
  BY TypeInit, IdleKnows, ContentAssumption DEF Init, Recorded, OwnedIsRecorded

LEMMA RecordedInvariance == Alone /\ Recorded /\ [Next]_vars => Recorded'
<1> SUFFICES ASSUME Alone, Recorded, [Next]_vars PROVE Recorded'
  OBVIOUS
<1>0. TypeOK'
  BY TypeInvariance DEF Recorded
<1>1. ASSUME NEW q \in Process, Starts(q) \/ Continues(q) \/ Fails(q)
      PROVE  Recorded'
  BY <1>0, <1>1, StartsAreRecorded, ContinuesIsRecorded, FailsIsRecorded
<1>2. ASSUME NEW p \in Path, NEW bytes \in User \cup {None}, UserChanges(p, bytes)
      PROVE  Recorded'
  <2>1. UNCHANGED <<ledger, proc, forgotten>> /\ file' = [file EXCEPT ![p] = bytes]
    BY <1>2 DEF UserChanges
  <2>2. \A r \in Path : file'[r] \in Version => file[r] \in Version
    BY <2>1, ContentAssumption DEF Recorded, TypeOK
  <2>3. OwnedIsRecorded'
    BY <2>1, <2>2 DEF Recorded, OwnedIsRecorded
  <2>4. ASSUME NEW q \in Process
        PROVE  Knows(proc[q], file', ledger.managed, forgotten)
    <3>1. Knows(proc[q], file, ledger.managed, forgotten)
      BY DEF Recorded
    <3> QED BY <2>2, <3>1 DEF Knows, Owned
  <2> QED BY <1>0, <2>1, <2>3, <2>4 DEF Recorded
<1>3. CASE UNCHANGED vars
  BY <1>0, <1>3 DEF Recorded, OwnedIsRecorded, vars
<1> QED BY <1>1, <1>2, <1>3 DEF Next

(* One call at a time, whatever fails or is killed and whatever users do,   *)
(* repairs that end in the middle included: ECC knows its files.            *)
THEOREM OwnedStaysRecorded ==
  ASSUME Alone
  PROVE  Spec => []OwnedIsRecorded
<1>1. Recorded => OwnedIsRecorded
  BY DEF Recorded
<1> QED BY <1>1, RecordedInit, RecordedInvariance, PTL DEF Spec
-----------------------------------------------------------------------------
(* WITH REPAIRS                                                             *)

(* A repair replaces bytes of users that it found recorded as ECC's own;    *)
(* its install state names them until the last of them is replaced.  What   *)
(* such a call has still to do accounts for them.                           *)
Accounts(c, bytes, digest) ==
  /\ \A p \in Path : c.previous.digest[p] \notin User
  /\ c.at # "repairing" => \A p \in Path : digest[p] \notin User
  /\ c.at \in Repairing => \A p \in Merged(c).managed : bytes[p] \in User => p \in c.todo

Accounted ==
  /\ Safe
  /\ \A q \in Process : Accounts(proc[q], file, ledger.digest)

LEMMA AccountedStep ==
  ASSUME Accounted, Alone, Safe', NEW q \in Process, NEW m \in Call,
         proc' = [proc EXCEPT ![q] = m], Accounts(m, file', ledger'.digest)
  PROVE  Accounted'
<1>1. ASSUME NEW r \in Process
      PROVE  Accounts(proc'[r], file', ledger'.digest)
  BY DEF Alone, Accounted, Safe, TypeOK
<1> QED BY <1>1 DEF Accounted

(* A call ends when the digests name no bytes of users.                     *)
LEMMA EndIsAccounted ==
  ASSUME Accounted, Alone, Safe', NEW q \in Process, End(q),
         \A p \in Path : ledger'.digest[p] \notin User
  PROVE  Accounted'
<1>1. Accounts(Idle, file', ledger'.digest)
  BY ContentAssumption DEF Accounts, Idle, NoLedger, Repairing
<1> QED BY <1>1, IdleType, AccountedStep DEF End

LEMMA PutIsAccounted ==
  ASSUME Accounted, Alone, Safe', NEW q \in Process, NEW p \in Path, NEW next \in Label,
         Put(q, p, next),
         \/ proc[q].at = "writing" /\ next = "finishing"
         \/ proc[q].at = "repairing" /\ next = "repairing"
  PROVE  Accounted'
<1> DEFINE c == proc[q]
           m == AfterPut(c, p, next)
<1>1. c \in Call /\ m \in Call /\ proc' = [proc EXCEPT ![q] = m]
  BY PutMeans DEF Accounted, Safe
<1>2. Accounts(c, file, ledger.digest) /\ c.version \notin User
  BY PutMeans, ContentAssumption DEF Accounted, Safe
<1>3. /\ file' = [file EXCEPT ![p] = c.version] /\ ledger' = ledger
      /\ file \in [Path -> Content \cup {None}]
  BY DEF Put, Accounted, Safe, TypeOK
<1>4. \/ c.at = "writing" /\ next = "finishing"
      \/ c.at = "repairing" /\ next = "repairing"
  OBVIOUS
<1> HIDE DEF c
<1>5. /\ m.todo = c.todo \ {p} /\ m.previous = c.previous /\ m.plan = c.plan
      /\ m.skipped = c.skipped /\ m.modules = c.modules /\ m.version = c.version
      /\ m.at = IF c.todo = {p} THEN next ELSE c.at
  BY <1>1 DEF AfterPut, Call
<1> HIDE DEF m
<1>6. Merged(m) = Merged(c) /\ Merged(c).managed \subseteq Path
  BY <1>1, <1>5, SamePlan, MergedType DEF Accounted, Safe, Ledger
<1>7. Accounts(m, file', ledger'.digest)
  <2>1. CASE c.at = "writing" /\ next = "finishing"
    BY <1>2, <1>3, <1>5, <2>1 DEF Accounts, Repairing
  <2>2. CASE c.at = "repairing" /\ next = "repairing"
    BY <1>2, <1>3, <1>5, <1>6, <2>2 DEF Accounts, Repairing
  <2> QED BY <1>4, <2>1, <2>2
<1> QED BY <1>1, <1>7, AccountedStep

LEMMA StartsAreAccounted ==
  ASSUME Accounted, Alone, Safe', NEW q \in Process, Starts(q)
  PROVE  Accounted'
<1>0. UNCHANGED <<file, ledger, forgotten>> /\ proc[q].at = "idle"
  BY DEF Starts, StartInstall, StartUninstall, StartRepair, At
<1>1. TypeOK /\ proc'[q] \in Call /\ \A p \in Path : ledger.digest[p] \notin User
  BY <1>0 DEF Accounted, Accounts, Safe, TypeOK
<1>2. ASSUME NEW version \in Version, NEW modules \in SUBSET Module,
             StartInstall(q, version, modules)
      PROVE  Accounted'
  <2> DEFINE plan == Planned(version, modules)
             skipped == Skipped(ledger, plan)
             m == [at |-> IF plan \subseteq skipped THEN "finishing" ELSE "bridging",
                   version |-> version, modules |-> modules, previous |-> ledger,
                   plan |-> plan, skipped |-> skipped,
                   todo |-> plan \ skipped, written |-> {}]
  <2>1. proc' = [proc EXCEPT ![q] = m]
    BY <1>2 DEF StartInstall
  <2>2. m \in Call
    BY <1>1, <2>1 DEF Accounted, Safe, TypeOK
  <2> HIDE DEF plan, skipped
  <2>3. m.at \in {"finishing", "bridging"} /\ m.previous = ledger
    OBVIOUS
  <2> HIDE DEF m
  <2>4. Accounts(m, file', ledger'.digest)
    BY <1>0, <1>1, <2>3 DEF Accounts, Repairing
  <2> QED BY <2>1, <2>2, <2>4, AccountedStep
<1>3. ASSUME StartUninstall(q)
      PROVE  Accounted'
  <2> DEFINE m == [Idle EXCEPT !.at = "removing", !.previous = ledger, !.todo = ledger.managed]
  <2>1. proc' = [proc EXCEPT ![q] = m]
    BY <1>3 DEF StartUninstall
  <2>2. m \in Call
    BY <1>1, <2>1 DEF Accounted, Safe, TypeOK
  <2>3. m.at = "removing" /\ m.previous = ledger
    BY DEF Idle
  <2> HIDE DEF m
  <2>4. Accounts(m, file', ledger'.digest)
    BY <1>0, <1>1, <2>3 DEF Accounts, Repairing
  <2> QED BY <2>1, <2>2, <2>4, AccountedStep
<1>4. ASSUME NEW version \in Version, StartRepair(q, version)
      PROVE  Accounted'
  <2> DEFINE plan == Planned(version, ledger.modules)
             c == [Idle EXCEPT !.version = version, !.modules = ledger.modules,
                               !.previous = ledger, !.plan = plan,
                               !.skipped = Skipped(ledger, plan)]
             m == [c EXCEPT !.at = IF Applied(c) # {} /\ Broken(c) # {}
                                     THEN "refreshing" ELSE "repairing",
                            !.todo = Broken(c)]
  <2>1. proc' = [proc EXCEPT ![q] = m]
    BY <1>4 DEF StartRepair
  <2>2. m \in Call
    BY <1>1, <2>1 DEF Accounted, Safe, TypeOK
  <2>3. plan \in SUBSET Path /\ Skipped(ledger, plan) \in SUBSET Path /\ ledger.modules \in SUBSET Module
    BY <1>1, PlannedType, SkippedType DEF TypeOK, Ledger
  <2>4. c \in Call /\ c.previous = ledger /\ c.version = version
    BY <1>1, <2>3, IdleType DEF TypeOK, Call
  <2> HIDE DEF c
  <2>5. /\ m.previous = c.previous /\ m.plan = c.plan /\ m.skipped = c.skipped
        /\ m.modules = c.modules /\ m.version = c.version /\ m.todo = Broken(c)
    BY <2>4 DEF Call
  <2> HIDE DEF m
  <2>6. Merged(m) = Merged(c) /\ Merged(c).managed \subseteq Path
    BY <1>1, <2>2, <2>4, <2>5, SamePlan, MergedType DEF Ledger
  <2>7. ASSUME NEW p \in Merged(c).managed, file[p] \in User
        PROVE  p \in Broken(c)
    <3>1. file[p] # version /\ file[p] # ledger.digest[p]
      BY <1>1, <2>6, <2>7, ContentAssumption
    <3> QED BY <2>4, <2>7, <3>1 DEF Broken, Desired, Healthy
  <2>8. Accounts(m, file', ledger'.digest)
    BY <1>0, <1>1, <2>4, <2>5, <2>6, <2>7 DEF Accounts
  <2> QED BY <2>1, <2>2, <2>8, AccountedStep
<1> QED BY <1>2, <1>3, <1>4 DEF Starts

(* What a repair records once it has nothing left to do.                    *)
LEMMA RefreshedIsAccounted ==
  ASSUME Accounted, NEW q \in Process, proc[q].at = "repairing", proc[q].todo = {}, NEW p \in Path
  PROVE  Refreshed(proc[q]).digest[p] \notin User
<1> DEFINE c == proc[q]
<1>1. c \in Call /\ TypeOK /\ Accounts(c, file, ledger.digest)
  BY DEF Accounted, Safe, TypeOK
<1>2. Merged(c) \in Ledger
  BY <1>1, MergedType
<1> HIDE DEF c
<1>3. Refreshed(c).digest[p] = IF p \notin Merged(c).managed THEN None
                               ELSE IF p \in Config \ c.written THEN c.previous.digest[p]
                               ELSE file[p]
  BY <1>2 DEF Refreshed, Ledger
<1>4. c.at = "repairing" /\ c.todo = {}
  BY DEF c
<1>5. p \in Merged(c).managed => file[p] \notin User
  BY <1>1, <1>4 DEF Accounts, Repairing
<1>6. Refreshed(c).digest[p] \notin User
  BY <1>1, <1>3, <1>5, ContentAssumption DEF Accounts
<1> QED BY <1>6 DEF c

LEMMA StillIsAccounted ==
  ASSUME Accounted, Safe', UNCHANGED <<file, ledger, proc>>
  PROVE  Accounted'
  BY DEF Accounted, Accounts, Merged, With, Without

LEMMA ContinuesIsAccounted ==
  ASSUME Accounted, Alone, Safe', NEW q \in Process, Continues(q)
  PROVE  Accounted'
<1> DEFINE c == proc[q]
<1>0. /\ c \in Call /\ TypeOK /\ Safe /\ file \in [Path -> Content \cup {None}]
      /\ CallIsSafe(c) /\ WrittenIsOurs(c, file)
  BY DEF Accounted, Safe, TypeOK
<1>a. Accounts(c, file, ledger.digest)
  BY DEF Accounted
<1>b. /\ \A p \in Path : c.previous.digest[p] \notin User
      /\ c.at # "repairing" => \A p \in Path : ledger.digest[p] \notin User
  BY <1>a DEF Accounts
<1>c. ASSUME NEW l \in Label, Goto(q, l)
      PROVE  \E m \in Call : /\ proc' = [proc EXCEPT ![q] = m] /\ m.at = l
                             /\ m.previous = c.previous /\ m.todo = c.todo /\ Merged(m) = Merged(c)
  <2> DEFINE m == [c EXCEPT !.at = l]
  <2>1. proc' = [proc EXCEPT ![q] = m]
    BY <1>c DEF Goto
  <2>2. /\ m \in Call /\ m.at = l /\ m.todo = c.todo
        /\ m.previous = c.previous /\ m.plan = c.plan /\ m.skipped = c.skipped
        /\ m.modules = c.modules /\ m.version = c.version
    BY <1>0, <1>c DEF Call
  <2> HIDE DEF m
  <2> QED BY <1>0, <2>1, <2>2, SamePlan
<1>1. CASE WriteBridge(q)
  <2>1. c.at = "bridging" /\ ledger' = Bridge(c) /\ Goto(q, "writing")
    BY <1>1 DEF WriteBridge, Record, At
  <2>2. \A p \in Path : ledger'.digest[p] \notin User
    BY <1>0, <1>b, <2>1, MergedDigest, ContentAssumption
  <2>3. PICK m \in Call : /\ proc' = [proc EXCEPT ![q] = m] /\ m.at = "writing"
                          /\ m.previous = c.previous /\ m.todo = c.todo /\ Merged(m) = Merged(c)
    BY <1>c, <2>1 DEF Label, Installing
  <2>4. Accounts(m, file', ledger'.digest)
    BY <1>b, <2>2, <2>3 DEF Accounts, Repairing
  <2> QED BY <2>3, <2>4, AccountedStep
<1>2. CASE WriteCheckpoint(q)
  <2>1. c.at = "failing" /\ ledger' = Checkpoint(c) /\ End(q)
    BY <1>2 DEF WriteCheckpoint, At
  <2>2. \A p \in Path : ledger'.digest[p] \notin User
    BY <1>0, <1>b, <2>1, CheckpointDigest, ContentAssumption DEF WrittenIsOurs, Installing
  <2> QED BY <2>1, <2>2, EndIsAccounted
<1>3. CASE WriteFinal(q)
  <2>1. c.at = "finishing" /\ ledger' = Final(c)
    BY <1>3 DEF WriteFinal, Record, At
  <2>2. \A p \in Path : ledger'.digest[p] \notin User
    BY <1>0, <1>b, <2>1, FinalDigest, ContentAssumption DEF CallIsSafe, WrittenIsOurs, Installing
  <2>3. PICK m \in Call : /\ proc' = [proc EXCEPT ![q] = m]
                          /\ m.previous = c.previous /\ m.at = "reconciling"
    <3> DEFINE m == [Idle EXCEPT !.at = "reconciling", !.previous = c.previous,
                                 !.todo = Stale(c) \cup Excluded(c)]
    <3>1. proc' = [proc EXCEPT ![q] = m]
      BY <1>3 DEF WriteFinal
    <3>2. m \in Call
      BY <1>0, <3>1 DEF Safe, TypeOK
    <3>3. m.previous = c.previous /\ m.at = "reconciling"
      BY DEF Idle
    <3> HIDE DEF m
    <3> QED BY <3>1, <3>2, <3>3
  <2>4. Accounts(m, file', ledger'.digest)
    BY <1>b, <2>2, <2>3 DEF Accounts, Repairing
  <2> QED BY <2>3, <2>4, AccountedStep
<1>4. CASE EndInstall(q)
  BY <1>4, <1>b, EndIsAccounted DEF EndInstall, At
<1>5. CASE DropLedger(q)
  <2>1. End(q) /\ c.at = "removing" /\ ledger' \in {ledger, NoLedger}
    BY <1>5 DEF DropLedger, At
  <2>2. \A p \in Path : ledger'.digest[p] \notin User
    BY <1>b, <2>1, ContentAssumption DEF NoLedger
  <2> QED BY <2>1, <2>2, EndIsAccounted
<1>6. CASE Refresh(q)
  <2>1. c.at = "refreshing" /\ Goto(q, "repairing") /\ UNCHANGED file
    BY <1>6 DEF Refresh, At
  <2>2. PICK m \in Call : /\ proc' = [proc EXCEPT ![q] = m] /\ m.at = "repairing"
                          /\ m.previous = c.previous /\ m.todo = c.todo /\ Merged(m) = Merged(c)
    BY <1>c, <2>1 DEF Label, Repairing
  <2>3. Accounts(m, file', ledger'.digest)
    BY <1>a, <2>1, <2>2 DEF Accounts, Repairing
  <2> QED BY <2>2, <2>3, AccountedStep
<1>7. CASE EndRepair(q)
  <2>1. c.at = "repairing" /\ c.todo = {} /\ ledger' = Refreshed(c) /\ End(q)
    BY <1>7 DEF EndRepair, Record, At
  <2> QED BY <2>1, RefreshedIsAccounted, EndIsAccounted
<1>8. ASSUME NEW p \in Path, WriteFile(q, p)
      PROVE  Accounted'
  BY <1>8, PutIsAccounted DEF WriteFile, At, Label, Installing
<1>9. ASSUME NEW p \in Path, Reconcile(q, p)
      PROVE  Accounted'
  <2>1. c.at = "reconciling" /\ UNCHANGED <<file, ledger>>
    BY <1>0, <1>9, ReconcileMeans
  <2>2. CASE UNCHANGED proc
    BY <2>1, <2>2, StillIsAccounted
  <2>3. CASE proc' = [proc EXCEPT ![q] = Less(c, p)]
    <3>1. Accounts(Less(c, p), file', ledger'.digest)
      BY <1>0, <1>b, <2>1, LessMeans DEF Accounts, Repairing
    <3> QED BY <1>0, <2>3, <3>1, LessMeans, AccountedStep
  <2> QED BY <1>0, <1>9, <2>2, <2>3, ReconcileMeans
<1>10. ASSUME NEW p \in Path, Remove(q, p)
       PROVE  Accounted'
  <2>1. c.at = "removing" /\ UNCHANGED <<file, ledger>>
    BY <1>0, <1>10, RemoveMeans
  <2>2. CASE UNCHANGED proc
    BY <2>1, <2>2, StillIsAccounted
  <2>3. CASE proc' = [proc EXCEPT ![q] = Declined(c, p)]
    <3>1. Accounts(Declined(c, p), file', ledger'.digest)
      BY <1>0, <1>b, <2>1, LessMeans DEF Accounts, Repairing
    <3> QED BY <1>0, <2>3, <3>1, LessMeans, AccountedStep
  <2> QED BY <1>0, <1>10, <2>2, <2>3, RemoveMeans
<1>11. ASSUME NEW p \in Path, RepairFile(q, p)
       PROVE  Accounted'
  BY <1>11, PutIsAccounted DEF RepairFile, At, Label, Repairing
<1>12. ASSUME NEW p \in Path, CheckFile(q, p)
       PROVE  Accounted'
  BY <1>12, StillIsAccounted DEF CheckFile
<1>13. ASSUME NEW p \in Path, Unlink(q, p)
       PROVE  Accounted'
  <2>1. /\ c.at \in {"reconciling", "removing"} /\ UNCHANGED ledger
        /\ proc' = [proc EXCEPT ![q] = Less(c, p)]
    BY <1>0, <1>13, UnlinkMeans
  <2>2. Accounts(Less(c, p), file', ledger'.digest)
    BY <1>0, <1>b, <2>1, LessMeans DEF Accounts, Repairing
  <2> QED BY <1>0, <2>1, <2>2, LessMeans, AccountedStep
<1> QED
  BY <1>1, <1>2, <1>3, <1>4, <1>5, <1>6, <1>7, <1>8, <1>9, <1>10, <1>11, <1>12, <1>13
     DEF Continues

LEMMA FailsIsAccounted ==
  ASSUME Accounted, Alone, ~RepairFails, Safe', NEW q \in Process, Fails(q)
  PROVE  Accounted'
<1> DEFINE c == proc[q]
<1>0. c \in Call /\ Safe /\ Accounts(c, file, ledger.digest)
  BY DEF Accounted, Safe, TypeOK
<1>1. ASSUME End(q), UNCHANGED ledger, ~Claiming(q)
      PROVE  Accounted'
  <2>1. \A p \in Path : ledger'.digest[p] \notin User
    BY <1>0, <1>1 DEF Accounts, Claiming, At
  <2> QED BY <1>1, <2>1, EndIsAccounted
<1>2. CASE FailWrite(q)
  <2> DEFINE m == AfterFailure(c)
  <2>1. proc' = [proc EXCEPT ![q] = m] /\ m \in Call
    BY <1>0, <1>2, FailWriteMeans DEF Safe
  <2>2. m.at = "failing" /\ m.previous = c.previous
    BY <1>0 DEF AfterFailure, Call
  <2>3. c.at = "writing" /\ UNCHANGED ledger
    BY <1>2 DEF FailWrite, At
  <2> HIDE DEF m
  <2>4. Accounts(m, file', ledger'.digest)
    BY <1>0, <2>2, <2>3 DEF Accounts, Repairing
  <2> QED BY <2>1, <2>4, AccountedStep
<1>3. CASE FailFinal(q)
  <2>1. c.at = "finishing" /\ UNCHANGED ledger
    BY <1>3 DEF FailFinal, At
  <2>2. CASE Goto(q, "failing")
    <3> DEFINE m == [c EXCEPT !.at = "failing"]
    <3>1. proc' = [proc EXCEPT ![q] = m]
      BY <2>2 DEF Goto
    <3>2. m \in Call /\ m.at = "failing" /\ m.previous = c.previous
      BY <1>0 DEF Call, Label, Installing
    <3> HIDE DEF m
    <3>3. Accounts(m, file', ledger'.digest)
      BY <1>0, <2>1, <3>2 DEF Accounts, Repairing
    <3> QED BY <3>1, <3>2, <3>3, AccountedStep
  <2> QED BY <1>1, <1>3, <2>1, <2>2 DEF FailFinal, Claiming, At
<1>4. CASE FailRepair(q)
  BY <1>1, <1>4 DEF FailRepair
<1>5. CASE Crash(q)
  BY <1>1, <1>5 DEF Crash
<1> QED BY <1>2, <1>3, <1>4, <1>5 DEF Fails

LEMMA AccountedInit == Init => Accounted
  BY SafeInit, ContentAssumption DEF Init, Accounted, Accounts, Idle, NoLedger, Repairing

LEMMA AccountedInvariance ==
  ASSUME Alone, ~EditsUnderHash, ~RepairFails, Accounted, [Next]_vars
  PROVE  Accounted'
<1>0. Safe'
  BY SafeInvariance DEF Accounted
<1>1. ASSUME NEW q \in Process, Starts(q) \/ Continues(q) \/ Fails(q)
      PROVE  Accounted'
  BY <1>0, <1>1, StartsAreAccounted, ContinuesIsAccounted, FailsIsAccounted
<1>2. ASSUME NEW p \in Path, NEW bytes \in User \cup {None}, UserChanges(p, bytes)
      PROVE  Accounted'
  <2>1. UNCHANGED <<ledger, proc>> /\ ~UnderHash(p)
    BY <1>2 DEF UserChanges
  <2>2. \A q \in Process : proc[q].at \notin Repairing
    BY <2>1 DEF UnderHash
  <2> QED BY <1>0, <2>1, <2>2 DEF Accounted, Accounts
<1>3. CASE UNCHANGED vars
  BY <1>0, <1>3 DEF Accounted, vars
<1> QED BY <1>1, <1>2, <1>3 DEF Next

(* One call at a time, nobody editing a file between a call's check of it   *)
(* and the write or removal, or between a write and its digest, and repairs *)
(* that do not end half-way: with repairs, too, a user's bytes are only     *)
(* replaced by a call that found the file recorded as ECC's own.            *)
THEOREM UserBytesStayThroughRepairs ==
  ASSUME Alone, ~EditsUnderHash, ~EditsUnderCheck, ~RepairFails
  PROVE  Spec => UserBytesAreKept
<1>1. ASSUME Accounted, Cleared, [Next]_vars
      PROVE  [\A q \in Process, p \in Path :
               Touches(q, p) /\ file[p] \in User =>
                 /\ proc[q].at \in {"writing", "repairing"}
                 /\ p \in proc[q].previous.managed]_vars
  <2> SUFFICES ASSUME NEW q \in Process, NEW p \in Path, Touches(q, p), file[p] \in User
               PROVE  /\ proc[q].at \in {"writing", "repairing"}
                      /\ p \in proc[q].previous.managed
    OBVIOUS
  <2>1. file[p] # None
    BY ContentAssumption
  <2>2. ~Unchanged(proc[q], p)
    BY <1>1 DEF Accounted, Accounts, Unchanged
  <2>3. proc[q].at \in {"writing", "repairing"} /\ ~Refused(proc[q], p)
    BY <1>1, <2>2, WhatIsTouched DEF Accounted, Safe, Passed
  <2> QED BY <2>1, <2>3 DEF Refused
<1>2. Accounted /\ Cleared /\ [Next]_vars => Accounted' /\ Cleared'
  BY AccountedInvariance, ClearedInvariance DEF Accounted, Safe
<1> QED BY <1>1, <1>2, AccountedInit, ClearedInit, PTL DEF Spec, UserBytesAreKept
=============================================================================
