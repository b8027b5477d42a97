------------------------- MODULE SettingsLockProofs -------------------------
(* Proofs about SettingsLock, for any set of processes and of inode numbers: *)
(* it is well typed, and one process at a time recovers it; and if no       *)
(* process ends between the moment a contender reads its name in the lock   *)
(* and the moment it is asked for, and no lock is inspected at the age of   *)
(* five minutes, the lock excludes and implements Mutex.                    *)
EXTENDS SettingsLock, TLAPS

-----------------------------------------------------------------------------
(* Type correctness is inductive by itself, whatever dies or lapses.        *)
LEMMA TypeInit == Init => TypeOK
BY NoneAssumption DEF Init, TypeOK, FileVarsTyped, LockPC

LEMMA TypeKept ==
  ASSUME TypeOK, NEW p \in Proc, Begin(p) \/ Proceed(p) \/ Exit(p)
  PROVE  TypeOK'
<1>. USE NoneAssumption DEF TypeOK, FileVarsTyped, Goto, fileVars, Guarded, LockPC, File, Inspection
<1>1. CASE Begin(p)
  BY <1>1 DEF Begin
<1>2. CASE WriteTemp(p)
  BY <1>2 DEF WriteTemp
<1>3. CASE Link(p)
  BY <1>3 DEF Link
<1>4. CASE RemoveTemp(p)
  BY <1>4 DEF RemoveTemp
<1>5. CASE Wait(p)
  BY <1>5 DEF Wait
<1>6. CASE MakeGuard(p)
  BY <1>6 DEF MakeGuard
<1>7. CASE OpenLock(p)
  BY <1>7 DEF OpenLock
<1>8. CASE LstatLock(p)
  BY <1>8 DEF LstatLock
<1>9. CASE ProbeOwner(p)
  BY <1>9 DEF ProbeOwner
<1>10. CASE Quarantine(p)
  BY <1>10 DEF Quarantine
<1>11. CASE Compare(p)
  BY <1>11 DEF Compare
<1>12. CASE CheckVacant(p)
  BY <1>12 DEF CheckVacant
<1>13. CASE RenameBack(p)
  BY <1>13 DEF RenameBack
<1>14. CASE RemoveGuard(p)
  BY <1>14 DEF RemoveGuard
<1>15. CASE Release(p)
  BY <1>15 DEF Release
<1>16. CASE Verify(p)
  BY <1>16 DEF Verify
<1>17. CASE CheckReturn(p)
  BY <1>17 DEF CheckReturn
<1>18. CASE PutBack(p)
  BY <1>18 DEF PutBack
<1>19. CASE Exit(p)
  BY <1>19 DEF Exit
<1>. QED
  BY <1>1, <1>2, <1>3, <1>4, <1>5, <1>6, <1>7, <1>8, <1>9, <1>10, <1>11, <1>12, <1>13, <1>14, <1>15, <1>16, <1>17, <1>18, <1>19
     DEF Proceed, Acquires, Recovers, Releases

(* Every variable has its type, and a file is there when it is used,        *)
(* although processes end at any moment and locks lapse.                    *)
THEOREM LockTyped == Spec => []TypeOK
<1>1. TypeOK /\ [Next]_vars => TypeOK'
  <2>1. ASSUME TypeOK, UNCHANGED vars
        PROVE  TypeOK'
    BY <2>1 DEF vars, TypeOK, FileVarsTyped
  <2>. QED
    BY <2>1, TypeKept DEF Next
<1>. QED
  BY TypeInit, <1>1, PTL DEF Spec

(* So is what the guard directory promises.                                 *)
LEMMA GuardKept ==
  ASSUME TypeOK, OneRecoverer, NEW p \in Proc, Begin(p) \/ Proceed(p) \/ Exit(p)
  PROVE  OneRecoverer'
<1>. USE NoneAssumption DEF TypeOK, OneRecoverer, Goto, fileVars, Guarded
<1>1. CASE Begin(p) \/ Acquires(p) \/ Releases(p) \/ Exit(p)
  BY <1>1 DEF Begin, Acquires, WriteTemp, Link, RemoveTemp, Wait,
              Releases, Release, Verify, CheckReturn, PutBack, Exit
<1>2. CASE MakeGuard(p)
  BY <1>2 DEF MakeGuard
<1>3. CASE RemoveGuard(p)
  BY <1>3 DEF RemoveGuard
<1>4. CASE OpenLock(p) \/ LstatLock(p) \/ ProbeOwner(p) \/ Quarantine(p)
           \/ Compare(p) \/ CheckVacant(p) \/ RenameBack(p)
  BY <1>4 DEF OpenLock, LstatLock, ProbeOwner, Quarantine, Compare, CheckVacant, RenameBack
<1>. QED
  BY <1>1, <1>2, <1>3, <1>4 DEF Proceed, Recovers

(* At most one process at a time is between making the guard and removing   *)
(* it, although processes end at any moment and locks lapse                 *)
(* (recoverSettingsLock).                                                   *)
THEOREM GuardExcludes == Spec => []OneRecoverer
<1>1. Init => OneRecoverer
  BY DEF Init, OneRecoverer, Guarded
<1>2. TypeOK /\ OneRecoverer /\ [Next]_vars => OneRecoverer'
  <2>1. ASSUME OneRecoverer, UNCHANGED vars
        PROVE  OneRecoverer'
    BY <2>1 DEF vars, OneRecoverer
  <2>. QED
    BY <2>1, GuardKept DEF Next
<1>. QED
  BY LockTyped, <1>1, <1>2, PTL DEF Spec
-----------------------------------------------------------------------------
(* A step that creates no file and opens none keeps the numbers apart.      *)
LEMMA NoNewFile ==
  ASSUME InodesDiffer, \A f \in File : Live(f)' => Live(f)
  PROVE  InodesDiffer'
BY DEF InodesDiffer

LEMMA InitInv == Init => Inv
BY NoneAssumption DEF Init, Inv, TypeOK, FileVarsTyped, LockPC, OwnerHasLock, OneRecoverer,
   StaleIsLock, NothingIsPutBack, InodesDiffer, Live, Guarded, Exited

LEMMA InodesOfLive ==
  ASSUME TypeOK, NEW f \in File, Live(f)
  PROVE  f.ino \in InUse
<1>1. CASE f = lock
  BY <1>1, NoneAssumption DEF InUse, File
<1>2. CASE \E p \in Proc : f = moved[p]
  BY <1>2, NoneAssumption DEF InUse, File
<1>3. CASE \E p \in Proc : pc[p] \in {"linking", "linked", "relinking", "relinked"} /\ f = mine[p]
  BY <1>3 DEF InUse
<1>4. CASE \E p \in Proc : pc[p] = "lstat" /\ f = seen[p]
  BY <1>4 DEF InUse
<1>. QED
  BY <1>1, <1>2, <1>3, <1>4 DEF Live

LEMMA BeginKeepsInv ==
  ASSUME Calm, Inv, NEW p \in Proc, Begin(p)
  PROVE  Inv'
<1>. USE NoneAssumption DEF Calm, Begin, Goto, fileVars, Inv, TypeOK, FileVarsTyped, Guarded
<1>1. TypeOK'
  BY TypeKept DEF Proceed, Acquires, Recovers, Releases
<1>2. OwnerHasLock'
  BY DEF OwnerHasLock, OneRecoverer, StaleIsLock, File
<1>3. OneRecoverer'
  BY GuardKept DEF Proceed, Acquires, Recovers, Releases
<1>4. StaleIsLock' /\ NothingIsPutBack'
  BY DEF StaleIsLock, NothingIsPutBack, OneRecoverer, OwnerHasLock, Exited, File, Inspection
<1>5. \A f \in File : Live(f)' => Live(f)
  BY DEF Live
<1>. QED
  BY <1>1, <1>2, <1>3, <1>4, <1>5, NoNewFile

LEMMA WriteTempKeepsInv ==
  ASSUME Calm, Inv, NEW p \in Proc, WriteTemp(p)
  PROVE  Inv'
<1>. USE NoneAssumption DEF Calm, WriteTemp, Goto, fileVars, Inv, TypeOK, FileVarsTyped, Guarded
<1>1. TypeOK'
  BY TypeKept DEF Proceed, Acquires, Recovers, Releases
<1>2. OwnerHasLock'
  BY DEF OwnerHasLock, OneRecoverer, StaleIsLock, File
<1>3. OneRecoverer'
  BY GuardKept DEF Proceed, Acquires, Recovers, Releases
<1>4. StaleIsLock' /\ NothingIsPutBack'
  BY DEF StaleIsLock, NothingIsPutBack, OneRecoverer, OwnerHasLock, Exited, File, Inspection
<1>5. PICK ino \in Inode \ InUse : mine' = [mine EXCEPT ![p] = [ino |-> ino, pid |-> p]]
  OBVIOUS
<1>6. ASSUME NEW f \in File, Live(f)'
      PROVE  Live(f) \/ f = [ino |-> ino, pid |-> p]
  BY <1>5, <1>6 DEF Live
<1>7. ASSUME NEW f \in File, Live(f)
      PROVE  f.ino # ino
  BY <1>5, <1>7, InodesOfLive
<1>8. InodesDiffer'
  BY <1>6, <1>7 DEF InodesDiffer
<1>. QED
  BY <1>1, <1>2, <1>3, <1>4, <1>8

LEMMA LinkKeepsInv ==
  ASSUME Calm, Inv, NEW p \in Proc, Link(p)
  PROVE  Inv'
<1>. USE NoneAssumption DEF Calm, Link, Goto, fileVars, Inv, TypeOK, FileVarsTyped, Guarded
<1>1. TypeOK'
  BY TypeKept DEF Proceed, Acquires, Recovers, Releases
<1>2. OwnerHasLock'
  BY DEF OwnerHasLock, OneRecoverer, StaleIsLock, File
<1>3. OneRecoverer'
  BY GuardKept DEF Proceed, Acquires, Recovers, Releases
<1>4. StaleIsLock' /\ NothingIsPutBack'
  BY DEF StaleIsLock, NothingIsPutBack, OneRecoverer, OwnerHasLock, Exited, File, Inspection
<1>5. \A f \in File : Live(f)' => Live(f)
  BY DEF Live
<1>. QED
  BY <1>1, <1>2, <1>3, <1>4, <1>5, NoNewFile

LEMMA RemoveTempKeepsInv ==
  ASSUME Calm, Inv, NEW p \in Proc, RemoveTemp(p)
  PROVE  Inv'
<1>. USE NoneAssumption DEF Calm, RemoveTemp, Goto, fileVars, Inv, TypeOK, FileVarsTyped, Guarded
<1>1. TypeOK'
  BY TypeKept DEF Proceed, Acquires, Recovers, Releases
<1>2. OwnerHasLock'
  BY DEF OwnerHasLock, OneRecoverer, StaleIsLock, File
<1>3. OneRecoverer'
  BY GuardKept DEF Proceed, Acquires, Recovers, Releases
<1>4. StaleIsLock' /\ NothingIsPutBack'
  BY DEF StaleIsLock, NothingIsPutBack, OneRecoverer, OwnerHasLock, Exited, File, Inspection
<1>5. \A f \in File : Live(f)' => Live(f)
  BY DEF Live
<1>. QED
  BY <1>1, <1>2, <1>3, <1>4, <1>5, NoNewFile

LEMMA MakeGuardKeepsInv ==
  ASSUME Calm, Inv, NEW p \in Proc, MakeGuard(p)
  PROVE  Inv'
<1>. USE NoneAssumption DEF Calm, MakeGuard, Goto, fileVars, Inv, TypeOK, FileVarsTyped, Guarded
<1>1. TypeOK'
  BY TypeKept DEF Proceed, Acquires, Recovers, Releases
<1>2. OwnerHasLock'
  BY DEF OwnerHasLock, OneRecoverer, StaleIsLock, File
<1>3. OneRecoverer'
  BY GuardKept DEF Proceed, Acquires, Recovers, Releases
<1>4. StaleIsLock' /\ NothingIsPutBack'
  BY DEF StaleIsLock, NothingIsPutBack, OneRecoverer, OwnerHasLock, Exited, File, Inspection
<1>5. \A f \in File : Live(f)' => Live(f)
  BY DEF Live
<1>. QED
  BY <1>1, <1>2, <1>3, <1>4, <1>5, NoNewFile

LEMMA OpenLockKeepsInv ==
  ASSUME Calm, Inv, NEW p \in Proc, OpenLock(p)
  PROVE  Inv'
<1>. USE NoneAssumption DEF Calm, OpenLock, Goto, fileVars, Inv, TypeOK, FileVarsTyped, Guarded
<1>1. TypeOK'
  BY TypeKept DEF Proceed, Acquires, Recovers, Releases
<1>2. OwnerHasLock'
  BY DEF OwnerHasLock, OneRecoverer, StaleIsLock, File
<1>3. OneRecoverer'
  BY GuardKept DEF Proceed, Acquires, Recovers, Releases
<1>4. StaleIsLock' /\ NothingIsPutBack'
  BY DEF StaleIsLock, NothingIsPutBack, OneRecoverer, OwnerHasLock, Exited, File, Inspection
<1>5. \A f \in File : Live(f)' => Live(f)
  BY DEF Live
<1>. QED
  BY <1>1, <1>2, <1>3, <1>4, <1>5, NoNewFile

LEMMA LstatLockKeepsInv ==
  ASSUME Calm, Inv, NEW p \in Proc, LstatLock(p)
  PROVE  Inv'
<1>. USE NoneAssumption DEF Calm, LstatLock, Goto, fileVars, Inv, TypeOK, FileVarsTyped, Guarded
<1>1. TypeOK'
  BY TypeKept DEF Proceed, Acquires, Recovers, Releases
<1>2. OwnerHasLock'
  BY DEF OwnerHasLock, OneRecoverer, StaleIsLock, File
<1>3. OneRecoverer'
  BY GuardKept DEF Proceed, Acquires, Recovers, Releases
<1>4. StaleIsLock' /\ NothingIsPutBack'
  <2>1. lock # None /\ lock.ino = seen[p].ino => lock = seen[p]
    <3>1. lock # None => lock \in File /\ seen[p] \in File /\ Live(lock) /\ Live(seen[p])
      BY DEF Live
    <3>. QED
      BY <3>1 DEF InodesDiffer
  <2>2. NothingIsPutBack'
    BY DEF NothingIsPutBack
  <2>3. ASSUME NEW q \in Proc, q # p
        PROVE  pc'[q] \notin {"probing", "quarantining", "comparing"}
    BY <2>3 DEF OneRecoverer
  <2>4. CASE lock = None
    BY <2>2, <2>3, <2>4 DEF StaleIsLock
  <2>5. CASE lock # None /\ lock.ino = seen[p].ino
    BY <2>1, <2>2, <2>3, <2>5 DEF StaleIsLock, Exited
  <2>6. CASE lock # None /\ lock.ino # seen[p].ino
    <3>1. seen'[p].pid = None
      BY <2>6 DEF File
    <3>. QED
      BY <2>2, <2>3, <2>6, <3>1 DEF StaleIsLock
  <2>. QED
    BY <2>2, <2>4, <2>5, <2>6
<1>5. \A f \in File : Live(f)' => Live(f)
  BY DEF Live
<1>. QED
  BY <1>1, <1>2, <1>3, <1>4, <1>5, NoNewFile

LEMMA ProbeOwnerKeepsInv ==
  ASSUME Calm, Inv, NEW p \in Proc, ProbeOwner(p)
  PROVE  Inv'
<1>. USE NoneAssumption DEF Calm, ProbeOwner, Goto, fileVars, Inv, TypeOK, FileVarsTyped, Guarded
<1>1. TypeOK'
  BY TypeKept DEF Proceed, Acquires, Recovers, Releases
<1>2. OwnerHasLock'
  BY DEF OwnerHasLock, OneRecoverer, StaleIsLock, File
<1>3. OneRecoverer'
  BY GuardKept DEF Proceed, Acquires, Recovers, Releases
<1>4. StaleIsLock' /\ NothingIsPutBack'
  BY DEF StaleIsLock, NothingIsPutBack, OneRecoverer, OwnerHasLock, Exited, File, Inspection
<1>5. \A f \in File : Live(f)' => Live(f)
  BY DEF Live
<1>. QED
  BY <1>1, <1>2, <1>3, <1>4, <1>5, NoNewFile

LEMMA QuarantineKeepsInv ==
  ASSUME Calm, Inv, NEW p \in Proc, Quarantine(p)
  PROVE  Inv'
<1>. USE NoneAssumption DEF Calm, Quarantine, Goto, fileVars, Inv, TypeOK, FileVarsTyped, Guarded
<1>1. TypeOK'
  BY TypeKept DEF Proceed, Acquires, Recovers, Releases
<1>2. OwnerHasLock'
  <2>1. Exited(lock.pid)
    BY DEF StaleIsLock
  <2>2. ASSUME NEW q \in Proc, pc[q] \in {"linked", "relinked", "holding"}
        PROVE  FALSE
    BY <2>1, <2>2 DEF OwnerHasLock, Exited
  <2>. QED
    BY <2>2 DEF OwnerHasLock
<1>3. OneRecoverer'
  BY GuardKept DEF Proceed, Acquires, Recovers, Releases
<1>4. StaleIsLock' /\ NothingIsPutBack'
  <2>1. NothingIsPutBack'
    BY DEF NothingIsPutBack
  <2>2. ASSUME NEW q \in Proc, q # p
        PROVE  pc'[q] \notin {"probing", "quarantining", "comparing"}
    BY <2>2 DEF OneRecoverer
  <2>3. pc[p] = "quarantining" /\ lock = seen[p]
    BY DEF StaleIsLock
  <2>4. pc'[p] = "comparing" /\ moved'[p] = seen'[p]
    BY <2>3
  <2>. QED
    BY <2>1, <2>2, <2>4 DEF StaleIsLock
<1>5. \A f \in File : Live(f)' => Live(f)
  BY DEF Live
<1>. QED
  BY <1>1, <1>2, <1>3, <1>4, <1>5, NoNewFile

LEMMA CompareKeepsInv ==
  ASSUME Calm, Inv, NEW p \in Proc, Compare(p)
  PROVE  Inv'
<1>. USE NoneAssumption DEF Calm, Compare, Goto, fileVars, Inv, TypeOK, FileVarsTyped, Guarded
<1>1. TypeOK'
  BY TypeKept DEF Proceed, Acquires, Recovers, Releases
<1>2. OwnerHasLock'
  BY DEF OwnerHasLock, OneRecoverer, StaleIsLock, File
<1>3. OneRecoverer'
  BY GuardKept DEF Proceed, Acquires, Recovers, Releases
<1>4. StaleIsLock' /\ NothingIsPutBack'
  BY DEF StaleIsLock, NothingIsPutBack, OneRecoverer, OwnerHasLock, Exited, File, Inspection
<1>5. \A f \in File : Live(f)' => Live(f)
  BY DEF Live
<1>. QED
  BY <1>1, <1>2, <1>3, <1>4, <1>5, NoNewFile

LEMMA CheckVacantKeepsInv ==
  ASSUME Calm, Inv, NEW p \in Proc, CheckVacant(p)
  PROVE  Inv'
BY DEF CheckVacant, Goto, Inv, NothingIsPutBack

LEMMA RenameBackKeepsInv ==
  ASSUME Calm, Inv, NEW p \in Proc, RenameBack(p)
  PROVE  Inv'
BY DEF RenameBack, Goto, Inv, NothingIsPutBack

LEMMA RemoveGuardKeepsInv ==
  ASSUME Calm, Inv, NEW p \in Proc, RemoveGuard(p)
  PROVE  Inv'
<1>. USE NoneAssumption DEF Calm, RemoveGuard, Goto, fileVars, Inv, TypeOK, FileVarsTyped, Guarded
<1>1. TypeOK'
  BY TypeKept DEF Proceed, Acquires, Recovers, Releases
<1>2. OwnerHasLock'
  BY DEF OwnerHasLock, OneRecoverer, StaleIsLock, File
<1>3. OneRecoverer'
  BY GuardKept DEF Proceed, Acquires, Recovers, Releases
<1>4. StaleIsLock' /\ NothingIsPutBack'
  BY DEF StaleIsLock, NothingIsPutBack, OneRecoverer, OwnerHasLock, Exited, File, Inspection
<1>5. \A f \in File : Live(f)' => Live(f)
  BY DEF Live
<1>. QED
  BY <1>1, <1>2, <1>3, <1>4, <1>5, NoNewFile

LEMMA WaitKeepsInv ==
  ASSUME Calm, Inv, NEW p \in Proc, Wait(p)
  PROVE  Inv'
<1>. USE NoneAssumption DEF Calm, Wait, Goto, fileVars, Inv, TypeOK, FileVarsTyped, Guarded
<1>1. TypeOK'
  BY TypeKept DEF Proceed, Acquires, Recovers, Releases
<1>2. OwnerHasLock'
  BY DEF OwnerHasLock, OneRecoverer, StaleIsLock, File
<1>3. OneRecoverer'
  BY GuardKept DEF Proceed, Acquires, Recovers, Releases
<1>4. StaleIsLock' /\ NothingIsPutBack'
  BY DEF StaleIsLock, NothingIsPutBack, OneRecoverer, OwnerHasLock, Exited, File, Inspection
<1>5. \A f \in File : Live(f)' => Live(f)
  BY DEF Live
<1>. QED
  BY <1>1, <1>2, <1>3, <1>4, <1>5, NoNewFile

LEMMA ReleaseKeepsInv ==
  ASSUME Calm, Inv, NEW p \in Proc, Release(p)
  PROVE  Inv'
<1>. USE NoneAssumption DEF Calm, Release, Goto, fileVars, Inv, TypeOK, FileVarsTyped, Guarded
<1>1. TypeOK'
  BY TypeKept DEF Proceed, Acquires, Recovers, Releases
<1>2. OwnerHasLock'
  BY DEF OwnerHasLock, OneRecoverer, StaleIsLock, File
<1>3. OneRecoverer'
  BY GuardKept DEF Proceed, Acquires, Recovers, Releases
<1>4. StaleIsLock' /\ NothingIsPutBack'
  BY DEF StaleIsLock, NothingIsPutBack, OneRecoverer, OwnerHasLock, Exited, File, Inspection
<1>5. \A f \in File : Live(f)' => Live(f)
  BY DEF Live
<1>. QED
  BY <1>1, <1>2, <1>3, <1>4, <1>5, NoNewFile

LEMMA VerifyKeepsInv ==
  ASSUME Calm, Inv, NEW p \in Proc, Verify(p)
  PROVE  Inv'
<1>. USE NoneAssumption DEF Calm, Verify, Goto, fileVars, Inv, TypeOK, FileVarsTyped, Guarded
<1>1. TypeOK'
  BY TypeKept DEF Proceed, Acquires, Recovers, Releases
<1>2. OwnerHasLock'
  BY DEF OwnerHasLock, OneRecoverer, StaleIsLock, File
<1>3. OneRecoverer'
  BY GuardKept DEF Proceed, Acquires, Recovers, Releases
<1>4. StaleIsLock' /\ NothingIsPutBack'
  BY DEF StaleIsLock, NothingIsPutBack, OneRecoverer, OwnerHasLock, Exited, File, Inspection
<1>5. \A f \in File : Live(f)' => Live(f)
  BY DEF Live
<1>. QED
  BY <1>1, <1>2, <1>3, <1>4, <1>5, NoNewFile

LEMMA CheckReturnKeepsInv ==
  ASSUME Calm, Inv, NEW p \in Proc, CheckReturn(p)
  PROVE  Inv'
BY DEF CheckReturn, Goto, Inv, NothingIsPutBack

LEMMA PutBackKeepsInv ==
  ASSUME Calm, Inv, NEW p \in Proc, PutBack(p)
  PROVE  Inv'
BY DEF PutBack, Goto, Inv, NothingIsPutBack

LEMMA ExitKeepsInv ==
  ASSUME Calm, Inv, NEW p \in Proc, Exit(p)
  PROVE  Inv'
<1>. USE NoneAssumption DEF Calm, Exit, Goto, fileVars, Inv, TypeOK, FileVarsTyped, Guarded
<1>1. TypeOK'
  BY TypeKept DEF Proceed, Acquires, Recovers, Releases
<1>2. OwnerHasLock'
  BY DEF OwnerHasLock, OneRecoverer, StaleIsLock, File
<1>3. OneRecoverer'
  BY GuardKept DEF Proceed, Acquires, Recovers, Releases
<1>4. StaleIsLock' /\ NothingIsPutBack'
  BY DEF StaleIsLock, NothingIsPutBack, OneRecoverer, OwnerHasLock, Exited, File, Inspection
<1>5. \A f \in File : Live(f)' => Live(f)
  BY DEF Live
<1>. QED
  BY <1>1, <1>2, <1>3, <1>4, <1>5, NoNewFile

LEMMA NextInv == Calm /\ Inv /\ [Next]_vars => Inv'
<1>. SUFFICES ASSUME Calm, Inv, [Next]_vars
              PROVE  Inv'
  OBVIOUS
<1>1. CASE UNCHANGED vars
  BY <1>1 DEF vars, Inv, TypeOK, FileVarsTyped, OwnerHasLock, OneRecoverer, StaleIsLock,
              NothingIsPutBack, InodesDiffer, Live, Exited
<1>2. ASSUME NEW p \in Proc, Begin(p) \/ Proceed(p) \/ Exit(p)
      PROVE  Inv'
  <2>1. CASE Acquires(p)
    BY <2>1, WriteTempKeepsInv, LinkKeepsInv, RemoveTempKeepsInv, WaitKeepsInv DEF Acquires
  <2>2. CASE Recovers(p)
    BY <2>2, MakeGuardKeepsInv, OpenLockKeepsInv, LstatLockKeepsInv, ProbeOwnerKeepsInv,
       QuarantineKeepsInv, CompareKeepsInv, CheckVacantKeepsInv, RenameBackKeepsInv,
       RemoveGuardKeepsInv DEF Recovers
  <2>3. CASE Releases(p)
    BY <2>3, ReleaseKeepsInv, VerifyKeepsInv, CheckReturnKeepsInv, PutBackKeepsInv DEF Releases
  <2>. QED
    BY <1>2, <2>1, <2>2, <2>3, BeginKeepsInv, ExitKeepsInv DEF Proceed
<1>. QED
  BY <1>1, <1>2 DEF Next

(* The inductive invariant holds in every reachable state.                  *)
THEOREM InvHolds == ASSUME Calm PROVE Spec => []Inv
<1>1. Inv /\ [Next]_vars => Inv'
  BY NextInv
<1>. QED
  BY InitInv, <1>1, PTL DEF Spec

(* acquireSettingsLock gives exclusive access.                              *)
THEOREM Exclusive == ASSUME Calm PROVE Spec => []MutualExclusion
<1>1. Inv => MutualExclusion
  BY NoneAssumption DEF Inv, TypeOK, OwnerHasLock, MutualExclusion, File
<1>. QED
  BY InvHolds, <1>1, PTL
-----------------------------------------------------------------------------
(* Each step is a step of Mutex or leaves its variables alone.              *)
LEMMA StepIsAbstract ==
  ASSUME Calm, Inv, NEW p \in Proc, Begin(p) \/ Proceed(p) \/ Exit(p)
  PROVE  Abstract!Next \/ UNCHANGED Abstract!mutexVars
<1>. DEFINE holder == IF lock = None THEN None ELSE lock.pid
            within == {q \in Proc : pc[q] = "holding"}
            ended  == {q \in Proc : Exited(q)}
<1>. USE NoneAssumption DEF Goto, Exited, fileVars, Inv, TypeOK
<1>1. CASE Link(p) /\ lock = None
  <2>1. holder = None /\ holder' = p /\ p \notin ended /\ UNCHANGED <<within, ended>>
    BY <1>1 DEF Link, File, FileVarsTyped
  <2>. QED
    BY <2>1 DEF Abstract!Next, Abstract!Take
<1>2. CASE (RemoveTemp(p) \/ RemoveGuard(p)) /\ pc'[p] = "holding"
  <2>1. /\ pc[p] \in {"linked", "relinked"} /\ pc' = [pc EXCEPT ![p] = "holding"]
        /\ UNCHANGED lock
    BY <1>2 DEF RemoveTemp, RemoveGuard
  <2>2. holder = p
    BY <2>1 DEF OwnerHasLock, File
  <2>3. p \notin ended \cup within /\ within' = within \cup {p} /\ UNCHANGED <<holder, ended>>
    BY <2>1
  <2>. QED
    BY <2>2, <2>3 DEF Abstract!Next, Abstract!Enter
<1>3. CASE Release(p)
  <2>1. lock = mine[p] /\ mine[p] \in File /\ mine[p].pid = p /\ pc[p] = "holding"
    BY <1>3 DEF Release, OwnerHasLock
  <2>2. lock' = None /\ pc' = [pc EXCEPT ![p] = "verifying"]
    BY <1>3, <2>1 DEF Release
  <2>3. /\ holder = p /\ p \in within /\ holder' = None
        /\ within' = within \ {p} /\ UNCHANGED ended
    BY <2>1, <2>2
  <2>. QED
    BY <2>3 DEF Abstract!Next, Abstract!Leave
<1>4. CASE Quarantine(p)
  <2>1. pc[p] = "quarantining" /\ lock = seen[p] /\ lock # None /\ lock.pid \in Proc
    BY <1>4 DEF Quarantine, StaleIsLock, FileVarsTyped, File
  <2>2. Exited(lock.pid) /\ lock' = None /\ pc' = [pc EXCEPT ![p] = "comparing"]
    BY <1>4, <2>1 DEF Quarantine, StaleIsLock
  <2>3. /\ holder \in Proc \cap ended /\ holder' = None /\ UNCHANGED <<within, ended>>
    BY <2>1, <2>2
  <2>. QED
    BY <2>3 DEF Abstract!Next, Abstract!Lapse
<1>5. CASE Exit(p)
  <2>1. p \notin ended /\ ended' = ended \cup {p} /\ within' = within \ {p} /\ UNCHANGED holder
    BY <1>5 DEF Exit
  <2>. QED
    BY <2>1 DEF Abstract!Next, Abstract!Die
<1>6. CASE Link(p) /\ lock # None
  <2>1. UNCHANGED <<holder, within, ended>>
    BY <1>6 DEF Link
  <2>. QED
    BY <2>1 DEF Abstract!mutexVars
<1>7. CASE \/ Begin(p) \/ WriteTemp(p) \/ Wait(p)
           \/ (RemoveTemp(p) \/ RemoveGuard(p)) /\ pc'[p] # "holding"
  <2>1. UNCHANGED <<holder, within, ended>>
    BY <1>7 DEF Begin, WriteTemp, Wait, RemoveTemp, RemoveGuard
  <2>. QED
    BY <2>1 DEF Abstract!mutexVars
<1>8. CASE MakeGuard(p) \/ OpenLock(p) \/ LstatLock(p) \/ ProbeOwner(p) \/ Compare(p) \/ Verify(p)
  <2>1. UNCHANGED <<holder, within, ended>>
    BY <1>8 DEF MakeGuard, OpenLock, LstatLock, ProbeOwner, Compare, Verify
  <2>. QED
    BY <2>1 DEF Abstract!mutexVars
<1>9. CASE CheckVacant(p) \/ RenameBack(p) \/ CheckReturn(p) \/ PutBack(p)
  BY <1>9 DEF CheckVacant, RenameBack, CheckReturn, PutBack, NothingIsPutBack
<1>. QED
  BY <1>1, <1>2, <1>3, <1>4, <1>5, <1>6, <1>7, <1>8, <1>9
     DEF Proceed, Acquires, Recovers, Releases

(* The lock file implements the abstract lock.                              *)
THEOREM LockIsMutex == ASSUME Calm PROVE Spec => ImplementsMutex
<1>1. Init => Abstract!Init
  BY DEF Init, Abstract!Init, Exited
<1>2. Inv /\ [Next]_vars => [Abstract!Next]_Abstract!mutexVars
  <2>1. ASSUME UNCHANGED vars
        PROVE  UNCHANGED Abstract!mutexVars
    BY <2>1 DEF vars, Abstract!mutexVars, Exited
  <2>. QED
    BY <2>1, StepIsAbstract DEF Next
<1>. QED
  BY <1>1, <1>2, InvHolds, PTL DEF Spec, ImplementsMutex, Abstract!Spec
=============================================================================
