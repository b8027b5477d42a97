------------------------- MODULE ContextStoreProofs -------------------------
(* Proofs about ContextStore for any number of processes, carriers and      *)
(* revisions: what holds when one recovery runs at a time, and what several *)
(* at once leave of it.                                                     *)
EXTENDS ContextStore, SequenceTheorems, TLAPS

(* What a process's call says of it.                                        *)
CallKnown(p) ==
  /\ proc[p].at \in {"idle", "dead"} <=> proc[p].call = None
  /\ proc[p].call = "apply" => proc[p].carrier \in Carrier
  /\ proc[p].at \in {"unlinking", "deciding"} \cup Undoing => proc[p].call = "recover"
  /\ proc[p].at \in {"owning", "marking", "looking", "preparing", "staging", "filling",
                     "closing", "publishing", "rechecking"} => proc[p].call # "recover"

(* At most one process recovers.                                            *)
RecoversAlone ==
  \A p, q \in Process : proc[p].call = "recover" /\ proc[q].call = "recover" => p = q

(* A process that is about to take a lock away has found it whole and its   *)
(* process dead, and so it still is; one that is inside has its own.        *)
LockKnown(p) ==
  /\ At(p, "unlinking") => lock # None /\ lock.whole /\ At(lock.pid, "dead")
  /\ proc[p].at \in Inside => lock = [pid |-> p, whole |-> TRUE]

(* The positions at which the change is the pending one, and those at which *)
(* the state is the one that was read.                                      *)
Changing == {"staging", "filling", "closing", "publishing", "receipting",
             "rechecking", "committing", "dropping"} \cup Undoing
Trusting == {"staging", "filling", "closing", "publishing", "receipting",
             "rechecking", "committing"}

(* What a process inside the lock knows.                                    *)
Announcing(p) ==
  /\ proc[p].before = state
  /\ \E change \in Change : J!Allowed(change) /\ proc[p].change = Append(state, change)

KnowsState(p) ==
  /\ At(p, "reading") /\ proc[p].call # "recover" => pending = None
  /\ At(p, "preparing") => pending = None /\ Announcing(p)
  /\ At(p, "deciding") => proc[p].before = state
  /\ proc[p].at \in Changing => proc[p].change = pending
  /\ proc[p].at \in Trusting /\ proc[p].call # "recover" =>
       proc[p].before = state /\ state = Front(pending)
  /\ proc[p].at \in Trusting \cup {"preparing"} /\ proc[p].call # "recover" =>
       proc[p].expected \in {None, Revision(state)}

KnowsFiles(p) ==
  /\ At(p, "staging") => pending \notin DOMAIN stage
  /\ proc[p].at \in {"filling", "closing", "publishing"} =>
       /\ pending \in DOMAIN stage
       /\ generation[Current(pending)] = "none"
  /\ At(p, "filling") => stage[pending] = "empty"
  /\ At(p, "closing") => stage[pending] = "part"
  /\ At(p, "publishing") => stage[pending] = "full"
  /\ proc[p].at \in {"receipting", "rechecking", "committing"} =>
       generation[Current(pending)] = "full"
  /\ proc[p].at \in {"rechecking", "committing"} => pending \in receipts
  /\ proc[p].at \in Undoing => state = Front(pending) /\ generation[Current(pending)] = "none"
  /\ At(p, "dropping") => pending \notin DOMAIN stage

(* What the files say of each other, whoever died.                          *)
GenerationsAreWhole == \A c \in Carrier : generation[c] \in {"none", "full"}

StageIsPending == DOMAIN stage \subseteq {pending}

PendingFits ==
  pending # None =>
    \/ /\ state \in {Front(pending), pending}
       /\ generation[Current(pending)] = "full"
       /\ pending \notin DOMAIN stage
    \/ state = Front(pending) /\ generation[Current(pending)] = "none"

Inv ==
  /\ TypeOK
  /\ RecoversAlone
  /\ \A p \in Process : CallKnown(p) /\ LockKnown(p) /\ KnowsState(p) /\ KnowsFiles(p)
  /\ GenerationsAreWhole /\ StageIsPending /\ PendingFits
  /\ StateIsComplete
-----------------------------------------------------------------------------
(* Histories.                                                               *)

LEMMA HistoryIsSeq ==
  ASSUME NEW h \in History
  PROVE  /\ h \in Seq(Change)
         /\ Len(h) \in 0 .. MaxRevision
         /\ Len(h) \in Nat
         /\ h \in [1 .. Len(h) -> Change]
<1>1. PICK n \in 0 .. MaxRevision : h \in [1 .. n -> Change]
  BY DEF History
<1>2. h \in Seq(Change) /\ Len(h) = n
  BY <1>1, BoundAssumption
<1> QED
  BY <1>1, <1>2, BoundAssumption

LEMMA AppendHistory ==
  ASSUME NEW h \in History, NEW x \in Change, Len(h) < MaxRevision
  PROVE  /\ Append(h, x) \in History \ {<< >>}
         /\ Front(Append(h, x)) = h
         /\ Current(Append(h, x)) = x.carrier
<1> DEFINE a == Append(h, x)
<1>1. h \in Seq(Change) /\ Len(h) \in Nat /\ h \in [1 .. Len(h) -> Change]
  BY HistoryIsSeq
<1>2. /\ a \in Seq(Change) /\ Len(a) = Len(h) + 1
      /\ \A i \in 1 .. Len(h) : a[i] = h[i]
      /\ a[Len(h) + 1] = x
  BY <1>1
<1>3. a \in [1 .. Len(h) + 1 -> Change]
  BY <1>2, LenProperties
<1>4. a \in History
  <2>1. Len(h) + 1 \in 0 .. MaxRevision
    BY <1>1, BoundAssumption
  <2> QED
    BY <1>3, <2>1 DEF History
<1>5. a # << >>
  BY <1>1, <1>2
<1>6. Front(a) = h
  BY <1>1, <1>2 DEF Front
<1>7. Current(a) = x.carrier
  BY <1>1, <1>2 DEF Current, Last
<1> QED
  BY <1>4, <1>5, <1>6, <1>7

LEMMA NonemptyHistory ==
  ASSUME NEW h \in History, h # << >>
  PROVE  /\ Len(h) >= 1
         /\ Front(h) \in History
         /\ Len(Front(h)) = Len(h) - 1
         /\ Current(h) \in Carrier
         /\ h[Len(h)].carrier = Current(h)
         /\ SubSeq(h, 1, Len(h)) = h
         /\ \A n \in 1 .. Len(h) - 1 : /\ h[n] = Front(h)[n]
                                      /\ SubSeq(h, 1, n) = SubSeq(Front(h), 1, n)
<1>1. h \in Seq(Change) /\ Len(h) \in Nat /\ Len(h) \in 0 .. MaxRevision /\ h \in [1 .. Len(h) -> Change]
  BY HistoryIsSeq
<1>2. Len(h) >= 1
  BY <1>1
<1>3. /\ Front(h) \in Seq(Change) /\ Len(Front(h)) = Len(h) - 1
      /\ \A n \in 1 .. Len(h) - 1 : Front(h)[n] = h[n]
  BY <1>1, <1>2 DEF Front
<1>4. Front(h) \in [1 .. Len(h) - 1 -> Change]
  BY <1>3, LenProperties
<1>5. Front(h) \in History
  <2>1. Len(h) - 1 \in 0 .. MaxRevision
    BY <1>1, <1>2, BoundAssumption
  <2> QED
    BY <1>4, <2>1 DEF History
<1>6. h[Len(h)] \in Change
  BY <1>1, <1>2
<1>7. Current(h) \in Carrier /\ h[Len(h)].carrier = Current(h)
  BY <1>6 DEF Current, Last, Change
<1>8. SubSeq(h, 1, Len(h)) = h
  BY <1>1, <1>2
<1>9. ASSUME NEW n \in 1 .. Len(h) - 1
      PROVE  SubSeq(h, 1, n) = SubSeq(Front(h), 1, n)
  <2> DEFINE s == SubSeq(h, 1, n)
             t == SubSeq(Front(h), 1, n)
  <2>1. n \in Nat /\ n >= 1 /\ n =< Len(h) /\ n =< Len(Front(h))
    BY <1>1, <1>3
  <2>2. s \in Seq(Change) /\ Len(s) = n /\ \A i \in 1 .. n : s[i] = h[i]
    BY <1>1, <2>1
  <2>3. t \in Seq(Change) /\ Len(t) = n /\ \A i \in 1 .. n : t[i] = Front(h)[i]
    BY <1>3, <2>1
  <2>4. \A i \in 1 .. n : s[i] = t[i]
    BY <1>1, <1>3, <2>1, <2>2, <2>3
  <2> HIDE DEF s, t
  <2>5. s = t
    BY <2>2, <2>3, <2>4, SeqEqual
  <2> QED
    BY <2>5 DEF s, t
<1> QED
  BY <1>2, <1>3, <1>5, <1>7, <1>8, <1>9

LEMMA PreviousIsCarrier ==
  ASSUME NEW h \in History, Len(h) >= 2
  PROVE  Previous(h) \in Carrier
<1>1. Len(h) \in Nat /\ h \in [1 .. Len(h) -> Change]
  BY HistoryIsSeq
<1>2. h[Len(h) - 1] \in Change
  BY <1>1
<1> QED
  BY <1>2 DEF Previous, Change
-----------------------------------------------------------------------------
(* Kinds of steps.                                                          *)

LEMMA GotoMeans ==
  ASSUME TypeOK, NEW p \in Process, NEW label \in Label, Goto(p, label)
  PROVE  \E m \in Memory :
           /\ proc' = [proc EXCEPT ![p] = m] /\ proc'[p] = m /\ m.at = label
           /\ label \in {"idle", "dead"} => m.call = None
           /\ label \notin {"idle", "dead"} =>
                /\ m.call = proc[p].call /\ m.carrier = proc[p].carrier
                /\ m.expected = proc[p].expected
                /\ m.before = proc[p].before /\ m.change = proc[p].change
<1> DEFINE m == IF label \in {"idle", "dead"} THEN Forgotten(label)
                ELSE [proc[p] EXCEPT !.at = label]
<1>1. proc[p] \in Memory /\ proc \in [Process -> Memory]
  BY DEF TypeOK
<1>2. proc' = [proc EXCEPT ![p] = m]
  BY DEF Goto
<1>3. << >> \in History
  BY BoundAssumption DEF History
<1>4. m \in Memory
  BY <1>1, <1>3 DEF Memory, Forgotten
<1>5. /\ m.at = label
      /\ label \in {"idle", "dead"} => m.call = None
      /\ label \notin {"idle", "dead"} =>
           /\ m.call = proc[p].call /\ m.carrier = proc[p].carrier
           /\ m.expected = proc[p].expected
           /\ m.before = proc[p].before /\ m.change = proc[p].change
  BY <1>1 DEF Memory, Forgotten
<1> HIDE DEF m
<1>6. proc'[p] = m
  BY <1>1, <1>2
<1> QED
  BY <1>2, <1>4, <1>5, <1>6

(* While a process is inside, no other is, and none is about to take its    *)
(* lock away.                                                               *)
LEMMA Alone ==
  ASSUME Inv, NEW p \in Process, proc[p].at \in Inside,
         NEW q \in Process, q # p
  PROVE  proc[q].at \notin Inside /\ ~At(q, "unlinking")
<1>1. lock = [pid |-> p, whole |-> TRUE]
  BY DEF Inv, LockKnown
<1>2. lock.pid = p /\ proc[p].at # "dead"
  BY <1>1 DEF Inside, Undoing
<1>3. proc[q].at \notin Inside
  <2>1. SUFFICES ASSUME proc[q].at \in Inside PROVE FALSE
    OBVIOUS
  <2>2. lock = [pid |-> q, whole |-> TRUE]
    BY <2>1 DEF Inv, LockKnown
  <2>3. lock.pid = q
    BY <2>2
  <2> QED
    BY <1>2, <2>3
<1>4. ~At(q, "unlinking")
  BY <1>2 DEF Inv, LockKnown, At
<1> QED
  BY <1>3, <1>4

(* A process moves while no other is inside or about to be, and does what   *)
(* its knowledge allows.                                                    *)
LEMMA SoleStep ==
  ASSUME Inv, NEW p \in Process,
         \A q \in Process : q # p => proc[q].at \notin Inside /\ ~At(q, "unlinking"),
         NEW m \in Memory, proc' = [proc EXCEPT ![p] = m],
         m.at # "unlinking", m.call \in {proc[p].call, None},
         m.at \in Inside => lock' = [pid |-> p, whole |-> TRUE],
         FilesOK', CallKnown(p)', KnowsState(p)', KnowsFiles(p)',
         GenerationsAreWhole', StageIsPending', PendingFits', StateIsComplete'
  PROVE  Inv'
<1>1. proc \in [Process -> Memory] /\ proc' \in [Process -> Memory] /\ proc'[p] = m
  BY DEF Inv, TypeOK
<1>2. \A q \in Process : q # p => proc'[q] = proc[q]
  BY <1>1
<1>3. TypeOK'
  BY <1>1 DEF TypeOK
<1>4. None # "recover"
  BY NoneAssumption DEF Call
<1>5. RecoversAlone'
  BY <1>1, <1>2, <1>4 DEF Inv, RecoversAlone
<1>6. ASSUME NEW q \in Process, q # p
      PROVE  CallKnown(q)' /\ LockKnown(q)' /\ KnowsState(q)' /\ KnowsFiles(q)'
  <2>1. proc'[q] = proc[q] /\ proc[q].at \notin Inside /\ ~At(q, "unlinking")
    BY <1>2, <1>6
  <2>2. CallKnown(q)'
    BY <1>6, <2>1 DEF Inv, CallKnown
  <2>3. LockKnown(q)'
    BY <2>1 DEF LockKnown, At
  <2>4. KnowsState(q)'
    BY <2>1 DEF KnowsState, At, Inside, Undoing, Changing, Trusting
  <2>5. KnowsFiles(q)'
    BY <2>1 DEF KnowsFiles, At, Inside, Undoing
  <2> QED
    BY <2>2, <2>3, <2>4, <2>5
<1>7. LockKnown(p)'
  BY <1>1 DEF LockKnown, At
<1> QED
  BY <1>3, <1>5, <1>6, <1>7 DEF Inv

(* A process inside the lock moves.                                         *)
LEMMA InsideStep ==
  ASSUME Inv, NEW p \in Process, proc[p].at \in Inside,
         NEW m \in Memory, proc' = [proc EXCEPT ![p] = m],
         m.at # "unlinking", m.call \in {proc[p].call, None},
         lock' = lock, FilesOK', CallKnown(p)', KnowsState(p)', KnowsFiles(p)',
         GenerationsAreWhole', StageIsPending', PendingFits', StateIsComplete'
  PROVE  Inv'
<1>1. \A q \in Process : q # p => proc[q].at \notin Inside /\ ~At(q, "unlinking")
  BY Alone
<1>2. lock' = [pid |-> p, whole |-> TRUE]
  BY DEF Inv, LockKnown
<1> QED
  BY <1>1, <1>2, SoleStep

(* The same when no file but root changes.                                  *)
LEMMA InsideTurn ==
  ASSUME Inv, NEW p \in Process, proc[p].at \in Inside,
         NEW m \in Memory, proc' = [proc EXCEPT ![p] = m],
         m.at # "unlinking", m.call \in {proc[p].call, None}, UNCHANGED files,
         CallKnown(p)', KnowsState(p)', KnowsFiles(p)'
  PROVE  Inv'
<1>1. FilesOK'
  BY DEF Inv, TypeOK, FilesOK, files
<1>2. GenerationsAreWhole' /\ StageIsPending' /\ PendingFits' /\ StateIsComplete' /\ lock' = lock
  BY DEF Inv, files, GenerationsAreWhole, StageIsPending, PendingFits, StateIsComplete, Revision,
         Current, Last, Front
<1> QED
  BY <1>1, <1>2, InsideStep

(* A process moves to a place outside the lock.                             *)
LEMMA OutsideStep ==
  ASSUME Inv, NEW p \in Process,
         NEW m \in Memory, proc' = [proc EXCEPT ![p] = m], m.at \notin Inside,
         UNCHANGED <<lock, pending, state, stage, generation, receipts, torn>>,
         FilesOK', CallKnown(p)',
         m.call = "recover" => \/ proc[p].call = "recover"
                               \/ \A q \in Process : proc[q].call # "recover",
         m.at = "unlinking" => lock # None /\ lock.whole /\ At(lock.pid, "dead"),
         At(p, "dead") => m.at = "dead" \/ (lock # None => lock.pid # p)
  PROVE  Inv'
<1>1. proc \in [Process -> Memory] /\ proc' \in [Process -> Memory] /\ proc'[p] = m
  BY DEF Inv, TypeOK
<1>2. \A q \in Process : q # p => proc'[q] = proc[q]
  BY <1>1
<1>3. TypeOK'
  BY <1>1 DEF TypeOK
<1>4. RecoversAlone'
  BY <1>1, <1>2 DEF Inv, RecoversAlone
<1>5. lock # None => lock.pid \in Process
  BY DEF Inv, TypeOK, FilesOK, LockFile
<1>6. lock # None /\ At(lock.pid, "dead") => At(lock.pid, "dead")'
  <2> SUFFICES ASSUME lock # None, At(lock.pid, "dead") PROVE proc'[lock.pid].at = "dead"
    BY DEF At
  <2>1. CASE lock.pid = p
    BY <1>1, <2>1 DEF At
  <2>2. CASE lock.pid # p
    BY <1>2, <1>5, <2>2 DEF At
  <2> QED
    BY <2>1, <2>2
<1>7. ASSUME NEW q \in Process, q # p
      PROVE  CallKnown(q)' /\ LockKnown(q)' /\ KnowsState(q)' /\ KnowsFiles(q)'
  <2>1. proc'[q] = proc[q]
    BY <1>2, <1>7
  <2>2. CallKnown(q)'
    BY <1>7, <2>1 DEF Inv, CallKnown
  <2>3. LockKnown(q)'
    BY <1>6, <1>7, <2>1 DEF Inv, LockKnown, At
  <2>4. KnowsState(q)'
    BY <1>7, <2>1 DEF Inv, KnowsState, At, Announcing, J!Allowed
  <2>5. KnowsFiles(q)'
    BY <1>7, <2>1 DEF Inv, KnowsFiles, At
  <2> QED
    BY <2>2, <2>3, <2>4, <2>5
<1>8. LockKnown(p)' /\ KnowsState(p)' /\ KnowsFiles(p)'
  <2>1. LockKnown(p)'
    BY <1>1, <1>6 DEF LockKnown, At
  <2>2. KnowsState(p)'
    BY <1>1 DEF KnowsState, At, Inside, Undoing, Changing, Trusting
  <2>3. KnowsFiles(p)'
    BY <1>1 DEF KnowsFiles, At, Inside, Undoing
  <2> QED
    BY <2>1, <2>2, <2>3
<1>9. GenerationsAreWhole' /\ StageIsPending' /\ PendingFits' /\ StateIsComplete'
  BY DEF Inv, GenerationsAreWhole, StageIsPending, PendingFits, StateIsComplete, Revision,
         Current, Last, Front
<1> QED
  BY <1>3, <1>4, <1>7, <1>8, <1>9 DEF Inv
-----------------------------------------------------------------------------
(* Steps outside the lock.                                                  *)

LEMMA BeginKeepsInv ==
  ASSUME Inv, NEW p \in Process, NEW label \in {"owning", "locking"}, NEW call \in Call,
         NEW carrier \in Carrier \cup {None}, NEW expected \in Expectation,
         call = "apply" => carrier \in Carrier, label = "owning" => call = "apply",
         call = "recover" => \A q \in Process : proc[q].call # "recover",
         Begin(p, label, call, carrier, expected)
  PROVE  Inv'
<1> DEFINE m == [proc[p] EXCEPT !.at = label, !.call = call,
                                !.carrier = carrier, !.expected = expected]
<1>1. proc \in [Process -> Memory] /\ state \in History
  BY DEF Inv, TypeOK, FilesOK
<1>2. expected \in Nat \cup {None}
  BY <1>1, HistoryIsSeq DEF Expectation, Revision
<1>3. /\ m \in Memory /\ m.at = label /\ m.call = call /\ m.carrier = carrier
  BY <1>1, <1>2 DEF Memory, Label, Outside
<1>4. proc' = [proc EXCEPT ![p] = m]
  BY DEF Begin
<1> HIDE DEF m
<1>5. proc'[p] = m
  BY <1>1, <1>3, <1>4
<1>6. m.at \notin Inside /\ m.at # "unlinking"
  BY <1>3 DEF Inside, Undoing
<1>7. None \notin Call
  BY NoneAssumption
<1>8. CallKnown(p)'
  BY <1>3, <1>5, <1>7 DEF CallKnown, Undoing, Call
<1>9. FilesOK' /\ UNCHANGED <<lock, pending, state, stage, generation, receipts, torn>>
  BY DEF Begin, files, Inv, TypeOK, FilesOK
<1>10. ~At(p, "dead")
  BY DEF Begin, At
<1> QED
  BY <1>3, <1>4, <1>6, <1>8, <1>9, <1>10, OutsideStep

LEMMA StartsKeepInv ==
  ASSUME Inv, OneRecovery, NEW p \in Process, Starts(p)
  PROVE  Inv'
<1>1. PICK expected \in Expectation :
        \/ \E carrier \in Carrier : StartApply(p, carrier, expected)
        \/ StartRollback(p, expected)
        \/ StartRecover(p, expected)
  BY DEF Starts
<1>2. CASE \E carrier \in Carrier : StartApply(p, carrier, expected)
  BY <1>2, BeginKeepsInv DEF StartApply, Call
<1>3. CASE StartRollback(p, expected)
  BY <1>3, BeginKeepsInv DEF StartRollback, Call
<1>4. CASE StartRecover(p, expected)
  BY <1>4, BeginKeepsInv DEF StartRecover, Call
<1> QED
  BY <1>1, <1>2, <1>3, <1>4

(* A process outside goes on outside, or gives up.                          *)
LEMMA OutsideGoto ==
  ASSUME Inv, NEW p \in Process,
         NEW label \in {"idle", "dead"} \cup Outside, Goto(p, label),
         UNCHANGED <<lock, pending, state, stage, generation, receipts, torn>>,
         FilesOK',
         label \in Outside => proc[p].at \in Outside,
         label = "marking" => At(p, "owning"),
         label # "owning",
         label = "unlinking" => /\ proc[p].call = "recover"
                                /\ lock # None /\ lock.whole /\ At(lock.pid, "dead"),
         At(p, "dead") => label = "dead" \/ (lock # None => lock.pid # p)
  PROVE  Inv'
<1>1. PICK m \in Memory :
        /\ proc' = [proc EXCEPT ![p] = m] /\ proc'[p] = m /\ m.at = label
        /\ label \in {"idle", "dead"} => m.call = None
        /\ label \notin {"idle", "dead"} => m.call = proc[p].call /\ m.carrier = proc[p].carrier
  BY GotoMeans DEF Inv, Label
<1>2. m.at \notin Inside
  BY <1>1 DEF Inside, Outside, Undoing
<1>3. None \notin Call
  BY NoneAssumption
<1>4. CallKnown(p)
  BY DEF Inv
<1>5. CallKnown(p)'
  BY <1>1, <1>3, <1>4 DEF CallKnown, At, Outside, Undoing, Call
<1>6. m.call = "recover" => proc[p].call = "recover"
  BY <1>1, <1>3 DEF Call
<1> QED
  BY <1>1, <1>2, <1>5, <1>6, OutsideStep

LEMMA ThrowOutside ==
  ASSUME NEW p \in Process, proc[p].at \in Outside, Throw(p)
  PROVE  Goto(p, "idle")
BY DEF Throw, Outside, Inside, Undoing

LEMMA OwnKeepsInv ==
  ASSUME Inv, NEW p \in Process, Own(p) \/ Mark(p)
  PROVE  Inv'
<1>1. proc[p].at \in {"owning", "marking"}
  BY DEF Own, Mark, At
<1>2. proc[p].at \in Outside /\ ~At(p, "dead")
  BY <1>1 DEF Outside, At
<1>3. FilesOK' /\ UNCHANGED <<lock, pending, state, stage, generation, receipts, torn>>
  BY DEF Own, Mark, Inv, TypeOK, FilesOK
<1>4. \/ Goto(p, "marking") /\ At(p, "owning")
      \/ Goto(p, "locking")
      \/ Goto(p, "idle")
  BY <1>2, ThrowOutside DEF Own, Mark
<1> QED
  BY <1>2, <1>3, <1>4, OutsideGoto DEF Outside

LEMMA SeeLockKeepsInv ==
  ASSUME Inv, NEW p \in Process, SeeLock(p)
  PROVE  Inv'
<1>1. proc[p].at \in Outside /\ ~At(p, "dead")
  BY DEF SeeLock, At, Outside
<1>2. FilesOK' /\ UNCHANGED <<lock, pending, state, stage, generation, receipts, torn>>
  BY DEF SeeLock, files, Inv, TypeOK, FilesOK
<1>3. \/ Goto(p, "taking")
      \/ /\ Goto(p, "unlinking") /\ proc[p].call = "recover"
         /\ lock # None /\ lock.whole /\ At(lock.pid, "dead")
      \/ Goto(p, "idle")
  BY <1>1, ThrowOutside DEF SeeLock, RecoverableLock
<1> QED
  BY <1>1, <1>2, <1>3, OutsideGoto DEF Outside

(* Nobody is inside when the lock is free, or held by a dead process.       *)
LEMMA NobodyInside ==
  ASSUME Inv, lock = None \/ At(lock.pid, "dead"), NEW q \in Process
  PROVE  proc[q].at \notin Inside
<1> SUFFICES ASSUME proc[q].at \in Inside PROVE FALSE
  OBVIOUS
<1>1. lock = [pid |-> q, whole |-> TRUE]
  BY DEF Inv, LockKnown
<1>2. lock.pid = q /\ lock \in LockFile
  BY <1>1 DEF LockFile
<1>3. lock # None
  BY <1>2, NoneAssumption
<1> QED
  BY <1>2, <1>3 DEF At, Inside, Undoing

(* The lock changes while nobody is inside; the process that changes it     *)
(* gets it, or stays outside.                                               *)
LEMMA LockChanges ==
  ASSUME Inv, NEW p \in Process,
         \A q \in Process : q # p => proc[q].at \notin Inside /\ ~At(q, "unlinking"),
         NEW label \in Label, Goto(p, label),
         lock' \in LockFile \cup {None},
         UNCHANGED <<root, pending, state, stage, generation, receipts, torn>>,
         \/ label \in {"idle", "dead"}
         \/ label = "taking" /\ proc[p].at \in Outside
         \/ /\ label = "reading" /\ proc[p].call = "recover"
            /\ lock' = [pid |-> p, whole |-> TRUE]
         \/ /\ label = "looking" /\ proc[p].call # "recover" /\ proc[p].at \in Outside
            /\ lock' = [pid |-> p, whole |-> TRUE]
  PROVE  Inv'
<1>1. PICK m \in Memory :
        /\ proc' = [proc EXCEPT ![p] = m] /\ proc'[p] = m /\ m.at = label
        /\ label \in {"idle", "dead"} => m.call = None
        /\ label \notin {"idle", "dead"} => m.call = proc[p].call /\ m.carrier = proc[p].carrier
  BY GotoMeans DEF Inv
<1>2. None \notin Call
  BY NoneAssumption
<1>3. CallKnown(p)
  BY DEF Inv
<1>4. label \in {"idle", "dead", "taking", "reading", "looking"}
  OBVIOUS
<1>5. CallKnown(p)'
  BY <1>1, <1>2, <1>3, <1>4 DEF CallKnown, Outside, Undoing, Call
<1>6. KnowsState(p)' /\ KnowsFiles(p)'
  BY <1>1, <1>4 DEF KnowsState, KnowsFiles, At, Changing, Trusting, Undoing
<1>7. m.at # "unlinking" /\ m.call \in {proc[p].call, None}
  BY <1>1, <1>4
<1>8. m.at \in Inside => lock' = [pid |-> p, whole |-> TRUE]
  BY <1>1, <1>4 DEF Inside, Undoing
<1>9. FilesOK'
  BY DEF Inv, TypeOK, FilesOK
<1>10. GenerationsAreWhole' /\ StageIsPending' /\ PendingFits' /\ StateIsComplete'
  BY DEF Inv, GenerationsAreWhole, StageIsPending, PendingFits, StateIsComplete, Revision,
         Current, Last, Front
<1> QED
  BY <1>1, <1>5, <1>6, <1>7, <1>8, <1>9, <1>10, SoleStep

LEMMA UnlinkLockKeepsInv ==
  ASSUME Inv, OneRecovery, NEW p \in Process, UnlinkLock(p)
  PROVE  Inv'
<1>1. At(p, "unlinking") /\ lock # None /\ At(lock.pid, "dead")
  BY DEF UnlinkLock, Inv, LockKnown
<1>2. \A q \in Process : proc[q].at \notin Inside
  BY <1>1, NobodyInside
<1>3. \A q \in Process : At(q, "unlinking") => q = p
  BY <1>1 DEF Inv, CallKnown, RecoversAlone, At
<1>4. proc[p].at \in Outside
  BY <1>1 DEF At, Outside
<1>5. Goto(p, "taking")
  BY <1>1 DEF UnlinkLock
<1> QED
  BY <1>2, <1>3, <1>4, <1>5, LockChanges DEF UnlinkLock, Label, Outside

LEMMA FreeLock ==
  ASSUME Inv, lock = None, NEW q \in Process
  PROVE  proc[q].at \notin Inside /\ ~At(q, "unlinking")
BY NobodyInside DEF Inv, LockKnown

LEMMA TakeLockKeepsInv ==
  ASSUME Inv, NEW p \in Process, TakeLock(p)
  PROVE  Inv'
<1>1. proc[p].at \in Outside /\ ~At(p, "dead")
  BY DEF TakeLock, At, Outside
<1>2. CASE lock = None
  <2>1. \A q \in Process : proc[q].at \notin Inside /\ ~At(q, "unlinking")
    BY <1>2, FreeLock
  <2>2. /\ lock' = [pid |-> p, whole |-> TRUE]
        /\ UNCHANGED <<root, pending, state, stage, generation, receipts, torn>>
        /\ \/ Goto(p, "reading") /\ proc[p].call = "recover"
           \/ Goto(p, "looking") /\ proc[p].call # "recover"
    BY <1>2 DEF TakeLock
  <2>3. lock' \in LockFile \cup {None}
    BY <2>2 DEF LockFile
  <2> QED
    BY <1>1, <2>1, <2>2, <2>3, LockChanges DEF Label, Inside
<1>3. CASE lock # None
  <2>1. Goto(p, "idle") /\ UNCHANGED files
    BY <1>1, <1>3, ThrowOutside DEF TakeLock, files
  <2>2. FilesOK'
    BY <2>1 DEF files, Inv, TypeOK, FilesOK
  <2> QED
    BY <1>1, <2>1, <2>2, OutsideGoto DEF files, Outside
<1> QED
  BY <1>2, <1>3
-----------------------------------------------------------------------------
(* Steps inside the lock.                                                   *)

LEMMA InsideMeans ==
  ASSUME Inv, NEW p \in Process, proc[p].at \in Inside,
         NEW label \in Inside \cup {"idle", "dead"}, Goto(p, label),
         label \in {"deciding"} \cup Undoing => proc[p].call = "recover",
         label \in {"looking", "preparing", "staging", "filling", "closing",
                    "publishing", "rechecking"} => proc[p].call # "recover"
  PROVE  \E m \in Memory :
           /\ proc' = [proc EXCEPT ![p] = m] /\ proc'[p] = m /\ m.at = label
           /\ m.at # "unlinking" /\ m.call \in {proc[p].call, None}
           /\ label \notin {"idle", "dead"} =>
                /\ m.call = proc[p].call /\ m.expected = proc[p].expected
                /\ m.before = proc[p].before /\ m.change = proc[p].change
           /\ CallKnown(p)'
<1>1. PICK m \in Memory :
        /\ proc' = [proc EXCEPT ![p] = m] /\ proc'[p] = m /\ m.at = label
        /\ label \in {"idle", "dead"} => m.call = None
        /\ label \notin {"idle", "dead"} =>
             /\ m.call = proc[p].call /\ m.carrier = proc[p].carrier
             /\ m.expected = proc[p].expected
             /\ m.before = proc[p].before /\ m.change = proc[p].change
  <2>1. label \in Label /\ TypeOK
    BY DEF Inv, Label
  <2> QED
    BY <2>1, GotoMeans
<1>2. None \notin Call
  BY NoneAssumption
<1>3. CallKnown(p) /\ proc[p].call # None
  BY DEF Inv, CallKnown, Inside, Undoing
<1>4. label \notin {"unlinking", "owning", "marking"}
  BY DEF Inside, Undoing
<1>5. CallKnown(p)'
  BY <1>1, <1>2, <1>3, <1>4 DEF CallKnown, Call, Undoing
<1> QED
  BY <1>1, <1>4, <1>5

(* What a process that stops working inside the lock need not know.         *)
Leaving == {"releasing", "failing", "unlocking", "idle", "dead"}

LEMMA LeaveStep ==
  ASSUME Inv, NEW p \in Process, proc[p].at \in Inside,
         NEW label \in Leaving, Goto(p, label),
         lock' = lock, FilesOK',
         GenerationsAreWhole', StageIsPending', PendingFits', StateIsComplete'
  PROVE  Inv'
<1>1. label \in Inside \cup {"idle", "dead"}
  BY DEF Leaving, Inside
<1>2. label \notin {"deciding", "looking", "preparing", "staging", "filling", "closing",
                    "publishing", "rechecking"} \cup Undoing
  BY DEF Leaving, Undoing
<1>3. PICK m \in Memory :
        /\ proc' = [proc EXCEPT ![p] = m] /\ proc'[p] = m /\ m.at = label
        /\ m.at # "unlinking" /\ m.call \in {proc[p].call, None}
        /\ CallKnown(p)'
  BY <1>1, <1>2, InsideMeans
<1>4. KnowsState(p)' /\ KnowsFiles(p)'
  BY <1>3 DEF KnowsState, KnowsFiles, At, Changing, Trusting, Undoing, Leaving
<1> QED
  BY <1>3, <1>4, InsideStep

LEMMA LeaveTurn ==
  ASSUME Inv, NEW p \in Process, proc[p].at \in Inside,
         NEW label \in Leaving, Goto(p, label), UNCHANGED files
  PROVE  Inv'
<1>1. FilesOK' /\ lock' = lock
  BY DEF Inv, TypeOK, FilesOK, files
<1>2. GenerationsAreWhole' /\ StageIsPending' /\ PendingFits' /\ StateIsComplete'
  BY DEF Inv, files, GenerationsAreWhole, StageIsPending, PendingFits, StateIsComplete, Revision,
         Current, Last, Front
<1> QED
  BY <1>1, <1>2, LeaveStep

LEMMA ThrowInside ==
  ASSUME Inv, NEW p \in Process, proc[p].at \in Inside, Throw(p), UNCHANGED files
  PROVE  Inv'
<1>1. Goto(p, "releasing")
  BY DEF Throw
<1> QED
  BY <1>1, LeaveTurn DEF Leaving

LEMMA LookKeepsInv ==
  ASSUME Inv, NEW p \in Process, Look(p)
  PROVE  Inv'
<1>1. proc[p].at = "looking" /\ proc[p].at \in Inside /\ UNCHANGED files
  BY DEF Look, At, Inside
<1>2. proc[p].call # "recover"
  BY <1>1 DEF Inv, CallKnown
<1>3. CASE pending = None
  <2>1. Goto(p, "reading")
    BY <1>3 DEF Look
  <2>2. PICK m \in Memory :
          /\ proc' = [proc EXCEPT ![p] = m] /\ proc'[p] = m /\ m.at = "reading"
          /\ m.at # "unlinking" /\ m.call \in {proc[p].call, None}
          /\ CallKnown(p)'
    BY <1>1, <2>1, InsideMeans DEF Inside, Undoing
  <2>3. KnowsState(p)' /\ KnowsFiles(p)'
    BY <1>1, <1>3, <2>2 DEF KnowsState, KnowsFiles, At, Changing, Trusting, Undoing, files
  <2> QED
    BY <1>1, <2>2, <2>3, InsideTurn
<1>4. CASE pending # None
  BY <1>1, <1>4, ThrowInside DEF Look
<1> QED
  BY <1>3, <1>4

LEMMA ReadMeans ==
  ASSUME Inv, NEW p \in Process, At(p, "reading"),
         NEW label \in {"deciding", "preparing"}, NEW change \in History,
         Read(p, label, change),
         label = "deciding" <=> proc[p].call = "recover"
  PROVE  \E m \in Memory :
           /\ proc' = [proc EXCEPT ![p] = m] /\ proc'[p] = m /\ m.at = label
           /\ m.at # "unlinking" /\ m.call \in {proc[p].call, None}
           /\ m.call = proc[p].call /\ m.expected = proc[p].expected
           /\ m.before = state /\ m.change = change
           /\ CallKnown(p)'
<1> DEFINE m == [proc[p] EXCEPT !.at = label, !.before = state, !.change = change]
<1>1. proc \in [Process -> Memory] /\ state \in History
  BY DEF Inv, TypeOK, FilesOK
<1>2. /\ m \in Memory /\ m.at = label /\ m.before = state /\ m.change = change
      /\ m.call = proc[p].call /\ m.carrier = proc[p].carrier /\ m.expected = proc[p].expected
  BY <1>1 DEF Memory, Label, Inside
<1>3. proc' = [proc EXCEPT ![p] = m]
  BY DEF Read
<1> HIDE DEF m
<1>4. proc'[p] = m
  BY <1>1, <1>3
<1>5. CallKnown(p) /\ proc[p].call # None
  BY DEF Inv, CallKnown, At
<1>6. CallKnown(p)'
  BY <1>2, <1>4, <1>5 DEF CallKnown, Undoing
<1> QED
  BY <1>2, <1>3, <1>4, <1>6

(* A change that a call makes is one that the journal allows.               *)
LEMMA ChangeIsAllowed ==
  ASSUME Inv, NEW p \in Process, Readable, Revision(state) < MaxRevision,
         NEW change, \/ MayApply(p) /\ change = Applied(p)
                     \/ MayRollBack(p) /\ change = RolledBack
  PROVE  /\ change \in History
         /\ \E x \in Change : J!Allowed(x) /\ change = Append(state, x)
<1>1. state \in History /\ Len(state) \in Nat
  BY HistoryIsSeq DEF Inv, TypeOK, FilesOK
<1>2. CASE MayApply(p) /\ change = Applied(p)
  <2> DEFINE x == [operation |-> "apply", carrier |-> proc[p].carrier]
  <2>1. proc[p].carrier \in Carrier
    BY <1>2 DEF MayApply, Inv, CallKnown
  <2>2. x \in Change
    BY <2>1 DEF Change
  <2>3. change = Append(state, x)
    BY <1>2 DEF Applied
  <2>4. J!Allowed(x)
    BY <1>2 DEF MayApply, J!Allowed, Current, Last
  <2> QED
    BY <1>1, <2>2, <2>3, <2>4, AppendHistory DEF Revision
<1>3. CASE MayRollBack(p) /\ change = RolledBack
  <2> DEFINE x == [operation |-> "rollback", carrier |-> Previous(state)]
  <2>1. Len(state) >= 2
    BY <1>3 DEF MayRollBack, Revision
  <2>2. x \in Change
    BY <1>1, <2>1, PreviousIsCarrier DEF Change
  <2>3. change = Append(state, x)
    BY <1>3 DEF RolledBack
  <2>4. J!Allowed(x)
    BY <2>1 DEF J!Allowed, Previous
  <2> QED
    BY <1>1, <2>2, <2>3, <2>4, AppendHistory DEF Revision
<1> QED
  BY <1>2, <1>3

LEMMA ReadStateKeepsInv ==
  ASSUME Inv, NEW p \in Process, ReadState(p)
  PROVE  Inv'
<1> DEFINE fine == Readable /\ RevisionOK(p)
           room == Revision(state) < MaxRevision
<1>1. At(p, "reading") /\ proc[p].at \in Inside /\ UNCHANGED files
  BY DEF ReadState, At, Inside
<1>2. \/ fine /\ proc[p].call = "recover" /\ Read(p, "deciding", << >>)
      \/ fine /\ room /\ MayApply(p) /\ Read(p, "preparing", Applied(p))
      \/ fine /\ room /\ MayRollBack(p) /\ Read(p, "preparing", RolledBack)
      \/ Throw(p)
  BY DEF ReadState
<1>3. CASE proc[p].call = "recover" /\ Read(p, "deciding", << >>)
  <2>1. << >> \in History
    BY BoundAssumption DEF History
  <2>2. PICK m \in Memory :
          /\ proc' = [proc EXCEPT ![p] = m] /\ proc'[p] = m /\ m.at = "deciding"
          /\ m.at # "unlinking" /\ m.call \in {proc[p].call, None}
          /\ m.before = state /\ CallKnown(p)'
    BY <1>1, <1>3, <2>1, ReadMeans
  <2>3. KnowsState(p)' /\ KnowsFiles(p)'
    BY <1>1, <2>2 DEF KnowsState, KnowsFiles, At, Changing, Trusting, Undoing, files
  <2> QED
    BY <1>1, <2>2, <2>3, InsideTurn
<1>4. ASSUME NEW change, fine, room, Read(p, "preparing", change),
             \/ MayApply(p) /\ change = Applied(p)
             \/ MayRollBack(p) /\ change = RolledBack
      PROVE  Inv'
  <2>1. proc[p].call # "recover"
    BY <1>4 DEF MayApply, MayRollBack
  <2>2. /\ change \in History
        /\ \E x \in Change : J!Allowed(x) /\ change = Append(state, x)
    BY <1>4, ChangeIsAllowed
  <2>3. PICK m \in Memory :
          /\ proc' = [proc EXCEPT ![p] = m] /\ proc'[p] = m /\ m.at = "preparing"
          /\ m.at # "unlinking" /\ m.call \in {proc[p].call, None}
          /\ m.call = proc[p].call /\ m.expected = proc[p].expected
          /\ m.before = state /\ m.change = change
          /\ CallKnown(p)'
    BY <1>1, <1>4, <2>1, <2>2, ReadMeans
  <2>4. pending = None /\ proc[p].expected \in {None, Revision(state)}
    BY <1>1, <1>4, <2>1 DEF Inv, KnowsState, RevisionOK
  <2>5. Announcing(p)'
    BY <1>1, <2>2, <2>3 DEF Announcing, J!Allowed, files
  <2>6. KnowsState(p)' /\ KnowsFiles(p)'
    BY <1>1, <2>3, <2>4, <2>5
    DEF KnowsState, KnowsFiles, At, Changing, Trusting, Undoing, files, Revision
  <2> QED
    BY <1>1, <2>3, <2>6, InsideTurn
<1> QED
  BY <1>1, <1>2, <1>3, <1>4, ThrowInside
-----------------------------------------------------------------------------
(* Steps of a change.                                                       *)

(* What is known of the files of a change.                                  *)
LEMMA FilesKnown ==
  ASSUME Inv
  PROVE  /\ state \in History /\ DOMAIN stage \subseteq History
         /\ generation \in [Carrier -> Contents \cup {"none"}]
         /\ receipts \subseteq History
         /\ pending # None => pending \in History \ {<< >>} /\ Current(pending) \in Carrier
         /\ \A h \in History : h # None
         /\ DOMAIN stage \subseteq {pending}
<1>1. /\ state \in History /\ DOMAIN stage \subseteq History
      /\ generation \in [Carrier -> Contents \cup {"none"}] /\ receipts \subseteq History
      /\ pending \in (History \ {<< >>}) \cup {None}
      /\ DOMAIN stage \subseteq {pending}
  BY DEF Inv, TypeOK, FilesOK, StageIsPending
<1>2. \A h \in History : h # None
  BY NoneAssumption
<1>3. pending # None => Current(pending) \in Carrier
  BY <1>1, NonemptyHistory
<1> QED
  BY <1>1, <1>2, <1>3

LEMMA PrepareKeepsInv ==
  ASSUME Inv, NEW p \in Process, Prepare(p)
  PROVE  Inv'
<1> DEFINE change == proc[p].change
<1>1. /\ proc[p].at = "preparing" /\ proc[p].at \in Inside
      /\ Goto(p, "staging") /\ pending' = change
      /\ UNCHANGED <<root, lock, state, stage, generation, receipts, torn>>
  BY DEF Prepare, At, Inside
<1>2. proc[p].call # "recover"
  BY <1>1 DEF Inv, CallKnown
<1>3. /\ pending = None /\ Announcing(p)
      /\ proc[p].expected \in {None, Revision(state)}
  BY <1>1, <1>2 DEF Inv, KnowsState, At
<1>4. PICK x \in Change : change = Append(state, x)
  BY <1>3 DEF Announcing
<1>5. change \in History \ {<< >>} /\ Front(change) = state /\ change # None
  <2>1. change \in History
    BY DEF Inv, TypeOK, Memory
  <2>2. Len(change) =< MaxRevision /\ state \in Seq(Change) /\ state \in History
    BY <2>1, HistoryIsSeq, FilesKnown, BoundAssumption
  <2>3. Len(state) < MaxRevision
    BY <1>4, <2>2, BoundAssumption
  <2> QED
    BY <1>4, <2>1, <2>2, <2>3, AppendHistory, NoneAssumption
<1>6. DOMAIN stage = {}
  BY <1>3, FilesKnown
<1>7. PICK m \in Memory :
        /\ proc' = [proc EXCEPT ![p] = m] /\ proc'[p] = m /\ m.at = "staging"
        /\ m.at # "unlinking" /\ m.call \in {proc[p].call, None}
        /\ m.expected = proc[p].expected
        /\ m.before = proc[p].before /\ m.change = change
        /\ CallKnown(p)'
  BY <1>1, <1>2, InsideMeans DEF Inside, Undoing
<1>8. KnowsState(p)'
  BY <1>1, <1>3, <1>5, <1>7 DEF KnowsState, At, Announcing, Revision
<1>9. KnowsFiles(p)'
  BY <1>1, <1>6, <1>7 DEF KnowsFiles, At, Undoing
<1>10. Current(change) \in Carrier
  BY <1>5, NonemptyHistory
<1>11. PendingFits'
  BY <1>1, <1>5, <1>6, <1>10 DEF PendingFits, Inv, GenerationsAreWhole, Current, Last
<1>12. FilesOK' /\ GenerationsAreWhole' /\ StageIsPending' /\ StateIsComplete'
  <2>1. FilesOK'
    BY <1>1, <1>5 DEF Inv, TypeOK, FilesOK
  <2>2. StageIsPending'
    BY <1>1, <1>6 DEF StageIsPending
  <2>3. GenerationsAreWhole' /\ StateIsComplete'
    BY <1>1 DEF Inv, GenerationsAreWhole, StateIsComplete, Revision
  <2> QED
    BY <2>1, <2>2, <2>3
<1> QED
  BY <1>1, <1>7, <1>8, <1>9, <1>11, <1>12, InsideStep

(* The staging directory of the pending change gets other contents.         *)
LEMMA StagedMeans ==
  ASSUME Inv, pending # None, NEW contents \in Contents, Staged(pending, contents)
  PROVE  /\ DOMAIN stage' = {pending} /\ stage'[pending] = contents
         /\ \A h \in DOMAIN stage' : stage'[h] \in Contents
<1>1. DOMAIN stage' = {pending}
  BY FilesKnown DEF Staged
<1>2. stage'[pending] = contents
  BY <1>1 DEF Staged
<1> QED
  BY <1>1, <1>2

LEMMA UnstagedMeans ==
  ASSUME Inv, Unstaged(pending)
  PROVE  DOMAIN stage' = {} /\ \A h \in DOMAIN stage' : stage'[h] \in Contents
<1>1. DOMAIN stage' = {}
  BY FilesKnown DEF Unstaged, Restrict
<1> QED
  BY <1>1

(* A step of a change that does nothing but to move on and write to its     *)
(* staging directory.                                                       *)
LEMMA StageStep ==
  ASSUME Inv, NEW p \in Process, proc[p].at \in Changing,
         NEW label \in Changing \cup Leaving, Goto(p, label),
         UNCHANGED <<root, lock, pending, state, generation, receipts>>,
         torn' \subseteq History,
         DOMAIN stage' \subseteq {pending}, \A h \in DOMAIN stage' : stage'[h] \in Contents,
         generation[Current(pending)] = "full" => DOMAIN stage' = {},
         label \in Undoing => proc[p].call = "recover",
         label \in Trusting => proc[p].at \in Trusting,
         label \in Changing => KnowsFiles(p)',
         label \in {"staging", "filling", "closing", "publishing", "rechecking"}
           => proc[p].call # "recover"
  PROVE  Inv'
<1>1. pending # None /\ proc[p].change = pending /\ proc[p].at \in Inside
  <2>1. proc[p].at \in Inside /\ proc[p].change = pending
    BY DEF Changing, Undoing, Inside, Inv, KnowsState
  <2>2. proc[p].change # None
    BY NoneAssumption DEF Inv, TypeOK, Memory
  <2> QED
    BY <2>1, <2>2
<1>2. DOMAIN stage' \subseteq History
  BY <1>1, FilesKnown
<1>3. FilesOK'
  BY <1>2 DEF Inv, TypeOK, FilesOK
<1>4. GenerationsAreWhole' /\ StageIsPending' /\ PendingFits' /\ StateIsComplete'
  <2>1. GenerationsAreWhole' /\ StageIsPending' /\ StateIsComplete'
    BY DEF Inv, GenerationsAreWhole, StageIsPending, StateIsComplete, Revision
  <2>2. PendingFits'
    BY DEF Inv, PendingFits, Current, Last, Front
  <2> QED
    BY <2>1, <2>2
<1>5. CASE label \in Leaving
  BY <1>1, <1>3, <1>4, <1>5, LeaveStep
<1>6. CASE label \in Changing
  <2>1. /\ label \in Inside /\ label \notin {"deciding", "looking", "preparing", "idle", "dead"}
    BY <1>6 DEF Changing, Undoing, Inside
  <2>2. PICK m \in Memory :
          /\ proc' = [proc EXCEPT ![p] = m] /\ proc'[p] = m /\ m.at = label
          /\ m.at # "unlinking" /\ m.call \in {proc[p].call, None}
          /\ m.call = proc[p].call /\ m.expected = proc[p].expected
          /\ m.before = proc[p].before /\ m.change = proc[p].change
          /\ CallKnown(p)'
    BY <1>1, <2>1, InsideMeans
  <2>3. KnowsState(p)
    BY DEF Inv
  <2>4. KnowsState(p)'
    BY <1>1, <1>6, <2>1, <2>2, <2>3
    DEF KnowsState, At, Revision, Changing, Trusting, Undoing, Front
  <2> QED
    BY <1>1, <1>3, <1>4, <1>6, <2>2, <2>4, InsideStep
<1> QED
  BY <1>5, <1>6
LEMMA InChange ==
  ASSUME Inv, NEW p \in Process, proc[p].at \in Changing
  PROVE  /\ proc[p].at \in Inside /\ proc[p].change = pending /\ pending # None
         /\ pending \in History \ {<< >>} /\ Current(pending) \in Carrier
         /\ KnowsState(p) /\ KnowsFiles(p) /\ CallKnown(p)
<1>1. proc[p].at \in Inside /\ proc[p].change = pending
  BY DEF Changing, Undoing, Inside, Inv, KnowsState
<1>2. proc[p].change # None
  BY NoneAssumption DEF Inv, TypeOK, Memory
<1> QED
  BY <1>1, <1>2, FilesKnown DEF Inv

LEMMA StageKeepsInv ==
  ASSUME Inv, NEW p \in Process, Stage(p)
  PROVE  Inv'
<1>1. /\ proc[p].at = "staging" /\ proc[p].at \in Changing
      /\ UNCHANGED <<root, lock, pending, state, generation, receipts, torn>>
  BY DEF Stage, At, Changing
<1>2. /\ proc[p].at \in Inside /\ proc[p].change = pending /\ pending # None
      /\ KnowsState(p) /\ KnowsFiles(p) /\ CallKnown(p)
      /\ DOMAIN stage = {} /\ pending \in History
  BY <1>1, InChange, FilesKnown DEF KnowsFiles, At
<1>3. proc[p].call # "recover"
  BY <1>1, <1>2 DEF CallKnown
<1>4. CASE generation[Current(pending)] = "full" /\ Goto(p, "receipting") /\ UNCHANGED stage
  <2>1. proc'[p].at = "receipting"
    <3>1. "receipting" \in Label /\ TypeOK
      BY DEF Label, Inside, Inv
    <3> QED
      BY <1>4, <3>1, GotoMeans
  <2>2. KnowsFiles(p)'
    BY <1>1, <1>4, <2>1 DEF KnowsFiles, At, Undoing, Current, Last
  <2> QED
    BY <1>1, <1>2, <1>4, <2>2, StageStep DEF Changing, Trusting, Undoing, Inv, TypeOK, FilesOK
<1>5. CASE Throw(p) /\ UNCHANGED stage
  BY <1>1, <1>2, <1>5, ThrowInside DEF files
<1>6. CASE /\ generation[Current(pending)] = "none" /\ Goto(p, "filling")
           /\ Staged(pending, "empty")
  <2>1. DOMAIN stage' = {pending} /\ stage'[pending] = "empty"
        /\ \A h \in DOMAIN stage' : stage'[h] \in Contents
    BY <1>2, <1>6, StagedMeans DEF Contents
  <2>2. proc'[p].at = "filling"
    <3>1. "filling" \in Label /\ TypeOK
      BY DEF Label, Inside, Inv
    <3> QED
      BY <1>6, <3>1, GotoMeans
  <2>3. KnowsFiles(p)'
    BY <1>1, <1>6, <2>1, <2>2 DEF KnowsFiles, At, Undoing, Current, Last
  <2> QED
    BY <1>1, <1>2, <1>3, <1>6, <2>1, <2>3, StageStep
    DEF Changing, Trusting, Undoing, Inv, TypeOK, FilesOK
<1> QED
  BY <1>2, <1>4, <1>5, <1>6 DEF Stage

LEMMA WriteKeepsInv ==
  ASSUME Inv, NEW p \in Process, Fill(p) \/ Close(p)
  PROVE  Inv'
<1>1. /\ proc[p].at \in {"filling", "closing"} /\ proc[p].at \in Changing
      /\ UNCHANGED <<root, lock, pending, state, generation, receipts, torn>>
  BY DEF Fill, Close, Write, At, Changing
<1>2. /\ proc[p].at \in Inside /\ proc[p].change = pending /\ pending # None
      /\ CallKnown(p) /\ generation[Current(pending)] = "none"
  BY <1>1, InChange DEF KnowsFiles
<1>3. proc[p].call # "recover"
  BY <1>1, <1>2 DEF CallKnown
<1>4. \/ Staged(pending, "part") /\ Goto(p, "closing")
      \/ Staged(pending, "full") /\ Goto(p, "publishing")
      \/ Throw(p) /\ UNCHANGED stage
  BY <1>2 DEF Fill, Close, Write
<1>5. ASSUME NEW contents \in {"part", "full"}, NEW label \in {"closing", "publishing"},
             Staged(pending, contents), Goto(p, label),
             contents = IF label = "closing" THEN "part" ELSE "full"
      PROVE  Inv'
  <2>1. DOMAIN stage' = {pending} /\ stage'[pending] = contents
        /\ \A h \in DOMAIN stage' : stage'[h] \in Contents
    BY <1>2, <1>5, StagedMeans DEF Contents
  <2>2. proc'[p].at = label
    <3>1. label \in Label /\ TypeOK
      BY DEF Label, Inside, Inv
    <3> QED
      BY <1>5, <3>1, GotoMeans
  <2>3. KnowsFiles(p)'
    BY <1>1, <1>2, <1>5, <2>1, <2>2 DEF KnowsFiles, At, Undoing, Current, Last
  <2> QED
    BY <1>1, <1>2, <1>3, <1>5, <2>1, <2>3, StageStep
    DEF Changing, Trusting, Undoing, Inv, TypeOK, FilesOK
<1>6. CASE Throw(p) /\ UNCHANGED stage
  BY <1>1, <1>2, <1>6, ThrowInside DEF files
<1> QED
  BY <1>4, <1>5, <1>6

LEMMA PublishKeepsInv ==
  ASSUME Inv, NEW p \in Process, Publish(p)
  PROVE  Inv'
<1> DEFINE c == Current(pending)
<1>1. /\ proc[p].at = "publishing" /\ proc[p].at \in Changing
      /\ UNCHANGED <<root, lock, pending, state, receipts, torn>>
  BY DEF Publish, At, Changing
<1>2. /\ proc[p].at \in Inside /\ proc[p].change = pending /\ pending # None
      /\ pending \in History \ {<< >>} /\ c \in Carrier
      /\ KnowsState(p) /\ KnowsFiles(p) /\ CallKnown(p)
      /\ pending \in DOMAIN stage /\ generation[c] = "none" /\ stage[pending] = "full"
  BY <1>1, InChange DEF KnowsFiles, At
<1>3. proc[p].call # "recover" /\ state = Front(pending)
  BY <1>1, <1>2 DEF CallKnown, KnowsState, Trusting
<1>4. generation' = [generation EXCEPT ![c] = "full"] /\ Unstaged(pending) /\ Goto(p, "receipting")
  BY <1>2 DEF Publish
<1>5. generation' \in [Carrier -> Contents \cup {"none"}] /\ generation'[c] = "full"
      /\ \A d \in Carrier : d # c => generation'[d] = generation[d]
  BY <1>2, <1>4, FilesKnown DEF Contents
<1>6. DOMAIN stage' = {} /\ \A h \in DOMAIN stage' : stage'[h] \in Contents
  BY <1>4, UnstagedMeans
<1>7. PICK m \in Memory :
        /\ proc' = [proc EXCEPT ![p] = m] /\ proc'[p] = m /\ m.at = "receipting"
        /\ m.at # "unlinking" /\ m.call \in {proc[p].call, None}
        /\ m.call = proc[p].call /\ m.expected = proc[p].expected
        /\ m.before = proc[p].before /\ m.change = proc[p].change
        /\ CallKnown(p)'
  BY <1>2, <1>4, InsideMeans DEF Inside, Undoing
<1>8. KnowsState(p)'
  BY <1>1, <1>2, <1>3, <1>7 DEF KnowsState, At, Revision, Changing, Trusting, Undoing, Front
<1>9. KnowsFiles(p)'
  BY <1>1, <1>5, <1>7 DEF KnowsFiles, At, Undoing, Current, Last
<1>10. FilesOK'
  BY <1>1, <1>5, <1>6 DEF Inv, TypeOK, FilesOK
<1>11. GenerationsAreWhole' /\ StageIsPending'
  BY <1>5, <1>6 DEF GenerationsAreWhole, StageIsPending, Inv
<1>12. PendingFits'
  BY <1>1, <1>3, <1>5, <1>6 DEF PendingFits, Current, Last, Front
<1>13. StateIsComplete'
  <2>1. \A d : generation[d] = "full" => generation'[d] = "full"
    BY <1>4, FilesKnown
  <2> QED
    BY <1>1, <2>1 DEF StateIsComplete, Inv, Revision
<1> QED
  BY <1>1, <1>2, <1>7, <1>8, <1>9, <1>10, <1>11, <1>12, <1>13, InsideStep
LEMMA PublishReceiptKeepsInv ==
  ASSUME Inv, NEW p \in Process, PublishReceipt(p)
  PROVE  Inv'
<1>1. /\ proc[p].at = "receipting" /\ proc[p].at \in Changing
      /\ UNCHANGED <<root, lock, pending, state, stage, generation, torn>>
  BY DEF PublishReceipt, At, Changing
<1>2. /\ proc[p].at \in Inside /\ proc[p].change = pending /\ pending \in History
      /\ KnowsState(p) /\ KnowsFiles(p) /\ CallKnown(p)
  BY <1>1, InChange
<1>3. CASE pending \in torn
  <2>1. Throw(p) /\ UNCHANGED files
    BY <1>1, <1>2, <1>3 DEF PublishReceipt, files
  <2> QED
    BY <1>2, <2>1, ThrowInside
<1>4. ASSUME NEW label \in {"rechecking", "committing"}, Goto(p, label),
             label = "rechecking" => proc[p].call # "recover",
             receipts' = receipts \cup {pending}
      PROVE  Inv'
  <2>1. PICK m \in Memory :
          /\ proc' = [proc EXCEPT ![p] = m] /\ proc'[p] = m /\ m.at = label
          /\ m.at # "unlinking" /\ m.call \in {proc[p].call, None}
          /\ m.call = proc[p].call /\ m.expected = proc[p].expected
          /\ m.before = proc[p].before /\ m.change = proc[p].change
          /\ CallKnown(p)'
    BY <1>2, <1>4, InsideMeans DEF Inside, Undoing
  <2>2. KnowsState(p)'
    BY <1>1, <1>2, <1>4, <2>1 DEF KnowsState, At, Revision, Changing, Trusting, Undoing, Front
  <2>3. KnowsFiles(p)'
    BY <1>1, <1>2, <1>4, <2>1 DEF KnowsFiles, At, Undoing, Current, Last
  <2>4. FilesOK'
    BY <1>1, <1>2, <1>4 DEF Inv, TypeOK, FilesOK
  <2>5. GenerationsAreWhole' /\ StageIsPending' /\ StateIsComplete'
    BY <1>1, <1>4 DEF Inv, GenerationsAreWhole, StageIsPending, StateIsComplete, Revision
  <2>6. PendingFits'
    BY <1>1 DEF Inv, PendingFits, Current, Last, Front
  <2> QED
    BY <1>1, <1>2, <2>1, <2>2, <2>3, <2>4, <2>5, <2>6, InsideStep
<1>5. CASE pending \notin torn
  BY <1>2, <1>4, <1>5 DEF PublishReceipt
<1> QED
  BY <1>3, <1>5

LEMMA RecheckKeepsInv ==
  ASSUME Inv, NEW p \in Process, Recheck(p)
  PROVE  Inv'
<1>1. proc[p].at = "rechecking" /\ proc[p].at \in Changing /\ UNCHANGED files
  BY DEF Recheck, At, Changing
<1>2. /\ proc[p].at \in Inside /\ KnowsFiles(p) /\ KnowsState(p)
      /\ proc[p].change = pending /\ pending # None
  BY <1>1, InChange
<1>3. CASE Goto(p, "committing")
  <2>1. proc'[p].at = "committing"
    <3>1. "committing" \in Label /\ TypeOK
      BY DEF Label, Inside, Inv
    <3> QED
      BY <1>3, <3>1, GotoMeans
  <2>2. KnowsFiles(p)'
    BY <1>1, <1>2, <2>1 DEF KnowsFiles, At, Undoing, Current, Last, files
  <2>3. generation[Current(pending)] = "full" => DOMAIN stage = {}
    BY <1>2, FilesKnown DEF Inv, PendingFits
  <2> QED
    BY <1>1, <1>3, <2>2, <2>3, StageStep, FilesKnown
    DEF Changing, Trusting, Undoing, files, Inv, TypeOK, FilesOK
<1>4. CASE Throw(p)
  BY <1>1, <1>2, <1>4, ThrowInside
<1> QED
  BY <1>3, <1>4 DEF Recheck

LEMMA CommitKeepsInv ==
  ASSUME Inv, NEW p \in Process, Commit(p)
  PROVE  Inv'
<1>1. /\ proc[p].at = "committing" /\ proc[p].at \in Changing
      /\ Goto(p, "dropping") /\ state' = proc[p].change
      /\ UNCHANGED <<root, lock, pending, stage, generation, receipts, torn>>
  BY DEF Commit, At, Changing
<1>2. /\ proc[p].at \in Inside /\ proc[p].change = pending /\ pending # None
      /\ pending \in History \ {<< >>} /\ Current(pending) \in Carrier
      /\ generation[Current(pending)] = "full" /\ pending \in receipts
  BY <1>1, InChange DEF KnowsFiles
<1>3. pending \notin DOMAIN stage /\ state \in {Front(pending), pending}
  BY <1>2 DEF Inv, PendingFits
<1>4. PICK m \in Memory :
        /\ proc' = [proc EXCEPT ![p] = m] /\ proc'[p] = m /\ m.at = "dropping"
        /\ m.at # "unlinking" /\ m.call \in {proc[p].call, None}
        /\ m.change = proc[p].change
        /\ CallKnown(p)'
  BY <1>1, <1>2, InsideMeans DEF Inside, Undoing
<1>5. KnowsState(p)' /\ KnowsFiles(p)'
  BY <1>1, <1>2, <1>3, <1>4 DEF KnowsState, KnowsFiles, At, Changing, Trusting, Undoing
<1>6. FilesOK' /\ GenerationsAreWhole' /\ StageIsPending'
  BY <1>1, <1>2 DEF Inv, TypeOK, FilesOK, GenerationsAreWhole, StageIsPending
<1>7. PendingFits'
  BY <1>1, <1>2, <1>3 DEF PendingFits, Current, Last
<1>8. StateIsComplete'
  <2>1. CASE state = pending
    BY <1>1, <1>2, <2>1 DEF Inv, StateIsComplete, Revision
  <2>2. CASE state = Front(pending)
    <3>1. Len(pending) \in Nat /\ Len(pending) >= 1 /\ Len(state) = Len(pending) - 1
      BY <1>2, <2>2, NonemptyHistory, HistoryIsSeq
    <3>2. ASSUME NEW n \in 1 .. Len(pending)
          PROVE  SubSeq(pending, 1, n) \in receipts /\ generation[pending[n].carrier] = "full"
      <4>1. CASE n = Len(pending)
        BY <1>2, <4>1, NonemptyHistory
      <4>2. CASE n # Len(pending)
        <5>1. n \in 1 .. Len(pending) - 1
          BY <3>1, <4>2
        <5>2. pending[n] = state[n] /\ SubSeq(pending, 1, n) = SubSeq(state, 1, n)
          BY <1>2, <2>2, <5>1, NonemptyHistory
        <5>3. n \in 1 .. Len(state)
          BY <3>1, <5>1
        <5> QED
          BY <5>2, <5>3 DEF Inv, StateIsComplete, Revision
      <4> QED
        BY <4>1, <4>2
    <3> QED
      BY <1>1, <1>2, <3>2 DEF StateIsComplete, Revision
  <2> QED
    BY <1>3, <2>1, <2>2
<1> QED
  BY <1>1, <1>2, <1>4, <1>5, <1>6, <1>7, <1>8, InsideStep

LEMMA DropKeepsInv ==
  ASSUME Inv, NEW p \in Process, Drop(p)
  PROVE  Inv'
<1>1. /\ proc[p].at = "dropping" /\ proc[p].at \in Changing
      /\ Goto(p, "releasing") /\ pending' = None
      /\ UNCHANGED <<root, lock, state, stage, generation, receipts, torn>>
  BY DEF Drop, At, Changing
<1>2. proc[p].at \in Inside /\ pending \notin DOMAIN stage
  BY <1>1, InChange DEF KnowsFiles, At
<1>3. DOMAIN stage = {}
  BY <1>2, FilesKnown
<1>4. FilesOK' /\ GenerationsAreWhole' /\ StageIsPending' /\ PendingFits' /\ StateIsComplete'
  BY <1>1, <1>3 DEF Inv, TypeOK, FilesOK, GenerationsAreWhole, StageIsPending, PendingFits,
                    StateIsComplete, Revision
<1> QED
  BY <1>1, <1>2, <1>4, LeaveStep DEF Leaving

LEMMA DecideKeepsInv ==
  ASSUME Inv, NEW p \in Process, Decide(p)
  PROVE  Inv'
<1>1. proc[p].at = "deciding" /\ proc[p].at \in Inside /\ UNCHANGED files
  BY DEF Decide, At, Inside
<1>2. proc[p].call = "recover" /\ proc[p].before = state
  BY <1>1 DEF Inv, CallKnown, KnowsState, At
<1>3. CASE Goto(p, "releasing") \/ Throw(p)
  BY <1>1, <1>3, LeaveTurn, ThrowInside DEF Leaving
<1>4. ASSUME NEW label \in {"receipting", "dropping", "clearing"}, pending # None,
             proc' = [proc EXCEPT ![p] = [@ EXCEPT !.at = label, !.change = pending]],
             label = "receipting" => CanFinish(p),
             label # "receipting" => CanUndo(p),
             label = "dropping" => pending \notin DOMAIN stage
      PROVE  Inv'
  <2> DEFINE m == [proc[p] EXCEPT !.at = label, !.change = pending]
  <2>1. proc \in [Process -> Memory] /\ pending \in History
    BY <1>4, FilesKnown DEF Inv, TypeOK
  <2>2. /\ m \in Memory /\ m.at = label /\ m.change = pending /\ m.before = state
        /\ m.call = "recover"
    BY <1>2, <2>1 DEF Memory, Label, Inside, Undoing
  <2>3. proc' = [proc EXCEPT ![p] = m]
    BY <1>4
  <2> HIDE DEF m
  <2>4. proc'[p] = m
    BY <2>1, <2>2, <2>3
  <2>5. CallKnown(p)'
    <3>1. None # "recover"
      BY NoneAssumption DEF Call
    <3> QED
      BY <2>2, <2>4, <3>1 DEF CallKnown, Undoing
  <2>6. KnowsState(p)'
    BY <1>1, <2>2, <2>4 DEF KnowsState, At, Changing, Trusting, Undoing, files
  <2>7. KnowsFiles(p)'
    BY <1>1, <1>2, <1>4, <2>2, <2>4
    DEF KnowsFiles, At, Undoing, CanFinish, CanUndo, files, Current, Last, Front
  <2> QED
    BY <1>1, <1>2, <2>2, <2>3, <2>5, <2>6, <2>7, InsideTurn
<1>5. \/ Goto(p, "releasing") \/ Throw(p)
      \/ \E label \in {"receipting", "dropping", "clearing"} :
           /\ pending # None
           /\ proc' = [proc EXCEPT ![p] = [@ EXCEPT !.at = label, !.change = pending]]
           /\ label = "receipting" => CanFinish(p)
           /\ label # "receipting" => CanUndo(p)
           /\ label = "dropping" => pending \notin DOMAIN stage
  BY DEF Decide
<1> QED
  BY <1>3, <1>4, <1>5

LEMMA RemoveTreeKeepsInv ==
  ASSUME Inv, NEW p \in Process, ClearDirectory(p) \/ RemoveDirectory(p)
  PROVE  Inv'
<1>1. /\ proc[p].at \in Undoing /\ proc[p].at \in Changing
      /\ UNCHANGED <<root, lock, pending, state, generation, receipts, torn>>
  BY DEF ClearDirectory, RemoveDirectory, At, Changing, Undoing
<1>2. /\ proc[p].at \in Inside /\ proc[p].change = pending /\ pending # None
      /\ CallKnown(p) /\ state = Front(pending) /\ generation[Current(pending)] = "none"
  BY <1>1, InChange DEF KnowsFiles
<1>3. proc[p].call = "recover"
  BY <1>1, <1>2 DEF CallKnown
<1>4. \/ Staged(pending, "empty") /\ Goto(p, "removing")
      \/ Unstaged(pending) /\ Goto(p, "dropping")
      \/ Throw(p) /\ UNCHANGED stage
  BY <1>2 DEF ClearDirectory, RemoveDirectory
<1>5. ASSUME NEW label \in {"removing", "dropping"}, Goto(p, label)
      PROVE  proc'[p].at = label
  <2>1. label \in Label /\ TypeOK
    BY DEF Label, Inside, Undoing, Inv
  <2> QED
    BY <1>5, <2>1, GotoMeans
<1>6. CASE Staged(pending, "empty") /\ Goto(p, "removing")
  <2>1. DOMAIN stage' = {pending} /\ \A h \in DOMAIN stage' : stage'[h] \in Contents
    BY <1>2, <1>6, StagedMeans DEF Contents
  <2>2. KnowsFiles(p)'
    BY <1>1, <1>2, <1>5, <1>6 DEF KnowsFiles, At, Undoing, Current, Last, Front
  <2> QED
    BY <1>1, <1>2, <1>3, <1>6, <2>1, <2>2, StageStep
    DEF Changing, Trusting, Undoing, Inv, TypeOK, FilesOK
<1>7. CASE Unstaged(pending) /\ Goto(p, "dropping")
  <2>1. DOMAIN stage' = {} /\ \A h \in DOMAIN stage' : stage'[h] \in Contents
    BY <1>7, UnstagedMeans
  <2>2. KnowsFiles(p)'
    BY <1>1, <1>2, <1>5, <1>7, <2>1 DEF KnowsFiles, At, Undoing, Current, Last, Front
  <2> QED
    BY <1>1, <1>2, <1>3, <1>7, <2>1, <2>2, StageStep
    DEF Changing, Trusting, Undoing, Inv, TypeOK, FilesOK
<1>8. CASE Throw(p) /\ UNCHANGED stage
  BY <1>1, <1>2, <1>8, ThrowInside DEF files
<1> QED
  BY <1>4, <1>6, <1>7, <1>8
-----------------------------------------------------------------------------
(* The end of a call, and faults.                                           *)

LEMMA UnlockKeepsInv ==
  ASSUME Inv, NEW p \in Process, ReadOwnLock(p) \/ Unlock(p)
  PROVE  Inv'
<1>1. proc[p].at \in Inside
  BY DEF ReadOwnLock, Unlock, At, Inside
<1>2. CASE ReadOwnLock(p)
  BY <1>1, <1>2, LeaveTurn DEF ReadOwnLock, Leaving
<1>3. CASE Unlock(p)
  <2>1. \A q \in Process : q # p => proc[q].at \notin Inside /\ ~At(q, "unlinking")
    BY <1>1, Alone
  <2> QED
    BY <1>3, <2>1, LockChanges DEF Unlock, Label
<1> QED
  BY <1>2, <1>3

(* A fault leaves a process where nothing is to be known of it.             *)
FaultEnd(p) ==
  IF proc[p].at \in Inside THEN {"failing", "idle", "dead"} ELSE {"idle", "dead"}

LEMMA StopKeepsInv ==
  ASSUME Inv, NEW p \in Process, ~At(p, "dead"),
         NEW label \in FaultEnd(p), Goto(p, label), UNCHANGED files
  PROVE  Inv'
<1>1. CASE proc[p].at \in Inside
  BY <1>1, LeaveTurn DEF FaultEnd, Leaving
<1>2. CASE proc[p].at \notin Inside
  <2>1. label \in {"idle", "dead"}
    BY <1>2 DEF FaultEnd
  <2>2. FilesOK' /\ UNCHANGED <<lock, pending, state, stage, generation, receipts, torn>>
    BY DEF files, Inv, TypeOK, FilesOK
  <2> QED
    BY <2>1, <2>2, OutsideGoto DEF Outside
<1> QED
  BY <1>1, <1>2

LEMMA HalfWrittenKeepsInv ==
  ASSUME Inv, NEW p \in Process, NEW label \in FaultEnd(p), Goto(p, label), HalfWritten(p)
  PROVE  Inv'
<1>1. CASE /\ At(p, "marking") /\ root' = "torn"
           /\ UNCHANGED <<lock, pending, state, stage, generation, receipts, torn>>
  <2>1. label \in {"idle", "dead"} /\ ~At(p, "dead")
    BY <1>1 DEF FaultEnd, At, Inside, Undoing
  <2>2. FilesOK'
    BY <1>1 DEF Inv, TypeOK, FilesOK
  <2> QED
    BY <1>1, <2>1, <2>2, OutsideGoto DEF Outside
<1>2. CASE /\ At(p, "taking") /\ lock = None /\ lock' = [pid |-> p, whole |-> FALSE]
           /\ UNCHANGED <<root, pending, state, stage, generation, receipts, torn>>
  <2>1. label \in {"idle", "dead"}
    BY <1>2 DEF FaultEnd, At, Inside, Undoing
  <2>2. \A q \in Process : proc[q].at \notin Inside /\ ~At(q, "unlinking")
    BY <1>2, FreeLock
  <2>3. lock' \in LockFile \cup {None}
    BY <1>2 DEF LockFile
  <2> QED
    BY <1>2, <2>1, <2>2, <2>3, LockChanges DEF Label
<1>3. CASE /\ proc[p].at \in {"filling", "closing"} /\ Staged(proc[p].change, "torn")
           /\ UNCHANGED <<root, lock, pending, state, generation, receipts, torn>>
  <2>1. /\ proc[p].at \in Changing /\ proc[p].at \in Inside /\ proc[p].change = pending
        /\ pending # None /\ generation[Current(pending)] = "none"
    BY <1>3, InChange DEF Changing, KnowsFiles
  <2>2. DOMAIN stage' = {pending} /\ \A h \in DOMAIN stage' : stage'[h] \in Contents
    BY <1>3, <2>1, StagedMeans DEF Contents
  <2>3. label \in Leaving /\ label \notin Changing \cup Trusting \cup Undoing
    BY <2>1 DEF FaultEnd, Leaving, Changing, Trusting, Undoing
  <2>4. label \notin {"staging", "filling", "closing", "publishing", "rechecking"}
    BY <2>3 DEF Changing
  <2> QED
    BY <1>3, <2>1, <2>2, <2>3, <2>4, StageStep DEF Inv, TypeOK, FilesOK
<1>4. CASE /\ At(p, "receipting") /\ torn' = torn \cup {proc[p].change}
           /\ UNCHANGED <<root, lock, pending, state, stage, generation, receipts>>
  <2>1. /\ proc[p].at \in Changing /\ proc[p].at \in Inside /\ proc[p].change = pending
        /\ pending # None /\ pending \in History /\ generation[Current(pending)] = "full"
    BY <1>4, InChange DEF Changing, KnowsFiles, At
  <2>2. DOMAIN stage = {}
    BY <2>1, FilesKnown DEF Inv, PendingFits
  <2>3. torn' \subseteq History
    BY <1>4, <2>1 DEF Inv, TypeOK, FilesOK
  <2>4. label \in Leaving /\ label \notin Changing \cup Trusting \cup Undoing
    BY <2>1 DEF FaultEnd, Leaving, Changing, Trusting, Undoing
  <2>5. label \notin {"staging", "filling", "closing", "publishing", "rechecking"}
    BY <2>4 DEF Changing
  <2>6. DOMAIN stage' \subseteq {pending} /\ \A h \in DOMAIN stage' : stage'[h] \in Contents
    BY <1>4, <2>2
  <2> QED
    BY <1>4, <2>1, <2>2, <2>3, <2>4, <2>5, <2>6, StageStep
<1> QED
  BY <1>1, <1>2, <1>3, <1>4 DEF HalfWritten, At

LEMMA FaultsKeepInv ==
  ASSUME Inv, NEW p \in Process, Faults(p)
  PROVE  Inv'
<1>1. ~At(p, "dead")
  BY DEF Faults, Interrupt, Crash, At
<1>2. PICK label \in FaultEnd(p) : Goto(p, label)
  BY DEF Faults, Interrupt, Crash, FaultEnd
<1>3. UNCHANGED files \/ HalfWritten(p)
  BY DEF Faults, Interrupt, Crash
<1> QED
  BY <1>1, <1>2, <1>3, StopKeepsInv, HalfWrittenKeepsInv

LEMMA RestartKeepsInv ==
  ASSUME Inv, NEW p \in Process, Restart(p)
  PROVE  Inv'
<1>1. FilesOK' /\ UNCHANGED <<lock, pending, state, stage, generation, receipts, torn>>
  BY DEF Restart, files, Inv, TypeOK, FilesOK
<1> QED
  BY <1>1, OutsideGoto DEF Restart, Outside
-----------------------------------------------------------------------------
(* The invariant.                                                           *)

LEMMA InitMakesInv == Init => Inv
<1> SUFFICES ASSUME Init PROVE Inv
  OBVIOUS
<1>1. << >> \in History /\ Len(<< >>) = 0
  BY BoundAssumption DEF History
<1>2. FilesOK
  BY <1>1 DEF Init, FilesOK
<1>3. Forgotten("idle") \in Memory
  BY <1>1 DEF Forgotten, Memory, Label
<1>4. TypeOK
  BY <1>2, <1>3 DEF Init, TypeOK
<1>5. \A p \in Process : proc[p].at = "idle" /\ proc[p].call = None
  BY DEF Init, Forgotten
<1>6. None \notin Call
  BY NoneAssumption
<1>7. RecoversAlone
  BY <1>5, <1>6 DEF RecoversAlone, Call
<1>8. ASSUME NEW p \in Process
      PROVE  CallKnown(p) /\ LockKnown(p) /\ KnowsState(p) /\ KnowsFiles(p)
  BY <1>5, <1>6 DEF CallKnown, LockKnown, KnowsState, KnowsFiles, At, Call, Inside, Undoing,
                    Changing, Trusting
<1>9. GenerationsAreWhole /\ StageIsPending /\ PendingFits /\ StateIsComplete
  BY <1>1 DEF Init, GenerationsAreWhole, StageIsPending, PendingFits, StateIsComplete, Revision
<1> QED
  BY <1>4, <1>7, <1>8, <1>9 DEF Inv

LEMMA NextKeepsInv ==
  ASSUME OneRecovery, Inv, [Next]_vars
  PROVE  Inv'
<1>1. ASSUME NEW p \in Process, Starts(p)
      PROVE  Inv'
  BY <1>1, StartsKeepInv
<1>2. ASSUME NEW p \in Process, Continues(p)
      PROVE  Inv'
  BY <1>2, OwnKeepsInv, SeeLockKeepsInv, UnlinkLockKeepsInv, TakeLockKeepsInv,
     LookKeepsInv, ReadStateKeepsInv, PrepareKeepsInv, StageKeepsInv, WriteKeepsInv,
     PublishKeepsInv, PublishReceiptKeepsInv, RecheckKeepsInv, CommitKeepsInv, DropKeepsInv,
     DecideKeepsInv, RemoveTreeKeepsInv, UnlockKeepsInv
  DEF Continues
<1>3. ASSUME NEW p \in Process, Faults(p)
      PROVE  Inv'
  BY <1>3, FaultsKeepInv
<1>4. ASSUME NEW p \in Process, Restart(p)
      PROVE  Inv'
  BY <1>4, RestartKeepsInv
<1>5. CASE UNCHANGED vars
  <2> USE <1>5 DEF vars, files
  <2>1. TypeOK' /\ RecoversAlone' /\ GenerationsAreWhole' /\ StageIsPending' /\ StateIsComplete'
    BY DEF Inv, TypeOK, FilesOK, RecoversAlone, GenerationsAreWhole, StageIsPending,
           StateIsComplete, Revision
  <2>2. PendingFits'
    BY DEF Inv, PendingFits, Current, Last, Front
  <2>3. ASSUME NEW p \in Process
        PROVE  CallKnown(p)' /\ LockKnown(p)' /\ KnowsState(p)' /\ KnowsFiles(p)'
    <3>1. CallKnown(p) /\ LockKnown(p) /\ KnowsState(p) /\ KnowsFiles(p)
      BY DEF Inv
    <3>2. CallKnown(p)' /\ LockKnown(p)'
      BY <3>1 DEF CallKnown, LockKnown, At
    <3>3. KnowsState(p)'
      BY <3>1 DEF KnowsState, At, Announcing, J!Allowed, Revision, Front
    <3>4. KnowsFiles(p)'
      BY <3>1 DEF KnowsFiles, At, Current, Last, Front
    <3> QED
      BY <3>2, <3>3, <3>4
  <2> QED
    BY <2>1, <2>2, <2>3 DEF Inv
<1> QED
  BY <1>1, <1>2, <1>3, <1>4, <1>5 DEF Next

LEMMA Invariance == ASSUME OneRecovery PROVE Spec => []Inv
<1>1. Inv /\ [Next]_vars => Inv'
  BY NextKeepsInv
<1> QED
  BY <1>1, InitMakesInv, PTL DEF Spec

-----------------------------------------------------------------------------
(* Several recoveries at once.  The lock may then be lost (withLock), but a *)
(* state that was complete when a process read it stays so: receipts and    *)
(* whole generations are never taken away, and every revision of a change   *)
(* but the last is one of the state it was made of.                         *)

Making == {"preparing", "staging", "filling", "closing", "publishing", "receipting",
           "rechecking", "committing"}

Complete(h) ==
  \A n \in 1 .. Revision(h) :
    SubSeq(h, 1, n) \in receipts /\ generation[h[n].carrier] = "full"

Sound(m) ==
  /\ m.call = "apply" => m.carrier \in Carrier
  /\ m.at = "deciding" => Complete(m.before)
  /\ m.at \in Making => m.change # << >> /\ Complete(Front(m.change))
  /\ m.at \in Making \ {"receipting", "committing"} => m.call # "recover"
  /\ m.at = "receipting" /\ m.call = "recover" => generation[Current(m.change)] = "full"
  /\ m.at \in {"rechecking", "committing"} => m.change \in receipts
  /\ m.at = "committing" => generation[Current(m.change)] = "full"

Chained == TypeOK /\ StateIsComplete /\ \A p \in Process : Sound(proc[p])

(* What no step does: to take away a receipt, or a whole generation.        *)
Grows ==
  /\ receipts \subseteq receipts'
  /\ \A c \in Carrier : generation[c] = "full" => generation'[c] = "full"

LEMMA CompleteStays ==
  ASSUME Grows, NEW h \in History, Complete(h)
  PROVE  Complete(h)'
<1> SUFFICES ASSUME NEW n \in 1 .. Len(h)
             PROVE  SubSeq(h, 1, n) \in receipts' /\ generation'[h[n].carrier] = "full"
  BY DEF Complete, Revision
<1>1. SubSeq(h, 1, n) \in receipts /\ generation[h[n].carrier] = "full"
  BY DEF Complete, Revision
<1>2. h[n].carrier \in Carrier
  <2>1. h[n] \in Change
    BY HistoryIsSeq
  <2> QED
    BY <2>1 DEF Change
<1> QED
  BY <1>1, <1>2 DEF Grows

LEMMA CompleteState ==
  ASSUME TypeOK, StateIsComplete
  PROVE  state \in History /\ Complete(state)
BY DEF TypeOK, FilesOK, StateIsComplete, Complete

LEMMA CompleteFront ==
  ASSUME NEW h \in History \ {<< >>}, Complete(h)
  PROVE  Complete(Front(h))
<1>1. /\ Len(h) \in Nat /\ Len(h) >= 1 /\ Len(Front(h)) = Len(h) - 1
      /\ \A n \in 1 .. Len(h) - 1 : h[n] = Front(h)[n] /\ SubSeq(h, 1, n) = SubSeq(Front(h), 1, n)
  BY NonemptyHistory, HistoryIsSeq
<1>2. ASSUME NEW n \in 1 .. Len(Front(h))
      PROVE  SubSeq(Front(h), 1, n) \in receipts /\ generation[Front(h)[n].carrier] = "full"
  <2>1. n \in 1 .. Len(h) - 1 /\ n \in 1 .. Len(h)
    BY <1>1
  <2>2. SubSeq(h, 1, n) \in receipts /\ generation[h[n].carrier] = "full"
    BY <2>1 DEF Complete, Revision
  <2> QED
    BY <1>1, <2>1, <2>2
<1> QED
  BY <1>2 DEF Complete, Revision

(* A change whose earlier revisions, receipt and generation are there.      *)
LEMMA CompleteChange ==
  ASSUME NEW h \in History \ {<< >>}, Complete(Front(h)), h \in receipts,
         generation[Current(h)] = "full"
  PROVE  Complete(h)
<1>1. Len(h) \in Nat /\ Len(h) >= 1 /\ Len(Front(h)) = Len(h) - 1
  BY NonemptyHistory, HistoryIsSeq
<1>2. ASSUME NEW n \in 1 .. Len(h)
      PROVE  SubSeq(h, 1, n) \in receipts /\ generation[h[n].carrier] = "full"
  <2>1. CASE n = Len(h)
    BY <2>1, NonemptyHistory
  <2>2. CASE n # Len(h)
    <3>1. n \in 1 .. Len(h) - 1 /\ n \in 1 .. Len(Front(h))
      BY <1>1, <2>2
    <3>2. h[n] = Front(h)[n] /\ SubSeq(h, 1, n) = SubSeq(Front(h), 1, n)
      BY <3>1, NonemptyHistory
    <3> QED
      BY <3>1, <3>2 DEF Complete, Revision
  <2> QED
    BY <2>1, <2>2
<1> QED
  BY <1>2 DEF Complete, Revision

LEMMA SoundStays ==
  ASSUME Grows, NEW m \in Memory, Sound(m)
  PROVE  Sound(m)'
<1>1. m.before \in History /\ m.change \in History
  BY DEF Memory
<1>2. Complete(m.before) => Complete(m.before)'
  BY <1>1, CompleteStays
<1>3. ASSUME m.change # << >>
      PROVE  /\ Complete(Front(m.change)) => Complete(Front(m.change))'
             /\ generation[Current(m.change)] = "full" => generation'[Current(m.change)] = "full"
  <2>1. Front(m.change) \in History /\ Current(m.change) \in Carrier
    BY <1>1, <1>3, NonemptyHistory
  <2> QED
    BY <2>1, CompleteStays DEF Grows
<1>4. m.at \in Making => m.change # << >>
  BY DEF Sound
<1>5. receipts \subseteq receipts'
  BY DEF Grows
<1>6. m.at \in Making => Complete(Front(m.change))'
  BY <1>3, <1>4 DEF Sound
<1>7. m.at = "receipting" /\ m.call = "recover" => generation'[Current(m.change)] = "full"
  BY <1>3, <1>4 DEF Sound, Making
<1>8. m.at = "committing" => generation'[Current(m.change)] = "full"
  BY <1>3, <1>4 DEF Sound, Making
<1>9. m.at \in {"rechecking", "committing"} => m.change \in receipts'
  BY <1>5 DEF Sound
<1>10. m.at = "deciding" => Complete(m.before)'
  BY <1>2 DEF Sound
<1>11. /\ m.call = "apply" => m.carrier \in Carrier
       /\ m.at \in Making => m.change # << >>
       /\ m.at \in Making \ {"receipting", "committing"} => m.call # "recover"
  BY DEF Sound
<1> QED
  BY <1>6, <1>7, <1>8, <1>9, <1>10, <1>11 DEF Sound, Current

(* A step of one process that takes nothing away.                           *)
LEMMA ChainStep ==
  ASSUME Chained, NEW p \in Process, NEW m \in Memory, proc' = [proc EXCEPT ![p] = m],
         FilesOK', Grows, StateIsComplete', Sound(m)'
  PROVE  Chained'
<1>1. proc \in [Process -> Memory] /\ \A q \in Process : Sound(proc[q])
  BY DEF Chained, TypeOK
<1>2. proc' \in [Process -> Memory]
  BY <1>1
<1>3. ASSUME NEW q \in Process
      PROVE  Sound(proc[q])'
  <2>1. CASE q = p
    <3>1. proc'[q] = m
      BY <1>1, <2>1
    <3> QED
      BY <3>1 DEF Sound
  <2>2. CASE q # p
    <3> DEFINE w == proc[q]
    <3>1. w \in Memory /\ Sound(w) /\ proc'[q] = w
      BY <1>1, <2>2
    <3>2. PICK v : v = w
      OBVIOUS
    <3>3. v \in Memory /\ Sound(v) /\ proc'[q] = v
      BY <3>1, <3>2
    <3>4. Sound(v)'
      BY <3>3, SoundStays
    <3> QED
      BY <3>3, <3>4 DEF Sound
  <2> QED
    BY <2>1, <2>2
<1> QED
  BY <1>2, <1>3 DEF Chained, TypeOK

LEMMA ChainQuiet ==
  ASSUME Chained, UNCHANGED <<root, lock, pending, state, stage, generation, receipts, torn>>
  PROVE  FilesOK' /\ Grows /\ StateIsComplete'
BY DEF Chained, TypeOK, FilesOK, Grows, StateIsComplete, Revision

(* Steps that keep the state, the receipts and the generations.             *)
LEMMA ChainKept ==
  ASSUME Chained, UNCHANGED <<state, generation, receipts>>
  PROVE  Grows /\ StateIsComplete'
BY DEF Chained, Grows, StateIsComplete, Revision

(* A step that moves on, with what is to be known where it leads.           *)
LEMMA ChainGoto ==
  ASSUME Chained, NEW p \in Process, NEW label \in Label \ {"deciding"}, Goto(p, label),
         FilesOK', Grows, StateIsComplete',
         label \in Making => proc[p].at \in Making,
         label \in Making \ {"committing"} => proc[p].call # "recover",
         label \in {"rechecking", "committing"} => proc[p].change \in receipts',
         label = "committing" => generation'[Current(proc[p].change)] = "full"
  PROVE  Chained'
<1>1. TypeOK /\ proc[p] \in Memory /\ Sound(proc[p])
  BY DEF Chained, TypeOK
<1>2. PICK m \in Memory :
        /\ proc' = [proc EXCEPT ![p] = m] /\ m.at = label
        /\ label \in {"idle", "dead"} => m.call = None
        /\ label \notin {"idle", "dead"} =>
             m.call = proc[p].call /\ m.carrier = proc[p].carrier /\ m.change = proc[p].change
  BY <1>1, GotoMeans
<1>3. PICK old : old = proc[p]
  OBVIOUS
<1>4. /\ old \in Memory /\ Sound(old)
      /\ label \notin {"idle", "dead"} =>
           m.call = old.call /\ m.carrier = old.carrier /\ m.change = old.change
      /\ label \in Making => old.at \in Making
      /\ label \in Making \ {"committing"} => old.call # "recover"
      /\ label \in {"rechecking", "committing"} => old.change \in receipts'
      /\ label = "committing" => generation'[Current(old.change)] = "full"
  BY <1>1, <1>2, <1>3
<1>5. Sound(old)'
  BY <1>4, SoundStays
<1>6. None # "apply" /\ None # "recover"
  BY NoneAssumption DEF Call
<1>7. label # "deciding" /\ m.at = label
  BY <1>2
<1>8. label \in Making => label \notin {"idle", "dead"}
  BY DEF Making
<1>9. /\ m.call = "apply" => m.carrier \in Carrier
      /\ m.at \in Making => m.change # << >>
      /\ m.at \in Making \ {"receipting", "committing"} => m.call # "recover"
      /\ m.at = "receipting" => m.call # "recover"
      /\ m.at \in {"rechecking", "committing"} => m.change \in receipts'
  BY <1>2, <1>4, <1>6 DEF Sound, Making
<1>10. m.at \in Making => Complete(Front(m.change))'
  BY <1>2, <1>4, <1>5, <1>8 DEF Sound
<1>11. m.at = "committing" => generation'[Current(m.change)] = "full"
  BY <1>2, <1>4
<1>12. Sound(m)'
  BY <1>7, <1>9, <1>10, <1>11 DEF Sound, Current
<1> QED
  BY <1>2, <1>12, ChainStep

(* Giving up needs nothing.                                                 *)
LEMMA ChainThrow ==
  ASSUME Chained, NEW p \in Process,
         \/ Throw(p)
         \/ \E label \in {"idle", "dead", "releasing", "failing", "unlocking"} : Goto(p, label),
         FilesOK', Grows, StateIsComplete'
  PROVE  Chained'
<1>1. PICK label \in {"idle", "dead", "releasing", "failing", "unlocking"} : Goto(p, label)
  BY DEF Throw
<1>2. label \in Label \ {"deciding"} /\ label \notin Making
  BY DEF Label, Inside, Making
<1> QED
  BY <1>1, <1>2, ChainGoto
-----------------------------------------------------------------------------
(* The steps, however many recover.                                         *)

LEMMA StartsChain ==
  ASSUME Chained, NEW p \in Process, Starts(p)
  PROVE  Chained'
<1>1. TypeOK /\ state \in History
  BY DEF Chained, TypeOK, FilesOK
<1>2. PICK label \in {"owning", "locking"}, call \in Call, carrier \in Carrier \cup {None},
           expected \in Expectation :
        /\ Begin(p, label, call, carrier, expected)
        /\ call = "apply" => carrier \in Carrier
  BY DEF Starts, StartApply, StartRollback, StartRecover, Call
<1> DEFINE m == [proc[p] EXCEPT !.at = label, !.call = call,
                                !.carrier = carrier, !.expected = expected]
<1>3. expected \in Nat \cup {None}
  BY <1>1, HistoryIsSeq DEF Expectation, Revision
<1>4. proc[p] \in Memory
  BY <1>1 DEF TypeOK
<1>5. /\ m \in Memory /\ m.at = label /\ m.call = call /\ m.carrier = carrier
      /\ proc' = [proc EXCEPT ![p] = m] /\ UNCHANGED files
  BY <1>2, <1>3, <1>4 DEF Begin, Memory, Label, Outside
<1> HIDE DEF m
<1>6. PICK v : v = m
  OBVIOUS
<1>7. Sound(v)'
  BY <1>2, <1>5, <1>6 DEF Sound, Making
<1>8. FilesOK' /\ Grows /\ StateIsComplete'
  BY <1>5, ChainQuiet DEF files
<1> QED
  BY <1>5, <1>6, <1>7, <1>8, ChainStep

LEMMA LockStepsChain ==
  ASSUME Chained, NEW p \in Process,
         \/ Own(p) \/ Mark(p) \/ SeeLock(p) \/ UnlinkLock(p) \/ TakeLock(p)
         \/ Look(p) \/ ReadOwnLock(p) \/ Unlock(p) \/ Restart(p)
  PROVE  Chained'
<1>1. UNCHANGED <<pending, state, stage, generation, receipts, torn>>
  BY DEF Own, Mark, SeeLock, UnlinkLock, TakeLock, Look, ReadOwnLock, Unlock, Restart, files
<1>2. root' \in {"missing", "bare", "torn", "owned"} /\ lock' \in LockFile \cup {None}
  <2>1. [pid |-> p, whole |-> TRUE] \in LockFile
    BY DEF LockFile
  <2>2. root' \in {root, "bare", "owned"} /\ lock' \in {lock, None, [pid |-> p, whole |-> TRUE]}
    BY DEF Own, Mark, SeeLock, UnlinkLock, TakeLock, Look, ReadOwnLock, Unlock, Restart, files
  <2> QED
    BY <2>1, <2>2 DEF Chained, TypeOK, FilesOK
<1>3. FilesOK' /\ Grows /\ StateIsComplete'
  BY <1>1, <1>2, ChainKept DEF Chained, TypeOK, FilesOK
<1>4. \/ Throw(p)
      \/ \E label \in {"marking", "locking", "taking", "unlinking", "reading", "looking",
                       "unlocking", "idle"} : Goto(p, label)
  BY DEF Own, Mark, SeeLock, UnlinkLock, TakeLock, Look, ReadOwnLock, Unlock, Restart
<1>5. \A label \in {"marking", "locking", "taking", "unlinking", "reading", "looking",
                    "unlocking", "idle"} : label \in Label \ {"deciding"} /\ label \notin Making
  BY DEF Label, Outside, Inside, Making
<1> QED
  BY <1>3, <1>4, <1>5, ChainThrow, ChainGoto

(* The change of a process that has read the state is made of that state.   *)
LEMMA ReadStateChains ==
  ASSUME Chained, NEW p \in Process, ReadState(p)
  PROVE  Chained'
<1>1. /\ TypeOK /\ StateIsComplete /\ proc[p] \in Memory /\ Sound(proc[p])
      /\ state \in History /\ Complete(state) /\ Len(state) \in Nat
  BY CompleteState, HistoryIsSeq DEF Chained, TypeOK
<1>2. UNCHANGED files /\ FilesOK' /\ Grows /\ StateIsComplete'
  BY ChainQuiet DEF ReadState, files
<1>3. Complete(state)'
  BY <1>2 DEF StateIsComplete, Complete, files
<1>4. \/ proc[p].call = "recover" /\ Read(p, "deciding", << >>)
      \/ /\ Len(state) < MaxRevision
         /\ \/ MayApply(p) /\ Read(p, "preparing", Applied(p))
            \/ MayRollBack(p) /\ Read(p, "preparing", RolledBack)
      \/ Throw(p)
  BY DEF ReadState, Revision
<1>5. CASE proc[p].call = "recover" /\ Read(p, "deciding", << >>)
  <2> DEFINE w == [proc[p] EXCEPT !.at = "deciding", !.before = state, !.change = << >>]
  <2>1. << >> \in History
    BY BoundAssumption DEF History
  <2>2. /\ w \in Memory /\ w.at = "deciding" /\ w.call = "recover" /\ w.before = state
        /\ proc' = [proc EXCEPT ![p] = w]
    BY <1>1, <1>5, <2>1 DEF Memory, Label, Inside, Read
  <2> HIDE DEF w
  <2>3. PICK m : m = w
    OBVIOUS
  <2>4. Complete(m.before)'
    BY <1>2, <1>3, <2>2, <2>3 DEF Complete, files
  <2>5. Sound(m)'
    BY <2>2, <2>3, <2>4 DEF Sound, Making
  <2> QED
    BY <1>2, <2>2, <2>3, <2>5, ChainStep
<1>6. ASSUME NEW x \in Change, Len(state) < MaxRevision, proc[p].call # "recover",
             Read(p, "preparing", Append(state, x))
      PROVE  Chained'
  <2> DEFINE a == Append(state, x)
             w == [proc[p] EXCEPT !.at = "preparing", !.before = state, !.change = a]
  <2>1. a \in History \ {<< >>} /\ Front(a) = state
    BY <1>1, <1>6, AppendHistory
  <2> HIDE DEF a
  <2>2. /\ w \in Memory /\ w.at = "preparing" /\ w.call = proc[p].call
        /\ w.carrier = proc[p].carrier /\ w.change = a
        /\ proc' = [proc EXCEPT ![p] = w]
    BY <1>1, <1>6, <2>1 DEF Memory, Label, Inside, Read, a
  <2> HIDE DEF w
  <2>3. PICK m : m = w
    OBVIOUS
  <2>4. m.change # << >> /\ Front(m.change) = state
    BY <2>1, <2>2, <2>3
  <2>5. Complete(Front(m.change))'
    BY <1>2, <1>3, <2>4 DEF Complete, files
  <2>6. m.call = "apply" => m.carrier \in Carrier
    BY <1>1, <2>2, <2>3 DEF Sound
  <2>7. Sound(m)'
    BY <1>6, <2>2, <2>3, <2>4, <2>5, <2>6 DEF Sound, Making
  <2> QED
    BY <1>2, <2>2, <2>3, <2>7, ChainStep
<1>7. CASE Len(state) < MaxRevision /\ MayApply(p) /\ Read(p, "preparing", Applied(p))
  <2>1. [operation |-> "apply", carrier |-> proc[p].carrier] \in Change
    BY <1>1, <1>7 DEF MayApply, Sound, Change
  <2> QED
    BY <1>6, <1>7, <2>1 DEF Applied, MayApply
<1>8. CASE Len(state) < MaxRevision /\ MayRollBack(p) /\ Read(p, "preparing", RolledBack)
  <2>1. [operation |-> "rollback", carrier |-> Previous(state)] \in Change
    BY <1>1, <1>8, PreviousIsCarrier DEF MayRollBack, Revision, Change
  <2> QED
    BY <1>6, <1>8, <2>1 DEF RolledBack, MayRollBack
<1> QED
  BY <1>2, <1>4, <1>5, <1>7, <1>8, ChainThrow

(* Writing the change down, and filling its staging directory.              *)
LEMMA StagingChains ==
  ASSUME Chained, NEW p \in Process,
         Prepare(p) \/ Stage(p) \/ Fill(p) \/ Close(p) \/ ClearDirectory(p) \/ RemoveDirectory(p)
  PROVE  Chained'
<1> DEFINE change == proc[p].change
<1>1. FilesOK /\ change \in History /\ Sound(proc[p])
  BY DEF Chained, TypeOK, Memory
<1>2. UNCHANGED <<root, lock, state, generation, receipts, torn>>
  BY DEF Prepare, Stage, Fill, Close, Write, ClearDirectory, RemoveDirectory
<1>3. pending' \in (History \ {<< >>}) \cup {None}
  BY <1>1 DEF Prepare, Stage, Fill, Close, Write, ClearDirectory, RemoveDirectory, FilesOK,
              Sound, Making, At
<1>4. \/ UNCHANGED stage \/ Unstaged(change)
      \/ \E contents \in Contents : Staged(change, contents)
  BY DEF Prepare, Stage, Fill, Close, Write, ClearDirectory, RemoveDirectory, Contents
<1> HIDE DEF change
<1>5. DOMAIN stage' \subseteq History /\ \A h \in DOMAIN stage' : stage'[h] \in Contents
  <2>1. CASE UNCHANGED stage
    BY <1>1, <2>1 DEF FilesOK
  <2>2. CASE Unstaged(change)
    BY <1>1, <2>2 DEF FilesOK, Unstaged, Restrict
  <2>3. ASSUME NEW contents \in Contents, Staged(change, contents)
        PROVE  DOMAIN stage' \subseteq History /\ \A h \in DOMAIN stage' : stage'[h] \in Contents
    BY <1>1, <2>3 DEF FilesOK, Staged
  <2> QED
    BY <1>4, <2>1, <2>2, <2>3
<1>6. FilesOK' /\ Grows /\ StateIsComplete'
  BY <1>1, <1>2, <1>3, <1>5, ChainKept DEF FilesOK
<1>7. \/ Throw(p)
      \/ Goto(p, "removing") \/ Goto(p, "dropping")
      \/ /\ proc[p].at \in Making \ {"receipting", "committing"}
         /\ \E label \in {"staging", "receipting", "filling", "closing", "publishing"} :
              Goto(p, label)
  BY DEF Prepare, Stage, Fill, Close, Write, ClearDirectory, RemoveDirectory, Making, At
<1>8. CASE Goto(p, "removing") \/ Goto(p, "dropping")
  <2>1. \A label \in {"removing", "dropping"} :
          label \in Label \ {"deciding"} /\ label \notin Making
    BY DEF Label, Inside, Undoing, Making
  <2> QED
    BY <1>6, <1>8, <2>1, ChainGoto
<1>9. ASSUME proc[p].at \in Making \ {"receipting", "committing"},
             NEW label \in {"staging", "receipting", "filling", "closing", "publishing"},
             Goto(p, label)
      PROVE  Chained'
  <2>1. proc[p].call # "recover" /\ proc[p].at \in Making
    BY <1>1, <1>9 DEF Sound
  <2>2. label \in Label \ {"deciding"} /\ label \notin {"rechecking", "committing"}
    BY DEF Label, Inside
  <2> QED
    BY <1>6, <1>9, <2>1, <2>2, ChainGoto
<1> QED
  BY <1>6, <1>7, <1>8, <1>9, ChainThrow

LEMMA PublishChains ==
  ASSUME Chained, NEW p \in Process, Publish(p)
  PROVE  Chained'
<1> DEFINE change == proc[p].change
           c == Current(change)
<1>1. /\ FilesOK /\ StateIsComplete /\ Sound(proc[p]) /\ change \in History
      /\ proc[p].at = "publishing" /\ UNCHANGED <<root, lock, pending, state, receipts, torn>>
  BY DEF Chained, TypeOK, Memory, Publish, At
<1>2. change # << >> /\ proc[p].call # "recover"
  BY <1>1 DEF Sound, Making
<1>3. c \in Carrier
  BY <1>1, <1>2, NonemptyHistory
<1>4. CASE Throw(p) /\ UNCHANGED <<stage, generation>>
  BY <1>1, <1>4, ChainQuiet, ChainThrow
<1>5. CASE /\ change \in DOMAIN stage /\ generation[c] = "none"
           /\ generation' = [generation EXCEPT ![c] = stage[change]]
           /\ Unstaged(change) /\ Goto(p, "receipting")
  <2>1. stage[change] \in Contents
    BY <1>1, <1>5 DEF FilesOK
  <2> HIDE DEF c
  <2>2. /\ generation' \in [Carrier -> Contents \cup {"none"}]
        /\ \A d \in Carrier : d # c => generation'[d] = generation[d]
    BY <1>1, <1>3, <1>5, <2>1 DEF FilesOK
  <2>3. Grows
    BY <1>1, <1>3, <1>5, <2>2 DEF Grows
  <2>4. DOMAIN stage' \subseteq History /\ \A h \in DOMAIN stage' : stage'[h] \in Contents
    BY <1>1, <1>5 DEF FilesOK, Unstaged, Restrict
  <2>5. FilesOK'
    BY <1>1, <2>2, <2>4 DEF FilesOK
  <2>6. StateIsComplete'
    <3>1. state \in History /\ Complete(state)
      BY CompleteState DEF Chained
    <3>2. PICK h \in History : h = state
      BY <3>1
    <3>3. Complete(h)'
      BY <2>3, <3>1, <3>2, CompleteStays
    <3> QED
      BY <1>1, <3>2, <3>3 DEF StateIsComplete, Complete
  <2>7. "receipting" \in Label \ {"deciding"} /\ "publishing" \in Making
    BY DEF Label, Inside, Making
  <2> QED
    BY <1>1, <1>2, <1>5, <2>3, <2>5, <2>6, <2>7, ChainGoto
<1> QED
  BY <1>4, <1>5 DEF Publish

LEMMA PublishReceiptChains ==
  ASSUME Chained, NEW p \in Process, PublishReceipt(p)
  PROVE  Chained'
<1> DEFINE change == proc[p].change
<1>1. /\ FilesOK /\ StateIsComplete /\ Sound(proc[p]) /\ change \in History
      /\ proc[p].at = "receipting"
      /\ UNCHANGED <<root, lock, pending, state, stage, generation, torn>>
  BY DEF Chained, TypeOK, Memory, PublishReceipt, At
<1>2. CASE Throw(p) /\ UNCHANGED receipts
  BY <1>1, <1>2, ChainQuiet, ChainThrow
<1>3. CASE /\ receipts' = receipts \cup {change}
           /\ Goto(p, IF proc[p].call = "recover" THEN "committing" ELSE "rechecking")
  <2>1. FilesOK' /\ Grows /\ StateIsComplete'
    BY <1>1, <1>3 DEF FilesOK, Grows, StateIsComplete, Revision
  <2>2. {"committing", "rechecking"} \subseteq Label \ {"deciding"} /\ "receipting" \in Making
    BY DEF Label, Inside, Making
  <2>3. CASE proc[p].call = "recover"
    <3>1. generation[Current(change)] = "full"
      BY <1>1, <2>3 DEF Sound
    <3>2. generation'[Current(change)] = "full" /\ Goto(p, "committing")
      BY <1>1, <1>3, <2>3, <3>1
    <3> QED
      BY <1>1, <1>3, <2>1, <2>2, <3>2, ChainGoto
  <2>4. CASE proc[p].call # "recover"
    BY <1>1, <1>3, <2>1, <2>2, <2>4, ChainGoto
  <2> QED
    BY <2>3, <2>4
<1> QED
  BY <1>2, <1>3 DEF PublishReceipt

LEMMA RecheckChains ==
  ASSUME Chained, NEW p \in Process, Recheck(p)
  PROVE  Chained'
<1>1. Sound(proc[p]) /\ proc[p].at = "rechecking" /\ UNCHANGED files
  BY DEF Chained, Recheck, At
<1>2. FilesOK' /\ Grows /\ StateIsComplete'
  BY <1>1, ChainQuiet DEF files
<1>3. CASE Throw(p)
  BY <1>2, <1>3, ChainThrow
<1>4. CASE generation[Current(proc[p].change)] = "full" /\ Goto(p, "committing")
  <2>1. /\ proc[p].change \in receipts' /\ generation'[Current(proc[p].change)] = "full"
        /\ "committing" \in Label \ {"deciding"} /\ proc[p].at \in Making
    BY <1>1, <1>4 DEF Sound, files, Label, Inside, Making
  <2> QED
    BY <1>2, <1>4, <2>1, ChainGoto
<1> QED
  BY <1>3, <1>4 DEF Recheck

(* The state becomes a change that is complete.                             *)
LEMMA CommitChains ==
  ASSUME Chained, NEW p \in Process, Commit(p) \/ Drop(p)
  PROVE  Chained'
<1>1. /\ FilesOK /\ proc[p] \in Memory /\ Sound(proc[p])
      /\ UNCHANGED <<root, lock, stage, generation, receipts, torn>>
  BY DEF Chained, TypeOK, Commit, Drop
<1>2. \A label \in {"dropping", "releasing"} : label \in Label \ {"deciding"} /\ label \notin Making
  BY DEF Label, Inside, Making
<1>3. CASE Commit(p)
  <2>1. PICK h : h = proc[p].change
    OBVIOUS
  <2>2. /\ h \in History \ {<< >>} /\ Complete(Front(h)) /\ h \in receipts
        /\ generation[Current(h)] = "full"
    BY <1>1, <1>3, <2>1 DEF Sound, Memory, Commit, At, Making
  <2>3. Complete(h)
    BY <2>2, CompleteChange
  <2>4. state' = h /\ UNCHANGED pending /\ Goto(p, "dropping")
    BY <1>3, <2>1 DEF Commit
  <2>5. FilesOK' /\ Grows /\ StateIsComplete'
    BY <1>1, <2>2, <2>3, <2>4 DEF FilesOK, Grows, StateIsComplete, Complete, Revision
  <2> QED
    BY <1>2, <2>4, <2>5, ChainGoto
<1>4. CASE Drop(p)
  <2>1. FilesOK' /\ UNCHANGED state /\ Goto(p, "releasing")
    BY <1>1, <1>4 DEF Drop, FilesOK
  <2>2. Grows /\ StateIsComplete'
    BY <1>1, <2>1, ChainKept
  <2> QED
    BY <1>2, <2>1, <2>2, ChainGoto
<1> QED
  BY <1>3, <1>4

(* A recovery finishes what follows the state that it read, or is that      *)
(* state.                                                                   *)
LEMMA DecideChains ==
  ASSUME Chained, NEW p \in Process, Decide(p)
  PROVE  Chained'
<1>1. FilesOK /\ proc[p] \in Memory /\ Sound(proc[p]) /\ proc[p].at = "deciding" /\ UNCHANGED files
  BY DEF Chained, TypeOK, Decide, At
<1>2. FilesOK' /\ Grows /\ StateIsComplete'
  BY <1>1, ChainQuiet DEF files
<1>3. CASE Goto(p, "releasing") \/ Throw(p)
  BY <1>2, <1>3, ChainThrow
<1>4. ASSUME NEW label \in {"receipting", "dropping", "clearing"}, pending # None,
             proc' = [proc EXCEPT ![p] = [@ EXCEPT !.at = label, !.change = pending]],
             label = "receipting" => CanFinish(p)
      PROVE  Chained'
  <2> DEFINE w == [proc[p] EXCEPT !.at = label, !.change = pending]
  <2>1. pending \in History \ {<< >>}
    BY <1>1, <1>4 DEF FilesOK
  <2>2. /\ w \in Memory /\ w.at = label /\ w.change = pending
        /\ w.call = proc[p].call /\ w.carrier = proc[p].carrier
        /\ proc' = [proc EXCEPT ![p] = w]
    BY <1>1, <1>4, <2>1 DEF Memory, Label, Inside, Undoing
  <2> HIDE DEF w
  <2>3. PICK m : m = w
    OBVIOUS
  <2>4. m.call = "apply" => m.carrier \in Carrier
    BY <1>1, <2>2, <2>3 DEF Sound
  <2>5. CASE label # "receipting"
    BY <1>2, <2>2, <2>3, <2>4, <2>5, ChainStep DEF Sound, Making
  <2>6. CASE label = "receipting"
    <3>1. PICK h : h = pending
      OBVIOUS
    <3>2. /\ h \in History \ {<< >>} /\ generation[Current(h)] = "full"
          /\ Complete(Front(h)) \/ Complete(h)
      BY <1>1, <1>4, <2>1, <2>6, <3>1 DEF CanFinish, Sound
    <3>3. Complete(Front(h)) /\ Front(h) \in History /\ Current(h) \in Carrier
      BY <3>2, CompleteFront, NonemptyHistory
    <3>4. Complete(Front(h))' /\ generation'[Current(h)] = "full"
      <4>1. PICK f : f = Front(h)
        OBVIOUS
      <4> QED
        BY <1>1, <3>2, <3>3, <4>1 DEF files, Complete
    <3>5. Sound(m)'
      BY <2>2, <2>3, <2>4, <2>6, <3>1, <3>2, <3>4 DEF Sound, Making
    <3> QED
      BY <1>2, <2>2, <2>3, <3>5, ChainStep
  <2> QED
    BY <2>5, <2>6
<1>5. \/ Goto(p, "releasing") \/ Throw(p)
      \/ \E label \in {"receipting", "dropping", "clearing"} :
           /\ pending # None
           /\ proc' = [proc EXCEPT ![p] = [@ EXCEPT !.at = label, !.change = pending]]
           /\ label = "receipting" => CanFinish(p)
  BY DEF Decide
<1> QED
  BY <1>3, <1>4, <1>5

LEMMA FaultsChain ==
  ASSUME Chained, NEW p \in Process, Faults(p)
  PROVE  Chained'
<1> DEFINE change == proc[p].change
<1>1. FilesOK /\ change \in History
  BY DEF Chained, TypeOK, Memory
<1>2. PICK label \in {"failing", "idle", "dead"} : Goto(p, label)
  BY DEF Faults, Interrupt, Crash
<1>3. UNCHANGED files \/ HalfWritten(p)
  BY DEF Faults, Interrupt, Crash
<1>4. UNCHANGED <<pending, state, generation, receipts>>
  BY <1>3 DEF files, HalfWritten
<1>5. Grows /\ StateIsComplete'
  BY <1>4, ChainKept
<1>6. FilesOK'
  <2>1. root' \in {"missing", "bare", "torn", "owned"}
    BY <1>1, <1>3 DEF files, HalfWritten, FilesOK
  <2>2. lock' \in LockFile \cup {None}
    <3>1. [pid |-> p, whole |-> FALSE] \in LockFile
      BY DEF LockFile
    <3> QED
      BY <1>1, <1>3, <3>1 DEF files, HalfWritten, FilesOK
  <2>3. DOMAIN stage' \subseteq History /\ \A h \in DOMAIN stage' : stage'[h] \in Contents
    <3>1. UNCHANGED stage \/ Staged(change, "torn")
      BY <1>3 DEF files, HalfWritten
    <3> HIDE DEF change
    <3>2. CASE Staged(change, "torn")
      BY <1>1, <3>2 DEF FilesOK, Staged, Contents
    <3> QED
      BY <1>1, <3>1, <3>2 DEF FilesOK
  <2>4. torn' \subseteq History
    BY <1>1, <1>3 DEF files, HalfWritten, FilesOK
  <2> QED
    BY <1>1, <1>4, <2>1, <2>2, <2>3, <2>4 DEF FilesOK
<1> QED
  BY <1>2, <1>5, <1>6, ChainThrow

LEMMA InitChains == Init => Chained
<1> SUFFICES ASSUME Init PROVE Chained
  OBVIOUS
<1>1. << >> \in History /\ Len(<< >>) = 0
  BY BoundAssumption DEF History
<1>2. FilesOK
  BY <1>1 DEF Init, FilesOK
<1>3. Forgotten("idle") \in Memory
  BY <1>1 DEF Forgotten, Memory, Label
<1>4. TypeOK /\ StateIsComplete
  BY <1>1, <1>2, <1>3 DEF Init, TypeOK, StateIsComplete, Revision
<1>5. ASSUME NEW p \in Process
      PROVE  Sound(proc[p])
  <2>1. None # "apply" /\ None # "recover"
    BY NoneAssumption DEF Call
  <2> QED
    BY <2>1 DEF Init, Forgotten, Sound, Making
<1> QED
  BY <1>4, <1>5 DEF Chained

LEMMA NextChains ==
  ASSUME Chained, [Next]_vars
  PROVE  Chained'
<1>1. ASSUME NEW p \in Process, Starts(p) \/ Continues(p) \/ Faults(p) \/ Restart(p)
      PROVE  Chained'
  BY <1>1, StartsChain, LockStepsChain, ReadStateChains, StagingChains, PublishChains,
     PublishReceiptChains, RecheckChains, CommitChains, DecideChains, FaultsChain
  DEF Continues
<1>2. CASE UNCHANGED vars
  <2>1. FilesOK' /\ Grows /\ StateIsComplete'
    BY <1>2, ChainQuiet DEF vars, files
  <2>2. proc' = proc
    BY <1>2 DEF vars
  <2>3. ASSUME NEW p \in Process
        PROVE  Sound(proc[p])'
    <3>1. PICK m : m = proc[p]
      OBVIOUS
    <3>2. m \in Memory /\ Sound(m)
      BY <3>1 DEF Chained, TypeOK
    <3>3. Sound(m)'
      BY <2>1, <3>2, SoundStays
    <3> QED
      BY <2>2, <3>1, <3>3 DEF Sound
  <2> QED
    BY <2>1, <2>2, <2>3 DEF Chained, TypeOK
<1> QED
  BY <1>1, <1>2 DEF Next

LEMMA ChainInvariance == Spec => []Chained
BY InitChains, NextChains, PTL DEF Spec
-----------------------------------------------------------------------------
(* The theorems.                                                            *)

(* The variables keep their types, however many recover at a time.          *)
THEOREM Types == Spec => []TypeOK
<1>1. Chained => TypeOK
  BY DEF Chained
<1> QED
  BY <1>1, ChainInvariance, PTL

(* With one recovery at a time, one process at a time is inside the lock,   *)
(* which is its own, however many die or are restarted (withLock).          *)
THEOREM OneWriterAlways == ASSUME OneRecovery PROVE Spec => []OneWriter
<1>1. Inv => OneWriter
  <2> SUFFICES ASSUME Inv, NEW p \in Process, proc[p].at \in Inside
               PROVE  /\ lock = [pid |-> p, whole |-> TRUE]
                      /\ \A q \in Process \ {p} : proc[q].at \notin Inside
    BY DEF OneWriter
  <2>1. lock = [pid |-> p, whole |-> TRUE]
    BY DEF Inv, LockKnown
  <2>2. \A q \in Process \ {p} : proc[q].at \notin Inside
    BY Alone
  <2> QED
    BY <2>1, <2>2
<1> QED
  BY <1>1, Invariance, PTL

(* Every revision of the state keeps its receipt and its whole generation,  *)
(* wherever processes end and however many recover at a time (transaction,  *)
(* recoverStore).                                                           *)
THEOREM StateStaysComplete == Spec => []StateIsComplete
<1>1. Chained => StateIsComplete
  BY DEF Chained
<1> QED
  BY <1>1, ChainInvariance, PTL

(* With one recovery at a time, what processes leave behind can be finished *)
(* or undone by a recovery, unless it was half written (recoverStore).      *)
THEOREM AlwaysRecoverable == ASSUME OneRecovery PROVE Spec => []Recoverable
<1>1. Inv => Recoverable
  <2> SUFFICES ASSUME Inv PROVE Readable /\ (pending # None =>
                 LET there == generation[Current(pending)] IN
                 \/ state \in {Front(pending), pending} /\ there = "full" /\ pending \notin DOMAIN stage
                 \/ state = Front(pending) /\ there = "none")
    BY DEF Recoverable
  <2>1. Readable
    <3>1. CASE state = << >>
      BY <3>1 DEF Readable
    <3>2. CASE state # << >>
      <4>1. state \in History
        BY FilesKnown
      <4>2. Len(state) \in Nat /\ Len(state) \in 1 .. Len(state)
        BY <3>2, <4>1, HistoryIsSeq, NonemptyHistory
      <4>3. SubSeq(state, 1, Len(state)) \in receipts
            /\ generation[state[Len(state)].carrier] = "full"
        BY <4>2 DEF Inv, StateIsComplete, Revision
      <4> QED
        BY <3>2, <4>1, <4>3, NonemptyHistory DEF Readable
    <3> QED
      BY <3>1, <3>2
  <2>2. PendingFits
    BY DEF Inv
  <2> QED
    BY <2>1, <2>2 DEF PendingFits
<1> QED
  BY <1>1, Invariance, PTL
-----------------------------------------------------------------------------
(* What steps do to the state, to what is pending and to the lock.          *)

LEMMA StepOfJournal ==
  ASSUME Inv, [Next]_vars
  PROVE  J!Announce \/ J!Make \/ J!Forget \/ UNCHANGED <<state, pending>>
<1>1. ASSUME NEW p \in Process, Prepare(p)
      PROVE  J!Announce
  <2>1. At(p, "preparing") /\ pending' = proc[p].change /\ UNCHANGED state
    BY <1>1 DEF Prepare
  <2>2. proc[p].call # "recover"
    BY <2>1 DEF Inv, CallKnown, At
  <2>3. pending = None /\ Announcing(p)
    BY <2>1 DEF Inv, KnowsState
  <2>4. PICK x \in Change : J!Allowed(x) /\ proc[p].change = Append(state, x)
    BY <2>3 DEF Announcing
  <2> QED
    BY <2>1, <2>3, <2>4 DEF J!Announce, J!Change, Change
<1>2. ASSUME NEW p \in Process, Commit(p)
      PROVE  J!Make
  <2>1. proc[p].at \in Changing /\ state' = proc[p].change /\ UNCHANGED pending
    BY <1>2 DEF Commit, At, Changing
  <2> QED
    BY <2>1, InChange DEF J!Make
<1>3. ASSUME NEW p \in Process, Drop(p)
      PROVE  J!Forget
  <2>1. proc[p].at \in Changing /\ pending' = None /\ UNCHANGED state
    BY <1>3 DEF Drop, At, Changing
  <2> QED
    BY <2>1, InChange DEF J!Forget
<1>4. ASSUME NEW p \in Process, Starts(p) \/ Faults(p) \/ Restart(p)
      PROVE  UNCHANGED <<state, pending>>
  BY <1>4 DEF Starts, StartApply, StartRollback, StartRecover, Begin, Faults, Interrupt, Crash,
              HalfWritten, Restart, files
<1>5. ASSUME NEW p \in Process, Continues(p), ~Prepare(p), ~Commit(p), ~Drop(p)
      PROVE  UNCHANGED <<state, pending>>
  BY <1>5 DEF Continues, Own, Mark, SeeLock, UnlinkLock, TakeLock, Look, ReadState, Stage, Fill,
              Close, Write, Publish, PublishReceipt, Recheck, Decide, ClearDirectory,
              RemoveDirectory, ReadOwnLock, Unlock, files
<1>6. CASE UNCHANGED vars
  BY <1>6 DEF vars, files
<1> QED
  BY <1>1, <1>2, <1>3, <1>4, <1>5, <1>6 DEF Next

(* With one recovery at a time, the state and the pending change of the     *)
(* store are the log and the intent of a journal (transaction and           *)
(* recoverStore).                                                           *)
THEOREM StoreImplementsJournal == ASSUME OneRecovery PROVE Spec => ImplementsJournal
<1>1. Init => J!Init
  BY DEF Init, J!Init
<1>2. Inv /\ [Next]_vars => [J!Announce \/ J!Make \/ J!Forget]_<<state, pending>>
  BY StepOfJournal
<1> QED
  BY <1>1, <1>2, Invariance, PTL DEF Spec, ImplementsJournal, J!Spec

(* With one recovery at a time, a state made with an expected revision      *)
(* follows that revision (revisionCheck).                                   *)
THEOREM ExpectedStaysRespected == ASSUME OneRecovery PROVE Spec => ExpectedIsRespected
<1> DEFINE Respects ==
      \A p \in Process :
        At(p, "committing") /\ proc'[p].at = "dropping" /\ state' # state
        /\ proc[p].call # "recover" /\ proc[p].expected # None
        => Revision(state) = proc[p].expected
<1>1. Inv => Respects
  BY DEF Inv, KnowsState, At, Trusting
<1>2. Inv /\ [Next]_vars => [Respects]_vars
  BY <1>1
<1> QED
  BY <1>2, Invariance, PTL DEF Spec, ExpectedIsRespected

(* With one recovery at a time, nobody but its owner removes the lock of a  *)
(* process that lives (withLock).                                           *)
THEOREM LiveLockStays == ASSUME OneRecovery PROVE Spec => LiveLockIsKept
<1> DEFINE Keeps ==
      lock # None /\ proc[lock.pid].at # "dead" /\ lock' # lock => At(lock.pid, "unlocking")
<1>1. ASSUME Inv, [Next]_vars
      PROVE  Keeps
  <2>1. ASSUME NEW p \in Process, UnlinkLock(p)
        PROVE  proc[lock.pid].at = "dead"
    BY <1>1, <2>1 DEF UnlinkLock, Inv, LockKnown, At
  <2>2. ASSUME NEW p \in Process, Unlock(p)
        PROVE  At(lock.pid, "unlocking")
    <3>1. At(p, "unlocking") /\ proc[p].at \in Inside
      BY <2>2 DEF Unlock, At, Inside
    <3>2. lock = [pid |-> p, whole |-> TRUE]
      BY <1>1, <3>1 DEF Inv, LockKnown
    <3>3. lock.pid = p
      BY <3>2
    <3> QED
      BY <3>1, <3>3
  <2>3. ASSUME NEW p \in Process, TakeLock(p) \/ Faults(p), lock # None
        PROVE  UNCHANGED lock
    BY <2>3 DEF TakeLock, Faults, Interrupt, Crash, HalfWritten, files
  <2>4. ASSUME NEW p \in Process, Starts(p) \/ Restart(p)
        PROVE  UNCHANGED lock
    BY <2>4 DEF Starts, StartApply, StartRollback, StartRecover, Begin, Restart, files
  <2>5. ASSUME NEW p \in Process, Continues(p), ~UnlinkLock(p), ~TakeLock(p), ~Unlock(p)
        PROVE  UNCHANGED lock
    BY <2>5 DEF Continues, Own, Mark, SeeLock, Look, ReadState, Prepare, Stage, Fill,
                Close, Write, Publish, PublishReceipt, Recheck, Commit, Drop, Decide,
                ClearDirectory, RemoveDirectory, ReadOwnLock, files
  <2>6. CASE UNCHANGED vars
    BY <2>6 DEF vars, files
  <2> QED
    BY <1>1, <2>1, <2>2, <2>3, <2>4, <2>5, <2>6 DEF Next
<1>2. Inv /\ [Next]_vars => [Keeps]_vars
  BY <1>1
<1> QED
  BY <1>2, Invariance, PTL DEF Spec, LiveLockIsKept
=============================================================================
