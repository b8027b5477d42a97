-------------------------- MODULE MergeQueueProofs --------------------------
(* Proofs about the merge queue, for any sessions, mergers and changes, and *)
(* whatever clashes: no work goes with a worktree, and a queue is sound and *)
(* complete for the pass that has built it.                                 *)
EXTENDS MergeQueue, TLAPS

-----------------------------------------------------------------------------
(* THE INDUCTIVE INVARIANT                                                  *)

Cutting == {"inspected", "merged", "removed", "deleted"}

(* A merger has a session at hand exactly while it merges or rebases it,    *)
(* and its worktree is gone before its branch is.                           *)
AtHand(m) ==
  /\ merger[m].at \in Cutting \cup {"replaying"} => merger[m].cur \in Session
  /\ merger[m].at \in {"judging", "merging"} => merger[m].cur = None
  /\ At(m, "removed") => merger[m].cur \notin dir

(* What a merger may still throw away has been merged or is waived.         *)
Covered(m) ==
  LET s == merger[m].cur
  IN  /\ merger[m].at \in {"inspected", "merged", "removed"} => edits[s] \subseteq waived
      /\ merger[m].at \in {"merged", "removed"} => branch[s] \subseteq base \cup waived

(* The rows still to be judged are as they were when the queue was begun.   *)
ListFits(m) ==
  At(m, "judging") =>
    merger[m].todo \subseteq attached /\ merger[m].ended = merger[m].todo \ active

(* The entries can be merged, and do not conflict with each other nor with  *)
(* the one that is being merged.                                            *)
EntriesFit(m) ==
  merger[m].at \in {"judging", "merging"} \cup Cutting =>
    /\ \A s \in merger[m].ready : Mergeable(s)
    /\ \A s, b \in merger[m].ready : ~Conflict(branch[s], branch[b])
    /\ merger[m].cur \notin merger[m].ready
    /\ At(m, "inspected") =>
         /\ Mergeable(merger[m].cur)
         /\ \A s \in merger[m].ready : ~Conflict(branch[merger[m].cur], branch[s])

(* What can be merged is yet to be judged, is an entry, or has to wait for  *)
(* one.                                                                     *)
Listed(m, s) ==
  \/ At(m, "judging") /\ s \in merger[m].todo
  \/ s \in merger[m].ready \cup {merger[m].cur}
  \/ \E b \in (merger[m].ready \cup {merger[m].cur}) \cap Session : Conflict(branch[s], branch[b])

AllListed(m) ==
  merger[m].at \in {"judging", "merging", "inspected"} /\ ~merger[m].merged /\ root = "clean" =>
    \A s \in Session : Mergeable(s) => Listed(m, s)

Knows(m) ==
  /\ AtHand(m)
  /\ Covered(m)
  /\ m \in quiet => ListFits(m) /\ EntriesFit(m) /\ AllListed(m) /\ ~merger[m].single

Inv ==
  /\ TypeOK
  /\ dir \subseteq refs
  /\ WorkIsKept
  /\ \A m \in Merger : Knows(m)
-----------------------------------------------------------------------------
(* LEMMAS                                                                   *)

(* Two branches conflict or they do not, whichever is named first.          *)
LEMMA ConflictSymmetric == \A a, b : Conflict(a, b) <=> Conflict(b, a)
<1>1. \A c, d : {c, d} = {d, c}
  OBVIOUS
<1>. QED
  BY <1>1 DEF Conflict

(* What conflicts neither with the base nor with a branch does not conflict *)
(* with the base after that branch is merged.                               *)
LEMMA MergedBase ==
  \A a, b, c : ~Conflict(a, c) /\ ~Conflict(b, c) => ~Conflict(a \cup b, c)
  BY DEF Conflict

(* What a merger knows stays true while neither it nor the work changes.    *)
LEMMA StillKnows ==
  ASSUME Inv, NEW d \in Merger, merger'[d] = merger[d], d \in quiet' => d \in quiet,
         UNCHANGED <<active, attached, dir, refs, work, root, made, waived>>
  PROVE  Knows(d)'
<1>1. Knows(d)
  BY DEF Inv
<1>2. AtHand(d)' /\ Covered(d)'
  BY <1>1 DEF Knows, AtHand, Covered, At, work
<1>3. CASE d \notin quiet'
  BY <1>2, <1>3 DEF Knows
<1>4. CASE d \in quiet'
  <2>1. ListFits(d) /\ EntriesFit(d) /\ AllListed(d) /\ ~merger[d].single
    BY <1>1, <1>4 DEF Knows
  <2>2. ListFits(d)'
    BY <2>1 DEF ListFits, At
  <2>3. EntriesFit(d)'
    BY <2>1 DEF EntriesFit, At, Mergeable, Conflicted, Dirty, Conflict, work
  <2>4. AllListed(d)'
    BY <2>1 DEF AllListed, Listed, At, Mergeable, Conflicted, Dirty, Conflict, work
  <2>. QED
    BY <1>2, <2>1, <2>2, <2>3, <2>4 DEF Knows
<1>. QED
  BY <1>3, <1>4

(* A step of m that only looks: all that counts is what m knows then.       *)
LEMMA Looks ==
  ASSUME Inv, NEW m \in Merger, NEW w \in Work, Set(m, w),
         UNCHANGED <<active, attached, dir, refs, work, root, made, waived>>,
         quiet' \subseteq quiet \cup {m},
         Knows(m)'
  PROVE  Inv'
<1>1. TypeOK'
  BY DEF Inv, TypeOK, Set, work
<1>2. (dir \subseteq refs)' /\ WorkIsKept'
  BY DEF Inv, WorkIsKept, work
<1>3. ASSUME NEW d \in Merger, d # m PROVE Knows(d)'
  <2>1. merger'[d] = merger[d] /\ (d \in quiet' => d \in quiet)
    BY <1>3 DEF Inv, TypeOK, Set
  <2>. QED
    BY <2>1, StillKnows
<1>. QED
  BY <1>1, <1>2, <1>3 DEF Inv

(* A step that changes the work leaves what a merger has at hand covered,   *)
(* if it only commits, rebases, merges and throws away, or makes changes    *)
(* that are waived where they are being merged.                             *)
LEMMA StaysCovered ==
  ASSUME Inv, NEW d \in Merger, merger'[d] = merger[d],
         dir' \subseteq dir, base \subseteq base', waived \subseteq waived',
         \A s \in Session : InMerge(s) => edits'[s] \subseteq edits[s] \cup waived',
         \A s \in Session : branch'[s] \subseteq branch[s] \cup edits[s] \cup base'
  PROVE  AtHand(d)' /\ Covered(d)'
<1>1. Knows(d)
  BY DEF Inv
<1>2. AtHand(d)'
  BY <1>1 DEF Knows, AtHand, At
<1>3. ASSUME merger[d].at \in {"inspected", "merged", "removed"} PROVE Covered(d)'
  <2>1. merger[d].cur \in Session /\ InMerge(merger[d].cur)
    BY <1>1, <1>3 DEF Knows, AtHand, Cutting, InMerge
  <2>. QED
    BY <1>1, <1>3, <2>1 DEF Knows, Covered
<1>4. CASE merger[d].at \notin {"inspected", "merged", "removed"}
  BY <1>2, <1>4 DEF Covered
<1>. QED
  BY <1>2, <1>3, <1>4

(* The same for a step of m, after which the others are not alone.          *)
LEMMA Moves ==
  ASSUME Inv, NEW m \in Merger, NEW w \in Work, Set(m, w),
         TypeOK', (dir \subseteq refs)', WorkIsKept', quiet' \subseteq {m},
         dir' \subseteq dir, base \subseteq base', waived \subseteq waived',
         \A s \in Session : InMerge(s) => edits'[s] \subseteq edits[s] \cup waived',
         \A s \in Session : branch'[s] \subseteq branch[s] \cup edits[s] \cup base',
         Knows(m)'
  PROVE  Inv'
<1>1. ASSUME NEW d \in Merger, d # m PROVE Knows(d)'
  <2>1. merger'[d] = merger[d] /\ d \notin quiet'
    BY <1>1 DEF Inv, TypeOK, Set
  <2>2. AtHand(d)' /\ Covered(d)'
    BY <2>1, StaysCovered
  <2>. QED
    BY <2>1, <2>2 DEF Knows
<1>. QED
  BY <1>1 DEF Inv

(* And for a step of the world, after which nobody is.                      *)
LEMMA Happens ==
  ASSUME Inv, UNCHANGED merger,
         TypeOK', (dir \subseteq refs)', WorkIsKept', quiet' = {},
         dir' \subseteq dir, base \subseteq base', waived \subseteq waived',
         \A s \in Session : InMerge(s) => edits'[s] \subseteq edits[s] \cup waived',
         \A s \in Session : branch'[s] \subseteq branch[s] \cup edits[s] \cup base'
  PROVE  Inv'
<1>1. ASSUME NEW d \in Merger PROVE Knows(d)'
  <2>1. AtHand(d)' /\ Covered(d)'
    BY StaysCovered
  <2>. QED
    BY <2>1 DEF Knows
<1>. QED
  BY <1>1 DEF Inv
-----------------------------------------------------------------------------
(* BUILDING                                                                 *)

(* A merger that begins a queue, or goes idle, knows what it has to.        *)
LEMMA Begins ==
  ASSUME NEW m \in Merger,
         merger'[m].at = "judging", merger'[m].cur = None, merger'[m].ready = {},
         merger'[m].todo = attached', merger'[m].ended = attached' \ active',
         merger'[m].single = FALSE
  PROVE  Knows(m)'
<1>1. AtHand(m)' /\ Covered(m)'
  BY DEF AtHand, Covered, At, Cutting
<1>2. ListFits(m)' /\ EntriesFit(m)'
  BY DEF ListFits, EntriesFit, At
<1>3. AllListed(m)'
  BY DEF AllListed, Listed, At, Mergeable
<1>. QED
  BY <1>1, <1>2, <1>3 DEF Knows

LEMMA Rests == ASSUME NEW m \in Merger, merger'[m] = Idle PROVE Knows(m)'
  BY DEF Knows, AtHand, Covered, ListFits, EntriesFit, AllListed, At, Cutting, Idle

LEMMA IdleTyped == Idle \in Work
  BY DEF Idle, Work, Label

LEMMA BuildKeepsInv ==
  ASSUME Inv, NEW m \in Merger, NEW tried, Build(m, tried),
         tried \subseteq Session \X SUBSET Change,
         UNCHANGED <<active, attached, dir, refs, work, root, made, waived>>
  PROVE  Inv'
<1>. DEFINE w == [Idle EXCEPT !.at = "judging", !.todo = attached, !.tried = tried,
                              !.ended = attached \ active]
<1>1. w \in Work /\ Set(m, w) /\ quiet' = quiet \cup {m}
  BY DEF Build, Inv, TypeOK, Work, Label, Idle
<1>2. merger'[m] = w
  BY <1>1 DEF Set, Inv, TypeOK
<1>3. Knows(m)'
  BY <1>2, Begins DEF Idle
<1>. QED
  BY <1>1, <1>3, Looks

LEMMA StartPassKeepsInv == ASSUME Inv, NEW m \in Merger, StartPass(m) PROVE Inv'
  BY BuildKeepsInv DEF StartPass

(* Judging a row adds to the entries only what can be merged and conflicts  *)
(* with none of them, and leaves out nothing that can be merged but what    *)
(* does.                                                                    *)
LEMMA JudgeKeepsInv ==
  ASSUME Inv, NEW m \in Merger, NEW s \in Session, Judge(m, s)
  PROVE  Inv'
<1>. DEFINE fit == Ended(m, s) /\ ~Conflicted(s) /\ ~Dirty(s)
            todo == merger[m].todo \ {s}
            w == [merger[m] EXCEPT
                    !.todo = todo, !.ended = @ \ {s},
                    !.at = IF todo = {} THEN "merging" ELSE @,
                    !.ready = IF fit /\ ~Blocked(m, s) THEN @ \cup {s} ELSE @,
                    !.conflicted = IF Conflicted(s) /\ ~Dirty(s) THEN @ \cup {s} ELSE @]
<1>1. /\ merger[m] \in Work /\ At(m, "judging") /\ s \in merger[m].todo
      /\ UNCHANGED <<active, attached, dir, refs, work, root, made, waived, quiet>>
      /\ Knows(m)
  BY DEF Inv, TypeOK, Judge
<1>2. (s \in dir /\ Set(m, w)) \/ Set(m, Idle)
  BY <1>1 DEF Judge, Work
<1>3. CASE Set(m, Idle)
  <2>1. merger'[m] = Idle
    BY <1>3 DEF Set, Inv, TypeOK
  <2>. QED
    BY <1>1, <1>3, <2>1, Rests, IdleTyped, Looks
<1>4. CASE s \in dir /\ Set(m, w)
  <2>1. w \in Work
    BY <1>1 DEF Work, Label
  <2>2. merger'[m] = w
    BY <1>4 DEF Set, Inv, TypeOK
  <2>3. /\ merger'[m].at \in {"judging", "merging"}
        /\ merger'[m].at = "judging" \/ todo = {}
        /\ merger'[m].todo = todo /\ merger'[m].ended = merger[m].ended \ {s}
        /\ merger'[m].ready = IF fit /\ ~Blocked(m, s) THEN merger[m].ready \cup {s}
                              ELSE merger[m].ready
        /\ merger'[m].cur = merger[m].cur /\ merger'[m].single = merger[m].single
        /\ merger'[m].merged = merger[m].merged
    BY <1>1, <2>2 DEF Work, At
  <2>4. AtHand(m)' /\ Covered(m)'
    BY <1>1, <2>3 DEF Knows, AtHand, Covered, At, Cutting
  <2>5. ASSUME m \in quiet
        PROVE  ListFits(m)' /\ EntriesFit(m)' /\ AllListed(m)' /\ ~merger'[m].single
    <3>1. ListFits(m) /\ EntriesFit(m) /\ AllListed(m) /\ ~merger[m].single
      BY <1>1, <2>5 DEF Knows
    <3>2. ListFits(m)'
      BY <1>1, <2>3, <3>1 DEF ListFits, At
    <3>3. fit => Mergeable(s)
      BY <1>1, <1>4, <3>1 DEF ListFits, Ended, Mergeable
    <3>4. Mergeable(s) => fit
      BY <1>1, <3>1 DEF ListFits, Ended, Mergeable
    <3>5. \A t \in merger'[m].ready : Mergeable(t)
      BY <1>1, <2>3, <3>1, <3>3 DEF EntriesFit, At
    <3>6. \A t, b \in merger'[m].ready : ~Conflict(branch[t], branch[b])
      <4>1. ~Conflict(branch[s], branch[s])
        BY DEF Conflict
      <4>2. \A t, b \in merger[m].ready : ~Conflict(branch[t], branch[b])
        BY <1>1, <3>1 DEF EntriesFit, At
      <4>3. ~Blocked(m, s) => \A b \in merger[m].ready : /\ ~Conflict(branch[s], branch[b])
                                                        /\ ~Conflict(branch[b], branch[s])
        BY ConflictSymmetric DEF Blocked
      <4>. QED
        BY <2>3, <4>1, <4>2, <4>3
    <3>7. merger'[m].cur \notin merger'[m].ready
      BY <1>1, <2>3, <3>1, MergeAssumption DEF Knows, AtHand, At, EntriesFit
    <3>8. EntriesFit(m)'
      BY <1>1, <2>3, <3>5, <3>6, <3>7 DEF EntriesFit, At, Mergeable, Conflicted, Dirty, Conflict, work
    <3>9. ASSUME NEW t \in Session, Mergeable(t), Listed(m, t) PROVE Listed(m, t)'
      <4>1. CASE t = s
        <5>1. fit
          BY <3>4, <3>9, <4>1
        <5>2. CASE ~Blocked(m, s)
          BY <2>3, <4>1, <5>1, <5>2 DEF Listed
        <5>3. CASE Blocked(m, s)
          <6>1. PICK b \in merger[m].ready : Conflict(branch[s], branch[b])
            BY <5>3 DEF Blocked
          <6>2. b \in merger'[m].ready /\ b \in Session
            BY <1>1, <2>3, <6>1 DEF Work
          <6>. QED
            BY <1>1, <4>1, <6>1, <6>2 DEF Listed, Conflict, work
        <5>. QED
          BY <5>2, <5>3
      <4>2. CASE t # s
        <5>1. merger[m].ready \subseteq merger'[m].ready
          BY <2>3
        <5>. QED
          BY <1>1, <2>3, <3>9, <4>2, <5>1 DEF Listed, At, Conflict, work
      <4>. QED
        BY <4>1, <4>2
    <3>10. AllListed(m)'
      <4>1. ASSUME ~merger'[m].merged, root' = "clean", NEW t \in Session, Mergeable(t)'
            PROVE  Listed(m, t)'
        <5>1. Mergeable(t)
          BY <1>1, <4>1 DEF Mergeable, Conflicted, Dirty, Conflict, work
        <5>2. Listed(m, t)
          BY <1>1, <2>3, <3>1, <4>1, <5>1 DEF AllListed, At
        <5>. QED
          BY <3>9, <5>1, <5>2
      <4>. QED
        BY <4>1 DEF AllListed
    <3>. QED
      BY <2>3, <3>1, <3>2, <3>8, <3>10
  <2>6. Knows(m)'
    BY <1>1, <2>4, <2>5 DEF Knows
  <2>. QED
    BY <1>1, <1>4, <2>1, <2>6, Looks
<1>. QED
  BY <1>2, <1>3, <1>4

(* A merger that gives up its pass.                                         *)
LEMMA RestKeepsInv ==
  ASSUME Inv, NEW m \in Merger, Set(m, Idle),
         UNCHANGED <<active, attached, dir, refs, work, root, made, waived, quiet>>
  PROVE  Inv'
<1>1. merger'[m] = Idle
  BY DEF Set, Inv, TypeOK
<1>. QED
  BY <1>1, Rests, IdleTyped, Looks
LEMMA JudgeNoneKeepsInv == ASSUME Inv, NEW m \in Merger, JudgeNone(m) PROVE Inv'
  BY RestKeepsInv DEF JudgeNone

LEMMA EndPassKeepsInv == ASSUME Inv, NEW m \in Merger, EndPass(m) PROVE Inv'
  BY RestKeepsInv DEF EndPass

LEMMA CrashKeepsInv == ASSUME Inv, NEW m \in Merger, Crash(m) PROVE Inv'
  BY RestKeepsInv DEF Crash
-----------------------------------------------------------------------------
(* MERGING                                                                  *)

LEMMA StartOneKeepsInv ==
  ASSUME Inv, NEW m \in Merger, NEW s \in Session, StartOne(m, s)
  PROVE  Inv'
<1>. DEFINE w == [Idle EXCEPT !.at = "merging", !.single = TRUE, !.ready = {s}]
<1>1. w \in Work /\ Set(m, w) /\ quiet' = quiet \ {m}
  BY DEF StartOne, Work, Label, Idle
<1>2. merger'[m] = w
  BY <1>1 DEF Set, Inv, TypeOK
<1>3. Knows(m)'
  BY <1>1, <1>2 DEF Knows, AtHand, Covered, At, Cutting, Idle
<1>4. UNCHANGED <<active, attached, dir, refs, work, root, made, waived>>
  BY DEF StartOne
<1>. QED
  BY <1>1, <1>3, <1>4, Looks

LEMMA InspectKeepsInv ==
  ASSUME Inv, NEW m \in Merger, NEW s \in Session, Inspect(m, s)
  PROVE  Inv'
<1>. DEFINE yes == [merger[m] EXCEPT !.at = "inspected", !.cur = s, !.ready = @ \ {s}]
            no == [merger[m] EXCEPT !.ready = @ \ {s}]
<1>1. /\ merger[m] \in Work /\ At(m, "merging") /\ s \in merger[m].ready
      /\ UNCHANGED <<active, attached, dir, refs, work, root, made, waived, quiet>>
      /\ Knows(m)
  BY DEF Inv, TypeOK, Inspect
<1>2. merger[m].cur = None
  BY <1>1 DEF Knows, AtHand, At
<1>3. CASE Mergeable(s) /\ root = "clean"
  <2>1. yes \in Work /\ Set(m, yes)
    BY <1>1, <1>3 DEF Inspect, Work, Label
  <2>2. merger'[m] = yes
    BY <2>1 DEF Set, Inv, TypeOK
  <2>3. /\ merger'[m].at = "inspected" /\ merger'[m].cur = s
        /\ merger'[m].ready = merger[m].ready \ {s}
        /\ merger'[m].single = merger[m].single /\ merger'[m].merged = merger[m].merged
    BY <1>1, <2>2 DEF Work
  <2>4. AtHand(m)' /\ Covered(m)'
    BY <1>1, <1>3, <2>3 DEF AtHand, Covered, At, Cutting, Mergeable, Dirty, work
  <2>5. ASSUME m \in quiet
        PROVE  ListFits(m)' /\ EntriesFit(m)' /\ AllListed(m)' /\ ~merger'[m].single
    <3>1. EntriesFit(m) /\ AllListed(m) /\ ~merger[m].single
      BY <1>1, <2>5 DEF Knows
    <3>2. ListFits(m)'
      BY <2>3 DEF ListFits, At
    <3>3. EntriesFit(m)'
      <4>1. /\ \A t \in merger[m].ready : Mergeable(t)
            /\ \A t, b \in merger[m].ready : ~Conflict(branch[t], branch[b])
        BY <1>1, <3>1 DEF EntriesFit, At
      <4>. QED
        BY <1>1, <2>3, <4>1 DEF EntriesFit, At, Mergeable, Conflicted, Dirty, Conflict, work
    <3>4. merger'[m].ready \cup {merger'[m].cur} = merger[m].ready \cup {s}
      BY <2>3
    <3>5. (merger'[m].ready \cup {merger'[m].cur}) \cap Session
            = (merger[m].ready \cup {merger[m].cur}) \cap Session
      BY <1>1, <1>2, <3>4, MergeAssumption
    <3>6. ASSUME NEW t \in Session, Listed(m, t) PROVE Listed(m, t)'
      BY <1>1, <3>5, <3>6 DEF Listed, At, Conflict, work
    <3>7. AllListed(m)'
      BY <1>1, <2>3, <3>1, <3>6 DEF AllListed, At, Mergeable, Conflicted, Dirty, Conflict, work
    <3>. QED
      BY <2>3, <3>1, <3>2, <3>3, <3>7
  <2>6. Knows(m)'
    BY <1>1, <2>4, <2>5 DEF Knows
  <2>. QED
    BY <1>1, <2>1, <2>6, Looks
<1>4. CASE ~(Mergeable(s) /\ root = "clean")
  <2>1. no \in Work /\ Set(m, no)
    BY <1>1, <1>4 DEF Inspect, Work, Label
  <2>2. merger'[m] = no
    BY <2>1 DEF Set, Inv, TypeOK
  <2>3. /\ merger'[m].at = "merging" /\ merger'[m].cur = None
        /\ merger'[m].ready = merger[m].ready \ {s}
        /\ merger'[m].single = merger[m].single /\ merger'[m].merged = merger[m].merged
    BY <1>1, <1>2, <2>2 DEF Work, At
  <2>4. AtHand(m)' /\ Covered(m)'
    BY <2>3 DEF AtHand, Covered, At, Cutting
  <2>5. ASSUME m \in quiet
        PROVE  ListFits(m)' /\ EntriesFit(m)' /\ AllListed(m)' /\ ~merger'[m].single
    <3>1. EntriesFit(m) /\ ~merger[m].single
      BY <1>1, <2>5 DEF Knows
    <3>2. ListFits(m)'
      BY <2>3 DEF ListFits, At
    <3>3. /\ \A t \in merger[m].ready : Mergeable(t)
          /\ \A t, b \in merger[m].ready : ~Conflict(branch[t], branch[b])
      BY <1>1, <3>1 DEF EntriesFit, At
    <3>4. EntriesFit(m)'
      <4>1. \A t \in merger'[m].ready : Mergeable(t)'
        BY <1>1, <2>3, <3>3 DEF Mergeable, Conflicted, Dirty, Conflict, work
      <4>2. \A t, b \in merger'[m].ready : ~Conflict(branch'[t], branch'[b])
        BY <1>1, <2>3, <3>3 DEF work
      <4>3. merger'[m].cur \notin merger'[m].ready
        BY <1>1, <1>2, <2>3, <3>1 DEF EntriesFit, At
      <4>. QED
        BY <2>3, <4>1, <4>2, <4>3 DEF EntriesFit, At, Conflict
    <3>5. root' # "clean"
      BY <1>1, <1>4, <3>3
    <3>. QED
      BY <2>3, <3>1, <3>2, <3>4, <3>5 DEF AllListed
  <2>6. Knows(m)'
    BY <1>1, <2>4, <2>5 DEF Knows
  <2>. QED
    BY <1>1, <2>1, <2>6, Looks
<1>. QED
  BY <1>3, <1>4
LEMMA NextEntryTyped ==
  ASSUME Inv, NEW m \in Merger, Set(m, NextEntry(m))
  PROVE  /\ NextEntry(m) \in Work
         /\ merger'[m].at = "merging" /\ merger'[m].cur = None
         /\ merger'[m].ready = merger[m].ready /\ merger'[m].single = merger[m].single
         /\ merger'[m].merged = merger[m].merged
<1>1. merger[m] \in Work
  BY DEF Inv, TypeOK
<1>2. NextEntry(m) \in Work
  BY <1>1 DEF NextEntry, Work, Label
<1>3. merger'[m] = NextEntry(m)
  BY DEF Set, Inv, TypeOK
<1>. QED
  BY <1>1, <1>2, <1>3 DEF NextEntry, Work

LEMMA MergeKeepsInv == ASSUME Inv, NEW m \in Merger, Merge(m) PROVE Inv'
<1>. DEFINE s == merger[m].cur
<1>1. /\ TypeOK /\ merger[m] \in Work /\ At(m, "inspected") /\ Knows(m) /\ s \in Session
      /\ dir \subseteq refs /\ WorkIsKept
      /\ UNCHANGED <<active, attached, dir, refs, edits, branch, made, waived>>
  BY DEF Inv, TypeOK, Merge, Knows, AtHand, At, Cutting
<1>2. m \in quiet =>
        /\ Mergeable(s) /\ s \notin merger[m].ready /\ ~merger[m].single
        /\ \A t \in merger[m].ready : Mergeable(t) /\ ~Conflict(branch[s], branch[t])
        /\ \A t, b \in merger[m].ready : ~Conflict(branch[t], branch[b])
  BY <1>1 DEF Knows, EntriesFit, At, Cutting
<1>3. None \notin merger[m].ready
  BY <1>1, MergeAssumption DEF Work
<1>4. CASE /\ s \notin refs \/ root # "clean"
           /\ Set(m, NextEntry(m)) /\ UNCHANGED <<base, root, quiet>>
  <2>1. /\ merger'[m].at = "merging" /\ merger'[m].cur = None
        /\ merger'[m].ready = merger[m].ready /\ merger'[m].single = merger[m].single
        /\ NextEntry(m) \in Work
    BY <1>4, NextEntryTyped
  <2>2. AtHand(m)' /\ Covered(m)'
    BY <2>1 DEF AtHand, Covered, At, Cutting
  <2>3. m \in quiet => root # "clean"
    BY <1>1, <1>2, <1>4 DEF Mergeable
  <2>4. m \in quiet => ListFits(m)' /\ AllListed(m)'
    BY <1>4, <2>1, <2>3 DEF ListFits, AllListed, At
  <2>5. m \in quiet => EntriesFit(m)'
    BY <1>1, <1>2, <1>3, <1>4, <2>1
    DEF EntriesFit, At, Mergeable, Conflicted, Dirty, Conflict
  <2>6. Knows(m)'
    BY <1>2, <1>4, <2>1, <2>2, <2>4, <2>5 DEF Knows
  <2>. QED
    BY <1>1, <1>4, <2>1, <2>6, Looks DEF work
<1>5. CASE /\ root' = "conflicted" /\ Set(m, NextEntry(m)) /\ UNCHANGED base /\ Disturbs(m)
  <2>1. /\ merger'[m].at = "merging" /\ merger'[m].cur = None
        /\ merger'[m].ready = merger[m].ready /\ merger'[m].single = merger[m].single
        /\ NextEntry(m) \in Work
    BY <1>5, NextEntryTyped
  <2>2. AtHand(m)' /\ Covered(m)'
    BY <2>1 DEF AtHand, Covered, At, Cutting
  <2>3. ListFits(m)' /\ AllListed(m)'
    BY <1>5, <2>1 DEF ListFits, AllListed, At
  <2>4. m \in quiet => EntriesFit(m)'
    BY <1>1, <1>2, <1>3, <1>5, <2>1
    DEF EntriesFit, At, Mergeable, Conflicted, Dirty, Conflict
  <2>5. Knows(m)'
    BY <1>2, <1>5, <2>1, <2>2, <2>3, <2>4 DEF Knows, Disturbs
  <2>6. TypeOK' /\ (dir \subseteq refs)' /\ WorkIsKept' /\ quiet' \subseteq {m}
    BY <1>1, <1>5, <2>1 DEF TypeOK, Set, WorkIsKept, Disturbs
  <2>. QED
    BY <1>1, <1>5, <2>1, <2>5, <2>6, Moves
<1>6. CASE /\ base' = base \cup branch[s] /\ Disturbs(m) /\ UNCHANGED root
           /\ merger[m].single /\ Set(m, NextEntry(m))
  <2>1. /\ merger'[m].at = "merging" /\ merger'[m].cur = None
        /\ NextEntry(m) \in Work
    BY <1>6, NextEntryTyped
  <2>2. AtHand(m)' /\ Covered(m)'
    BY <2>1 DEF AtHand, Covered, At, Cutting
  <2>3. Knows(m)'
    BY <1>2, <1>6, <2>2 DEF Knows, Disturbs
  <2>4. TypeOK' /\ (dir \subseteq refs)' /\ WorkIsKept' /\ quiet' \subseteq {m}
    BY <1>1, <1>6, <2>1 DEF TypeOK, Set, WorkIsKept, Disturbs
  <2>. QED
    BY <1>1, <1>6, <2>1, <2>3, <2>4, Moves
<1>7. CASE /\ base' = base \cup branch[s] /\ Disturbs(m) /\ UNCHANGED root
           /\ Set(m, [merger[m] EXCEPT !.at = "merged"])
  <2>. DEFINE w == [merger[m] EXCEPT !.at = "merged"]
  <2>1. w \in Work
    BY <1>1 DEF Work, Label
  <2>2. merger'[m] = w
    BY <1>1, <1>7 DEF Set, TypeOK
  <2>3. /\ merger'[m].at = "merged" /\ merger'[m].cur = s
        /\ merger'[m].ready = merger[m].ready /\ merger'[m].single = merger[m].single
    BY <1>1, <2>2 DEF Work
  <2>4. AtHand(m)' /\ Covered(m)'
    BY <1>1, <1>7, <2>3 DEF Knows, AtHand, Covered, At, Cutting
  <2>5. ListFits(m)' /\ AllListed(m)'
    BY <2>3 DEF ListFits, AllListed, At
  <2>6. m \in quiet => EntriesFit(m)'
    <3>1. ASSUME m \in quiet, NEW t \in merger[m].ready PROVE Mergeable(t)'
      <4>1. Mergeable(t) /\ ~Conflict(branch[s], branch[t])
        BY <1>2, <3>1
      <4>2. ~Conflict(base \cup branch[s], branch[t])
        BY <4>1, MergedBase DEF Mergeable, Conflicted
      <4>3. ~Conflict(base', branch'[t])
        BY <1>1, <1>7, <4>2
      <4>. QED
        BY <1>1, <4>1, <4>3 DEF Mergeable, Conflicted, Dirty, Conflict
    <3>. QED
      BY <1>1, <1>2, <2>3, <3>1 DEF EntriesFit, At, Conflict
  <2>7. Knows(m)'
    BY <1>2, <1>7, <2>3, <2>4, <2>5, <2>6 DEF Knows, Disturbs
  <2>8. TypeOK' /\ (dir \subseteq refs)' /\ WorkIsKept' /\ quiet' \subseteq {m}
    BY <1>1, <1>7, <2>1 DEF TypeOK, Set, WorkIsKept, Disturbs
  <2>. QED
    BY <1>1, <1>7, <2>1, <2>7, <2>8, Moves
<1>. QED
  BY <1>4, <1>5, <1>6, <1>7 DEF Merge

(* The worktree goes with edits that are waived.                            *)
LEMMA RemoveKeepsInv == ASSUME Inv, NEW m \in Merger, Remove(m) PROVE Inv'
<1>. DEFINE s == merger[m].cur
            w == [merger[m] EXCEPT !.at = IF s \in dir THEN "removed" ELSE "deleted"]
<1>1. /\ TypeOK /\ merger[m] \in Work /\ At(m, "merged") /\ Knows(m) /\ s \in Session
      /\ dir \subseteq refs /\ WorkIsKept
      /\ UNCHANGED <<active, attached, refs, branch, base, root, made, waived>>
      /\ dir' = dir \ {s} /\ edits' = [edits EXCEPT ![s] = {}]
      /\ Set(m, w) /\ Disturbs(m)
  BY DEF Inv, TypeOK, Remove, Knows, AtHand, At, Cutting
<1>2. w \in Work
  BY <1>1 DEF Work, Label
<1>3. merger'[m] = w
  BY <1>1 DEF Set, TypeOK
<1>4. /\ merger'[m].at \in {"removed", "deleted"} /\ merger'[m].cur = s
      /\ merger'[m].ready = merger[m].ready /\ merger'[m].single = merger[m].single
  BY <1>1, <1>3 DEF Work
<1>5. edits'[s] = {} /\ \A t \in Session : t # s => edits'[t] = edits[t]
  BY <1>1 DEF TypeOK
<1>6. AtHand(m)' /\ Covered(m)'
  BY <1>1, <1>4, <1>5 DEF Knows, AtHand, Covered, At, Cutting
<1>7. m \in quiet => ListFits(m)' /\ EntriesFit(m)' /\ AllListed(m)' /\ ~merger'[m].single
  <2>1. m \in quiet =>
          /\ s \notin merger[m].ready /\ ~merger[m].single
          /\ \A t \in merger[m].ready : Mergeable(t)
          /\ \A t, b \in merger[m].ready : ~Conflict(branch[t], branch[b])
    BY <1>1 DEF Knows, EntriesFit, At, Cutting
  <2>2. \A t \in merger[m].ready : t \in Session
    BY <1>1 DEF Work
  <2>. QED
    BY <1>1, <1>4, <1>5, <2>1, <2>2
    DEF ListFits, EntriesFit, AllListed, At, Mergeable, Conflicted, Dirty, Conflict
<1>8. Knows(m)'
  BY <1>1, <1>6, <1>7 DEF Knows, Disturbs
<1>9. WorkIsKept'
  <2>1. edits[s] \subseteq waived
    BY <1>1 DEF Knows, Covered, At
  <2>. QED
    BY <1>1, <1>5, <2>1 DEF WorkIsKept
<1>10. TypeOK' /\ (dir \subseteq refs)' /\ quiet' \subseteq {m}
  BY <1>1, <1>2 DEF TypeOK, Set, Disturbs
<1>. QED
  BY <1>1, <1>2, <1>5, <1>8, <1>9, <1>10, Moves

(* The branch goes with what is on the base or waived.                      *)
LEMMA DeleteBranchKeepsInv == ASSUME Inv, NEW m \in Merger, DeleteBranch(m) PROVE Inv'
<1>. DEFINE s == merger[m].cur
            w == [merger[m] EXCEPT !.at = "deleted"]
<1>1. /\ TypeOK /\ merger[m] \in Work /\ At(m, "removed") /\ Knows(m) /\ s \in Session
      /\ dir \subseteq refs /\ WorkIsKept
      /\ UNCHANGED <<active, attached, dir, edits, base, root, made, waived>>
      /\ refs' = refs \ {s} /\ branch' = [branch EXCEPT ![s] = {}]
      /\ Set(m, w) /\ Disturbs(m)
  BY DEF Inv, TypeOK, DeleteBranch, Knows, AtHand, At, Cutting
<1>2. w \in Work
  BY <1>1 DEF Work, Label
<1>3. merger'[m] = w
  BY <1>1 DEF Set, TypeOK
<1>4. /\ merger'[m].at = "deleted" /\ merger'[m].cur = s
      /\ merger'[m].ready = merger[m].ready /\ merger'[m].single = merger[m].single
  BY <1>1, <1>3 DEF Work
<1>5. branch'[s] = {} /\ \A t \in Session : t # s => branch'[t] = branch[t]
  BY <1>1 DEF TypeOK
<1>6. AtHand(m)' /\ Covered(m)'
  BY <1>1, <1>4 DEF AtHand, Covered, At, Cutting
<1>7. m \in quiet => ListFits(m)' /\ EntriesFit(m)' /\ AllListed(m)' /\ ~merger'[m].single
  <2>1. m \in quiet =>
          /\ s \notin merger[m].ready /\ ~merger[m].single
          /\ \A t \in merger[m].ready : Mergeable(t)
          /\ \A t, b \in merger[m].ready : ~Conflict(branch[t], branch[b])
    BY <1>1 DEF Knows, EntriesFit, At, Cutting
  <2>2. \A t \in merger[m].ready : t \in Session
    BY <1>1 DEF Work
  <2>3. m \in quiet => \A t \in merger[m].ready : branch'[t] = branch[t]
    BY <1>5, <2>1, <2>2
  <2>. QED
    BY <1>1, <1>4, <2>1, <2>3
    DEF ListFits, EntriesFit, AllListed, At, Mergeable, Conflicted, Dirty, Conflict
<1>8. Knows(m)'
  BY <1>1, <1>6, <1>7 DEF Knows, Disturbs
<1>9. WorkIsKept'
  <2>1. branch[s] \subseteq base \cup waived
    BY <1>1 DEF Knows, Covered, At
  <2>. QED
    BY <1>1, <1>5, <2>1 DEF WorkIsKept
<1>10. TypeOK' /\ (dir \subseteq refs)' /\ quiet' \subseteq {m}
  BY <1>1, <1>2 DEF TypeOK, Set, Disturbs, Knows, AtHand, At
<1>. QED
  BY <1>1, <1>2, <1>5, <1>8, <1>9, <1>10, Moves

LEMMA ClearKeepsInv == ASSUME Inv, NEW m \in Merger, Clear(m) PROVE Inv'
<1>. DEFINE s == merger[m].cur
            w == [NextEntry(m) EXCEPT !.merged = TRUE]
<1>1. /\ TypeOK /\ merger[m] \in Work /\ At(m, "deleted") /\ Knows(m) /\ s \in Session
      /\ dir \subseteq refs /\ WorkIsKept
      /\ UNCHANGED <<active, dir, refs, edits, branch, base, root, made, waived>>
      /\ attached' = attached \ {s} /\ Set(m, w) /\ Disturbs(m)
  BY DEF Inv, TypeOK, Clear, Knows, AtHand, At, Cutting, work
<1>2. w \in Work
  BY <1>1 DEF NextEntry, Work, Label
<1>3. merger'[m] = w
  BY <1>1 DEF Set, TypeOK
<1>4. /\ merger'[m].at = "merging" /\ merger'[m].cur = None /\ merger'[m].merged = TRUE
      /\ merger'[m].ready = merger[m].ready /\ merger'[m].single = merger[m].single
  BY <1>1, <1>3 DEF NextEntry, Work
<1>5. AtHand(m)' /\ Covered(m)'
  BY <1>1, <1>4 DEF AtHand, Covered, At, Cutting
<1>6. m \in quiet => ListFits(m)' /\ EntriesFit(m)' /\ AllListed(m)' /\ ~merger'[m].single
  <2>1. m \in quiet =>
          /\ s \notin merger[m].ready /\ ~merger[m].single
          /\ \A t \in merger[m].ready : Mergeable(t)
          /\ \A t, b \in merger[m].ready : ~Conflict(branch[t], branch[b])
    BY <1>1 DEF Knows, EntriesFit, At, Cutting
  <2>2. None \notin merger[m].ready
    BY <1>1, MergeAssumption DEF Work
  <2>. QED
    BY <1>1, <1>4, <2>1, <2>2
    DEF ListFits, EntriesFit, AllListed, At, Mergeable, Conflicted, Dirty, Conflict
<1>7. Knows(m)'
  BY <1>1, <1>5, <1>6 DEF Knows, Disturbs
<1>8. TypeOK' /\ (dir \subseteq refs)' /\ WorkIsKept' /\ quiet' \subseteq {m}
  BY <1>1, <1>2 DEF TypeOK, Set, Disturbs, WorkIsKept
<1>. QED
  BY <1>1, <1>2, <1>7, <1>8, Moves

LEMMA EndMergingKeepsInv == ASSUME Inv, NEW m \in Merger, EndMerging(m) PROVE Inv'
<1>1. /\ TypeOK /\ merger[m] \in Work /\ At(m, "merging") /\ Knows(m)
      /\ UNCHANGED <<active, attached, dir, refs, work, root, made, waived>>
  BY DEF Inv, TypeOK, EndMerging
<1>2. CASE Set(m, Idle) /\ UNCHANGED quiet
  BY <1>1, <1>2, RestKeepsInv
<1>3. CASE Build(m, merger[m].tried)
  <2>1. merger[m].tried \subseteq Session \X SUBSET Change
    BY <1>1 DEF Work
  <2>. QED
    BY <1>1, <1>3, <2>1, BuildKeepsInv
<1>4. CASE Set(m, [merger[m] EXCEPT !.at = "rebasing"]) /\ UNCHANGED quiet
  <2>. DEFINE w == [merger[m] EXCEPT !.at = "rebasing"]
  <2>1. w \in Work
    BY <1>1 DEF Work, Label
  <2>2. merger'[m] = w
    BY <1>1, <1>4 DEF Set, TypeOK
  <2>3. merger'[m].at = "rebasing" /\ merger'[m].single = merger[m].single
    BY <1>1, <2>2 DEF Work
  <2>4. Knows(m)'
    BY <1>1, <1>4, <2>3
    DEF Knows, AtHand, Covered, ListFits, EntriesFit, AllListed, At, Cutting
  <2>. QED
    BY <1>1, <1>4, <2>1, <2>4, Looks
<1>. QED
  BY <1>2, <1>3, <1>4 DEF EndMerging
-----------------------------------------------------------------------------
(* REBASING                                                                 *)

(* A merger that looks for something to rebase has nothing to know but      *)
(* which session it has at hand.                                            *)
LEMMA LooksToRebase ==
  ASSUME Inv, NEW m \in Merger, NEW w \in Work, Set(m, w),
         w.at \in {"rebasing", "replaying"}, w.at = "replaying" => w.cur \in Session,
         w.single = merger[m].single,
         UNCHANGED <<active, attached, dir, refs, work, root, made, waived, quiet>>
  PROVE  Inv'
<1>1. merger'[m] = w /\ Knows(m)
  BY DEF Set, Inv, TypeOK
<1>2. Knows(m)'
  BY <1>1 DEF Knows, AtHand, Covered, ListFits, EntriesFit, AllListed, At, Cutting
<1>. QED
  BY <1>2, Looks

LEMMA TryRebaseKeepsInv ==
  ASSUME Inv, NEW m \in Merger, NEW s \in Session, TryRebase(m, s)
  PROVE  Inv'
<1>. DEFINE c == [merger[m] EXCEPT !.conflicted = @ \ {s}]
            t == [c EXCEPT !.tried = {h \in @ : h[1] # s} \cup {<<s, base>>}]
            r == [t EXCEPT !.at = "replaying", !.cur = s]
<1>1. /\ merger[m] \in Work /\ At(m, "rebasing") /\ base \in SUBSET Change
      /\ UNCHANGED <<active, attached, dir, refs, work, root, made, waived, quiet>>
  BY DEF Inv, TypeOK, TryRebase
<1>2. Set(m, c) \/ Set(m, Idle) \/ Set(m, t) \/ Set(m, r)
  BY DEF TryRebase
<1>3. c \in Work /\ c.at = "rebasing" /\ c.single = merger[m].single
  BY <1>1 DEF Work, Label, At
<1>4. t \in Work /\ t.at = "rebasing" /\ t.single = merger[m].single
  <2>1. {h \in c.tried : h[1] # s} \cup {<<s, base>>} \in SUBSET (Session \X SUBSET Change)
    BY <1>1, <1>3 DEF Work
  <2>. HIDE DEF c
  <2>. QED
    BY <1>3, <2>1 DEF Work
<1>5. r \in Work /\ r.at = "replaying" /\ r.cur = s /\ r.single = merger[m].single
  <2>. HIDE DEF t
  <2>. QED
    BY <1>4 DEF Work, Label
<1>. HIDE DEF c, t, r
<1>. QED
  BY <1>1, <1>2, <1>3, <1>4, <1>5, RestKeepsInv, LooksToRebase

LEMMA FailRebaseKeepsInv == ASSUME Inv, NEW m \in Merger, FailRebase(m) PROVE Inv'
<1>. DEFINE w == [merger[m] EXCEPT !.at = "rebasing", !.cur = None]
<1>1. /\ merger[m] \in Work /\ Set(m, w)
      /\ UNCHANGED <<active, attached, dir, refs, work, root, made, waived, quiet>>
  BY DEF Inv, TypeOK, FailRebase
<1>2. w \in Work /\ w.at = "rebasing" /\ w.single = merger[m].single
  BY <1>1 DEF Work, Label
<1>. HIDE DEF w
<1>. QED
  BY <1>1, <1>2, LooksToRebase

LEMMA RebaseKeepsInv == ASSUME Inv, NEW m \in Merger, Rebase(m) PROVE Inv'
<1>. DEFINE s == merger[m].cur
            w == [Idle EXCEPT !.at = "judging", !.todo = attached, !.tried = merger[m].tried,
                              !.ended = attached \ active]
<1>1. /\ TypeOK /\ merger[m] \in Work /\ s \in Session /\ dir \subseteq refs /\ WorkIsKept
      /\ branch' = [branch EXCEPT ![s] = @ \cup base]
      /\ Set(m, w) /\ quiet' = {m}
      /\ UNCHANGED <<active, attached, dir, refs, edits, base, root, made, waived>>
  BY DEF Inv, TypeOK, Rebase, Knows, AtHand, At
<1>2. w \in Work
  BY <1>1 DEF TypeOK, Work, Label, Idle
<1>3. merger'[m] = w
  BY <1>1 DEF Set, TypeOK
<1>4. Knows(m)'
  BY <1>1, <1>3, Begins DEF Idle
<1>5. \A t \in Session : branch[t] \subseteq branch'[t] /\ branch'[t] \subseteq branch[t] \cup base
  BY <1>1 DEF TypeOK
<1>6. TypeOK' /\ (dir \subseteq refs)' /\ quiet' \subseteq {m}
  <2>1. branch' \in [Session -> SUBSET Change]
    BY <1>1 DEF TypeOK
  <2>2. merger' \in [Merger -> Work]
    BY <1>1, <1>2 DEF TypeOK, Set
  <2>. QED
    BY <1>1, <2>1, <2>2 DEF TypeOK
<1>7. WorkIsKept'
  BY <1>1, <1>5 DEF WorkIsKept
<1>. QED
  BY <1>1, <1>2, <1>4, <1>5, <1>6, <1>7, Moves
-----------------------------------------------------------------------------
(* THE WORLD                                                                *)

LEMMA EndOrResumeKeepsInv ==
  ASSUME Inv, NEW s \in Session, End(s) \/ Resume(s)
  PROVE  Inv'
<1>1. /\ TypeOK /\ dir \subseteq refs /\ WorkIsKept
      /\ UNCHANGED <<attached, dir, refs, work, root, merger, made, waived>> /\ quiet' = {}
      /\ active' \subseteq active \cup {s}
  BY DEF Inv, End, Resume
<1>2. TypeOK' /\ (dir \subseteq refs)' /\ WorkIsKept'
  BY <1>1 DEF TypeOK, WorkIsKept, work
<1>. QED
  BY <1>1, <1>2, Happens DEF work

LEMMA EditKeepsInv ==
  ASSUME Inv, NEW s \in Session, NEW c \in Change, Edit(s, c)
  PROVE  Inv'
<1>1. /\ TypeOK /\ dir \subseteq refs /\ WorkIsKept
      /\ edits' = [edits EXCEPT ![s] = @ \cup {c}] /\ made' = made \cup {c}
      /\ waived' = IF InMerge(s) THEN waived \cup {c} ELSE waived
      /\ quiet' = {}
      /\ UNCHANGED <<active, attached, dir, refs, branch, base, root, merger>>
  BY DEF Inv, Edit
<1>2. edits'[s] = edits[s] \cup {c} /\ \A t \in Session : t # s => edits'[t] = edits[t]
  BY <1>1 DEF TypeOK
<1>3. TypeOK' /\ (dir \subseteq refs)'
  BY <1>1 DEF TypeOK
<1>4. WorkIsKept'
  BY <1>1, <1>2 DEF WorkIsKept
<1>5. \A t \in Session : InMerge(t) => edits'[t] \subseteq edits[t] \cup waived'
  BY <1>1, <1>2
<1>. QED
  BY <1>1, <1>3, <1>4, <1>5, Happens

LEMMA CommitKeepsInv == ASSUME Inv, NEW s \in Session, Commit(s) PROVE Inv'
<1>1. /\ TypeOK /\ dir \subseteq refs /\ WorkIsKept
      /\ branch' = [branch EXCEPT ![s] = @ \cup edits[s]]
      /\ edits' = [edits EXCEPT ![s] = {}] /\ quiet' = {}
      /\ UNCHANGED <<active, attached, dir, refs, base, root, merger, made, waived>>
  BY DEF Inv, Commit
<1>2. \A t \in Session : /\ edits'[t] \subseteq edits[t]
                        /\ branch'[t] \subseteq branch[t] \cup edits[t]
                        /\ edits[t] \cup branch[t] \subseteq edits'[t] \cup branch'[t]
  BY <1>1 DEF TypeOK
<1>3. TypeOK' /\ (dir \subseteq refs)'
  BY <1>1 DEF TypeOK
<1>4. WorkIsKept'
  BY <1>1, <1>2 DEF WorkIsKept
<1>. QED
  BY <1>1, <1>2, <1>3, <1>4, Happens

LEMMA LandOrResolveKeepsInv ==
  ASSUME Inv, Resolve \/ \E c \in Change : Land(c)
  PROVE  Inv'
<1>1. /\ TypeOK /\ dir \subseteq refs /\ WorkIsKept
      /\ UNCHANGED <<active, attached, dir, refs, edits, branch, merger, waived>>
      /\ quiet' = {} /\ base \subseteq base'
  BY DEF Inv, Land, Resolve, work
<1>2. TypeOK'
  <2>1. CASE Resolve
    BY <1>1, <2>1 DEF Resolve, TypeOK, work
  <2>2. ASSUME NEW c \in Change, Land(c) PROVE TypeOK'
    BY <1>1, <2>2 DEF Land, TypeOK
  <2>. QED
    BY <2>1, <2>2
<1>3. (dir \subseteq refs)' /\ WorkIsKept'
  BY <1>1 DEF Land, Resolve, WorkIsKept, work
<1>. QED
  BY <1>1, <1>2, <1>3, Happens

LEMMA DiscardKeepsInv == ASSUME Inv, NEW s \in Session, Discard(s) PROVE Inv'
<1>1. /\ TypeOK /\ dir \subseteq refs /\ WorkIsKept
      /\ attached' = attached \ {s} /\ dir' = dir \ {s} /\ refs' = refs \ {s}
      /\ waived' = waived \cup edits[s] \cup branch[s]
      /\ edits' = [edits EXCEPT ![s] = {}] /\ branch' = [branch EXCEPT ![s] = {}]
      /\ quiet' = {} /\ UNCHANGED <<active, base, root, merger, made>>
  BY DEF Inv, Discard
<1>2. /\ edits'[s] = {} /\ branch'[s] = {}
      /\ \A t \in Session : t # s => edits'[t] = edits[t] /\ branch'[t] = branch[t]
  BY <1>1 DEF TypeOK
<1>3. TypeOK' /\ (dir \subseteq refs)'
  BY <1>1 DEF TypeOK
<1>4. WorkIsKept'
  BY <1>1, <1>2 DEF WorkIsKept
<1>. QED
  BY <1>1, <1>2, <1>3, <1>4, Happens

LEMMA WorldKeepsInv == ASSUME Inv, World PROVE Inv'
  BY EndOrResumeKeepsInv, EditKeepsInv, CommitKeepsInv, LandOrResolveKeepsInv,
     DiscardKeepsInv DEF World
-----------------------------------------------------------------------------
(* THEOREMS                                                                 *)

LEMMA InitHasInv == Init => Inv
<1>. SUFFICES ASSUME Init PROVE Inv
  OBVIOUS
<1>1. merger \in [Merger -> Work] /\ \A m \in Merger : merger[m] = Idle
  BY IdleTyped DEF Init
<1>2. TypeOK
  BY <1>1 DEF Init, TypeOK
<1>3. dir \subseteq refs /\ WorkIsKept
  BY DEF Init, WorkIsKept
<1>4. ASSUME NEW m \in Merger PROVE Knows(m)
  BY <1>1, <1>4 DEF Init, Knows, AtHand, Covered, At, Cutting, Idle
<1>. QED
  BY <1>2, <1>3, <1>4 DEF Inv

LEMMA MergerKeepsInv ==
  ASSUME Inv, NEW m \in Merger, Continues(m) \/ Crash(m) \/ StartPass(m)
  PROVE  Inv'
  BY JudgeNoneKeepsInv, MergeKeepsInv, RemoveKeepsInv, DeleteBranchKeepsInv, ClearKeepsInv,
     EndMergingKeepsInv, RebaseKeepsInv, FailRebaseKeepsInv, EndPassKeepsInv, JudgeKeepsInv,
     InspectKeepsInv, TryRebaseKeepsInv, CrashKeepsInv, StartPassKeepsInv DEF Continues

LEMMA NextKeepsInv == Inv /\ [Next]_vars => Inv'
<1>. SUFFICES ASSUME Inv, [Next]_vars PROVE Inv'
  OBVIOUS
<1>1. CASE UNCHANGED vars
  <2>1. TypeOK' /\ (dir \subseteq refs)' /\ WorkIsKept'
    BY <1>1 DEF Inv, vars, work, TypeOK, WorkIsKept
  <2>2. ASSUME NEW m \in Merger PROVE Knows(m)'
    BY <1>1, StillKnows DEF vars, work
  <2>. QED
    BY <2>1, <2>2 DEF Inv
<1>2. ASSUME NEW m \in Merger, Continues(m) \/ Crash(m) \/ StartPass(m) PROVE Inv'
  BY <1>2, MergerKeepsInv
<1>3. ASSUME NEW m \in Merger, NEW s \in Session, StartOne(m, s) PROVE Inv'
  BY <1>3, StartOneKeepsInv
<1>4. CASE World
  BY <1>4, WorldKeepsInv
<1>. QED
  BY <1>1, <1>2, <1>3, <1>4 DEF Next

(* The inductive invariant holds always.                                    *)
THEOREM SpecHasInv == Spec => []Inv
  BY InitHasInv, NextKeepsInv, PTL DEF Spec

(* Everything has its type, always.                                         *)
THEOREM TypesHold == Spec => []TypeOK
<1>1. Inv => TypeOK
  BY DEF Inv
<1>. QED
  BY <1>1, SpecHasInv, PTL

(* Merging, rebasing, removing and being killed lose no work: whatever was  *)
(* made is on the base, on a branch or in a worktree, unless it was made    *)
(* after a merge had looked, or was thrown away (worktree::remove).         *)
THEOREM NothingIsLost == Spec => []WorkIsKept
<1>1. Inv => WorkIsKept
  BY DEF Inv
<1>. QED
  BY <1>1, SpecHasInv, PTL

(* Each entry of a queue can still be merged when its turn comes, as long   *)
(* as nobody but the pass itself does anything (build_merge_queue).         *)
THEOREM QueuesAreSound == Spec => []QueueIsSound
<1>1. Inv => QueueIsSound
  <2>. SUFFICES ASSUME Inv, NEW m \in quiet, At(m, "judging") \/ At(m, "merging")
                PROVE  \A s \in merger[m].ready : Mergeable(s)
    BY DEF QueueIsSound
  <2>1. m \in Merger
    BY DEF Inv, TypeOK
  <2>. QED
    BY <2>1 DEF Inv, Knows, EntriesFit, At
<1>. QED
  BY <1>1, SpecHasInv, PTL

(* And every session that could be merged is an entry or conflicts with one *)
(* that is (build_merge_queue).                                             *)
THEOREM QueuesAreComplete == Spec => []QueueIsComplete
<1>1. Inv => QueueIsComplete
  <2>. SUFFICES ASSUME Inv, NEW m \in quiet, At(m, "merging") \/ At(m, "inspected"),
                       ~merger[m].merged, root = "clean", NEW s \in Session, Mergeable(s)
                PROVE  \/ s \in merger[m].ready \cup {merger[m].cur}
                       \/ \E b \in (merger[m].ready \cup {merger[m].cur}) \cap Session :
                            Conflict(branch[s], branch[b])
    BY DEF QueueIsComplete
  <2>1. m \in Merger
    BY DEF Inv, TypeOK
  <2>. QED
    BY <2>1 DEF Inv, Knows, AllListed, Listed, At
<1>. QED
  BY <1>1, SpecHasInv, PTL
=============================================================================
