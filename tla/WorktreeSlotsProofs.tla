------------------------- MODULE WorktreeSlotsProofs -------------------------
(* Proofs about the worktree slots, for any sessions, runners and limit, and *)
(* any finite number of processes, crashes included: the limit is exceeded   *)
(* by a bounded number only, no pending session is forgotten, and two        *)
(* activators never run one session twice.                                   *)
EXTENDS WorktreeSlots, FiniteSetTheorems, SequenceTheorems, TLAPS

-----------------------------------------------------------------------------
(* THE INDUCTIVE INVARIANT                                                  *)

Creating   == {"makeNew", "insert", "enqueue", "spawnNew", "failNew", "removeNew"}
Activating == {"list", "look", "drop", "make", "attach", "launch", "done", "failDrop",
               "failState"}
Employed   == {"starting", "launched", "recorded", "live"}

(* The operation that a step belongs to, the session that it needs, and the *)
(* slots that it may still count on.                                        *)
Works(w) ==
  /\ w.at \notin {"idle", "list"} => w.cur \in Session
  /\ w.at \in Creating <=> w.op = "create"
  /\ w.at \in Activating <=> w.op = "activate"
  /\ w.at \in Activating => w.slots >= 1
  /\ w.at = "makeNew" \/ (w.at = "insert" /\ w.worktree) => MaxWorktrees >= 1

Typed ==
  /\ TypeOK
  /\ IsFiniteSet(Attached)
  /\ \A p \in Process : Works(proc[p])
  /\ \A s \in Session : rows[s].state = "absent" => ~rows[s].worktree
  /\ \A r \in Runner : runner[r].pc \in Employed => runner[r].job \in Session

(* Who carries a pending session on, other than the queue.                  *)
Carrying == {"spawnNew", "failNew", "launch", "attach", "failDrop", "failState", "respawn"}
Coming   == {"starting", "launched", "recorded"}

Carried(s) ==
  \/ \E p \in Process : Cur(p) = s /\ proc[p].at \in Carrying
  \/ \E r \in Runner : runner[r].job = s /\ runner[r].pc \in Coming
  \/ s \in lost

Enqueuing(s) == \E p \in Process : Cur(p) = s /\ At(p, "enqueue")

(* A pending session that has got a worktree or a pid is carried, and so is *)
(* one whose request is about to be dropped.                                *)
Remembered(s) ==
  rows[s].state = "pending" =>
    /\ Queued(s) \/ Enqueuing(s) \/ Carried(s)
    /\ rows[s].worktree \/ rows[s].pid => Carried(s)
    /\ \A p \in Process : Cur(p) = s /\ proc[p].at \in {"drop", "done"} => Carried(s)

AllRemembered == \A s \in Session : Remembered(s)

(* Nobody but its creator knows a session whose row is not inserted yet.    *)
Unborn(w) == w.at \in {"makeNew", "insert"}
Born(s)   == rows[s].state # "absent"

KnowsBorn(w) ==
  /\ ~Unborn(w) /\ w.cur \in Session => Born(w.cur)
  /\ \A i \in DOMAIN w.list : Born(w.list[i])

Known ==
  /\ \A p \in Process : KnowsBorn(proc[p])
  /\ \A p \in Process : Unborn(proc[p]) => ~Born(Cur(p))
  /\ \A i \in DOMAIN queue : Born(queue[i])
  /\ \A r \in Runner : runner[r].pc \in Employed => Born(runner[r].job)
  /\ \A p, q \in Process :
       proc[p].op = "create" /\ proc[q].op = "create" /\ Cur(p) = Cur(q) => p = q

(* Who has or will have a runner for session s, and its runners.            *)
Bids(p, s) ==
  /\ Cur(p) = s
  /\ \/ proc[p].at \in {"spawnNew", "attach", "launch"}
     \/ At(p, "insert") /\ proc[p].worktree

Serves(r, s) == runner[r].job = s /\ runner[r].pc \in Employed
Runs(r, s)   == runner[r].job = s /\ runner[r].pc \in {"launched", "recorded", "live"}

(* As long as a session has not run, whoever has made its worktree is alone *)
(* with it.                                                                 *)
Fresh(s) == rows[s].state \in {"absent", "pending"}

Exclusive(s) ==
  /\ \A p \in Process : Bids(p, s) => s \in disk
  /\ \A r \in Runner : Serves(r, s) => s \in disk
  /\ \A p, q \in Process : Bids(p, s) /\ Bids(q, s) => p = q
  /\ \A p \in Process, r \in Runner : ~(Bids(p, s) /\ Serves(r, s))
  /\ \A q, r \in Runner : Serves(q, s) /\ Serves(r, s) => q = r

Single(s) == \A q, r \in Runner : Runs(q, s) /\ Runs(r, s) => q = r

Guarded(s) == s \notin reset => Single(s) /\ (Fresh(s) => Exclusive(s))

(* Only worktrees of sessions that have run are removed without a reset.    *)
Removes(p) ==
  /\ proc[p].at \in {"removeNew", "removeGone", "deleteRow"} =>
       Cur(p) \in reset \/ ~Fresh(Cur(p))
  /\ At(p, "respawn") => Cur(p) \in reset

OneRunner ==
  /\ \A s \in Session : Guarded(s)
  /\ \A p \in Process : Removes(p)

-----------------------------------------------------------------------------
(* LEMMAS ABOUT THE OPERATORS                                               *)

(* Dropping the request of s drops no other one and adds none.              *)
LEMMA DequeuedDropsOne ==
  ASSUME queue \in Seq(Session), NEW s
  PROVE  /\ Dequeued(s) \in Seq(Session)
         /\ \A i \in DOMAIN Dequeued(s) : \E j \in DOMAIN queue : Dequeued(s)[i] = queue[j]
         /\ \A i \in DOMAIN queue : queue[i] # s =>
              \E j \in DOMAIN Dequeued(s) : Dequeued(s)[j] = queue[i]
<1>1. CASE ~Queued(s)
  BY <1>1 DEF Dequeued
<1>2. CASE Queued(s)
  <2> DEFINE k == CHOOSE i \in DOMAIN queue : queue[i] = s
             before == SubSeq(queue, 1, k - 1)
             after  == SubSeq(queue, k + 1, Len(queue))
  <2>1. k \in 1 .. Len(queue) /\ queue[k] = s
    BY <1>2 DEF Queued
  <2>2. Dequeued(s) = before \o after
    BY <1>2 DEF Dequeued, RemoveAt
  <2>. HIDE DEF k
  <2>3. /\ before \in Seq(Session) /\ Len(before) = k - 1
        /\ \A i \in 1 .. k - 1 : before[i] = queue[i]
    BY <2>1
  <2>4. /\ after \in Seq(Session) /\ Len(after) = Len(queue) - k
        /\ \A i \in 1 .. Len(queue) - k : after[i] = queue[k + i]
    BY <2>1
  <2>. HIDE DEF before, after
  <2> DEFINE d == before \o after
  <2>5. /\ d \in Seq(Session) /\ Len(d) = Len(queue) - 1
        /\ \A i \in 1 .. k - 1 : d[i] = queue[i]
        /\ \A i \in k .. Len(queue) - 1 : d[i] = queue[i + 1]
    <3>1. /\ d \in Seq(Session) /\ Len(d) = Len(before) + Len(after)
          /\ \A i \in 1 .. Len(before) + Len(after) :
               d[i] = IF i <= Len(before) THEN before[i] ELSE after[i - Len(before)]
      BY <2>3, <2>4, ConcatProperties
    <3>. HIDE DEF d
    <3>2. Len(before) = k - 1 /\ Len(after) = Len(queue) - k /\ k \in 1 .. Len(queue)
      BY <2>1, <2>3, <2>4
    <3>3. ASSUME NEW i \in 1 .. k - 1 PROVE d[i] = queue[i]
      BY <2>3, <3>1, <3>2
    <3>4. ASSUME NEW i \in k .. Len(queue) - 1 PROVE d[i] = queue[i + 1]
      <4>1. d[i] = after[i - (k - 1)] /\ i - (k - 1) \in 1 .. Len(queue) - k
        BY <3>1, <3>2
      <4>2. after[i - (k - 1)] = queue[k + (i - (k - 1))]
        BY <2>4, <4>1
      <4>3. k + (i - (k - 1)) = i + 1
        BY <3>2
      <4>. QED
        BY <4>1, <4>2, <4>3
    <3>. QED
      BY <3>1, <3>2, <3>3, <3>4
  <2>. HIDE DEF d
  <2>6. ASSUME NEW i \in DOMAIN d PROVE \E j \in DOMAIN queue : d[i] = queue[j]
    <3>1. i \in 1 .. Len(queue) - 1
      BY <2>5
    <3>2. IF i <= k - 1 THEN d[i] = queue[i] ELSE d[i] = queue[i + 1]
      BY <2>1, <2>5, <3>1
    <3>. QED
      BY <2>1, <3>1, <3>2
  <2>7. ASSUME NEW i \in DOMAIN queue, queue[i] # s
        PROVE  \E j \in DOMAIN d : d[j] = queue[i]
    <3>1. i \in 1 .. Len(queue) /\ i # k
      BY <2>1, <2>7
    <3>2. CASE i < k
      BY <2>1, <2>5, <3>1, <3>2
    <3>3. CASE i > k
      <4>1. i - 1 \in k .. Len(queue) - 1 /\ i - 1 \in DOMAIN d
        BY <2>1, <2>5, <3>1, <3>3
      <4>2. d[i - 1] = queue[i]
        BY <2>1, <2>5, <3>1, <4>1
      <4>. QED
        BY <4>1, <4>2
    <3>. QED
      BY <2>1, <3>1, <3>2, <3>3
  <2>8. Dequeued(s) = d
    BY <2>2 DEF d
  <2>. QED
    BY <2>5, <2>6, <2>7, <2>8
<1>. QED
  BY <1>1, <1>2

(* The order in which a finite set is taken is a sequence of its elements.  *)
LEMMA OrdersAreSequences ==
  ASSUME NEW S, IsFiniteSet(S), NEW order \in SetToSeqs(S)
  PROVE  order \in Seq(S)
<1>1. Cardinality(S) \in Nat
  BY FS_CardinalityType
<1>2. order \in [1 .. Cardinality(S) -> S]
  BY DEF SetToSeqs
<1>. QED
  BY <1>1, <1>2

(* A sequence that is not empty has a first element and a rest.             *)
LEMMA HeadAndTail ==
  ASSUME NEW S, NEW list \in Seq(S), list # <<>>
  PROVE  /\ Head(list) \in S /\ Tail(list) \in Seq(S)
         /\ Head(list) = list[1] /\ 1 \in DOMAIN list
         /\ \A i \in DOMAIN Tail(list) : i + 1 \in DOMAIN list /\ Tail(list)[i] = list[i + 1]
  OBVIOUS

(* So has a part of it.                                                     *)
LEMMA PartOfSequence ==
  ASSUME NEW S, NEW list \in Seq(S), NEW n \in Nat, n <= Len(list)
  PROVE  /\ SubSeq(list, 2, n) \in Seq(S)
         /\ \A i \in DOMAIN SubSeq(list, 2, n) :
              i + 1 \in DOMAIN list /\ SubSeq(list, 2, n)[i] = list[i + 1]
<1>1. \A i \in 2 .. n : list[i] \in S
  OBVIOUS
<1>2. /\ SubSeq(list, 2, n) \in Seq(S)
      /\ Len(SubSeq(list, 2, n)) = IF 2 <= n THEN n - 2 + 1 ELSE 0
      /\ \A i \in 1 .. n - 2 + 1 : SubSeq(list, 2, n)[i] = list[2 + i - 1]
  BY <1>1, SubSeqProperties
<1>3. ASSUME NEW i \in DOMAIN SubSeq(list, 2, n)
      PROVE  i + 1 \in DOMAIN list /\ SubSeq(list, 2, n)[i] = list[i + 1]
  <2>1. i \in 1 .. n - 1
    BY <1>2, <1>3
  <2>. QED
    BY <1>2, <2>1
<1>. QED
  BY <1>2, <1>3

(* The free slots, counted from finitely many worktrees.                    *)
LEMMA FreeSlotsType ==
  ASSUME IsFiniteSet(Attached)
  PROVE  /\ FreeSlots \in 0 .. MaxWorktrees
         /\ FreeSlots > 0 => FreeSlots + Cardinality(Attached) = MaxWorktrees
<1>1. Cardinality(Attached) \in Nat
  BY FS_CardinalityType
<1>. QED
  BY <1>1, MaxWorktreesAssumption DEF FreeSlots
-----------------------------------------------------------------------------
(* WHAT A STEP OF A PROCESS DOES TO THE PROCESSES                           *)

(* Only p moves, to a step that belongs to its operation.                   *)
Moves(p) ==
  /\ proc' \in [Process -> Proc]
  /\ Works(proc'[p])
  /\ \A q \in Process \ {p} : proc'[q] = proc[q]

LEMMA GoMoves ==
  ASSUME Typed, NEW p \in Process, NEW step \in ProcStep, Go(p, step),
         Works([proc[p] EXCEPT !.at = step])
  PROVE  /\ Moves(p)
         /\ proc'[p].at = step /\ proc'[p].cur = proc[p].cur /\ proc'[p].op = proc[p].op
         /\ proc'[p].list = proc[p].list /\ proc'[p].slots = proc[p].slots
         /\ proc'[p].worktree = proc[p].worktree
  BY DEF Typed, TypeOK, Go, Moves, Proc

LEMMA FinishMoves ==
  ASSUME Typed, NEW p \in Process, Finish(p)
  PROVE  Moves(p) /\ proc'[p] = Idle
<1>1. Idle \in Proc /\ Works(Idle)
  BY MaxWorktreesAssumption DEF Idle, Proc, ProcStep, Works, Creating, Activating
<1>. QED
  BY <1>1 DEF Typed, TypeOK, Finish, Moves

LEMMA NextOfPassMoves ==
  ASSUME Typed, NEW p \in Process, NEW step \in {"look", "resolve"}, NextOfPass(p, step),
         step = "look" => proc[p].at \in Activating,
         step = "resolve" => proc[p].at \notin Activating \cup Creating
  PROVE  /\ Moves(p)
         /\ \/ proc'[p] = Idle
            \/ /\ proc'[p].at = step /\ proc'[p].cur = Head(proc[p].list)
               /\ proc[p].list # <<>> /\ proc'[p].list = Tail(proc[p].list)
               /\ proc'[p].op = proc[p].op /\ proc'[p].slots = proc[p].slots
<1>1. CASE proc[p].list = <<>>
  BY <1>1, FinishMoves DEF NextOfPass
<1>2. CASE proc[p].list # <<>>
  <2>1. proc[p] \in Proc /\ Works(proc[p]) /\ proc[p].list \in Seq(Session)
    BY DEF Typed, TypeOK, Proc
  <2>2. Head(proc[p].list) \in Session /\ Tail(proc[p].list) \in Seq(Session)
    BY <1>2, <2>1, HeadAndTail
  <2> DEFINE w == [proc[p] EXCEPT !.at = step, !.cur = Head(proc[p].list),
                                  !.list = Tail(proc[p].list)]
  <2>3. proc' = [proc EXCEPT ![p] = w]
    BY <1>2 DEF NextOfPass
  <2>4. w \in Proc /\ w.at = step /\ w.cur = Head(proc[p].list)
        /\ w.list = Tail(proc[p].list) /\ w.op = proc[p].op /\ w.slots = proc[p].slots
    BY <2>1, <2>2 DEF Proc, ProcStep
  <2>5. Works(w)
    BY <2>1, <2>2, <2>4 DEF Works, Activating, Creating
  <2>. QED
    BY <1>2, <2>3, <2>4, <2>5 DEF Moves, Typed, TypeOK
<1>. QED
  BY <1>1, <1>2

LEMMA BeginMoves ==
  ASSUME Typed, NEW p \in Process, NEW name \in Operation, NEW step \in ProcStep,
         NEW s \in Session, Begin(p, name, step, s),
         step \in Creating <=> name = "create", step \notin Activating,
         name # "activate",
         step = "makeNew" => MaxWorktrees >= 1, step = "insert" => ~rows[s].worktree
  PROVE  /\ Moves(p) /\ At(p, "idle")
         /\ proc'[p].at = step /\ proc'[p].cur = s /\ proc'[p].list = <<>>
         /\ proc'[p].op = name /\ proc'[p].worktree = rows[s].worktree
<1>1. rows[s].worktree \in BOOLEAN
  BY DEF Typed, TypeOK, SlotRow
<1>2. ASSUME NEW i \in Proc
      PROVE  LET w == [i EXCEPT !.op = name, !.at = step, !.cur = s,
                                !.worktree = rows[s].worktree]
             IN  /\ w \in Proc
                 /\ w.op = name /\ w.at = step /\ w.cur = s /\ w.list = i.list
                 /\ w.worktree = rows[s].worktree
  BY <1>1 DEF Proc
<1>3. Idle \in Proc /\ Idle.list = <<>>
  BY MaxWorktreesAssumption DEF Idle, Proc, ProcStep
<1> DEFINE w == [Idle EXCEPT !.op = name, !.at = step, !.cur = s,
                             !.worktree = rows[s].worktree]
<1>4. /\ w \in Proc /\ w.op = name /\ w.at = step /\ w.cur = s /\ w.list = <<>>
      /\ w.worktree = rows[s].worktree
  BY <1>2, <1>3
<1>5. At(p, "idle") /\ proc' = [proc EXCEPT ![p] = w]
  BY DEF Begin
<1>. HIDE DEF w
<1>6. Works(w)
  BY <1>4 DEF Works
<1>. QED
  BY <1>4, <1>5, <1>6 DEF Moves, Typed, TypeOK

(* The two operations that begin with what they count.                      *)
LEMMA ActivateMoves ==
  ASSUME Typed, NEW p \in Process, StartActivate(p)
  PROVE  /\ Moves(p) /\ FreeSlots > 0
         /\ proc'[p].at = "list" /\ proc'[p].slots = FreeSlots /\ proc'[p].list = <<>>
<1>1. FreeSlots \in 0 .. MaxWorktrees
  BY FreeSlotsType DEF Typed
<1>2. ASSUME NEW i \in Proc
      PROVE  LET w == [i EXCEPT !.op = "activate", !.at = "list", !.slots = FreeSlots]
             IN  /\ w \in Proc /\ w.op = "activate" /\ w.at = "list"
                 /\ w.slots = FreeSlots /\ w.list = i.list
  BY <1>1 DEF Proc, Operation, ProcStep
<1>3. Idle \in Proc /\ Idle.list = <<>>
  BY MaxWorktreesAssumption DEF Idle, Proc, ProcStep
<1> DEFINE w == [Idle EXCEPT !.op = "activate", !.at = "list", !.slots = FreeSlots]
<1>4. w \in Proc /\ w.op = "activate" /\ w.at = "list" /\ w.slots = FreeSlots /\ w.list = <<>>
  BY <1>2, <1>3
<1>5. FreeSlots > 0 /\ proc' = [proc EXCEPT ![p] = w]
  BY DEF StartActivate
<1>. HIDE DEF w
<1>6. Works(w)
  BY <1>1, <1>4, <1>5, MaxWorktreesAssumption DEF Works, Creating, Activating
<1>. QED
  BY <1>4, <1>5, <1>6 DEF Moves, Typed, TypeOK

LEMMA PruneMoves ==
  ASSUME Typed, NEW p \in Process, StartPrune(p)
  PROVE  /\ Moves(p) /\ proc'[p].at = "resolve" /\ proc'[p].cur \in Attached
         /\ \A i \in DOMAIN proc'[p].list : proc'[p].list[i] \in Attached
<1> DEFINE S == {s \in Session : Inactive(s)}
<1>1. PICK order \in SetToSeqs(S) :
        /\ order # <<>>
        /\ proc' = [proc EXCEPT ![p] = [Idle EXCEPT !.op = "prune", !.at = "resolve",
                                        !.cur = Head(order), !.list = Tail(order)]]
  BY DEF StartPrune
<1>2. S \in SUBSET Attached /\ Attached \in SUBSET Session /\ IsFiniteSet(Attached)
  BY DEF Inactive, Attached, Typed
<1>3. order \in Seq(Attached)
  <2>1. order \in Seq(S)
    BY <1>2, FS_Subset, OrdersAreSequences
  <2>. QED
    BY <1>2, <2>1, SeqMonotonic
<1>. HIDE DEF S
<1>4. Head(order) \in Attached /\ Tail(order) \in Seq(Attached)
  BY <1>1, <1>3, HeadAndTail
<1>5. Head(order) \in Session /\ Tail(order) \in Seq(Session)
  BY <1>2, <1>4, SeqMonotonic
<1>6. ASSUME NEW i \in Proc
      PROVE  LET w == [i EXCEPT !.op = "prune", !.at = "resolve",
                                !.cur = Head(order), !.list = Tail(order)]
             IN  /\ w \in Proc /\ Works(w) /\ w.at = "resolve" /\ w.cur = Head(order)
                 /\ w.list = Tail(order)
  BY <1>5 DEF Proc, Works, Creating, Activating, Operation, ProcStep
<1>7. Idle \in Proc
  BY MaxWorktreesAssumption DEF Idle, Proc, ProcStep
<1> DEFINE w == [Idle EXCEPT !.op = "prune", !.at = "resolve",
                             !.cur = Head(order), !.list = Tail(order)]
<1>8. /\ w \in Proc /\ Works(w) /\ w.at = "resolve" /\ w.cur = Head(order)
      /\ w.list = Tail(order)
  BY <1>6, <1>7
<1>9. proc' = [proc EXCEPT ![p] = w]
  BY <1>1
<1>. HIDE DEF w
<1>10. Moves(p) /\ proc'[p] = w
  BY <1>8, <1>9 DEF Moves, Typed, TypeOK
<1>11. \A i \in DOMAIN Tail(order) : Tail(order)[i] \in Attached
  BY <1>4, ElementOfSeq, LenProperties
<1>. QED
  BY <1>4, <1>8, <1>10, <1>11

LEMMA StartsMove == ASSUME Typed, NEW p \in Process, Starts(p) PROVE Moves(p)
<1>1. FreeSlots \in 0 .. MaxWorktrees /\ IsFiniteSet(Attached)
  BY FreeSlotsType DEF Typed
<1>2. CASE StartCreate(p)
  <2>1. PICK s \in Session :
          /\ rows[s].state = "absent"
          /\ Begin(p, "create", IF FreeSlots > 0 THEN "makeNew" ELSE "insert", s)
    BY <1>2 DEF StartCreate
  <2>2. CASE FreeSlots > 0
    <3>1. Begin(p, "create", "makeNew", s) /\ MaxWorktrees >= 1
      BY <1>1, <2>1, <2>2, MaxWorktreesAssumption
    <3>. QED
      BY <3>1, BeginMoves DEF Operation, ProcStep, Creating, Activating
  <2>3. CASE ~(FreeSlots > 0)
    <3>1. Begin(p, "create", "insert", s) /\ ~rows[s].worktree
      BY <2>1, <2>3 DEF Typed
    <3>. QED
      BY <3>1, BeginMoves DEF Operation, ProcStep, Creating, Activating
  <2>. QED
    BY <2>2, <2>3
<1>3. CASE StartActivate(p)
  BY <1>3, ActivateMoves
<1>4. CASE StartStop(p)
  BY <1>4, BeginMoves DEF StartStop, Operation, ProcStep, Creating, Activating
<1>5. CASE StartCleanup(p)
  BY <1>5, BeginMoves DEF StartCleanup, Operation, ProcStep, Creating, Activating
<1>6. CASE StartPrune(p)
  BY <1>6, PruneMoves
<1>7. CASE StartResume(p)
  BY <1>7, BeginMoves DEF StartResume, Operation, ProcStep, Creating, Activating
<1>8. CASE StartDelete(p)
  <2>1. PICK s \in Session :
          Begin(p, "delete", IF rows[s].worktree THEN "removeGone" ELSE "deleteRow", s)
    BY <1>8 DEF StartDelete
  <2>2. Begin(p, "delete", "removeGone", s) \/ Begin(p, "delete", "deleteRow", s)
    BY <2>1
  <2>. QED
    BY <2>2, BeginMoves DEF Operation, ProcStep, Creating, Activating
<1>. QED
  BY <1>2, <1>3, <1>4, <1>5, <1>6, <1>7, <1>8 DEF Starts

(* Where the operations begin.                                              *)
LEMMA StartsAt ==
  ASSUME Typed, NEW p \in Process, Starts(p)
  PROVE  /\ proc'[p].at \in {"makeNew", "insert", "list", "stopPid", "resolve", "requeue",
                             "removeGone", "deleteRow"}
         /\ proc'[p].at \in {"makeNew", "insert"} => StartCreate(p)
         /\ proc'[p].at \in {"removeGone", "deleteRow"} => StartDelete(p)
<1>1. ASSUME NEW step \in ProcStep, NEW name, NEW t, Begin(p, name, step, t)
      PROVE  proc'[p].at = step
  <2>1. ASSUME NEW i \in Proc
        PROVE  [i EXCEPT !.op = name, !.at = step, !.cur = t,
                         !.worktree = rows[t].worktree].at = step
    BY DEF Proc
  <2>2. Idle \in Proc
    BY MaxWorktreesAssumption DEF Idle, Proc, ProcStep
  <2>. QED
    BY <1>1, <2>1, <2>2 DEF Begin, Typed, TypeOK
<1>2. CASE StartCreate(p)
  <2>1. \E t \in Session, step \in {"makeNew", "insert"} : Begin(p, "create", step, t)
    BY <1>2 DEF StartCreate
  <2>. QED
    BY <1>1, <1>2, <2>1 DEF ProcStep
<1>3. CASE StartActivate(p)
  BY <1>3, ActivateMoves
<1>4. CASE StartPrune(p)
  BY <1>4, PruneMoves
<1>5. CASE StartStop(p) \/ StartCleanup(p) \/ StartResume(p)
  <2>1. \E t \in Session, name \in {"stop", "cleanup", "resume"},
            step \in {"stopPid", "resolve", "requeue"} : Begin(p, name, step, t)
    BY <1>5 DEF StartStop, StartCleanup, StartResume
  <2>. QED
    BY <1>1, <2>1 DEF ProcStep
<1>6. CASE StartDelete(p)
  <2>1. \E t \in Session, step \in {"removeGone", "deleteRow"} : Begin(p, "delete", step, t)
    BY <1>6 DEF StartDelete
  <2>. QED
    BY <1>1, <1>6, <2>1 DEF ProcStep
<1>. QED
  BY <1>2, <1>3, <1>4, <1>5, <1>6 DEF Starts

LEMMA ContinuesMove == ASSUME Typed, NEW p \in Process, Continues(p) PROVE Moves(p)
<1>1. Works(proc[p]) /\ proc[p] \in Proc /\ rows \in [Session -> SlotRow]
  BY DEF Typed, TypeOK
<1>2. CASE MakeNew(p)
  <2>1. CASE Finish(p)
    BY <2>1, FinishMoves
  <2>2. CASE proc' = [proc EXCEPT ![p].at = "insert", ![p].worktree = TRUE]
    <3> DEFINE w == [proc[p] EXCEPT !.at = "insert", !.worktree = TRUE]
    <3>1. /\ w \in Proc /\ w.at = "insert" /\ w.cur = proc[p].cur /\ w.op = proc[p].op
          /\ proc' = [proc EXCEPT ![p] = w]
      BY <1>1, <2>2 DEF Proc, ProcStep
    <3>. HIDE DEF w
    <3>2. Works(w)
      BY <1>1, <1>2, <3>1 DEF MakeNew, At, Works, Creating, Activating
    <3>. QED
      BY <3>1, <3>2 DEF Moves, Typed, TypeOK
  <2>. QED
    BY <1>2, <2>1, <2>2 DEF MakeNew
<1>3. CASE Insert(p)
  <2>1. CASE proc[p].worktree
    BY <1>1, <1>3, <2>1, GoMoves DEF Insert, At, Works, Creating, Activating, ProcStep
  <2>2. CASE ~proc[p].worktree
    BY <1>1, <1>3, <2>2, GoMoves DEF Insert, At, Works, Creating, Activating, ProcStep
  <2>. QED
    BY <2>1, <2>2
<1>4. CASE Enqueue(p)
  BY <1>4, FinishMoves DEF Enqueue
<1>5. CASE SpawnNew(p)
  BY <1>5, FinishMoves DEF SpawnNew
<1>6. CASE RemoveNew(p)
  BY <1>6, FinishMoves DEF RemoveNew
<1>7. CASE Respawn(p)
  BY <1>7, FinishMoves DEF Respawn
<1>8. CASE DeleteRow(p)
  BY <1>8, FinishMoves DEF DeleteRow
<1>9. CASE SpawnNewFails(p)
  BY <1>1, <1>9, GoMoves
     DEF SpawnNewFails, At, Works, Creating, Activating, ProcStep
<1>10. CASE FailNew(p)
  BY <1>1, <1>10, GoMoves, FinishMoves
     DEF FailNew, At, Works, Creating, Activating, ProcStep
<1>11. CASE Look(p)
  BY <1>1, <1>11, GoMoves
     DEF Look, At, Works, Creating, Activating, ProcStep
<1>12. CASE Make(p)
  BY <1>1, <1>12, GoMoves
     DEF Make, At, Works, Creating, Activating, ProcStep
<1>13. CASE Attach(p)
  BY <1>1, <1>13, GoMoves
     DEF Attach, At, Works, Creating, Activating, ProcStep
<1>14. CASE Launch(p)
  BY <1>1, <1>14, GoMoves
     DEF Launch, At, Works, Creating, Activating, ProcStep
<1>15. CASE FailDrop(p)
  BY <1>1, <1>15, GoMoves
     DEF FailDrop, At, Works, Creating, Activating, ProcStep
<1>16. CASE StopPid(p)
  BY <1>1, <1>16, GoMoves, FinishMoves
     DEF StopPid, At, Works, Creating, Activating, ProcStep
<1>17. CASE RemoveTree(p)
  BY <1>1, <1>17, GoMoves
     DEF RemoveTree, At, Works, Creating, Activating, ProcStep
<1>18. CASE Requeue(p)
  BY <1>1, <1>18, GoMoves, FinishMoves
     DEF Requeue, At, Works, Creating, Activating, ProcStep
<1>19. CASE RemoveGone(p)
  BY <1>1, <1>19, GoMoves
     DEF RemoveGone, At, Works, Creating, Activating, ProcStep
<1>20. CASE ListQueue(p)
  <2>1. CASE queue = <<>>
    BY <1>20, <2>1, FinishMoves DEF ListQueue
  <2>2. CASE queue # <<>>
    <3> DEFINE n == IF Len(queue) < proc[p].slots THEN Len(queue) ELSE proc[p].slots
               w == [proc[p] EXCEPT !.at = "look", !.cur = Head(queue),
                                    !.list = SubSeq(queue, 2, n)]
    <3>1. queue \in Seq(Session) /\ proc[p].slots \in Nat
      BY <1>1, MaxWorktreesAssumption DEF Typed, TypeOK, Proc
    <3>2. n \in Nat /\ n <= Len(queue)
      BY <3>1
    <3>3. Head(queue) \in Session /\ SubSeq(queue, 2, n) \in Seq(Session)
      BY <2>2, <3>1, <3>2, HeadAndTail, PartOfSequence
    <3>4. proc' = [proc EXCEPT ![p] = w]
      BY <1>20, <2>2 DEF ListQueue
    <3>. HIDE DEF n
    <3>5. /\ w \in Proc /\ w.at = "look" /\ w.cur = Head(queue) /\ w.op = proc[p].op
          /\ w.slots = proc[p].slots
      BY <1>1, <3>3 DEF Proc, ProcStep
    <3>. HIDE DEF w
    <3>6. Works(w)
      BY <1>1, <1>20, <3>3, <3>5 DEF ListQueue, At, Works, Creating, Activating
    <3>. QED
      BY <3>4, <3>5, <3>6 DEF Moves, Typed, TypeOK
  <2>. QED
    BY <2>1, <2>2
<1>21. CASE Drop(p)
  BY <1>21, NextOfPassMoves DEF Drop, At, Activating
<1>22. CASE Done(p)
  <2>1. CASE proc[p].slots = 1 \/ proc[p].list = <<>>
    BY <1>22, <2>1, FinishMoves DEF Done
  <2>2. CASE proc[p].slots # 1 /\ proc[p].list # <<>>
    <3> DEFINE w == [proc[p] EXCEPT !.at = "look", !.cur = Head(proc[p].list),
                                    !.list = Tail(@), !.slots = @ - 1]
    <3>1. Head(proc[p].list) \in Session /\ Tail(proc[p].list) \in Seq(Session)
      BY <1>1, <2>2, HeadAndTail DEF Proc
    <3>2. proc[p].slots >= 1 /\ proc[p].slots \in 0 .. MaxWorktrees
      BY <1>1, <1>22 DEF Done, At, Works, Activating, Proc
    <3>3. proc[p].slots - 1 \in 0 .. MaxWorktrees /\ proc[p].slots - 1 >= 1
      BY <2>2, <3>2, MaxWorktreesAssumption
    <3>4. proc' = [proc EXCEPT ![p] = w]
      BY <1>22, <2>2 DEF Done
    <3>5. /\ w \in Proc /\ w.at = "look" /\ w.cur = Head(proc[p].list)
          /\ w.op = proc[p].op /\ w.slots = proc[p].slots - 1
      BY <1>1, <3>1, <3>3 DEF Proc, ProcStep
    <3>. HIDE DEF w
    <3>6. Works(w)
      BY <1>1, <1>22, <3>1, <3>3, <3>5 DEF Done, At, Works, Creating, Activating
    <3>. QED
      BY <3>4, <3>5, <3>6 DEF Moves, Typed, TypeOK
  <2>. QED
    BY <2>1, <2>2
<1>23. CASE FailState(p)
  BY <1>23, NextOfPassMoves, FinishMoves DEF FailState, At, Activating
<1>24. CASE Resolve(p)
  <2> DEFINE seen(step) ==
        proc' = [proc EXCEPT ![p].at = step, ![p].worktree = rows[Cur(p)].worktree]
  <2>1. Cur(p) \in Session /\ rows[Cur(p)].worktree \in BOOLEAN
    BY <1>1, <1>24 DEF Resolve, At, Cur, Works, SlotRow
  <2>2. ASSUME NEW step \in {"stopPid", "remove"}, seen(step) PROVE Moves(p)
    <3> DEFINE w == [proc[p] EXCEPT !.at = step, !.worktree = rows[Cur(p)].worktree]
    <3>1. /\ w \in Proc /\ w.at = step /\ w.cur = proc[p].cur /\ w.op = proc[p].op
          /\ proc' = [proc EXCEPT ![p] = w]
      BY <1>1, <2>1, <2>2 DEF Proc, ProcStep
    <3>. HIDE DEF w
    <3>2. Works(w)
      BY <1>1, <1>24, <2>1, <3>1 DEF Resolve, At, Works, Creating, Activating
    <3>. QED
      BY <3>1, <3>2 DEF Moves, Typed, TypeOK
  <2>3. \/ Finish(p)
        \/ \E step \in {"stopPid", "remove"} : seen(step)
        \/ NextOfPass(p, "resolve")
    BY <1>24 DEF Resolve
  <2>4. proc[p].at \notin Activating \cup Creating
    BY <1>24 DEF Resolve, At, Activating, Creating
  <2>. QED
    BY <2>2, <2>3, <2>4, FinishMoves, NextOfPassMoves
<1>25. CASE StopState(p)
  <2>1. \/ Finish(p)
        \/ \E step \in {"remove", "clear"} : Go(p, step)
    BY <1>25 DEF StopState
  <2>2. ASSUME NEW step \in {"remove", "clear"}, Go(p, step) PROVE Moves(p)
    BY <1>1, <1>25, <2>2, GoMoves DEF StopState, At, Works, Creating, Activating, ProcStep
  <2>. QED
    BY <2>1, <2>2, FinishMoves
<1>26. CASE Clear(p)
  BY <1>26, NextOfPassMoves, FinishMoves DEF Clear, At, Activating, Creating
<1>. QED
  BY <1>2, <1>3, <1>4, <1>5, <1>6, <1>7, <1>8, <1>9, <1>10, <1>11, <1>12, <1>13, <1>14, <1>15,
     <1>16, <1>17, <1>18, <1>19, <1>20, <1>21, <1>22, <1>23, <1>24, <1>25, <1>26 DEF Continues

LEMMA CrashMoves == ASSUME Typed, NEW p \in Process, Crash(p) PROVE Moves(p) /\ proc'[p] = Idle
  BY FinishMoves DEF Crash
-----------------------------------------------------------------------------
(* WHAT A STEP DOES TO THE ROWS                                             *)

(* Rows keep their type, are never absent again, and one session at most    *)
(* gets a worktree.                                                         *)
RowsEvolve ==
  /\ rows' \in [Session -> SlotRow]
  /\ \A s \in Session : Born(s) => Born(s)'
  /\ \A s \in Session : rows'[s].state = "absent" => ~rows'[s].worktree
  /\ \E s : Attached' \subseteq Attached \cup {s}

LEMMA SetRowEvolves ==
  ASSUME Typed, NEW s \in Session, NEW row \in SlotRow, SetRow(s, row), row.state # "absent"
  PROVE  /\ RowsEvolve
         /\ rows'[s] = row /\ \A t \in Session \ {s} : rows'[t] = rows[t]
         /\ Attached' \subseteq Attached \cup {s}
         /\ (row.worktree => rows[s].worktree) => Attached' \subseteq Attached
<1>1. rows \in [Session -> SlotRow] /\ rows' = [rows EXCEPT ![s] = row]
  BY DEF Typed, TypeOK, SetRow
<1>2. rows' \in [Session -> SlotRow] /\ rows'[s] = row
      /\ \A t \in Session \ {s} : rows'[t] = rows[t]
  BY <1>1
<1>3. Attached' \subseteq Attached \cup {s}
  BY <1>2 DEF Attached
<1>4. (row.worktree => rows[s].worktree) => Attached' \subseteq Attached
  BY <1>2 DEF Attached
<1>5. \A t \in Session : rows'[t].state = "absent" => ~rows'[t].worktree
  BY <1>2 DEF Typed
<1>6. \A t \in Session : Born(t) => Born(t)'
  BY <1>2 DEF Born
<1>. QED
  BY <1>2, <1>3, <1>4, <1>5, <1>6 DEF RowsEvolve

LEMMA UnchangedRowsEvolve == ASSUME Typed, UNCHANGED rows PROVE RowsEvolve /\ Attached' = Attached
  BY DEF RowsEvolve, Typed, TypeOK, Born, Attached

(* A change of the state or of the pid of a row.                            *)
LEMMA UpdateEvolves ==
  ASSUME Typed, NEW s \in Session, NEW row \in SlotRow, SetRow(s, row),
         row.state \in SessionState, row.worktree => rows[s].worktree
  PROVE  RowsEvolve /\ Attached' \subseteq Attached
         /\ rows'[s] = row /\ \A t \in Session \ {s} : rows'[t] = rows[t]
<1>1. row.state # "absent"
  BY DEF SessionState
<1>. QED
  BY <1>1, SetRowEvolves

(* Only the steps that attach a worktree add one.                           *)
LEMMA ContinuesEvolve ==
  ASSUME Typed, NEW p \in Process, Continues(p)
  PROVE  /\ RowsEvolve
         /\ \A t \in Session \ {Cur(p)} : rows'[t] = rows[t]
         /\ \/ Attached' \subseteq Attached
            \/ /\ At(p, "attach") \/ (At(p, "insert") /\ proc[p].worktree)
               /\ Attached' \subseteq Attached \cup {Cur(p)}
<1> DEFINE s == Cur(p)
           Goal == /\ RowsEvolve /\ \A t \in Session \ {s} : rows'[t] = rows[t]
                   /\ Attached' \subseteq Attached
<1>1. proc[p].at \notin {"idle", "list"} => s \in Session
  BY DEF Typed, Works, Cur
<1>2. proc[p].worktree \in BOOLEAN
  BY DEF Typed, TypeOK, Proc
<1>3. SessionState = {"pending", "running", "idle", "stale", "completed", "failed", "stopped"}
  BY DEF SessionState
<1>4. CASE UNCHANGED rows
  BY <1>4, UnchangedRowsEvolve
<1>5. CASE Insert(p)
  <2> DEFINE row == [state |-> "pending", pid |-> FALSE, worktree |-> proc[p].worktree]
  <2>1. s \in Session /\ row \in SlotRow /\ SetRow(s, row) /\ row.state # "absent"
        /\ row.worktree = proc[p].worktree
    BY <1>1, <1>2, <1>5 DEF Insert, At, SlotRow, SessionState
  <2>. HIDE DEF row
  <2>. QED
    BY <1>5, <2>1, SetRowEvolves DEF Insert
<1>6. CASE FailNew(p) /\ ~UNCHANGED rows
  <2> DEFINE row == [rows[s] EXCEPT !.state = "failed"]
  <2>1. s \in Session /\ Exists(s) /\ SetRow(s, row)
    BY <1>1, <1>6 DEF FailNew, At
  <2>2. rows[s] \in SlotRow /\ rows[s].state \in SessionState
    BY <2>1 DEF Typed, TypeOK, Exists, Present
  <2>3. row \in SlotRow /\ row.state \in SessionState /\ (row.worktree => rows[s].worktree)
    BY <1>3, <2>2 DEF SlotRow
  <2>. HIDE DEF row
  <2>. QED
    BY <2>1, <2>3, UpdateEvolves
<1>7. CASE Attach(p) /\ ~UNCHANGED rows
  <2> DEFINE row == [rows[s] EXCEPT !.worktree = TRUE]
  <2>1. s \in Session /\ Exists(s) /\ SetRow(s, row)
    BY <1>1, <1>7 DEF Attach, At
  <2>2. rows[s] \in SlotRow /\ rows[s].state \in SessionState
    BY <2>1 DEF Typed, TypeOK, Exists, Present
  <2>3. row \in SlotRow /\ row.state # "absent"
    BY <1>3, <2>2 DEF SlotRow
  <2>. HIDE DEF row
  <2>. QED
    BY <1>7, <2>1, <2>3, SetRowEvolves DEF Attach
<1>8. CASE FailState(p) /\ ~UNCHANGED rows
  <2> DEFINE row == [rows[s] EXCEPT !.state = "failed"]
  <2>1. s \in Session /\ Exists(s) /\ SetRow(s, row)
    BY <1>1, <1>8 DEF FailState, At
  <2>2. rows[s] \in SlotRow /\ rows[s].state \in SessionState
    BY <2>1 DEF Typed, TypeOK, Exists, Present
  <2>3. row \in SlotRow /\ row.state \in SessionState /\ (row.worktree => rows[s].worktree)
    BY <1>3, <2>2 DEF SlotRow
  <2>. HIDE DEF row
  <2>. QED
    BY <2>1, <2>3, UpdateEvolves
<1>9. CASE StopPid(p) /\ ~UNCHANGED rows
  <2> DEFINE row == [rows[s] EXCEPT !.pid = FALSE]
  <2>1. s \in Session /\ Exists(s) /\ SetRow(s, row)
    BY <1>1, <1>9 DEF StopPid, At
  <2>2. rows[s] \in SlotRow /\ rows[s].state \in SessionState
    BY <2>1 DEF Typed, TypeOK, Exists, Present
  <2>3. row \in SlotRow /\ row.state \in SessionState /\ (row.worktree => rows[s].worktree)
    BY <1>3, <2>2 DEF SlotRow
  <2>. HIDE DEF row
  <2>. QED
    BY <2>1, <2>3, UpdateEvolves
<1>10. CASE StopState(p) /\ ~UNCHANGED rows
  <2> DEFINE row == [rows[s] EXCEPT !.state = "stopped"]
  <2>1. s \in Session /\ Exists(s) /\ SetRow(s, row)
    BY <1>1, <1>10 DEF StopState, At
  <2>2. rows[s] \in SlotRow /\ rows[s].state \in SessionState
    BY <2>1 DEF Typed, TypeOK, Exists, Present
  <2>3. row \in SlotRow /\ row.state \in SessionState /\ (row.worktree => rows[s].worktree)
    BY <1>3, <2>2 DEF SlotRow
  <2>. HIDE DEF row
  <2>. QED
    BY <2>1, <2>3, UpdateEvolves
<1>11. CASE Clear(p) /\ ~UNCHANGED rows
  <2> DEFINE row == [rows[s] EXCEPT !.worktree = FALSE]
  <2>1. s \in Session /\ Exists(s) /\ SetRow(s, row)
    BY <1>1, <1>11 DEF Clear, At
  <2>2. rows[s] \in SlotRow /\ rows[s].state \in SessionState
    BY <2>1 DEF Typed, TypeOK, Exists, Present
  <2>3. row \in SlotRow /\ row.state \in SessionState /\ (row.worktree => rows[s].worktree)
    BY <1>3, <2>2 DEF SlotRow
  <2>. HIDE DEF row
  <2>. QED
    BY <2>1, <2>3, UpdateEvolves
<1>12. CASE Requeue(p) /\ ~UNCHANGED rows
  <2> DEFINE row == [rows[s] EXCEPT !.state = "pending", !.pid = FALSE]
  <2>1. s \in Session /\ Exists(s) /\ SetRow(s, row)
    BY <1>1, <1>12 DEF Requeue, At
  <2>2. rows[s] \in SlotRow /\ rows[s].state \in SessionState
    BY <2>1 DEF Typed, TypeOK, Exists, Present
  <2>3. row \in SlotRow /\ row.state \in SessionState /\ (row.worktree => rows[s].worktree)
    BY <1>3, <2>2 DEF SlotRow
  <2>. HIDE DEF row
  <2>. QED
    BY <2>1, <2>3, UpdateEvolves
<1>13. CASE DeleteRow(p) /\ ~UNCHANGED rows
  <2> DEFINE row == [rows[s] EXCEPT !.state = "deleted", !.pid = FALSE, !.worktree = FALSE]
  <2>1. s \in Session /\ SetRow(s, row)
    BY <1>1, <1>13 DEF DeleteRow, At
  <2>2. rows[s] \in SlotRow
    BY <2>1 DEF Typed, TypeOK
  <2>3. row \in SlotRow /\ row.state = "deleted" /\ ~row.worktree
    BY <2>2 DEF SlotRow
  <2>. HIDE DEF row
  <2>. QED
    BY <2>1, <2>3, SetRowEvolves
<1>14. \/ UNCHANGED rows \/ Insert(p) \/ FailNew(p) \/ Attach(p) \/ FailState(p) \/ StopPid(p)
       \/ StopState(p) \/ Clear(p) \/ Requeue(p) \/ DeleteRow(p)
  BY DEF Continues, MakeNew, Enqueue, SpawnNew, SpawnNewFails, RemoveNew, ListQueue, Look,
         Drop, Make, Launch, Done, FailDrop, Resolve, RemoveTree, Respawn, RemoveGone
<1>. QED
  BY <1>4, <1>5, <1>6, <1>7, <1>8, <1>9, <1>10, <1>11, <1>12, <1>13, <1>14

(* The steps of the world other than those of processes attach nothing, and *)
(* change the row of at most one session.                                   *)
LEMMA SettleRowEvolves ==
  ASSUME Typed, NEW s \in Session, NEW outcome \in SessionState, SettleRow(s, outcome)
  PROVE  /\ RowsEvolve /\ Attached' \subseteq Attached
         /\ \A t \in Session \ {s} : rows'[t] = rows[t]
<1>1. CASE UNCHANGED rows
  BY <1>1, UnchangedRowsEvolve
<1>2. CASE ~UNCHANGED rows
  <2>1. Exists(s) /\ rows[s].state \in SessionState
    BY <1>2 DEF SettleRow, Exists, Present
  <2>2. PICK final \in {"failed", outcome, rows[s].state} :
          SetRow(s, [rows[s] EXCEPT !.pid = FALSE, !.state = final])
    BY <1>2 DEF SettleRow
  <2> DEFINE row == [rows[s] EXCEPT !.pid = FALSE, !.state = final]
  <2>3. rows[s] \in SlotRow /\ final \in SessionState /\ SetRow(s, row)
    BY <2>1, <2>2 DEF Typed, TypeOK, SessionState
  <2>4. row \in SlotRow /\ row.state \in SessionState /\ (row.worktree => rows[s].worktree)
    BY <2>3 DEF SlotRow
  <2>. HIDE DEF row
  <2>. QED
    BY <2>3, <2>4, UpdateEvolves
<1>. QED
  BY <1>1, <1>2

(* A runner keeps its session until it leaves it.                           *)
RunnerMoves(r) ==
  /\ runner' \in [Runner -> [pc : RunnerPC, job : Session \cup {None}]]
  /\ runner[r].pc \in Employed /\ runner[r].job \in Session
  /\ runner'[r].pc \in Employed => runner'[r].job = runner[r].job
  /\ \A q \in Runner \ {r} : runner'[q] = runner[q]

LEMMA RunnerLeavesMoves ==
  ASSUME Typed, NEW r \in Runner, NEW step \in {"ended", "dead"}, RunnerLeaves(r, step),
         runner[r].pc \in Employed
  PROVE  RunnerMoves(r) /\ runner'[r].pc = step
  BY DEF RunnerLeaves, RunnerMoves, Typed, TypeOK, RunnerPC, Employed

LEMMA RunnerGoesMoves ==
  ASSUME Typed, NEW r \in Runner, NEW step \in RunnerPC, RunnerGoes(r, step),
         runner[r].pc \in Employed
  PROVE  RunnerMoves(r) /\ runner'[r].pc = step /\ runner'[r].job = runner[r].job
  BY DEF RunnerGoes, RunnerMoves, Typed, TypeOK

LEMMA RunnerEvolves ==
  ASSUME Typed, NEW r \in Runner, RunnerStep(r)
  PROVE  /\ RunnerMoves(r) /\ RowsEvolve /\ Attached' \subseteq Attached
         /\ \A t \in Session \ {runner[r].job} : rows'[t] = rows[t]
<1> DEFINE s == runner[r].job
<1>1. SessionState = {"pending", "running", "idle", "stale", "completed", "failed", "stopped"}
  BY DEF SessionState
<1>2. runner[r].pc \in Employed /\ s \in Session
  BY DEF RunnerStep, RunnerReads, RunnerRecordsPid, RunnerEntersRunning, RunnerEnds,
         RunnerAt, Typed, Employed
<1>3. {"launched", "recorded", "live"} \subseteq RunnerPC
  BY DEF RunnerPC
<1>4. CASE RunnerReads(r)
  BY <1>2, <1>3, <1>4, RunnerGoesMoves, RunnerLeavesMoves, UnchangedRowsEvolve DEF RunnerReads
<1>5. CASE RunnerRecordsPid(r)
  <2>1. CASE Exists(s)
    <3> DEFINE row == [rows[s] EXCEPT !.pid = TRUE]
    <3>1. SetRow(s, row) /\ RunnerGoes(r, "recorded")
      BY <1>5, <2>1 DEF RunnerRecordsPid
    <3>2. rows[s] \in SlotRow /\ rows[s].state \in SessionState
      BY <1>2, <2>1 DEF Typed, TypeOK, Exists, Present
    <3>3. row \in SlotRow /\ row.state \in SessionState /\ (row.worktree => rows[s].worktree)
      BY <3>2 DEF SlotRow
    <3>. HIDE DEF row
    <3>. QED
      BY <1>2, <1>3, <3>1, <3>3, UpdateEvolves, RunnerGoesMoves
  <2>2. CASE ~Exists(s)
    BY <1>2, <1>5, <2>2, RunnerLeavesMoves, UnchangedRowsEvolve DEF RunnerRecordsPid
  <2>. QED
    BY <2>1, <2>2
<1>6. CASE RunnerEntersRunning(r)
  <2>1. CASE RunnerLeaves(r, "ended") /\ SettleRow(s, "failed")
    BY <1>1, <1>2, <2>1, RunnerLeavesMoves, SettleRowEvolves
  <2>2. CASE Exists(s) /\ RunnerGoes(r, "live") /\ SetRow(s, [rows[s] EXCEPT !.state = "running"])
    <3> DEFINE row == [rows[s] EXCEPT !.state = "running"]
    <3>1. SetRow(s, row) /\ rows[s] \in SlotRow
      BY <1>2, <2>2 DEF Typed, TypeOK
    <3>2. row \in SlotRow /\ row.state \in SessionState /\ (row.worktree => rows[s].worktree)
      BY <1>1, <3>1 DEF SlotRow
    <3>. HIDE DEF row
    <3>. QED
      BY <1>2, <1>3, <2>2, <3>1, <3>2, UpdateEvolves, RunnerGoesMoves
  <2>. QED
    BY <1>6, <2>1, <2>2 DEF RunnerEntersRunning
<1>7. CASE RunnerEnds(r)
  BY <1>1, <1>2, <1>7, RunnerLeavesMoves, SettleRowEvolves DEF RunnerEnds
<1>. QED
  BY <1>4, <1>5, <1>6, <1>7 DEF RunnerStep

LEMMA StaleEvolves ==
  ASSUME Typed, NEW s \in Session, GoesStale(s)
  PROVE  /\ RowsEvolve /\ Attached' \subseteq Attached
         /\ rows'[s].state = "stale" /\ \A t \in Session \ {s} : rows'[t] = rows[t]
<1> DEFINE row == [rows[s] EXCEPT !.state = "stale"]
<1>1. SetRow(s, row) /\ rows[s] \in SlotRow
  BY DEF GoesStale, Typed, TypeOK
<1>2. row \in SlotRow /\ row.state = "stale" /\ row.state \in SessionState
      /\ (row.worktree => rows[s].worktree)
  BY <1>1 DEF SlotRow, SessionState
<1>. HIDE DEF row
<1>. QED
  BY <1>1, <1>2, UpdateEvolves

-----------------------------------------------------------------------------
(* TYPES                                                                    *)

LEMMA AttachedStaysFinite == ASSUME IsFiniteSet(Attached), RowsEvolve PROVE IsFiniteSet(Attached')
<1>1. PICK s : Attached' \subseteq Attached \cup {s}
  BY DEF RowsEvolve
<1>2. IsFiniteSet(Attached \cup {s})
  BY FS_AddElement
<1>. QED
  BY <1>1, <1>2, FS_Subset

(* A runner that is started has a session.                                  *)
Hires(p) ==
  /\ runner' \in [Runner -> [pc : RunnerPC, job : Session \cup {None}]]
  /\ \E r \in Runner : /\ runner[r].pc = "unused" /\ runner'[r].pc = "starting"
                       /\ runner'[r].job = Cur(p)
                       /\ \A q \in Runner \ {r} : runner'[q] = runner[q]

LEMMA SpawnHires ==
  ASSUME Typed, NEW p \in Process, Cur(p) \in Session, Spawn(Cur(p)) PROVE Hires(p)
  BY DEF Spawn, Hires, Typed, TypeOK, RunnerPC

(* The rest of the state after a step of a process that goes on.            *)
LEMMA ContinuesTyped ==
  ASSUME Typed, NEW p \in Process, Continues(p)
  PROVE  /\ queue' \in Seq(Session) /\ disk' \subseteq Session
         /\ lost' \subseteq Session /\ reset' \subseteq Session
         /\ UNCHANGED runner \/ (Cur(p) \in Session /\ Hires(p))
<1>1. proc[p].at \notin {"idle", "list"} => Cur(p) \in Session
  BY DEF Typed, Works, Cur
<1>2. queue \in Seq(Session) /\ disk \subseteq Session /\ lost \subseteq Session
      /\ reset \subseteq Session
  BY DEF Typed, TypeOK
<1>3. ASSUME NEW s PROVE Dequeued(s) \in Seq(Session)
  BY <1>2, DequeuedDropsOne
<1>4. CASE Enqueue(p)
  BY <1>1, <1>2, <1>3, <1>4 DEF Enqueue, At
<1>5. CASE SpawnNew(p)
  BY <1>1, <1>2, <1>5, SpawnHires DEF SpawnNew, At
<1>6. CASE Launch(p)
  BY <1>1, <1>2, <1>6, SpawnHires DEF Launch, At
<1>7. CASE Respawn(p)
  BY <1>1, <1>2, <1>7, SpawnHires DEF Respawn, At
<1>8. CASE MakeNew(p) \/ Make(p) \/ RemoveNew(p) \/ Attach(p) \/ RemoveGone(p)
  BY <1>1, <1>2, <1>8 DEF MakeNew, Make, RemoveNew, Attach, RemoveGone, At
<1>9. CASE Drop(p) \/ Done(p) \/ FailDrop(p) \/ DeleteRow(p)
  BY <1>1, <1>2, <1>3, <1>9 DEF Drop, Done, FailDrop, DeleteRow
<1>10. CASE RemoveTree(p) \/ Requeue(p)
  BY <1>1, <1>2, <1>10 DEF RemoveTree, Requeue, At
<1>11. CASE \/ Insert(p) \/ SpawnNewFails(p) \/ FailNew(p) \/ ListQueue(p) \/ Look(p)
            \/ FailState(p) \/ Resolve(p) \/ StopPid(p) \/ StopState(p) \/ Clear(p)
  BY <1>2, <1>11 DEF Insert, SpawnNewFails, FailNew, ListQueue, Look, FailState, Resolve,
                     StopPid, StopState, Clear
<1>. QED
  BY <1>4, <1>5, <1>6, <1>7, <1>8, <1>9, <1>10, <1>11 DEF Continues

LEMMA StartsOnlyMove ==
  ASSUME NEW p \in Process, Starts(p)
  PROVE  UNCHANGED <<rows, queue, disk, runner, lost, reset>> /\ At(p, "idle")
  BY DEF Starts, StartCreate, StartActivate, StartStop, StartCleanup, StartPrune, StartResume,
         StartDelete, Begin

LEMMA CrashTyped ==
  ASSUME Typed, NEW p \in Process, Crash(p)
  PROVE  lost' \subseteq Session /\ lost \subseteq lost' /\ (Cur(p) \in Session => Cur(p) \in lost')
<1>1. Cur(p) \in Session \cup {None} /\ lost \subseteq Session
  BY DEF Typed, TypeOK, Cur, Proc
<1>. QED
  BY <1>1, NoSessionAssumption DEF Crash

(* What follows from the parts.                                             *)
LEMMA ProcessStepTyped ==
  ASSUME Typed, NEW p \in Process, Moves(p), RowsEvolve,
         queue' \in Seq(Session), disk' \subseteq Session, lost' \subseteq Session,
         reset' \subseteq Session,
         UNCHANGED runner \/ (Cur(p) \in Session /\ Hires(p))
  PROVE  Typed'
<1>1. IsFiniteSet(Attached')
  BY AttachedStaysFinite DEF Typed
<1>2. \A q \in Process : Works(proc'[q])
  BY DEF Moves, Typed
<1>3. /\ runner' \in [Runner -> [pc : RunnerPC, job : Session \cup {None}]]
      /\ \A r \in Runner : runner'[r].pc \in Employed => runner'[r].job \in Session
  BY DEF Typed, TypeOK, Hires
<1>4. \A s \in Session : rows'[s].state = "absent" => ~rows'[s].worktree
  BY DEF RowsEvolve
<1>5. TypeOK'
  BY <1>3 DEF Moves, RowsEvolve, TypeOK
<1>. QED
  BY <1>1, <1>2, <1>3, <1>4, <1>5 DEF Typed

LEMMA RunnerStepTyped ==
  ASSUME Typed, NEW r \in Runner, RunnerMoves(r), RowsEvolve, lost' \subseteq Session,
         UNCHANGED <<queue, disk, proc, reset>>
  PROVE  Typed'
<1>1. IsFiniteSet(Attached')
  BY AttachedStaysFinite DEF Typed
<1>2. \A q \in Runner : runner'[q].pc \in Employed => runner'[q].job \in Session
  BY DEF Typed, RunnerMoves
<1>3. TypeOK'
  BY DEF Typed, TypeOK, RunnerMoves, RowsEvolve
<1>. QED
  BY <1>1, <1>2, <1>3 DEF Typed, RowsEvolve

LEMMA StaleTyped == ASSUME Typed, NEW s \in Session, GoesStale(s) PROVE Typed'
<1>1. RowsEvolve
  BY StaleEvolves
<1>2. IsFiniteSet(Attached')
  BY <1>1, AttachedStaysFinite DEF Typed
<1>3. TypeOK'
  BY <1>1 DEF GoesStale, Typed, TypeOK, RowsEvolve
<1>. QED
  BY <1>1, <1>2, <1>3 DEF GoesStale, Typed, RowsEvolve

LEMMA TypedInit == Init => Typed
<1>. SUFFICES ASSUME Init PROVE Typed
  OBVIOUS
<1>1. Idle \in Proc /\ Works(Idle)
  BY MaxWorktreesAssumption DEF Idle, Proc, ProcStep, Works, Creating, Activating
<1>2. Attached = {}
  BY DEF Init, Attached
<1>3. TypeOK
  BY <1>1 DEF Init, TypeOK, SlotRow, RunnerPC
<1>. QED
  BY <1>1, <1>2, <1>3, FS_EmptySet DEF Init, Typed, Employed

LEMMA RunnerCrashTyped ==
  ASSUME Typed, NEW r \in Runner, RunnerCrash(r)
  PROVE  RunnerMoves(r) /\ runner'[r].pc = "dead" /\ lost' \subseteq Session
<1>1. runner[r].pc \in Employed /\ RunnerLeaves(r, "dead")
  BY DEF RunnerCrash, Employed
<1>. QED
  BY <1>1, RunnerLeavesMoves DEF RunnerCrash, Typed, TypeOK

LEMMA TypedNext == Typed /\ [Next]_vars => Typed'
<1>. SUFFICES ASSUME Typed, [Next]_vars PROVE Typed'
  OBVIOUS
<1>1. ASSUME NEW p \in Process, Starts(p) PROVE Typed'
  BY <1>1, StartsMove, StartsOnlyMove, UnchangedRowsEvolve, ProcessStepTyped DEF Typed, TypeOK
<1>2. ASSUME NEW p \in Process, Continues(p) PROVE Typed'
  BY <1>2, ContinuesMove, ContinuesEvolve, ContinuesTyped, ProcessStepTyped
<1>3. ASSUME NEW p \in Process, Crash(p) PROVE Typed'
  <2>1. UNCHANGED <<rows, queue, disk, runner, reset>>
    BY <1>3 DEF Crash
  <2>. QED
    BY <1>3, <2>1, CrashMoves, CrashTyped, UnchangedRowsEvolve, ProcessStepTyped
       DEF Typed, TypeOK
<1>4. ASSUME NEW r \in Runner, RunnerStep(r) PROVE Typed'
  <2>1. UNCHANGED <<queue, disk, proc, lost, reset>>
    BY <1>4 DEF RunnerStep
  <2>. QED
    BY <1>4, <2>1, RunnerEvolves, RunnerStepTyped DEF Typed, TypeOK
<1>5. ASSUME NEW r \in Runner, RunnerCrash(r) PROVE Typed'
  <2>1. UNCHANGED <<rows, queue, disk, proc, reset>>
    BY <1>5 DEF RunnerCrash
  <2>. QED
    BY <1>5, <2>1, RunnerCrashTyped, UnchangedRowsEvolve, RunnerStepTyped
<1>6. ASSUME NEW s \in Session, GoesStale(s) PROVE Typed'
  BY <1>6, StaleTyped
<1>7. CASE UNCHANGED vars
  <2>1. Attached' = Attached
    BY <1>7 DEF vars, Attached
  <2>. QED
    BY <1>7, <2>1 DEF vars, Typed, TypeOK
<1>. QED
  BY <1>1, <1>2, <1>3, <1>4, <1>5, <1>6, <1>7 DEF Next

LEMMA TypedAlways == Spec => []Typed
  BY TypedInit, TypedNext, PTL DEF Spec

(* Every reachable state of any number of processes is well typed.          *)
THEOREM SlotsTyped == Spec => []TypeOK
<1>1. Typed => TypeOK
  BY DEF Typed
<1>. QED
  BY <1>1, TypedAlways, PTL

-----------------------------------------------------------------------------
(* THE LIMIT                                                                *)

(* The budget of a process depends on what it remembers only.               *)
Claimed(w) ==
  CASE w.at \in Creating   -> IF w.at = "makeNew" \/ (w.at = "insert" /\ w.worktree) THEN 1 ELSE 0
    [] w.at \in Activating -> IF w.at \in {"launch", "done"} THEN w.slots - 1 ELSE w.slots
    [] OTHER -> 0

LEMMA ClaimedCases ==
  ASSUME NEW w \in Proc, Works(w)
  PROVE  /\ Claimed(w) \in Nat
         /\ w.at \in Creating =>
              Claimed(w) = IF w.at = "makeNew" \/ (w.at = "insert" /\ w.worktree) THEN 1 ELSE 0
         /\ w.at \in Activating =>
              Claimed(w) = IF w.at \in {"launch", "done"} THEN w.slots - 1 ELSE w.slots
         /\ w.at \notin Creating \cup Activating => Claimed(w) = 0
         /\ Claimed(w) =
              CASE w.op = "create"   -> IF w.at = "makeNew" \/ (w.at = "insert" /\ w.worktree)
                                          THEN 1 ELSE 0
                [] w.op = "activate" -> IF w.at \in {"launch", "done"} THEN w.slots - 1 ELSE w.slots
                [] OTHER -> 0
<1>1. w.slots \in Nat
  BY MaxWorktreesAssumption DEF Proc
<1>2. CASE w.at \in Creating
  <2>1. w.at \notin Activating /\ w.op = "create"
    BY <1>2 DEF Works, Creating, Activating
  <2>. QED
    BY <1>2, <2>1 DEF Claimed
<1>3. CASE w.at \in Activating
  <2>1. w.at \notin Creating /\ w.op = "activate" /\ w.slots >= 1
    BY <1>3 DEF Works, Creating, Activating
  <2>. QED
    BY <1>1, <1>3, <2>1 DEF Claimed
<1>4. CASE w.at \notin Creating \cup Activating
  <2>1. w.op \notin {"create", "activate"}
    BY <1>4 DEF Works
  <2>. QED
    BY <1>4, <2>1 DEF Claimed
<1>. QED
  BY <1>2, <1>3, <1>4

LEMMA BudgetIsClaimed ==
  ASSUME Typed, NEW p \in Process PROVE Budget(p) = Claimed(proc[p]) /\ Budget(p) \in Nat
<1>1. proc[p] \in Proc /\ Works(proc[p])
  BY DEF Typed, TypeOK
<1>. QED
  BY <1>1, ClaimedCases DEF Budget, At

LEMMA BudgetAfterMove ==
  ASSUME Typed, NEW p \in Process, Moves(p)
  PROVE  /\ Budget(p)' = Claimed(proc'[p]) /\ Budget(p)' \in Nat
         /\ \A q \in Process \ {p} : Budget(q)' = Budget(q)
<1>1. proc'[p] \in Proc /\ Works(proc'[p])
  BY DEF Moves
<1>2. Budget(p)' = Claimed(proc'[p]) /\ Budget(p)' \in Nat
  BY <1>1, ClaimedCases DEF Budget, At
<1>3. \A q \in Process \ {p} : Budget(q)' = Budget(q)
  BY DEF Moves, Budget, At
<1>. QED
  BY <1>2, <1>3

(* The claims of the processes in P, and how many there can be.             *)
LEMMA FewClaims ==
  ASSUME NEW P \in SUBSET Process
  PROVE  /\ IsFiniteSet(P \X (1 .. MaxWorktrees))
         /\ Cardinality(P \X (1 .. MaxWorktrees)) = Cardinality(P) * MaxWorktrees
         /\ Cardinality(P) \in Nat
<1>1. IsFiniteSet(P) /\ Cardinality(P) \in Nat
  BY ProcessAssumption, FS_Subset, FS_CardinalityType
<1>2. IsFiniteSet(1 .. MaxWorktrees) /\ Cardinality(1 .. MaxWorktrees) = MaxWorktrees
  BY MaxWorktreesAssumption, FS_Interval
<1>. QED
  BY <1>1, <1>2, FS_Product

LEMMA ClaimsFinite == IsFiniteSet(Claims) /\ Cardinality(Claims) \in Nat
<1>1. IsFiniteSet(Process \X (1 .. MaxWorktrees))
  BY FewClaims
<1>2. Claims \in SUBSET (Process \X (1 .. MaxWorktrees))
  BY DEF Claims
<1>. QED
  BY <1>1, <1>2, FS_Subset, FS_CardinalityType

(* Nobody claims more, and no worktree is attached.                         *)
LEMMA BoundedWhenCalm ==
  ASSUME Typed, SlotsBounded, Attached' \subseteq Attached,
         \A q \in Process : Budget(q)' \in Nat /\ Budget(q)' <= Budget(q)
  PROVE  SlotsBounded'
<1>1. Claims' \in SUBSET Claims
  <2>1. \A q \in Process : Budget(q) \in Nat
    BY BudgetIsClaimed
  <2>2. ASSUME NEW q \in Process, NEW n \in 1 .. MaxWorktrees, n <= Budget(q)'
        PROVE  n <= Budget(q)
    BY <2>1, <2>2, MaxWorktreesAssumption
  <2>. QED
    BY <2>2 DEF Claims
<1>2. Cardinality(Claims') <= Cardinality(Claims) /\ Cardinality(Claims') \in Nat
      /\ Cardinality(Claims) \in Nat
  BY <1>1, ClaimsFinite, FS_Subset, FS_CardinalityType
<1>3. IsFiniteSet(Attached) /\ Attached' \in SUBSET Attached
  BY DEF Typed
<1>4. Cardinality(Attached') <= Cardinality(Attached) /\ Cardinality(Attached') \in Nat
      /\ Cardinality(Attached) \in Nat
  BY <1>3, FS_Subset, FS_CardinalityType
<1>5. Cardinality(Process) \in Nat
  BY ProcessAssumption, FS_CardinalityType
<1>. QED
  BY <1>2, <1>4, <1>5, MaxWorktreesAssumption DEF SlotsBounded

(* A process that attaches a worktree gives up a claim for it.              *)
LEMMA BoundedWhenAttaching ==
  ASSUME Typed, SlotsBounded, NEW p \in Process, NEW s, Attached' \subseteq Attached \cup {s},
         \A q \in Process \ {p} : Budget(q)' = Budget(q),
         Budget(p) \in 1 .. MaxWorktrees, Budget(p)' = Budget(p) - 1
  PROVE  SlotsBounded'
<1>1. \A q \in Process : Budget(q) \in Nat
  BY BudgetIsClaimed
<1>2. Claims' \subseteq Claims \ {<<p, Budget(p)>>}
  <2>1. ASSUME NEW q \in Process, NEW n \in 1 .. MaxWorktrees, n <= Budget(q)'
        PROVE  n <= Budget(q) /\ ~(q = p /\ n = Budget(p))
    BY <1>1, <2>1, MaxWorktreesAssumption
  <2>. QED
    BY <2>1 DEF Claims
<1>3. <<p, Budget(p)>> \in Claims
  BY DEF Claims
<1>4. IsFiniteSet(Claims \ {<<p, Budget(p)>>})
      /\ Cardinality(Claims \ {<<p, Budget(p)>>}) = Cardinality(Claims) - 1
  BY <1>3, ClaimsFinite, FS_RemoveElement
<1>5. Cardinality(Claims') <= Cardinality(Claims) - 1 /\ Cardinality(Claims') \in Nat
      /\ Cardinality(Claims) \in Nat
  BY <1>2, <1>4, ClaimsFinite, FS_Subset, FS_CardinalityType
<1>6. IsFiniteSet(Attached)
  BY DEF Typed
<1>7. IsFiniteSet(Attached \cup {s}) /\ Cardinality(Attached) \in Nat
      /\ Cardinality(Attached \cup {s}) <= Cardinality(Attached) + 1
  <2>1. Cardinality(Attached) \in Nat
    BY <1>6, FS_CardinalityType
  <2>2. IsFiniteSet(Attached \cup {s})
        /\ Cardinality(Attached \cup {s}) =
             IF s \in Attached THEN Cardinality(Attached) ELSE Cardinality(Attached) + 1
    BY <1>6, FS_AddElement
  <2>. QED
    BY <2>1, <2>2
<1>8. Cardinality(Attached') <= Cardinality(Attached) + 1 /\ Cardinality(Attached') \in Nat
  BY <1>7, FS_Subset, FS_CardinalityType
<1>9. Cardinality(Process) \in Nat
  BY ProcessAssumption, FS_CardinalityType
<1>. QED
  BY <1>5, <1>7, <1>8, <1>9, MaxWorktreesAssumption DEF SlotsBounded

(* A process that counts claims no more than what is free.                  *)
LEMMA BoundedWhenCounting ==
  ASSUME Typed, NEW p \in Process, UNCHANGED rows,
         \A q \in Process \ {p} : Budget(q)' = Budget(q),
         Budget(p)' \in Nat, Budget(p)' <= FreeSlots, FreeSlots > 0
  PROVE  SlotsBounded'
<1> DEFINE Others == (Process \ {p}) \X (1 .. MaxWorktrees)
           Own    == {p} \X (1 .. Budget(p)')
<1>1. IsFiniteSet(Attached) /\ Attached' = Attached
  BY DEF Typed, Attached
<1>2. FreeSlots + Cardinality(Attached) = MaxWorktrees /\ FreeSlots \in Nat
      /\ Cardinality(Attached) \in Nat
  BY <1>1, FreeSlotsType, FS_CardinalityType, MaxWorktreesAssumption
<1>3. Claims' \subseteq Others \cup Own
  <2>1. ASSUME NEW q \in Process, NEW n \in 1 .. MaxWorktrees, n <= Budget(q)'
        PROVE  <<q, n>> \in Others \cup Own
    BY <2>1, MaxWorktreesAssumption
  <2>. QED
    BY <2>1 DEF Claims
<1>4. Cardinality(Process) \in Nat /\ Cardinality(Process \ {p}) = Cardinality(Process) - 1
  BY ProcessAssumption, FS_CardinalityType, FS_RemoveElement
<1>5. IsFiniteSet(Others) /\ Cardinality(Others) = (Cardinality(Process) - 1) * MaxWorktrees
  BY <1>4, FewClaims
<1>6. IsFiniteSet({p}) /\ Cardinality({p}) = 1
  BY FS_Singleton
<1>7. IsFiniteSet(1 .. Budget(p)') /\ Cardinality(1 .. Budget(p)') = Budget(p)'
  BY FS_Interval
<1>8. IsFiniteSet(Own) /\ Cardinality(Own) = Budget(p)'
  <2>1. IsFiniteSet(Own) /\ Cardinality(Own) = Cardinality({p}) * Cardinality(1 .. Budget(p)')
    BY <1>6, <1>7, FS_Product
  <2>. QED
    BY <1>6, <1>7, <2>1
<1>. HIDE DEF Others, Own
<1>9. IsFiniteSet(Others \cup Own)
      /\ Cardinality(Others \cup Own) <= Cardinality(Others) + Cardinality(Own)
  <2>1. Cardinality(Others \cap Own) \in Nat
    <3>1. Others \cap Own \in SUBSET Others
      OBVIOUS
    <3>. QED
      BY <1>5, <3>1, FS_Subset, FS_CardinalityType
  <2>2. Cardinality(Others) \in Nat /\ Cardinality(Own) \in Nat
    BY <1>5, <1>8, FS_CardinalityType
  <2>. QED
    BY <1>5, <1>8, <2>1, <2>2, FS_Union
<1>10. Cardinality(Claims') <= (Cardinality(Process) - 1) * MaxWorktrees + Budget(p)'
       /\ Cardinality(Claims') \in Nat
  <2>1. Claims' \in SUBSET (Others \cup Own)
    BY <1>3
  <2>2. Cardinality(Claims') <= Cardinality(Others \cup Own) /\ Cardinality(Claims') \in Nat
        /\ Cardinality(Others \cup Own) \in Nat
    BY <1>9, <2>1, FS_Subset, FS_CardinalityType
  <2>3. Cardinality(Others) \in Nat /\ Cardinality(Own) \in Nat
    BY <1>5, <1>8, FS_CardinalityType
  <2>. QED
    BY <1>5, <1>8, <1>9, <2>2, <2>3
<1>11. (Cardinality(Process) - 1) * MaxWorktrees + MaxWorktrees
         = MaxWorktrees * Cardinality(Process)
  BY <1>4, MaxWorktreesAssumption
<1>12. (Cardinality(Process) - 1) * MaxWorktrees \in Int
  BY <1>4, MaxWorktreesAssumption
<1>13. Cardinality(Attached') + Cardinality(Claims')
         <= (Cardinality(Process) - 1) * MaxWorktrees + MaxWorktrees
  BY <1>1, <1>2, <1>10, <1>12, MaxWorktreesAssumption
<1>. QED
  BY <1>11, <1>13 DEF SlotsBounded

(* Where a process goes from a step of an activation or a creation: its     *)
(* claims only fall, by one where it attaches a worktree.                   *)
LEMMA ClaimsFall ==
  ASSUME Typed, NEW p \in Process, Continues(p)
  PROVE  /\ Claimed(proc'[p]) <= Claimed(proc[p])
         /\ At(p, "attach") \/ (At(p, "insert") /\ proc[p].worktree) =>
              \/ Attached' \subseteq Attached
              \/ /\ Claimed(proc[p]) \in 1 .. MaxWorktrees
                 /\ Claimed(proc'[p]) = Claimed(proc[p]) - 1
<1>1. proc[p] \in Proc /\ Works(proc[p])
  BY DEF Typed, TypeOK
<1>2. Claimed(proc[p]) \in Nat /\ proc[p].slots \in 0 .. MaxWorktrees
  BY <1>1, ClaimedCases DEF Proc
<1>3. Moves(p) /\ proc'[p] \in Proc /\ Works(proc'[p])
  BY ContinuesMove DEF Moves
<1>4. Claimed(proc'[p]) \in Nat
  BY <1>3, ClaimedCases
<1>5. Idle \in Proc /\ Claimed(Idle) = 0
  BY MaxWorktreesAssumption DEF Idle, Proc, ProcStep, Claimed, Creating, Activating
<1>6. Claimed(proc'[p]) <= Claimed(proc[p])
  <2>1. CASE Finish(p)
    BY <1>2, <1>5, <2>1, FinishMoves
  <2>2. CASE MakeNew(p) /\ ~Finish(p)
    <3>1. proc[p].at = "makeNew" /\ proc'[p].at = "insert"
      BY <1>1, <2>2 DEF MakeNew, At, Typed, TypeOK, Proc
    <3>. QED
      BY <1>1, <1>3, <3>1, ClaimedCases DEF Creating
  <2>3. CASE Insert(p) \/ SpawnNewFails(p) \/ (FailNew(p) /\ ~Finish(p))
    <3>1. proc'[p].at \in {"spawnNew", "enqueue", "failNew", "removeNew"}
      <4>1. \E step \in {"spawnNew", "enqueue", "failNew", "removeNew"} : Go(p, step)
        BY <2>3 DEF Insert, SpawnNewFails, FailNew
      <4>. QED
        BY <1>1, <4>1 DEF Go, Typed, TypeOK, Proc
    <3>2. Claimed(proc'[p]) = 0
      BY <1>3, <3>1, ClaimedCases DEF Creating
    <3>. QED
      BY <1>2, <3>2
  <2>4. CASE ListQueue(p) /\ ~Finish(p)
    <3>1. proc[p].at = "list" /\ proc'[p].at = "look" /\ proc'[p].slots = proc[p].slots
      BY <1>1, <2>4 DEF ListQueue, At, Typed, TypeOK, Proc
    <3>. QED
      BY <1>1, <1>2, <1>3, <3>1, ClaimedCases DEF Activating
  <2>5. CASE Look(p) \/ Make(p) \/ FailDrop(p) \/ Attach(p) \/ Launch(p)
    <3>1. PICK step \in {"make", "drop", "attach", "failDrop", "failState", "launch", "done"} :
            Go(p, step)
      BY <2>5 DEF Look, Make, FailDrop, Attach, Launch
    <3>2. proc'[p].at = step /\ proc'[p].slots = proc[p].slots
      BY <1>1, <3>1 DEF Go, Typed, TypeOK, Proc
    <3>3. /\ proc[p].at \in {"look", "make", "failDrop", "attach", "launch"}
          /\ proc[p].at = "launch" => step = "done"
      <4>1. proc[p].at = "launch" => step = "done"
        <5>1. proc[p].at = "launch" => Launch(p)
          BY <2>5 DEF Look, Make, FailDrop, Attach, At
        <5>2. Launch(p) => proc'[p].at = "done"
          BY <1>1 DEF Launch, Go, Typed, TypeOK, Proc
        <5>. QED
          BY <3>2, <5>1, <5>2
      <4>. QED
        BY <2>5, <4>1 DEF Look, Make, FailDrop, Attach, Launch, At
    <3>. QED
      BY <1>1, <1>2, <1>3, <3>2, <3>3, ClaimedCases DEF Activating
  <2>6. CASE Done(p) /\ ~Finish(p)
    <3>1. proc[p].at = "done" /\ proc'[p].at = "look" /\ proc'[p].slots = proc[p].slots - 1
      BY <1>1, <2>6 DEF Done, At, Typed, TypeOK, Proc
    <3>. QED
      BY <1>1, <1>2, <1>3, <3>1, ClaimedCases DEF Activating
  <2>7. CASE Drop(p) \/ (FailState(p) /\ ~Finish(p))
    <3>1. proc[p].at \in {"drop", "failState"} /\ NextOfPass(p, "look")
      BY <2>7 DEF Drop, FailState, At
    <3>2. proc'[p] = Idle \/ (proc'[p].at = "look" /\ proc'[p].slots = proc[p].slots)
      BY <3>1, NextOfPassMoves DEF Activating
    <3>. QED
      BY <1>1, <1>2, <1>3, <1>5, <3>1, <3>2, ClaimedCases DEF Activating
  <2>8. CASE (Resolve(p) \/ Clear(p)) /\ NextOfPass(p, "resolve")
    <3>1. proc[p].at \in {"resolve", "clear"}
      BY <2>8 DEF Resolve, Clear, At
    <3>2. proc'[p] = Idle \/ proc'[p].at = "resolve"
      BY <2>8, <3>1, NextOfPassMoves DEF Activating, Creating
    <3>3. Claimed(proc'[p]) = 0
      BY <1>3, <1>5, <3>2, ClaimedCases DEF Activating, Creating
    <3>. QED
      BY <1>2, <3>3
  <2>9. CASE /\ \/ Resolve(p) /\ ~NextOfPass(p, "resolve")
                \/ StopPid(p) \/ StopState(p) \/ RemoveTree(p) \/ Requeue(p) \/ RemoveGone(p)
             /\ ~Finish(p)
    <3>1. proc'[p].at \in {"stopPid", "remove", "stopState", "clear", "respawn", "deleteRow"}
      BY <1>1, <2>9 DEF Resolve, StopPid, StopState, RemoveTree, Requeue, RemoveGone, Go,
                        Typed, TypeOK, Proc
    <3>2. Claimed(proc'[p]) = 0
      BY <1>3, <3>1, ClaimedCases DEF Activating, Creating
    <3>. QED
      BY <1>2, <3>2
  <2>10. CASE Enqueue(p) \/ SpawnNew(p) \/ RemoveNew(p) \/ Respawn(p) \/ DeleteRow(p)
    BY <2>1, <2>10 DEF Enqueue, SpawnNew, RemoveNew, Respawn, DeleteRow
  <2>11. CASE Clear(p)
    BY <2>1, <2>8, <2>11 DEF Clear
  <2>. QED
    BY <2>1, <2>2, <2>3, <2>4, <2>5, <2>6, <2>7, <2>8, <2>9, <2>10, <2>11 DEF Continues
<1>7. CASE At(p, "insert") /\ proc[p].worktree
  <2>1. Claimed(proc[p]) = 1 /\ MaxWorktrees >= 1
    BY <1>1, <1>7, ClaimedCases DEF At, Works, Creating
  <2>2. Insert(p)
    BY <1>7 DEF Continues, MakeNew, Insert, Enqueue, SpawnNew, SpawnNewFails, FailNew,
         RemoveNew, ListQueue, Look, Drop, Make, Attach, Launch, Done, FailDrop, FailState,
         Resolve, StopPid, StopState, RemoveTree, Clear, Requeue, Respawn, RemoveGone,
         DeleteRow, At
  <2>3. proc'[p].at = "spawnNew"
    BY <1>1, <1>7, <2>2 DEF Insert, Go, Typed, TypeOK, Proc
  <2>4. Claimed(proc'[p]) = 0
    BY <1>3, <2>3, ClaimedCases DEF Creating
  <2>. QED
    BY <1>6, <1>7, <2>1, <2>4, MaxWorktreesAssumption
<1>8. CASE At(p, "attach") /\ ~(Attached' \subseteq Attached)
  <2>1. Attach(p)
    BY <1>8 DEF Continues, MakeNew, Insert, Enqueue, SpawnNew, SpawnNewFails, FailNew,
         RemoveNew, ListQueue, Look, Drop, Make, Attach, Launch, Done, FailDrop, FailState,
         Resolve, StopPid, StopState, RemoveTree, Clear, Requeue, Respawn, RemoveGone,
         DeleteRow, At
  <2>2. Go(p, "launch")
    BY <1>8, <2>1 DEF Attach, Attached
  <2>3. proc'[p].at = "launch" /\ proc'[p].slots = proc[p].slots /\ proc[p].at = "attach"
    BY <1>1, <1>8, <2>2 DEF Go, At, Typed, TypeOK, Proc
  <2>4. Claimed(proc[p]) = proc[p].slots /\ Claimed(proc'[p]) = proc[p].slots - 1
        /\ proc[p].slots >= 1
    BY <1>1, <1>3, <2>3, ClaimedCases DEF Activating, Works
  <2>. QED
    BY <1>2, <1>6, <1>8, <2>3, <2>4, MaxWorktreesAssumption DEF At
<1>. QED
  BY <1>6, <1>7, <1>8

LEMMA BoundedNext == Typed /\ SlotsBounded /\ [Next]_vars => SlotsBounded'
<1>. SUFFICES ASSUME Typed, SlotsBounded, [Next]_vars PROVE SlotsBounded'
  OBVIOUS
<1>1. ASSUME NEW p \in Process, Continues(p) PROVE SlotsBounded'
  <2>1. /\ Moves(p) /\ Budget(p) = Claimed(proc[p]) /\ Budget(p) \in Nat
        /\ Budget(p)' = Claimed(proc'[p]) /\ Budget(p)' \in Nat
        /\ \A q \in Process \ {p} : Budget(q)' = Budget(q) /\ Budget(q) \in Nat
    BY <1>1, ContinuesMove, BudgetIsClaimed, BudgetAfterMove
  <2>2. Budget(p)' <= Budget(p)
    BY <1>1, <2>1, ClaimsFall
  <2>3. CASE Attached' \subseteq Attached
    <3>1. \A q \in Process : Budget(q)' \in Nat /\ Budget(q)' <= Budget(q)
      BY <2>1, <2>2
    <3>. QED
      BY <2>3, <3>1, BoundedWhenCalm
  <2>4. CASE ~(Attached' \subseteq Attached)
    <3>1. /\ At(p, "attach") \/ (At(p, "insert") /\ proc[p].worktree)
          /\ Attached' \subseteq Attached \cup {Cur(p)}
      BY <1>1, <2>4, ContinuesEvolve
    <3>2. Budget(p) \in 1 .. MaxWorktrees /\ Budget(p)' = Budget(p) - 1
      BY <1>1, <2>1, <2>4, <3>1, ClaimsFall
    <3>. QED
      BY <2>1, <3>1, <3>2, BoundedWhenAttaching
  <2>. QED
    BY <2>3, <2>4
<1>2. ASSUME NEW p \in Process, Starts(p) PROVE SlotsBounded'
  <2>1. /\ Moves(p) /\ Budget(p) \in Nat
        /\ Budget(p)' = Claimed(proc'[p]) /\ Budget(p)' \in Nat
        /\ \A q \in Process \ {p} : Budget(q)' = Budget(q) /\ Budget(q) \in Nat
    BY <1>2, StartsMove, BudgetIsClaimed, BudgetAfterMove
  <2>2. UNCHANGED rows /\ Attached' = Attached
    BY <1>2, StartsOnlyMove, UnchangedRowsEvolve
  <2>3. FreeSlots \in Nat
    BY FreeSlotsType, MaxWorktreesAssumption DEF Typed
  <2>4. CASE Budget(p)' = 0
    <3>1. \A q \in Process : Budget(q)' \in Nat /\ Budget(q)' <= Budget(q)
      BY <2>1, <2>4
    <3>. QED
      BY <2>2, <3>1, BoundedWhenCalm
  <2>5. CASE Budget(p)' # 0
    <3>1. proc'[p] \in Proc /\ Works(proc'[p]) /\ proc[p] \in Proc
      BY <2>1 DEF Moves, Typed, TypeOK
    <3>2. proc'[p].at \in Creating \cup Activating
      BY <2>1, <2>5, <3>1, ClaimedCases
    <3>3. CASE StartCreate(p)
      <4>1. PICK s \in Session :
              /\ rows[s].state = "absent"
              /\ Begin(p, "create", IF FreeSlots > 0 THEN "makeNew" ELSE "insert", s)
        BY <3>3 DEF StartCreate
      <4>2. CASE FreeSlots > 0
        <5>1. Begin(p, "create", "makeNew", s) /\ MaxWorktrees >= 1
          BY <2>3, <4>1, <4>2, FreeSlotsType, MaxWorktreesAssumption DEF Typed
        <5>2. proc'[p].at = "makeNew"
          BY <5>1, BeginMoves DEF Operation, ProcStep, Creating, Activating
        <5>3. Budget(p)' = 1
          BY <2>1, <3>1, <5>2, ClaimedCases DEF Creating
        <5>4. Budget(p)' <= FreeSlots
          BY <2>3, <4>2, <5>3
        <5>. QED
          BY <2>1, <2>2, <4>2, <5>4, BoundedWhenCounting
      <4>3. CASE ~(FreeSlots > 0)
        <5>1. Begin(p, "create", "insert", s) /\ ~rows[s].worktree
          BY <4>1, <4>3 DEF Typed
        <5>2. proc'[p].at = "insert" /\ proc'[p].worktree = rows[s].worktree
          BY <5>1, BeginMoves DEF Operation, ProcStep, Creating, Activating
        <5>3. Budget(p)' = 0
          BY <2>1, <3>1, <5>1, <5>2, ClaimedCases DEF Creating
        <5>. QED
          BY <2>5, <5>3
      <4>. QED
        BY <4>2, <4>3
    <3>4. CASE StartActivate(p)
      <4>1. FreeSlots > 0 /\ proc'[p].at = "list" /\ proc'[p].slots = FreeSlots
        BY <3>4, ActivateMoves
      <4>2. Budget(p)' = FreeSlots
        BY <2>1, <3>1, <4>1, ClaimedCases DEF Activating
      <4>3. Budget(p)' <= FreeSlots
        BY <2>3, <4>2
      <4>. QED
        BY <2>1, <2>2, <4>1, <4>3, BoundedWhenCounting
    <3>5. CASE StartStop(p) \/ StartCleanup(p) \/ StartPrune(p) \/ StartResume(p)
               \/ StartDelete(p)
      <4>1. proc'[p].at \in {"stopPid", "resolve", "requeue", "removeGone", "deleteRow"}
        <5>1. CASE StartPrune(p)
          BY <5>1, PruneMoves
        <5>2. CASE StartStop(p) \/ StartCleanup(p) \/ StartResume(p) \/ StartDelete(p)
          <6>1. PICK name \in {"stop", "cleanup", "resume", "delete"}, s \in Session,
                     step \in {"stopPid", "resolve", "requeue", "removeGone", "deleteRow"} :
                  Begin(p, name, step, s)
            BY <5>2 DEF StartStop, StartCleanup, StartResume, StartDelete
          <6>. QED
            BY <6>1, BeginMoves DEF Operation, ProcStep, Creating, Activating
        <5>. QED
          BY <3>5, <5>1, <5>2
      <4>. QED
        BY <3>2, <4>1 DEF Creating, Activating
    <3>. QED
      BY <1>2, <3>3, <3>4, <3>5 DEF Starts
  <2>. QED
    BY <2>4, <2>5
<1>3. ASSUME NEW p \in Process, Crash(p) PROVE SlotsBounded'
  <2>1. /\ Moves(p) /\ proc'[p] = Idle /\ Budget(p) \in Nat
        /\ Budget(p)' = Claimed(proc'[p]) /\ Budget(p)' \in Nat
        /\ \A q \in Process \ {p} : Budget(q)' = Budget(q) /\ Budget(q) \in Nat
    BY <1>3, CrashMoves, BudgetIsClaimed, BudgetAfterMove
  <2>2. Budget(p)' = 0
    BY <2>1 DEF Claimed, Idle, Creating, Activating
  <2>3. Attached' = Attached
    BY <1>3, UnchangedRowsEvolve DEF Crash
  <2>4. \A q \in Process : Budget(q)' \in Nat /\ Budget(q)' <= Budget(q)
    BY <2>1, <2>2
  <2>. QED
    BY <2>3, <2>4, BoundedWhenCalm
<1>4. ASSUME UNCHANGED proc, Attached' \subseteq Attached PROVE SlotsBounded'
  <2>1. \A q \in Process : Budget(q)' = Budget(q) /\ Budget(q) \in Nat
    BY <1>4, BudgetIsClaimed DEF Budget, At
  <2>2. \A q \in Process : Budget(q)' \in Nat /\ Budget(q)' <= Budget(q)
    BY <2>1
  <2>. QED
    BY <1>4, <2>2, BoundedWhenCalm
<1>5. ASSUME NEW r \in Runner, RunnerStep(r) \/ RunnerCrash(r) PROVE SlotsBounded'
  BY <1>4, <1>5, RunnerEvolves, UnchangedRowsEvolve DEF RunnerStep, RunnerCrash
<1>6. ASSUME NEW s \in Session, GoesStale(s) PROVE SlotsBounded'
  BY <1>4, <1>6, StaleEvolves DEF GoesStale
<1>7. CASE UNCHANGED vars
  BY <1>4, <1>7, UnchangedRowsEvolve DEF vars
<1>. QED
  BY <1>1, <1>2, <1>3, <1>5, <1>6, <1>7 DEF Next

LEMMA BoundedInit == Init => SlotsBounded
<1>. SUFFICES ASSUME Init PROVE SlotsBounded
  OBVIOUS
<1>1. Attached = {}
  BY DEF Init, Attached
<1>2. Claims = {}
  BY MaxWorktreesAssumption DEF Init, Idle, Claims, Budget
<1>3. Cardinality(Process) \in Nat
  BY ProcessAssumption, FS_CardinalityType
<1>. QED
  BY <1>1, <1>2, <1>3, FS_EmptySet, MaxWorktreesAssumption DEF SlotsBounded

(* The worktrees that are attached and those that some process still means  *)
(* to attach never exceed the limit times the number of processes.          *)
THEOREM SlotsStayBounded == Spec => []SlotsBounded
<1>1. Typed /\ SlotsBounded /\ [Next]_vars => Typed' /\ SlotsBounded'
  BY TypedNext, BoundedNext
<1>. QED
  BY <1>1, TypedInit, BoundedInit, PTL DEF Spec

(* One process alone never exceeds the limit itself.                        *)
THEOREM AloneWithinLimit ==
  ASSUME Cardinality(Process) = 1
  PROVE  Spec => []AttachedWithinLimit
<1>1. Typed /\ SlotsBounded => AttachedWithinLimit
  <2>. SUFFICES ASSUME Typed, SlotsBounded PROVE AttachedWithinLimit
    OBVIOUS
  <2>1. Cardinality(Claims) \in Nat /\ Cardinality(Attached) \in Nat
    BY ClaimsFinite, FS_CardinalityType DEF Typed
  <2>. QED
    BY <2>1, MaxWorktreesAssumption DEF SlotsBounded, AttachedWithinLimit
<1>. QED
  BY <1>1, TypedAlways, SlotsStayBounded, PTL

-----------------------------------------------------------------------------
(* WHO KNOWS A SESSION                                                      *)

(* Where the session that a process is at comes from: its list, the queue,  *)
(* or the step before.                                                      *)
Stays(p) ==
  /\ proc'[p].cur = proc[p].cur /\ proc'[p].list = proc[p].list /\ proc'[p].op = proc[p].op
  /\ Unborn(proc'[p]) => At(p, "makeNew") /\ UNCHANGED rows

TakesNext(p) ==
  /\ proc'[p].at \in {"look", "resolve"}
  /\ proc[p].list # <<>>
  /\ proc'[p].cur = Head(proc[p].list) /\ proc'[p].list = Tail(proc[p].list)

TakesQueue(p) ==
  /\ proc'[p].at = "look"
  /\ \E i \in DOMAIN queue : proc'[p].cur = queue[i]
  /\ \A i \in DOMAIN proc'[p].list : \E j \in DOMAIN queue : proc'[p].list[i] = queue[j]

LEMMA GoStays ==
  ASSUME Typed, NEW p \in Process, NEW step \in ProcStep, Go(p, step),
         step \notin {"makeNew", "insert"}
  PROVE  Stays(p) /\ proc'[p].at = step
  BY DEF Go, Stays, Unborn, Typed, TypeOK, Proc

LEMMA Proceeds ==
  ASSUME Typed, NEW p \in Process, Continues(p)
  PROVE  proc'[p] = Idle \/ Stays(p) \/ TakesNext(p) \/ TakesQueue(p)
<1>1. proc[p] \in Proc /\ Works(proc[p])
  BY DEF Typed, TypeOK
<1>2. CASE Finish(p)
  BY <1>2, FinishMoves
<1>3. CASE \E step \in ProcStep \ {"makeNew", "insert"} : Go(p, step)
  BY <1>3, GoStays
<1>4. CASE MakeNew(p) /\ ~Finish(p)
  BY <1>1, <1>4 DEF MakeNew, Stays, At, Unborn, Typed, TypeOK, Proc
<1>5. CASE ListQueue(p) /\ ~Finish(p)
  <2> DEFINE n == IF Len(queue) < proc[p].slots THEN Len(queue) ELSE proc[p].slots
  <2>1. queue \in Seq(Session) /\ queue # <<>> /\ proc[p].slots \in Nat
    BY <1>1, <1>5, MaxWorktreesAssumption DEF ListQueue, Typed, TypeOK, Proc
  <2>2. n \in Nat /\ n <= Len(queue)
    BY <2>1
  <2>3. /\ proc'[p].at = "look" /\ proc'[p].cur = Head(queue)
        /\ proc'[p].list = SubSeq(queue, 2, n)
    BY <1>1, <1>5, <2>1 DEF ListQueue, Typed, TypeOK, Proc
  <2>. HIDE DEF n
  <2>4. Head(queue) = queue[1] /\ 1 \in DOMAIN queue
    BY <2>1, HeadAndTail
  <2>5. \A i \in DOMAIN SubSeq(queue, 2, n) :
          \E j \in DOMAIN queue : SubSeq(queue, 2, n)[i] = queue[j]
    BY <2>1, <2>2, PartOfSequence
  <2>6. TakesQueue(p)
    BY <2>3, <2>4, <2>5 DEF TakesQueue
  <2>. QED
    BY <2>6
<1>6. CASE \/ Drop(p) \/ (FailState(p) /\ ~Finish(p))
  BY <1>6, NextOfPassMoves DEF Drop, FailState, At, Activating, TakesNext
<1>7. CASE Done(p) /\ ~Finish(p)
  BY <1>1, <1>7 DEF Done, TakesNext, Typed, TypeOK, Proc
<1>8. CASE (Resolve(p) \/ Clear(p)) /\ NextOfPass(p, "resolve")
  BY <1>8, NextOfPassMoves DEF Resolve, Clear, At, Activating, Creating, TakesNext
<1>9. CASE Resolve(p) /\ ~NextOfPass(p, "resolve") /\ ~Finish(p)
  BY <1>1, <1>9 DEF Resolve, Stays, Unborn, Typed, TypeOK, Proc
<1>10. CASE \/ Insert(p) \/ SpawnNewFails(p) \/ (FailNew(p) /\ ~Finish(p)) \/ Look(p) \/ Make(p)
            \/ Attach(p) \/ Launch(p) \/ FailDrop(p)
  BY <1>3, <1>10
     DEF Insert, SpawnNewFails, FailNew, Look, Make, Attach, Launch, FailDrop, ProcStep
<1>11. CASE \/ (StopPid(p) /\ ~Finish(p)) \/ (StopState(p) /\ ~Finish(p)) \/ RemoveTree(p)
            \/ (Requeue(p) /\ ~Finish(p)) \/ RemoveGone(p)
  BY <1>3, <1>11 DEF StopPid, StopState, RemoveTree, Requeue, RemoveGone, ProcStep
<1>12. CASE Enqueue(p) \/ SpawnNew(p) \/ RemoveNew(p) \/ Respawn(p) \/ DeleteRow(p)
  BY <1>2, <1>12 DEF Enqueue, SpawnNew, RemoveNew, Respawn, DeleteRow
<1>13. CASE Clear(p)
  BY <1>2, <1>8, <1>13 DEF Clear
<1>. QED
  BY <1>2, <1>4, <1>5, <1>6, <1>7, <1>8, <1>9, <1>10, <1>11, <1>12, <1>13 DEF Continues

(* What stays in the queue, and what comes into it.                         *)
Drops(p) == proc[p].at \in {"drop", "done", "failDrop"}

LEMMA QueueEvolves ==
  ASSUME Typed, NEW p \in Process, Continues(p)
  PROVE  /\ \A i \in DOMAIN queue' :
              \/ \E j \in DOMAIN queue : queue'[i] = queue[j]
              \/ queue'[i] = Cur(p) /\ Exists(Cur(p)) /\ At(p, "enqueue")
         /\ \A t : Queued(t) /\ (t = Cur(p) => ~Drops(p)) => Queued(t)' \/ rows'[t].state = "deleted"
         /\ \A t : t = Cur(p) /\ At(p, "enqueue") /\ Exists(t) => Queued(t)'
<1>1. queue \in Seq(Session)
  BY DEF Typed, TypeOK
<1>2. CASE UNCHANGED queue /\ ~At(p, "enqueue")
  BY <1>2 DEF Queued
<1> DEFINE d == Dequeued(Cur(p))
<1>3. /\ d \in Seq(Session)
      /\ \A i \in DOMAIN d : \E j \in DOMAIN queue : d[i] = queue[j]
      /\ \A i \in DOMAIN queue : queue[i] # Cur(p) => \E j \in DOMAIN d : d[j] = queue[i]
  BY <1>1, DequeuedDropsOne
<1>. HIDE DEF d
<1>4. CASE Drop(p) \/ Done(p) \/ FailDrop(p)
  <2>1. queue' = d /\ Drops(p) /\ ~At(p, "enqueue")
    BY <1>4 DEF Drop, Done, FailDrop, Drops, At, d
  <2>. QED
    BY <1>3, <2>1 DEF Queued
<1>5. CASE DeleteRow(p) /\ ~UNCHANGED queue
  <2>1. queue' = d /\ ~At(p, "enqueue") /\ Cur(p) \in Session
    BY <1>5 DEF DeleteRow, At, d, Typed, Works, Cur
  <2>2. rows'[Cur(p)].state = "deleted"
    BY <1>5, <2>1 DEF DeleteRow, SetRow, Typed, TypeOK, SlotRow
  <2>. QED
    BY <1>3, <2>1, <2>2 DEF Queued
<1>6. CASE Enqueue(p)
  <2>1. Cur(p) \in Session /\ At(p, "enqueue")
    BY <1>6 DEF Enqueue, At, Typed, Works, Cur
  <2>2. CASE ~Exists(Cur(p))
    BY <1>6, <2>2 DEF Enqueue, Queued
  <2>3. CASE Exists(Cur(p))
    <3>1. queue' = Append(d, Cur(p))
      BY <1>6, <2>3 DEF Enqueue, d
    <3>2. /\ DOMAIN queue' = 1 .. Len(d) + 1 /\ DOMAIN d = 1 .. Len(d) /\ Len(d) \in Nat
          /\ \A i \in 1 .. Len(d) : queue'[i] = d[i]
          /\ queue'[Len(d) + 1] = Cur(p)
      BY <1>3, <2>1, <3>1
    <3>3. ASSUME NEW i \in DOMAIN queue'
          PROVE  \/ \E j \in DOMAIN queue : queue'[i] = queue[j]
                 \/ queue'[i] = Cur(p)
      BY <1>3, <3>2
    <3>4. ASSUME NEW t, Queued(t) PROVE Queued(t)'
      <4>1. CASE t = Cur(p)
        BY <3>2, <4>1 DEF Queued
      <4>2. CASE t # Cur(p)
        BY <1>3, <3>2, <3>4, <4>2 DEF Queued
      <4>. QED
        BY <4>1, <4>2
    <3>5. ASSUME NEW t, t = Cur(p) PROVE Queued(t)'
      BY <3>2, <3>5 DEF Queued
    <3>. QED
      BY <2>1, <2>3, <3>3, <3>4, <3>5
  <2>. QED
    BY <2>2, <2>3
<1>7. UNCHANGED queue \/ Drop(p) \/ Done(p) \/ FailDrop(p) \/ DeleteRow(p) \/ Enqueue(p)
  BY DEF Continues, MakeNew, Insert, SpawnNew, SpawnNewFails, FailNew, RemoveNew, ListQueue,
         Look, Make, Attach, Launch, FailState, Resolve, StopPid, StopState, RemoveTree, Clear,
         Requeue, Respawn, RemoveGone
<1>8. At(p, "enqueue") => Enqueue(p)
  BY DEF Continues, MakeNew, Insert, Enqueue, SpawnNew, SpawnNewFails, FailNew,
         RemoveNew, ListQueue, Look, Drop, Make, Attach, Launch, Done, FailDrop, FailState,
         Resolve, StopPid, StopState, RemoveTree, Clear, Requeue, Respawn, RemoveGone,
         DeleteRow, At
<1>. QED
  BY <1>2, <1>4, <1>5, <1>6, <1>7, <1>8

LEMMA KnownInit == Init => Known
  BY NoSessionAssumption DEF Init, Known, KnowsBorn, Idle, Unborn, Cur, Born, Employed

(* What a process knows it goes on to know.                                 *)
LEMMA KnowsBornLater ==
  ASSUME Typed, RowsEvolve, NEW w \in Proc, KnowsBorn(w) PROVE KnowsBorn(w)'
<1>1. \A i \in DOMAIN w.list : w.list[i] \in Session
  <2>1. w.list \in Seq(Session)
    BY DEF Proc
  <2>. QED
    BY <2>1, LenProperties, ElementOfSeq
<1>2. \A s \in Session : Born(s) => Born(s)'
  BY DEF RowsEvolve
<1>. QED
  BY <1>1, <1>2 DEF KnowsBorn, Unborn

(* A step of process p, after which it knows born sessions only.            *)
LEMMA KnownAfterMove ==
  ASSUME Typed, Known, NEW p \in Process, Moves(p), RowsEvolve,
         \A t \in Session : t # Cur(p) => rows'[t] = rows[t],
         \A i \in DOMAIN proc'[p].list : rows'[proc'[p].list[i]].state # "absent",
         ~Unborn(proc'[p]) /\ proc'[p].cur \in Session => rows'[proc'[p].cur].state # "absent",
         Unborn(proc'[p]) => rows'[proc'[p].cur].state = "absent",
         \A i \in DOMAIN queue' : rows'[queue'[i]].state # "absent",
         UNCHANGED runner \/ (Cur(p) \in Session /\ Hires(p) /\ Born(Cur(p))),
         \A q \in Process \ {p} :
           proc'[p].op = "create" /\ proc[q].op = "create" => proc'[p].cur # proc[q].cur
  PROVE  Known'
<1>1. \A q \in Process \ {p} : proc'[q] = proc[q] /\ proc[q] \in Proc /\ Works(proc[q])
  BY DEF Moves, Typed, TypeOK
<1>2. \A s \in Session : Born(s) => Born(s)'
  BY DEF RowsEvolve
<1>3. ASSUME NEW q \in Process PROVE KnowsBorn(proc[q])'
  <2>1. CASE q = p
    BY <2>1 DEF KnowsBorn, Born
  <2>2. CASE q # p
    <3>1. KnowsBorn(proc[q])
      BY DEF Known
    <3>2. \A w \in Proc : KnowsBorn(w) => KnowsBorn(w)'
      BY KnowsBornLater
    <3>. QED
      BY <1>1, <2>2, <3>1, <3>2
  <2>. QED
    BY <2>1, <2>2
<1>4. ASSUME NEW q \in Process, Unborn(proc'[q]) PROVE rows'[proc'[q].cur].state = "absent"
  <2>1. CASE q = p
    BY <1>4, <2>1
  <2>2. CASE q # p
    <3>1. Unborn(proc[q]) /\ proc[q].op = "create" /\ proc[q].cur \in Session
          /\ rows[proc[q].cur].state = "absent"
      BY <1>1, <1>4, <2>2 DEF Unborn, Works, Creating, Known, Born, Cur
    <3>2. CASE proc[p].cur = proc[q].cur
      <4>1. proc[p].op # "create"
        BY <2>2, <3>1, <3>2 DEF Known, Cur
      <4>2. ~Unborn(proc[p])
        BY <4>1 DEF Unborn, Creating, Typed, Works
      <4>. QED
        BY <3>1, <3>2, <4>2 DEF Known, KnowsBorn, Born
    <3>3. CASE proc[p].cur # proc[q].cur
      BY <1>1, <2>2, <3>1, <3>3 DEF Cur
    <3>. QED
      BY <3>2, <3>3
  <2>. QED
    BY <2>1, <2>2
<1>5. ASSUME NEW r \in Runner, runner'[r].pc \in Employed
      PROVE  rows'[runner'[r].job].state # "absent"
  <2>1. CASE runner'[r] = runner[r]
    <3>1. runner[r].job \in Session /\ Born(runner[r].job)
      BY <1>5, <2>1 DEF Typed, Known
    <3>. QED
      BY <1>2, <2>1, <3>1 DEF Born
  <2>2. CASE runner'[r] # runner[r]
    <3>1. Cur(p) \in Session /\ Born(Cur(p)) /\ runner'[r].job = Cur(p)
      BY <2>2 DEF Hires
    <3>. QED
      BY <1>2, <3>1 DEF Born
  <2>. QED
    BY <2>1, <2>2
<1>6. ASSUME NEW q \in Process, NEW t \in Process,
             proc'[q].op = "create", proc'[t].op = "create", proc'[q].cur = proc'[t].cur
      PROVE  q = t
  BY <1>1, <1>6 DEF Known, Cur
<1>. QED
  BY <1>3, <1>4, <1>5, <1>6 DEF Known, Born, Cur

LEMMA KnownContinues == ASSUME Typed, Known, NEW p \in Process, Continues(p) PROVE Known'
<1>1. /\ Moves(p) /\ proc'[p] \in Proc /\ Works(proc'[p]) /\ proc[p] \in Proc /\ Works(proc[p])
  BY ContinuesMove DEF Moves, Typed, TypeOK
<1>2. RowsEvolve /\ \A t \in Session : t # Cur(p) => rows'[t] = rows[t]
  BY ContinuesEvolve
<1>3. \A s \in Session : Born(s) => rows'[s].state # "absent"
  BY <1>2 DEF RowsEvolve, Born
<1>4. /\ \A i \in DOMAIN queue : Born(queue[i]) /\ queue[i] \in Session
      /\ \A i \in DOMAIN proc[p].list : Born(proc[p].list[i]) /\ proc[p].list[i] \in Session
  <2>1. queue \in Seq(Session) /\ proc[p].list \in Seq(Session)
    BY <1>1 DEF Typed, TypeOK, Proc
  <2>. QED
    BY <2>1, LenProperties, ElementOfSeq DEF Known, KnowsBorn
<1>5. \A i \in DOMAIN queue' : rows'[queue'[i]].state # "absent"
  <2>1. \A i \in DOMAIN queue' : \/ \E j \in DOMAIN queue : queue'[i] = queue[j]
                                 \/ queue'[i] = Cur(p) /\ At(p, "enqueue")
    BY QueueEvolves
  <2>2. At(p, "enqueue") => Cur(p) \in Session /\ Born(Cur(p))
    BY <1>1 DEF At, Works, Cur, Known, KnowsBorn, Unborn
  <2>. QED
    BY <1>3, <1>4, <2>1, <2>2
<1>6. UNCHANGED runner \/ (Cur(p) \in Session /\ Hires(p) /\ Born(Cur(p)))
  <2>1. CASE UNCHANGED runner
    BY <2>1
  <2>2. CASE ~UNCHANGED runner
    <3>1. SpawnNew(p) \/ Launch(p) \/ Respawn(p)
      BY <2>2 DEF Continues, MakeNew, Insert, Enqueue, SpawnNewFails, FailNew, RemoveNew,
           ListQueue, Look, Drop, Make, Attach, Done, FailDrop, FailState, Resolve, StopPid,
           StopState, RemoveTree, Clear, Requeue, RemoveGone, DeleteRow
    <3>2. ~Unborn(proc[p])
      BY <3>1 DEF SpawnNew, Launch, Respawn, At, Unborn
    <3>. QED
      BY <2>2, <3>2, ContinuesTyped DEF Known, KnowsBorn, Cur
  <2>. QED
    BY <2>1, <2>2
<1>7. Insert(p) => rows'[proc[p].cur].state = "pending"
  BY <1>1 DEF Insert, SetRow, At, Works, Cur, Typed, TypeOK
<1>8. /\ \A i \in DOMAIN proc'[p].list : rows'[proc'[p].list[i]].state # "absent"
      /\ ~Unborn(proc'[p]) /\ proc'[p].cur \in Session => rows'[proc'[p].cur].state # "absent"
      /\ Unborn(proc'[p]) => rows'[proc'[p].cur].state = "absent"
      /\ proc'[p].op = "create" => proc[p].op = "create" /\ proc'[p].cur = proc[p].cur
  <2>1. CASE proc'[p] = Idle
    BY <2>1, NoSessionAssumption DEF Idle, Unborn
  <2>2. CASE Stays(p)
    <3>1. Unborn(proc'[p]) => rows'[proc'[p].cur].state = "absent"
      BY <2>2 DEF Stays, Known, Cur, Born, At, Unborn
    <3>2. CASE Unborn(proc[p]) /\ ~Unborn(proc'[p])
      <4>1. Insert(p)
        <5>1. MakeNew(p) \/ Insert(p)
          BY <3>2 DEF Continues, Enqueue, SpawnNew, SpawnNewFails, FailNew,
             RemoveNew, ListQueue, Look, Drop, Make, Attach, Launch, Done, FailDrop, FailState,
             Resolve, StopPid, StopState, RemoveTree, Clear, Requeue, Respawn, RemoveGone,
             DeleteRow, At, Unborn
        <5>2. MakeNew(p) => proc'[p].at = "insert" \/ proc'[p] = Idle
          BY <1>1, FinishMoves DEF MakeNew, Typed, TypeOK, Proc
        <5>3. MakeNew(p) => proc'[p].cur # None
          BY <1>1, <2>2, NoSessionAssumption DEF MakeNew, Stays, At, Works
        <5>. QED
          BY <3>2, <5>1, <5>2, <5>3 DEF Unborn, Idle
      <4>. QED
        BY <1>3, <1>4, <1>7, <2>2, <3>2, <4>1 DEF Stays
    <3>3. CASE ~Unborn(proc[p])
      BY <1>3, <1>4, <2>2, <3>1, <3>3 DEF Stays, Known, KnowsBorn
    <3>4. CASE Unborn(proc'[p])
      BY <1>3, <1>4, <2>2, <3>1, <3>4 DEF Stays
    <3>. QED
      BY <3>2, <3>3, <3>4
  <2>3. CASE TakesNext(p)
    <3>1. /\ Head(proc[p].list) = proc[p].list[1] /\ 1 \in DOMAIN proc[p].list
          /\ \A i \in DOMAIN Tail(proc[p].list) :
               i + 1 \in DOMAIN proc[p].list /\ Tail(proc[p].list)[i] = proc[p].list[i + 1]
      BY <1>1, <2>3, HeadAndTail DEF TakesNext, Proc
    <3>2. ~Unborn(proc'[p]) /\ proc'[p].op # "create"
      BY <1>1, <2>3 DEF TakesNext, Unborn, Works, Creating
    <3>. QED
      BY <1>3, <1>4, <2>3, <3>1, <3>2 DEF TakesNext
  <2>4. CASE TakesQueue(p)
    <3>1. ~Unborn(proc'[p]) /\ proc'[p].op # "create"
      BY <1>1, <2>4 DEF TakesQueue, Unborn, Works, Creating
    <3>. QED
      BY <1>3, <1>4, <2>4, <3>1 DEF TakesQueue
  <2>. QED
    BY <2>1, <2>2, <2>3, <2>4, Proceeds
<1>9. \A q \in Process \ {p} :
        proc'[p].op = "create" /\ proc[q].op = "create" => proc'[p].cur # proc[q].cur
  BY <1>8 DEF Known, Cur
<1>. QED
  BY <1>1, <1>2, <1>5, <1>6, <1>8, <1>9, KnownAfterMove

LEMMA KnownStarts == ASSUME Typed, Known, NEW p \in Process, Starts(p) PROVE Known'
<1>1. Moves(p) /\ UNCHANGED <<rows, queue, runner>> /\ RowsEvolve
  BY StartsMove, StartsOnlyMove, UnchangedRowsEvolve
<1>2. proc'[p] \in Proc /\ Works(proc'[p])
  BY <1>1 DEF Moves
<1>3. \A i \in DOMAIN queue' : rows'[queue'[i]].state # "absent"
  BY <1>1 DEF Known, Born
<1>4. ASSUME /\ \A i \in DOMAIN proc'[p].list : rows[proc'[p].list[i]].state # "absent"
             /\ ~Unborn(proc'[p]) /\ proc'[p].cur \in Session =>
                  rows[proc'[p].cur].state # "absent"
             /\ Unborn(proc'[p]) => rows[proc'[p].cur].state = "absent"
             /\ \A q \in Process \ {p} :
                  proc'[p].op = "create" /\ proc[q].op = "create" => proc'[p].cur # proc[q].cur
      PROVE  Known'
  BY <1>1, <1>3, <1>4, KnownAfterMove
<1>5. CASE StartCreate(p)
  <2>1. PICK s \in Session :
          /\ rows[s].state = "absent"
          /\ \A q \in Process : proc[q].op = "create" => Cur(q) # s
          /\ Begin(p, "create", IF FreeSlots > 0 THEN "makeNew" ELSE "insert", s)
    BY <1>5 DEF StartCreate
  <2>2. FreeSlots \in 0 .. MaxWorktrees /\ ~rows[s].worktree
    BY <2>1, FreeSlotsType DEF Typed
  <2>3. FreeSlots > 0 => MaxWorktrees >= 1
    BY <2>2, MaxWorktreesAssumption
  <2>4. PICK step \in {"makeNew", "insert"} :
          Begin(p, "create", step, s) /\ (step = "makeNew" => MaxWorktrees >= 1)
    BY <2>1, <2>3
  <2>5. proc'[p].at = step /\ proc'[p].cur = s /\ proc'[p].list = <<>>
    BY <2>2, <2>4, BeginMoves DEF Operation, ProcStep, Creating, Activating
  <2>. QED
    BY <1>4, <2>1, <2>5 DEF Unborn, Cur
<1>6. CASE StartActivate(p)
  <2>1. proc'[p].at = "list" /\ proc'[p].list = <<>> /\ proc'[p].cur = None
    <3>1. proc'[p].at = "list" /\ proc'[p].list = <<>>
      BY <1>6, ActivateMoves
    <3>2. ASSUME NEW i \in Proc
          PROVE  [i EXCEPT !.op = "activate", !.at = "list", !.slots = FreeSlots].cur = i.cur
      BY DEF Proc
    <3>3. Idle \in Proc /\ Idle.cur = None
      BY MaxWorktreesAssumption DEF Idle, Proc, ProcStep
    <3>. QED
      BY <1>6, <3>1, <3>2, <3>3 DEF StartActivate, Typed, TypeOK
  <2>2. proc'[p].op # "create" /\ ~Unborn(proc'[p])
    BY <1>2, <2>1 DEF Works, Creating, Unborn
  <2>. QED
    BY <1>4, <2>1, <2>2, NoSessionAssumption
<1>7. CASE StartPrune(p)
  <2>1. \A s \in Attached : rows[s].state # "absent"
    BY DEF Attached, Typed
  <2>2. proc'[p].op # "create" /\ ~Unborn(proc'[p])
    BY <1>2, <1>7, PruneMoves DEF Works, Creating, Unborn
  <2>. QED
    BY <1>4, <1>7, <2>1, <2>2, PruneMoves
<1>8. CASE StartStop(p) \/ StartCleanup(p) \/ StartResume(p) \/ StartDelete(p)
  <2>1. PICK name \in {"stop", "cleanup", "resume", "delete"}, s \in Session,
             step \in {"stopPid", "resolve", "requeue", "removeGone", "deleteRow"} :
          Begin(p, name, step, s) /\ Exists(s)
    BY <1>8 DEF StartStop, StartCleanup, StartResume, StartDelete
  <2>2. proc'[p].at = step /\ proc'[p].cur = s /\ proc'[p].list = <<>>
    BY <2>1, BeginMoves DEF Operation, ProcStep, Creating, Activating
  <2>3. rows[s].state # "absent"
    BY <2>1 DEF Exists, Present, SessionState
  <2>4. proc'[p].op # "create" /\ ~Unborn(proc'[p])
    BY <1>2, <2>1, <2>2 DEF Works, Creating, Unborn
  <2>. QED
    BY <1>4, <2>2, <2>3, <2>4
<1>. QED
  BY <1>5, <1>6, <1>7, <1>8 DEF Starts

LEMMA KnownNext == Typed /\ Known /\ [Next]_vars => Known'
<1>. SUFFICES ASSUME Typed, Known, [Next]_vars PROVE Known'
  OBVIOUS
<1>1. ASSUME NEW p \in Process, Crash(p) PROVE Known'
  <2>1. Moves(p) /\ proc'[p] = Idle /\ RowsEvolve /\ UNCHANGED <<rows, queue, runner>>
    BY <1>1, CrashMoves, UnchangedRowsEvolve DEF Crash
  <2>2. Idle.list = <<>> /\ Idle.cur = None /\ Idle.op = "none" /\ ~Unborn(Idle)
    BY DEF Idle, Unborn
  <2>3. \A i \in DOMAIN queue' : rows'[queue'[i]].state # "absent"
    BY <2>1 DEF Known, Born
  <2>. QED
    BY <2>1, <2>2, <2>3, KnownAfterMove, NoSessionAssumption
<1>2. ASSUME RowsEvolve, UNCHANGED <<proc, queue>>,
             \A s \in Session : Born(s)' => Born(s),
             UNCHANGED runner \/ \E r \in Runner : RunnerMoves(r)
      PROVE  Known'
  <2>1. \A s \in Session : Born(s)' <=> Born(s)
    BY <1>2 DEF RowsEvolve
  <2>2. ASSUME NEW q \in Process PROVE KnowsBorn(proc[q])'
    <3>1. proc[q] \in Proc /\ KnowsBorn(proc[q])
      BY DEF Typed, TypeOK, Known
    <3>2. \A w \in Proc : KnowsBorn(w) => KnowsBorn(w)'
      BY <1>2, KnowsBornLater
    <3>. QED
      BY <1>2, <3>1, <3>2
  <2>3. \A q \in Process : Unborn(proc'[q]) => ~Born(Cur(q))'
    BY <1>2, <2>1 DEF Known, Cur, Typed, Works, Unborn, Born
  <2>4. \A i \in DOMAIN queue' : Born(queue[i])'
    <3>1. queue \in Seq(Session)
      BY DEF Typed, TypeOK
    <3>2. \A i \in DOMAIN queue : queue[i] \in Session
      BY <3>1, LenProperties, ElementOfSeq
    <3>. QED
      BY <1>2, <2>1, <3>2 DEF Known, Born
  <2>5. \A r \in Runner : runner'[r].pc \in Employed => Born(runner[r].job)'
    <3>1. ASSUME NEW r \in Runner, runner'[r].pc \in Employed
          PROVE  runner[r].pc \in Employed /\ runner'[r].job = runner[r].job
      BY <1>2, <3>1 DEF RunnerMoves
    <3>. QED
      BY <2>1, <3>1 DEF Known, Typed, Born
  <2>. QED
    BY <1>2, <2>2, <2>3, <2>4, <2>5 DEF Known, Cur
<1>3. ASSUME NEW r \in Runner, RunnerStep(r) PROVE Known'
  <2>1. RunnerMoves(r) /\ RowsEvolve /\ \A t \in Session \ {runner[r].job} : rows'[t] = rows[t]
    BY <1>3, RunnerEvolves
  <2>2. Born(runner[r].job)
    BY <2>1 DEF RunnerMoves, Known
  <2>. QED
    BY <1>2, <1>3, <2>1, <2>2 DEF RunnerStep, Born
<1>4. ASSUME NEW r \in Runner, RunnerCrash(r) PROVE Known'
  BY <1>2, <1>4, RunnerCrashTyped, UnchangedRowsEvolve DEF RunnerCrash, Born
<1>5. ASSUME NEW s \in Session, GoesStale(s) PROVE Known'
  <2>1. RowsEvolve /\ \A t \in Session \ {s} : rows'[t] = rows[t]
    BY <1>5, StaleEvolves
  <2>. QED
    BY <1>2, <1>5, <2>1 DEF GoesStale, Born
<1>6. CASE UNCHANGED vars
  BY <1>2, <1>6, UnchangedRowsEvolve DEF vars, Born
<1>. QED
  BY <1>1, <1>3, <1>4, <1>5, <1>6, KnownContinues, KnownStarts DEF Next

-----------------------------------------------------------------------------
(* NO PENDING SESSION IS FORGOTTEN                                          *)

(* Who does not move goes on carrying.                                      *)
LEMMA CarriedByOthers ==
  ASSUME Typed, NEW p \in Process, Moves(p), UNCHANGED runner \/ Hires(p), lost \subseteq lost',
         NEW s, Carried(s), ~(Cur(p) = s /\ proc[p].at \in Carrying)
  PROVE  Carried(s)'
<1>1. CASE \E q \in Process : Cur(q) = s /\ proc[q].at \in Carrying
  BY <1>1 DEF Moves, Carried, Cur
<1>2. CASE \E r \in Runner : runner[r].job = s /\ runner[r].pc \in Coming
  <2>1. PICK r \in Runner : runner[r].job = s /\ runner[r].pc \in Coming
    BY <1>2
  <2>2. runner'[r] = runner[r]
    BY <2>1 DEF Hires, Coming
  <2>. QED
    BY <2>1, <2>2 DEF Carried
<1>. QED
  BY <1>1, <1>2 DEF Carried

LEMMA CarriedNow ==
  ASSUME NEW s,
         \/ \E p \in Process : proc'[p].cur = s /\ proc'[p].at \in Carrying
         \/ \E p \in Process : Cur(p) = s /\ Hires(p)
         \/ s \in lost'
  PROVE  Carried(s)'
  BY DEF Carried, Cur, Hires, Coming

(* Whoever else is enqueuing goes on doing so.                              *)
LEMMA EnqueuingByOthers ==
  ASSUME NEW p \in Process, Moves(p), NEW s, Enqueuing(s), ~(Cur(p) = s /\ At(p, "enqueue"))
  PROVE  Enqueuing(s)'
  BY DEF Moves, Enqueuing, Cur, At

(* A step that changes nothing for s, and neither carries nor drops it.     *)
LEMMA RememberedWhenQuiet ==
  ASSUME Typed, NEW p \in Process, Moves(p), UNCHANGED runner \/ Hires(p), lost \subseteq lost',
         NEW s \in Session, Remembered(s),
         ~(Cur(p) = s /\ proc[p].at \in Carrying \cup {"enqueue"}),
         proc'[p].cur = s => proc'[p].at \notin {"drop", "done"},
         Queued(s) => Queued(s)',
         rows'[s].state = "pending" =>
           /\ rows[s].state = "pending"
           /\ rows'[s].worktree \/ rows'[s].pid => rows[s].worktree \/ rows[s].pid
  PROVE  Remembered(s)'
<1>. SUFFICES ASSUME rows'[s].state = "pending" PROVE Remembered(s)'
  BY DEF Remembered
<1>1. Carried(s) => Carried(s)'
  BY CarriedByOthers
<1>2. Enqueuing(s) => Enqueuing(s)'
  BY EnqueuingByOthers DEF At
<1>3. \A q \in Process : proc'[q].cur = s /\ proc'[q].at \in {"drop", "done"} => Carried(s)'
  BY <1>1 DEF Moves, Remembered, Cur
<1>. QED
  BY <1>1, <1>2, <1>3 DEF Remembered, Cur

LEMMA RememberedWhenCarried == ASSUME NEW s, Carried(s)' PROVE Remembered(s)'
  BY DEF Remembered

LEMMA RememberedWhenNotPending ==
  ASSUME NEW s, rows'[s].state # "pending" PROVE Remembered(s)'
  BY DEF Remembered

LEMMA LostKept == ASSUME NEW p \in Process, Continues(p) PROVE lost \subseteq lost'
  BY DEF Continues, MakeNew, Insert, Enqueue, SpawnNew, SpawnNewFails, FailNew, RemoveNew,
         ListQueue, Look, Drop, Make, Attach, Launch, Done, FailDrop, FailState, Resolve,
         StopPid, StopState, RemoveTree, Clear, Requeue, Respawn, RemoveGone, DeleteRow

(* A step of p at another session.                                          *)
LEMMA RememberedElsewhere ==
  ASSUME Typed, NEW p \in Process, Continues(p), NEW s \in Session, Remembered(s), Cur(p) # s
  PROVE  Remembered(s)'
<1>1. /\ Moves(p) /\ (UNCHANGED runner \/ Hires(p)) /\ rows'[s] = rows[s] /\ lost \subseteq lost'
  BY ContinuesMove, ContinuesTyped, ContinuesEvolve, LostKept
<1>2. CASE rows'[s].state = "deleted"
  BY <1>2, RememberedWhenNotPending
<1>3. CASE rows'[s].state # "deleted"
  <2>1. Queued(s) => Queued(s)'
    BY <1>3, QueueEvolves
  <2>2. proc'[p].cur = s => proc'[p].at \notin {"drop", "done"}
    BY NoSessionAssumption, Proceeds DEF Idle, Stays, TakesNext, TakesQueue, Cur
  <2>. QED
    BY <1>1, <2>1, <2>2, RememberedWhenQuiet
<1>. QED
  BY <1>2, <1>3

(* A step of p at the session itself.                                       *)
LEMMA RememberedHere ==
  ASSUME Typed, Known, NEW p \in Process, Continues(p), NEW s \in Session, Remembered(s),
         Cur(p) = s
  PROVE  Remembered(s)'
<1>. SUFFICES ASSUME rows'[s].state = "pending" PROVE Remembered(s)'
  BY RememberedWhenNotPending
<1>1. /\ Moves(p) /\ (UNCHANGED runner \/ Hires(p)) /\ lost \subseteq lost'
      /\ proc[p] \in Proc /\ Works(proc[p]) /\ rows[s] \in SlotRow
  BY ContinuesMove, ContinuesTyped, LostKept DEF Typed, TypeOK
<1>2. ASSUME NEW step \in Carrying, Go(p, step) PROVE Remembered(s)'
  <2>1. proc'[p].cur = s /\ proc'[p].at = step
    BY <1>1, <1>2 DEF Go, Cur, Typed, TypeOK, Proc
  <2>. QED
    BY <1>2, <2>1, CarriedNow, RememberedWhenCarried
<1>3. CASE \/ (MakeNew(p) /\ ~Finish(p)) \/ (RemoveNew(p) /\ Finish(p)) \/ (Resolve(p) /\ Finish(p))
           \/ (MakeNew(p) /\ Finish(p)) \/ (ListQueue(p) /\ Finish(p))
  <2>1. proc'[p].at \in {"insert", "idle"}
    BY <1>1, <1>3, FinishMoves DEF MakeNew, Idle, Typed, TypeOK, Proc
  <2>2. proc[p].at \notin Carrying \cup {"enqueue"} /\ UNCHANGED <<queue, rows>>
    BY <1>3 DEF MakeNew, RemoveNew, Resolve, ListQueue, At, Carrying
  <2>. QED
    BY <1>1, <2>1, <2>2, RememberedWhenQuiet DEF Queued
<1>4. CASE \/ (Resolve(p) \/ ListQueue(p)) /\ ~Finish(p)
           \/ RemoveTree(p) \/ RemoveGone(p)
  <2>1. proc'[p].at \in {"look", "resolve", "stopPid", "remove", "clear", "deleteRow", "idle"}
    <3>1. CASE NextOfPass(p, "resolve") /\ Resolve(p)
      BY <3>1, NextOfPassMoves DEF Resolve, At, Activating, Creating, Idle
    <3>2. CASE ~(NextOfPass(p, "resolve") /\ Resolve(p))
      BY <1>1, <1>4, <3>2 DEF Resolve, ListQueue, RemoveTree, RemoveGone, Go, Typed, TypeOK, Proc
    <3>. QED
      BY <3>1, <3>2
  <2>2. proc[p].at \notin Carrying \cup {"enqueue"} /\ UNCHANGED <<queue, rows>>
    BY <1>4 DEF Resolve, ListQueue, RemoveTree, RemoveGone, At, Carrying
  <2>. QED
    BY <1>1, <2>1, <2>2, RememberedWhenQuiet DEF Queued
<1>5. CASE StopPid(p) \/ Clear(p)
  <2>1. proc'[p].at \in {"stopState", "resolve", "idle"}
    <3>1. CASE NextOfPass(p, "resolve") /\ Clear(p)
      BY <3>1, NextOfPassMoves DEF Clear, At, Activating, Creating, Idle
    <3>2. CASE ~(NextOfPass(p, "resolve") /\ Clear(p))
      BY <1>1, <1>5, <3>2, FinishMoves DEF StopPid, Clear, Go, Idle, Typed, TypeOK, Proc
    <3>. QED
      BY <3>1, <3>2
  <2>2. proc[p].at \notin Carrying \cup {"enqueue"} /\ UNCHANGED queue
    BY <1>5 DEF StopPid, Clear, At, Carrying
  <2>3. /\ rows[s].state = "pending"
        /\ rows'[s].worktree \/ rows'[s].pid => rows[s].worktree \/ rows[s].pid
    BY <1>1, <1>5 DEF StopPid, Clear, SetRow, SlotRow, Typed, TypeOK, Cur
  <2>. QED
    BY <1>1, <2>1, <2>2, <2>3, RememberedWhenQuiet DEF Queued
<1>6. CASE Insert(p)
  <2>1. CASE proc[p].worktree
    BY <1>2, <1>6, <2>1 DEF Insert, Carrying
  <2>2. CASE ~proc[p].worktree
    <3>1. Go(p, "enqueue") /\ rows' = [rows EXCEPT ![s] = [state |-> "pending", pid |-> FALSE,
                                                          worktree |-> proc[p].worktree]]
      BY <1>6, <2>2 DEF Insert, SetRow
    <3>2. proc'[p].cur = s /\ proc'[p].at = "enqueue"
      BY <1>1, <3>1 DEF Go, Cur, Typed, TypeOK, Proc
    <3>3. ~rows'[s].worktree /\ ~rows'[s].pid
      BY <2>2, <3>1 DEF Typed, TypeOK
    <3>4. ASSUME NEW q \in Process PROVE ~(proc'[q].cur = s /\ proc'[q].at \in {"drop", "done"})
      <4>1. CASE q = p
        BY <3>2, <4>1
      <4>2. CASE q # p
        <5>1. proc'[q] = proc[q] /\ ~Born(s)
          BY <1>1, <1>6, <4>2 DEF Moves, Insert, At, Known, Unborn
        <5>2. Cur(q) = s => Unborn(proc[q])
          BY <5>1 DEF Known, KnowsBorn, Cur
        <5>. QED
          BY <5>1, <5>2 DEF Unborn, Cur
      <4>. QED
        BY <4>1, <4>2
    <3>5. Enqueuing(s)'
      BY <3>2 DEF Enqueuing, Cur, At
    <3>. QED
      BY <3>3, <3>4, <3>5 DEF Remembered, Cur
  <2>. QED
    BY <2>1, <2>2
<1>7. CASE Enqueue(p)
  <2>1. At(p, "enqueue") /\ Exists(s) /\ proc'[p] = Idle /\ UNCHANGED rows
    BY <1>1, <1>7, FinishMoves DEF Enqueue, Exists, Present, SessionState
  <2>2. Queued(s)'
    BY <2>1, QueueEvolves
  <2>3. Carried(s) => Carried(s)'
    BY <1>1, <2>1, CarriedByOthers DEF At, Carrying
  <2>4. \A q \in Process : proc'[q].cur = s /\ proc'[q].at \in {"drop", "done"} => Carried(s)'
    BY <1>1, <2>1, <2>3 DEF Moves, Remembered, Cur, Idle
  <2>. QED
    BY <2>1, <2>2, <2>3, <2>4 DEF Remembered, Cur
<1>8. CASE SpawnNew(p) \/ Launch(p)
  <2>1. Spawn(Cur(p))
    BY <1>8 DEF SpawnNew, Launch
  <2>. QED
    BY <2>1, SpawnHires, CarriedNow, RememberedWhenCarried
<1>9. CASE Respawn(p)
  BY <1>9, SpawnHires, CarriedNow, RememberedWhenCarried DEF Respawn
<1>10. CASE SpawnNewFails(p) \/ Make(p) \/ Attach(p) \/ FailDrop(p)
  BY <1>2, <1>10 DEF SpawnNewFails, Make, Attach, FailDrop, Carrying
<1>11. CASE Requeue(p)
  <2>1. CASE Exists(s)
    BY <1>2, <1>11, <2>1 DEF Requeue, Carrying
  <2>2. CASE ~Exists(s)
    BY <1>11, <2>2 DEF Requeue, Exists, Present, SessionState
  <2>. QED
    BY <2>1, <2>2
<1>12. CASE FailNew(p) \/ FailState(p)
  <2>1. CASE UNCHANGED rows
    BY <1>12, <2>1 DEF FailNew, FailState, SetRow, Exists, Present, SessionState, CanTransition,
         Typed, TypeOK, SlotRow
  <2>2. CASE ~UNCHANGED rows
    <3>1. SetRow(s, [rows[s] EXCEPT !.state = "failed"])
      BY <1>12, <2>2 DEF FailNew, FailState
    <3>. QED
      BY <1>1, <3>1 DEF SetRow, SlotRow, Typed, TypeOK
  <2>. QED
    BY <2>1, <2>2
<1>13. CASE StopState(p)
  <2>1. CASE Exists(s)
    BY <1>1, <1>13, <2>1 DEF StopState, SetRow, SlotRow, Typed, TypeOK
  <2>2. CASE ~Exists(s)
    BY <1>13, <2>2 DEF StopState, Exists, Present, SessionState
  <2>. QED
    BY <2>1, <2>2
<1>14. CASE DeleteRow(p)
  <2>1. UNCHANGED <<rows, queue>>
    <3> DEFINE row == [rows[s] EXCEPT !.state = "deleted", !.pid = FALSE, !.worktree = FALSE]
    <3>1. row.state = "deleted"
      BY <1>1 DEF SlotRow
    <3>. HIDE DEF row
    <3>2. SetRow(s, row) => rows'[s] = row
      BY DEF SetRow, Typed, TypeOK
    <3>3. ~SetRow(s, row)
      BY <3>1, <3>2
    <3>. QED
      BY <1>14, <3>3 DEF DeleteRow, row
  <2>2. proc'[p] = Idle /\ proc[p].at = "deleteRow"
    BY <1>14, FinishMoves DEF DeleteRow, At
  <2>. QED
    BY <1>1, <2>1, <2>2, RememberedWhenQuiet DEF Queued, Carrying, Idle
<1>15. CASE Look(p)
  <2>1. proc'[p].at \in {"make", "drop"} /\ proc'[p].cur = s
    BY <1>1, <1>15 DEF Look, Go, Cur, Typed, TypeOK, Proc
  <2>2. proc[p].at = "look" /\ UNCHANGED <<rows, queue>>
    BY <1>15 DEF Look, At
  <2>3. CASE proc'[p].at = "make"
    BY <1>1, <2>2, <2>3, RememberedWhenQuiet DEF Queued, Carrying
  <2>4. CASE proc'[p].at = "drop"
    <3>1. rows[s].worktree \/ rows[s].pid
      BY <1>1, <1>15, <2>2, <2>4 DEF Look, Go, Cur, Typed, TypeOK, Proc
    <3>2. Carried(s)
      BY <2>2, <3>1 DEF Remembered
    <3>3. Carried(s)'
      BY <1>1, <2>2, <3>2, CarriedByOthers DEF Carrying
    <3>. QED
      BY <3>3, RememberedWhenCarried
  <2>. QED
    BY <2>1, <2>3, <2>4
<1>16. CASE Drop(p) \/ Done(p)
  <2>1. proc[p].at \in {"drop", "done"} /\ UNCHANGED rows
    BY <1>16 DEF Drop, Done, At
  <2>2. Carried(s)
    BY <2>1 DEF Remembered
  <2>3. Carried(s)'
    BY <1>1, <2>1, <2>2, CarriedByOthers DEF Carrying
  <2>. QED
    BY <2>3, RememberedWhenCarried
<1>17. CASE RemoveNew(p)
  BY <1>3, <1>17 DEF RemoveNew
<1>. QED
  BY <1>3, <1>4, <1>5, <1>6, <1>7, <1>8, <1>9, <1>10, <1>11, <1>12, <1>13, <1>14, <1>15, <1>16,
     <1>17 DEF Continues

(* A runner gives up a pending session only by dying.                       *)
LEMMA SettledIsNotPending ==
  ASSUME Typed, NEW s \in Session, NEW outcome \in {"completed", "failed"}, SettleRow(s, outcome)
  PROVE  rows'[s].state # "pending"
<1>1. CASE ~Exists(s)
  BY <1>1 DEF SettleRow, Exists, Present, SessionState
<1>2. CASE Exists(s)
  <2>1. PICK final \in {"failed", outcome, rows[s].state} :
          /\ \/ final = outcome
             \/ final = "failed"
             \/ final = rows[s].state /\ ~CanTransition(rows[s].state, "failed")
          /\ SetRow(s, [rows[s] EXCEPT !.pid = FALSE, !.state = final])
    BY <1>2 DEF SettleRow
  <2>2. rows[s] \in SlotRow /\ rows' = [rows EXCEPT ![s] =
                                         [rows[s] EXCEPT !.pid = FALSE, !.state = final]]
    BY <2>1 DEF SetRow, Typed, TypeOK
  <2>3. rows'[s].state = final
    BY <2>2 DEF Typed, TypeOK, SlotRow
  <2>4. final # "pending"
    BY <2>1 DEF CanTransition
  <2>. QED
    BY <2>3, <2>4
<1>. QED
  BY <1>1, <1>2

LEMMA RememberedByRunners ==
  ASSUME Typed, NEW r \in Runner, RunnerStep(r), NEW s \in Session, Remembered(s)
  PROVE  Remembered(s)'
<1>. SUFFICES ASSUME rows'[s].state = "pending" PROVE Remembered(s)'
  BY RememberedWhenNotPending
<1>1. /\ RunnerMoves(r) /\ (s # runner[r].job => rows'[s] = rows[s])
      /\ UNCHANGED <<queue, disk, proc, lost, reset>> /\ rows[s] \in SlotRow
  BY RunnerEvolves DEF RunnerStep, Typed, TypeOK
<1>2. CASE runner[r].job # s
  <2>1. Carried(s) => Carried(s)'
    BY <1>1, <1>2 DEF Carried, RunnerMoves, Cur
  <2>. QED
    BY <1>1, <1>2, <2>1 DEF Remembered, Queued, Enqueuing, Cur, At
<1>3. CASE runner[r].job = s
  <2>1. ASSUME NEW step \in {"launched", "recorded"}, RunnerGoes(r, step) PROVE Remembered(s)'
    <3>1. runner'[r].job = s /\ runner'[r].pc = step
      BY <1>1, <1>3, <2>1, RunnerGoesMoves DEF RunnerMoves, RunnerPC
    <3>2. Carried(s)'
      BY <3>1 DEF Carried, Coming
    <3>. QED
      BY <3>2, RememberedWhenCarried
  <2>2. CASE RunnerReads(r)
    BY <1>3, <2>1, <2>2 DEF RunnerReads
  <2>3. CASE RunnerRecordsPid(r)
    BY <1>3, <2>1, <2>3 DEF RunnerRecordsPid, Exists, Present, SessionState
  <2>4. CASE RunnerEntersRunning(r)
    <3>1. CASE SettleRow(s, "failed")
      BY <3>1, SettledIsNotPending
    <3>2. CASE SetRow(s, [rows[s] EXCEPT !.state = "running"])
      BY <1>1, <3>2 DEF SetRow, SlotRow, Typed, TypeOK
    <3>. QED
      BY <1>3, <2>4, <3>1, <3>2 DEF RunnerEntersRunning
  <2>5. CASE RunnerEnds(r)
    BY <1>3, <2>5, SettledIsNotPending DEF RunnerEnds
  <2>. QED
    BY <2>2, <2>3, <2>4, <2>5 DEF RunnerStep
<1>. QED
  BY <1>2, <1>3

LEMMA RememberedNext == Typed /\ Known /\ AllRemembered /\ [Next]_vars => AllRemembered'
<1>. SUFFICES ASSUME Typed, Known, AllRemembered, [Next]_vars, NEW s \in Session
              PROVE  Remembered(s)'
  BY DEF AllRemembered
<1>0. Remembered(s)
  BY DEF AllRemembered
<1>1. ASSUME NEW p \in Process, Starts(p) PROVE Remembered(s)'
  <2>1. /\ Moves(p) /\ UNCHANGED <<rows, queue, disk, runner, lost, reset>>
        /\ proc[p].at = "idle"
    BY <1>1, StartsMove, StartsOnlyMove DEF At
  <2>2. proc'[p].at \notin {"drop", "done"}
    BY <1>1, StartsAt
  <2>. QED
    BY <1>0, <2>1, <2>2, RememberedWhenQuiet DEF Queued, Carrying
<1>2. ASSUME NEW p \in Process, Continues(p) PROVE Remembered(s)'
  BY <1>0, <1>2, RememberedElsewhere, RememberedHere
<1>3. ASSUME NEW p \in Process, Crash(p) PROVE Remembered(s)'
  <2>1. Moves(p) /\ proc'[p] = Idle /\ UNCHANGED <<rows, queue, disk, runner, reset>>
    BY <1>3, CrashMoves DEF Crash
  <2>2. lost \subseteq lost' /\ (Cur(p) \in Session => Cur(p) \in lost')
    BY <1>3, CrashTyped
  <2>3. CASE Cur(p) = s
    BY <2>2, <2>3, CarriedNow, RememberedWhenCarried
  <2>4. CASE Cur(p) # s
    BY <1>0, <2>1, <2>2, <2>4, RememberedWhenQuiet DEF Queued, Idle
  <2>. QED
    BY <2>3, <2>4
<1>4. ASSUME NEW r \in Runner, RunnerStep(r) PROVE Remembered(s)'
  BY <1>0, <1>4, RememberedByRunners
<1>5. ASSUME NEW r \in Runner, RunnerCrash(r) PROVE Remembered(s)'
  <2>1. /\ RunnerMoves(r) /\ UNCHANGED <<rows, queue, disk, proc, reset>>
        /\ lost' = lost \cup {runner[r].job}
    BY <1>5, RunnerCrashTyped DEF RunnerCrash
  <2>2. CASE runner[r].job = s
    BY <2>1, <2>2, CarriedNow, RememberedWhenCarried
  <2>3. CASE runner[r].job # s
    <3>1. Carried(s) => Carried(s)'
      BY <2>1, <2>3 DEF Carried, RunnerMoves, Cur
    <3>. QED
      BY <1>0, <2>1, <3>1 DEF Remembered, Queued, Enqueuing, Cur, At
  <2>. QED
    BY <2>2, <2>3
<1>6. ASSUME NEW t \in Session, GoesStale(t) PROVE Remembered(s)'
  <2>1. rows'[t].state = "stale" /\ (s # t => rows'[s] = rows[s])
        /\ UNCHANGED <<queue, disk, runner, proc, lost, reset>>
    BY <1>6, StaleEvolves DEF GoesStale
  <2>2. CASE s = t
    BY <2>1, <2>2, RememberedWhenNotPending
  <2>3. CASE s # t
    BY <1>0, <2>1, <2>3 DEF Remembered, Queued, Enqueuing, Carried, Cur, At
  <2>. QED
    BY <2>2, <2>3
<1>7. CASE UNCHANGED vars
  BY <1>0, <1>7 DEF vars, Remembered, Queued, Enqueuing, Carried, Cur, At
<1>. QED
  BY <1>1, <1>2, <1>3, <1>4, <1>5, <1>6, <1>7 DEF Next

LEMMA RememberedInit == Init => AllRemembered
  BY DEF Init, AllRemembered, Remembered

(* A pending session is always in the queue or in somebody's hands, unless  *)
(* a process or a runner died with it.                                      *)
THEOREM PendingIsNotForgotten == Spec => []QueuedIsNotForgotten
<1>1. Typed /\ Known /\ AllRemembered /\ [Next]_vars => Typed' /\ Known' /\ AllRemembered'
  BY TypedNext, KnownNext, RememberedNext
<1>2. AllRemembered => QueuedIsNotForgotten
  BY DEF AllRemembered, Remembered, Carried, Enqueuing, Carrying, Coming, QueuedIsNotForgotten,
         Launcher, At
<1>. QED
  BY <1>1, <1>2, TypedInit, KnownInit, RememberedInit, PTL DEF Spec

-----------------------------------------------------------------------------
(* ONE RUNNER                                                               *)

(* Nobody new bids for s, no runner is started for it, and its worktree     *)
(* stays.                                                                   *)
LEMMA ExclusiveKept ==
  ASSUME NEW p \in Process, Moves(p), NEW s, Exclusive(s),
         Bids(p, s)' => Bids(p, s),
         \A r \in Runner : Serves(r, s)' => Serves(r, s),
         s \in disk => s \in disk'
  PROVE  Exclusive(s)'
<1>1. \A q \in Process : Bids(q, s)' => Bids(q, s)
  BY DEF Moves, Bids, Cur, At
<1>. QED
  BY <1>1 DEF Exclusive

(* The only bidder starts a runner.                                         *)
LEMMA ExclusiveHired ==
  ASSUME NEW p \in Process, Moves(p), NEW s, Exclusive(s), Cur(p) = s, Hires(p),
         Bids(p, s), ~Bids(p, s)', UNCHANGED disk
  PROVE  Exclusive(s)'
<1>1. \A q \in Process : ~Bids(q, s)'
  BY DEF Moves, Bids, Cur, At, Exclusive
<1>2. PICK r \in Runner : \A q \in Runner \ {r} : runner'[q] = runner[q]
  BY DEF Hires
<1>3. \A q \in Runner \ {r} : ~Serves(q, s)'
  BY <1>2 DEF Serves, Exclusive
<1>. QED
  BY <1>1, <1>3 DEF Exclusive

(* The first one makes the worktree.                                        *)
LEMMA ExclusiveMade ==
  ASSUME NEW p \in Process, Moves(p), NEW s, UNCHANGED runner, s \in disk',
         \A q \in Process \ {p} : ~Bids(q, s), \A r \in Runner : ~Serves(r, s)
  PROVE  Exclusive(s)'
<1>1. \A q \in Process \ {p} : ~Bids(q, s)'
  BY DEF Moves, Bids, Cur, At
<1>2. \A r \in Runner : ~Serves(r, s)'
  BY DEF Serves
<1>. QED
  BY <1>1, <1>2 DEF Exclusive

(* A new runner has not read the row yet.                                   *)
LEMMA SingleKept ==
  ASSUME NEW p \in Process, UNCHANGED runner \/ Hires(p), NEW s, Single(s) PROVE Single(s)'
<1>1. \A r \in Runner : Runs(r, s)' => Runs(r, s)
  BY DEF Runs, Hires
<1>. QED
  BY <1>1 DEF Single

LEMMA ResetKept == ASSUME NEW p \in Process, Continues(p) PROVE reset \subseteq reset'
  BY DEF Continues, MakeNew, Insert, Enqueue, SpawnNew, SpawnNewFails, FailNew, RemoveNew,
         ListQueue, Look, Drop, Make, Attach, Launch, Done, FailDrop, FailState, Resolve,
         StopPid, StopState, RemoveTree, Clear, Requeue, Respawn, RemoveGone, DeleteRow

(* A row becomes pending only from nothing or by a reset.                   *)
LEMMA FreshBefore ==
  ASSUME Typed, Known, NEW p \in Process, Continues(p), NEW s \in Session,
         s \notin reset', Fresh(s)'
  PROVE  s \notin reset /\ Fresh(s)
<1>1. reset \subseteq reset'
  BY ResetKept
<1>2. rows \in [Session -> SlotRow] /\ rows[s] \in SlotRow
  BY DEF Typed, TypeOK
<1>3. CASE rows'[s] = rows[s]
  BY <1>1, <1>3 DEF Fresh
<1>4. CASE rows'[s] # rows[s]
  <2>1. Cur(p) = s /\ ~UNCHANGED rows
    BY <1>4, ContinuesEvolve
  <2>2. ASSUME NEW row, SetRow(s, row) PROVE rows'[s] = row
    BY <1>2, <2>2 DEF SetRow
  <2>3. CASE Insert(p)
    BY <1>1, <2>1, <2>3 DEF Insert, At, Known, Unborn, Born, Fresh
  <2>4. CASE FailNew(p) \/ FailState(p)
    <3>1. rows'[s] = [rows[s] EXCEPT !.state = "failed"]
      BY <2>1, <2>2, <2>4 DEF FailNew, FailState
    <3>. QED
      BY <1>2, <3>1 DEF Fresh, SlotRow
  <2>5. CASE Attach(p) \/ StopPid(p) \/ Clear(p)
    <3>1. \/ rows'[s] = [rows[s] EXCEPT !.worktree = TRUE]
          \/ rows'[s] = [rows[s] EXCEPT !.pid = FALSE]
          \/ rows'[s] = [rows[s] EXCEPT !.worktree = FALSE]
      BY <2>1, <2>2, <2>5 DEF Attach, StopPid, Clear
    <3>. QED
      BY <1>1, <1>2, <3>1 DEF Fresh, SlotRow
  <2>6. CASE StopState(p)
    <3>1. rows'[s] = [rows[s] EXCEPT !.state = "stopped"]
      BY <2>1, <2>2, <2>6 DEF StopState
    <3>. QED
      BY <1>2, <3>1 DEF Fresh, SlotRow
  <2>7. CASE Requeue(p)
    BY <2>1, <2>7 DEF Requeue
  <2>8. CASE DeleteRow(p)
    <3>1. rows'[s] = [rows[s] EXCEPT !.state = "deleted", !.pid = FALSE, !.worktree = FALSE]
      BY <2>1, <2>2, <2>8 DEF DeleteRow
    <3>. QED
      BY <1>2, <3>1 DEF Fresh, SlotRow
  <2>. QED
    BY <2>1, <2>3, <2>4, <2>5, <2>6, <2>7, <2>8
       DEF Continues, MakeNew, Enqueue, SpawnNew, SpawnNewFails, RemoveNew, ListQueue, Look,
           Drop, Make, Launch, Done, FailDrop, Resolve, RemoveTree, Respawn, RemoveGone
<1>. QED
  BY <1>3, <1>4

LEMMA ExclusiveContinues ==
  ASSUME Typed, Known, NEW p \in Process, Continues(p), Removes(p),
         NEW s \in Session, s \notin reset', Fresh(s), Fresh(s)', s \notin reset, Exclusive(s)
  PROVE  Exclusive(s)'
<1>1. /\ Moves(p) /\ (UNCHANGED runner \/ (Cur(p) \in Session /\ Hires(p)))
      /\ proc[p] \in Proc /\ Works(proc[p]) /\ Works(proc'[p]) /\ disk \subseteq Session
  BY ContinuesMove, ContinuesTyped DEF Typed, TypeOK, Moves
<1>2. ASSUME Cur(p) # s PROVE Exclusive(s)'
  <2>1. ~Bids(p, s)'
    BY <1>2, Proceeds, NoSessionAssumption
       DEF Bids, Cur, At, Idle, Stays, TakesNext, TakesQueue
  <2>2. \A r \in Runner : Serves(r, s)' => Serves(r, s)
    BY <1>1, <1>2 DEF Serves, Hires
  <2>3. s \in disk => s \in disk'
    BY <1>2 DEF Continues, MakeNew, Insert, Enqueue, SpawnNew, SpawnNewFails, FailNew,
       RemoveNew, ListQueue, Look, Drop, Make, Attach, Launch, Done, FailDrop, FailState,
       Resolve, StopPid, StopState, RemoveTree, Clear, Requeue, Respawn, RemoveGone, DeleteRow
  <2>. QED
    BY <1>1, <2>1, <2>2, <2>3, ExclusiveKept
<1>3. ASSUME Cur(p) = s, UNCHANGED <<runner, disk>>, Bids(p, s)' => Bids(p, s)
      PROVE  Exclusive(s)'
  BY <1>1, <1>3, ExclusiveKept DEF Serves
<1>4. ASSUME Cur(p) = s, proc'[p].at \notin {"insert", "spawnNew", "attach", "launch"},
             UNCHANGED <<runner, disk>>
      PROVE  Exclusive(s)'
  BY <1>3, <1>4 DEF Bids, At
<1>5. ASSUME NEW step \in ProcStep, Go(p, step)
      PROVE  proc'[p].at = step /\ proc'[p].cur = Cur(p) /\ proc'[p].worktree = proc[p].worktree
  BY <1>1, <1>5 DEF Go, Cur, Typed, TypeOK, Proc
<1>6. ASSUME Finish(p) PROVE proc'[p].at = "idle"
  BY <1>6, FinishMoves DEF Idle
<1>7. CASE Cur(p) = s
  <2>1. CASE MakeNew(p)
    <3>1. CASE Finish(p) /\ UNCHANGED disk
      BY <1>4, <1>6, <1>7, <2>1, <3>1 DEF MakeNew
    <3>2. CASE disk' = disk \cup {Cur(p)}
      <4>1. s \in disk' /\ UNCHANGED runner /\ Unborn(proc[p]) /\ ~Born(s)
        BY <1>7, <2>1, <3>2 DEF MakeNew, At, Unborn, Known
      <4>2. ASSUME NEW q \in Process \ {p} PROVE ~Bids(q, s)
        <5>1. CASE Cur(q) = s
          <6>1. Unborn(proc[q])
            BY <4>1, <5>1 DEF Known, KnowsBorn, Cur
          <6>2. proc[q].op = "create" /\ proc[p].op = "create"
            BY <4>1, <6>1 DEF Unborn, Typed, Works, Creating
          <6>. QED
            BY <1>7, <5>1, <6>2 DEF Known
        <5>2. CASE Cur(q) # s
          BY <5>2 DEF Bids
        <5>. QED
          BY <5>1, <5>2
      <4>3. \A r \in Runner : ~Serves(r, s)
        BY <4>1 DEF Known, Serves
      <4>. QED
        BY <1>1, <4>1, <4>2, <4>3, ExclusiveMade
    <3>. QED
      BY <2>1, <3>1, <3>2 DEF MakeNew
  <2>2. CASE Insert(p)
    <3>1. /\ UNCHANGED <<runner, disk>> /\ At(p, "insert")
          /\ Go(p, IF proc[p].worktree THEN "spawnNew" ELSE "enqueue")
      BY <2>2 DEF Insert
    <3>2. proc[p].worktree \/ proc'[p].at = "enqueue"
      BY <1>5, <3>1 DEF ProcStep
    <3>. QED
      BY <1>3, <1>7, <3>1, <3>2 DEF Bids, At
  <2>3. CASE SpawnNew(p) \/ Launch(p)
    <3>1. Spawn(Cur(p)) /\ Bids(p, s) /\ UNCHANGED disk
      BY <1>7, <2>3 DEF SpawnNew, Launch, Bids, At
    <3>2. proc'[p].at \in {"idle", "done"}
      BY <1>5, <1>6, <2>3 DEF SpawnNew, Launch, ProcStep
    <3>3. ~Bids(p, s)' /\ Hires(p)
      BY <1>7, <3>1, <3>2, SpawnHires DEF Bids, At
    <3>. QED
      BY <1>1, <1>7, <3>1, <3>3, ExclusiveHired
  <2>4. CASE RemoveNew(p) \/ RemoveGone(p)
    BY <1>7, <2>4 DEF RemoveNew, RemoveGone, At, Removes
  <2>5. CASE Make(p)
    <3>1. CASE Go(p, "attach")
      <4>1. CASE s \notin disk
        <5>1. s \in disk' /\ UNCHANGED runner
          BY <1>5, <1>7, <2>5, <3>1 DEF Make, ProcStep
        <5>2. (\A q \in Process \ {p} : ~Bids(q, s)) /\ (\A r \in Runner : ~Serves(r, s))
          BY <4>1 DEF Exclusive
        <5>. QED
          BY <1>1, <5>1, <5>2, ExclusiveMade
      <4>2. CASE s \in disk
        BY <1>5, <1>7, <2>5, <3>1, <4>2 DEF Make, ProcStep
      <4>. QED
        BY <4>1, <4>2
    <3>2. CASE ~Go(p, "attach")
      BY <1>4, <1>5, <1>7, <2>5, <3>2 DEF Make, ProcStep
    <3>. QED
      BY <3>1, <3>2
  <2>6. CASE Attach(p)
    <3>1. Exists(s)
      <4>1. rows[s].state # "absent"
        BY <1>7, <2>6 DEF Attach, At, Known, KnowsBorn, Unborn, Born, Cur
      <4>. QED
        BY <4>1 DEF Fresh, Exists, Present, SessionState
    <3>2. UNCHANGED <<runner, disk>> /\ Bids(p, s)
      BY <1>7, <2>6, <3>1 DEF Attach, At, Bids
    <3>. QED
      BY <1>3, <1>7, <3>2
  <2>7. CASE RemoveTree(p)
    <3>1. rows[s].state # "absent"
      BY <1>7, <2>7 DEF RemoveTree, At, Known, KnowsBorn, Unborn, Born, Cur
    <3>. QED
      BY <1>7, <2>7, <3>1 DEF RemoveTree, Fresh
  <2>8. CASE Respawn(p)
    BY <1>7, <2>8 DEF Respawn, At, Removes
  <2>9. CASE SpawnNewFails(p) \/ FailNew(p) \/ Look(p) \/ FailDrop(p) \/ StopPid(p)
             \/ StopState(p) \/ Requeue(p)
    <3>1. UNCHANGED <<runner, disk>>
      BY <2>9 DEF SpawnNewFails, FailNew, Look, FailDrop, StopPid, StopState, Requeue
    <3>2. \/ Finish(p)
          \/ \E step \in {"failNew", "removeNew", "make", "drop", "failState", "stopState",
                          "remove", "clear", "respawn"} : Go(p, step)
      BY <2>9 DEF SpawnNewFails, FailNew, Look, FailDrop, StopPid, StopState, Requeue
    <3>3. proc'[p].at \notin {"insert", "spawnNew", "attach", "launch"}
      BY <1>5, <1>6, <3>2 DEF ProcStep
    <3>. QED
      BY <1>4, <1>7, <3>1, <3>3
  <2>10. CASE Enqueue(p) \/ ListQueue(p) \/ Drop(p) \/ Done(p) \/ FailState(p) \/ Resolve(p)
              \/ Clear(p) \/ DeleteRow(p)
    <3>1. UNCHANGED <<runner, disk>>
      BY <2>10 DEF Enqueue, ListQueue, Drop, Done, FailState, Resolve, Clear, DeleteRow
    <3>2. proc'[p].at \in {"idle", "look", "resolve", "stopPid", "remove"}
      <4>1. CASE Drop(p) \/ FailState(p)
        BY <1>6, <4>1, NextOfPassMoves DEF Drop, FailState, At, Activating, Idle
      <4>2. CASE (Resolve(p) /\ NextOfPass(p, "resolve")) \/ Clear(p)
        BY <1>6, <4>2, NextOfPassMoves DEF Resolve, Clear, At, Activating, Creating, Idle
      <4>3. CASE Resolve(p) /\ ~NextOfPass(p, "resolve")
        BY <1>1, <1>6, <4>3 DEF Resolve, Typed, TypeOK, Proc
      <4>4. CASE ListQueue(p) \/ Done(p)
        BY <1>1, <1>6, <4>4 DEF ListQueue, Done, Typed, TypeOK, Proc
      <4>5. CASE Enqueue(p) \/ DeleteRow(p)
        BY <1>6, <4>5 DEF Enqueue, DeleteRow
      <4>. QED
        BY <2>10, <4>1, <4>2, <4>3, <4>4, <4>5
    <3>. QED
      BY <1>4, <1>7, <3>1, <3>2
  <2>. QED
    BY <2>1, <2>2, <2>3, <2>4, <2>5, <2>6, <2>7, <2>8, <2>9, <2>10 DEF Continues
<1>. QED
  BY <1>2, <1>7

(* Whoever removes a worktree, or starts a resumed session, may.            *)
LEMMA RemovesKept ==
  ASSUME Typed, NEW q \in Process, Removes(q), proc'[q] = proc[q], reset \subseteq reset',
         \A s \in Session : s \notin reset' /\ Fresh(s)' => Fresh(s)
  PROVE  Removes(q)'
<1>1. proc[q].at \in {"removeNew", "removeGone", "deleteRow"} => Cur(q) \in Session
  BY DEF Typed, Works, Cur
<1>. QED
  BY <1>1 DEF Removes, Cur, At, Fresh

LEMMA RemovesContinues ==
  ASSUME Typed, Known, NEW p \in Process, Continues(p), Removes(p)
  PROVE  Removes(p)'
<1>1. /\ Moves(p) /\ proc[p] \in Proc /\ Works(proc[p])
      /\ \A s \in Session : s \notin reset' /\ Fresh(s)' => s \notin reset /\ Fresh(s)
  BY ContinuesMove, FreshBefore DEF Typed, TypeOK
<1>2. ASSUME NEW step \in ProcStep, Go(p, step)
      PROVE  proc'[p].at = step /\ proc'[p].cur = Cur(p)
  BY <1>1, <1>2 DEF Go, Cur, Typed, TypeOK, Proc
<1>3. ASSUME proc'[p].at \notin {"removeNew", "removeGone", "deleteRow", "respawn"}
      PROVE  Removes(p)'
  BY <1>3 DEF Removes, At
<1>4. ASSUME Finish(p) PROVE Removes(p)'
  BY <1>3, <1>4, FinishMoves DEF Idle
<1>5. CASE FailNew(p) /\ ~Finish(p)
  <2>1. Cur(p) \in Session /\ Go(p, "removeNew")
        /\ SetRow(Cur(p), [rows[Cur(p)] EXCEPT !.state = "failed"])
    BY <1>1, <1>5 DEF FailNew, At, Works, Cur
  <2>2. rows'[Cur(p)].state = "failed"
    BY <2>1 DEF SetRow, Typed, TypeOK, SlotRow
  <2>. QED
    BY <1>2, <2>1, <2>2 DEF Removes, Cur, Fresh, At, ProcStep
<1>6. CASE RemoveGone(p)
  <2>1. /\ Cur(p) \in Session /\ proc'[p].at = "deleteRow" /\ proc'[p].cur = Cur(p)
        /\ (Cur(p) \in reset \/ ~Fresh(Cur(p))) /\ UNCHANGED <<rows, reset>>
    BY <1>1, <1>2, <1>6 DEF RemoveGone, At, Works, Cur, Removes, ProcStep
  <2>. QED
    BY <2>1 DEF Removes, Cur, Fresh, At
<1>7. CASE Requeue(p) /\ ~Finish(p)
  <2>1. proc'[p].at = "respawn" /\ proc'[p].cur = Cur(p) /\ Cur(p) \in reset'
    BY <1>2, <1>7 DEF Requeue, ProcStep
  <2>. QED
    BY <2>1 DEF Removes, Cur, At
<1>8. CASE \/ Insert(p) \/ SpawnNewFails(p) \/ Look(p) \/ Make(p) \/ Attach(p) \/ Launch(p)
           \/ FailDrop(p) \/ (StopPid(p) /\ ~Finish(p)) \/ (StopState(p) /\ ~Finish(p))
           \/ RemoveTree(p)
  <2>1. \E step \in {"spawnNew", "enqueue", "failNew", "make", "drop", "attach", "launch", "done",
                     "failDrop", "failState", "stopState", "remove", "clear"} : Go(p, step)
    BY <1>8 DEF Insert, SpawnNewFails, Look, Make, Attach, Launch, FailDrop, StopPid, StopState,
                RemoveTree
  <2>. QED
    BY <1>2, <1>3, <2>1 DEF ProcStep
<1>9. CASE \/ Drop(p) \/ (FailState(p) /\ ~Finish(p))
  BY <1>3, <1>9, NextOfPassMoves DEF Drop, FailState, At, Activating, Idle
<1>10. CASE (Resolve(p) \/ Clear(p)) /\ NextOfPass(p, "resolve")
  BY <1>3, <1>10, NextOfPassMoves DEF Resolve, Clear, At, Activating, Creating, Idle
<1>11. CASE \/ (Resolve(p) /\ ~NextOfPass(p, "resolve") /\ ~Finish(p))
            \/ ((MakeNew(p) \/ ListQueue(p) \/ Done(p)) /\ ~Finish(p))
  <2>1. proc'[p].at \in {"stopPid", "remove", "insert", "look"}
    BY <1>1, <1>11 DEF Resolve, MakeNew, ListQueue, Done, Typed, TypeOK, Proc
  <2>. QED
    BY <1>3, <2>1
<1>12. CASE Enqueue(p) \/ SpawnNew(p) \/ RemoveNew(p) \/ Respawn(p) \/ DeleteRow(p)
  BY <1>4, <1>12 DEF Enqueue, SpawnNew, RemoveNew, Respawn, DeleteRow
<1>13. CASE Clear(p)
  BY <1>4, <1>10, <1>13 DEF Clear
<1>. QED
  BY <1>4, <1>5, <1>6, <1>7, <1>8, <1>9, <1>10, <1>11, <1>12, <1>13 DEF Continues

LEMMA RemovesStarts == ASSUME Typed, NEW p \in Process, Starts(p) PROVE Removes(p)'
<1>1. UNCHANGED rows
  BY StartsOnlyMove
<1>2. CASE StartDelete(p)
  <2>1. PICK s \in Session, step \in {"removeGone", "deleteRow"} :
          Begin(p, "delete", step, s) /\ Exists(s) /\ ~Fresh(s)
    BY <1>2 DEF StartDelete, Fresh, Exists, Present, SessionState
  <2>2. proc'[p].at = step /\ proc'[p].cur = s
    BY <2>1, BeginMoves DEF Operation, ProcStep, Creating, Activating
  <2>. QED
    BY <1>1, <2>1, <2>2 DEF Removes, Cur, At, Fresh
<1>3. CASE ~StartDelete(p)
  <2>1. proc'[p].at \notin {"removeNew", "removeGone", "deleteRow", "respawn"}
    BY <1>3, StartsAt
  <2>. QED
    BY <2>1 DEF Removes, At
<1>. QED
  BY <1>2, <1>3

(* Runners make no session fresh.                                           *)
LEMMA FreshByRunners ==
  ASSUME Typed, Known, NEW r \in Runner, RunnerStep(r), NEW s \in Session, Fresh(s)'
  PROVE  Fresh(s)
<1> DEFINE j == runner[r].job
<1>0. /\ RunnerMoves(r) /\ (s # j => rows'[s] = rows[s]) /\ RowsEvolve /\ rows[s] \in SlotRow
  BY RunnerEvolves DEF Typed, TypeOK
<1>1. CASE rows'[s] = rows[s]
  BY <1>1 DEF Fresh
<1>2. CASE rows'[s] # rows[s]
  <2>1. s = j /\ rows'[s].state # "absent"
    BY <1>0, <1>2 DEF RowsEvolve, Known, Born, RunnerMoves
  <2>2. CASE RunnerRecordsPid(r)
    <3>1. rows'[s] = [rows[s] EXCEPT !.pid = TRUE]
      BY <1>0, <1>2, <2>1, <2>2 DEF RunnerRecordsPid, SetRow, Typed, TypeOK
    <3>. QED
      BY <1>0, <3>1 DEF SlotRow, Fresh
  <2>3. CASE RunnerEntersRunning(r)
    <3>1. CASE SettleRow(s, "failed")
      BY <2>1, <3>1, SettledIsNotPending DEF Fresh
    <3>2. CASE SetRow(s, [rows[s] EXCEPT !.state = "running"])
      BY <1>0, <3>2 DEF SetRow, SlotRow, Typed, TypeOK, Fresh
    <3>. QED
      BY <2>1, <2>3, <3>1, <3>2 DEF RunnerEntersRunning
  <2>4. CASE RunnerEnds(r)
    BY <2>1, <2>4, SettledIsNotPending DEF RunnerEnds, Fresh
  <2>. QED
    BY <1>2, <2>2, <2>3, <2>4 DEF RunnerStep, RunnerReads
<1>. QED
  BY <1>1, <1>2

(* The steps of runners.                                                    *)
LEMMA GuardedByRunners ==
  ASSUME Typed, Known, NEW r \in Runner, RunnerStep(r), NEW s \in Session, Guarded(s)
  PROVE  Guarded(s)'
<1>. SUFFICES ASSUME s \notin reset' PROVE Single(s)' /\ (Fresh(s)' => Exclusive(s)')
  BY DEF Guarded
<1> DEFINE j == runner[r].job
<1>1. /\ RunnerMoves(r) /\ (s # j => rows'[s] = rows[s])
      /\ UNCHANGED <<queue, disk, proc, lost, reset>> /\ RowsEvolve
      /\ Single(s) /\ (Fresh(s) => Exclusive(s)) /\ rows[s] \in SlotRow
  BY RunnerEvolves DEF RunnerStep, Guarded, Typed, TypeOK
<1>2. \A q \in Runner : Serves(q, s)' => Serves(q, s)
  BY <1>1 DEF RunnerMoves, Serves
<1>3. Fresh(s)' => Fresh(s)
  BY FreshByRunners
<1>4. Fresh(s)' => Exclusive(s)'
  BY <1>1, <1>2, <1>3 DEF Exclusive, Bids, Cur, At
<1>5. Single(s)'
  <2>1. CASE \A q \in Runner : Runs(q, s)' => Runs(q, s)
    BY <1>1, <2>1 DEF Single
  <2>2. CASE ~(\A q \in Runner : Runs(q, s)' => Runs(q, s))
    <3>1. PICK q \in Runner : Runs(q, s)' /\ ~Runs(q, s)
      BY <2>2
    <3>2. q = r /\ j = s /\ runner'[r].pc \in {"launched", "recorded", "live"}
          /\ runner[r].pc = "starting"
      BY <1>1, <3>1 DEF RunnerMoves, Runs, Employed
    <3>3. rows[s].state = "pending"
      BY <3>2, RunnerLeavesMoves
         DEF RunnerStep, RunnerReads, RunnerRecordsPid, RunnerEntersRunning, RunnerEnds,
             RunnerAt, Employed
    <3>4. Exclusive(s)
      BY <1>1, <3>3 DEF Fresh
    <3>5. \A t \in Runner : Runs(t, s)' => Serves(t, s)
      BY <1>2 DEF Runs, Serves, Employed
    <3>. QED
      BY <3>4, <3>5 DEF Exclusive, Single
  <2>. QED
    BY <2>1, <2>2
<1>. QED
  BY <1>4, <1>5

LEMMA OneRunnerNext == Typed /\ Known /\ OneRunner /\ [Next]_vars => OneRunner'
<1>. SUFFICES ASSUME Typed, Known, OneRunner, [Next]_vars PROVE OneRunner'
  OBVIOUS
<1>1. ASSUME NEW p \in Process, Continues(p) PROVE OneRunner'
  <2>1. /\ Moves(p) /\ (UNCHANGED runner \/ Hires(p)) /\ Removes(p)
    BY <1>1, ContinuesMove, ContinuesTyped DEF OneRunner
  <2>2. \A s \in Session : s \notin reset' /\ Fresh(s)' => s \notin reset /\ Fresh(s)
    BY <1>1, FreshBefore
  <2>3. reset \subseteq reset'
    BY <1>1, ResetKept
  <2>4. ASSUME NEW s \in Session PROVE Guarded(s)'
    <3>1. s \notin reset => Single(s) /\ (Fresh(s) => Exclusive(s))
      BY DEF OneRunner, Guarded
    <3>2. s \notin reset' => Single(s)'
      BY <2>1, <2>3, <3>1, SingleKept
    <3>3. s \notin reset' /\ Fresh(s)' => Exclusive(s)'
      BY <1>1, <2>1, <2>2, <3>1, ExclusiveContinues
    <3>. QED
      BY <3>2, <3>3 DEF Guarded
  <2>5. ASSUME NEW q \in Process PROVE Removes(q)'
    <3>1. CASE q = p
      BY <1>1, <2>1, <3>1, RemovesContinues
    <3>2. CASE q # p
      BY <2>1, <2>2, <2>3, <3>2, RemovesKept DEF Moves, OneRunner
    <3>. QED
      BY <3>1, <3>2
  <2>. QED
    BY <2>4, <2>5 DEF OneRunner
<1>2. ASSUME NEW p \in Process, Moves(p), UNCHANGED <<rows, disk, runner, reset>>,
             \A s \in Session : Fresh(s) => ~Bids(p, s)', Removes(p)'
      PROVE  OneRunner'
  <2>1. ASSUME NEW s \in Session PROVE Guarded(s)'
    <3>1. Single(s) => Single(s)'
      BY <1>2, SingleKept
    <3>2. (Fresh(s)' <=> Fresh(s)) /\ \A r \in Runner : Serves(r, s)' => Serves(r, s)
      BY <1>2 DEF Fresh, Serves
    <3>3. Fresh(s) /\ Exclusive(s) => Exclusive(s)'
      BY <1>2, <3>2, ExclusiveKept
    <3>. QED
      BY <1>2, <3>1, <3>2, <3>3 DEF Guarded, OneRunner
  <2>2. ASSUME NEW q \in Process \ {p} PROVE Removes(q)'
    <3>1. \A s \in Session : s \notin reset' /\ Fresh(s)' => Fresh(s)
      BY <1>2 DEF Fresh
    <3>. QED
      BY <1>2, <3>1, RemovesKept DEF Moves, OneRunner
  <2>. QED
    BY <1>2, <2>1, <2>2 DEF OneRunner
<1>3. ASSUME NEW p \in Process, Starts(p) PROVE OneRunner'
  <2>1. Moves(p) /\ UNCHANGED <<rows, disk, runner, reset>> /\ Removes(p)'
    BY <1>3, StartsMove, StartsOnlyMove, RemovesStarts
  <2>2. ASSUME NEW s \in Session, Bids(p, s)' PROVE FALSE
    <3>1. proc'[p].at \in {"insert", "spawnNew", "attach", "launch"}
          /\ (proc'[p].at = "insert" => proc'[p].worktree)
      BY <2>2 DEF Bids, At
    <3>2. StartCreate(p)
      BY <1>3, <3>1, StartsAt
    <3>3. PICK t \in Session, step \in {"makeNew", "insert"} :
            /\ rows[t].state = "absent" /\ Begin(p, "create", step, t)
            /\ step = "makeNew" => FreeSlots > 0
      BY <3>2 DEF StartCreate
    <3>4. ~rows[t].worktree /\ (step = "makeNew" => MaxWorktrees >= 1)
      BY <3>3, FreeSlotsType, MaxWorktreesAssumption DEF Typed
    <3>5. proc'[p].at = step /\ proc'[p].worktree = rows[t].worktree
      BY <3>3, <3>4, BeginMoves DEF Operation, ProcStep, Creating, Activating
    <3>. QED
      BY <3>1, <3>4, <3>5
  <2>. QED
    BY <1>2, <2>1, <2>2
<1>4. ASSUME NEW p \in Process, Crash(p) PROVE OneRunner'
  <2>1. Moves(p) /\ proc'[p] = Idle /\ UNCHANGED <<rows, disk, runner, reset>>
    BY <1>4, CrashMoves DEF Crash
  <2>2. Removes(p)' /\ \A s \in Session : ~Bids(p, s)'
    BY <2>1 DEF Removes, Bids, At, Idle
  <2>. QED
    BY <1>2, <2>1, <2>2
<1>5. ASSUME UNCHANGED <<proc, disk, reset>>,
             \A r \in Runner, s \in Session : (Serves(r, s)' => Serves(r, s))
                                             /\ (Runs(r, s)' => Runs(r, s)),
             \A s \in Session : Fresh(s)' => Fresh(s)
      PROVE  OneRunner'
  <2>1. \A q \in Process : Removes(q)'
    BY <1>5, RemovesKept DEF OneRunner
  <2>2. \A s \in Session : Guarded(s)'
    BY <1>5 DEF OneRunner, Guarded, Single, Exclusive, Bids, Cur, At
  <2>. QED
    BY <2>1, <2>2 DEF OneRunner
<1>6. ASSUME NEW r \in Runner, RunnerStep(r) PROVE OneRunner'
  <2>1. \A s \in Session : Guarded(s)'
    BY <1>6, GuardedByRunners DEF OneRunner
  <2>2. \A s \in Session : Fresh(s)' => Fresh(s)
    BY <1>6, FreshByRunners
  <2>3. \A q \in Process : Removes(q)'
    BY <1>6, <2>2, RemovesKept DEF RunnerStep, OneRunner
  <2>. QED
    BY <2>1, <2>3 DEF OneRunner
<1>7. ASSUME NEW r \in Runner, RunnerCrash(r) PROVE OneRunner'
  <2>1. /\ RunnerMoves(r) /\ runner'[r].pc = "dead" /\ UNCHANGED <<rows, proc, disk, reset>>
    BY <1>7, RunnerCrashTyped DEF RunnerCrash
  <2>2. \A q \in Runner, s \in Session : (Serves(q, s)' => Serves(q, s))
                                         /\ (Runs(q, s)' => Runs(q, s))
    BY <2>1 DEF RunnerMoves, Serves, Runs, Employed
  <2>. QED
    BY <1>5, <2>1, <2>2 DEF Fresh
<1>8. ASSUME NEW s \in Session, GoesStale(s) PROVE OneRunner'
  <2>1. /\ UNCHANGED <<runner, proc, disk, reset>> /\ rows'[s].state = "stale"
        /\ \A t \in Session \ {s} : rows'[t] = rows[t]
    BY <1>8, StaleEvolves DEF GoesStale
  <2>. QED
    BY <1>5, <2>1 DEF Fresh, Serves, Runs
<1>9. CASE UNCHANGED vars
  BY <1>5, <1>9 DEF vars, Fresh, Serves, Runs
<1>. QED
  BY <1>1, <1>3, <1>4, <1>6, <1>7, <1>8, <1>9 DEF Next

LEMMA OneRunnerInit == Init => OneRunner
  BY NoSessionAssumption
     DEF Init, OneRunner, Guarded, Single, Exclusive, Removes, Bids, Serves, Runs, Employed,
         Idle, Cur, At

(* The runners of a session are one or none.                                *)
LEMMA AtMostOne ==
  ASSUME NEW S, \A q, r \in S : q = r
  PROVE  Cardinality(S) <= 1
<1>1. CASE S = {}
  BY <1>1, FS_EmptySet
<1>2. CASE S # {}
  <2>1. PICK r \in S : TRUE
    BY <1>2
  <2>2. S = {r}
    BY <2>1
  <2>. QED
    BY <2>2, FS_Singleton
<1>. QED
  BY <1>1, <1>2

(* Two activators never run a session twice, whatever else happens to it    *)
(* short of a resumption, or of a clean-up while it is pending.             *)
THEOREM OneRunnerEach == Spec => []OneRunnerUnlessReset
<1>1. Typed /\ Known /\ OneRunner /\ [Next]_vars => Typed' /\ Known' /\ OneRunner'
  BY TypedNext, KnownNext, OneRunnerNext
<1>2. OneRunner => OneRunnerUnlessReset
  BY AtMostOne DEF OneRunner, Guarded, Single, Runs, OneRunnerUnlessReset
<1>. QED
  BY <1>1, <1>2, TypedInit, KnownInit, OneRunnerInit, PTL DEF Spec
=============================================================================
