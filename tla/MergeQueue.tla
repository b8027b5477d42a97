----------------------------- MODULE MergeQueue -----------------------------
(* ecc2's merge queue (session/manager.rs, worktree/mod.rs): processes that  *)
(* merge the branches of ended sessions into the base branch and remove      *)
(* their worktrees, while sessions and operators go on working in worktrees  *)
(* and on the base.  Several processes may do so at once: the daemon after   *)
(* each backlog cycle, dashboards and commands when asked.                   *)
(*                                                                           *)
(* A branch is the set of changes committed on it; two branches conflict if  *)
(* one has a change, which the other lacks, that clashes with one the other  *)
(* way round.  Commands of git that only read are one step with the check    *)
(* they serve; each one that writes is a step.                               *)
EXTENDS FiniteSets

CONSTANTS
  Session,     \* sessions, each created with a worktree
  Merger,      \* processes that merge
  Queue,       \* those of them that work off the queue
  Single,      \* those that merge the one session an operator names
  Change,      \* changes that anyone may make
  Clash,       \* pairs of changes (sets of two) that touch the same lines
  None         \* no session

ASSUME MergeAssumption ==
  /\ Queue \subseteq Merger /\ Single \subseteq Merger
  /\ None \notin Session /\ Clash \subseteq SUBSET Change

VARIABLES
  active,      \* the sessions pending, running, idle or stale; the others are
               \* stopped, failed or completed
  attached,    \* the sessions whose row names a worktree
  dir,         \* the sessions whose worktree exists
  refs,        \* the sessions whose branch exists
  edits,       \* uncommitted changes in each worktree
  branch,      \* the changes committed on each session's branch
  base,        \* the changes committed on the base branch
  root,        \* the checkout of the base: clean, or in a merge that conflicts
  merger,      \* what each merging process remembers
  made,        \* history: the changes made so far
  waived,      \* history: changes made in a worktree after a merge had
               \* inspected it, and those thrown away with a worktree
  quiet        \* history: the mergers that were alone since they began to build
               \* their queue
work == <<edits, branch, base>>
vars == <<active, attached, dir, refs, work, root, merger, made, waived, quiet>>
-----------------------------------------------------------------------------
Conflict(a, b) == \E c \in a \ b, d \in b \ a : {c, d} \in Clash

(* The steps of a merge of the session cur, in their order, around them     *)
(* those of a pass: the rows it has listed (and those of them that had      *)
(* ended), what it still has to judge, to merge and to rebase, whether it   *)
(* has merged anything, and the bases on which it has tried to rebase.      *)
Label == {"idle", "judging", "merging", "inspected", "merged", "removed", "deleted",
          "rebasing", "replaying"}
Work == [at : Label, single : BOOLEAN, ended : SUBSET Session, todo : SUBSET Session,
         ready : SUBSET Session, conflicted : SUBSET Session, cur : Session \cup {None},
         merged : BOOLEAN, tried : SUBSET (Session \X SUBSET Change)]
Idle == [at |-> "idle", single |-> FALSE, ended |-> {}, todo |-> {}, ready |-> {},
         conflicted |-> {}, cur |-> None, merged |-> FALSE, tried |-> {}]

Init ==
  /\ active = Session
  /\ attached = Session /\ dir = Session /\ refs = Session
  /\ edits = [s \in Session |-> {}] /\ branch = [s \in Session |-> {}]
  /\ base = {} /\ root = "clean"
  /\ merger = [m \in Merger |-> Idle]
  /\ made = {} /\ waived = {} /\ quiet = {}

At(m, label) == merger[m].at = label
Set(m, work_) == merger' = [merger EXCEPT ![m] = work_]

(* A step of m that others can see: from now on they are not alone.         *)
Disturbs(m) == quiet' = quiet \cap {m}
-----------------------------------------------------------------------------
(* BUILDING THE QUEUE: build_merge_queue                                    *)

Build(m, tried) ==
  /\ Set(m, [Idle EXCEPT !.at = "judging", !.todo = attached, !.tried = tried,
                         !.ended = attached \ active])
  /\ quiet' = quiet \cup {m}

StartPass(m) ==
  /\ m \in Queue /\ At(m, "idle")
  /\ Build(m, {})
  /\ UNCHANGED <<active, attached, dir, refs, work, root, made, waived>>

Ended(m, s) == s \in merger[m].ended

(* health: a branch that conflicts with the base.                           *)
Conflicted(s) == Conflict(base, branch[s])
Dirty(s) == edits[s] # {}

(* Mutation: entries that are not ready block others, too.                  *)
BlockedByAny(m, s) ==
  \E b \in attached \ ({s} \cup merger[m].todo) : Conflict(branch[s], branch[b])

(* Mutation: a queue of everything that fits the base.                      *)
BlockedByNone(m, s) == FALSE

(* By a session that comes first and is itself ready.                       *)
Blocked(m, s) == \E b \in merger[m].ready : Conflict(branch[s], branch[b])

(* What a session is compared with is gone: its branch or, when the two     *)
(* conflict, the worktree that is to show where.                            *)
Unreadable(s, b) == b \notin refs \/ (b \notin dir /\ Conflict(branch[s], branch[b]))

(* The rows one after the other (those of ended sessions first, the last    *)
(* updated last: any order).  A worktree that is gone, its own or that of a *)
(* session before it, is an error, and ends the whole pass.                 *)
Judge(m, s) ==
  /\ At(m, "judging") /\ s \in merger[m].todo
  /\ LET fit == Ended(m, s) /\ ~Conflicted(s) /\ ~Dirty(s)
         c == [merger[m] EXCEPT !.todo = @ \ {s}, !.ended = @ \ {s}]
     IN  IF s \notin dir \/ (fit /\ \E b \in merger[m].ready : Unreadable(s, b)) THEN Set(m, Idle)
         ELSE Set(m, [c EXCEPT
           !.at = IF c.todo = {} THEN "merging" ELSE @,
           !.ready = IF fit /\ ~Blocked(m, s) THEN @ \cup {s} ELSE @,
           !.conflicted = IF Conflicted(s) /\ ~Dirty(s) THEN @ \cup {s} ELSE @])
  /\ UNCHANGED <<active, attached, dir, refs, work, root, made, waived, quiet>>

JudgeNone(m) ==
  /\ At(m, "judging") /\ merger[m].todo = {}
  /\ Set(m, Idle)
  /\ UNCHANGED <<active, attached, dir, refs, work, root, made, waived, quiet>>
-----------------------------------------------------------------------------
(* MERGING: merge_session_worktree, for each ready entry                    *)

(* An operator asks for one session (merge_session_worktree alone).         *)
StartOne(m, s) ==
  /\ m \in Single /\ At(m, "idle")
  /\ Set(m, [Idle EXCEPT !.at = "merging", !.single = TRUE, !.ready = {s}])
  /\ quiet' = quiet \ {m}
  /\ UNCHANGED <<active, attached, dir, refs, work, root, made, waived>>

(* Mutation: uncommitted changes do not keep a worktree from being merged.  *)
MergeableDirty(s) == s \in attached /\ s \notin active /\ s \in dir /\ ~Conflicted(s)

(* The row read again, and the checks of merge_into_base.                   *)
Mergeable(s) == s \in attached /\ s \notin active /\ s \in dir /\ ~Conflicted(s) /\ ~Dirty(s)

Inspect(m, s) ==
  /\ At(m, "merging") /\ s \in merger[m].ready
  /\ Set(m, IF Mergeable(s) /\ root = "clean"
              THEN [merger[m] EXCEPT !.at = "inspected", !.cur = s, !.ready = @ \ {s}]
              ELSE [merger[m] EXCEPT !.ready = @ \ {s}])
  /\ UNCHANGED <<active, attached, dir, refs, work, root, made, waived, quiet>>

(* Mutation: a label that no step knows.                                    *)
NextEntryLost(m) == [merger[m] EXCEPT !.at = "ready", !.cur = None]

NextEntry(m) == [merger[m] EXCEPT !.at = "merging", !.cur = None]

(* git merge: not if the branch is gone or the root is busy by now; and if  *)
(* base or branch have moved into a conflict, the root stays in the middle  *)
(* of the merge.  An operator may choose to keep the worktree.              *)
Merge(m) ==
  /\ At(m, "inspected")
  /\ LET s == merger[m].cur
     IN  \/ /\ s \notin refs \/ root # "clean"
            /\ Set(m, NextEntry(m)) /\ UNCHANGED <<base, root, quiet>>
         \/ /\ s \in refs /\ root = "clean" /\ Conflicted(s)
            /\ root' = "conflicted"
            /\ Set(m, NextEntry(m)) /\ UNCHANGED base /\ Disturbs(m)
         \/ /\ s \in refs /\ root = "clean" /\ ~Conflicted(s)
            /\ base' = base \cup branch[s]
            /\ \/ Set(m, [merger[m] EXCEPT !.at = "merged"])
               \/ merger[m].single /\ Set(m, NextEntry(m))
            /\ UNCHANGED root /\ Disturbs(m)
  /\ UNCHANGED <<active, attached, dir, refs, edits, branch, made, waived>>

(* worktree::remove: git worktree remove --force, then git branch -D, which *)
(* is not reached if the worktree is gone already.                          *)
Remove(m) ==
  /\ At(m, "merged")
  /\ LET s == merger[m].cur
     IN  /\ dir' = dir \ {s} /\ edits' = [edits EXCEPT ![s] = {}]
         /\ Set(m, [merger[m] EXCEPT !.at = IF s \in dir THEN "removed" ELSE "deleted"])
  /\ Disturbs(m)
  /\ UNCHANGED <<active, attached, refs, branch, base, root, made, waived>>

DeleteBranch(m) ==
  /\ At(m, "removed")
  /\ refs' = refs \ {merger[m].cur} /\ branch' = [branch EXCEPT ![merger[m].cur] = {}]
  /\ Set(m, [merger[m] EXCEPT !.at = "deleted"])
  /\ Disturbs(m)
  /\ UNCHANGED <<active, attached, dir, edits, base, root, made, waived>>

(* clear_worktree                                                           *)
Clear(m) ==
  /\ At(m, "deleted")
  /\ attached' = attached \ {merger[m].cur}
  /\ Set(m, [NextEntry(m) EXCEPT !.merged = TRUE])
  /\ Disturbs(m)
  /\ UNCHANGED <<active, dir, refs, work, root, made, waived>>

(* After a pass over the ready entries: the queue is built anew if it has   *)
(* merged anything.                                                         *)
EndMerging(m) ==
  /\ At(m, "merging") /\ merger[m].ready = {}
  /\ IF merger[m].single THEN Set(m, Idle) /\ UNCHANGED quiet
     ELSE IF merger[m].merged THEN Build(m, merger[m].tried)
     ELSE Set(m, [merger[m] EXCEPT !.at = "rebasing"]) /\ UNCHANGED quiet
  /\ UNCHANGED <<active, attached, dir, refs, work, root, made, waived>>
-----------------------------------------------------------------------------
(* REBASING: rebase_session_worktree, for entries that conflict themselves  *)

(* Once per session and head of the base.  A worktree that is gone ends the *)
(* pass.                                                                    *)
TryRebase(m, s) ==
  /\ At(m, "rebasing") /\ s \in merger[m].conflicted
  /\ LET c == [merger[m] EXCEPT !.conflicted = @ \ {s}]
         t == [c EXCEPT !.tried = {h \in @ : h[1] # s} \cup {<<s, base>>}]
     IN  Set(m, IF s \notin attached THEN c
                ELSE IF s \notin dir THEN Idle
                ELSE IF <<s, base>> \in c.tried THEN c
                ELSE IF s \in active THEN t
                ELSE [t EXCEPT !.at = "replaying", !.cur = s])
  /\ UNCHANGED <<active, attached, dir, refs, work, root, made, waived, quiet>>

Replays(s) == s \in dir /\ ~Dirty(s)

(* The branch now contains the base; the queue is built anew.               *)
Rebase(m) ==
  /\ At(m, "replaying") /\ Replays(merger[m].cur)
  /\ branch' = [branch EXCEPT ![merger[m].cur] = @ \cup base]
  /\ Set(m, [Idle EXCEPT !.at = "judging", !.todo = attached, !.tried = merger[m].tried,
                         !.ended = attached \ active])
  /\ quiet' = {m}
  /\ UNCHANGED <<active, attached, dir, refs, edits, base, root, made, waived>>

(* git rebase finds conflicts, or nothing to work on, and is undone.        *)
FailRebase(m) ==
  /\ At(m, "replaying")
  /\ Set(m, [merger[m] EXCEPT !.at = "rebasing", !.cur = None])
  /\ UNCHANGED <<active, attached, dir, refs, work, root, made, waived, quiet>>

EndPass(m) ==
  /\ At(m, "rebasing") /\ merger[m].conflicted = {}
  /\ Set(m, Idle)
  /\ UNCHANGED <<active, attached, dir, refs, work, root, made, waived, quiet>>
-----------------------------------------------------------------------------
(* The process is killed, or the database refuses a statement.              *)
Crash(m) ==
  /\ ~At(m, "idle")
  /\ Set(m, Idle)
  /\ UNCHANGED <<active, attached, dir, refs, work, root, made, waived, quiet>>

Continues(m) ==
  \/ JudgeNone(m) \/ Merge(m) \/ Remove(m) \/ DeleteBranch(m) \/ Clear(m) \/ EndMerging(m)
  \/ Rebase(m) \/ FailRebase(m) \/ EndPass(m)
  \/ \E s \in Session : Judge(m, s) \/ Inspect(m, s) \/ TryRebase(m, s)
-----------------------------------------------------------------------------
(* THE WORLD                                                                *)

(* A session ends; one that was stopped or has failed is resumed.           *)
End(s) ==
  /\ s \in active
  /\ active' = active \ {s}
  /\ quiet' = {}
  /\ UNCHANGED <<attached, dir, refs, work, root, merger, made, waived>>

Resume(s) ==
  /\ s \notin active
  /\ active' = active \cup {s}
  /\ quiet' = {}
  /\ UNCHANGED <<attached, dir, refs, work, root, merger, made, waived>>

(* An agent or an operator changes something in a worktree, and commits.    *)
InMerge(s) ==
  \E m \in Merger : merger[m].cur = s /\ merger[m].at \in {"inspected", "merged", "removed", "deleted"}

Edit(s, c) ==
  /\ s \in dir /\ c \notin made
  /\ edits' = [edits EXCEPT ![s] = @ \cup {c}]
  /\ made' = made \cup {c}
  /\ waived' = IF InMerge(s) THEN waived \cup {c} ELSE waived
  /\ quiet' = {}
  /\ UNCHANGED <<active, attached, dir, refs, branch, base, root, merger>>

Commit(s) ==
  /\ s \in dir /\ Dirty(s)
  /\ branch' = [branch EXCEPT ![s] = @ \cup edits[s]]
  /\ edits' = [edits EXCEPT ![s] = {}]
  /\ quiet' = {}
  /\ UNCHANGED <<active, attached, dir, refs, base, root, merger, made, waived>>

(* Somebody commits to the base, or gives up a merge that conflicts.        *)
Land(c) ==
  /\ root = "clean" /\ c \notin made
  /\ base' = base \cup {c}
  /\ made' = made \cup {c}
  /\ quiet' = {}
  /\ UNCHANGED <<active, attached, dir, refs, edits, branch, root, merger, waived>>

Resolve ==
  /\ root = "conflicted" /\ root' = "clean"
  /\ quiet' = {}
  /\ UNCHANGED <<active, attached, dir, refs, work, merger, made, waived>>

(* Pruning, clean-up and deletion (module WorktreeSlots) throw a worktree   *)
(* away with what is in it.                                                 *)
Discard(s) ==
  /\ s \notin active /\ s \in attached
  /\ attached' = attached \ {s} /\ dir' = dir \ {s} /\ refs' = refs \ {s}
  /\ waived' = waived \cup edits[s] \cup branch[s]
  /\ edits' = [edits EXCEPT ![s] = {}] /\ branch' = [branch EXCEPT ![s] = {}]
  /\ quiet' = {}
  /\ UNCHANGED <<active, base, root, merger, made>>

World ==
  \/ \E s \in Session : \/ End(s) \/ Resume(s) \/ Commit(s) \/ Discard(s)
                        \/ \E c \in Change : Edit(s, c)
  \/ \E c \in Change : Land(c)
  \/ Resolve

Next ==
  \/ \E m \in Merger : \/ StartPass(m) \/ Continues(m) \/ Crash(m)
                       \/ \E s \in Session : StartOne(m, s)
  \/ World

Spec == Init /\ [][Next]_vars
-----------------------------------------------------------------------------
TypeOK ==
  /\ active \subseteq Session /\ attached \subseteq Session /\ dir \subseteq Session /\ refs \subseteq Session
  /\ edits \in [Session -> SUBSET Change] /\ branch \in [Session -> SUBSET Change]
  /\ base \subseteq Change /\ root \in {"clean", "conflicted"}
  /\ merger \in [Merger -> Work]
  /\ made \subseteq Change /\ waived \subseteq Change /\ quiet \subseteq Merger

(* A worktree and its branch go with nothing but what the base has: however *)
(* many merge, rebase and remove, and wherever they are killed, a change is *)
(* on the base, on a branch or in a worktree, unless it was made after the  *)
(* merge had looked for uncommitted changes, or somebody threw it away.     *)
WorkIsKept ==
  \A c \in made : c \in base \cup waived \/ \E s \in Session : c \in edits[s] \cup branch[s]

(* A queue is good for the pass that has built it: as long as nobody else   *)
(* does anything, each of its entries can be merged, whatever the entries   *)
(* before it have done to the base ("merge in queue order").                *)
QueueIsSound ==
  \A m \in quiet : At(m, "judging") \/ At(m, "merging") =>
    \A s \in merger[m].ready : Mergeable(s)

(* And it is complete: as long as nobody else does anything and nothing is  *)
(* merged yet, whatever could be merged is in it or conflicts with an entry *)
(* of it.  No session waits for one that is not going to be merged.         *)
QueueIsComplete ==
  \A m \in quiet :
    (At(m, "merging") \/ At(m, "inspected")) /\ ~merger[m].merged /\ root = "clean" =>
      LET entries == merger[m].ready \cup {merger[m].cur}
      IN  \A s \in Session : Mergeable(s) =>
            s \in entries \/ \E b \in entries \cap Session : Conflict(branch[s], branch[b])
=============================================================================
