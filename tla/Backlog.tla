------------------------------ MODULE Backlog ------------------------------
(* ecc2's backlog coordination (session/daemon.rs, session/manager.rs): task *)
(* handoffs that wait in the inboxes of sessions, and the daemon that hands *)
(* them to delegates of those sessions, moves them between delegates, and   *)
(* decides from what its last passes achieved which of the two comes first, *)
(* and whether a dispatch is worth trying.                                  *)
(*                                                                          *)
(* Every database statement is one step of the daemon, and so is the choice *)
(* of a delegate, which reads the delegates and their backlogs.  In between *)
(* sessions start, idle and end, handoffs arrive, and the dashboard marks   *)
(* the messages of the selected session as read.                            *)
EXTENDS Integers, FiniteSets, FiniteSetsExt

CONSTANTS
  Session,         \* session ids (an ended one stands for any other later)
  Root,            \* the sessions that run all the time
  Handoffs,        \* bound on the task handoffs that arrive
  MaxParallel,     \* max_parallel_sessions: delegates of one session, and
                   \* leads that one pass visits
  DrainLimit,      \* auto_dispatch_limit_per_session
  None,            \* no session
  StaleCapacity    \* may the world change between the moment a rebalance
                   \* finds capacity and the moment it uses it?

ASSUME BacklogAssumption ==
  /\ Root \subseteq Session /\ None \notin Session
  /\ Handoffs \in Nat /\ MaxParallel \in Nat \ {0} /\ DrainLimit \in Nat \ {0}
  /\ StaleCapacity \in BOOLEAN

(* Handoffs that ECC did not generate, by message id.                       *)
Task == 1 .. Handoffs

VARIABLES
  state,        \* the sessions: busy (pending or running), idle, or none (not
                \* there, or in a final state)
  intake,       \* each handoff: its sender, its recipient, and whether it
                \* has arrived and been marked read
  notices,      \* the assignment notices that each session has not read
  team,         \* who was ever handed a task by whom
  activity,     \* the daemon_activity row
  daemon,       \* where the daemon is in its cycle
  fate          \* history: what became of each handoff
world == <<state, intake, notices, team>>
vars == <<world, activity, daemon, fate>>
-----------------------------------------------------------------------------
Live(s) == state[s] # "none"
Unread(s) == {t \in Task : intake[t].status = "unread" /\ intake[t].to = s}
Backlog(s) == Cardinality(Unread(s)) + Cardinality(notices[s])

(* direct_delegate_sessions                                                 *)
Delegates(s) == {d \in Session : <<s, d>> \in team /\ Live(d)}
HasCapacity(s) == Cardinality(Delegates(s)) < MaxParallel
ClearIdle(s) == {d \in Delegates(s) : state[d] = "idle" /\ Backlog(d) = 0}

First(n, tasks) == {t \in tasks : Cardinality({u \in tasks : u < t}) < n}

(* unread_task_handoff_targets: the sessions with most handoffs first.      *)
Ahead(a, b) ==
  \/ Cardinality(Unread(a)) > Cardinality(Unread(b))
  \/ Cardinality(Unread(a)) = Cardinality(Unread(b)) /\ Min(Unread(a)) < Min(Unread(b))
Waiting == {s \in Session : Unread(s) # {}}
Targets == {s \in Waiting : Cardinality({a \in Waiting : Ahead(a, s)}) < MaxParallel}

(* DaemonActivity.  order tells which of the last dispatch and the last     *)
(* recovery dispatch was later; a streak of more than 5 is like one of 5.   *)
Order == {"never", "dispatched", "recovered", "dispatchedSince"}
PrefersRebalance(a) == a.deferred > 0 /\ a.order \in {"dispatched", "dispatchedSince"}
Cooloff(a) == PrefersRebalance(a) /\ (a.deferred >= 2 \/ a.streak >= 3)
Stabilized(a) == a.deferred = 0 /\ a.order = "dispatchedSince"
Escalated(a) == Cooloff(a) /\ a.streak >= 5 /\ ~a.rerouted

(* Between two leads the daemon remembers its pass (dispatch or rebalance;  *)
(* closing: the second one of a cycle), the leads it still has to visit,    *)
(* what the activity row told it, and what it has routed, deferred, moved.  *)
(* At a lead: the inboxes of delegates still to do, the one it took the     *)
(* batch from, the handoff and the session chosen for it, and how many it   *)
(* has moved here.                                                          *)
Quiescent == [at |-> "idle", pass |-> "dispatch", closing |-> FALSE, leads |-> {},
              cooloff |-> FALSE, stabilized |-> FALSE,
              routed |-> FALSE, deferred |-> {}, moved |-> FALSE,
              lead |-> None, inboxes |-> {}, holder |-> None, batch |-> {},
              task |-> 0, target |-> None, here |-> 0]
BetweenLeads(d) == [d EXCEPT !.lead = None, !.inboxes = {}, !.holder = None, !.batch = {},
                             !.task = 0, !.target = None, !.here = 0]

(* A handoff that has not arrived, and one that is read and plays no part   *)
(* any more.                                                                *)
Absent == [from |-> None, to |-> None, status |-> "none"]
Read == [Absent EXCEPT !.status = "read"]

Init ==
  /\ state = [s \in Session |-> IF s \in Root THEN "busy" ELSE "none"]
  /\ intake = [t \in Task |-> Absent]
  /\ notices = [s \in Session |-> {}]
  /\ team = {}
  /\ activity = [deferred |-> 0, streak |-> 0, order |-> "never", rerouted |-> FALSE]
  /\ daemon = Quiescent
  /\ fate = [t \in Task |-> "new"]
-----------------------------------------------------------------------------
(* THE CYCLE: coordinate_backlog_cycle_with                                 *)

At(label) == daemon.at = label

Dispatching(d) == [d EXCEPT !.at = "leads", !.pass = "dispatch", !.leads = Targets,
                            !.routed = FALSE, !.deferred = {}]

(* rebalance_all_teams visits live sessions, those updated last first.      *)
Rebalancing(d, leads) ==
  [d EXCEPT !.at = "leads", !.pass = "rebalance", !.leads = leads, !.moved = FALSE,
            !.stabilized = FALSE]
SomeLeads == kSubset(Min({MaxParallel, Cardinality({s \in Session : Live(s)})}),
                     {s \in Session : Live(s)})

StartCycle ==
  /\ At("idle")
  /\ LET d == [Quiescent EXCEPT !.cooloff = Cooloff(activity), !.stabilized = Stabilized(activity)]
     IN  IF PrefersRebalance(activity)
           THEN \E leads \in SomeLeads : daemon' = [Rebalancing(d, leads) EXCEPT !.closing = TRUE]
           ELSE daemon' = Dispatching(d)
  /\ UNCHANGED <<world, activity, fate>>

PassIsOver(pass) == At("leads") /\ daemon.pass = pass /\ daemon.leads = {}

Later == [activity EXCEPT !.deferred = Cardinality(daemon.deferred),
            !.order = IF @ \in {"never", "dispatched"} THEN "dispatched" ELSE "dispatchedSince"]

(* Mutation: every pass starts the streak of deferrals anew.                *)
RecordDispatchAnew ==
  activity' = [Later EXCEPT !.streak = IF daemon.deferred # {} THEN 1 ELSE 0]

(* Mutation: the deferrals of earlier passes are added up.                  *)
RecordDispatchTotal ==
  activity' = [Later EXCEPT !.deferred = @ + activity.deferred]

(* record_daemon_dispatch_pass                                              *)
RecordDispatch ==
  activity' = [Later EXCEPT !.streak = IF daemon.deferred = {} THEN 0
                                       ELSE IF @ < 5 THEN @ + 1 ELSE 5]

(* A dispatch after a rebalance ends the cycle, and counts as recovery if   *)
(* it placed anything; one before it may make the rebalance unnecessary.    *)
EndDispatch ==
  /\ PassIsOver("dispatch")
  /\ RecordDispatch
  /\ IF daemon.closing
       THEN daemon' = IF daemon.routed THEN [Quiescent EXCEPT !.at = "recovered"] ELSE Quiescent
       ELSE IF daemon.stabilized /\ daemon.deferred = {}
         THEN daemon' = Quiescent
         ELSE \E leads \in SomeLeads : daemon' = Rebalancing(daemon, leads)
  /\ UNCHANGED <<world, fate>>

(* record_daemon_rebalance_pass, and whether a dispatch follows.            *)
EndRebalance ==
  /\ PassIsOver("rebalance")
  /\ activity' = [activity EXCEPT !.rerouted = daemon.moved]
  /\ LET dispatch == IF daemon.closing
                       THEN ~daemon.cooloff \/ daemon.moved
                       ELSE daemon.deferred # {} /\ daemon.moved
     IN  daemon' = IF dispatch THEN [Dispatching(Quiescent) EXCEPT !.closing = TRUE] ELSE Quiescent
  /\ UNCHANGED <<world, fate>>

(* record_daemon_recovery_dispatch_pass                                     *)
RecordRecovery ==
  /\ At("recovered")
  /\ activity' = [activity EXCEPT !.order = "recovered", !.streak = 0]
  /\ daemon' = Quiescent
  /\ UNCHANGED <<world, fate>>
-----------------------------------------------------------------------------
(* The messages of the batch that are left, and what comes after them.      *)
Proceed(d, batch) ==
  IF batch # {} THEN [d EXCEPT !.at = "messages", !.batch = batch, !.task = 0, !.target = None]
  ELSE IF d.inboxes # {}
    THEN [BetweenLeads(d) EXCEPT !.at = "inboxes", !.lead = d.lead, !.inboxes = d.inboxes, !.here = d.here]
  ELSE [BetweenLeads(d) EXCEPT !.at = "leads"]

(* drain_inbox                                                              *)
OpenInbox(s) ==
  /\ At("leads") /\ daemon.pass = "dispatch" /\ s \in daemon.leads
  /\ daemon' = Proceed([daemon EXCEPT !.leads = @ \ {s}, !.lead = s],
                       First(DrainLimit, Unread(s)))
  /\ UNCHANGED <<world, activity, fate>>

(* rebalance_team_backlog: delegates with more than one unread message, if  *)
(* another one is idle or the team may grow.                                *)
Overloaded(s) ==
  {d \in Delegates(s) : Backlog(d) > 1 /\ (HasCapacity(s) \/ ClearIdle(s) \ {d} # {})}

OpenTeam(s) ==
  /\ At("leads") /\ daemon.pass = "rebalance" /\ s \in daemon.leads
  /\ daemon' = Proceed([daemon EXCEPT !.leads = @ \ {s}, !.lead = s, !.here = 0,
                                      !.inboxes = Overloaded(s)], {})
  /\ UNCHANGED <<world, activity, fate>>

OpenDelegate(d) ==
  /\ At("inboxes") /\ d \in daemon.inboxes
  /\ daemon' = IF daemon.here >= DrainLimit
                 THEN Proceed([daemon EXCEPT !.inboxes = {}], {})
                 ELSE Proceed([daemon EXCEPT !.inboxes = @ \ {d}, !.holder = d],
                              First(DrainLimit - daemon.here, Unread(d)))
  /\ UNCHANGED <<world, activity, fate>>

IsNext(t) == t \in daemon.batch /\ \A u \in daemon.batch : t <= u
Rest(t) == daemon.batch \ {t}

(* Each message is moved only if there is room now, and if it comes from    *)
(* the lead.                                                                *)
CheckMessage(t) ==
  /\ At("messages") /\ daemon.pass = "rebalance" /\ IsNext(t)
  /\ LET room == HasCapacity(daemon.lead) \/ ClearIdle(daemon.lead) \ {daemon.holder} # {}
     IN  daemon' = IF ~room THEN Proceed(daemon, {})
                   ELSE IF intake[t].from # daemon.lead THEN Proceed(daemon, Rest(t))
                   ELSE [daemon EXCEPT !.at = "choosing"]
  /\ UNCHANGED <<world, activity, fate>>
-----------------------------------------------------------------------------
(* ASSIGNMENT: assign_session_in_dir_with_runner_program                    *)

Choosing == At("choosing") \/ (At("messages") /\ daemon.pass = "dispatch")

Assign(t, target, next) ==
  /\ IsNext(t)
  /\ daemon' = [daemon EXCEPT !.at = next, !.task = t, !.target = target]

(* A session has handoff t.                                                 *)
Given(t) ==
  fate' = [fate EXCEPT ![t] = CASE @ = "given" -> "given twice"
                                [] @ \in {"new", "seen"} -> "given"
                                [] OTHER -> @]

(* An idle delegate with an empty inbox gets the task.                      *)
ReuseIdle(d) ==
  /\ Choosing
  /\ d \in ClearIdle(daemon.lead)
  /\ \E t \in Task : Assign(t, d, "notifying")
  /\ UNCHANGED <<world, activity, fate>>

(* The ids that are free for a new session.                                 *)
Fresh == {s \in Session \ (Root \cup {daemon.lead, daemon.holder}) : ~Live(s) /\ Unread(s) = {}}

(* Otherwise the team grows, up to its limit: queue_session starts a        *)
(* session on the task.  It has the task now, and is announced next.        *)
Spawn(d) ==
  /\ Choosing
  /\ ClearIdle(daemon.lead) = {} /\ HasCapacity(daemon.lead)
  /\ d \in Fresh
  /\ state' = [state EXCEPT ![d] = "busy"]
  /\ notices' = [notices EXCEPT ![d] = {}]
  /\ team' = {pair \in team : d \notin {pair[1], pair[2]}}
  /\ \E t \in Task : Assign(t, d, "announcing") /\ Given(t)
  /\ UNCHANGED <<intake, activity>>

(* At the limit a running or pending delegate without a backlog gets it,    *)
(* whichever fits the task best.                                            *)
AtLimit == Choosing /\ ClearIdle(daemon.lead) = {} /\ ~HasCapacity(daemon.lead)
NoneIdle == \A d \in Delegates(daemon.lead) : state[d] # "idle"

ReuseActive(d) ==
  /\ AtLimit /\ NoneIdle
  /\ d \in Delegates(daemon.lead) /\ Backlog(d) = 0
  /\ \E t \in Task : Assign(t, d, "notifying")
  /\ UNCHANGED <<world, activity, fate>>

(* Mutation: a drain marks what it deferred as read, too.                   *)
DeferAndMark(t) ==
  /\ AtLimit /\ IsNext(t)
  /\ NoneIdle => \E d \in Delegates(daemon.lead) : Backlog(d) > 0
  /\ daemon' = [daemon EXCEPT !.at = "marking", !.task = t, !.target = daemon.lead]
  /\ UNCHANGED <<world, activity, fate>>

(* DeferredSaturated: a delegate idles over a backlog, or the one that fits *)
(* best has one.  The outcome names the lead as the session.  A drain       *)
(* leaves the message alone; a rebalance sees a session other than the      *)
(* holder and marks it read.                                                *)
Defer(t) ==
  /\ AtLimit /\ IsNext(t)
  /\ NoneIdle => \E d \in Delegates(daemon.lead) : Backlog(d) > 0
  /\ daemon' = IF daemon.pass = "dispatch"
                 THEN Proceed([daemon EXCEPT !.deferred = @ \cup {t}], Rest(t))
                 ELSE [daemon EXCEPT !.at = "marking", !.task = t, !.target = daemon.lead]
  /\ UNCHANGED <<world, activity, fate>>

(* send_task_handoff: the notice, which also makes the session a delegate,  *)
(* and by which one that was there before gets the task.                    *)
Notify ==
  /\ At("notifying") \/ At("announcing")
  /\ notices' = [notices EXCEPT ![daemon.target] = @ \cup {daemon.task}]
  /\ team' = team \cup {<<daemon.lead, daemon.target>>}
  /\ IF At("announcing") THEN UNCHANGED fate ELSE Given(daemon.task)
  /\ daemon' = [daemon EXCEPT !.at = "marking"]
  /\ UNCHANGED <<state, intake, activity>>

(* Mutation: what was assigned stays in the inbox.                          *)
MarkNothing ==
  /\ At("marking")
  /\ daemon' = Proceed(daemon, Rest(daemon.task))
  /\ UNCHANGED <<world, activity, fate>>

(* mark_message_read, unless the rebalance chose the holder itself.         *)
Mark ==
  /\ At("marking")
  /\ LET kept == daemon.pass = "rebalance" /\ daemon.target = daemon.holder
         done == IF kept THEN daemon
                 ELSE IF daemon.pass = "dispatch" THEN [daemon EXCEPT !.routed = daemon.closing]
                 ELSE [daemon EXCEPT !.here = @ + 1, !.moved = TRUE]
     IN  /\ intake' = IF kept THEN intake ELSE [intake EXCEPT ![daemon.task] = Read]
         /\ daemon' = Proceed(done, IF done.here >= DrainLimit /\ done.pass = "rebalance" THEN {} ELSE Rest(daemon.task))
  /\ UNCHANGED <<state, notices, team, activity, fate>>

Assignment ==
  \/ \E d \in Session : ReuseIdle(d) \/ Spawn(d) \/ ReuseActive(d)
  \/ \E t \in Task : Defer(t)
  \/ Notify \/ Mark

Cycle ==
  \/ StartCycle \/ EndDispatch \/ EndRebalance \/ RecordRecovery
  \/ \E s \in Session : OpenInbox(s) \/ OpenTeam(s) \/ OpenDelegate(s)
  \/ \E t \in Task : CheckMessage(t)
  \/ Assignment

(* A session has the handoff, and the inbox does not know it yet.           *)
HalfAssigned == At("announcing") \/ At("marking")

(* The daemon is killed, or a statement fails; the next cycle starts afresh. *)
Abort ==
  /\ ~At("idle")
  /\ daemon' = Quiescent
  /\ fate' = [t \in Task |-> IF HalfAssigned /\ t = daemon.task /\ fate[t] = "given"
                               THEN "interrupted" ELSE fate[t]]
  /\ UNCHANGED <<world, activity>>
-----------------------------------------------------------------------------
(* THE WORLD                                                                *)

Settled == StaleCapacity \/ ~At("choosing")

(* A session goes idle, goes on, or ends (then it is no delegate any more,  *)
(* and its notices make no difference to anyone).                           *)
Works(s) ==
  /\ Settled
  /\ Live(s) /\ s \notin Root
  /\ \E next \in {"busy", "idle", "none"} \ {state[s]} :
       /\ state' = [state EXCEPT ![s] = next]
       /\ notices' = IF next = "none" THEN [notices EXCEPT ![s] = {}] ELSE notices
       /\ team' = IF next = "none" THEN {pair \in team : pair[2] # s} ELSE team
  /\ UNCHANGED <<intake, activity, daemon, fate>>

(* A handoff from outside to a session, or from a lead to its delegate.     *)
Submit(t, from, to) ==
  /\ Settled
  /\ intake[t].status = "none" /\ \A u \in Task : u < t => intake[u].status # "none"
  /\ Live(to) /\ (from # None => to \in Delegates(from))
  /\ intake' = [intake EXCEPT ![t] = [from |-> from, to |-> to, status |-> "unread"]]
  /\ UNCHANGED <<state, notices, team, activity, daemon, fate>>

(* The dashboard shows a session: all its messages are marked read.         *)
Select(s) ==
  /\ Settled
  /\ Backlog(s) > 0
  /\ intake' = [t \in Task |-> IF t \in Unread(s) THEN Read ELSE intake[t]]
  /\ notices' = [notices EXCEPT ![s] = {}]
  /\ fate' = [t \in Task |-> IF t \in Unread(s) /\ fate[t] = "new" THEN "seen" ELSE fate[t]]
  /\ UNCHANGED <<state, team, activity, daemon>>

World ==
  \/ \E s \in Session : Works(s) \/ Select(s)
  \/ \E t \in Task, from \in Session \cup {None}, to \in Session : Submit(t, from, to)

Next == Cycle \/ Abort \/ World
Spec == Init /\ [][Next]_vars

(* The daemon's loop goes on; nothing is assumed of the rest.               *)
FairSpec == Spec /\ WF_vars(Cycle)
-----------------------------------------------------------------------------
Activity == [deferred : 0 .. Handoffs, streak : 0 .. 5, order : Order, rerouted : BOOLEAN]

Daemon ==
  [at : {"idle", "leads", "inboxes", "messages", "choosing", "notifying",
         "announcing", "marking", "recovered"},
   pass : {"dispatch", "rebalance"}, closing : BOOLEAN, cooloff : BOOLEAN, stabilized : BOOLEAN,
   leads : SUBSET Session, lead : Session \cup {None},
   inboxes : SUBSET Session, holder : Session \cup {None},
   batch : SUBSET Task, task : Task \cup {0}, target : Session \cup {None},
   routed : BOOLEAN, deferred : SUBSET Task, here : 0 .. DrainLimit, moved : BOOLEAN]
Handoff == [from : Session \cup {None}, to : Session \cup {None}, status : {"none", "unread", "read"}]

TypeOK ==
  /\ state \in [Session -> {"none", "busy", "idle"}]
  /\ intake \in [Task -> Handoff]
  /\ notices \in [Session -> SUBSET Task]
  /\ team \subseteq Session \X Session
  /\ activity \in Activity
  /\ daemon \in Daemon
  /\ fate \in [Task -> {"new", "seen", "given", "given twice", "interrupted"}]

(* A handoff that is marked read was given to a session, or someone has     *)
(* read it: the daemon never drops work, whatever it defers and wherever it *)
(* is killed.                                                               *)
NoTaskIsLost ==
  \A t \in Task : intake[t].status = "read" => fate[t] # "new"

(* A handoff is given to a second session only if the daemon was cut short  *)
(* after the first one had it, be that by its launch or by the notice, and  *)
(* before the handoff was marked (drain_inbox assigns and then marks, and   *)
(* an assignment launches and then sends the notice).                       *)
AssignedOnce == \A t \in Task : fate[t] # "given twice"

(* summarize_backlog_pressure: a backlog that delegates could absorb.       *)
Absorbable(s) == Unread(s) # {} /\ (HasCapacity(s) \/ ClearIdle(s) # {})

LeftAlone == <>[][Cycle]_vars

(* The instance has run out of ids for the session that the daemon would    *)
(* start.                                                                   *)
OutOfIds ==
  Choosing /\ ClearIdle(daemon.lead) = {} /\ HasCapacity(daemon.lead) /\ Fresh = {}

(* Left alone, the daemon works off the backlog or ends up cooling off: the *)
(* passes, with their conditions on each other, leave no handoff behind     *)
(* otherwise, and no abandoned pass makes them forget one.                  *)
BacklogSettles ==
  LeftAlone => <>[](Waiting = {} \/ Cooloff(activity) \/ OutOfIds)

(* Left alone over a backlog that delegates could absorb, the daemon works  *)
(* it off or asks for an operator: "Operator escalation recommended:        *)
(* chronic saturation is not clearing" (tui/dashboard.rs, and the test      *)
(* selected_session_metrics_text_recommends_operator_escalation_when_       *)
(* chronic_saturation_is_stuck).                                            *)
StuckIsEscalated ==
  LeftAlone => []<>(Escalated(activity) \/ OutOfIds \/ \A s \in Session : ~Absorbable(s))
=============================================================================
