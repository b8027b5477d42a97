--------------------------- MODULE BacklogProofs ---------------------------
(* Proofs about Backlog, for any number of sessions, handoffs and           *)
(* delegates.                                                               *)
EXTENDS Backlog, FiniteSetTheorems, TLAPS

LEMMA DeferredBounded ==
  ASSUME NEW S \in SUBSET Task
  PROVE  Cardinality(S) \in 0 .. Handoffs
<1>1. IsFiniteSet(Task) /\ Cardinality(Task) = Handoffs
  BY FS_Interval, BacklogAssumption DEF Task
<1>2. Cardinality(S) \in Nat /\ Cardinality(S) <= Handoffs
  BY <1>1, FS_Subset, FS_CardinalityType
<1> QED BY <1>2, BacklogAssumption

LEMMA DaemonParts ==
  ASSUME NEW d \in Daemon
  PROVE  /\ d.at \in {"idle", "leads", "inboxes", "messages", "choosing", "notifying",
                     "announcing", "marking", "recovered"}
         /\ d.pass \in {"dispatch", "rebalance"} /\ d.lead \in Session \cup {None}
         /\ d.holder \in Session \cup {None} /\ d.target \in Session \cup {None}
         /\ d.batch \in SUBSET Task /\ d.deferred \in SUBSET Task /\ d.inboxes \in SUBSET Session
         /\ d.leads \in SUBSET Session /\ d.task \in Task \cup {0} /\ d.here \in 0 .. DrainLimit
  BY DEF Daemon

LEMMA QuiescentType == Quiescent \in Daemon
  BY BacklogAssumption DEF Quiescent, Daemon

LEMMA QuiescentMeans == Quiescent.at = "idle" /\ Quiescent.batch = {}
  BY DEF Quiescent

LEMMA BetweenLeadsType ==
  ASSUME NEW d \in Daemon
  PROVE  /\ BetweenLeads(d) \in Daemon
         /\ BetweenLeads(d).at = d.at /\ BetweenLeads(d).pass = d.pass
         /\ BetweenLeads(d).batch = {} /\ BetweenLeads(d).here = 0
<1>1. 0 \in 0 .. DrainLimit
  BY BacklogAssumption
<1>2. /\ BetweenLeads(d).at = d.at /\ BetweenLeads(d).pass = d.pass
      /\ BetweenLeads(d).batch = {} /\ BetweenLeads(d).here = 0
  BY DEF BetweenLeads, Daemon
<1>3. BetweenLeads(d) \in Daemon
  BY <1>1 DEF BetweenLeads, Daemon
<1> QED BY <1>2, <1>3

LEMMA ProceedMeans ==
  ASSUME NEW d \in Daemon, NEW batch \in SUBSET Task
  PROVE  /\ Proceed(d, batch) \in Daemon
         /\ Proceed(d, batch).pass = d.pass
         /\ batch # {} =>
              /\ Proceed(d, batch).at = "messages" /\ Proceed(d, batch).batch = batch
              /\ Proceed(d, batch).holder = d.holder /\ Proceed(d, batch).here = d.here
         /\ batch = {} => Proceed(d, batch).at \in {"inboxes", "leads"} /\ Proceed(d, batch).batch = {}
         /\ Proceed(d, batch).at # "leads" => Proceed(d, batch).lead = d.lead
<1>1. CASE batch # {}
  BY <1>1 DEF Proceed, Daemon
<1>2. CASE batch = {} /\ d.inboxes # {}
  <2>1. BetweenLeads(d) \in Daemon /\ BetweenLeads(d).batch = {} /\ BetweenLeads(d).pass = d.pass
    BY BetweenLeadsType
  <2>2. d.lead \in Session \cup {None} /\ d.inboxes \in SUBSET Session /\ d.here \in 0 .. DrainLimit
    BY DaemonParts
  <2>3. Proceed(d, batch) = [BetweenLeads(d) EXCEPT !.at = "inboxes", !.lead = d.lead,
                                                    !.inboxes = d.inboxes, !.here = d.here]
    BY <1>2 DEF Proceed
  <2> QED BY <1>2, <2>1, <2>2, <2>3 DEF Daemon
<1>3. CASE batch = {} /\ d.inboxes = {}
  <2>1. BetweenLeads(d) \in Daemon /\ BetweenLeads(d).batch = {} /\ BetweenLeads(d).pass = d.pass
    BY BetweenLeadsType
  <2>2. Proceed(d, batch) = [BetweenLeads(d) EXCEPT !.at = "leads"]
    BY <1>3 DEF Proceed
  <2> QED BY <1>3, <2>1, <2>2 DEF Daemon
<1> QED BY <1>1, <1>2, <1>3

(* Handoffs and delegates are what they should be.                          *)
LEMMA Parts ==
  ASSUME TypeOK, NEW s \in Session
  PROVE  /\ Unread(s) \in SUBSET Task /\ Delegates(s) \in SUBSET Session
         /\ ClearIdle(s) \in SUBSET Session /\ Targets \in SUBSET Session
  BY DEF Unread, Delegates, ClearIdle, Targets, Waiting

LEMMA FirstType ==
  ASSUME NEW n, NEW S \in SUBSET Task
  PROVE  First(n, S) \in SUBSET S
  BY DEF First

LEMMA LeadsType ==
  ASSUME NEW leads \in SomeLeads
  PROVE  leads \in SUBSET Session
  BY DEF SomeLeads, kSubset

LEMMA DispatchingType ==
  ASSUME TypeOK, NEW d \in Daemon
  PROVE  /\ Dispatching(d) \in Daemon /\ [Dispatching(d) EXCEPT !.closing = TRUE] \in Daemon
         /\ Dispatching(d).at = "leads" /\ [Dispatching(d) EXCEPT !.closing = TRUE].at = "leads"
         /\ Dispatching(d).batch = d.batch /\ [Dispatching(d) EXCEPT !.closing = TRUE].batch = d.batch
<1>1. Targets \in SUBSET Session
  BY DEF Targets, Waiting
<1> HIDE DEF Targets
<1> QED BY <1>1 DEF Dispatching, Daemon

LEMMA RebalancingType ==
  ASSUME NEW d \in Daemon, NEW leads \in SUBSET Session
  PROVE  /\ Rebalancing(d, leads) \in Daemon /\ [Rebalancing(d, leads) EXCEPT !.closing = TRUE] \in Daemon
         /\ Rebalancing(d, leads).at = "leads" /\ [Rebalancing(d, leads) EXCEPT !.closing = TRUE].at = "leads"
         /\ Rebalancing(d, leads).batch = d.batch
         /\ [Rebalancing(d, leads) EXCEPT !.closing = TRUE].batch = d.batch
  BY DEF Rebalancing, Daemon
-----------------------------------------------------------------------------
(* THE STEPS OF THE DAEMON                                                  *)

(* Where it holds no batch, and where it holds one with room for another    *)
(* move; where it has chosen a session, and where a session may have the    *)
(* handoff already.                                                         *)
Between == {"idle", "leads", "inboxes", "recovered"}
Decided == {"notifying", "announcing"}
Half == {"announcing", "marking"}

HoldsRight(d) ==
  /\ d.at \in Between => d.batch = {}
  /\ d.at \in Decided \cup Half => d.task \in d.batch
  /\ d.at = "choosing" => d.pass = "rebalance"
  /\ d.at \notin {"idle", "leads", "recovered"} => d.lead \in Session
  /\ d.at \in Decided => d.target \in Session
  /\ d.at \notin Between /\ d.pass = "rebalance" => d.here < DrainLimit

Typed == TypeOK /\ HoldsRight(daemon)

(* Steps between batches.                                                   *)
LEMMA CycleMeans ==
  ASSUME Typed, StartCycle \/ EndDispatch \/ EndRebalance \/ RecordRecovery
  PROVE  /\ daemon' \in Daemon /\ daemon'.at \in Between \ {"inboxes"} /\ daemon'.batch = {}
         /\ daemon.at \in Between
         /\ activity' \in Activity
         /\ UNCHANGED <<world, fate>>
<1>0. TypeOK /\ daemon \in Daemon /\ activity \in Activity
  BY DEF Typed, TypeOK
<1>1. Quiescent.batch = {} /\ Quiescent.at = "idle"
  BY DEF Quiescent
<1>2. CASE StartCycle
  <2> DEFINE d == [Quiescent EXCEPT !.cooloff = Cooloff(activity), !.stabilized = Stabilized(activity)]
  <2>1. Cooloff(activity) \in BOOLEAN /\ Stabilized(activity) \in BOOLEAN
    BY DEF Cooloff, Stabilized
  <2>2. d \in Daemon /\ d.batch = {}
    BY <2>1, <1>1, QuiescentType DEF Daemon
  <2>3. \/ daemon' = Dispatching(d)
        \/ \E leads \in SomeLeads : daemon' = [Rebalancing(d, leads) EXCEPT !.closing = TRUE]
    BY <1>2 DEF StartCycle
  <2>4. UNCHANGED <<world, activity, fate>> /\ daemon.at = "idle"
    BY <1>2 DEF StartCycle, At
  <2> HIDE DEF d
  <2>5. CASE daemon' = Dispatching(d)
    BY <1>0, <2>2, <2>4, <2>5, DispatchingType DEF Between
  <2>6. ASSUME NEW leads \in SomeLeads, daemon' = [Rebalancing(d, leads) EXCEPT !.closing = TRUE]
        PROVE  daemon' \in Daemon /\ daemon'.at \in Between \ {"inboxes"} /\ daemon'.batch = {}
    BY <2>2, <2>6, LeadsType, RebalancingType DEF Between
  <2> QED BY <1>0, <2>3, <2>4, <2>5, <2>6 DEF Between
<1>3. ASSUME RecordDispatch
      PROVE  activity' \in Activity
  <2>1. Cardinality(daemon.deferred) \in 0 .. Handoffs
    BY <1>0, DaemonParts, DeferredBounded
  <2>2. "dispatched" \in Order /\ "dispatchedSince" \in Order
    BY DEF Order
  <2>3. Later \in Activity
    BY <1>0, <2>1, <2>2 DEF Later, Activity
  <2>4. Later.streak \in 0 .. 5
    BY <2>3 DEF Activity
  <2> DEFINE streak == IF daemon.deferred = {} THEN 0 ELSE IF Later.streak < 5 THEN Later.streak + 1 ELSE 5
  <2>5. streak \in 0 .. 5
    BY <2>4
  <2>6. activity' = [Later EXCEPT !.streak = streak]
    BY <1>3 DEF RecordDispatch
  <2> HIDE DEF streak
  <2> QED BY <2>3, <2>5, <2>6 DEF Activity
<1>4. CASE EndDispatch
  <2>1. daemon.at = "leads" /\ RecordDispatch /\ UNCHANGED <<world, fate>>
    BY <1>4 DEF EndDispatch, PassIsOver, At
  <2>2. daemon.batch = {}
    BY <2>1 DEF Typed, HoldsRight, Between, Decided, Half
  <2>3. \/ daemon' = [Quiescent EXCEPT !.at = "recovered"] \/ daemon' = Quiescent
        \/ \E leads \in SomeLeads : daemon' = Rebalancing(daemon, leads)
    BY <1>4 DEF EndDispatch
  <2>4. [Quiescent EXCEPT !.at = "recovered"] \in Daemon
    BY QuiescentType DEF Daemon
  <2>5. [Quiescent EXCEPT !.at = "recovered"].at = "recovered" /\ [Quiescent EXCEPT !.at = "recovered"].batch = {}
    BY <1>1, QuiescentType DEF Daemon
  <2>6. ASSUME NEW leads \in SomeLeads, daemon' = Rebalancing(daemon, leads)
        PROVE  daemon' \in Daemon /\ daemon'.at \in Between \ {"inboxes"} /\ daemon'.batch = {}
    BY <1>0, <2>2, <2>6, LeadsType, RebalancingType DEF Between
  <2>7. daemon' \in Daemon /\ daemon'.at \in Between \ {"inboxes"} /\ daemon'.batch = {}
    BY <1>1, <2>3, <2>4, <2>5, <2>6, QuiescentType DEF Between
  <2> QED BY <1>3, <2>1, <2>7 DEF Between
<1>5. CASE EndRebalance
  <2>1. daemon.at = "leads" /\ UNCHANGED <<world, fate>>
    BY <1>5 DEF EndRebalance, PassIsOver, At
  <2>2. activity' \in Activity
    BY <1>0, <1>5 DEF EndRebalance, Activity, Daemon
  <2>3. daemon' = Quiescent \/ daemon' = [Dispatching(Quiescent) EXCEPT !.closing = TRUE]
    BY <1>5 DEF EndRebalance
  <2>4. daemon' \in Daemon /\ daemon'.at \in Between \ {"inboxes"} /\ daemon'.batch = {}
    BY <1>0, <1>1, <2>3, QuiescentType, DispatchingType DEF Between
  <2> QED BY <2>1, <2>2, <2>4 DEF Between
<1>6. CASE RecordRecovery
  <2>1. daemon.at = "recovered" /\ UNCHANGED <<world, fate>> /\ daemon' = Quiescent
    BY <1>6 DEF RecordRecovery, At
  <2>2. activity' \in Activity
    <3>1. 0 \in 0 .. 5 /\ "recovered" \in Order
      BY DEF Order
    <3>2. activity' = [activity EXCEPT !.order = "recovered", !.streak = 0]
      BY <1>6 DEF RecordRecovery
    <3> QED BY <1>0, <3>1, <3>2 DEF Activity
  <2> QED BY <1>1, <2>1, <2>2, QuiescentType DEF Between
<1> QED BY <1>2, <1>4, <1>5, <1>6

(* Steps that open an inbox or a team: a batch is of unread handoffs.       *)
Opened(d, batch) ==
  /\ daemon' = Proceed(d, batch)
  /\ d.lead \in Session
  /\ \A t \in batch : intake[t].status = "unread"
  /\ d.pass = "rebalance" => \A t \in batch : intake[t].to = d.holder /\ d.here < DrainLimit

LEMMA OpenMeans ==
  ASSUME Typed, NEW s \in Session, OpenInbox(s) \/ OpenTeam(s) \/ OpenDelegate(s)
  PROVE  /\ daemon.at \in Between /\ UNCHANGED <<world, activity, fate>>
         /\ \E d \in Daemon, batch \in SUBSET Task : Opened(d, batch)
<1>0. daemon \in Daemon /\ Unread(s) \in SUBSET Task /\ DrainLimit \in Nat
  BY Parts, BacklogAssumption DEF Typed, TypeOK
<1>1. CASE OpenInbox(s)
  <2> DEFINE d == [daemon EXCEPT !.leads = @ \ {s}, !.lead = s]
  <2>1. d \in Daemon /\ d.pass = "dispatch" /\ d.lead = s
    BY <1>0, <1>1 DEF Daemon, OpenInbox
  <2>2. daemon' = Proceed(d, First(DrainLimit, Unread(s))) /\ daemon.at = "leads" /\ UNCHANGED <<world, activity, fate>>
    BY <1>1 DEF OpenInbox, At
  <2>3. First(DrainLimit, Unread(s)) \in SUBSET Unread(s)
    BY <1>0, FirstType
  <2> HIDE DEF d
  <2>4. Opened(d, First(DrainLimit, Unread(s)))
    BY <2>1, <2>2, <2>3 DEF Opened, Unread
  <2> QED BY <1>0, <2>1, <2>2, <2>3, <2>4 DEF Between
<1>2. CASE OpenTeam(s)
  <2> DEFINE d == [daemon EXCEPT !.leads = @ \ {s}, !.lead = s, !.here = 0, !.inboxes = Overloaded(s)]
  <2>1. Overloaded(s) \in SUBSET Session /\ 0 \in 0 .. DrainLimit
    BY <1>0, Parts DEF Overloaded, Typed
  <2>2. d \in Daemon /\ d.lead = s
    BY <1>0, <2>1 DEF Daemon
  <2>3. daemon' = Proceed(d, {}) /\ daemon.at = "leads" /\ UNCHANGED <<world, activity, fate>>
    BY <1>2 DEF OpenTeam, At
  <2> HIDE DEF d
  <2>4. Opened(d, {})
    BY <2>2, <2>3 DEF Opened
  <2> QED BY <2>2, <2>3, <2>4 DEF Between
<1>3. CASE OpenDelegate(s)
  <2>1. daemon.at = "inboxes" /\ daemon.lead \in Session /\ UNCHANGED <<world, activity, fate>>
    BY <1>3 DEF OpenDelegate, At, Typed, HoldsRight
  <2>2. CASE daemon.here >= DrainLimit
    <3> DEFINE d == [daemon EXCEPT !.inboxes = {}]
    <3>1. d \in Daemon /\ d.lead = daemon.lead /\ daemon' = Proceed(d, {})
      BY <1>0, <1>3, <2>2 DEF Daemon, OpenDelegate
    <3> HIDE DEF d
    <3>2. Opened(d, {})
      BY <2>1, <3>1 DEF Opened
    <3> QED BY <2>1, <3>1, <3>2 DEF Between
  <2>3. CASE ~(daemon.here >= DrainLimit)
    <3> DEFINE d == [daemon EXCEPT !.inboxes = @ \ {s}, !.holder = s]
               batch == First(DrainLimit - daemon.here, Unread(s))
    <3>1. daemon' = Proceed(d, batch)
      BY <1>3, <2>3 DEF OpenDelegate
    <3>2. d \in Daemon /\ d.holder = s /\ d.here = daemon.here /\ d.lead = daemon.lead
      BY <1>0 DEF Daemon
    <3>3. d.here < DrainLimit
      BY <1>0, <2>3, <3>2, DaemonParts
    <3>4. batch \in SUBSET Unread(s)
      BY <1>0, FirstType
    <3> HIDE DEF d, batch
    <3>5. Opened(d, batch)
      BY <2>1, <3>1, <3>2, <3>3, <3>4 DEF Opened, Unread
    <3> QED BY <1>0, <2>1, <3>2, <3>4, <3>5 DEF Between
  <2> QED BY <2>2, <2>3
<1> QED BY <1>1, <1>2, <1>3

(* Room for the next handoff of a batch, or none.                           *)
Room == HasCapacity(daemon.lead) \/ ClearIdle(daemon.lead) # {}

LEMMA CheckMeans ==
  ASSUME Typed, NEW t \in Task, CheckMessage(t)
  PROVE  /\ daemon.at = "messages" /\ daemon.pass = "rebalance" /\ UNCHANGED <<world, activity, fate>>
         /\ \/ daemon' = [daemon EXCEPT !.at = "choosing"] /\ Room
            \/ \E batch \in SUBSET daemon.batch : daemon' = Proceed(daemon, batch)
<1>1. Rest(t) \in SUBSET daemon.batch /\ {} \in SUBSET daemon.batch
  BY DEF Rest
<1> QED BY <1>1 DEF CheckMessage, At, Room

LEMMA ChoosingMeans ==
  ASSUME Typed, Choosing
  PROVE  /\ daemon.at \in {"choosing", "messages"}
         /\ daemon.at = "messages" <=> daemon.pass = "dispatch"
  BY DaemonParts DEF Choosing, At, Typed, HoldsRight, TypeOK

LEMMA NoBacklog ==
  ASSUME Typed, NEW d \in Session, Backlog(d) = 0
  PROVE  Unread(d) = {}
<1>1. IsFiniteSet(Unread(d)) /\ IsFiniteSet(notices[d])
  <2>1. IsFiniteSet(Task)
    BY FS_Interval, BacklogAssumption DEF Task
  <2> QED BY <2>1, FS_Subset, Parts DEF Typed, TypeOK
<1>2. Cardinality(Unread(d)) \in Nat /\ Cardinality(notices[d]) \in Nat
  BY <1>1, FS_CardinalityType
<1>3. Cardinality(Unread(d)) = 0
  BY <1>2 DEF Backlog
<1> QED BY <1>1, <1>3, FS_EmptySet

LEMMA GivenMeans ==
  ASSUME TypeOK, NEW t \in Task, Given(t)
  PROVE  /\ fate' \in [Task -> {"new", "seen", "given", "given twice", "interrupted"}]
         /\ fate'[t] # "new" /\ (fate[t] # "given" /\ fate[t] # "given twice" => fate'[t] # "given twice")
         /\ \A u \in Task \ {t} : fate'[u] = fate[u]
<1> DEFINE next == CASE fate[t] = "given" -> "given twice"
                     [] fate[t] \in {"new", "seen"} -> "given"
                     [] OTHER -> fate[t]
<1>1. fate' = [fate EXCEPT ![t] = next]
  BY DEF Given
<1>2. fate \in [Task -> {"new", "seen", "given", "given twice", "interrupted"}]
  BY DEF TypeOK
<1>3. /\ next \in {"seen", "given", "given twice", "interrupted"}
      /\ fate[t] # "given" /\ fate[t] # "given twice" => next # "given twice"
  BY <1>2
<1> HIDE DEF next
<1> QED BY <1>1, <1>2, <1>3

(* A delegate is chosen for handoff t: one that was there, which has it     *)
(* only by the notice, or a new one, which has it at once.  It is the       *)
(* holder itself only if nothing is unread there.                           *)
Chosen(t, d) ==
  /\ \/ daemon' = [daemon EXCEPT !.at = "notifying", !.task = t, !.target = d] /\ fate' = fate
     \/ daemon' = [daemon EXCEPT !.at = "announcing", !.task = t, !.target = d] /\ Given(t)
  /\ d = daemon.holder => Unread(d) = {}

LEMMA ChosenMeans ==
  ASSUME daemon \in Daemon, NEW t \in daemon.batch, NEW d \in Session, Chosen(t, d)
  PROVE  /\ daemon' \in Daemon /\ daemon'.at \in Decided /\ daemon'.task = t /\ daemon'.target = d
         /\ daemon'.pass = daemon.pass /\ daemon'.batch = daemon.batch /\ daemon'.here = daemon.here
         /\ daemon'.holder = daemon.holder /\ daemon'.lead = daemon.lead
         /\ (daemon'.at = "notifying" /\ fate' = fate) \/ (daemon'.at = "announcing" /\ Given(t))
<1>1. t \in Task
  BY DaemonParts
<1>2. CASE daemon' = [daemon EXCEPT !.at = "notifying", !.task = t, !.target = d] /\ fate' = fate
  BY <1>1, <1>2 DEF Daemon, Decided
<1>3. CASE daemon' = [daemon EXCEPT !.at = "announcing", !.task = t, !.target = d] /\ Given(t)
  BY <1>1, <1>3 DEF Daemon, Decided
<1> QED BY <1>2, <1>3 DEF Chosen

LEMMA AssignMeans ==
  ASSUME Typed, NEW d \in Session, ReuseIdle(d) \/ Spawn(d) \/ ReuseActive(d)
  PROVE  /\ Choosing /\ UNCHANGED <<intake, activity>>
         /\ state' \in [Session -> {"none", "busy", "idle"}]
         /\ notices' \in [Session -> SUBSET Task] /\ team' \subseteq Session \X Session
         /\ \E t \in daemon.batch : Chosen(t, d)
<1>0. TypeOK
  BY DEF Typed
<1>1. Choosing /\ UNCHANGED <<intake, activity>>
  BY DEF ReuseIdle, Spawn, ReuseActive, AtLimit, world
<1>2. d = daemon.holder => Unread(d) = {}
  BY NoBacklog DEF ReuseIdle, Spawn, ReuseActive, ClearIdle, Fresh
<1>3. PICK t \in Task : \/ Assign(t, d, "notifying") /\ fate' = fate
                        \/ Assign(t, d, "announcing") /\ Given(t)
  <2>1. CASE ReuseIdle(d) \/ ReuseActive(d)
    <3>1. \E t \in Task : Assign(t, d, "notifying")
      BY <2>1, Zenon DEF ReuseIdle, ReuseActive
    <3>2. fate' = fate
      BY <2>1 DEF ReuseIdle, ReuseActive
    <3> QED BY <3>1, <3>2, Zenon
  <2>2. CASE Spawn(d)
    BY <2>2, Zenon DEF Spawn
  <2> QED BY <2>1, <2>2
<1>4. t \in daemon.batch /\ Chosen(t, d)
  BY <1>2, <1>3 DEF Assign, Chosen, IsNext
<1>5. state' \in [Session -> {"none", "busy", "idle"}] /\ notices' \in [Session -> SUBSET Task]
  BY <1>0 DEF ReuseIdle, Spawn, ReuseActive, TypeOK, world
<1>6. team' \subseteq Session \X Session
  BY <1>0 DEF ReuseIdle, Spawn, ReuseActive, TypeOK, world
<1> QED BY <1>1, <1>4, <1>5, <1>6

LEMMA DeferMeans ==
  ASSUME Typed, NEW t \in Task, Defer(t)
  PROVE  /\ Choosing /\ ~Room /\ t \in daemon.batch /\ UNCHANGED <<world, activity, fate>>
         /\ daemon.pass = "dispatch" =>
              daemon' = Proceed([daemon EXCEPT !.deferred = @ \cup {t}], daemon.batch \ {t})
         /\ daemon.pass # "dispatch" =>
              daemon' = [daemon EXCEPT !.at = "marking", !.task = t, !.target = daemon.lead]
  BY DEF Defer, AtLimit, Room, IsNext, Rest

LEMMA NotifyMeans ==
  ASSUME Typed, Notify
  PROVE  /\ daemon.at \in Decided /\ daemon.task \in Task /\ daemon.task \in daemon.batch
         /\ daemon' = [daemon EXCEPT !.at = "marking"]
         /\ notices' \in [Session -> SUBSET Task]
         /\ team' \subseteq Session \X Session
         /\ UNCHANGED <<state, intake, activity>>
         /\ fate' \in [Task -> {"new", "seen", "given", "given twice", "interrupted"}]
         /\ (daemon.at = "announcing" /\ fate' = fate) \/ (daemon.at = "notifying" /\ Given(daemon.task))
<1>1. daemon.at \in Decided /\ daemon.task \in daemon.batch /\ daemon \in Daemon
  BY DEF Typed, HoldsRight, TypeOK, Notify, At, Decided
<1>2. daemon.task \in Task
  BY <1>1, DaemonParts
<1>3. (daemon.at = "announcing" /\ fate' = fate) \/ (daemon.at = "notifying" /\ Given(daemon.task))
  BY DEF Notify, At
<1>4. fate' \in [Task -> {"new", "seen", "given", "given twice", "interrupted"}]
  BY <1>2, <1>3, GivenMeans DEF Typed, TypeOK
<1>5. daemon.lead \in Session /\ daemon.target \in Session
  BY <1>1 DEF Typed, HoldsRight, Decided
<1>6. notices' \in [Session -> SUBSET Task] /\ team' \subseteq Session \X Session
  <2>1. team \subseteq Session \X Session /\ notices \in [Session -> SUBSET Task]
    BY DEF Typed, TypeOK
  <2>2. /\ notices' = [notices EXCEPT ![daemon.target] = @ \cup {daemon.task}]
        /\ team' = team \cup {<<daemon.lead, daemon.target>>}
    BY DEF Notify
  <2>3. notices' \in [Session -> SUBSET Task]
    BY <1>2, <1>5, <2>1, <2>2
  <2>4. team' \subseteq Session \X Session
    BY <1>5, <2>1, <2>2
  <2> QED BY <2>3, <2>4
<1> QED BY <1>1, <1>2, <1>3, <1>4, <1>6 DEF Notify

LEMMA MarkMeans ==
  ASSUME Typed, Mark
  PROVE  /\ daemon.at = "marking" /\ daemon.task \in Task /\ daemon.task \in daemon.batch
         /\ UNCHANGED <<state, notices, team, activity, fate>>
         /\ \/ intake' = intake /\ daemon.pass = "rebalance" /\ daemon.target = daemon.holder
            \/ intake' = [intake EXCEPT ![daemon.task] = Read]
         /\ \E d \in Daemon, batch \in SUBSET (daemon.batch \ {daemon.task}) :
              /\ daemon' = Proceed(d, batch)
              /\ d.pass = daemon.pass /\ d.holder = daemon.holder /\ d.lead = daemon.lead
              /\ batch # {} /\ d.pass = "rebalance" => d.here < DrainLimit
<1>1. daemon.at = "marking" /\ daemon.task \in daemon.batch /\ daemon \in Daemon
  BY DEF Typed, HoldsRight, TypeOK, Mark, At, Half
<1>2. daemon.task \in Task
  BY <1>1, DaemonParts
<1> DEFINE kept == daemon.pass = "rebalance" /\ daemon.target = daemon.holder
           done == IF kept THEN daemon
                   ELSE IF daemon.pass = "dispatch" THEN [daemon EXCEPT !.routed = daemon.closing]
                   ELSE [daemon EXCEPT !.here = @ + 1, !.moved = TRUE]
           left == IF done.here >= DrainLimit /\ done.pass = "rebalance" THEN {} ELSE Rest(daemon.task)
<1>3. /\ intake' = IF kept THEN intake ELSE [intake EXCEPT ![daemon.task] = Read]
      /\ daemon' = Proceed(done, left)
  BY DEF Mark
<1>4. /\ done \in Daemon
      /\ done.pass = daemon.pass /\ done.holder = daemon.holder /\ done.lead = daemon.lead
  <2>1. CASE kept
    BY <1>1, <2>1
  <2>2. CASE ~kept /\ daemon.pass = "dispatch"
    BY <1>1, <2>2 DEF Daemon
  <2>3. CASE ~kept /\ daemon.pass # "dispatch"
    <3>1. daemon.pass = "rebalance" /\ daemon.here \in 0 .. DrainLimit
      BY <1>1, <2>3, DaemonParts
    <3>2. daemon.here < DrainLimit
      BY <1>1, <3>1 DEF Typed, HoldsRight, Between, Decided, Half
    <3>3. daemon.here + 1 \in 0 .. DrainLimit
      BY <3>1, <3>2, BacklogAssumption
    <3>4. done = [daemon EXCEPT !.here = @ + 1, !.moved = TRUE]
      BY <2>3
    <3> HIDE DEF done
    <3> QED BY <1>1, <3>3, <3>4 DEF Daemon
  <2> QED BY <2>1, <2>2, <2>3
<1> HIDE DEF done
<1>5. left \in SUBSET (daemon.batch \ {daemon.task})
  BY DEF Rest
<1>6. left # {} /\ done.pass = "rebalance" => done.here < DrainLimit
  BY <1>4, DaemonParts, BacklogAssumption
<1> HIDE DEF left
<1>7. \/ intake' = intake /\ daemon.pass = "rebalance" /\ daemon.target = daemon.holder
      \/ intake' = [intake EXCEPT ![daemon.task] = Read]
  BY <1>3
<1> HIDE DEF kept
<1>8. UNCHANGED <<state, notices, team, activity, fate>>
  BY DEF Mark
<1> QED BY <1>1, <1>2, <1>3, <1>4, <1>5, <1>6, <1>7, <1>8

(* What the world may do to the handoffs: they arrive unread, and whatever  *)
(* is marked read has been seen.                                            *)
Moves(t) ==
  /\ intake[t].status = "read" => intake'[t].status = "read"
  /\ intake[t].status = "unread" => intake'[t] = intake[t] \/ intake'[t].status = "read"
  /\ intake'[t].status = "read" => intake[t].status = "read" \/ fate'[t] # "new"
  /\ fate'[t] = fate[t] \/ fate'[t] = "seen"

LEMMA ReadType == Read \in Handoff /\ Read.status = "read"
  BY DEF Read, Absent, Handoff

LEMMA WorldMeans ==
  ASSUME Typed, World
  PROVE  /\ UNCHANGED <<daemon, activity>> /\ TypeOK'
         /\ StaleCapacity \/ daemon.at # "choosing"
         /\ \A t \in Task : Moves(t)
<1>0. TypeOK
  BY DEF Typed
<1>1. ASSUME NEW s \in Session, Works(s)
      PROVE  /\ UNCHANGED <<daemon, activity>> /\ TypeOK'
             /\ StaleCapacity \/ daemon.at # "choosing"
             /\ \A t \in Task : Moves(t)
  <2>1. UNCHANGED <<intake, activity, daemon, fate>> /\ (StaleCapacity \/ daemon.at # "choosing")
    BY <1>1 DEF Works, Settled, At
  <2>2. state' \in [Session -> {"none", "busy", "idle"}]
    BY <1>0, <1>1 DEF Works, TypeOK
  <2>3. notices' \in [Session -> SUBSET Task]
    BY <1>0, <1>1 DEF Works, TypeOK
  <2>4. team' \subseteq Session \X Session
    BY <1>0, <1>1 DEF Works, TypeOK
  <2>5. \A t \in Task : Moves(t)
    BY <2>1 DEF Moves
  <2> QED BY <1>0, <2>1, <2>2, <2>3, <2>4, <2>5 DEF TypeOK
<1>2. ASSUME NEW s \in Session, Select(s)
      PROVE  /\ UNCHANGED <<daemon, activity>> /\ TypeOK'
             /\ StaleCapacity \/ daemon.at # "choosing"
             /\ \A t \in Task : Moves(t)
  <2>1. UNCHANGED <<state, team, activity, daemon>> /\ (StaleCapacity \/ daemon.at # "choosing")
    BY <1>2 DEF Select, Settled, At
  <2>2. /\ intake' = [t \in Task |-> IF t \in Unread(s) THEN Read ELSE intake[t]]
        /\ notices' = [notices EXCEPT ![s] = {}]
        /\ fate' = [t \in Task |-> IF t \in Unread(s) /\ fate[t] = "new" THEN "seen" ELSE fate[t]]
    BY <1>2 DEF Select
  <2>3. intake' \in [Task -> Handoff] /\ notices' \in [Session -> SUBSET Task]
    BY <1>0, <2>2, ReadType DEF TypeOK
  <2>4. fate' \in [Task -> {"new", "seen", "given", "given twice", "interrupted"}]
    BY <1>0, <2>2 DEF TypeOK
  <2>5. \A t \in Task : Moves(t)
    BY <2>2, ReadType DEF Moves
  <2> QED BY <1>0, <2>1, <2>3, <2>4, <2>5 DEF TypeOK
<1>3. ASSUME NEW u \in Task, NEW from \in Session \cup {None}, NEW to \in Session, Submit(u, from, to)
      PROVE  /\ UNCHANGED <<daemon, activity>> /\ TypeOK'
             /\ StaleCapacity \/ daemon.at # "choosing"
             /\ \A t \in Task : Moves(t)
  <2>1. UNCHANGED <<state, notices, team, activity, daemon, fate>> /\ (StaleCapacity \/ daemon.at # "choosing")
    BY <1>3 DEF Submit, Settled, At
  <2>2. /\ intake[u].status = "none"
        /\ intake' = [intake EXCEPT ![u] = [from |-> from, to |-> to, status |-> "unread"]]
    BY <1>3 DEF Submit
  <2>3. [from |-> from, to |-> to, status |-> "unread"] \in Handoff
    BY DEF Handoff
  <2>4. intake' \in [Task -> Handoff]
    BY <1>0, <2>2, <2>3 DEF TypeOK
  <2>5. \A t \in Task : Moves(t)
    BY <1>0, <2>1, <2>2 DEF Moves, TypeOK
  <2> QED BY <1>0, <2>1, <2>4, <2>5 DEF TypeOK
<1> QED BY <1>1, <1>2, <1>3 DEF World

LEMMA AbortMeans ==
  ASSUME Typed, Abort
  PROVE  /\ daemon' = Quiescent /\ UNCHANGED <<world, activity>>
         /\ fate' \in [Task -> {"new", "seen", "given", "given twice", "interrupted"}]
         /\ \A t \in Task :
              /\ fate'[t] = fate[t] \/ fate'[t] = "interrupted"
              /\ daemon.at \in Half /\ daemon.task = t => fate'[t] # "given"
<1>1. fate' = [t \in Task |-> IF HalfAssigned /\ t = daemon.task /\ fate[t] = "given"
                               THEN "interrupted" ELSE fate[t]]
  BY DEF Abort
<1> QED BY <1>1 DEF Abort, HalfAssigned, Half, At, Typed, TypeOK
-----------------------------------------------------------------------------
(* TYPES                                                                    *)

LEMMA ProceedHolds ==
  ASSUME NEW d \in Daemon, NEW batch \in SUBSET Task, d.lead \in Session,
         batch # {} /\ d.pass = "rebalance" => d.here < DrainLimit
  PROVE  Proceed(d, batch) \in Daemon /\ HoldsRight(Proceed(d, batch))
<1> DEFINE e == Proceed(d, batch)
<1>1. /\ e \in Daemon /\ e.pass = d.pass
      /\ batch # {} => e.at = "messages" /\ e.here = d.here
      /\ batch = {} => e.at \in {"inboxes", "leads"} /\ e.batch = {}
      /\ e.at # "leads" => e.lead = d.lead
  BY ProceedMeans
<1> HIDE DEF e
<1>2. HoldsRight(e)
  BY <1>1 DEF HoldsRight, Between, Decided, Half
<1> QED BY <1>1, <1>2 DEF e

LEMMA TypeInit == Init => Typed
<1> SUFFICES ASSUME Init PROVE Typed
  OBVIOUS
<1>1. Absent \in Handoff
  BY DEF Absent, Handoff
<1>2. activity \in Activity
  BY BacklogAssumption DEF Init, Activity, Order
<1>3. HoldsRight(Quiescent)
  BY DEF HoldsRight, Quiescent, Between, Decided, Half
<1> QED BY <1>1, <1>2, <1>3, QuiescentType DEF Init, Typed, TypeOK

(* A step that changes nothing but the daemon.                              *)
LEMMA TypedByDaemon ==
  ASSUME Typed, UNCHANGED <<world, activity, fate>>, daemon' \in Daemon, HoldsRight(daemon')
  PROVE  Typed'
<1>1. TypeOK'
  BY DEF Typed, TypeOK, world
<1> QED BY <1>1 DEF Typed

LEMMA CycleIsTyped ==
  ASSUME Typed, Cycle
  PROVE  Typed'
<1>0. TypeOK /\ HoldsRight(daemon) /\ daemon \in Daemon
  BY DEF Typed, TypeOK
<1>1. CASE StartCycle \/ EndDispatch \/ EndRebalance \/ RecordRecovery
  <2>1. TypeOK'
    BY <1>0, <1>1, CycleMeans DEF TypeOK, world
  <2>2. HoldsRight(daemon')
    BY <1>1, CycleMeans DEF HoldsRight, Between, Decided, Half
  <2> QED BY <2>1, <2>2 DEF Typed
<1>2. ASSUME NEW s \in Session, OpenInbox(s) \/ OpenTeam(s) \/ OpenDelegate(s)
      PROVE  Typed'
  <2>1. PICK d \in Daemon, batch \in SUBSET Task : Opened(d, batch)
    BY <1>2, OpenMeans
  <2>2. batch # {} /\ d.pass = "rebalance" => d.here < DrainLimit
    BY <2>1 DEF Opened
  <2>3. daemon' \in Daemon /\ HoldsRight(daemon')
    BY <2>1, <2>2, ProceedHolds DEF Opened
  <2> QED BY <1>2, <2>3, OpenMeans, TypedByDaemon
<1>3. ASSUME NEW t \in Task, CheckMessage(t)
      PROVE  Typed'
  <2>1. daemon.at = "messages" /\ daemon.pass = "rebalance" /\ UNCHANGED <<world, activity, fate>>
    BY <1>3, CheckMeans
  <2>2. daemon.lead \in Session /\ daemon.here < DrainLimit
    BY <1>0, <2>1 DEF HoldsRight, Between, Decided, Half
  <2>3. CASE daemon' = [daemon EXCEPT !.at = "choosing"]
    <3>1. daemon' \in Daemon /\ HoldsRight(daemon')
      BY <1>0, <2>1, <2>2, <2>3 DEF Daemon, HoldsRight, Between, Decided, Half
    <3> QED BY <2>1, <3>1, TypedByDaemon
  <2>4. ASSUME NEW batch \in SUBSET daemon.batch, daemon' = Proceed(daemon, batch)
        PROVE  Typed'
    <3>1. batch \in SUBSET Task
      BY <1>0, DaemonParts
    <3>2. daemon' \in Daemon /\ HoldsRight(daemon')
      BY <1>0, <2>2, <2>4, <3>1, ProceedHolds
    <3> QED BY <2>1, <3>2, TypedByDaemon
  <2> QED BY <1>3, <2>3, <2>4, CheckMeans
<1>4. ASSUME NEW d \in Session, ReuseIdle(d) \/ Spawn(d) \/ ReuseActive(d)
      PROVE  Typed'
  <2>1. PICK t \in daemon.batch : Chosen(t, d)
    BY <1>4, AssignMeans
  <2>2. t \in Task /\ daemon.lead \in Session /\ (daemon.pass = "rebalance" => daemon.here < DrainLimit)
    <3>1. daemon.at \in {"choosing", "messages"}
      BY <1>4, AssignMeans, ChoosingMeans
    <3> QED BY <1>0, <2>1, <3>1, DaemonParts DEF HoldsRight, Between, Decided, Half
  <2>3. daemon' \in Daemon /\ HoldsRight(daemon')
    BY <1>0, <2>1, <2>2, ChosenMeans DEF HoldsRight, Between, Decided, Half
  <2>4. fate' \in [Task -> {"new", "seen", "given", "given twice", "interrupted"}]
    BY <1>0, <2>1, <2>2, GivenMeans, ChosenMeans DEF TypeOK
  <2>5. TypeOK'
    BY <1>0, <1>4, <2>3, <2>4, AssignMeans DEF TypeOK
  <2> QED BY <2>3, <2>5 DEF Typed
<1>5. ASSUME NEW t \in Task, Defer(t)
      PROVE  Typed'
  <2>1. /\ daemon.at \in {"choosing", "messages"} /\ t \in daemon.batch
        /\ daemon.lead \in Session /\ (daemon.pass = "rebalance" => daemon.here < DrainLimit)
    BY <1>0, <1>5, DeferMeans, ChoosingMeans DEF HoldsRight, Between, Decided, Half
  <2>2. CASE daemon.pass = "dispatch"
    <3> DEFINE e == [daemon EXCEPT !.deferred = @ \cup {t}]
    <3>1. e \in Daemon /\ e.lead = daemon.lead /\ e.pass = "dispatch"
      BY <1>0, <2>2 DEF Daemon
    <3>2. daemon.batch \ {t} \in SUBSET Task
      BY <1>0, DaemonParts
    <3>3. daemon' = Proceed(e, daemon.batch \ {t})
      BY <1>5, <2>2, DeferMeans
    <3> HIDE DEF e
    <3>4. daemon' \in Daemon /\ HoldsRight(daemon')
      BY <2>1, <3>1, <3>2, <3>3, ProceedHolds
    <3> QED BY <1>5, <3>4, DeferMeans, TypedByDaemon
  <2>3. CASE daemon.pass # "dispatch"
    <3>1. daemon' = [daemon EXCEPT !.at = "marking", !.task = t, !.target = daemon.lead]
      BY <1>5, <2>3, DeferMeans
    <3>2. daemon' \in Daemon /\ HoldsRight(daemon')
      BY <1>0, <2>1, <3>1 DEF Daemon, HoldsRight, Between, Decided, Half
    <3> QED BY <1>5, <3>2, DeferMeans, TypedByDaemon
  <2> QED BY <2>2, <2>3
<1>6. CASE Notify
  <2>1. daemon' \in Daemon /\ HoldsRight(daemon')
    BY <1>0, <1>6, NotifyMeans DEF Daemon, HoldsRight, Between, Decided, Half
  <2>2. TypeOK'
    BY <1>0, <1>6, <2>1, NotifyMeans DEF TypeOK
  <2> QED BY <2>1, <2>2 DEF Typed
<1>7. CASE Mark
  <2>1. PICK d \in Daemon, batch \in SUBSET (daemon.batch \ {daemon.task}) :
          /\ daemon' = Proceed(d, batch)
          /\ d.pass = daemon.pass /\ d.holder = daemon.holder /\ d.lead = daemon.lead
          /\ batch # {} /\ d.pass = "rebalance" => d.here < DrainLimit
    BY <1>7, MarkMeans
  <2>2. batch \in SUBSET Task /\ d.lead \in Session
    BY <1>0, <1>7, <2>1, MarkMeans, DaemonParts DEF HoldsRight
  <2>3. daemon' \in Daemon /\ HoldsRight(daemon')
    BY <2>1, <2>2, ProceedHolds
  <2>4. intake' \in [Task -> Handoff]
    BY <1>0, <1>7, MarkMeans, ReadType DEF TypeOK
  <2>5. TypeOK'
    BY <1>0, <1>7, <2>3, <2>4, MarkMeans DEF TypeOK
  <2> QED BY <2>3, <2>5 DEF Typed
<1> QED BY <1>1, <1>2, <1>3, <1>4, <1>5, <1>6, <1>7 DEF Cycle, Assignment

LEMMA TypeInvariance == Typed /\ [Next]_vars => Typed'
<1> SUFFICES ASSUME Typed, [Next]_vars PROVE Typed'
  OBVIOUS
<1>1. CASE Cycle
  BY <1>1, CycleIsTyped
<1>2. CASE Abort
  <2>1. HoldsRight(Quiescent)
    BY DEF HoldsRight, Quiescent, Between, Decided, Half
  <2>2. TypeOK'
    BY <1>2, AbortMeans, QuiescentType DEF Typed, TypeOK, world
  <2> QED BY <1>2, <2>1, <2>2, AbortMeans DEF Typed
<1>3. CASE World
  BY <1>3, WorldMeans DEF Typed
<1>4. CASE UNCHANGED vars
  BY <1>4 DEF Typed, TypeOK, vars, world
<1> QED BY <1>1, <1>2, <1>3, <1>4 DEF Next

(* Every variable has its type: the daemon's counters and batches stay in   *)
(* their bounds wherever a pass is abandoned.                               *)
THEOREM TypeCorrect == Spec => []TypeOK
<1>1. Typed => TypeOK
  BY DEF Typed
<1> QED BY <1>1, TypeInit, TypeInvariance, PTL DEF Spec
-----------------------------------------------------------------------------
(* ASSIGNED ONCE                                                            *)

(* Of the handoffs in hand only the one that is announced or marked has     *)
(* been given to a session; all others that were given are read.  When a    *)
(* rebalance leaves a handoff with its holder, someone else has read it.    *)
GivenIsRead(d, in, f) ==
  \A t \in Task : f[t] = "given" => in[t].status = "read" \/ (d.at \in Half /\ d.task = t)
InHand(d, in) ==
  d.pass = "rebalance" =>
    \A t \in d.batch : in[t].status = "read" \/ (in[t].status = "unread" /\ in[t].to = d.holder)
Left(d, in, f) ==
  /\ d.pass = "rebalance" /\ d.target = d.holder
  /\ d.at \in Decided \/ (d.at = "marking" /\ f[d.task] = "given")
Assigned(d, in, f) ==
  /\ \A t \in Task : f[t] # "given twice"
  /\ GivenIsRead(d, in, f)
  /\ \A t \in d.batch : f[t] = "given" => d.at \in Half /\ d.task = t
  /\ InHand(d, in)
  /\ Left(d, in, f) => in[d.task].status = "read"

Once == Typed /\ Assigned(daemon, intake, fate)

(* What a batch may hold for the daemon to go on with it.                   *)
Ready(d, batch, in, f) ==
  /\ \A t \in Task : f[t] # "given twice" /\ (f[t] = "given" => in[t].status = "read")
  /\ \A t \in batch : f[t] # "given"
  /\ d.pass = "rebalance" =>
       \A t \in batch : in[t].status = "read" \/ (in[t].status = "unread" /\ in[t].to = d.holder)

LEMMA ProceedAssigned ==
  ASSUME NEW d \in Daemon, NEW batch \in SUBSET Task, NEW in, NEW f, Ready(d, batch, in, f)
  PROVE  Assigned(Proceed(d, batch), in, f)
<1> DEFINE e == Proceed(d, batch)
<1>1. /\ e.pass = d.pass
      /\ batch # {} => e.at = "messages" /\ e.batch = batch /\ e.holder = d.holder
      /\ batch = {} => e.at \in {"inboxes", "leads"} /\ e.batch = {}
  BY ProceedMeans
<1> HIDE DEF e
<1>2. Assigned(e, in, f)
  BY <1>1 DEF Ready, Assigned, GivenIsRead, InHand, Left, Decided, Half
<1> QED BY <1>2 DEF e

LEMMA OnceInit == Init => Once
<1> SUFFICES ASSUME Init PROVE Once
  OBVIOUS
<1>1. Assigned(Quiescent, intake, fate)
  BY DEF Init, Assigned, GivenIsRead, InHand, Left, Decided, Half, Quiescent
<1> QED BY <1>1, TypeInit DEF Init, Once

LEMMA CycleAssigns ==
  ASSUME Once, Cycle
  PROVE  Assigned(daemon', intake', fate')
<1>0. /\ Typed /\ TypeOK /\ daemon \in Daemon /\ Assigned(daemon, intake, fate)
      /\ intake \in [Task -> Handoff]
      /\ fate \in [Task -> {"new", "seen", "given", "given twice", "interrupted"}]
  BY DEF Once, Typed, TypeOK
<1>1. CASE StartCycle \/ EndDispatch \/ EndRebalance \/ RecordRecovery
  <2>1. daemon'.at \in {"idle", "leads", "recovered"} /\ daemon'.batch = {} /\ daemon.at \notin Half
    BY <1>0, <1>1, CycleMeans DEF Between, Half
  <2>2. intake' = intake /\ fate' = fate
    BY <1>0, <1>1, CycleMeans DEF world
  <2> QED BY <1>0, <2>1, <2>2 DEF Assigned, GivenIsRead, InHand, Left, Decided, Half
<1>2. ASSUME NEW s \in Session, OpenInbox(s) \/ OpenTeam(s) \/ OpenDelegate(s)
      PROVE  Assigned(daemon', intake', fate')
  <2>1. PICK d \in Daemon, batch \in SUBSET Task : Opened(d, batch)
    BY <1>0, <1>2, OpenMeans
  <2>2. daemon.at \notin Half /\ intake' = intake /\ fate' = fate
    BY <1>0, <1>2, OpenMeans DEF Between, Half, world
  <2>3. \A t \in Task : fate[t] # "given twice" /\ (fate[t] = "given" => intake[t].status = "read")
    BY <1>0, <2>2 DEF Assigned, GivenIsRead, Half
  <2>4. \A t \in batch : fate[t] # "given"
    BY <2>1, <2>3 DEF Opened
  <2>5. d.pass = "rebalance" =>
          \A t \in batch : intake[t].status = "read" \/ (intake[t].status = "unread" /\ intake[t].to = d.holder)
    BY <2>1 DEF Opened
  <2>6. Assigned(Proceed(d, batch), intake, fate)
    BY <2>3, <2>4, <2>5, ProceedAssigned DEF Ready
  <2> QED BY <2>1, <2>2, <2>6 DEF Opened
<1>3. ASSUME NEW t \in Task, CheckMessage(t)
      PROVE  Assigned(daemon', intake', fate')
  <2>1. daemon.at = "messages" /\ daemon.pass = "rebalance" /\ intake' = intake /\ fate' = fate
    BY <1>0, <1>3, CheckMeans DEF world
  <2>2. CASE daemon' = [daemon EXCEPT !.at = "choosing"]
    <3>1. /\ daemon'.at = "choosing" /\ daemon'.pass = "rebalance" /\ daemon'.batch = daemon.batch
          /\ daemon'.holder = daemon.holder
      BY <1>0, <2>1, <2>2 DEF Daemon
    <3> QED BY <1>0, <2>1, <3>1 DEF Assigned, GivenIsRead, InHand, Left, Decided, Half
  <2>3. ASSUME NEW batch \in SUBSET daemon.batch, daemon' = Proceed(daemon, batch)
        PROVE  Assigned(daemon', intake', fate')
    <3>1. batch \in SUBSET Task
      BY <1>0, DaemonParts
    <3>2. /\ \A u \in Task : fate[u] # "given twice"
          /\ \A u \in Task : fate[u] = "given" => intake[u].status = "read"
          /\ \A u \in batch : fate[u] # "given"
      BY <1>0, <2>1 DEF Assigned, GivenIsRead, Half
    <3>3. \A u \in batch : intake[u].status = "read" \/ (intake[u].status = "unread" /\ intake[u].to = daemon.holder)
      BY <1>0, <2>1 DEF Assigned, InHand
    <3>4. Assigned(Proceed(daemon, batch), intake, fate)
      BY <1>0, <3>1, <3>2, <3>3, ProceedAssigned DEF Ready
    <3> QED BY <2>1, <2>3, <3>4
  <2> QED BY <1>0, <1>3, <2>2, <2>3, CheckMeans
<1>4. ASSUME NEW d \in Session, ReuseIdle(d) \/ Spawn(d) \/ ReuseActive(d)
      PROVE  Assigned(daemon', intake', fate')
  <2>1. PICK t \in daemon.batch : Chosen(t, d)
    BY <1>0, <1>4, AssignMeans
  <2>2. daemon.at \in {"choosing", "messages"} /\ intake' = intake
    BY <1>0, <1>4, AssignMeans, ChoosingMeans
  <2>3. /\ daemon'.at \in Decided /\ daemon'.task = t /\ daemon'.target = d
        /\ daemon'.pass = daemon.pass /\ daemon'.batch = daemon.batch /\ daemon'.holder = daemon.holder
        /\ (daemon'.at = "notifying" /\ fate' = fate) \/ (daemon'.at = "announcing" /\ Given(t))
    BY <1>0, <2>1, ChosenMeans
  <2>4. t \in Task /\ daemon.batch \in SUBSET Task
    BY <1>0, DaemonParts
  <2>5. d = daemon.holder /\ daemon.pass = "rebalance" => intake[t].status = "read"
    <3>1. d = daemon.holder => Unread(d) = {}
      BY <2>1 DEF Chosen
    <3>2. daemon.pass = "rebalance" =>
            intake[t].status = "read" \/ (intake[t].status = "unread" /\ intake[t].to = daemon.holder)
      BY <1>0, <2>1 DEF Assigned, InHand
    <3> QED BY <2>4, <3>1, <3>2 DEF Unread
  <2>6. /\ \A u \in Task : fate[u] # "given twice" /\ (fate[u] = "given" => intake[u].status = "read")
        /\ \A u \in daemon.batch : fate[u] # "given"
    BY <1>0, <2>2 DEF Assigned, GivenIsRead, Half
  <2>7. InHand(daemon', intake')
    BY <1>0, <2>2, <2>3 DEF Assigned, InHand
  <2>8. CASE daemon'.at = "notifying" /\ fate' = fate
    BY <2>2, <2>3, <2>5, <2>6, <2>7, <2>8 DEF Assigned, GivenIsRead, Left, Half, Decided
  <2>9. CASE daemon'.at = "announcing" /\ Given(t)
    <3>1. fate'[t] # "given twice" /\ \A u \in Task \ {t} : fate'[u] = fate[u]
      BY <1>0, <2>1, <2>4, <2>6, <2>9, GivenMeans
    <3>2. daemon'.at \in Half
      BY <2>9 DEF Half
    <3>3. \A u \in Task : fate'[u] # "given twice"
      BY <2>6, <3>1
    <3>4. GivenIsRead(daemon', intake', fate')
      BY <2>2, <2>3, <2>6, <3>1, <3>2 DEF GivenIsRead
    <3>5. \A u \in daemon'.batch : fate'[u] = "given" => daemon'.at \in Half /\ daemon'.task = u
      BY <2>3, <2>4, <2>6, <3>1, <3>2
    <3>6. Left(daemon', intake', fate') => intake'[daemon'.task].status = "read"
      BY <2>2, <2>3, <2>5 DEF Left
    <3> QED BY <2>7, <3>3, <3>4, <3>5, <3>6 DEF Assigned
  <2> QED BY <2>3, <2>8, <2>9
<1>5. ASSUME NEW t \in Task, Defer(t)
      PROVE  Assigned(daemon', intake', fate')
  <2>1. /\ daemon.at \in {"choosing", "messages"} /\ t \in daemon.batch
        /\ intake' = intake /\ fate' = fate
    BY <1>0, <1>5, DeferMeans, ChoosingMeans DEF world
  <2>2. /\ \A u \in Task : fate[u] # "given twice"
        /\ \A u \in Task : fate[u] = "given" => intake[u].status = "read"
        /\ \A u \in daemon.batch : fate[u] # "given"
    BY <1>0, <2>1 DEF Assigned, GivenIsRead, Half
  <2>3. CASE daemon.pass = "dispatch"
    <3> DEFINE e == [daemon EXCEPT !.deferred = @ \cup {t}]
    <3>1. e \in Daemon /\ e.pass = "dispatch"
      BY <1>0, <2>3 DEF Daemon
    <3>2. daemon.batch \ {t} \in SUBSET Task
      BY <1>0, DaemonParts
    <3>3. daemon' = Proceed(e, daemon.batch \ {t})
      BY <1>0, <1>5, <2>3, DeferMeans
    <3> HIDE DEF e
    <3>4. \A u \in daemon.batch \ {t} : fate[u] # "given"
      BY <2>2
    <3>5. Assigned(Proceed(e, daemon.batch \ {t}), intake, fate)
      BY <2>2, <3>1, <3>2, <3>4, ProceedAssigned DEF Ready
    <3> QED BY <2>1, <3>3, <3>5
  <2>4. CASE daemon.pass # "dispatch"
    <3>1. daemon' = [daemon EXCEPT !.at = "marking", !.task = t, !.target = daemon.lead]
      BY <1>0, <1>5, <2>4, DeferMeans
    <3>2. /\ daemon'.at = "marking" /\ daemon'.task = t /\ daemon'.pass = daemon.pass
          /\ daemon'.batch = daemon.batch /\ daemon'.holder = daemon.holder
      BY <1>0, <3>1 DEF Daemon
    <3> QED BY <1>0, <2>1, <2>2, <3>2 DEF Assigned, GivenIsRead, InHand, Left, Decided, Half
  <2> QED BY <2>3, <2>4
<1>6. CASE Notify
  <2>1. /\ daemon.at \in Decided /\ daemon.task \in Task /\ daemon.task \in daemon.batch /\ intake' = intake
        /\ (daemon.at = "announcing" /\ fate' = fate) \/ (daemon.at = "notifying" /\ Given(daemon.task))
    BY <1>0, <1>6, NotifyMeans
  <2>2. /\ fate'[daemon.task] # "given twice"
        /\ \A t \in Task \ {daemon.task} : fate'[t] = fate[t]
    <3>1. CASE daemon.at = "announcing" /\ fate' = fate
      BY <1>0, <2>1, <3>1 DEF Assigned
    <3>2. CASE daemon.at = "notifying" /\ Given(daemon.task)
      <4>1. fate[daemon.task] # "given" /\ fate[daemon.task] # "given twice"
        BY <1>0, <2>1, <3>2 DEF Assigned, Half
      <4> QED BY <1>0, <2>1, <3>2, <4>1, GivenMeans
    <3> QED BY <2>1, <3>1, <3>2
  <2>3. /\ daemon'.at = "marking" /\ daemon'.task = daemon.task /\ daemon'.target = daemon.target
        /\ daemon'.pass = daemon.pass /\ daemon'.batch = daemon.batch /\ daemon'.holder = daemon.holder
    BY <1>0, <1>6, NotifyMeans DEF Daemon
  <2>4. daemon.batch \in SUBSET Task
    BY <1>0, DaemonParts
  <2>5. /\ \A t \in Task : fate'[t] # "given twice"
        /\ \A t \in Task \ {daemon.task} : fate'[t] = "given" => intake[t].status = "read"
        /\ \A t \in daemon.batch \ {daemon.task} : fate'[t] # "given"
    BY <1>0, <2>1, <2>2, <2>4 DEF Assigned, GivenIsRead
  <2>6. Left(daemon', intake', fate') => intake[daemon.task].status = "read"
    BY <1>0, <2>1, <2>3 DEF Left, Assigned
  <2>7. InHand(daemon', intake')
    BY <1>0, <2>1, <2>3 DEF InHand, Assigned
  <2>8. GivenIsRead(daemon', intake', fate')
    BY <2>1, <2>3, <2>5 DEF GivenIsRead, Half
  <2> QED BY <2>1, <2>3, <2>5, <2>6, <2>7, <2>8 DEF Assigned, Half
<1>7. CASE Mark
  <2>1. PICK d \in Daemon, batch \in SUBSET (daemon.batch \ {daemon.task}) :
          /\ daemon' = Proceed(d, batch)
          /\ d.pass = daemon.pass /\ d.holder = daemon.holder /\ d.lead = daemon.lead
          /\ batch # {} /\ d.pass = "rebalance" => d.here < DrainLimit
    BY <1>0, <1>7, MarkMeans
  <2>2. /\ daemon.at = "marking" /\ daemon.task \in Task /\ daemon.task \in daemon.batch /\ fate' = fate
        /\ \/ intake' = intake /\ daemon.pass = "rebalance" /\ daemon.target = daemon.holder
           \/ intake' = [intake EXCEPT ![daemon.task] = Read]
    BY <1>0, <1>7, MarkMeans
  <2>3. batch \in SUBSET Task
    BY <1>0, <2>1, DaemonParts
  <2>4. \A t \in Task : /\ intake[t].status = "read" => intake'[t].status = "read"
                        /\ t # daemon.task => intake'[t] = intake[t]
    BY <1>0, <2>2, ReadType
  <2>5. fate[daemon.task] = "given" => intake'[daemon.task].status = "read"
    BY <1>0, <2>2, ReadType DEF Assigned, Left
  <2>6. \A t \in Task : fate[t] # "given twice" /\ (fate[t] = "given" => intake'[t].status = "read")
    BY <1>0, <2>2, <2>4, <2>5 DEF Assigned, GivenIsRead, Half
  <2>7. \A t \in batch : fate[t] # "given"
    BY <1>0, <2>1 DEF Assigned
  <2>8. d.pass = "rebalance" =>
          \A t \in batch : intake'[t].status = "read" \/ (intake'[t].status = "unread" /\ intake'[t].to = d.holder)
    BY <1>0, <2>1, <2>3, <2>4 DEF Assigned, InHand
  <2>9. Assigned(Proceed(d, batch), intake', fate)
    BY <2>3, <2>6, <2>7, <2>8, ProceedAssigned DEF Ready
  <2> QED BY <2>1, <2>2, <2>9
<1> QED BY <1>1, <1>2, <1>3, <1>4, <1>5, <1>6, <1>7 DEF Cycle, Assignment

LEMMA OnceInvariance == Once /\ [Next]_vars => Once'
<1> SUFFICES ASSUME Once, [Next]_vars PROVE Once'
  OBVIOUS
<1>0. Typed /\ TypeOK /\ daemon \in Daemon /\ Assigned(daemon, intake, fate) /\ Typed'
  BY TypeInvariance DEF Once, Typed, TypeOK
<1>1. CASE Cycle
  BY <1>0, <1>1, CycleAssigns DEF Once
<1>2. CASE Abort
  <2>1. \A t \in Task : fate'[t] # "given twice" /\ (fate'[t] = "given" => intake'[t].status = "read")
    BY <1>0, <1>2, AbortMeans DEF Assigned, GivenIsRead, world
  <2>2. daemon'.at = "idle" /\ daemon'.batch = {}
    BY <1>0, <1>2, AbortMeans, QuiescentMeans
  <2>3. Assigned(daemon', intake', fate')
    BY <2>1, <2>2 DEF Assigned, GivenIsRead, InHand, Left, Decided, Half
  <2> QED BY <1>0, <2>3 DEF Once
<1>3. CASE World
  <2>1. daemon' = daemon /\ \A t \in Task : Moves(t)
    BY <1>0, <1>3, WorldMeans
  <2>2. daemon.batch \in SUBSET Task
    BY <1>0, DaemonParts
  <2>3. /\ \A t \in Task : fate'[t] # "given twice"
        /\ \A t \in Task : fate'[t] = "given" => fate[t] = "given"
    BY <1>0, <2>1 DEF Moves, Assigned
  <2>4. GivenIsRead(daemon, intake', fate')
    BY <1>0, <2>1, <2>3 DEF GivenIsRead, Assigned, Moves
  <2>5. InHand(daemon, intake')
    BY <1>0, <2>1, <2>2 DEF InHand, Assigned, Moves
  <2>6. Left(daemon, intake', fate') => intake'[daemon.task].status = "read"
    <3>1. ASSUME Left(daemon, intake', fate')
          PROVE  intake'[daemon.task].status = "read"
      <4>1. daemon.task \in Task
        BY <1>0, <2>2, <3>1 DEF Left, Typed, HoldsRight, Half
      <4>2. Left(daemon, intake, fate)
        BY <2>3, <3>1, <4>1 DEF Left
      <4> QED BY <1>0, <2>1, <4>1, <4>2 DEF Assigned, Moves
    <3> QED BY <3>1
  <2>7. Assigned(daemon', intake', fate')
    BY <1>0, <2>1, <2>2, <2>3, <2>4, <2>5, <2>6 DEF Assigned
  <2> QED BY <1>0, <2>7 DEF Once
<1>4. CASE UNCHANGED vars
  BY <1>0, <1>4 DEF Once, vars, world
<1> QED BY <1>1, <1>2, <1>3, <1>4 DEF Next

(* No handoff is assigned twice, unless the daemon was cut short after a    *)
(* session had it (by its launch or by the notice) and before the mark.     *)
THEOREM AssignedJustOnce == Spec => []AssignedOnce
<1>1. Once => AssignedOnce
  BY DEF Once, Assigned, AssignedOnce
<1> QED BY <1>1, OnceInit, OnceInvariance, PTL DEF Spec
-----------------------------------------------------------------------------
(* NO TASK IS LOST                                                          *)

(* While nothing changes between the check for room and the choice of a     *)
(* delegate, a rebalance never defers.                                      *)
GivenIfMarked ==
  /\ \A t \in Task : intake[t].status = "read" => fate[t] # "new"
  /\ daemon.at \in Half => fate[daemon.task] # "new"
Kept == Typed /\ GivenIfMarked /\ (daemon.at = "choosing" => Room)

LEMMA KeptInit == Init => Kept
  BY TypeInit DEF Init, Kept, GivenIfMarked, Half, Quiescent, Absent

LEMMA RoomStays ==
  ASSUME UNCHANGED world, daemon'.lead = daemon.lead
  PROVE  Room' <=> Room
<1>1. \A s : Unread(s)' = Unread(s)
  BY DEF Unread, world
<1>2. \A s : Backlog(s)' = Backlog(s)
  BY <1>1 DEF Backlog, world
<1>3. \A s : Delegates(s)' = Delegates(s)
  BY DEF Delegates, Live, world
<1>4. \A s : ClearIdle(s)' = ClearIdle(s)
  BY <1>2, <1>3 DEF ClearIdle, world
<1> QED BY <1>3, <1>4 DEF Room, HasCapacity

LEMMA CycleKeeps ==
  ASSUME Kept, Cycle
  PROVE  GivenIfMarked' /\ (daemon'.at = "choosing" => Room')
<1>0. /\ Typed /\ TypeOK /\ daemon \in Daemon /\ GivenIfMarked
      /\ intake \in [Task -> Handoff]
      /\ fate \in [Task -> {"new", "seen", "given", "given twice", "interrupted"}]
  BY DEF Kept, Typed, TypeOK
<1>1. ASSUME intake' = intake, fate' = fate, daemon'.at \notin Half \cup {"choosing"}
      PROVE  GivenIfMarked' /\ (daemon'.at = "choosing" => Room')
  BY <1>0, <1>1 DEF GivenIfMarked, Half
<1>2. ASSUME NEW d \in Daemon, NEW batch \in SUBSET Task, daemon' = Proceed(d, batch)
      PROVE  daemon'.at \notin Half \cup {"choosing"}
  BY <1>2, ProceedMeans DEF Half
<1>3. CASE StartCycle \/ EndDispatch \/ EndRebalance \/ RecordRecovery
  <2>1. daemon'.at \in Between /\ intake' = intake /\ fate' = fate
    BY <1>0, <1>3, CycleMeans DEF world
  <2> QED BY <1>1, <2>1 DEF Between, Half
<1>4. ASSUME NEW s \in Session, OpenInbox(s) \/ OpenTeam(s) \/ OpenDelegate(s)
      PROVE  GivenIfMarked' /\ (daemon'.at = "choosing" => Room')
  <2>1. PICK d \in Daemon, batch \in SUBSET Task : Opened(d, batch)
    BY <1>0, <1>4, OpenMeans
  <2>2. intake' = intake /\ fate' = fate
    BY <1>0, <1>4, OpenMeans DEF world
  <2> QED BY <1>1, <1>2, <2>1, <2>2 DEF Opened
<1>5. ASSUME NEW t \in Task, CheckMessage(t)
      PROVE  GivenIfMarked' /\ (daemon'.at = "choosing" => Room')
  <2>1. UNCHANGED <<world, fate>> /\ daemon.at = "messages"
    BY <1>0, <1>5, CheckMeans
  <2>2. intake' = intake /\ fate' = fate
    BY <2>1 DEF world
  <2>3. CASE daemon' = [daemon EXCEPT !.at = "choosing"] /\ Room
    <3>1. daemon'.at = "choosing" /\ daemon'.lead = daemon.lead
      BY <1>0, <2>3 DEF Daemon
    <3>2. Room'
      BY <2>1, <2>3, <3>1, RoomStays
    <3> QED BY <1>0, <2>2, <3>1, <3>2 DEF GivenIfMarked, Half
  <2>4. ASSUME NEW batch \in SUBSET daemon.batch, daemon' = Proceed(daemon, batch)
        PROVE  GivenIfMarked' /\ (daemon'.at = "choosing" => Room')
    <3>1. batch \in SUBSET Task
      BY <1>0, DaemonParts
    <3> QED BY <1>0, <1>1, <1>2, <2>2, <2>4, <3>1
  <2> QED BY <1>0, <1>5, <2>3, <2>4, CheckMeans
<1>6. ASSUME NEW d \in Session, ReuseIdle(d) \/ Spawn(d) \/ ReuseActive(d)
      PROVE  GivenIfMarked' /\ (daemon'.at = "choosing" => Room')
  <2>1. PICK t \in daemon.batch : Chosen(t, d)
    BY <1>0, <1>6, AssignMeans
  <2>2. /\ daemon'.at \in Decided /\ daemon'.task = t /\ intake' = intake
        /\ (daemon'.at = "notifying" /\ fate' = fate) \/ (daemon'.at = "announcing" /\ Given(t))
    BY <1>0, <1>6, <2>1, AssignMeans, ChosenMeans
  <2>3. t \in Task
    BY <1>0, DaemonParts
  <2>4. CASE daemon'.at = "notifying" /\ fate' = fate
    BY <1>0, <2>2, <2>4 DEF GivenIfMarked, Half
  <2>5. CASE daemon'.at = "announcing" /\ Given(t)
    <3>1. fate'[t] # "new" /\ \A u \in Task \ {t} : fate'[u] = fate[u]
      BY <1>0, <2>3, <2>5, GivenMeans
    <3> QED BY <1>0, <2>2, <2>3, <2>5, <3>1 DEF GivenIfMarked, Half
  <2> QED BY <2>2, <2>4, <2>5
<1>7. ASSUME NEW t \in Task, Defer(t)
      PROVE  GivenIfMarked' /\ (daemon'.at = "choosing" => Room')
  <2>1. Choosing /\ ~Room /\ intake' = intake /\ fate' = fate
    BY <1>0, <1>7, DeferMeans DEF world
  <2>2. daemon.pass = "dispatch"
    BY <1>0, <2>1, ChoosingMeans DEF Kept
  <2> DEFINE e == [daemon EXCEPT !.deferred = @ \cup {t}]
  <2>3. e \in Daemon /\ daemon.batch \ {t} \in SUBSET Task
    BY <1>0, DaemonParts DEF Daemon
  <2>4. daemon' = Proceed(e, daemon.batch \ {t})
    BY <1>0, <1>7, <2>2, DeferMeans
  <2> HIDE DEF e
  <2> QED BY <1>1, <1>2, <2>1, <2>3, <2>4
<1>8. CASE Notify
  <2>1. /\ intake' = intake /\ daemon.task \in Task /\ fate'[daemon.task] # "new"
        /\ \A t \in Task \ {daemon.task} : fate'[t] = fate[t]
    BY <1>0, <1>8, NotifyMeans, GivenMeans DEF GivenIfMarked, Half
  <2>2. daemon'.at = "marking" /\ daemon'.task = daemon.task
    BY <1>0, <1>8, NotifyMeans DEF Daemon
  <2> QED BY <1>0, <2>1, <2>2 DEF GivenIfMarked, Half
<1>9. CASE Mark
  <2>1. PICK d \in Daemon, batch \in SUBSET (daemon.batch \ {daemon.task}) : daemon' = Proceed(d, batch)
    BY <1>0, <1>9, MarkMeans
  <2>2. batch \in SUBSET Task
    BY <1>0, <2>1, DaemonParts
  <2>3. daemon'.at \notin Half \cup {"choosing"}
    BY <1>2, <2>1, <2>2
  <2>4. /\ daemon.at = "marking" /\ daemon.task \in Task /\ fate' = fate
        /\ intake' = intake \/ intake' = [intake EXCEPT ![daemon.task] = Read]
    BY <1>0, <1>9, MarkMeans
  <2>5. \A t \in Task : intake'[t].status = "read" => intake[t].status = "read" \/ t = daemon.task
    BY <1>0, <2>4
  <2> QED BY <1>0, <2>3, <2>4, <2>5 DEF GivenIfMarked, Half
<1> QED BY <1>3, <1>4, <1>5, <1>6, <1>7, <1>8, <1>9 DEF Cycle, Assignment

LEMMA KeptInvariance == ~StaleCapacity /\ Kept /\ [Next]_vars => Kept'
<1> SUFFICES ASSUME ~StaleCapacity, Kept, [Next]_vars PROVE Kept'
  OBVIOUS
<1>0. /\ Typed /\ TypeOK /\ daemon \in Daemon /\ GivenIfMarked /\ Typed'
      /\ daemon.at = "choosing" => Room
  BY TypeInvariance DEF Kept, Typed, TypeOK
<1>1. CASE Cycle
  BY <1>0, <1>1, CycleKeeps DEF Kept
<1>2. CASE Abort
  <2>1. daemon'.at = "idle" /\ intake' = intake
    BY <1>0, <1>2, AbortMeans, QuiescentMeans DEF world
  <2>2. \A t \in Task : fate'[t] = "new" => fate[t] = "new"
    BY <1>0, <1>2, AbortMeans
  <2> QED BY <1>0, <2>1, <2>2 DEF Kept, GivenIfMarked, Half
<1>3. CASE World
  <2>1. daemon' = daemon /\ daemon.at # "choosing" /\ \A t \in Task : Moves(t)
    BY <1>0, <1>3, WorldMeans
  <2>2. \A t \in Task : intake'[t].status = "read" => fate'[t] # "new"
    BY <1>0, <2>1 DEF Moves, GivenIfMarked, Half
  <2>3. daemon.at \in Half => fate'[daemon.task] # "new"
    <3>1. daemon.at \in Half => daemon.task \in Task
      BY <1>0, DaemonParts DEF Typed, HoldsRight
    <3> QED BY <1>0, <2>1, <3>1 DEF Moves, GivenIfMarked, Half
  <2> QED BY <1>0, <2>1, <2>2, <2>3 DEF Kept, GivenIfMarked, Half
<1>4. CASE UNCHANGED vars
  <2>1. UNCHANGED <<world, daemon, intake, fate>>
    BY <1>4 DEF vars, world
  <2> QED BY <1>0, <2>1, RoomStays DEF Kept, GivenIfMarked, Half
<1> QED BY <1>1, <1>2, <1>3, <1>4 DEF Next

(* As long as the capacity that a rebalance found is there when it chooses, *)
(* no handoff is marked read before a session has it or someone has read it. *)
THEOREM NoneIsLost ==
  ASSUME ~StaleCapacity
  PROVE  Spec => []NoTaskIsLost
<1>1. Kept => NoTaskIsLost
  BY DEF Kept, GivenIfMarked, NoTaskIsLost
<1> QED BY <1>1, KeptInit, KeptInvariance, PTL DEF Spec
=============================================================================
