----------------------------- MODULE Checklist -----------------------------
(***************************************************************************)
(* The compliance checklist of one event and the alerts its reviews        *)
(* schedule (apps/api/src/planning/checklist.ts, createAlertScheduler).    *)
(*                                                                         *)
(* Plans are immutable and appended in order; generating one, editing the  *)
(* event and reviewing the checklist hold the event row's lock, so each is *)
(* one step.  A read is several statements outside any transaction, so     *)
(* whatever the others commit falls between them.  Tabs are the            *)
(* organizer's browser tabs: a tab remembers the plan it displays and      *)
(* names it when it reviews.  How a due alert is claimed and sent is       *)
(* AlertDelivery's; here a tick that sends all that is due is one step,    *)
(* and a row that is pending or failed is waiting.                         *)
(***************************************************************************)
EXTENDS AlertPlanning

CONSTANTS
    Tabs,
    Contents,    \* the [items, verdict, minSlack] a generation can store
    Histories,   \* the plans an event may have from before (plans of older
                 \* releases did not record whose window a merged line has)
    Updates,     \* what a review says of each channel: an address as typed,
                 \* "absent" or "clear"
    Canonical(_, _), \* the destination as stored, by channel
    Statuses,    \* CHECKLIST_STATUSES the organizer sets
    MaxPlans,    \* bound: plans of an event without contacts
    MaxAlerted,  \* bound: plans of an event with contacts
    MaxRevision, \* bound: event edits
    MaxDay,      \* bound: the last day
    MaxWorked    \* bound: the oldest tasks, which the organizer works on

ASSUME ChecklistAssumption ==
    /\ {MaxPlans, MaxAlerted, MaxRevision, MaxDay, MaxWorked} \subseteq Nat
    /\ RemindBefore \subseteq Nat
    /\ "not_started" \in Statuses

(* A plan is a finite set of items, and an event's past a finite list.     *)
ASSUME PlansAreFinite ==
    /\ \A c \in Contents : IsFiniteSet(c.items)
    /\ \A h \in Histories : h \in Seq(ToSet(h)) /\ \A p \in ToSet(h) : IsFiniteSet(p.items)

(* A line as the engine stores it: the rules of one dedupe group, each at  *)
(* most once among its routes, which are recorded together with the route  *)
(* that leads (findings.ts mergeGroup, plan.ts renderingOf).               *)
IsLine(item) ==
    /\ item.rules \in Seq(Nat) \ {<<>>}
    /\ item.routes \in Seq(ToSet(item.routes))
    /\ \A i, j \in DOMAIN item.routes : item.routes[i].rule = item.routes[j].rule => i = j
    /\ \A r \in ToSet(item.routes) : r.rule \in ToSet(item.rules)
    /\ Len(item.routes) < 2 => Len(item.rules) = 1 \/ item.lead = None
    /\ \A r \in ToSet(item.routes) \cup {item} : r.applyBy \in Nat \cup {None}
    /\ FilingDate(item) \in Nat \cup {None}
    /\ Requirement(item) # None

(* A rule fires once, so it is part of one line of a plan (dedupe).        *)
ASSUME RulesAreOfOneLine ==
    /\ None \notin Nat
    /\ \A plan \in Contents \cup UNION {ToSet(h) : h \in Histories} :
         /\ \A item \in plan.items : IsLine(item)
         /\ \A i, j \in plan.items : ToSet(i.rules) \cap ToSet(j.rules) # {} => i = j

VARIABLES
    today,     \* the jurisdiction's calendar day
    revision,  \* events.revision_counter
    plans,     \* permit_plans, oldest first
    tasks,     \* checklist_items, in display order
    ack,       \* the plan checklist_acknowledgements names, or 0
    contacts,  \* event_alert_contacts
    alerts,    \* the alerts table, by idempotency key
    tabs

vars == <<today, revision, plans, tasks, ack, contacts, alerts, tabs>>

Channels == {"email", "sms"}
Latest == Len(plans)
Fresh == Latest > 0 /\ plans[Latest].revision = revision

Plan(c, r) ==
    [items |-> c.items, verdict |-> c.verdict, minSlack |-> c.minSlack, revision |-> r]

Idle(p) == [at |-> "idle", plan |-> p, read |-> 0]

-----------------------------------------------------------------------------
(* Struck through: some plan after the task's own, up to p, omits it.      *)

OmittedBy(task, q) ==
    \A item \in plans[q].items : Requirement(item) # Requirement(task.item)

(* Mutant: only plans before p are looked at.                              *)
StruckBefore(task, p) == \E q \in (task.plan + 1) .. (p - 1) : OmittedBy(task, q)

Struck(task, p) == \E q \in (task.plan + 1) .. p : OmittedBy(task, q)

Live(ts, p) == {i \in DOMAIN ts : ~Struck(ts[i], p)}

Current(task, p) ==
    CHOOSE item \in plans[p].items : Requirement(item) = Requirement(task.item)

(* An active task the displayed plan does not raise: the read fails.       *)
Incoherent(ts, p) == \E i \in Live(ts, p) : OmittedBy(ts[i], p)

NoticeOf(task, p) ==
    IF Struck(task, p) \/ (task.plan = p) THEN NoNotice
    ELSE MovedDeadlineNotice(task.item, Current(task, p))

-----------------------------------------------------------------------------
(* Materialize plan p: a live task follows its requirement into p, every   *)
(* other trackable requirement of p becomes a new task.                    *)

(* Mutant: a struck task is revived.                                       *)
TrackedByAny(p, item) ==
    {i \in DOMAIN tasks : Requirement(tasks[i].item) = Requirement(item)}

TrackedBy(p, item) ==
    {i \in Live(tasks, p) : Requirement(tasks[i].item) = Requirement(item)}

(* The items that have a task once p is materialized.                      *)
Tracked(p) == {item \in plans[p].items : item.kind \in Trackable}

Followed(p) ==
    [i \in DOMAIN tasks |->
        IF \E item \in Tracked(p) : TrackedBy(p, item) # {} /\ i = Max(TrackedBy(p, item))
        THEN [tasks[i] EXCEPT !.plan = p, !.item = Current(tasks[i], p)]
        ELSE tasks[i]]

(* Mutant: a requirement that ever had a task gets no other.               *)
NewOnce(p) ==
    LET items == InFilingOrder({item \in Tracked(p) : TrackedByAny(p, item) = {}})
    IN  [k \in DOMAIN items |-> [item |-> items[k], plan |-> p, status |-> "not_started"]]

New(p) ==
    LET items == InFilingOrder({item \in Tracked(p) : TrackedBy(p, item) = {}})
    IN  [k \in DOMAIN items |-> [item |-> items[k], plan |-> p, status |-> "not_started"]]

Materialized(p) == Followed(p) \o New(p)

(* The task an alert names: null when it names none.                       *)
TaskOf(ts, p, requirement) ==
    Max({0} \cup {i \in DOMAIN ts : ts[i].plan = p /\ Requirement(ts[i].item) = requirement})

-----------------------------------------------------------------------------
(* Schedule the alerts of plan p in the same transaction.                  *)

(* What a review says of a contact: absent leaves it, "clear" empties it.  *)
Resolved(update) ==
    [c \in Channels |->
        CASE update[c] = "absent" -> contacts[c]
          [] update[c] = "clear" -> None
          [] OTHER -> Canonical(c, update[c])]

Reached(to) == {c \in Channels : to[c] # None}

(* resolveContacts runs first; with no channel nothing is planned.         *)
Planned(p, to) ==
    IF Reached(to) = {} THEN {} ELSE PlannedAlerts(plans[p], Tracked(p), today)

Key(alert, c, to) == [identity |-> alert.identity, channel |-> c, recipient |-> to[c]]

FreshSchedule(row, alert) ==
    row.status = "cancelled" \/ row.intended # alert.intended

(* The upsert: a sent row is left alone.                                   *)
Upserted(key, alert, ts, p) ==
    LET held == [status |-> "waiting", send |-> alert.send, intended |-> alert.intended,
                 task |-> TaskOf(ts, p, alert.requirement), routed |-> alert.routed,
                 window |-> alert.window, revision |-> alert.revision, body |-> alert.body]
    IN  IF key \notin DOMAIN alerts THEN held
        ELSE IF alerts[key].status = "sent" THEN alerts[key]
        ELSE [held EXCEPT
                !.send = IF FreshSchedule(alerts[key], alert) THEN @ ELSE alerts[key].send]

(* Mutant: alerts the new set does not contain go on waiting.              *)
KeptWaiting(row) == row

Dropped(row) ==
    IF row.status = "waiting" THEN [row EXCEPT !.status = "cancelled"] ELSE row

Scheduled(p, to) ==
    LET planned == Planned(p, to)
        ts == Materialized(p)
        keys == {Key(a, c, to) : a \in planned, c \in Reached(to)}
    IN  [key \in DOMAIN alerts \cup keys |->
            IF key \in keys
            THEN Upserted(key, CHOOSE a \in planned : a.identity = key.identity, ts, p)
            ELSE Dropped(alerts[key])]

-----------------------------------------------------------------------------
(* POST /events/:id/checklist                                              *)

(* The stale tab: nothing is recorded, and the current checklist is shown. *)
Superseded(tab) ==
    /\ Fresh /\ tabs[tab].plan # Latest
    /\ ~Incoherent(tasks, Latest)
    /\ tabs' = [tabs EXCEPT ![tab] = Idle(Latest)]
    /\ UNCHANGED <<tasks, ack, contacts, alerts>>

(* Mutant: the review is of the latest plan, whichever the tab displays.   *)
AcceptedUnseen(tab) ==
    \E update \in Updates :
        LET to == Resolved(update)
        IN  /\ Fresh
            /\ Reached(to) # {} => ~Unattributed(plans[Latest], Tracked(Latest), today)
            /\ tasks' = Materialized(Latest)
            /\ contacts' = to
            /\ alerts' = Scheduled(Latest, to)
            /\ ack' = Latest
            /\ UNCHANGED tabs

Accepted(tab) ==
    \E update \in Updates :
        LET to == Resolved(update)
        IN  /\ Fresh /\ tabs[tab].plan = Latest
            /\ Reached(to) # {} => ~Unattributed(plans[Latest], Tracked(Latest), today)
            /\ tasks' = Materialized(Latest)
            /\ contacts' = to
            /\ alerts' = Scheduled(Latest, to)
            /\ ack' = Latest
            /\ UNCHANGED tabs

(* A plan the event has moved past, and a merged line without attribution, *)
(* roll the whole transaction back.                                        *)
Review(tab) ==
    /\ tabs[tab].at = "idle" /\ tabs[tab].plan # 0
    /\ Superseded(tab) \/ Accepted(tab)
    /\ UNCHANGED <<today, revision, plans>>

(* GET /events/:id/plan: the plan page displays the latest plan.           *)
OpenPlan(tab) ==
    /\ tabs[tab].at = "idle" /\ Latest > 0
    /\ tabs' = [tabs EXCEPT ![tab] = Idle(Latest)]
    /\ UNCHANGED <<today, revision, plans, tasks, ack, contacts, alerts>>

(* GET /events/:id/checklist reads the latest plan,                        *)
BeginRead(tab) ==
    /\ tabs[tab].at = "idle" /\ Latest > 0
    /\ tabs' = [tabs EXCEPT ![tab].at = "rows", ![tab].read = Latest]
    /\ UNCHANGED <<today, revision, plans, tasks, ack, contacts, alerts>>

(* then the tasks (the plans they are compared with never change) and what *)
(* was reviewed; the answer is displayed, or the tab stays as it was.      *)
EndRead(tab) ==
    LET p == tabs[tab].read
    IN  /\ tabs[tab].at = "rows"
        /\ tabs' = [tabs EXCEPT ![tab] =
             Idle(IF Incoherent(tasks, p) THEN tabs[tab].plan ELSE p)]
        /\ UNCHANGED <<today, revision, plans, tasks, ack, contacts, alerts>>

(* PATCH /checklist-items/:id: any status to any other.                    *)
SetStatus(i) ==
    /\ i <= MaxWorked
    /\ \E s \in Statuses \ {tasks[i].status} : tasks' = [tasks EXCEPT ![i].status = s]
    /\ UNCHANGED <<today, revision, plans, ack, contacts, alerts, tabs>>

-----------------------------------------------------------------------------
(* What happens around the checklist; edits and days before the first plan *)
(* are left out, nothing here sees them.                                   *)

Generate ==
    /\ Len(plans) < IF Reached(contacts) = {} THEN MaxPlans ELSE MaxAlerted
    /\ \E c \in Contents :
         plans' = Append(plans, Plan(c, revision))
    /\ UNCHANGED <<today, revision, tasks, ack, contacts, alerts, tabs>>

EditEvent ==
    /\ Latest > 0 /\ revision < MaxRevision
    /\ revision' = revision + 1
    /\ UNCHANGED <<today, plans, tasks, ack, contacts, alerts, tabs>>

NextDay ==
    /\ Latest > 0 /\ today < MaxDay
    /\ today' = today + 1
    /\ UNCHANGED <<revision, plans, tasks, ack, contacts, alerts, tabs>>

WindowHasShut(row) ==
    \/ /\ row.window = None /\ ~row.routed /\ row.task # 0
       /\ tasks[row.task].item.applyBy # None
       /\ tasks[row.task].item.applyBy < today
    \/ row.window # None /\ row.window < today

FromAStalePlan(row) ==
    \/ row.task # 0 /\ plans[tasks[row.task].plan].revision < revision
    \/ row.revision # None /\ row.revision < revision

Due(row) ==
    row.status = "waiting" /\ row.send <= today /\ ~FromAStalePlan(row)

(* One tick of the poller with every send answered.                        *)
Deliver ==
    /\ \E key \in DOMAIN alerts : Due(alerts[key])
    /\ alerts' = [key \in DOMAIN alerts |->
         IF ~Due(alerts[key]) THEN alerts[key]
         ELSE [alerts[key] EXCEPT
                 !.status = IF WindowHasShut(alerts[key]) THEN "cancelled" ELSE "sent"]]
    /\ UNCHANGED <<today, revision, plans, tasks, ack, contacts, tabs>>

-----------------------------------------------------------------------------
Init ==
    /\ today = 0 /\ revision = 1 /\ plans \in Histories /\ tasks = <<>> /\ ack = 0
    /\ contacts = [c \in Channels |-> None]
    /\ alerts = [k \in {} |-> {}]
    /\ tabs = [t \in Tabs |-> Idle(0)]

Next ==
    \/ \E tab \in Tabs : Review(tab) \/ OpenPlan(tab) \/ BeginRead(tab) \/ EndRead(tab)
    \/ \E i \in DOMAIN tasks : SetStatus(i)
    \/ Deliver \/ Generate \/ EditEvent \/ NextDay

Spec == Init /\ [][Next]_vars

-----------------------------------------------------------------------------
Waiting == {k \in DOMAIN alerts : alerts[k].status = "waiting"}

(* Every reminder of the policy exists for a filing date still ahead.      *)
HasReminders(item) ==
    \A c \in Reached(contacts), days \in RemindBefore, s \in FilingSubjects(item) :
        LET k == [identity |-> <<"deadline_reminder", days, s.rule>>,
                  channel |-> c, recipient |-> contacts[c]]
        IN  FilingOpen(s, today) => k \in DOMAIN alerts /\ alerts[k].status # "cancelled"

(* Every trackable requirement of the reviewed plan has exactly one task   *)
(* that follows it, however often it left and returned, and reminders of   *)
(* its dates that wait or were sent on every channel; every task that does *)
(* not follow the reviewed plan is struck (materialize, the scheduler).    *)
ReviewedPlanIsCovered ==
    ack # 0 =>
        /\ \A item \in Tracked(ack) :
             /\ Cardinality({i \in DOMAIN tasks :
                               tasks[i].plan = ack /\ tasks[i].item = item}) = 1
             /\ HasReminders(item)
        /\ \A i \in DOMAIN tasks : tasks[i].plan # ack => Struck(tasks[i], ack)

(* A task struck through stays struck and keeps the plan item it was       *)
(* dropped with, whatever later plans raise and whoever reviews them.      *)
StruckIsTerminal ==
    [][\A i \in DOMAIN tasks :
         Struck(tasks[i], Latest) =>
            /\ tasks'[i].item = tasks[i].item /\ tasks'[i].plan = tasks[i].plan
            /\ Struck(tasks[i], Latest)']_vars

(* A review records only a plan a tab displays, and only while that plan   *)
(* is the newest and answers the event as it stands; nothing else moves    *)
(* what was reviewed, and it never moves back (POST /checklist).           *)
ReviewIsOfTheShownPlan ==
    [][ack' # ack =>
         /\ ack' > ack /\ ack' = Latest
         /\ \E tab \in Tabs : tabs[tab].plan = ack'
         /\ plans[ack'].revision = revision]_vars

(* What a message says of its task is what the plan says: that it may not  *)
(* apply, and to confirm with the agency what is unverified.               *)
SaysWhatThePlanSays(k, item) ==
    /\ item.research => k.identity[3] \in alerts[k].body.confirms
    /\ (k.identity[1] = "deadline_reminder" /\ item.routes = <<>>)
         => (alerts[k].body.hedged <=> item.disposition # "required")

(* No alert waits for a task the last review struck, for a rule its task   *)
(* no longer names, for a destination the organizer replaced or to say     *)
(* more than the reviewed plan does.                                       *)
WaitingAlertsAreOfTheReview ==
    \A k \in Waiting :
        LET row == alerts[k]
        IN  /\ k.recipient = contacts[k.channel]
            /\ IF row.task = 0 THEN row.revision = plans[ack].revision
               ELSE /\ tasks[row.task].plan = ack
                    /\ k.identity[3] \in ToSet(tasks[row.task].item.rules)
                    /\ SaysWhatThePlanSays(k, tasks[row.task].item)

(* The date an organizer reviewed for a requirement never changes on the   *)
(* checklist without a notice, however many plans came in between.         *)
MovedDateIsTold ==
    ack # 0 =>
        \A i \in Live(tasks, Latest) : \A was \in plans[ack].items :
            LET is == Current(tasks[i], Latest)
            IN  /\ Requirement(was) = Requirement(tasks[i].item)
                /\ \/ Window(was).applyBy # Window(is).applyBy
                   \/ Window(was).deadline # Window(is).deadline
                => NoticeOf(tasks[i], Latest) # NoNotice

(* The checklist of the newest plan can always be shown, and a read that   *)
(* other calls overtake fails only if a review of a plan newer than the    *)
(* one it began with was committed beside it (GET /checklist).             *)
ChecklistCanBeRead ==
    /\ Latest > 0 => ~Incoherent(tasks, Latest)
    /\ \A tab \in Tabs :
         tabs[tab].at = "rows" /\ Incoherent(tasks, tabs[tab].read)
            => ack > tabs[tab].read
=============================================================================
