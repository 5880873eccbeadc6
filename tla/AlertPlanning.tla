--------------------------- MODULE AlertPlanning ---------------------------
(***************************************************************************)
(* Which alerts a reviewed plan calls for, and what each says              *)
(* (plannedAlerts and the copy builders of apps/api/src/alerts/alerts.ts). *)
(*                                                                         *)
(* A plan is [items, verdict, minSlack, revision].  Time is counted in the *)
(* days of the jurisdiction: a day's send hour is not told from the day.   *)
(***************************************************************************)
EXTENDS PlanItems, Integers

CONSTANTS
    RemindBefore, \* config.alert_offsets.deadline_reminder.days_before
    Bindings      \* DEPENDENCY_SEQUENCING_BINDINGS: [gated, upstream, link]

(* A slot that has passed is due at once.                                  *)
DueOn(day, today) == IF day < today THEN today ELSE day

-----------------------------------------------------------------------------
(* The routes a line is scheduled from.                                    *)

Attribution(item) ==
    IF Len(item.rules) = 1 THEN item.rules[1]
    ELSE IF item.lead \in ToSet(item.rules) THEN item.lead ELSE None

WholeLine(item) ==
    [rule |-> Attribution(item), first |-> item.rules[1], routed |-> FALSE,
     disposition |-> item.disposition, applyBy |-> item.applyBy, openOn |-> item.openOn,
     slack |-> item.slack, mode |-> item.mode, research |-> item.research, says |-> item.says]

RouteSubject(item, r) ==
    [rule |-> r.rule, first |-> r.rule, routed |-> TRUE,
     disposition |-> r.disposition, applyBy |-> r.applyBy, openOn |-> r.openOn,
     slack |-> r.slack, mode |-> item.mode, research |-> item.research, says |-> item.says]

AlertSubjects(item) ==
    IF Len(item.routes) < 2 THEN {WholeLine(item)}
    ELSE {RouteSubject(item, r) :
            r \in {q \in ToSet(item.routes) : q.applyBy # None \/ q.openOn # None}}

IsFilingSubject(s) ==
    s.disposition \in FilingDispositions /\ s.mode # "candidate"

(* Something of the plan names the rule: the lookup byRuleId.              *)
Raised(plan, rule) ==
    \E item \in plan.items : rule \in ToSet(item.rules)

ItemOf(plan, rule) ==
    CHOOSE item \in plan.items : rule \in ToSet(item.rules)

BindingsOf(s) == {b \in Bindings : b.gated = s.first}

-----------------------------------------------------------------------------
(* What a message says, as far as a reader could be misled by it: that the *)
(* requirement only may apply, that it comes late, that another decision   *)
(* is awaited first, and for which rules it says to confirm with the       *)
(* agency.  A text of the plan may say the last itself.                    *)

SaysConfirm(s, rendered) == s.research \/ s.says \cap rendered # {}

ReminderCopy(s, late, awaits) ==
    [hedged |-> s.disposition # "required",
     late |-> late,
     sequenced |-> awaits,
     confirms |-> IF SaysConfirm(s, {"deadline", "notes", "conflict", "portal"})
                  THEN {s.first} ELSE {}]

DependencyCopy(plan, s, b) ==
    LET researched(rule) == Raised(plan, rule) /\ ItemOf(plan, rule).research
    IN  [hedged |-> TRUE,
         late |-> FALSE,
         sequenced |-> TRUE,
         confirms |-> {r \in {b.upstream, b.link} : researched(r)}
                          \cup (IF SaysConfirm(s, {"portal"}) THEN {s.first} ELSE {})]

SlackCopy(controlling) ==
    [hedged |-> ~\E s \in controlling : IsFilingSubject(s),
     late |-> FALSE,
     \* The requirement the message describes: a filing before any other,
     \* and among those one that waits on a decision.
     sequenced |-> LET told == IF \E s \in controlling : IsFilingSubject(s)
                               THEN {s \in controlling : IsFilingSubject(s)}
                               ELSE controlling
                   IN  \E s \in told : s.openOn # None,
     confirms |-> {s.first : s \in {c \in controlling :
                                      SaysConfirm(c, {"notes", "conflict"})}}]

-----------------------------------------------------------------------------
FilingOpen(s, today) == s.applyBy # None /\ s.applyBy >= today
NotShut(s, today) == s.applyBy = None \/ s.applyBy >= today

Reminder(plan, item, s, days, today) ==
    LET day == s.applyBy - days
    IN  [identity |-> <<"deadline_reminder", days, s.rule>>,
         requirement |-> Requirement(item),
         send |-> DueOn(day, today),
         intended |-> day,
         routed |-> s.routed,
         window |-> IF s.routed THEN s.applyBy ELSE None,
         revision |-> None,
         body |-> ReminderCopy(s, day < today,
                     /\ s.openOn # None /\ day <= s.openOn
                     /\ \E b \in BindingsOf(s) : Raised(plan, b.upstream))]

Reminders(plan, item, s, today) ==
    IF FilingOpen(s, today) THEN {Reminder(plan, item, s, d, today) : d \in RemindBefore}
    ELSE {}

(* The upstream decision a gated line waits on is expected.                *)
Unlocking(plan, s, today) ==
    {b \in BindingsOf(s) : s.openOn # None /\ Raised(plan, b.upstream) /\ NotShut(s, today)}

Unlock(plan, item, s, b, today) ==
    [identity |-> <<"dependency_unlocked", 0, s.rule>>,
     requirement |-> Requirement(item),
     send |-> DueOn(s.openOn, today),
     intended |-> s.openOn,
     routed |-> s.routed,
     window |-> IF s.routed THEN s.applyBy ELSE None,
     revision |-> None,
     body |-> DependencyCopy(plan, s, b)]

(* Everything of the plan whose slack is a number, tracked or not.         *)
Dated(plan) == {s \in UNION {AlertSubjects(i) : i \in plan.items} : s.slack # None}

Controlling(plan) == {s \in Dated(plan) : s.slack = plan.minSlack}

(* The least slack among the filings still open is the one quoted.         *)
ControllingStillOpen(plan, today) ==
    LET open == {s \in Dated(plan) : FilingOpen(s, today)}
    IN  /\ \E s \in open : s.slack = plan.minSlack
        /\ \A s \in open : plan.minSlack <= s.slack

SlackWarning(plan, today) ==
    LET days == {s.applyBy : s \in Controlling(plan)} \ {None}
    IN  [identity |-> <<"slack_warning", 0, None>>,
         requirement |-> None,
         send |-> today,
         intended |-> None,
         routed |-> FALSE,
         window |-> IF days = {} THEN None ELSE Max(days),
         revision |-> plan.revision,
         body |-> SlackCopy(Controlling(plan))]

SlackWarnings(plan, today) ==
    IF /\ plan.verdict = "feasible_at_risk"
       /\ plan.minSlack # None
       /\ ControllingStillOpen(plan, today)
    THEN {SlackWarning(plan, today)}
    ELSE {}

FilingSubjects(item) == {s \in AlertSubjects(item) : IsFilingSubject(s)}

(* A merged line that does not record whose window it has cannot be        *)
(* scheduled, and the whole review fails on it.                            *)
Unattributed(plan, tracked, today) ==
    \E item \in tracked : \E s \in FilingSubjects(item) :
        /\ s.rule = None
        /\ FilingOpen(s, today) \/ Unlocking(plan, s, today) # {}

PlannedAlerts(plan, tracked, today) ==
    SlackWarnings(plan, today) \cup
    UNION {UNION {Reminders(plan, item, s, today)
                    \cup {Unlock(plan, item, s, b, today) : b \in Unlocking(plan, s, today)}
                  : s \in FilingSubjects(item)}
           : item \in tracked}
=============================================================================
