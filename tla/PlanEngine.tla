----------------------------- MODULE PlanEngine -----------------------------
(* One event under one published ruleset: the organizer creates and edits the *)
(* intake, plans are generated from the stored row, and days pass.            *)
EXTENDS RulesetLoad, EventIntake, PlanReader

CONSTANT Calendars  \* the holiday calendars deployments run with

VARIABLES
    calendar,
    plan        \* the last generated plan: [row, day, and what Evaluate says]

vars == <<rules, calendar, today, stored, plan>>

(* Boot: a ruleset the reader rejects never gets this far.                    *)
Init ==
    /\ rules \in {ParseEngineRuleset(rs) : rs \in {a \in Artifacts : Accepts(a)}}
    /\ IntakeInit
    /\ calendar \in Calendars
    /\ plan = Null

(* The bound on how far a row and its plan drift apart: an edit is made of a  *)
(* row just planned, and planned before the day is over.                      *)
JustPlanned == plan # Null /\ plan.row = stored /\ plan.day = today

CreateEvent ==
    /\ \E form \in Forms[rules.version] : Create(form)
    /\ UNCHANGED <<calendar, plan>>

(* The bound on edits: one answer changes, and the questions that brings in   *)
(* or leaves out follow.                                                      *)
OnlyChanges(row, field, edited) ==
    /\ edited[field] # row[field]
    /\ \A f \in DOMAIN rules.def \ {field} :
           edited[f] # row[f] =>
               (f \in AskedFieldNames(rules, row)) # (f \in AskedFieldNames(rules, edited))

EditForm ==
    /\ JustPlanned
    /\ \E form \in Forms[rules.version] :
           /\ \E field \in DOMAIN rules.def : OnlyChanges(stored, field, Submission(form))
           /\ Edit(Submission(form))
    /\ UNCHANGED <<calendar, plan>>

EditOneAnswer ==
    /\ JustPlanned
    /\ \E f \in DOMAIN RawAnswers[rules.version] :
           \E raw \in RawAnswers[rules.version][f] : Edit([g \in {f} |-> raw])
    /\ UNCHANGED <<calendar, plan>>

Generate ==
    /\ stored # Null
    /\ CanEvaluate(stored, rules, calendar)
    /\ ~JustPlanned
    /\ plan' = [row |-> stored, day |-> today] @@ Evaluate(stored, rules, today, calendar)
    /\ UNCHANGED <<rules, calendar, today, stored>>

NextDay ==
    /\ JustPlanned
    /\ DayPasses
    /\ UNCHANGED <<calendar, plan>>

Next ==
    \/ CreateEvent
    \/ EditForm
    \/ EditOneAnswer
    \/ Generate
    \/ NextDay

Spec == Init /\ [][Next]_vars

-----------------------------------------------------------------------------
(* Time alone never helps: for the same answers, a plan generated on a later  *)
(* day has no better verdict, and a window once missed stays missed. The      *)
(* branches over missing facts, the merged lines' choice of a leading route   *)
(* and the sequencing of permits all move with the date (verdict.ts           *)
(* evaluateConditional, findings.ts mergeGroup, applyDependencySequencing).   *)
DaysOnlyWorsenTheVerdict ==
    [][plan # Null /\ plan'.row = plan.row =>
          /\ VerdictRank(plan'.verdict) <= VerdictRank(plan.verdict)
          /\ plan.missed \subseteq plan'.missed]_plan

(* What a plan says an answer would lead to, it leads to: when the organizer  *)
(* gives the missing fact a branch is about, or takes a suggested change of   *)
(* scope, the next plan of that day has the verdict announced, unless the     *)
(* announcement was itself conditional. The edit may answer the questions the *)
(* change brings in, and clears those it removes (verdict.ts                  *)
(* evaluateConditional and buildRescopeSuggestions against events.ts PATCH).  *)
Announced ==
    UNION {{<<plan.missing[i].field, b.value, b.verdict>> : b \in plan.missing[i].branches}
              : i \in DOMAIN plan.missing}
    \cup {<<s.field, s.value, s.verdict>> : s \in Members(plan.rescopes)}

AnnouncedVerdictsComeTrue ==
    [][plan # Null /\ plan'.day = plan.day =>
          \A a \in Announced :
              /\ OnlyChanges(plan.row, a[1], plan'.row)
              /\ plan'.row[a[1]] = a[2]
              /\ a[3] # "CONDITIONAL"
              => plan'.verdict = a[3]]_plan

(* A ruleset that was accepted never leaves a published window undated over a *)
(* question it does not put to the event: the only dates a plan with no fact  *)
(* missing cannot compute are those of a calendar with no holiday list        *)
(* (ruleset.ts parseLevelBinding against deadlines.ts resolveLevelDays).      *)
AcceptedWindowsCanBeDated ==
    plan # Null =>
        \A u \in plan.undated :
            u[2] = "no_holiday_list" \/ (u[2] = "level_never_asked" /\ plan.missing # <<>>)

(* Every plan the engine makes of a ruleset that was accepted passes the plan *)
(* page's own checks, as it is answered and as it is read back from its rows, *)
(* and the two are the same plan: the page's idea of which route leads a      *)
(* line, which may close a plan, and what a blocker out of a branch says,     *)
(* agrees with the engine's (plan-api.ts readPlan, plan.ts findingFromRow     *)
(* against findings.ts mergeGroup and verdict.ts computeVerdict).             *)
ThePlanPageReadsEveryPlan ==
    plan # Null =>
        LET answered == Listed([i \in DOMAIN plan.findings |->
                                    StoredFindingFromEngine(plan.findings[i])])
        IN  /\ ReadPlan(rules, plan, answered)
            /\ ReadBack(plan.findings) = answered
=============================================================================
