------------------------------ MODULE Verdict ------------------------------
(* The verdict of a plan. Every fact the plan is missing is branched over the *)
(* answers it could have, each branch evaluated in full, before any window is *)
(* allowed to close the plan; a blocked plan is then re-evaluated under the   *)
(* changes of scope that could help.                                          *)
EXTENDS Findings, FiniteSetsExt

LOCAL INSTANCE SequencesExt

VerdictRank(v) ==
    CHOOSE i \in 0..3 : <<"INFEASIBLE", "CONDITIONAL", "FEASIBLE_AT_RISK", "FEASIBLE">>[i + 1] = v

WindowIsMissed(route) == route.status = "published_deadline_missed"

(* Every route of every finding, with the finding that holds it, in order.    *)
RouteEntries(findings) ==
    FlattenSeq([i \in DOMAIN findings |->
        Listed([n \in DOMAIN findings[i].routes |->
            [finding |-> findings[i], route |-> findings[i].routes[n]]])])

(* The line narrowed to the one route that closes the plan.                   *)
BlockerView(entry) ==
    [route |-> entry.route, verification |-> entry.finding.verification]

BlocksOverall(route, blocking) ==
    route.ruleId \in blocking /\ route.disposition = "prohibited_or_ineligible"

(* Mutant: whichever window is missed closes the plan.                        *)
BlocksAnyMissed(route, blocking) == TRUE

BlocksWhenMissed(route, blocking) == route.ruleId \in blocking

(* The blocker with the longest published lead: the earliest date, an undated *)
(* one before them all, and the first of equals.                              *)
LongestLead(blockers) ==
    LET Lead(b) == IF b.route.latest = Null THEN -1 ELSE b.route.latest
    IN  IF blockers = <<>> THEN Null
        ELSE blockers[CHOOSE i \in DOMAIN blockers :
                 \A j \in DOMAIN blockers : \/ Lead(blockers[i]) < Lead(blockers[j])
                                            \/ Lead(blockers[i]) = Lead(blockers[j]) /\ i <= j]

WindowVerdict(verdict, blocker, missed, slacks) ==
    [verdict |-> verdict, blocker |-> blocker, missed |-> missed,
     minSlack |-> IF slacks = {} THEN Null ELSE Min(slacks)]

ComputeWindowVerdict(findings, blocking) ==
    LET entries    == RouteEntries(findings)
        missed     == SelectSeq(entries, LAMBDA e : WindowIsMissed(e.route))
        missedIds  == {missed[i].route.ruleId : i \in DOMAIN missed}
        slacks     == {e.route.slack : e \in {x \in Members(entries) :
                           x.route.slack # Null /\ ~WindowIsMissed(x.route)}}
        prohibited == SelectSeq(entries, LAMBDA e : BlocksOverall(e.route, blocking))
        closing    == SelectSeq(missed, LAMBDA e : BlocksWhenMissed(e.route, blocking))
        Say(v, b)  == WindowVerdict(v, b, missedIds, slacks)
    IN  IF prohibited # <<>> THEN Say("INFEASIBLE", BlockerView(prohibited[1]))
        ELSE IF closing # <<>>
        THEN Say("INFEASIBLE", LongestLead([i \in DOMAIN closing |-> BlockerView(closing[i])]))
        ELSE IF missed # <<>> THEN Say("CONDITIONAL", Null)
        ELSE IF \E e \in Members(entries) : e.route.status = "deadline_approaching"
        THEN Say("FEASIBLE_AT_RISK", Null)
        ELSE Say("FEASIBLE", Null)

-----------------------------------------------------------------------------
(* What a branch must agree on for its unknown to be immaterial: the verdict, *)
(* the lines, and every route's date and status.                              *)
BranchSignature(branch) ==
    [verdict |-> branch.verdict,
     lines |-> {<<branch.findings[i].ruleIds,
                  [n \in DOMAIN branch.findings[i].routes |->
                      LET r == branch.findings[i].routes[n] IN <<r.ruleId, r.latest, r.status>>]>>
                    : i \in DOMAIN branch.findings}]

RuleIdsOf(findings) ==
    UNION {{f.ruleIds[n] : n \in DOMAIN f.ruleIds} : f \in Members(findings)}

MissedRoutes(finding) ==
    {r.ruleId : r \in {x \in Members(finding.routes) : WindowIsMissed(x)}}

(* How a branch differs from the plan as it stands: rules added, dropped, and *)
(* kept lines that tightened.                                                 *)
DescribeDifference(base, candidate) ==
    [added |-> RuleIdsOf(candidate) \ RuleIdsOf(base),
     dropped |-> RuleIdsOf(base) \ RuleIdsOf(candidate),
     tightened |-> {RuleIdsOf(<<f>>) : f \in {x \in Members(candidate) :
         \E prior \in Members(base) :
             /\ RuleIdsOf(<<prior>>) \cap RuleIdsOf(<<x>>) # {}
             /\ \/ prior.disposition # x.disposition
                \/ MissedRoutes(prior) # MissedRoutes(x) /\ MissedRoutes(x) # {}}}]

(* The answers a field could have instead; a multi-select offers its options  *)
(* one at a time, and a number or a date cannot be enumerated.                *)
AlternativeValues(field, intake, rs) ==
    LET d == rs.def[field]
    IN  CASE d.values # Null /\ d.type = "multi_enum" ->
                 {{v} : v \in d.values \ {Unknown}} \ {intake[field]}
          [] d.values # Null /\ d.type # "multi_enum" ->
                 d.values \ {intake[field], Unknown}
          [] OTHER -> IF d.type = "boolean" THEN BOOLEAN \ {intake[field]} ELSE {}

(* The thresholds that decide a number the engine cannot enumerate.           *)
RECURSIVE ThresholdsIn(_, _)
ThresholdsIn(node, field) ==
    IF "field" \in DOMAIN node
    THEN IF node.field = field /\ node.op \in {"gt", "gte"}
         THEN {<<node.op, node.value, node.boundary>>} ELSE {}
    ELSE LET nodes == IF "all" \in DOMAIN node THEN node.all ELSE node.any
         IN  UNION {ThresholdsIn(nodes[i], field) : i \in DOMAIN nodes}

PublishedThresholds(field, rs) ==
    UNION {ThresholdsIn(rs.rules[i].trigger, field) : i \in DOMAIN rs.rules}

BranchesForceInfeasible(verdicts) ==
    verdicts # <<>> /\ \A v \in Members(verdicts) : v = "INFEASIBLE"

ResolveVerdict(window, verdicts, undetermined) ==
    CASE BranchesForceInfeasible(verdicts) -> "INFEASIBLE"
      [] verdicts = <<>> /\ window.verdict = "INFEASIBLE" -> "INFEASIBLE"
      [] OTHER -> IF undetermined THEN "CONDITIONAL"
                  ELSE IF verdicts # <<>> THEN verdicts[1] ELSE window.verdict

-----------------------------------------------------------------------------
(* What the branches over the missing facts, and what cannot be branched      *)
(* over, make of a plan.                                                      *)
Combined(resolved, window, fields, choices, branches, rs) ==
    LET paths    == FlattenSeq(branches)
        blockers == SelectSeq([k \in DOMAIN paths |-> paths[k].blocker], LAMBDA b : b # Null)
        diverges == \E i \in DOMAIN branches :
                        Cardinality({BranchSignature(b) : b \in Members(branches[i])}) > 1
        unlisted == \E i \in DOMAIN branches : branches[i] = <<>>
        undated  == {f \in Members(resolved.findings) : f.unresolved # Null}
        verdict  == ResolveVerdict(window, [k \in DOMAIN paths |-> paths[k].verdict],
                                   diverges \/ unlisted \/ undated # {})
    IN  [findings |-> resolved.findings,
         trace    |-> resolved.trace,
         window   |-> window,
         verdict  |-> verdict,
         blocker  |-> IF verdict # "INFEASIBLE" THEN Null
                      ELSE IF window.blocker # Null THEN window.blocker ELSE LongestLead(blockers),
         missing  |-> Listed([i \in DOMAIN fields |->
                          [field      |-> fields[i],
                           branches   |-> {[value   |-> choices[i][k],
                                            verdict |-> branches[i][k].verdict,
                                            reason  |-> DescribeDifference(resolved.findings,
                                                                           branches[i][k].findings)]
                                              : k \in DOMAIN choices[i]},
                           thresholds |-> IF choices[i] # <<>> THEN {}
                                          ELSE PublishedThresholds(fields[i], rs)]]),
         undated  |-> {<<f.ruleIds, f.unresolved>> : f \in undated}]

(* evaluateConditional: each missing fact in registry order; inside a branch  *)
(* the facts still missing are branched again.                                *)
MissingFields(resolved, rs) == SelectSeq(rs.order, LAMBDA f : f \in resolved.unknown)

AnswersTried(fields, intake, rs) ==
    Listed([i \in DOMAIN fields |-> Listed(SetToSeq(AlternativeValues(fields[i], intake, rs)))])

RECURSIVE EvaluateConditional(_, _, _)

BranchedOver(resolved, fields, choices, intake, rs, context) ==
    Combined(resolved, ComputeWindowVerdict(resolved.findings, resolved.blocking), fields, choices,
        Listed([i \in DOMAIN fields |->
            Listed([k \in DOMAIN choices[i] |->
                EvaluateConditional([intake EXCEPT ![fields[i]] = choices[i][k]], rs, context)])]),
        rs)

Branched(resolved, intake, rs, context) ==
    LET fields == MissingFields(resolved, rs)
    IN  BranchedOver(resolved, fields, AnswersTried(fields, intake, rs), intake, rs, context)

EvaluateConditional(intake, rs, context) ==
    Branched(ResolveFindings(intake, rs, context), intake, rs, context)

-----------------------------------------------------------------------------
(* The fields at the root of an asked_when chain, found by the words of its   *)
(* text that name a field.                                                    *)
Words(clause) ==
    CASE clause.kind = "member" -> {clause.member}
      [] clause.kind = "in"     -> {clause.field} \cup clause.values
      [] OTHER                  -> {clause.field}

RECURSIVE RootGatingFields(_, _)
RootGatingFields(fields, rs) ==
    LET gated == {f \in fields : rs.def[f].askedWhen # {}}
        named == UNION {UNION {Words(c) : c \in rs.def[f].askedWhen} : f \in gated}
                     \cap DOMAIN rs.def
    IN  (fields \ gated) \cup (IF gated = {} THEN {} ELSE RootGatingFields(named, rs))

Agencies(findings) ==
    {IF HeadlineOf(f) = Null THEN Null ELSE HeadlineOf(f).agency : f \in Members(findings)}

(* A change is not offered when what it brings in is a coverage gap, another  *)
(* agency's permit, or a window nobody can date for want of anything but the  *)
(* holiday list.                                                              *)
IsNoRelief(introduced, base) ==
    \E f \in introduced :
        \/ f.verification = "COVERAGE_GAP"
        \/ f.disposition = "required" /\ ~(Agencies(<<f>>) \subseteq Agencies(base))
        \/ /\ \E r \in Members(f.routes) : r.status = "not_calculable"
           /\ f.unresolved # "no_holiday_list"

RescopeSuggestion(field, value, candidate, base) ==
    LET introduced == {f \in Members(candidate.findings) :
                           RuleIdsOf(<<f>>) \cap RuleIdsOf(base.findings) = {}}
    IN  [field |-> field, value |-> value, verdict |-> candidate.verdict,
         kept |-> /\ VerdictRank(candidate.verdict) > VerdictRank(base.verdict)
                  /\ ~IsNoRelief(introduced, base.findings),
         introduced |-> RuleIdsOf(candidate.findings) \ RuleIdsOf(base.findings),
         dropped    |-> RuleIdsOf(base.findings) \ RuleIdsOf(candidate.findings),
         missing    |-> {candidate.missing[i].field : i \in DOMAIN candidate.missing},
         undated    |-> candidate.undated,
         minSlack   |-> IF candidate.verdict = "FEASIBLE_AT_RISK"
                        THEN candidate.window.minSlack ELSE Null]

(* Scenario A's three named steps lead; the rest keep the order of discovery. *)
RescopeLadderRank(s) ==
    CASE s.field = "street_event_size" /\ s.value = "medium"    -> 0
      [] s.field = "street_event_size" /\ s.value = "small"     -> 1
      [] s.field = "location_type" /\ s.value = "private_venue" -> 2
      [] OTHER -> 100

BuildRescopeSuggestions(base, intake, rs, context) ==
    LET rule       == CHOOSE i \in DOMAIN rs.rules : rs.rules[i].id = base.blocker.route.ruleId
        triggers   == TriggerFields(rs.rules[rule].trigger)
        candidates == SelectSeq(rs.order,
                          LAMBDA f : f \in triggers \cup RootGatingFields(triggers, rs))
        offered    == FlattenSeq([i \in DOMAIN candidates |->
                          LET f     == candidates[i]
                              tried == SetToSeq(AlternativeValues(f, intake, rs))
                          IN  Listed([k \in DOMAIN tried |->
                                  RescopeSuggestion(f, tried[k],
                                      EvaluateConditional([intake EXCEPT ![f] = tried[k]],
                                                          rs, context), base)])])
        kept == SelectSeq(offered, LAMBDA s : s.kept)
    IN  SetToSortSeq(Members(kept), LAMBDA a, b : RescopeLadderRank(a) < RescopeLadderRank(b))

VerdictOf(evaluated, intake, rs, context) ==
    LET blocker == evaluated.blocker
    IN  [findings |-> evaluated.findings,
         verdict  |-> evaluated.verdict,
         blocker  |-> blocker,
         missed   |-> evaluated.window.missed
                      \cup (IF blocker # Null /\ WindowIsMissed(blocker.route)
                            THEN {blocker.route.ruleId} ELSE {}),
         minSlack |-> evaluated.window.minSlack,
         missing  |-> evaluated.missing,
         undated  |-> evaluated.undated,
         rescopes |-> IF blocker = Null THEN <<>>
                      ELSE BuildRescopeSuggestions(evaluated, intake, rs, context),
         trace    |-> evaluated.trace]

ComputeVerdict(intake, rs, context) ==
    VerdictOf(EvaluateConditional(intake, rs, context), intake, rs, context)

(* evaluate: no plan without a date, or under a calendar that is not the      *)
(* ruleset's own.                                                             *)
CanEvaluate(intake, rs, calendar) ==
    intake["event_date"] # Null /\ calendar.id = rs.calendarId

Evaluate(intake, rs, today, calendar) ==
    ComputeVerdict(intake, rs,
        [rs |-> rs, intake |-> intake, scope |-> {}, eventDate |-> intake["event_date"],
         today |-> today, calendar |-> calendar, slackWarningDays |-> rs.slackWarningDays])
=============================================================================
