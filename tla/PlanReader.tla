----------------------------- MODULE PlanReader -----------------------------
(* A plan on its way to the organizer: stored as one row per line with a      *)
(* rendering beside it, put together again when it is read, and checked by    *)
(* the plan page, which trusts no answer whose parts do not agree with each   *)
(* other. The page's rules are written from the contract, not from the        *)
(* engine's code.                                                             *)
(*                                                                            *)
(* A finding as it is served is [ruleIds, disposition, verification,          *)
(* unresolved, unknown, routes, mode, headline, scalars]: a merged line has   *)
(* routes and no scalars, any other has scalars and no routes.                *)
EXTENDS Verdict

LOCAL INSTANCE SequencesExt

ScalarsOf(route) ==
    [agency |-> route.agency, deadline |-> route.deadline, latest |-> route.latest,
     after |-> route.after, status |-> route.status, slack |-> route.slack]

Served(finding, routes, headline, scalars) ==
    [ruleIds |-> finding.ruleIds, disposition |-> finding.disposition,
     verification |-> finding.verification, unresolved |-> finding.unresolved,
     unknown |-> finding.unknown, mode |-> finding.mode,
     routes |-> routes, headline |-> headline, scalars |-> scalars]

(* The answer to a generation is made of what was evaluated.                  *)
StoredFindingFromEngine(finding) ==
    IF finding.merged THEN Served(finding, finding.routes, finding.headline, Null)
    ELSE Served(finding, Null, Null, ScalarsOf(finding.routes[1]))

-----------------------------------------------------------------------------
(* The row of a line has the values of its leading route, if it has one, and  *)
(* the rendering has what the row has no column for.                          *)
PlanItem(finding) ==
    LET headline == HeadlineOf(finding)
    IN  [ruleIds |-> finding.ruleIds, disposition |-> finding.disposition,
         verification |-> finding.verification,
         columns |-> IF headline = Null
                     THEN [agency |-> Null, deadline |-> Null, latest |-> Null,
                           after |-> Null, status |-> "not_calculable"]
                     ELSE [agency |-> headline.agency, deadline |-> headline.deadline,
                           latest |-> headline.latest, after |-> headline.after,
                           status |-> headline.status]]

RenderingOf(finding) ==
    [ruleIds |-> finding.ruleIds, unresolved |-> finding.unresolved,
     unknown |-> finding.unknown, mode |-> finding.mode,
     slack |-> IF HeadlineOf(finding) = Null THEN Null ELSE HeadlineOf(finding).slack,
     routes |-> IF finding.merged THEN finding.routes ELSE Null,
     headline |-> IF finding.merged THEN finding.headline ELSE Null]

(* A line with routes says nothing of its own; an absent headline is the      *)
(* first route's unless no route may lead.                                    *)
FindingFromRow(item, rendering) ==
    LET common == item @@ rendering
    IN  IF rendering.routes = Null
        THEN Served(common, Null, Null, [slack |-> rendering.slack] @@ item.columns)
        ELSE Served(common, rendering.routes,
                    IF rendering.headline # Null THEN rendering.headline
                    ELSE IF NoRouteSuppliesScalars(rendering.routes) THEN Null
                    ELSE rendering.routes[1].ruleId,
                    Null)

(* Rows come back in any order: each rendering finds its own by the rules.    *)
ReadBack(findings) ==
    LET items == {PlanItem(f) : f \in Members(findings)}
    IN  Listed([i \in DOMAIN findings |->
            LET rendering == RenderingOf(findings[i])
            IN  FindingFromRow(CHOOSE item \in items : item.ruleIds = rendering.ruleIds,
                               rendering)])

-----------------------------------------------------------------------------
(* What the page takes for a finding.                                         *)
Verdicts == {"FEASIBLE", "FEASIBLE_AT_RISK", "CONDITIONAL", "INFEASIBLE"}
VerificationStatuses ==
    {"SOURCE_CONFIRMED", "OFFICIAL_CONFLICT", "RESEARCH_REQUIRED", "COVERAGE_GAP", "VERIFIED"}
DeadlineStatuses ==
    {"on_track", "deadline_approaching", "published_deadline_missed",
     "not_calculable", "not_applicable"}
TraceResults == {"true", "false", "unknown"}

RouteChecks(route) ==
    /\ route.trigger \in TraceResults \ {"false"}
    /\ route.disposition \in Members(DispositionStrength)
    /\ route.status \in DeadlineStatuses

FindingChecks(finding) ==
    /\ finding.disposition \in Members(DispositionStrength)
    /\ finding.verification \in VerificationStatuses
    /\ finding.scalars # Null => finding.scalars.status \in DeadlineStatuses
    /\ finding.routes # Null =>
           Len(finding.routes) >= 2 /\ \A r \in Members(finding.routes) : RouteChecks(r)
    /\ finding.mode \in {"applies_together", "candidate", Null}

RouteValueShapeHolds(finding) == finding.routes = Null => finding.scalars # Null

(* One route per rule, and the rules the line names.                          *)
RoutesMatchRuleIds(finding) ==
    LET routeIds == {r.ruleId : r \in Members(finding.routes)}
    IN  /\ routeIds = Members(finding.ruleIds)
        /\ Cardinality(routeIds) = Len(finding.routes)
        /\ Cardinality(routeIds) = Len(finding.ruleIds)

UnknownFieldsMatchTriggerResult(route) ==
    route.trigger = "unknown" <=> route.unknownFields # {}

RouteContractHolds(finding) ==
    \/ finding.routes = Null /\ finding.mode = Null
    \/ /\ finding.routes # Null /\ finding.mode # Null
       /\ RoutesMatchRuleIds(finding)
       /\ \A r \in Members(finding.routes) : UnknownFieldsMatchTriggerResult(r)
       /\ finding.mode = "applies_together" <=>
              \A r \in Members(finding.routes) : r.trigger = "true"

DispositionFollowsFromRoutes(finding) ==
    finding.routes # Null => finding.disposition = MergedDispositionOf(finding.routes)

(* The first route of a merged line leads it, and is its headline.            *)
BindsWhereTheEngineWouldBind(idOrder, finding) ==
    finding.routes # Null =>
        finding.routes[1].ruleId = BindingRouteOf(idOrder, finding.routes).ruleId

HeadlineMatchesBinding(idOrder, finding) ==
    IF finding.routes = Null
    THEN finding.headline = Null /\ Len(finding.ruleIds) = 1
    ELSE finding.headline = IF NoRouteSuppliesScalars(finding.routes) THEN Null
                            ELSE BindingRouteOf(idOrder, finding.routes).ruleId

IsConsumedFinding(idOrder, finding) ==
    /\ FindingChecks(finding)
    /\ RouteValueShapeHolds(finding)
    /\ RouteContractHolds(finding)
    /\ DispositionFollowsFromRoutes(finding)
    /\ BindsWhereTheEngineWouldBind(idOrder, finding)
    /\ HeadlineMatchesBinding(idOrder, finding)

-----------------------------------------------------------------------------
(* What it takes for the blocker of a plan.                                   *)
MayClosePlan(values, trigger, verification) ==
    /\ CanBlock(values.disposition, trigger, verification)
    /\ values.disposition = "prohibited_or_ineligible" \/ WindowIsMissed(values)

(* The blocker's own values: those of the one route it names.                 *)
AgreesWithRoute(blocker, values) ==
    /\ blocker.route.agency = values.agency
    /\ blocker.route.disposition = values.disposition
    /\ blocker.route.latest = values.latest
    /\ blocker.route.status = values.status

RouteNamed(finding, ruleId) ==
    CHOOSE r \in Members(finding.routes) : r.ruleId = ruleId

NarrowedBlockerHolds(blocker, finding, traced) ==
    IF finding.routes = Null
    THEN LET values == [disposition |-> finding.disposition] @@ finding.scalars
         IN  /\ MayClosePlan(values, traced, finding.verification)
             /\ AgreesWithRoute(blocker, values)
    ELSE LET route == RouteNamed(finding, blocker.route.ruleId)
         IN  /\ MayClosePlan(route, route.trigger, finding.verification)
             /\ AgreesWithRoute(blocker, route)

(* A blocker out of the branches has only what no answer can change in common *)
(* with the line of the plan, and every branch must close the plan.           *)
PromotedBlockerHolds(blocker, finding, missing) ==
    /\ {b.verdict : b \in UNION {m.branches : m \in Members(missing)}} = {"INFEASIBLE"}
    /\ blocker.route.agency =
           IF finding.routes = Null THEN finding.scalars.agency
           ELSE RouteNamed(finding, blocker.route.ruleId).agency

BlockerIsAValidNarrowedRoute(findings, blocker, missing, traced) ==
    blocker # Null =>
        LET finding == FindingOf(findings, blocker.route.ruleId)
        IN  /\ finding # Null
            /\ \/ NarrowedBlockerHolds(blocker, finding, traced[blocker.route.ruleId])
               \/ PromotedBlockerHolds(blocker, finding, missing)

(* A plan that fails any check is not shown at all.                           *)
ReadPlan(rs, plan, findings) ==
    /\ plan.verdict \in Verdicts
    /\ \A m \in Members(plan.missing) : \A b \in m.branches : b.verdict \in Verdicts
    /\ \A s \in Members(plan.rescopes) : s.verdict \in Verdicts
    /\ Members(plan.trace) \subseteq TraceResults
    /\ \A f \in Members(findings) : IsConsumedFinding(rs.idOrder, f)
    /\ BlockerIsAValidNarrowedRoute(findings, plan.blocker, plan.missing,
           [id \in DOMAIN rs.idOrder |->
                plan.trace[CHOOSE i \in DOMAIN rs.rules : rs.rules[i].id = id]])
=============================================================================
