------------------------------ MODULE Findings ------------------------------
(* From rules to findings: every rule's trigger is resolved, the ones that    *)
(* fired become findings, findings that share a dedupe key merge into one     *)
(* line that keeps each contributing rule as a route, and a published order   *)
(* between two permits narrows the second one's window.                       *)
(*                                                                            *)
(* A route is [ruleId, trigger, unknownFields, disposition, agency, deadline, *)
(* latest, after, status, slack]; a finding [ruleIds, disposition, verification, unresolved, *)
(* unknown, routes, merged, headline, mode]. An unmerged finding is its own   *)
(* single route, whose trigger reads "true" whatever the trigger was.         *)
EXTENDS Conditions, Deadlines, TLC

LOCAL INSTANCE SequencesExt

(* The same list, each of its elements worked out once.                       *)
Listed(list) == list \o <<>>

DefaultDispositionByRuleKind ==
    [kind \in {"permit", "insurance", "registration", "notification"} |-> "required"]
    @@ [kind \in {"eligibility", "dependency"} |-> "may_be_required"]
    @@ [kind \in {"note", "classification"} |-> "no_new_requirement"]
    @@ [kind \in {"prohibition"} |-> "prohibited_or_ineligible"]
    @@ [kind \in {"advisory"} |-> "advisory"]

DispositionStrength ==
    <<"no_new_requirement", "advisory", "may_be_required", "required", "prohibited_or_ineligible">>

Strength(disposition) == CHOOSE i \in 1..5 : DispositionStrength[i] = disposition

ResolveDisposition(rule, result) ==
    LET published == IF rule.published # Null THEN rule.published
                     ELSE DefaultDispositionByRuleKind[rule.kind]
    IN  IF result = "unknown" /\ published = "required" THEN "may_be_required" ELSE published

BuildFinding(rule, result, ctx) ==
    LET dated       == ComputeDeadline(rule.deadline, rule.binding, ctx)
        disposition == ResolveDisposition(rule, result)
    IN  [ruleIds |-> <<rule.id>>, disposition |-> disposition,
         verification |-> rule.verification,
         unresolved |-> dated.unresolved, unknown |-> dated.unknown,
         routes |-> <<[ruleId |-> rule.id, trigger |-> "true", unknownFields |-> {},
                       disposition |-> disposition,
                       agency |-> rule.agency, deadline |-> rule.deadline,
                       latest |-> dated.latest, after |-> Null,
                       status |-> dated.status, slack |-> dated.slack]>>,
         merged |-> FALSE, headline |-> rule.id, mode |-> Null]

(* A missed window, or a prohibition, may close the plan only on the strength *)
(* of a rule whose own trigger resolved and whose sources agree.              *)
CanBlock(disposition, result, verification) ==
    /\ result = "true"
    /\ verification # "OFFICIAL_CONFLICT"
    /\ Strength(disposition) >= Strength("required")

-----------------------------------------------------------------------------
(* The disposition of a merged line, read off its routes: the strongest any   *)
(* of them contributes, where an unresolved route cannot carry a settled      *)
(* requirement past "may be required".                                        *)
Members(routes) == {routes[i] : i \in DOMAIN routes}

RouteResolved(route) == route.trigger # "unknown"

CeilingApplies(routes) ==
    \E r \in Members(routes) : RouteResolved(r) /\ Strength(r.disposition) >= Strength("required")

Contributed(route, routes) ==
    IF /\ ~RouteResolved(route) /\ CeilingApplies(routes)
       /\ Strength(route.disposition) > Strength("may_be_required")
    THEN "may_be_required" ELSE route.disposition

MergedDispositionOf(routes) ==
    CHOOSE d \in {Contributed(r, routes) : r \in Members(routes)} :
        \A r \in Members(routes) : Strength(Contributed(r, routes)) <= Strength(d)

Contributing(routes) ==
    {r \in Members(routes) : Contributed(r, routes) = MergedDispositionOf(routes)}

NoRouteSuppliesScalars(routes) ==
    /\ Len(routes) >= 2
    /\ \E r \in Members(routes) : RouteResolved(r)
    /\ ~ \E r \in Contributing(routes) : RouteResolved(r)

(* An open window leads, then a closed one, an undated one, none at all; the  *)
(* earliest of two dates; then the rule id.                                   *)
WindowAvailability(route) ==
    CASE route.deadline = Null -> 3
      [] route.deadline # Null /\ route.status = "published_deadline_missed" -> 1
      [] OTHER -> IF route.latest = Null THEN 2 ELSE 0

BindsBefore(idOrder, a, b) ==
    LET x == WindowAvailability(a)
        y == WindowAvailability(b)
    IN  CASE x # y -> x < y
          [] OTHER -> IF a.latest # b.latest /\ a.latest # Null /\ b.latest # Null
                      THEN a.latest < b.latest
                      ELSE idOrder[a.ruleId] <= idOrder[b.ruleId]

BindingPool(routes) ==
    LET resolved == {r \in Contributing(routes) : RouteResolved(r)}
    IN  IF resolved # {} THEN resolved ELSE Contributing(routes)

BindingRouteOf(idOrder, routes) ==
    IF Len(routes) < 2 THEN Null
    ELSE CHOOSE r \in BindingPool(routes) :
             \A other \in BindingPool(routes) \ {r} : BindsBefore(idOrder, r, other)

-----------------------------------------------------------------------------
(* dedupe and mergeGroup. A contribution is [finding, result, unknown, key].  *)
RouteOf(c) ==
    [c.finding.routes[1] EXCEPT !.trigger = c.result, !.unknownFields = c.unknown]

GroupRoutes(group) == Listed([i \in DOMAIN group |-> RouteOf(group[i])])

MergeGroup(idOrder, group) ==
    LET routes  == GroupRoutes(group)
        binding == BindingRouteOf(idOrder, routes)
        ordered == <<binding>> \o SetToSortSeq(Members(routes) \ {binding},
                                               LAMBDA a, b : BindsBefore(idOrder, a, b))
        Behind(r) == group[CHOOSE i \in DOMAIN group : routes[i] = r].finding
        told    == SelectSeq(ordered, LAMBDA r : Behind(r).unresolved # Null)
    IN  IF Len(group) = 1 THEN group[1].finding
        ELSE [ruleIds      |-> Listed([i \in DOMAIN group |-> routes[i].ruleId]),
              disposition  |-> MergedDispositionOf(routes),
              verification |-> Behind(binding).verification,
              unresolved   |-> IF told = <<>> THEN Null ELSE Behind(told[1]).unresolved,
              unknown      |-> UNION {Behind(r).unknown : r \in Members(routes)},
              routes       |-> ordered,
              merged       |-> TRUE,
              headline     |-> IF NoRouteSuppliesScalars(routes) THEN Null ELSE binding.ruleId,
              mode         |-> IF \A r \in Members(routes) : RouteResolved(r)
                               THEN "applies_together" ELSE "candidate"]

Dedupe(idOrder, triggered) ==
    LET SameGroup(i, j) == i = j \/ (triggered[i].key # Null /\ triggered[i].key = triggered[j].key)
        leads == SelectSeq([i \in DOMAIN triggered |-> i],
                           LAMBDA i : \A j \in 1..(i - 1) : ~SameGroup(i, j))
    IN  Listed([k \in DOMAIN leads |->
            MergeGroup(idOrder,
                LET members == SelectSeq([i \in DOMAIN triggered |-> i],
                                         LAMBDA i : SameGroup(leads[k], i))
                IN  Listed([n \in DOMAIN members |-> triggered[members[n]]]))])

(* Which route's values lead a line; Null for a merged line with none.        *)
HeadlineOf(finding) ==
    IF finding.headline = Null THEN Null
    ELSE CHOOSE r \in Members(finding.routes) : r.ruleId = finding.headline

-----------------------------------------------------------------------------
(* One approved sequence: amplified sound in a park is taken up with the      *)
(* police after the Parks decision.                                           *)
DependencySequencingBindings ==
    {[dependency |-> "NYPD-SOUND-PARKS-DEP-001", upstream |-> "PARKS-EVENT-001",
      gated |-> "NYPD-SOUND-001"]}

FindingOf(findings, ruleId) ==
    LET holders == {i \in DOMAIN findings : \E n \in DOMAIN findings[i].ruleIds :
                                               findings[i].ruleIds[n] = ruleId}
    IN  IF holders = {} THEN Null ELSE findings[CHOOSE i \in holders : TRUE]

(* A window that closes before it opens is no countdown; a narrow one raises  *)
(* the status but never closes the window.                                    *)
SequenceRoute(route, applyAfter, slackWarningDays) ==
    LET window == IF route.latest = Null THEN Null
                  ELSE DifferenceInCalendarDays(applyAfter, route.latest)
        closed == window # Null /\ window < 0
    IN  [route EXCEPT
            !.after  = IF closed THEN Null ELSE applyAfter,
            !.slack  = IF closed THEN Null ELSE IF window = Null THEN @ ELSE window,
            !.status = IF window # Null /\ window < slackWarningDays /\ @ = "on_track"
                       THEN "deadline_approaching" ELSE @]

ApplyDependencySequencing(findings, ctx) ==
    LET Applies(b) ==
            /\ FindingOf(findings, b.dependency) # Null
            /\ FindingOf(findings, b.gated) # Null
            /\ LET up == FindingOf(findings, b.upstream)
               IN  /\ up # Null /\ HeadlineOf(up) # Null
                   /\ HeadlineOf(up).deadline # Null
                   /\ HeadlineOf(up).deadline.type = "composite"
        After(b) == AddCalendarDays(ctx.today,
                        HeadlineOf(FindingOf(findings, b.upstream)).deadline.processingRangeDays[1])
        Sequenced(r) ==
            LET gates == {b \in DependencySequencingBindings : b.gated = r.ruleId /\ Applies(b)}
            IN  IF gates = {} THEN r
                ELSE SequenceRoute(r, After(CHOOSE b \in gates : TRUE), ctx.slackWarningDays)
    IN  Listed([i \in DOMAIN findings |->
            [findings[i] EXCEPT !.routes = Listed([n \in DOMAIN @ |-> Sequenced(@[n])])]])

-----------------------------------------------------------------------------
(* resolveFindings: a no-new-requirement claim is not made on an unknown, and *)
(* a fact missing from a date is as material as one missing from a trigger.   *)
ResolveFindings(intake, rs, context) ==
    LET ctx == [context EXCEPT !.intake = intake, !.scope = ScopeOf(rs, intake)]
        evaluation == Listed([i \in DOMAIN rs.rules |->
                          EvaluateTrigger(rs, rs.rules[i].trigger, intake, ctx.scope)])
        fired == SelectSeq([i \in DOMAIN rs.rules |-> i],
                     LAMBDA i : /\ evaluation[i].result # "false"
                                /\ ~(/\ evaluation[i].result = "unknown"
                                     /\ ResolveDisposition(rs.rules[i], "unknown") = "no_new_requirement"))
        triggered == Listed([n \in DOMAIN fired |->
                         [finding |-> BuildFinding(rs.rules[fired[n]], evaluation[fired[n]].result, ctx),
                          result  |-> evaluation[fired[n]].result,
                          unknown |-> evaluation[fired[n]].unknown,
                          key     |-> rs.rules[fired[n]].dedupeKey]])
    IN  [findings |-> ApplyDependencySequencing(
                          Dedupe(rs.idOrder, triggered), ctx),
         trace    |-> Listed([i \in DOMAIN rs.rules |-> evaluation[i].result]),
         unknown  |-> UNION ({evaluation[i].unknown : i \in DOMAIN rs.rules}
                             \cup {triggered[n].finding.unknown : n \in DOMAIN triggered}),
         blocking |-> {rs.rules[fired[n]].id : n \in
                          {m \in DOMAIN fired :
                              CanBlock(triggered[m].finding.disposition, triggered[m].result,
                                       rs.rules[fired[m]].verification)}}]
=============================================================================
