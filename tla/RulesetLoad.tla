---------------------------- MODULE RulesetLoad ----------------------------
(* Reading a published ruleset: what an artifact must satisfy before the      *)
(* engine will evaluate it. The artifact has the engine's own shape, except   *)
(* that the oldest ones do not publish the fields a by-level deadline keys    *)
(* on, and the reader supplies them.                                          *)
EXTENDS Verdict

RuleKinds == {"permit", "insurance", "notification", "registration", "eligibility",
              "prohibition", "dependency", "classification", "advisory", "note"}

ConditionOperators == {"eq", "in", "gt", "gte", "bool", "contains", "contains_any"}

BoundedDeadlineTypes ==
    {"published_minimum", "published_minimum_by_level", "business_days_minimum", "composite"}

DeadlineTypes == BoundedDeadlineTypes \cup {"before_issuance", "research_required"}

(* Only "gt" excludes its own threshold, so only "gt" can leave it open.      *)
BoundaryIsRead(c) == c.boundary # Null => c.boundary = "conditional" /\ c.op = "gt"

RECURSIVE TriggerIsRead(_, _)
TriggerIsRead(rs, node) ==
    IF "field" \in DOMAIN node
    THEN node.op \in ConditionOperators /\ node.field \in DOMAIN rs.def /\ BoundaryIsRead(node)
    ELSE LET nodes == IF "all" \in DOMAIN node THEN node.all ELSE node.any
         IN  nodes # <<>> /\ \A i \in DOMAIN nodes : TriggerIsRead(rs, nodes[i])

DeadlineIsRead(rs, rule) ==
    rule.deadline # Null =>
        /\ rule.deadline.type \in DeadlineTypes
        /\ "boundary" \in DOMAIN rule.deadline =>
               /\ rule.deadline.type \in BoundedDeadlineTypes
               /\ rule.deadline.boundary \in {"inclusive", "exclusive"}
        /\ rule.deadline.type = "published_minimum_by_level" => LevelBindingIsRead(rs, rule)

RuleIsRead(rs, rule) ==
    /\ rule.kind \in RuleKinds
    /\ rule.published # Null => rule.published \in Members(DispositionStrength)
    /\ TriggerIsRead(rs, rule.trigger) /\ DeadlineIsRead(rs, rule)

(* A merged line has one verification status.                                 *)
DedupeKeysAgree(rs) ==
    \A i, j \in DOMAIN rs.rules :
        rs.rules[i].dedupeKey # Null /\ rs.rules[i].dedupeKey = rs.rules[j].dedupeKey
            => rs.rules[i].verification = rs.rules[j].verification

UnconsumedIntakeFields ==
    {"borough", "venue_paco_covers_exact_event", "venue_fdny_pa_permit_current_for_event_space"}

ConsumedFields(rs) ==
    {"event_date"}
    \cup UNION {TriggerFields(rs.rules[i].trigger) : i \in DOMAIN rs.rules}
    \cup UNION {{LevelBindingOf(rs, rs.rules[i]).levelField,
                 LevelBindingOf(rs, rs.rules[i]).multiBlockField}
                    : i \in {j \in DOMAIN rs.rules : LevelBindingOf(rs, rs.rules[j]) # Null}}
    \cup UNION {{c.field : c \in rs.def[f].askedWhen} : f \in DOMAIN rs.def}

(* Every question is read by something, or is kept on purpose.                *)
EveryFieldIsConsumed(rs) ==
    /\ DOMAIN rs.def \ ConsumedFields(rs) \subseteq UnconsumedIntakeFields
    /\ UnconsumedIntakeFields \cap ConsumedFields(rs) = {}

Accepts(rs) ==
    /\ ScopingIsRead(rs)
    /\ \A i \in DOMAIN rs.rules : RuleIsRead(rs, rs.rules[i])
    /\ DedupeKeysAgree(rs)
    /\ EveryFieldIsConsumed(rs)

(* The ruleset the engine evaluates.                                          *)
ParseEngineRuleset(rs) ==
    [rs EXCEPT !.rules = [i \in DOMAIN @ |-> [@[i] EXCEPT !.binding = LevelBindingOf(rs, rs.rules[i])]]]
=============================================================================
