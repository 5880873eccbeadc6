----------------------------- MODULE Conditions -----------------------------
(* What a rule's trigger makes of the answers: true, false or unknown.        *)
EXTENDS Scope

-----------------------------------------------------------------------------
(* What one condition says of an answer that was given.                       *)
CompareAnswer(rs, condition, value) ==
    LET candidates == condition.value
    IN  CASE condition.op \in {"eq", "bool"} -> value = condition.value
          [] condition.op = "in"   -> IF IsList(rs, condition.field)
                                      THEN value \cap candidates # {} ELSE value \in candidates
          [] condition.op = "gt"   -> value > condition.value
          [] condition.op = "gte"  -> value >= condition.value
          [] condition.op = "contains"     -> condition.value \in value
          [] condition.op = "contains_any" -> value \cap candidates # {}

(* The threshold a rule publishes as unresolved on the exact number.          *)
IsAtDeclaredBoundary(condition, value) ==
    condition.op = "gt" /\ condition.boundary = "conditional" /\ value = condition.value

(* A rule that lists "unknown" among its values is answered by it.            *)
AcceptsUnknown(condition) ==
    \/ condition.op = "in" /\ Unknown \in condition.value
    \/ condition.op = "eq" /\ Unknown = condition.value

Verdictless(result) == [result |-> result, unknown |-> {}]

IsUnknown(field) == [result |-> "unknown", unknown |-> {field}]

Tristate(matched) == Verdictless(IF matched THEN "true" ELSE "false")

(* A plausible mistake: an "unknown" answer is just an answer that is not the *)
(* one asked for.                                                             *)
UnknownIsNo(rs, condition, intake, scope) ==
    LET value == intake[condition.field]
    IN  CASE condition.field \notin scope \/ value = Null -> Verdictless("false")
          [] condition.field \in scope /\ value = Unknown ->
                 Tristate(AcceptsUnknown(condition))
          [] OTHER ->
                 IF IsAtDeclaredBoundary(condition, value) THEN IsUnknown(condition.field)
                 ELSE Tristate(CompareAnswer(rs, condition, value))

EvaluateCondition(rs, condition, intake, scope) ==
    LET value == intake[condition.field]
    IN  CASE condition.field \notin scope -> Verdictless("false")
          [] condition.field \in scope /\ value = Null -> IsUnknown(condition.field)
          [] condition.field \in scope /\ value = Unknown ->
                 IF AcceptsUnknown(condition) THEN Verdictless("true")
                                              ELSE IsUnknown(condition.field)
          [] OTHER ->
                 IF IsAtDeclaredBoundary(condition, value) THEN IsUnknown(condition.field)
                 ELSE Tristate(CompareAnswer(rs, condition, value))

(* evaluateTrigger: a false child settles an "all", a true one an "any"; the  *)
(* unknown fields reported are those of the children that stayed unknown.     *)
RECURSIVE EvaluateTrigger(_, _, _, _)
EvaluateTrigger(rs, node, intake, scope) ==
    IF "field" \in DOMAIN node THEN EvaluateCondition(rs, node, intake, scope)
    ELSE LET isAll     == "all" \in DOMAIN node
             nodes     == IF isAll THEN node.all ELSE node.any
             children  == {EvaluateTrigger(rs, nodes[i], intake, scope) : i \in DOMAIN nodes}
             decisive  == IF isAll THEN "false" ELSE "true"
             otherwise == IF isAll THEN "true" ELSE "false"
             unsettled == {c \in children : c.result = "unknown"}
         IN  CASE \E c \in children : c.result = decisive -> Verdictless(decisive)
               [] OTHER -> IF unsettled = {} THEN Verdictless(otherwise)
                           ELSE [result  |-> "unknown",
                                 unknown |-> UNION {c.unknown : c \in unsettled}]

RECURSIVE TriggerFields(_)
TriggerFields(node) ==
    IF "field" \in DOMAIN node THEN {node.field}
    ELSE LET nodes == IF "all" \in DOMAIN node THEN node.all ELSE node.any
         IN  UNION {TriggerFields(nodes[i]) : i \in DOMAIN nodes}
=============================================================================
