------------------------------- MODULE Scope -------------------------------
(* Which questions an intake puts to the organizer.                           *)
(*                                                                            *)
(* A ruleset is a record whose order is the registry (a sequence of field     *)
(* names) and whose def maps each field to                                    *)
(*   [type, values, askedWhen, nullable]                                      *)
(* askedWhen being the set of its parsed clauses, all of which must hold. An  *)
(* intake maps every field to its answer, to Null when there is none, or to   *)
(* Unknown, the declared option "unknown".                                    *)
EXTENDS Calendar, FiniteSets, Sequences

CONSTANT Unknown

IsList(rs, field) == rs.def[field].type = "multi_enum"

-----------------------------------------------------------------------------
(* One clause of an asked_when, read against an answer that is Null when its  *)
(* own question is out of scope. A list is compared by membership.            *)
Compared(rs, clause, value) ==
    IF IsList(rs, clause.field) /\ value # Null
    THEN (clause.value \in value) = (clause.op = "=")
    ELSE IF clause.op = "=" THEN value = clause.value
                            ELSE value # Null /\ value # clause.value

ClauseHolds(rs, clause, value) ==
    CASE clause.kind = "in"       -> value \in clause.values
      [] clause.kind = "compare"  -> Compared(rs, clause, value)
      [] clause.kind = "at_least" -> value \notin {Null, Unknown} /\ value >= clause.threshold
      [] clause.kind = "truthy"   -> value = TRUE
      [] clause.kind = "member"   -> IF value = Null THEN FALSE
                                     ELSE IF IsList(rs, clause.field) THEN clause.member \in value
                                     ELSE value = clause.member

(* createScopeResolver: a question is in scope when every clause holds of     *)
(* answers that are themselves in scope. Resolved once for an evaluation, as  *)
(* the resolver's cache does.                                                 *)
ScopeOf(rs, intake) ==
    LET inScope[field \in DOMAIN rs.def] ==
            \A clause \in rs.def[field].askedWhen :
                ClauseHolds(rs, clause,
                    IF inScope[clause.field] THEN intake[clause.field] ELSE Null)
    IN  {field \in DOMAIN rs.def : inScope[field]}

-----------------------------------------------------------------------------
(* The fields an asked_when names must be acyclic, or the resolver would not  *)
(* settle; the ruleset's reader rejects a cycle: fields that each name one of *)
(* themselves.                                                                *)
ScopingIsCyclic(rs) ==
    \E fields \in SUBSET DOMAIN rs.def \ {{}} :
        \A field \in fields : \E clause \in rs.def[field].askedWhen : clause.field \in fields

(* parseAskedWhenClause: each operand is checked against the field it names.  *)
ClauseIsUsable(rs, clause) ==
    /\ clause.field \in DOMAIN rs.def
    /\ LET d == rs.def[clause.field]
       IN  CASE clause.kind = "in"       -> d.values # Null /\ clause.values \subseteq d.values
             [] clause.kind = "at_least" -> d.type \in {"integer", "number"}
             [] clause.kind = "compare"  -> d.values = Null \/ clause.value \in d.values
             [] clause.kind = "truthy"   -> d.type = "boolean"
             [] clause.kind = "member"   ->
                  /\ clause.member \notin DOMAIN rs.def
                  /\ {f \in DOMAIN rs.def : rs.def[f].values # Null
                                            /\ clause.member \in rs.def[f].values}
                       = {clause.field}

(* withParsedScoping: what the reader requires of the questions.              *)
ScopingIsRead(rs) ==
    /\ \A f \in DOMAIN rs.def : \A c \in rs.def[f].askedWhen : ClauseIsUsable(rs, c)
    /\ ~ScopingIsCyclic(rs)
=============================================================================
