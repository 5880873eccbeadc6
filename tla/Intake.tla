------------------------------- MODULE Intake -------------------------------
(* The intake contract: which questions an event is asked, how one submitted  *)
(* answer is read, how an edit lands on the stored row, and when the row is   *)
(* accepted. A submission maps the columns it carries to raw values; a row    *)
(* maps every column to its answer or to Null. Beside the ruleset's fields a  *)
(* row has two columns of its own: a name, which it must have, and a capacity.*)
EXTENDS Scope, TLC

CONSTANT Garbage   \* a raw value of no declared type

Descriptive == {"name", "capacity"}

IntakeColumnNames(rs) == DOMAIN rs.def \cup Descriptive

-----------------------------------------------------------------------------
(* askedFields: the same clauses as the engine's scope, read by the intake    *)
(* screen. Only a list has members here, and only a text is "in" a list.      *)
TermHolds(rs, term, answer) ==
    IF term.kind = "member" THEN answer # Null /\ IsList(rs, term.field) /\ term.member \in answer
    ELSE ClauseHolds(rs, term, answer)

AnswerOf(answers, field) == IF field \in DOMAIN answers THEN answers[field] ELSE Null

(* A question is asked once every clause holds of an answer to a question     *)
(* already asked.                                                             *)
NewlyAsked(rs, answers, asked) ==
    {f \in DOMAIN rs.def \ asked :
        \A term \in rs.def[f].askedWhen :
            /\ term.field \in asked
            /\ TermHolds(rs, term, AnswerOf(answers, term.field))}

(* One pass: a question gated by a gated question is never reached.           *)
AskedInOnePass(rs, answers) ==
    {f \in DOMAIN rs.def :
        \A term \in rs.def[f].askedWhen :
            /\ rs.def[term.field].askedWhen = {}
            /\ TermHolds(rs, term, AnswerOf(answers, term.field))}

(* Pass by pass over the registry, until a pass asks nothing more.            *)
AskedFieldNames(rs, answers) ==
    LET from[asked \in SUBSET DOMAIN rs.def] ==
            LET newly == NewlyAsked(rs, answers, asked)
            IN  IF newly = {} THEN asked ELSE from[asked \cup newly]
    IN  from[{}]

-----------------------------------------------------------------------------
(* readFieldValue and readDescriptiveValue: whether one raw value fits.       *)
Fits(rs, field, raw) ==
    IF field = "name" THEN raw \notin {Garbage, ""}
    ELSE IF field = "capacity" THEN raw # Garbage /\ raw > 0
    ELSE LET d == rs.def[field]
         IN  /\ raw # Garbage
             /\ CASE d.type = "enum" -> raw \in d.values
                  [] d.type = "multi_enum" -> /\ raw # {} /\ raw \subseteq d.values
                                              /\ "none" \in raw => raw = {"none"}
                  [] d.type = "boolean" -> raw \in BOOLEAN
                  [] d.type \in {"integer", "number"} -> raw >= 0
                  [] d.type = "date" -> TRUE

IsProvided(submission, field) == AnswerOf(submission, field) # Null

(* mergeIntakeEdit: an answer whose question the edit put out of scope is     *)
(* cleared with it, unless the edit itself sends one.                         *)
MergeIntakeEdit(rs, stored, submission) ==
    LET merged == submission @@ stored
        asked  == AskedFieldNames(rs, merged)
    IN  [f \in DOMAIN merged |->
            IF f \in DOMAIN rs.def \ (asked \cup DOMAIN submission) THEN Null ELSE merged[f]]

IsIntakeUnchanged(stored, values) == stored = values

(* The two notices the screen quotes beside an answer.                        *)
IntakeWarnings(rs, answers) ==
    LET asked == AskedFieldNames(rs, answers)
        Applicable(f) == IF f \in asked THEN AnswerOf(answers, f) ELSE Null
    IN  {w \in {"block_party_eligibility_conflict", "coverage_gap"} :
            IF w = "coverage_gap"
            THEN /\ Applicable("alcohol") = TRUE
                 /\ Applicable("location_type") \notin {Null, "private_venue"}
            ELSE /\ Applicable("sapo_event_type") = "block_party"
                 /\ Applicable("selling_anything") = TRUE \/ Applicable("alcohol") = TRUE}

(* validateIntake: every problem of a submission, and the row it makes when   *)
(* there is none.                                                             *)
ValidateIntake(rs, submission, today) ==
    LET columns == IntakeColumnNames(rs)
        unread  == {f \in columns \cap DOMAIN submission :
                       IsProvided(submission, f) /\ ~Fits(rs, f, submission[f])}
        answers == [f \in {c \in columns \ unread : IsProvided(submission, c)} |-> submission[f]]
        asked   == AskedFieldNames(rs, answers)
        errors  ==
            {<<f, "unknown_field">> : f \in DOMAIN submission \ columns}
            \cup {<<f, "invalid_value">> : f \in unread}
            \cup {<<f, "not_applicable">> :
                     f \in {g \in DOMAIN rs.def \ asked : IsProvided(submission, g)}}
            \cup {<<f, "required">> :
                     f \in {g \in asked : ~IsProvided(submission, g) /\ ~rs.def[g].nullable}
                           \cup {g \in {"name"} : ~IsProvided(submission, g)}}
            \cup {<<f, "must_be_positive">> :
                     f \in {g \in {"headcount"} \cap DOMAIN answers : answers[g] <= 0}}
            \cup {<<f, "in_the_past">> :
                     f \in {g \in {"event_date"} \cap DOMAIN answers : answers[g] < today}}
    IN  [errors |-> errors, warnings |-> IntakeWarnings(rs, answers),
         values |-> IF errors # {} THEN Null ELSE [f \in columns |-> AnswerOf(answers, f)]]
=============================================================================
