---------------------------- MODULE EventIntake ----------------------------
(* The intake row of one event: the organizer creates it, edits it, and days  *)
(* pass. Of the loaded ruleset it sees the questions.                         *)
EXTENDS Intake

CONSTANTS
    Artifacts,      \* the published rulesets that may be loaded
    Forms,          \* per ruleset version, the filled-in forms an organizer may send
    RawAnswers,     \* per ruleset version and column, single answers sent on their own
    FirstDay, LastDay

(* What the asked_when parser makes of the published expressions. A bare      *)
(* token names an option of a list and "in" names a question with one answer: *)
(* every published expression does, although the parser would take others,    *)
(* which the intake screen and the engine read differently.                   *)
IsClause(rs, c) ==
    /\ c.field \in DOMAIN rs.def
    /\ \/ c.kind = "in" /\ Null \notin c.values /\ ~IsList(rs, c.field)
       \/ c.kind = "compare" /\ c.value # Null
       \/ c.kind \in {"at_least", "truthy"}
       \/ c.kind = "member" /\ IsList(rs, c.field)

ASSUME QuestionsAssumption ==
    /\ Null # TRUE
    /\ \A rs \in Artifacts :
         /\ IsFiniteSet(DOMAIN rs.def)
         /\ \A f \in DOMAIN rs.def : \A c \in rs.def[f].askedWhen : IsClause(rs, c)

VARIABLES
    rules,      \* the ruleset that was accepted
    today,
    stored      \* the event's intake row, Null before it is created

intakeVars == <<rules, today, stored>>

(* Boot: a ruleset whose questions cannot be read never gets this far.        *)
IntakeInit ==
    /\ rules.def \in {rs.def : rs \in {a \in Artifacts : ScopingIsRead(a)}}
    /\ today = FirstDay
    /\ stored = Null

Create(form) ==
    LET validated == ValidateIntake(rules, form, today)
    IN  /\ stored = Null
        /\ validated.values # Null
        /\ stored' = validated.values
        /\ UNCHANGED <<rules, today>>

(* An edit that changes no answer, or is refused, changes nothing.            *)
Edit(submission) ==
    LET edited    == MergeIntakeEdit(rules, stored, submission)
        validated == ValidateIntake(rules, edited, today)
    IN  /\ stored # Null
        /\ validated.values # Null
        /\ ~IsIntakeUnchanged(stored, validated.values)
        /\ stored' = validated.values
        /\ UNCHANGED <<rules, today>>

(* The form sends every column, null where it asks nothing or was left blank. *)
Submission(form) == [f \in DOMAIN stored |-> AnswerOf(form, f)]

DayPasses ==
    /\ today < LastDay
    /\ today' = today + 1
    /\ UNCHANGED <<rules, stored>>

IntakeNext ==
    \/ \E form \in Forms[rules.version] : Create(form) \/ Edit(Submission(form))
    \/ \E f \in DOMAIN RawAnswers[rules.version] :
           \E raw \in RawAnswers[rules.version][f] : Edit([g \in {f} |-> raw])
    \/ DayPasses

IntakeSpec == IntakeInit /\ [][IntakeNext]_intakeVars

-----------------------------------------------------------------------------
(* The intake screen and the engine agree on what the event was asked: a      *)
(* stored row answers exactly the questions both of them find in scope        *)
(* (visibility.ts askedFields against conditions.ts createScopeResolver).     *)
StoredAnswersAreAskedAlike ==
    stored # Null =>
        LET asked == AskedFieldNames(rules, stored)
        IN  /\ asked = ScopeOf(rules, stored)
            /\ \A f \in DOMAIN rules.def :
                   IF f \in asked THEN stored[f] # Null \/ rules.def[f].nullable
                                  ELSE stored[f] = Null
=============================================================================
