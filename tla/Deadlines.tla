----------------------------- MODULE Deadlines -----------------------------
(* A published deadline turned into the last day to file, and into a status.  *)
(* A context ctx is [rs, intake, scope, eventDate, today, calendar,           *)
(* slackWarningDays]. A dated deadline is [latest, status, slack, unknown,    *)
(* unresolved]: the fields whose answer would date it, and why a published    *)
(* window could not be dated at all (Null when it could).                     *)
EXTENDS Scope

-----------------------------------------------------------------------------
(* parseLevelBinding: what the reader requires of a by-level deadline.        *)
PrePublicationVersions == {"nyc.v2.1", "nyc.v2.2", "nyc.v2.3"}

(* The fields an old artifact leaves to the reader.                           *)
LevelBindingOf(rs, rule) ==
    IF rule.deadline = Null \/ rule.deadline.type # "published_minimum_by_level" THEN Null
    ELSE IF rule.binding = Null /\ rs.version \in PrePublicationVersions
    THEN [levelField |-> "plaza_level", multiBlockField |-> "plaza_multiple_blocks"]
    ELSE rule.binding

(* Whether a field is still asked when the level field answers this level.    *)
ScopeAdmits(rs, field, levelField, level) ==
    \A c \in {x \in rs.def[field].askedWhen : x.field = levelField} :
        CASE c.kind = "in"      -> level \in c.values
          [] c.kind = "compare" -> (c.value = level) = (c.op = "=")
          [] OTHER              -> FALSE

(* Without the last check, a level's two windows may turn on a question the   *)
(* plan never asks.                                                           *)
LevelFieldsAreRead(rs, rule) ==
    LET b == LevelBindingOf(rs, rule)
    IN  /\ b # Null /\ {b.levelField, b.multiBlockField} \subseteq DOMAIN rs.def
        /\ rs.def[b.levelField].type = "enum"
        /\ rs.def[b.multiBlockField].type = "boolean"

(* A by-level deadline needs one level per plan, every published level among  *)
(* the answers, and its block question asked of each level that needs it.     *)
LevelBindingIsRead(rs, rule) ==
    LET b == LevelBindingOf(rs, rule)
        levels == rule.deadline.levels
    IN  /\ b # Null /\ {b.levelField, b.multiBlockField} \subseteq DOMAIN rs.def
        /\ rs.def[b.levelField].type = "enum"
        /\ DOMAIN levels # {} /\ DOMAIN levels \subseteq rs.def[b.levelField].values
        /\ rs.def[b.multiBlockField].type = "boolean"
        /\ \A level \in DOMAIN levels :
               levels[level].multiBlockDays # Null
                   => ScopeAdmits(rs, b.multiBlockField, b.levelField, level)

-----------------------------------------------------------------------------
(* computeDeadline.                                                           *)
StatusFromSlack(slackDays, slackWarningDays) ==
    CASE slackDays < 0 -> "published_deadline_missed"
      [] slackDays >= 0 /\ slackDays < slackWarningDays -> "deadline_approaching"
      [] OTHER -> "on_track"

(* An exclusive bound's own day is already too late.                          *)
LastValidFilingDate(bound, boundary, dayBefore) ==
    IF boundary = "exclusive" THEN dayBefore ELSE bound

DateBackFrom(latest, ctx) ==
    LET slackDays == DifferenceInCalendarDays(ctx.today, latest)
    IN  [latest     |-> latest,
         status     |-> StatusFromSlack(slackDays, ctx.slackWarningDays),
         slack      |-> slackDays,
         unknown    |-> {},
         unresolved |-> Null]

Undatable(status, unknown, unresolved) ==
    [latest |-> Null, status |-> status, slack |-> Null,
     unknown |-> unknown, unresolved |-> unresolved]

IsUnanswered(field, ctx) ==
    field \in ctx.scope /\ ctx.intake[field] \in {Null, Unknown}

CalendarDaysBack(days, boundary, ctx) ==
    LET bound == AddCalendarDays(ctx.eventDate, -days)
    IN  LastValidFilingDate(bound, boundary, AddCalendarDays(bound, -1))

(* The days of a by-level deadline, or what is missing to choose them: an     *)
(* answer the organizer can still give, or a question never put.              *)
Days(n) == [kind |-> "days", days |-> n]

ResolveLevelDays(deadline, binding, ctx) ==
    LET level == ctx.intake[binding.levelField]
        multi == deadline.levels[level].multiBlockDays
        block == binding.multiBlockField
    IN  CASE binding.levelField \notin ctx.scope -> [kind |-> "unresolved", reason |-> "level_never_asked"]
          [] IsUnanswered(binding.levelField, ctx) -> [kind |-> "unknown", field |-> binding.levelField]
          [] OTHER ->
             IF level \notin DOMAIN deadline.levels
             THEN [kind |-> "unresolved", reason |-> "level_not_published"]
             ELSE IF multi = Null THEN Days(deadline.levels[level].calendarDays)
             ELSE IF block \notin ctx.scope
             THEN [kind |-> "unresolved", reason |-> "blocks_never_asked"]
             ELSE IF IsUnanswered(block, ctx) THEN [kind |-> "unknown", field |-> block]
             ELSE Days(IF ctx.intake[block] = TRUE THEN multi
                       ELSE deadline.levels[level].calendarDays)

ByLevel(deadline, binding, ctx) ==
    LET resolution == ResolveLevelDays(deadline, binding, ctx)
    IN  CASE resolution.kind = "unknown"    -> Undatable("not_calculable", {resolution.field}, Null)
          [] resolution.kind = "unresolved" -> Undatable("not_calculable", {}, resolution.reason)
          [] resolution.kind = "days"       ->
                 DateBackFrom(CalendarDaysBack(resolution.days, deadline.boundary, ctx), ctx)

(* The hard floor dates it; a runway shorter than the agency's processing     *)
(* range is at risk before the floor is near.                                 *)
Composite(deadline, ctx) ==
    LET dated  == DateBackFrom(CalendarDaysBack(deadline.hardFloorDays, deadline.boundary, ctx), ctx)
        runway == DifferenceInCalendarDays(ctx.today, ctx.eventDate)
    IN  [dated EXCEPT !.status = IF @ = "on_track" /\ runway < deadline.processingRangeDays[2]
                                 THEN "deadline_approaching" ELSE @]

BusinessDaysMinimum(deadline, ctx) ==
    IF ctx.calendar.holidays = Null THEN Undatable("not_calculable", {}, "no_holiday_list")
    ELSE LET bound == SubtractBusinessDays(ctx.eventDate, deadline.businessDays, ctx.calendar)
         IN  DateBackFrom(
                 LastValidFilingDate(bound, deadline.boundary,
                                     SubtractBusinessDays(bound, 1, ctx.calendar)), ctx)

ComputeDeadline(deadline, binding, ctx) ==
    IF deadline = Null THEN Undatable("not_applicable", {}, Null)
    ELSE CASE deadline.type = "published_minimum" ->
                  DateBackFrom(CalendarDaysBack(deadline.calendarDays, deadline.boundary, ctx), ctx)
           [] deadline.type = "published_minimum_by_level" -> ByLevel(deadline, binding, ctx)
           [] deadline.type = "composite"             -> Composite(deadline, ctx)
           [] deadline.type = "business_days_minimum" -> BusinessDaysMinimum(deadline, ctx)
           [] deadline.type = "before_issuance"       -> Undatable("not_applicable", {}, Null)
           [] deadline.type = "research_required"     -> Undatable("not_calculable", {}, Null)
=============================================================================
