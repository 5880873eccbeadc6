------------------------------ MODULE Calendar ------------------------------
(* Calendar arithmetic of the engine. A date is its number of days since      *)
(* 1970-01-01 (a Thursday); a holiday calendar is [id, holidays], where       *)
(* holidays is a set of days, or Null when no list is published for it.       *)
EXTENDS Integers

CONSTANT Null   \* the absent value

AddCalendarDays(date, days) == date + days

\* The operands the other way round.
DifferenceBackwards(from, to) == from - to

DifferenceInCalendarDays(from, to) == to - from

\* Sunday is 0 and Saturday is 6, as getUTCDay counts them.
Weekday(date) == (date + 4) % 7

IsBusinessDay(date, calendar) ==
    Weekday(date) \notin {0, 6} /\ date \notin calendar.holidays

(* The latest day that still leaves so many full business days before date.   *)
SubtractBusinessDays(date, businessDays, calendar) ==
    LET from[at \in Int \X Nat] ==
            LET cursor    == at[1]
                remaining == at[2]
                before    == AddCalendarDays(cursor, -1)
            IN  IF remaining = 0 THEN cursor
                ELSE from[<<before, IF IsBusinessDay(before, calendar) THEN remaining - 1
                                                                       ELSE remaining>>]
    IN  from[<<date, businessDays>>]
=============================================================================
