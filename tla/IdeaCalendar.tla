---- MODULE IdeaCalendar ----
(***************************************************************************)
(* When the next generation of ideas is announced for, and when its cron   *)
(* job fires (idea-generation-schedule.ts).  Times are whole hours since a *)
(* Monday at midnight, UTC; a local date and time is the number of hours   *)
(* that Date.UTC makes of its parts.                                       *)
(***************************************************************************)
EXTENDS Calls, Integers

CONSTANTS
    Zones,          \* time zones with one change of their offset
    TimesOfDay,     \* hours
    Weekdays,       \* 1 (Monday) to 7
    Froms           \* instants the calculation starts from

Day == 24
Week == 7 * Day
Max2(a, b) == IF a > b THEN a ELSE b

ASSUME CalendarAssumption ==
    /\ Zones \subseteq [before : -Day..Day, after : -Day..Day, change : Int]
    /\ TimesOfDay \subseteq 0..(Day - 1) /\ Weekdays \subseteq 1..7
    /\ Froms \subseteq Int

\* Intl.DateTimeFormat: the clock on the wall.
OffsetAt(z, t) == IF t < z.change THEN z.before ELSE z.after
LocalTime(z, t) == t + OffsetAt(z, t)

\* The offset is looked up at the local time read as if it were UTC.
ZonedTimeToUtc(z, local) == local - OffsetAt(z, local)

DayOf(local) == local \div Day
AtTime(day, hour) == day * Day + hour

\* getUTCDay has 0 for Sunday, as cron has.
UtcDay(day) == (day + 1) % 7
LocalWeekday(day) == IF UtcDay(day) = 0 THEN 7 ELSE UtcDay(day)

TheFirst(z, local, from, step) == ZonedTimeToUtc(z, local)      \* wrong: may be over
\* The first run ahead: the candidate, or the one a day or a week later.
FirstAhead(z, local, from, step) ==
    IF ZonedTimeToUtc(z, local) > from
    THEN ZonedTimeToUtc(z, local) ELSE ZonedTimeToUtc(z, local + step)

DaysUntil(weekday, day) ==
    LET days == weekday - LocalWeekday(day) IN IF days < 0 THEN days + 7 ELSE days

\* A weekday of None is a daily schedule.
NextRun(weekday, hour, z, from) ==
    LET today == DayOf(LocalTime(z, from))
    IN IF weekday = None
       THEN FirstAhead(z, AtTime(today, hour), from, Day)
       ELSE FirstAhead(z, AtTime(today + DaysUntil(weekday, today), hour), from, Week)

SameWeekday(weekday) == weekday     \* wrong: Sunday is 7
CronWeekday(weekday) == IF weekday = 7 THEN 0 ELSE weekday
CronFires(weekday, hour, z, t) ==
    LET local == LocalTime(z, t)
    IN /\ local % Day = hour
       /\ weekday = None \/ UtcDay(DayOf(local)) = CronWeekday(weekday)

CalendarCalls ==
    [of : {"calculateNextIdeaRunAt"}, weekday : Weekdays \cup {None},
     hour : TimesOfDay, zone : Zones]
AskCalendar == CallOf(CalendarCalls)
CalendarSpec == call = None /\ [][AskCalendar \/ Return]_call

-----------------------------------------------------------------------------
(* Properties.                                                             *)

Period == IF call.weekday = None THEN Day ELSE Week
Announced(from) == NextRun(call.weekday, call.hour, call.zone, from)
Fires(t) == CronFires(call.weekday, call.hour, call.zone, t)
\* The clock changes neither before the announced run, nor so soon after it
\* that a lookup may see the change.
NoChange(from) ==
    \/ call.zone.change <= from - Day
    \/ call.zone.change > from + Period + Day

\* The run announced is the next one the cron job makes, when the clock does not
\* change meanwhile.
AnnouncedIsNextRun ==
    Calling("calculateNextIdeaRunAt") =>
        \A from \in Froms : NoChange(from) =>
            /\ Announced(from) > from /\ Fires(Announced(from))
            /\ \A t \in (from + 1)..(Announced(from) - 1) : ~Fires(t)

\* When it does, the run announced and the run made are no further apart than the
\* change: no run is made between a time so close to now and one so close to the
\* run announced, and one is made so close to it, unless the change skips its hour,
\* where it is left to the cron library.
Shift ==
    Max2(call.zone.after - call.zone.before, call.zone.before - call.zone.after)
HourMaySkip(run) ==
    /\ call.zone.after > call.zone.before
    /\ run \in (call.zone.change - Shift)..(call.zone.change + Shift - 1)
AnnouncedIsNear ==
    Calling("calculateNextIdeaRunAt") =>
        \A from \in Froms :
            LET run == Announced(from)
            IN /\ run \in (from + 1 - Shift)..(from + Period + Shift)
               /\ \A t \in (from + 1 + Shift)..(run - Shift - 1) : ~Fires(t)
               /\ HourMaySkip(run) \/ \E t \in (run - Shift)..(run + Shift) : Fires(t)
====
