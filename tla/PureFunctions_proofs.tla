---- MODULE PureFunctions_proofs ----
(***************************************************************************)
(* The properties of the pure functions, for all their arguments: the      *)
(* calendar of the ideas, the score of the duplicates and the mapping to   *)
(* Notion.  Each has a specification that calls it and returns.            *)
(***************************************************************************)
EXTENDS IdeaCalendar, DuplicateScore, NotionMapping, FiniteSetTheorems, TLAPS

-----------------------------------------------------------------------------
(* The calendar.                                                             *)

\* A local time is a day and an hour of it.
LEMMA DayAndHour ==
    ASSUME NEW local \in Int
    PROVE  /\ DayOf(local) \in Int /\ local % Day \in 0..(Day - 1)
           /\ local = AtTime(DayOf(local), local % Day)
  BY DEF Day, DayOf, AtTime

LEMMA DayAndHourUnique ==
    ASSUME NEW day \in Int, NEW hour \in 0..(Day - 1)
    PROVE  /\ AtTime(day, hour) \in Int
           /\ DayOf(AtTime(day, hour)) = day /\ AtTime(day, hour) % Day = hour
  BY DEF Day, DayOf, AtTime

\* DaysUntil is how long it is from a day to the next weekday of cron.
LEMMA WeekdayAfter ==
    ASSUME NEW day \in Int, NEW weekday \in 1..7
    PROVE  /\ DaysUntil(weekday, day) \in 0..6
           /\ \A n \in 0..6 : UtcDay(day + n) = CronWeekday(weekday)
                                <=> n = DaysUntil(weekday, day)
           /\ \A d \in Int : UtcDay(d + 7) = UtcDay(d)
  BY DEF UtcDay, CronWeekday, DaysUntil, LocalWeekday

\* What cron asks of a local time.
CronTime(weekday, hour, local) ==
    local % Day = hour /\ (weekday = None \/ UtcDay(DayOf(local)) = CronWeekday(weekday))

\* The candidate, or the one a period later, is the first local time cron asks for.
FirstLocal(candidate, local, period) ==
    IF candidate > local THEN candidate ELSE candidate + period

LEMMA FirstOfTheDay ==
    ASSUME NEW local \in Int, NEW hour \in 0..(Day - 1),
           NEW first, first = FirstLocal(AtTime(DayOf(local), hour), local, Day)
    PROVE  /\ first \in (local + 1)..(local + Day)
           /\ CronTime(None, hour, first)
           /\ \A t \in (local + 1)..(first - 1) : ~CronTime(None, hour, t)
  <1> DEFINE today == DayOf(local)
  <1>1. /\ today \in Int /\ local % Day \in 0..(Day - 1)
        /\ local = AtTime(today, local % Day)
    BY DayAndHour
  <1>2. PICK day \in {today, today + 1} :
          /\ first = AtTime(day, hour)
          /\ day = today <=> AtTime(today, hour) > local
    BY <1>1 DEF FirstLocal, AtTime, Day
  <1>3. first \in (local + 1)..(local + Day)
    BY <1>1, <1>2 DEF AtTime, Day
  <1>4. CronTime(None, hour, first)
    BY <1>1, <1>2, DayAndHourUnique DEF CronTime
  <1>5. ASSUME NEW t \in (local + 1)..(first - 1), t % Day = hour PROVE FALSE
    <2>1. DayOf(t) \in Int /\ t = AtTime(DayOf(t), hour)
      BY <1>1, <1>3, <1>5, DayAndHour
    <2> QED
      BY <1>1, <1>2, <1>3, <2>1 DEF AtTime, Day
  <1> QED
    BY <1>3, <1>4, <1>5 DEF CronTime

Weekly(weekday, hour, local) == AtTime(DayOf(local) + DaysUntil(weekday, DayOf(local)), hour)

LEMMA FirstOfTheWeek ==
    ASSUME NEW local \in Int, NEW hour \in 0..(Day - 1), NEW weekday \in 1..7, weekday # None
    PROVE  LET candidate == Weekly(weekday, hour, local)
               first == FirstLocal(candidate, local, Week)
           IN
           /\ candidate \in (local - Day)..(local + Week)
           /\ first \in (local + 1)..(local + Week)
           /\ CronTime(weekday, hour, first)
           /\ \A t \in (local + 1)..(first - 1) : ~CronTime(weekday, hour, t)
  <1> DEFINE today == DayOf(local)
             n == DaysUntil(weekday, today)
             candidate == Weekly(weekday, hour, local)
             first == FirstLocal(candidate, local, Week)
  <1>1. /\ today \in Int /\ local % Day \in 0..(Day - 1)
        /\ local = AtTime(today, local % Day)
    BY DayAndHour
  <1>2. n \in 0..6 /\ UtcDay(today + n) = CronWeekday(weekday)
    BY <1>1, WeekdayAfter
  <1> HIDE DEF n
  <1>3. /\ candidate \in (local - Day)..(local + Week)
        /\ first \in (local + 1)..(local + Week)
        /\ candidate = AtTime(today + n, hour)
        /\ first = candidate \/ (first = AtTime(today + n + 7, hour) /\ candidate <= local /\ n = 0)
    BY <1>1, <1>2 DEF FirstLocal, AtTime, Day, Week, Weekly, n
  <1>4. CronTime(weekday, hour, first)
    <2>1. PICK day \in {today + n, today + n + 7} : first = AtTime(day, hour)
      BY <1>3
    <2>2. day \in Int /\ UtcDay(day) = CronWeekday(weekday)
      BY <1>1, <1>2, WeekdayAfter
    <2> QED
      BY <2>1, <2>2, DayAndHourUnique DEF CronTime
  <1>5. ASSUME NEW t \in (local + 1)..(first - 1), CronTime(weekday, hour, t) PROVE FALSE
    <2>1. /\ DayOf(t) \in Int /\ t = AtTime(DayOf(t), hour)
          /\ UtcDay(DayOf(t)) = CronWeekday(weekday)
      BY <1>1, <1>3, <1>5, DayAndHour DEF CronTime
    <2>2. DayOf(t) - today \in 0..6
      BY <1>1, <1>2, <1>3, <2>1 DEF AtTime, Day
    <2>3. DayOf(t) = today + n
      BY <1>1, <2>1, <2>2, WeekdayAfter DEF n
    <2> QED
      BY <1>3, <2>1, <2>3
  <1> QED
    BY <1>3, <1>4, <1>5

\* Away from a change of the clock, the run is announced as if there were none.
LEMMA SteadyClock ==
    ASSUME NEW z \in Zones, NEW from \in Int, NEW period \in {Day, Week},
           z.change <= from - Day \/ z.change > from + period + Day
    PROVE  \E o \in -Day..Day :
              /\ \A t \in from..(from + period) : LocalTime(z, t) = t + o
              /\ \A c \in (from + o - Day)..(from + o + period) :
                    FirstAhead(z, c, from, period) = FirstLocal(c, from + o, period) - o
  <1>1. z.before \in -Day..Day /\ z.after \in -Day..Day /\ z.change \in Int
    BY CalendarAssumption
  <1>2. CASE z.change <= from - Day
    <2>1. /\ \A t \in from..(from + period) : LocalTime(z, t) = t + z.after
          /\ \A c \in (from + z.after - Day)..(from + z.after + period) :
               FirstAhead(z, c, from, period) = FirstLocal(c, from + z.after, period) - z.after
      BY <1>1, <1>2 DEF LocalTime, OffsetAt, FirstAhead, FirstLocal, ZonedTimeToUtc, Day, Week
    <2> QED
      BY <1>1, <2>1
  <1>3. CASE z.change > from + period + Day
    <2>1. /\ \A t \in from..(from + period) : LocalTime(z, t) = t + z.before
          /\ \A c \in (from + z.before - Day)..(from + z.before + period) :
               FirstAhead(z, c, from, period) = FirstLocal(c, from + z.before, period) - z.before
      BY <1>1, <1>3 DEF LocalTime, OffsetAt, FirstAhead, FirstLocal, ZonedTimeToUtc, Day, Week
    <2> QED
      BY <1>1, <2>1
  <1> QED
    BY <1>2, <1>3

CalendarInv == call \in CalendarCalls \cup {None}

LEMMA CalendarInvariant == CalendarSpec => []CalendarInv
  <1>1. call = None => CalendarInv
    BY DEF CalendarInv
  <1>2. CalendarInv /\ [AskCalendar \/ Return]_call => CalendarInv'
    BY DEF CalendarInv, AskCalendar, CallOf, Return
  <1> QED
    BY <1>1, <1>2, PTL DEF CalendarSpec

LEMMA CalendarCallType ==
    ASSUME CalendarInv, Calling("calculateNextIdeaRunAt")
    PROVE  /\ call.zone \in Zones /\ call.hour \in 0..(Day - 1)
           /\ call.weekday = None \/ call.weekday \in 1..7
           /\ Period \in {Day, Week}
  BY CalendarAssumption DEF CalendarInv, Calling, CalendarCalls, Period

\* Whatever the zone, the schedule and the time, away from a change of the clock
\* the run announced is the next one the job makes.
THEOREM AnnouncedRunIsNext == CalendarSpec => []AnnouncedIsNextRun
  <1>1. ASSUME CalendarInv PROVE AnnouncedIsNextRun
    <2> SUFFICES ASSUME Calling("calculateNextIdeaRunAt"), NEW from \in Froms, NoChange(from)
                 PROVE  /\ Announced(from) > from /\ Fires(Announced(from))
                        /\ \A t \in (from + 1)..(Announced(from) - 1) : ~Fires(t)
      BY DEF AnnouncedIsNextRun
    <2> DEFINE z == call.zone
               hour == call.hour
               weekday == call.weekday
    <2>1. /\ z \in Zones /\ hour \in 0..(Day - 1) /\ (weekday = None \/ weekday \in 1..7)
          /\ Period \in {Day, Week} /\ from \in Int
      BY <1>1, CalendarCallType, CalendarAssumption
    <2>2. PICK o \in -Day..Day :
            /\ \A t \in from..(from + Period) : LocalTime(z, t) = t + o
            /\ \A c \in (from + o - Day)..(from + o + Period) :
                 FirstAhead(z, c, from, Period) = FirstLocal(c, from + o, Period) - o
      BY <2>1, SteadyClock DEF NoChange
    <2> DEFINE local == from + o
    <2>3. LocalTime(z, from) = local /\ local \in Int /\ o \in Int
      BY <2>1, <2>2 DEF Day, Week
    <2>4. \E first \in (local + 1)..(local + Period) :
            /\ Announced(from) = first - o
            /\ CronTime(weekday, hour, first)
            /\ \A t \in (local + 1)..(first - 1) : ~CronTime(weekday, hour, t)
      <3>1. CASE weekday = None
        <4> DEFINE candidate == AtTime(DayOf(local), hour)
                   first == FirstLocal(candidate, local, Day)
        <4>1. /\ first \in (local + 1)..(local + Day)
              /\ CronTime(None, hour, first)
              /\ \A t \in (local + 1)..(first - 1) : ~CronTime(None, hour, t)
          BY <2>1, <2>3, FirstOfTheDay
        <4>2. candidate \in (local - Day)..(local + Day)
          BY <2>1, <2>3 DEF AtTime, DayOf, Day
        <4> HIDE DEF candidate
        <4>5. Period = Day
          BY <3>1 DEF Period
        <4>3. FirstAhead(z, candidate, from, Day) = first - o
          BY <2>1, <2>2, <4>2, <4>5 DEF Day
        <4>4. Announced(from) = first - o
          BY <2>3, <3>1, <4>3 DEF Announced, NextRun, candidate
        <4> QED
          BY <3>1, <4>1, <4>4 DEF Period
      <3>2. CASE weekday # None
        <4> DEFINE candidate == Weekly(weekday, hour, local)
                   first == FirstLocal(candidate, local, Week)
        <4>1. /\ candidate \in (local - Day)..(local + Week)
              /\ first \in (local + 1)..(local + Week)
              /\ CronTime(weekday, hour, first)
              /\ \A t \in (local + 1)..(first - 1) : ~CronTime(weekday, hour, t)
          BY <2>1, <2>3, <3>2, FirstOfTheWeek
        <4> HIDE DEF candidate
        <4>5. Period = Week
          BY <3>2 DEF Period
        <4>2. FirstAhead(z, candidate, from, Week) = first - o
          BY <2>1, <2>2, <4>1, <4>5 DEF Day, Week
        <4>3. Announced(from) = first - o
          BY <2>3, <3>2, <4>2 DEF Announced, NextRun, Weekly, candidate
        <4> QED
          BY <3>2, <4>1, <4>3 DEF Period
      <3> QED
        BY <3>1, <3>2
    <2>5. PICK first \in (local + 1)..(local + Period) :
            /\ Announced(from) = first - o
            /\ CronTime(weekday, hour, first)
            /\ \A t \in (local + 1)..(first - 1) : ~CronTime(weekday, hour, t)
      BY <2>4
    <2>6. \A t \in (from + 1)..(from + Period) : Fires(t) <=> CronTime(weekday, hour, t + o)
      BY <2>1, <2>2 DEF Fires, CronFires, CronTime, Day, Week
    <2>7. Announced(from) \in (from + 1)..(from + Period) /\ Announced(from) + o = first
      BY <2>1, <2>3, <2>5 DEF Day, Week
    <2>8. ASSUME NEW t \in (from + 1)..(Announced(from) - 1) PROVE ~Fires(t)
      BY <2>1, <2>3, <2>5, <2>6, <2>7 DEF Day, Week
    <2> QED
      BY <2>1, <2>5, <2>6, <2>7, <2>8 DEF Day, Week
  <1> QED
    BY <1>1, CalendarInvariant, PTL

\* A candidate is less than a day past, and less than a period ahead, and a time
\* is looked up at one of the two offsets of its zone.
LEMMA NearCandidate ==
    ASSUME NEW z \in Zones, NEW from \in Int, NEW period \in {Day, Week},
           NEW c \in (LocalTime(z, from) - Day + 1)..(LocalTime(z, from) + period - 1)
    PROVE  LET shift == Max2(z.after - z.before, z.before - z.after)
           IN FirstAhead(z, c, from, period) \in (from + 1 - shift)..(from + period + shift)
  <1>1. z.before \in Int /\ z.after \in Int /\ z.change \in Int
    BY CalendarAssumption DEF Day
  <1> QED
    BY <1>1 DEF LocalTime, OffsetAt, FirstAhead, ZonedTimeToUtc, Max2, Day, Week

\* The local times of cron are a period apart.
LEMMA CronPeriod ==
    ASSUME NEW hour \in 0..(Day - 1), NEW c \in Int, NEW weekday \in (1..7) \cup {None},
           CronTime(weekday, hour, c), NEW period, period = IF weekday = None THEN Day ELSE Week,
           NEW t \in (c - period + 1)..(c + period - 1), t # c
    PROVE  ~CronTime(weekday, hour, t)
  <1> SUFFICES ASSUME CronTime(weekday, hour, t) PROVE FALSE
    OBVIOUS
  <1>1. period \in {Day, Week} /\ t \in Int
    BY DEF Day, Week
  <1>2. /\ DayOf(c) \in Int /\ c = AtTime(DayOf(c), hour)
        /\ DayOf(t) \in Int /\ t = AtTime(DayOf(t), hour)
    BY <1>1, DayAndHour DEF CronTime
  <1>3. CASE weekday = None
    BY <1>2, <1>3 DEF AtTime, Day
  <1>4. CASE weekday # None
    <2>1. DayOf(t) - DayOf(c) \in -6..6 /\ DayOf(t) # DayOf(c)
      BY <1>2, <1>4 DEF AtTime, Day, Week
    <2>2. UtcDay(DayOf(t)) = UtcDay(DayOf(c))
      BY <1>4 DEF CronTime
    <2> QED
      BY <1>2, <2>1, <2>2 DEF UtcDay
  <1> QED
    BY <1>3, <1>4

\* What is announced comes of a local time of cron, on this day or in this week.
LEMMA CandidateOfCron ==
    ASSUME CalendarInv, Calling("calculateNextIdeaRunAt"), NEW from \in Int
    PROVE  LET local == LocalTime(call.zone, from)
           IN \E c \in (local - Day + 1)..(local + Period - 1) :
                /\ Announced(from) = FirstAhead(call.zone, c, from, Period)
                /\ CronTime(call.weekday, call.hour, c)
                /\ CronTime(call.weekday, call.hour, c + Period)
  <1> DEFINE z == call.zone
             hour == call.hour
             weekday == call.weekday
             local == LocalTime(z, from)
  <1>1. /\ z \in Zones /\ hour \in 0..(Day - 1) /\ (weekday = None \/ weekday \in 1..7)
    BY CalendarCallType
  <1>2. local \in Int
    BY <1>1, CalendarAssumption DEF LocalTime, OffsetAt, Day
  <1>3. DayOf(local) \in Int
    BY <1>2, DayAndHour
  <1>4. CASE weekday = None
    <2> DEFINE c == AtTime(DayOf(local), hour)
    <2>1. c \in (local - Day + 1)..(local + Day - 1)
      BY <1>1, <1>2 DEF AtTime, DayOf, Day
    <2>4. DayOf(local) + 1 \in Int /\ c + Day = AtTime(DayOf(local) + 1, hour)
      BY <1>1, <1>3 DEF AtTime, Day
    <2>2. c % Day = hour /\ (c + Day) % Day = hour
      BY <1>1, <1>3, <2>4, DayAndHourUnique
    <2>3. Announced(from) = FirstAhead(z, c, from, Day) /\ Period = Day
      BY <1>4 DEF Announced, NextRun, Period
    <2> QED
      BY <1>4, <2>1, <2>2, <2>3 DEF CronTime
  <1>5. CASE weekday # None
    <2> DEFINE day == DayOf(local) + DaysUntil(weekday, DayOf(local))
               c == AtTime(day, hour)
    <2>1. /\ DaysUntil(weekday, DayOf(local)) \in 0..6
          /\ UtcDay(day) = CronWeekday(weekday) /\ UtcDay(day + 7) = CronWeekday(weekday)
      BY <1>1, <1>3, <1>5, WeekdayAfter
    <2>2. c \in (local - Day + 1)..(local + Week - 1)
      BY <1>1, <1>2, <2>1 DEF AtTime, DayOf, Day, Week
    <2>3. day \in Int /\ c + Week = AtTime(day + 7, hour)
      BY <1>1, <1>3, <2>1 DEF AtTime, Day, Week
    <2>4. CronTime(weekday, hour, c) /\ CronTime(weekday, hour, c + Week)
      BY <1>1, <2>1, <2>3, DayAndHourUnique DEF CronTime
    <2>5. Announced(from) = FirstAhead(z, c, from, Week) /\ Period = Week
      BY <1>5 DEF Announced, NextRun, Period
    <2> QED
      BY <2>2, <2>4, <2>5
  <1> QED
    BY <1>4, <1>5

\* A local time between now and the run announced, further than the shift from
\* both, is less than a period from the candidate, and is not it.
LEMMA BetweenCandidates ==
    ASSUME NEW z \in Zones, NEW from \in Int, NEW period \in {Day, Week},
           NEW c \in (LocalTime(z, from) - Day + 1)..(LocalTime(z, from) + period - 1),
           NEW shift, shift = Max2(z.after - z.before, z.before - z.after),
           NEW t \in (from + 1 + shift)..(FirstAhead(z, c, from, period) - shift - 1)
    PROVE  LET local == LocalTime(z, t)
           IN /\ local \in (c - period + 1)..(c + period - 1) /\ local # c
  <1>1. z.before \in Int /\ z.after \in Int /\ z.change \in Int
    BY CalendarAssumption DEF Day
  <1> QED
    BY <1>1 DEF LocalTime, OffsetAt, FirstAhead, ZonedTimeToUtc, Max2, Day, Week

\* A local time that the clock shows is shown within the shift of the instant it is
\* taken for.
LEMMA ShownLocalTime ==
    ASSUME NEW z \in Zones, NEW local \in Int,
           NEW shift, shift = Max2(z.after - z.before, z.before - z.after)
    PROVE  LET run == ZonedTimeToUtc(z, local)
           IN \/ z.after > z.before /\ run \in (z.change - shift)..(z.change + shift - 1)
              \/ \E t \in (run - shift)..(run + shift) : LocalTime(z, t) = local
  <1>1. z.before \in Int /\ z.after \in Int /\ z.change \in Int
    BY CalendarAssumption DEF Day
  <1> DEFINE run == ZonedTimeToUtc(z, local)
  <1>2. run \in {local - z.before, local - z.after} /\ run \in Int
    BY <1>1 DEF ZonedTimeToUtc, OffsetAt
  <1>3. CASE local - z.before < z.change
    <2>1. LocalTime(z, local - z.before) = local
      BY <1>1, <1>3 DEF LocalTime, OffsetAt
    <2>2. local - z.before \in (run - shift)..(run + shift)
      BY <1>1, <1>2 DEF Max2
    <2> QED
      BY <2>1, <2>2
  <1>4. CASE ~(local - z.after < z.change)
    <2>1. LocalTime(z, local - z.after) = local
      BY <1>1, <1>4 DEF LocalTime, OffsetAt
    <2>2. local - z.after \in (run - shift)..(run + shift)
      BY <1>1, <1>2 DEF Max2
    <2> QED
      BY <2>1, <2>2
  <1>5. CASE ~(local - z.before < z.change) /\ local - z.after < z.change
    <2>1. z.after > z.before /\ run \in (z.change - shift)..(z.change + shift - 1)
      BY <1>1, <1>2, <1>5 DEF Max2
    <2> QED
      BY <2>1
  <1> QED
    BY <1>3, <1>4, <1>5

\* At any time, the run announced and the run made are no further apart than the
\* change of the clock.
THEOREM AnnouncedRunIsNear == CalendarSpec => []AnnouncedIsNear
  <1>1. ASSUME CalendarInv PROVE AnnouncedIsNear
    <2> SUFFICES ASSUME Calling("calculateNextIdeaRunAt"), NEW from \in Froms
                 PROVE  LET run == Announced(from)
                        IN /\ run \in (from + 1 - Shift)..(from + Period + Shift)
                           /\ \A t \in (from + 1 + Shift)..(run - Shift - 1) : ~Fires(t)
                           /\ \/ HourMaySkip(run)
                              \/ \E t \in (run - Shift)..(run + Shift) : Fires(t)
      BY DEF AnnouncedIsNear
    <2> DEFINE z == call.zone
               hour == call.hour
               weekday == call.weekday
               run == Announced(from)
    <2>1. /\ z \in Zones /\ hour \in 0..(Day - 1) /\ weekday \in (1..7) \cup {None}
          /\ Period \in {Day, Week} /\ from \in Int
          /\ z.before \in Int /\ z.after \in Int /\ z.change \in Int
      BY <1>1, CalendarCallType, CalendarAssumption DEF Day
    <2>2. Shift = Max2(z.after - z.before, z.before - z.after) /\ Shift \in Nat
      BY <2>1 DEF Shift, Max2
    <2>3. PICK c \in (LocalTime(z, from) - Day + 1)..(LocalTime(z, from) + Period - 1) :
            /\ run = FirstAhead(z, c, from, Period)
            /\ CronTime(weekday, hour, c) /\ CronTime(weekday, hour, c + Period)
      BY <1>1, <2>1, CandidateOfCron
    <2>4. LocalTime(z, from) \in Int /\ c \in Int /\ c + Period \in Int
      BY <2>1 DEF LocalTime, OffsetAt, Day, Week
    <2>5. \A t \in Int : Fires(t) <=> CronTime(weekday, hour, LocalTime(z, t))
      BY DEF Fires, CronFires, CronTime
    <2>6. run \in (from + 1 - Shift)..(from + Period + Shift)
      BY <2>1, <2>2, <2>3, NearCandidate
    <2>7. ASSUME NEW t \in (from + 1 + Shift)..(run - Shift - 1) PROVE ~Fires(t)
      <3>1. /\ LocalTime(z, t) \in (c - Period + 1)..(c + Period - 1)
            /\ LocalTime(z, t) # c
        BY <2>1, <2>2, <2>3, <2>7, BetweenCandidates
      <3>2. Period = IF weekday = None THEN Day ELSE Week
        BY DEF Period
      <3>3. ~CronTime(weekday, hour, LocalTime(z, t))
        BY <2>1, <2>3, <2>4, <3>1, <3>2, CronPeriod
      <3>4. t \in Int
        BY <2>1, <2>2, <2>6, <2>7
      <3> QED
        BY <2>5, <3>3, <3>4
    <2>8. HourMaySkip(run) \/ \E t \in (run - Shift)..(run + Shift) : Fires(t)
      <3>1. PICK local \in {c, c + Period} : run = ZonedTimeToUtc(z, local)
        BY <2>3 DEF FirstAhead
      <3>2. local \in Int /\ CronTime(weekday, hour, local)
        BY <2>3, <2>4, <3>1
      <3>3. \/ z.after > z.before /\ run \in (z.change - Shift)..(z.change + Shift - 1)
            \/ \E t \in (run - Shift)..(run + Shift) : LocalTime(z, t) = local
        BY <2>1, <2>2, <3>1, <3>2, ShownLocalTime
      <3>4. run \in Int
        BY <2>1, <2>2, <2>6
      <3>5. CASE z.after > z.before /\ run \in (z.change - Shift)..(z.change + Shift - 1)
        BY <3>5 DEF HourMaySkip
      <3>6. ASSUME NEW t \in (run - Shift)..(run + Shift), LocalTime(z, t) = local
            PROVE  Fires(t)
        BY <2>2, <2>5, <3>2, <3>4, <3>6
      <3> QED
        BY <3>3, <3>5, <3>6
    <2> QED
      BY <2>6, <2>7, <2>8
  <1> QED
    BY <1>1, CalendarInvariant, PTL

-----------------------------------------------------------------------------
(* The score.                                                                *)

ScoreInv == call \in ScoreCalls \cup {None}

LEMMA ScoreInvariant == ScoreSpec => []ScoreInv
  <1>1. call = None => ScoreInv
    BY DEF ScoreInv
  <1>2. ScoreInv /\ [AskScore \/ Return]_call => ScoreInv'
    BY DEF ScoreInv, AskScore, CallOf, Return
  <1> QED
    BY <1>1, <1>2, PTL DEF ScoreSpec

LEMMA ScoreIsInteger ==
    ASSUME NEW corpus \in Corpora, NEW i \in DOMAIN corpus
    PROVE  Score(corpus[i]) \in Int
  <1> DEFINE Item == [shared : 0..IdeaWords, words : Nat]
  <1>1. corpus[i] \in Item /\ IdeaWords \in Nat
    <2> HIDE DEF Item
    <2>1. corpus \in Seq(Item) /\ IdeaWords \in Nat
      BY ScoreAssumption DEF Item
    <2> QED
      BY <2>1
  <1>2. CASE IdeaWords = 0 \/ corpus[i].words = 0
    BY <1>2 DEF Score
  <1>3. CASE IdeaWords # 0 /\ corpus[i].words # 0
    <2> DEFINE all == IdeaWords + corpus[i].words - corpus[i].shared
    <2>1. 2 * all \in Int /\ 2 * all > 0 /\ 200 * corpus[i].shared + all \in Int
      BY <1>1, <1>3
    <2> HIDE DEF all
    <2>2. RoundScore(corpus[i].shared, all) \in Int
      BY <2>1 DEF RoundScore
    <2> QED
      BY <1>3, <2>2 DEF Score, all
  <1> QED
    BY <1>2, <1>3

LEMMA NearIsFinite ==
    ASSUME NEW corpus \in Corpora
    PROVE  /\ DOMAIN corpus \subseteq Int /\ Near(corpus) \subseteq DOMAIN corpus
           /\ IsFiniteSet(DOMAIN corpus)
           /\ \A S \in SUBSET DOMAIN corpus : IsFiniteSet(S) /\ Cardinality(S) \in Nat
  <1>1. DOMAIN corpus = 1..Len(corpus) /\ Len(corpus) \in Nat
    BY ScoreAssumption
  <1>2. IsFiniteSet(DOMAIN corpus)
    BY <1>1, FS_Interval
  <1> QED
    BY <1>1, <1>2, FS_Subset, FS_CardinalityType DEF Near

\* Of two near items, one comes before the other: its rank is the lower one.
LEMMA RankOrders ==
    ASSUME NEW corpus \in Corpora, NEW i \in Near(corpus), NEW j \in Near(corpus),
           Before(corpus, i, j)
    PROVE  Rank(corpus, i) < Rank(corpus, j)
  <1>1. NotAfter(corpus, i) \subseteq NotAfter(corpus, j)
    BY NearIsFinite, ScoreIsInteger DEF NotAfter, Before
  <1>2. j \in NotAfter(corpus, j) /\ j \notin NotAfter(corpus, i)
    BY NearIsFinite, ScoreIsInteger DEF NotAfter, Before
  <1>3. /\ IsFiniteSet(NotAfter(corpus, j)) /\ Cardinality(NotAfter(corpus, j)) \in Nat
        /\ Cardinality(NotAfter(corpus, i)) \in Nat
    BY NearIsFinite DEF NotAfter
  <1> QED
    BY <1>1, <1>2, <1>3, FS_Subset DEF Rank

\* Every rank up to the number of near items is that of one of them.
LEMMA RankIsTaken ==
    ASSUME NEW corpus \in Corpora, NEW k \in 1..Cardinality(Near(corpus))
    PROVE  \E i \in Near(corpus) : Rank(corpus, i) = k
  <1> DEFINE N == Near(corpus)
             n == Cardinality(N)
  <1>1. IsFiniteSet(N) /\ n \in Nat /\ N \subseteq Int
    BY NearIsFinite
  <1>2. \A i \in N : Rank(corpus, i) \in 1..n
    <2> TAKE i \in N
    <2>1. NotAfter(corpus, i) \subseteq N /\ i \in NotAfter(corpus, i)
      BY DEF NotAfter
    <2>2. Rank(corpus, i) \in Nat /\ Rank(corpus, i) <= n
      BY <1>1, <2>1, FS_Subset, FS_CardinalityType DEF Rank
    <2>3. Rank(corpus, i) # 0
      BY <1>1, <2>1, FS_Subset, FS_EmptySet DEF Rank
    <2> QED
      BY <2>2, <2>3
  <1>3. SUFFICES ASSUME \A i \in N : Rank(corpus, i) # k PROVE FALSE
    OBVIOUS
  <1> DEFINE T == (1..n) \ {k}
             rank == [i \in N |-> Rank(corpus, i)]
  <1>4. IsFiniteSet(T) /\ Cardinality(T) < n
    <2>1. k \in 1..n
      OBVIOUS
    <2> HIDE DEF n
    <2>2. IsFiniteSet(1..n) /\ Cardinality(1..n) = n
      BY <1>1, <2>1, FS_Interval
    <2>3. IsFiniteSet((1..n) \ {k}) /\ Cardinality((1..n) \ {k}) = n - 1
      BY <2>1, <2>2, FS_RemoveElement
    <2> QED
      BY <1>1, <2>3
  <1>5. rank \in [N -> T] /\ \A i \in N : rank[i] = Rank(corpus, i)
    BY <1>2, <1>3
  <1> HIDE DEF N, T, rank
  <1>6. PICK i, j \in N : i # j /\ rank[i] = rank[j]
    <2>1. IsFiniteSet(N) /\ IsFiniteSet(T) /\ Cardinality(T) < Cardinality(N) /\ rank \in [N -> T]
      BY <1>1, <1>4, <1>5
    <2> QED
      BY <2>1, FS_PigeonHole, Zenon
  <1>7. Before(corpus, i, j) \/ Before(corpus, j, i)
    BY <1>1, <1>6, NearIsFinite, ScoreIsInteger DEF Before, N
  <1>8. Rank(corpus, i) = Rank(corpus, j) /\ Rank(corpus, i) \in Int
    BY <1>2, <1>5, <1>6
  <1> QED
    BY <1>6, <1>7, <1>8, RankOrders DEF N

\* The items at least as near as a score take the first ranks.
AtLeast(corpus, s) == {i \in Near(corpus) : Score(corpus[i]) >= s}

LEMMA NearestFirst ==
    ASSUME NEW corpus \in Corpora, NEW s \in Int, NEW i \in Near(corpus)
    PROVE  Score(corpus[i]) >= s <=> Rank(corpus, i) <= Cardinality(AtLeast(corpus, s))
  <1> DEFINE A == AtLeast(corpus, s)
  <1>1. /\ IsFiniteSet(A) /\ Cardinality(A) \in Nat
        /\ IsFiniteSet(NotAfter(corpus, i)) /\ Rank(corpus, i) \in Nat
    BY NearIsFinite DEF AtLeast, NotAfter, Rank
  <1>2. CASE Score(corpus[i]) >= s
    <2>1. NotAfter(corpus, i) \subseteq A
      BY <1>2, NearIsFinite, ScoreIsInteger DEF NotAfter, Before, AtLeast
    <2> QED
      BY <1>1, <1>2, <2>1, FS_Subset DEF Rank
  <1>3. CASE ~(Score(corpus[i]) >= s)
    <2>1. A \subseteq NotAfter(corpus, i) /\ i \in NotAfter(corpus, i) /\ i \notin A
      BY <1>3, NearIsFinite, ScoreIsInteger DEF NotAfter, Before, AtLeast
    <2> QED
      BY <1>1, <1>3, <2>1, FS_Subset DEF Rank
  <1> QED
    BY <1>2, <1>3

\* An item is shown at each place up to the third, the near ones by their ranks.
LEMMA ShownByRank ==
    ASSUME NEW corpus \in Corpora
    PROVE  LET shown == SimilarItems(corpus)
               last == Min2(Kept, Cardinality(Near(corpus)))
           IN /\ last \in Nat /\ DOMAIN shown = 1..last
              /\ \A k \in 1..last : \E i \in Near(corpus) :
                    Rank(corpus, i) = k /\ shown[k] = Score(corpus[i])
  <1> DEFINE At(k) == CHOOSE i \in Near(corpus) : Rank(corpus, i) = k
             last == Min2(Kept, Cardinality(Near(corpus)))
  <1>1. Cardinality(Near(corpus)) \in Nat
    BY NearIsFinite
  <1>2. last \in Nat /\ last <= Cardinality(Near(corpus))
    BY <1>1 DEF Min2, Kept
  <1>3. SimilarItems(corpus) = [k \in 1..last |-> Score(corpus[At(k)])]
    BY DEF SimilarItems
  <1>4. ASSUME NEW k \in 1..last PROVE At(k) \in Near(corpus) /\ Rank(corpus, At(k)) = k
    BY <1>1, <1>2, RankIsTaken
  <1> HIDE DEF At, last
  <1>5. DOMAIN SimilarItems(corpus) = 1..last
    BY <1>3
  <1>6. \A k \in 1..last : SimilarItems(corpus)[k] = Score(corpus[At(k)])
    BY <1>3
  <1> QED
    BY <1>2, <1>4, <1>5, <1>6 DEF last

\* However long and in whatever order the corpus, the nearest items of all of it
\* are shown and the nearest one decides.
THEOREM NearestItemDecides == ScoreSpec => []NearestDecides
  <1>1. ASSUME ScoreInv PROVE NearestDecides
    <2> SUFFICES ASSUME Calling("scoreDuplicates") PROVE NearestDecides
      BY DEF NearestDecides
    <2> DEFINE corpus == call.corpus
               scores == {Score(corpus[i]) : i \in DOMAIN corpus}
               shown == SimilarItems(corpus)
               Count(s, f) == Cardinality({i \in DOMAIN f : f[i] >= s})
               all == [i \in DOMAIN corpus |-> Score(corpus[i])]
               n == Cardinality(Near(corpus))
    <2>1. corpus \in Corpora
      BY <1>1 DEF ScoreInv, Calling, ScoreCalls
    <2> HIDE DEF corpus
    <2>2. n \in Nat /\ scores \subseteq Int /\ IsFiniteSet(Near(corpus))
      BY <2>1, NearIsFinite, ScoreIsInteger
    <2>3. ASSUME NEW s \in scores, s >= Similar
          PROVE  Count(s, shown) = Min2(Kept, Count(s, all))
      <3> DEFINE a == Cardinality(AtLeast(corpus, s))
      <3>1. {i \in DOMAIN all : all[i] >= s} = AtLeast(corpus, s)
        BY <2>1, <2>2, <2>3, ScoreIsInteger DEF AtLeast, Near, Similar
      <3>2. a \in Nat /\ a <= n
        BY <2>1, <2>2, NearIsFinite, FS_Subset DEF AtLeast
      <3>3. {k \in DOMAIN shown : shown[k] >= s} = 1..Min2(Kept, a)
        <4>1. DOMAIN shown = 1..Min2(Kept, n)
          BY <2>1, ShownByRank
        <4>2. \A k \in DOMAIN shown : shown[k] >= s <=> k <= a
          BY <2>1, <2>2, <4>1, ShownByRank, NearestFirst
        <4> HIDE DEF shown, a, n
        <4> QED
          BY <2>2, <3>2, <4>1, <4>2 DEF Min2, Kept
      <3>4. Count(s, all) = a /\ Count(s, shown) = Cardinality(1..Min2(Kept, a))
        BY <3>1, <3>3
      <3> HIDE DEF a
      <3>5. Min2(Kept, a) \in Nat
        BY <3>2 DEF Min2, Kept
      <3> QED
        BY <3>4, <3>5, FS_Interval
    <2>4. Status(BestScore(shown)) =
            CASE \E s \in scores : s >= Duplicate -> "DUPLICATE"
              [] \A s \in scores : s < Possible -> "UNIQUE"
              [] OTHER -> "POSSIBLE_DUPLICATE"
      <3>1. CASE Near(corpus) = {}
        <4>1. \A s \in scores : s < Similar
          BY <2>1, <3>1, ScoreIsInteger DEF Near, Similar
        <4>2. shown = <<>>
          <5>1. DOMAIN shown = 1..0
            BY <2>1, <3>1, FS_EmptySet, ShownByRank DEF Min2, Kept
          <5> QED
            BY <5>1, FS_EmptySet, <3>1 DEF SimilarItems, Min2, Kept
        <4>3. BestScore(shown) = 0
          BY <4>2 DEF BestScore
        <4> HIDE DEF shown, scores
        <4> QED
          BY <2>2, <4>1, <4>3 DEF Status, Similar, Possible, Duplicate
      <3>2. CASE Near(corpus) # {}
        <4>1. 1 \in 1..Min2(Kept, n)
          BY <2>2, <3>2, FS_EmptySet DEF Min2, Kept
        <4>2. PICK i \in Near(corpus) : Rank(corpus, i) = 1 /\ shown[1] = Score(corpus[i])
          BY <2>1, <4>1, ShownByRank
        <4>3. shown[1] \in scores /\ shown[1] >= Similar /\ shown # <<>>
          <5>1. DOMAIN shown # {}
            BY <2>1, <4>1, ShownByRank
          <5> QED
            BY <4>2, <5>1 DEF Near
        <4> HIDE DEF shown, scores
        <4>4. ASSUME NEW s \in scores PROVE s <= shown[1]
          <5>3. s \in Int /\ shown[1] \in Int
            BY <2>2, <4>3
          <5>1. CASE s < Similar
            BY <4>3, <5>1, <5>3 DEF Similar
          <5>2. CASE s >= Similar
            <6>1. PICK j \in AtLeast(corpus, s) : TRUE
              BY <2>2, <5>2 DEF AtLeast, Near, scores
            <6>2. Cardinality(AtLeast(corpus, s)) \in Nat /\ Cardinality(AtLeast(corpus, s)) # 0
              BY <2>1, <6>1, NearIsFinite, FS_EmptySet DEF AtLeast
            <6> QED
              BY <2>1, <2>2, <4>2, <4>3, <6>2, NearestFirst
          <5> QED
            BY <2>2, <5>1, <5>2 DEF Similar
        <4>5. BestScore(shown) = shown[1]
          BY <4>3 DEF BestScore
        <4> QED
          BY <2>2, <4>3, <4>4, <4>5 DEF Status, Similar, Possible, Duplicate
      <3> QED
        BY <3>1, <3>2
    <2> QED
      BY <2>3, <2>4 DEF NearestDecides, corpus
  <1> QED
    BY <1>1, ScoreInvariant, PTL

-----------------------------------------------------------------------------
(* The mapping.                                                              *)

\* What the texts of no piece, one and two are.
LEMMA FlattenNone == FlattenSeq(<<>>) = <<>>
  BY DEF FlattenSeq

LEMMA FlattenOne ==
    ASSUME NEW text
    PROVE  FlattenSeq(<<text>>) = text
  <1> DEFINE F(f) == [i \in 1..Len(<<text>>) |->
                        IF i = 1 THEN <<text>>[i] ELSE f[i - 1] \o <<text>>[i]]
  <1>1. F([i \in 1..1 |-> text]) = [i \in 1..1 |-> text]
    OBVIOUS
  <1>2. (CHOOSE f : f = F(f)) = F(CHOOSE f : f = F(f))
    <2> HIDE DEF F
    <2> QED
      BY <1>1
  <1>3. F(CHOOSE f : f = F(f))[1] = text
    <2> DEFINE g == CHOOSE f : f = F(f)
    <2> HIDE DEF g
    <2>1. F(g)[1] = text
      OBVIOUS
    <2> QED
      BY <2>1 DEF g
  <1> QED
    BY <1>2, <1>3 DEF FlattenSeq

LEMMA FlattenTwo ==
    ASSUME NEW first, NEW second
    PROVE  FlattenSeq(<<first, second>>) = first \o second
  <1> DEFINE s == <<first, second>>
             F(f) == [i \in 1..Len(s) |-> IF i = 1 THEN s[i] ELSE f[i - 1] \o s[i]]
             h == [i \in 1..2 |-> IF i = 1 THEN first ELSE first \o second]
  <1>1. F(h) = h
    OBVIOUS
  <1>2. (CHOOSE f : f = F(f)) = F(CHOOSE f : f = F(f))
    <2> HIDE DEF F
    <2> QED
      BY <1>1
  <1>3. F(CHOOSE f : f = F(f))[2] = first \o second
    <2> DEFINE g == CHOOSE f : f = F(f)
    <2>2. g = F(g)
      BY <1>2
    <2> HIDE DEF g
    <2>1. F(g)[2] = g[1] \o second /\ F(g)[1] = first
      OBVIOUS
    <2> QED
      BY <2>1, <2>2 DEF g
  <1>4. Len(s) = 2
    OBVIOUS
  <1>5. FlattenSeq(s) = (CHOOSE f : f = F(f))[Len(s)]
    <2> HIDE DEF s
    <2> QED
      BY <1>4 DEF FlattenSeq
  <1> HIDE DEF F
  <1> QED
    BY <1>2, <1>3, <1>4, <1>5

MappingInv == call \in MappingCalls \cup {None}

LEMMA MappingInvariant == MappingSpec => []MappingInv
  <1>1. call = None => MappingInv
    BY DEF MappingInv
  <1>2. MappingInv /\ [AskMapping \/ Return]_call => MappingInv'
    BY DEF MappingInv, AskMapping, CallOf, Return
  <1> QED
    BY <1>1, <1>2, PTL DEF MappingSpec

LEMMA TextsRead ==
    ASSUME NEW text \in Texts
    PROVE  /\ ReadPlainText(BuildTitle(text)) = text
           /\ ReadRichText(BuildRichText(text)) = OrNull(text)
  BY FlattenNone, FlattenOne DEF ReadPlainText, BuildTitle, ReadRichText, BuildRichText, OrNull

LEMMA StatusRead ==
    ASSUME NEW label \in Labels, NEW status \in CurationStatus,
           LowerCase[label] = LowerCase[StatusLabel[status]]
    PROVE  NotionStatusToCuration(label) = status
  BY MappingAssumption DEF NotionStatusToCuration

\* A row of the curation or its page, and what replacing columns of it gives.
Columns(title, sourceUrl, topics, status, notes) ==
    [title |-> title, sourceUrl |-> sourceUrl, topics |-> topics, status |-> status,
     notes |-> notes]

WithTopicsAndNotes(row, topics, notes) == [row EXCEPT !.topics = topics, !.notes = notes]
WithTexts(row, title, notes, status) ==
    [row EXCEPT !.title = title, !.notes = notes, !.status = status]
WithStatus(row, status) == [row EXCEPT !.status = status]

LEMMA Replace ==
    ASSUME NEW row, NEW t, NEW u, NEW c, NEW s, NEW n, row = Columns(t, u, c, s, n),
           NEW t2, NEW c2, NEW s2, NEW n2
    PROVE  /\ WithTopicsAndNotes(row, c2, n2) = Columns(t, u, c2, s, n2)
           /\ WithTexts(row, t2, n2, s2) = Columns(t2, u, c, s2, n2)
           /\ WithStatus(row, s2) = Columns(t, u, c, s2, n)
  <1>1. [row EXCEPT !.topics = c2, !.notes = n2] = Columns(t, u, c2, s, n2)
    <2> DEFINE r == [row EXCEPT !.topics = c2]
    <2>1. r = Columns(t, u, c2, s, n)
      BY DEF Columns
    <2>2. [r EXCEPT !.notes = n2] = Columns(t, u, c2, s, n2)
      <3> HIDE DEF r
      <3> QED
        BY <2>1 DEF Columns
    <2> QED
      BY <2>2
  <1>2. [row EXCEPT !.title = t2, !.notes = n2, !.status = s2] = Columns(t2, u, c, s2, n2)
    <2> DEFINE r1 == [row EXCEPT !.title = t2]
               r2 == [r1 EXCEPT !.notes = n2]
    <2>1. r1 = Columns(t2, u, c, s, n)
      BY DEF Columns
    <2>2. r2 = Columns(t2, u, c, s, n2)
      <3> HIDE DEF r1
      <3> QED
        BY <2>1 DEF Columns
    <2>3. [r2 EXCEPT !.status = s2] = Columns(t2, u, c, s2, n2)
      <3> HIDE DEF r2
      <3> QED
        BY <2>2 DEF Columns
    <2> QED
      BY <2>3
  <1>3. [row EXCEPT !.status = s2] = Columns(t, u, c, s2, n)
    BY DEF Columns
  <1> QED
    BY <1>1, <1>2, <1>3 DEF WithTopicsAndNotes, WithTexts, WithStatus

\* Whatever the texts, the topics and the dates, a pull gives back the row a push wrote.
THEOREM PullGivesBackRow == MappingSpec => []PullGivesPushedRow
  <1>1. ASSUME MappingInv PROVE PullGivesPushedRow
    <2>1. ASSUME Calling("curation")
          PROVE  CurationFromPage(CurationToPage(call.row)) =
                   [call.row EXCEPT !.topics = OrNull(@), !.notes = OrNull(@)]
      <3> DEFINE row == call.row
                 page == CurationToPage(row)
      <3>1. row \in CurationRow
        BY <1>1, <2>1 DEF MappingInv, MappingCalls, Calling
      <3> HIDE DEF row
      <3>2. ReadPlainText(page.title) = row.title /\ page.sourceUrl = row.sourceUrl
        BY <3>1, TextsRead DEF CurationToPage, CurationRow
      <3>3. (IF page.topics = <<>> THEN None ELSE page.topics) = OrNull(row.topics)
        BY DEF CurationToPage, BuildMultiSelect, OrNull
      <3>4. NotionStatusToCuration(page.status) = row.status
        <4>1. row.status \in CurationStatus /\ StatusLabel[row.status] \in Labels
          BY <3>1, MappingAssumption DEF CurationRow
        <4>2. page.status = StatusLabel[row.status]
          BY DEF CurationToPage
        <4> QED
          BY <4>1, <4>2, StatusRead
      <3>5. ReadRichText(page.notes) = OrNull(row.notes)
        <4>1. CASE row.notes = None
          BY <4>1, FlattenNone DEF CurationToPage, ReadPlainText, ReadRichText, BuildRichText, OrNull
        <4>2. CASE row.notes \in Texts
          BY <4>2, TextsRead DEF CurationToPage
        <4> QED
          BY <3>1, <4>1, <4>2 DEF CurationRow
      <3> HIDE DEF page
      <3>6. CurationFromPage(page) = [row EXCEPT !.topics = OrNull(@), !.notes = OrNull(@)]
        <4>1. [row EXCEPT !.topics = OrNull(@), !.notes = OrNull(@)] =
                [title |-> row.title, sourceUrl |-> row.sourceUrl, topics |-> OrNull(row.topics),
                 status |-> row.status, notes |-> OrNull(row.notes)]
          <5>1. row = Columns(row.title, row.sourceUrl, row.topics, row.status, row.notes)
            BY <3>1 DEF CurationRow, Columns
          <5>2. WithTopicsAndNotes(row, OrNull(row.topics), OrNull(row.notes)) =
                  Columns(row.title, row.sourceUrl, OrNull(row.topics), row.status,
                          OrNull(row.notes))
            BY <5>1, Replace
          <5> QED
            BY <5>2 DEF Columns, WithTopicsAndNotes
        <4> QED
          BY <3>2, <3>3, <3>4, <3>5, <4>1 DEF CurationFromPage
      <3> QED
        BY <3>6 DEF page, row
    <2>2. ASSUME Calling("content")
          PROVE  ContentFromPage(ContentToPage(call.row)) = [call.row EXCEPT !.channel = OrNull(@)]
      <3>1. call.row \in ContentRow
        BY <1>1, <2>2 DEF MappingInv, MappingCalls, Calling
      <3>2. ReadPlainText(BuildTitle(call.row.title)) = call.row.title
        BY <3>1, TextsRead DEF ContentRow
      <3> QED
        BY <3>1, <3>2 DEF ContentFromPage, ContentToPage, ContentRow, BuildSelect, OrNull
    <2> QED
      BY <2>1, <2>2 DEF PullGivesPushedRow
  <1> QED
    BY <1>1, MappingInvariant, PTL

\* The pieces of a text read as the text.
LEMMA PiecesRead ==
    ASSUME NEW text \in Texts, NEW cut \in {1, 2}
    PROVE  FlattenSeq(Pieces(text, cut)) = text
  <1>1. CASE text = <<>>
    BY <1>1, FlattenNone DEF Pieces, BuildRichText
  <1>2. CASE text # <<>> /\ cut = 1
    BY <1>2, MappingAssumption, FlattenOne DEF Pieces, BuildRichText
  <1>3. CASE text # <<>> /\ cut # 1
    <2>1. text \in Seq(Words) /\ text # None
      BY MappingAssumption
    <2>2. SubSeq(text, 1, 1) \o Tail(text) = text
      BY <1>3, <2>1
    <2> QED
      BY <1>3, <2>1, <2>2, FlattenTwo DEF Pieces
  <1> QED
    BY <1>1, <1>2, <1>3

\* However Notion cuts the texts of a page, a push of the row a pull read of it
\* leaves the page as it reads.
THEOREM PushKeepsPage == MappingSpec => []PushKeepsPulledPage
  <1>1. ASSUME MappingInv PROVE PushKeepsPulledPage
    <2> SUFFICES ASSUME Calling("page") PROVE PushKeepsPulledPage
      BY DEF PushKeepsPulledPage
    <2> DEFINE page == NotionPage
               pushed == CurationToPage(CurationFromPage(page))
               row == call.row
               label == call.label
    <2>1. row \in CurationRow /\ label \in Labels \cup {None} /\ call.cut \in {1, 2}
      BY <1>1 DEF MappingInv, MappingCalls, Calling
    <2> HIDE DEF row, label
    <2>2. page = [title |-> Pieces(row.title, call.cut), sourceUrl |-> row.sourceUrl,
                  topics |-> BuildMultiSelect(row.topics), status |-> label,
                  notes |-> Pieces(row.notes, call.cut)]
      <3> DEFINE sent == CurationToPage(row)
      <3>1. sent = Columns(BuildTitle(row.title), row.sourceUrl, BuildMultiSelect(row.topics),
                           StatusLabel[row.status], BuildRichText(row.notes))
        BY DEF CurationToPage, Columns
      <3> HIDE DEF sent
      <3>2. page = [sent EXCEPT !.title = Pieces(row.title, call.cut),
                                !.notes = Pieces(row.notes, call.cut), !.status = label]
        BY DEF NotionPage, sent, row, label
      <3> QED
        BY <3>1, <3>2, Replace DEF Columns
    <2> HIDE DEF page
    <2>3. pushed = [title |-> BuildTitle(ReadPlainText(page.title)), sourceUrl |-> page.sourceUrl,
                    topics |-> BuildMultiSelect(IF page.topics = <<>> THEN None ELSE page.topics),
                    status |-> StatusLabel[NotionStatusToCuration(label)],
                    notes |-> BuildRichText(ReadRichText(page.notes))]
      BY <2>2 DEF CurationToPage, CurationFromPage
    <2> HIDE DEF pushed
    <2>4. FlattenSeq(pushed.title) = FlattenSeq(page.title)
      BY <2>3, FlattenOne DEF BuildTitle, ReadPlainText
    <2>5. FlattenSeq(pushed.notes) = FlattenSeq(page.notes)
      <3>1. FlattenSeq(page.notes) \in Texts
        <4>1. CASE row.notes = None
          BY <2>2, <4>1, FlattenNone, MappingAssumption DEF Pieces, BuildRichText
        <4>2. CASE row.notes \in Texts
          BY <2>1, <2>2, <4>2, PiecesRead
        <4> QED
          BY <2>1, <4>1, <4>2 DEF CurationRow
      <3> QED
        BY <2>3, <3>1, FlattenNone, FlattenOne, MappingAssumption
        DEF BuildRichText, ReadRichText, ReadPlainText
    <2>6. pushed.topics = page.topics
      BY <2>2, <2>3 DEF BuildMultiSelect
    <2>7. LowerCase[pushed.status] =
            IF Known(label) THEN LowerCase[label] ELSE LowerCase[StatusLabel["TO_REVIEW"]]
      BY <2>1, <2>3, MappingAssumption DEF NotionStatusToCuration, Known, CurationStatus
    <2>8. pushed.status # None /\ (Known(label) => label # None)
      <3>1. NotionStatusToCuration(label) \in CurationStatus
        BY DEF NotionStatusToCuration, CurationStatus
      <3> QED
        BY <2>3, <3>1, MappingAssumption DEF Known
    <2>9. Reads(pushed) = [Reads(page) EXCEPT
            !.status = IF Known(label) THEN @ ELSE LowerCase[StatusLabel["TO_REVIEW"]]]
      <3>1. Reads(pushed) =
              [title |-> FlattenSeq(pushed.title), sourceUrl |-> pushed.sourceUrl,
               topics |-> pushed.topics, status |-> LowerCase[pushed.status],
               notes |-> FlattenSeq(pushed.notes)]
        <4>1. pushed = Columns(pushed.title, pushed.sourceUrl, pushed.topics, pushed.status, pushed.notes)
          BY <2>3 DEF Columns
        <4>2. WithTexts(pushed, FlattenSeq(pushed.title), FlattenSeq(pushed.notes),
                        LowerCase[pushed.status]) =
                Columns(FlattenSeq(pushed.title), pushed.sourceUrl, pushed.topics,
                        LowerCase[pushed.status], FlattenSeq(pushed.notes))
          BY <4>1, Replace
        <4>3. Reads(pushed) = WithTexts(pushed, FlattenSeq(pushed.title), FlattenSeq(pushed.notes),
                                        LowerCase[pushed.status])
          BY <2>8 DEF Reads, WithTexts
        <4> QED
          BY <4>2, <4>3 DEF Columns
      <3>2. Reads(page) =
              [title |-> FlattenSeq(page.title), sourceUrl |-> page.sourceUrl,
               topics |-> page.topics, status |-> IF label = None THEN None ELSE LowerCase[label],
               notes |-> FlattenSeq(page.notes)]
        <4>1. page = Columns(page.title, page.sourceUrl, page.topics, label, page.notes)
          BY <2>2 DEF Columns
        <4>2. page.status = label
          BY <2>2
        <4> DEFINE status == IF label = None THEN None ELSE LowerCase[label]
        <4>3. WithTexts(page, FlattenSeq(page.title), FlattenSeq(page.notes), status) =
                Columns(FlattenSeq(page.title), page.sourceUrl, page.topics, status,
                        FlattenSeq(page.notes))
          BY <4>1, Replace
        <4>4. Reads(page) = WithTexts(page, FlattenSeq(page.title), FlattenSeq(page.notes), status)
          BY <4>2 DEF Reads, WithTexts
        <4> QED
          BY <4>3, <4>4 DEF Columns
      <3>3. pushed.sourceUrl = page.sourceUrl
        BY <2>3
      <3> QED
        <4>1. [Reads(page) EXCEPT
                  !.status = IF Known(label) THEN @ ELSE LowerCase[StatusLabel["TO_REVIEW"]]]
                = [title |-> FlattenSeq(page.title), sourceUrl |-> page.sourceUrl,
                   topics |-> page.topics, status |-> LowerCase[pushed.status],
                   notes |-> FlattenSeq(page.notes)]
          <5> DEFINE r == Reads(page)
          <5>1. r = Columns(FlattenSeq(page.title), page.sourceUrl, page.topics,
                            IF label = None THEN None ELSE LowerCase[label], FlattenSeq(page.notes))
            BY <3>2 DEF Columns
          <5>2. (IF Known(label) THEN r.status ELSE LowerCase[StatusLabel["TO_REVIEW"]])
                  = LowerCase[pushed.status]
            BY <2>7, <2>8, <3>2
          <5> HIDE DEF r
          <5>3. WithStatus(r, LowerCase[pushed.status]) =
                  Columns(FlattenSeq(page.title), page.sourceUrl, page.topics,
                          LowerCase[pushed.status], FlattenSeq(page.notes))
            BY <5>1, Replace
          <5> QED
            BY <5>2, <5>3 DEF Columns, WithStatus, r
        <4> QED
          BY <2>4, <2>5, <2>6, <3>1, <3>3, <4>1
    <2> QED
      BY <2>9 DEF PushKeepsPulledPage, pushed, page, label
  <1> QED
    BY <1>1, MappingInvariant, PTL
====
