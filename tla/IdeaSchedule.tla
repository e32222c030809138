---- MODULE IdeaSchedule ----
(***************************************************************************)
(* The settings of one agency's automatic generation and the cron job that *)
(* follows them: ideas.scheduler.ts, the settings half of ideas.service.ts *)
(* and ideas.controller.ts.  A step is what a task does between two awaits.*)
(* What a run of the job generates is the business of IdeaInbox: here a    *)
(* generation is an await that may last, and ends well or not.             *)
(***************************************************************************)
EXTENDS Common, FiniteSets

CONSTANTS
    Schedules,   \* what a cron expression is built from: cadence, time, day, timezone
    CronKnows,   \* the schedules whose timezone the cron library knows
    DefaultSchedule, \* every day at 09:00, Europe/Paris
    Requests,    \* concurrent settings requests
    Ticks,       \* concurrent runs of the agency's jobs
    Idle         \* no task

VARIABLES
    up,          \* the process runs: its last start went through
    settings,    \* the row of idea_generation_settings, or None
    job,         \* the schedule of the registered cron job, or None
    request,     \* GET and PATCH settings requests
    tick         \* runScheduledSettings calls

scheduleVars == <<up, settings, job, request, tick>>

Settings ==
    [enabled : BOOLEAN, theme : BOOLEAN, schedule : Schedules,
     next : Schedules \cup {None}]     \* nextRunAt: the schedule it was computed from
Request == [pc : {"insert", "save", "find", "sync"}, row : Settings \cup {None}]
Tick == [pc : {"find", "run"}, row : Settings \cup {None},
         registered : BOOLEAN]          \* its job is still the one in the registry

ASSUME DefaultAssumption == CronKnows \subseteq Schedules /\ DefaultSchedule \in CronKnows
ASSUME TasksAssumption == Requests \cap Ticks = {}
ASSUME NullsAssumption ==
    /\ None \notin Settings \cup Schedules
    /\ Idle \notin Request \cup Tick

ScheduleTypeOK ==
    /\ up \in BOOLEAN
    /\ settings \in Settings \cup {None}
    /\ job \in Schedules \cup {None}
    /\ request \in [Requests -> Request \cup {Idle}]
    /\ tick \in [Ticks -> Tick \cup {Idle}]

ScheduleInit ==
    /\ up = TRUE
    /\ settings = None
    /\ job = None
    /\ request = [r \in Requests |-> Idle]
    /\ tick = [t \in Ticks |-> Idle]

-----------------------------------------------------------------------------
(* getSettings, and updateSettings with the syncAgencySchedule after it.     *)

At(r, pc) == request[r] # Idle /\ request[r].pc = pc
SetRequest(r, pc, row) == request' = [request EXCEPT ![r] = [pc |-> pc, row |-> row]]
EndRequest(r) == request' = [request EXCEPT ![r] = Idle]

\* With a timezone nobody knows it is calculated for Paris.
NextRunAt(row) == IF row.enabled THEN row.schedule ELSE None
\* What an update may turn a row into; enabled without a theme is refused.
Updated == {row \in Settings : (row.enabled => row.theme) /\ row.next = NextRunAt(row)}
Unscheduled ==
    [enabled |-> FALSE, theme |-> FALSE, schedule |-> None, next |-> None]
DefaultSettings ==
    [enabled |-> FALSE, theme |-> FALSE, schedule |-> DefaultSchedule, next |-> None]

SettingsFind(r, row) ==
    /\ up /\ request[r] = Idle
    /\ IF settings = None THEN SetRequest(r, "insert", None) ELSE SetRequest(r, "save", row)
    /\ UNCHANGED <<up, settings, job, tick>>

\* The unique index refuses a second row.  A GET ends here.
SettingsInsert(r, row) ==
    /\ At(r, "insert")
    /\ \/ settings # None /\ EndRequest(r) /\ UNCHANGED settings
       \/ /\ settings = None
          /\ settings' = DefaultSettings
          /\ EndRequest(r) \/ SetRequest(r, "save", row)
    /\ UNCHANGED <<up, job, tick>>

SettingsSaveAlone(r) ==
    /\ At(r, "save")
    /\ settings' = request[r].row
    /\ EndRequest(r)
    /\ UNCHANGED <<up, job, tick>>

SettingsSave(r) ==
    /\ At(r, "save")
    /\ settings' = request[r].row
    /\ SetRequest(r, "find", None)
    /\ UNCHANGED <<up, job, tick>>

SyncFind(r) ==
    /\ At(r, "find")
    /\ SetRequest(r, "sync", settings)
    /\ UNCHANGED <<up, settings, job, tick>>

Runnable(row) == row # None /\ row.enabled /\ row.theme
\* CronJob.from throws.
Refused(row) == Runnable(row) /\ row.schedule \notin CronKnows
JobFor(row) == IF Runnable(row) /\ ~Refused(row) THEN row.schedule ELSE None

\* The former job leaves the registry, and a run of it goes on; then the new one
\* is made, or the request fails, its settings saved.
SyncSetting(r) ==
    /\ At(r, "sync")
    /\ job' = JobFor(request[r].row)
    /\ EndRequest(r)
    /\ tick' = [t \in Ticks |-> IF tick[t] = Idle THEN Idle
                                ELSE [tick[t] EXCEPT !.registered = FALSE]]
    /\ UNCHANGED <<up, settings>>

-----------------------------------------------------------------------------
(* runScheduledSettings; waitForCompletion: a job runs once at a time.       *)

TickFire(t) ==
    /\ job # None
    /\ tick[t] = Idle
    /\ \A u \in Ticks : tick[u] # Idle => ~tick[u].registered
    /\ tick' = [tick EXCEPT ![t] = [pc |-> "find", row |-> None, registered |-> TRUE]]
    /\ UNCHANGED <<up, settings, job, request>>

TickCleared(t) ==           \* wrong: nextRunAt is cleared while the run lasts
    /\ tick[t] # Idle /\ tick[t].pc = "find"
    /\ tick' = [tick EXCEPT ![t] =
                    IF Runnable(settings)
                    THEN [tick[t] EXCEPT !.pc = "run", !.row = [settings EXCEPT !.next = None]]
                    ELSE Idle]
    /\ UNCHANGED <<up, settings, job, request>>
TickFind(t) ==
    /\ tick[t] # Idle /\ tick[t].pc = "find"
    /\ tick' = [tick EXCEPT ![t] = IF Runnable(settings)
                                   THEN [tick[t] EXCEPT !.pc = "run", !.row = settings]
                                   ELSE Idle]
    /\ UNCHANGED <<up, settings, job, request>>

\* The finally, when the generation has ended, well or not.
RunOver(row) == [row EXCEPT !.next = None]
AfterRun(row) == [row EXCEPT !.next = row.schedule]
TickSave(t) ==
    /\ tick[t] # Idle /\ tick[t].pc = "run"
    /\ settings' = AfterRun(tick[t].row)
    /\ tick' = [tick EXCEPT ![t] = Idle]
    /\ UNCHANGED <<up, job, request>>

-----------------------------------------------------------------------------

\* A stop loses the tasks and the jobs; onModuleInit rebuilds the job.  When it
\* throws, bootstrap fails and the process ends.
Restart ==
    /\ up' = ~Refused(settings)
    /\ job' = JobFor(settings)
    /\ request' = [r \in Requests |-> Idle]
    /\ tick' = [t \in Ticks |-> Idle]
    /\ UNCHANGED settings

RequestStep(r) ==
    \/ \E row \in Updated : SettingsFind(r, row) \/ SettingsInsert(r, row)
    \/ SettingsSave(r) \/ SyncFind(r) \/ SyncSetting(r)
TickStep(t) == TickFire(t) \/ TickFind(t) \/ TickSave(t)

ScheduleNext ==
    \/ \E r \in Requests : RequestStep(r)
    \/ \E t \in Ticks : TickStep(t)
    \/ Restart

ScheduleSpec == ScheduleInit /\ [][ScheduleNext]_scheduleVars

-----------------------------------------------------------------------------
(* Properties.                                                               *)

\* Whatever stale copy of the settings is saved last, they stay of one piece:
\* enabled only with a theme, and nextRunAt computed from the schedule beside it.
SettingsOfOnePiece ==
    settings # None => /\ settings.enabled => settings.theme
                       /\ settings.next = NextRunAt(settings)

\* The settings requests and the runs of the job that are under way.
Busy == {r \in Requests : request[r] # Idle} \cup {t \in Ticks : tick[t] # Idle}
OneAtATime == \A x, y \in Busy : x = y

\* Between settings requests the registered job is the one the settings call for:
\* one with their schedule, or none when they are disabled.  When they name a
\* timezone the cron library refuses there is none either, and not the one
\* before.
JobFollowsSettings ==
    (\A r \in Requests : request[r] = Idle) =>
        job = IF settings # None /\ settings.enabled /\ settings.schedule \in CronKnows
              THEN settings.schedule ELSE None

\* As long as settings requests and runs of the job do not overlap, the job
\* follows the settings, across restarts and failed requests too.
JobFollowsSerialSettings == []OneAtATime => []JobFollowsSettings

\* docs/content-ideas.md: when the back starts, the active jobs are rebuilt from
\* the settings; so a start registers the job of settings that are enabled.
StartRebuildsJob ==
    [][Restart =>
         (settings # None /\ settings.enabled => job' = settings.schedule)]_scheduleVars

\* docs/content-ideas.md: after each attempt the run of a job updates lastRunAt
\* and nextRunAt, so it leaves what the owner set alone.
RunKeepsSettings ==
    [][\A t \in Ticks : TickSave(t) =>
         /\ settings'.enabled = settings.enabled
         /\ settings'.theme = settings.theme
         /\ settings'.schedule = settings.schedule]_scheduleVars

\* The copy of the settings a run of the job will save is the row as it stands,
\* as long as settings requests and runs do not overlap: a run then undoes nothing.
RunHoldsSettings ==
    \A t \in Ticks : tick[t] # Idle /\ tick[t].pc = "run" => tick[t].row = settings
SerialRunKeepsSettings == []OneAtATime => []RunHoldsSettings

====
