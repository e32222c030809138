SPECIFICATION ScheduleSpec
CONSTANTS
    Schedules = {daily, unknown}
    CronKnows = {daily}
    DefaultSchedule = daily
    Requests = {r1}
    Ticks = {t1}
    None = None
    Idle = Idle
PROPERTY
    StartRebuildsJob
