SPECIFICATION ScheduleSpec
CONSTANTS
    Schedules = {daily, weekly}
    CronKnows = {daily, weekly}
    DefaultSchedule = daily
    Requests = {r1}
    Ticks = {t1}
    None = None
    Idle = Idle
PROPERTY
    RunKeepsSettings
