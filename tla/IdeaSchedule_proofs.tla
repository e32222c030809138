---- MODULE IdeaSchedule_proofs ----
(***************************************************************************)
(* Proofs about IdeaSchedule, for every value of its constants.            *)
(***************************************************************************)
EXTENDS IdeaSchedule, TLAPS

-----------------------------------------------------------------------------
(* Types.                                                                    *)

\* An update yields a row of the table.
LEMMA UpdatedIsSettings == ASSUME NEW row \in Updated PROVE row \in Settings
  BY DEF Updated

LEMMA DefaultIsSettings == DefaultSettings \in Settings
  BY DefaultAssumption DEF DefaultSettings, Settings

\* A job has a schedule of the settings it is made for.
LEMMA JobForType ==
    ASSUME NEW row \in Settings \cup {None} PROVE JobFor(row) \in Schedules \cup {None}
  BY DEF JobFor, Runnable, Refused, Settings

\* A request that moves on stays typed.
LEMMA RequestType ==
    ASSUME ScheduleTypeOK, NEW r \in Requests,
           \/ EndRequest(r)
           \/ \E pc \in {"insert", "save", "find", "sync"}, row \in Settings \cup {None} :
                SetRequest(r, pc, row)
    PROVE  request' \in [Requests -> Request \cup {Idle}]
  <1>1. CASE EndRequest(r)
    BY <1>1 DEF EndRequest, ScheduleTypeOK
  <1>2. ASSUME NEW pc \in {"insert", "save", "find", "sync"},
               NEW row \in Settings \cup {None}, SetRequest(r, pc, row)
        PROVE  request' \in [Requests -> Request \cup {Idle}]
    <2>1. [pc |-> pc, row |-> row] \in Request
      BY DEF Request
    <2> QED
      BY <1>2, <2>1 DEF SetRequest, ScheduleTypeOK
  <1> QED
    BY <1>1, <1>2

\* The tasks under way are records of their kind.
LEMMA TaskType ==
    ASSUME ScheduleTypeOK
    PROVE  /\ \A r \in Requests : request[r] # Idle => request[r] \in Request
           /\ \A t \in Ticks : tick[t] # Idle => tick[t] \in Tick
  BY DEF ScheduleTypeOK

\* A run saves a row of the table.
LEMMA AfterRunType == ASSUME NEW row \in Settings PROVE AfterRun(row) \in Settings
  BY DEF AfterRun, Settings

-----------------------------------------------------------------------------
(* Every copy of the settings is of one piece: the row, what a request is     *)
(* about to save, what a run of the job read.                                *)

OnePiece(row) == (row.enabled => row.theme) /\ row.next = NextRunAt(row)

CopiesOfOnePiece ==
    /\ settings # None => OnePiece(settings)
    /\ \A r \in Requests : At(r, "save") =>
         request[r].row # None /\ OnePiece(request[r].row)
    /\ \A t \in Ticks : tick[t] # Idle /\ tick[t].pc = "run" =>
         /\ tick[t].row # None
         /\ OnePiece(tick[t].row)
         /\ tick[t].row.enabled

IInv == ScheduleTypeOK /\ CopiesOfOnePiece

LEMMA IInit == ScheduleInit => IInv
  BY DEF ScheduleInit, IInv, ScheduleTypeOK, CopiesOfOnePiece, At

LEMMA DefaultOfOnePiece == DefaultSettings # None /\ OnePiece(DefaultSettings)
  BY DefaultIsSettings, NullsAssumption DEF DefaultSettings, OnePiece, NextRunAt

LEMMA UpdatedOfOnePiece ==
    ASSUME NEW row \in Updated PROVE row \in Settings /\ row # None /\ OnePiece(row)
  BY NullsAssumption DEF Updated, OnePiece

\* A run only recomputes nextRunAt, which an enabled row had already.
LEMMA RunOfOnePiece ==
    ASSUME NEW row \in Settings, OnePiece(row), row.enabled
    PROVE  AfterRun(row) # None /\ OnePiece(AfterRun(row))
  BY AfterRunType, NullsAssumption DEF AfterRun, OnePiece, NextRunAt, Settings

LEMMA IStep == IInv /\ [ScheduleNext]_scheduleVars => IInv'
  <1> SUFFICES ASSUME IInv, [ScheduleNext]_scheduleVars PROVE IInv'
    OBVIOUS
  <1>0. ScheduleTypeOK /\ CopiesOfOnePiece
    BY DEF IInv
  <1>1. ASSUME NEW r \in Requests, NEW row \in Updated, SettingsFind(r, row) PROVE IInv'
    <2>1. request' \in [Requests -> Request \cup {Idle}]
      BY <1>0, <1>1, RequestType, UpdatedIsSettings DEF SettingsFind
    <2>2. ScheduleTypeOK'
      BY <1>0, <1>1, <2>1 DEF SettingsFind, ScheduleTypeOK
    <2>3. CopiesOfOnePiece'
      BY <1>0, <1>1, UpdatedOfOnePiece
      DEF SettingsFind, CopiesOfOnePiece, SetRequest, At, ScheduleTypeOK
    <2> QED
      BY <2>2, <2>3 DEF IInv
  <1>2. ASSUME NEW r \in Requests, NEW row \in Updated, SettingsInsert(r, row) PROVE IInv'
    <2>1. settings' \in Settings \cup {None} /\ (settings' # None => OnePiece(settings'))
      BY <1>0, <1>2, DefaultIsSettings, DefaultOfOnePiece
      DEF SettingsInsert, ScheduleTypeOK, CopiesOfOnePiece
    <2>2. EndRequest(r) \/ SetRequest(r, "save", row)
      BY <1>2 DEF SettingsInsert
    <2>3. request' \in [Requests -> Request \cup {Idle}]
      BY <1>0, <2>2, RequestType, UpdatedIsSettings
    <2>4. ScheduleTypeOK'
      BY <1>0, <1>2, <2>1, <2>3 DEF SettingsInsert, ScheduleTypeOK
    <2>5. UNCHANGED tick
      BY <1>2 DEF SettingsInsert
    <2>6. CopiesOfOnePiece'
      BY <1>0, <2>1, <2>2, <2>5, UpdatedOfOnePiece
      DEF CopiesOfOnePiece, SetRequest, EndRequest, At, ScheduleTypeOK, OnePiece, NextRunAt
    <2> QED
      BY <2>4, <2>6 DEF IInv
  <1>3. ASSUME NEW r \in Requests, SettingsSave(r) PROVE IInv'
    <2>1. request[r] \in Request /\ request[r].pc = "save"
      BY <1>0, <1>3, TaskType DEF SettingsSave, At
    <2>2. request[r].row \in Settings /\ OnePiece(request[r].row)
      BY <1>0, <1>3, <2>1 DEF SettingsSave, CopiesOfOnePiece, Request
    <2>3. request' \in [Requests -> Request \cup {Idle}]
      BY <1>0, <1>3, RequestType DEF SettingsSave
    <2>4. ScheduleTypeOK'
      BY <1>0, <1>3, <2>2, <2>3 DEF SettingsSave, ScheduleTypeOK
    <2>5. CopiesOfOnePiece'
      BY <1>0, <1>3, <2>2
      DEF SettingsSave, CopiesOfOnePiece, SetRequest, At, ScheduleTypeOK, OnePiece, NextRunAt
    <2> QED
      BY <2>4, <2>5 DEF IInv
  <1>4. ASSUME NEW r \in Requests, SyncFind(r) PROVE IInv'
    <2>1. request' \in [Requests -> Request \cup {Idle}]
      BY <1>0, <1>4, RequestType DEF SyncFind, ScheduleTypeOK
    <2>2. ScheduleTypeOK'
      BY <1>0, <1>4, <2>1 DEF SyncFind, ScheduleTypeOK
    <2>3. CopiesOfOnePiece'
      BY <1>0, <1>4 DEF SyncFind, CopiesOfOnePiece, SetRequest, At, ScheduleTypeOK
    <2> QED
      BY <2>2, <2>3 DEF IInv
  <1>5. ASSUME NEW r \in Requests, SyncSetting(r) PROVE IInv'
    <2>1. request[r] \in Request
      BY <1>0, <1>5, TaskType DEF SyncSetting, At
    <2>2. job' \in Schedules \cup {None}
      BY <1>5, <2>1, JobForType DEF SyncSetting, Request
    <2>3. request' \in [Requests -> Request \cup {Idle}]
      BY <1>0, <1>5, RequestType DEF SyncSetting
    <2>4. tick' \in [Ticks -> Tick \cup {Idle}]
      BY <1>0, <1>5 DEF SyncSetting, ScheduleTypeOK, Tick
    <2>5. ScheduleTypeOK'
      BY <1>0, <1>5, <2>2, <2>3, <2>4 DEF SyncSetting, ScheduleTypeOK
    <2>6. \A t \in Ticks : tick'[t] # Idle /\ tick'[t].pc = "run" =>
            tick[t] # Idle /\ tick[t].pc = "run" /\ tick'[t].row = tick[t].row
      BY <1>0, <1>5, TaskType DEF SyncSetting, Tick
    <2>7. \A q \in Requests : At(q, "save")' => At(q, "save") /\ request'[q] = request[q]
      BY <1>0, <1>5 DEF SyncSetting, EndRequest, At, ScheduleTypeOK
    <2>8. UNCHANGED settings
      BY <1>5 DEF SyncSetting
    <2>9. CopiesOfOnePiece'
      BY <1>0, <2>6, <2>7, <2>8 DEF CopiesOfOnePiece, OnePiece, NextRunAt
    <2> QED
      BY <2>5, <2>9 DEF IInv
  <1>6. ASSUME NEW t \in Ticks, TickFire(t) PROVE IInv'
    <2>1. [pc |-> "find", row |-> None, registered |-> TRUE] \in Tick
      BY DEF Tick
    <2>2. ScheduleTypeOK'
      BY <1>0, <1>6, <2>1 DEF TickFire, ScheduleTypeOK
    <2>3. CopiesOfOnePiece'
      BY <1>0, <1>6 DEF TickFire, CopiesOfOnePiece, At, ScheduleTypeOK
    <2> QED
      BY <2>2, <2>3 DEF IInv
  <1>7. ASSUME NEW t \in Ticks, TickFind(t) PROVE IInv'
    <2>1. tick[t] \in Tick
      BY <1>0, <1>7, TaskType DEF TickFind
    <2> DEFINE task == IF Runnable(settings)
                       THEN [tick[t] EXCEPT !.pc = "run", !.row = settings] ELSE Idle
    <2>2. /\ task \in Tick \cup {Idle}
          /\ Runnable(settings) => task.row = settings
      BY <1>0, <2>1 DEF ScheduleTypeOK, Tick
    <2>3. /\ tick' = [tick EXCEPT ![t] = task]
          /\ UNCHANGED <<up, settings, job, request>>
          /\ ~Runnable(settings) => task = Idle
      BY <1>7 DEF TickFind
    <2> HIDE DEF task
    <2>4. ScheduleTypeOK'
      BY <1>0, <2>2, <2>3 DEF ScheduleTypeOK
    <2>5. CopiesOfOnePiece'
      BY <1>0, <2>2, <2>3 DEF CopiesOfOnePiece, At, ScheduleTypeOK, OnePiece, NextRunAt, Runnable
    <2> QED
      BY <2>4, <2>5 DEF IInv
  <1>8. ASSUME NEW t \in Ticks, TickSave(t) PROVE IInv'
    <2>1. tick[t] \in Tick
      BY <1>0, <1>8, TaskType DEF TickSave
    <2>2. tick[t].row \in Settings /\ OnePiece(tick[t].row) /\ tick[t].row.enabled
      BY <1>0, <1>8, <2>1 DEF TickSave, CopiesOfOnePiece, Tick
    <2>3. settings' \in Settings /\ OnePiece(settings')
      BY <1>8, <2>2, AfterRunType, RunOfOnePiece DEF TickSave
    <2>4. ScheduleTypeOK'
      BY <1>0, <1>8, <2>3 DEF TickSave, ScheduleTypeOK
    <2>5. CopiesOfOnePiece'
      BY <1>0, <1>8, <2>3 DEF TickSave, CopiesOfOnePiece, At, ScheduleTypeOK, OnePiece, NextRunAt
    <2> QED
      BY <2>4, <2>5 DEF IInv
  <1>9. CASE Restart
    <2>1. ScheduleTypeOK'
      BY <1>0, <1>9, JobForType DEF Restart, ScheduleTypeOK
    <2>2. CopiesOfOnePiece'
      BY <1>0, <1>9 DEF Restart, CopiesOfOnePiece, At, OnePiece, NextRunAt
    <2> QED
      BY <2>1, <2>2 DEF IInv
  <1>10. CASE UNCHANGED scheduleVars
    BY <1>0, <1>10 DEF scheduleVars, IInv, ScheduleTypeOK, CopiesOfOnePiece, At, OnePiece, NextRunAt
  <1> QED
    BY <1>1, <1>2, <1>3, <1>4, <1>5, <1>6, <1>7, <1>8, <1>9, <1>10
    DEF ScheduleNext, RequestStep, TickStep

\* Every variable of the settings and their job keeps its type.
THEOREM TypeCorrect == ScheduleSpec => []ScheduleTypeOK
  <1>1. IInv => ScheduleTypeOK
    BY DEF IInv
  <1> QED
    BY <1>1, IInit, IStep, PTL DEF ScheduleSpec

\* No interleaving of any number of settings requests and runs of the job
\* leaves the row enabled without a theme, or with a nextRunAt of another
\* schedule than its own.
THEOREM SettingsStayOfOnePiece == ScheduleSpec => []SettingsOfOnePiece
  <1>1. IInv => SettingsOfOnePiece
    BY DEF IInv, CopiesOfOnePiece, SettingsOfOnePiece, OnePiece
  <1> QED
    BY <1>1, IInit, IStep, PTL DEF ScheduleSpec

-----------------------------------------------------------------------------
(* The job follows the settings while requests and runs do not overlap.       *)

Wanted ==
    IF settings # None /\ settings.enabled /\ settings.schedule \in CronKnows
    THEN settings.schedule ELSE None

\* Until a request saves, the job is the wanted one; a request about to make
\* the job again read the settings as they still are, and so did a run.
JInv ==
    /\ (\A r \in Requests : At(r, "insert") \/ At(r, "save") \/ request[r] = Idle)
         => job = Wanted
    /\ \A r \in Requests : At(r, "sync") => request[r].row = settings
    /\ RunHoldsSettings

\* A job made for settings of one piece is the wanted one.
LEMMA JobForWanted == ASSUME IInv PROVE JobFor(settings) = Wanted
  BY DEF IInv, CopiesOfOnePiece, OnePiece, JobFor, Runnable, Refused, Wanted

LEMMA JInit == ScheduleInit => JInv
  BY DEF ScheduleInit, JInv, RunHoldsSettings, Wanted, At

\* While a request is under way, no other request and no run is.
LEMMA RequestAlone ==
    ASSUME OneAtATime, NEW r \in Requests, request[r] # Idle
    PROVE  /\ \A q \in Requests : q # r => request[q] = Idle
           /\ \A t \in Ticks : tick[t] = Idle
  BY TasksAssumption DEF OneAtATime, Busy

\* While a run is under way, no other run and no request is.
LEMMA RunAlone ==
    ASSUME OneAtATime, NEW t \in Ticks, tick[t] # Idle
    PROVE  /\ \A u \in Ticks : u # t => tick[u] = Idle
           /\ \A r \in Requests : request[r] = Idle
  BY TasksAssumption DEF OneAtATime, Busy

LEMMA JStep == IInv /\ JInv /\ OneAtATime /\ [ScheduleNext]_scheduleVars => JInv'
  <1> SUFFICES ASSUME IInv, JInv, OneAtATime, [ScheduleNext]_scheduleVars PROVE JInv'
    OBVIOUS
  <1>0. ScheduleTypeOK /\ CopiesOfOnePiece
    BY DEF IInv
  <1>1. ASSUME NEW r \in Requests, NEW row \in Updated, SettingsFind(r, row) PROVE JInv'
    BY <1>0, <1>1 DEF SettingsFind, SetRequest, JInv, RunHoldsSettings, Wanted, At, ScheduleTypeOK
  <1>2. ASSUME NEW r \in Requests, NEW row \in Updated, SettingsInsert(r, row) PROVE JInv'
    <2>1. request[r] # Idle /\ UNCHANGED <<up, job, tick>>
      BY <1>2 DEF SettingsInsert, At
    <2>2. /\ \A q \in Requests : q # r => request[q] = Idle
          /\ \A t \in Ticks : tick[t] = Idle
      BY <2>1, RequestAlone
    <2>3. job = Wanted
      BY <1>2, <2>2 DEF JInv, RunHoldsSettings, SettingsInsert
    <2>4. Wanted' = Wanted
      BY <1>2 DEF SettingsInsert, Wanted, DefaultSettings
    <2>5. EndRequest(r) \/ SetRequest(r, "save", row)
      BY <1>2 DEF SettingsInsert
    <2>6. \A q \in Requests : ~At(q, "sync")'
      BY <1>0, <2>2, <2>5 DEF EndRequest, SetRequest, At, ScheduleTypeOK
    <2> QED
      BY <2>1, <2>2, <2>3, <2>4, <2>6 DEF JInv, RunHoldsSettings
  <1>3. ASSUME NEW r \in Requests, SettingsSave(r) PROVE JInv'
    <2>1. request[r] # Idle /\ UNCHANGED <<up, job, tick>>
      BY <1>3 DEF SettingsSave, At
    <2>2. /\ \A q \in Requests : q # r => request[q] = Idle
          /\ \A t \in Ticks : tick[t] = Idle
      BY <2>1, RequestAlone
    <2>3. request'[r] = [pc |-> "find", row |-> None]
          /\ \A q \in Requests : q # r => request'[q] = Idle
      BY <1>0, <1>3, <2>2 DEF SettingsSave, SetRequest, ScheduleTypeOK
    <2>4. request'[r] # Idle
      BY <2>3, NullsAssumption DEF Request
    <2> QED
      BY <2>1, <2>2, <2>3, <2>4 DEF JInv, RunHoldsSettings, At
  <1>4. ASSUME NEW r \in Requests, SyncFind(r) PROVE JInv'
    <2>1. request[r] # Idle /\ UNCHANGED <<up, settings, job, tick>>
      BY <1>4 DEF SyncFind, At
    <2>2. /\ \A q \in Requests : q # r => request[q] = Idle
          /\ \A t \in Ticks : tick[t] = Idle
      BY <2>1, RequestAlone
    <2>3. request'[r] = [pc |-> "sync", row |-> settings]
          /\ \A q \in Requests : q # r => request'[q] = Idle
      BY <1>0, <1>4, <2>2 DEF SyncFind, SetRequest, ScheduleTypeOK
    <2>4. request'[r] # Idle
      BY <1>0, <2>3, NullsAssumption DEF Request, ScheduleTypeOK
    <2> QED
      BY <2>1, <2>2, <2>3, <2>4 DEF JInv, RunHoldsSettings, At
  <1>5. ASSUME NEW r \in Requests, SyncSetting(r) PROVE JInv'
    <2>1. request[r] # Idle /\ UNCHANGED settings
      BY <1>5 DEF SyncSetting, At
    <2>2. /\ \A q \in Requests : q # r => request[q] = Idle
          /\ \A t \in Ticks : tick[t] = Idle
      BY <2>1, RequestAlone
    <2>3. request[r].row = settings
      BY <1>5 DEF SyncSetting, JInv, RunHoldsSettings
    <2>4. job' = Wanted
      BY <1>5, <2>3, JobForWanted DEF SyncSetting
    <2>5. Wanted' = Wanted
      BY <2>1 DEF Wanted
    <2>6. (\A q \in Requests : request'[q] = Idle) /\ (\A t \in Ticks : tick'[t] = Idle)
      BY <1>0, <1>5, <2>2 DEF SyncSetting, EndRequest, ScheduleTypeOK
    <2> QED
      BY <2>4, <2>5, <2>6 DEF JInv, RunHoldsSettings, At
  <1>6. ASSUME NEW t \in Ticks, TickFire(t) PROVE JInv'
    BY <1>0, <1>6 DEF TickFire, JInv, RunHoldsSettings, Wanted, At, ScheduleTypeOK
  <1>7. ASSUME NEW t \in Ticks, TickFind(t) PROVE JInv'
    <2>1. tick[t] \in Tick /\ UNCHANGED <<up, settings, job, request>>
      BY <1>0, <1>7, TaskType DEF TickFind
    <2>2. tick'[t] # Idle => tick'[t].row = settings
      BY <1>0, <1>7, <2>1 DEF TickFind, ScheduleTypeOK, Tick
    <2>3. \A u \in Ticks : u # t => tick'[u] = tick[u]
      BY <1>0, <1>7 DEF TickFind, ScheduleTypeOK
    <2> QED
      BY <2>1, <2>2, <2>3 DEF JInv, RunHoldsSettings, Wanted, At
  <1>8. ASSUME NEW t \in Ticks, TickSave(t) PROVE JInv'
    <2>1. tick[t] # Idle /\ tick[t].pc = "run" /\ UNCHANGED <<up, job, request>>
      BY <1>8 DEF TickSave
    <2>2. /\ \A u \in Ticks : u # t => tick[u] = Idle
          /\ \A r \in Requests : request[r] = Idle
      BY <2>1, RunAlone
    <2>3. settings = tick[t].row /\ settings # None /\ settings.enabled
      BY <1>0, <2>1 DEF JInv, RunHoldsSettings, CopiesOfOnePiece
    <2>4. settings \in Settings /\ OnePiece(settings)
      BY <1>0, <2>3 DEF ScheduleTypeOK, CopiesOfOnePiece
    <2>5. settings' = AfterRun(settings)
      BY <1>8, <2>3 DEF TickSave
    <2>6. settings' # None /\ settings'.enabled /\ settings'.schedule = settings.schedule
      BY <2>3, <2>4, <2>5, RunOfOnePiece DEF AfterRun, Settings
    <2>7. Wanted' = Wanted
      BY <2>3, <2>6 DEF Wanted
    <2>8. \A u \in Ticks : tick'[u] = Idle
      BY <1>0, <1>8, <2>2 DEF TickSave, ScheduleTypeOK
    <2> QED
      BY <2>1, <2>2, <2>7, <2>8 DEF JInv, RunHoldsSettings, At
  <1>9. CASE Restart
    <2>1. job' = Wanted /\ Wanted' = Wanted
      BY <1>9, JobForWanted DEF Restart, Wanted
    <2> QED
      BY <1>9, <2>1 DEF Restart, JInv, RunHoldsSettings, At
  <1>10. CASE UNCHANGED scheduleVars
    BY <1>10 DEF scheduleVars, JInv, RunHoldsSettings, Wanted, At
  <1> QED
    BY <1>1, <1>2, <1>3, <1>4, <1>5, <1>6, <1>7, <1>8, <1>9, <1>10
    DEF ScheduleNext, RequestStep, TickStep

\* As long as no settings request or run of the job overlaps another, the job
\* in the registry is the one the settings call for whenever no request is
\* under way, restarts and failed requests included.
THEOREM JobFollows == ScheduleSpec => JobFollowsSerialSettings
  <1>1. JInv => JobFollowsSettings
    BY DEF JInv, JobFollowsSettings, Wanted
  <1>2. ScheduleSpec => []IInv
    BY IInit, IStep, PTL DEF ScheduleSpec
  <1> QED
    BY <1>1, <1>2, JInit, JStep, PTL DEF ScheduleSpec, JobFollowsSerialSettings

\* As long as no settings request or run of the job overlaps another, what a run
\* is about to save is the row as it stands in the table.
THEOREM RunHolds == ScheduleSpec => SerialRunKeepsSettings
  <1>1. JInv => RunHoldsSettings
    BY DEF JInv
  <1>2. ScheduleSpec => []IInv
    BY IInit, IStep, PTL DEF ScheduleSpec
  <1> QED
    BY <1>1, <1>2, JInit, JStep, PTL DEF ScheduleSpec, SerialRunKeepsSettings

\* So long, a run leaves alone what the owner set, as the documentation says.
THEOREM SerialRunKeeps == ScheduleSpec => ([]OneAtATime => RunKeepsSettings)
  <1>1. IInv /\ JInv /\ [ScheduleNext]_scheduleVars =>
          [\A t \in Ticks : TickSave(t) =>
             /\ settings'.enabled = settings.enabled
             /\ settings'.theme = settings.theme
             /\ settings'.schedule = settings.schedule]_scheduleVars
    <2> SUFFICES ASSUME IInv, JInv, NEW t \in Ticks, TickSave(t)
                 PROVE  /\ settings'.enabled = settings.enabled
                        /\ settings'.theme = settings.theme
                        /\ settings'.schedule = settings.schedule
      OBVIOUS
    <2>1. settings = tick[t].row /\ settings \in Settings
      <3>1. tick[t] \in Tick /\ tick[t].row # None
        BY TaskType DEF IInv, CopiesOfOnePiece, TickSave
      <3> QED
        BY <3>1 DEF JInv, RunHoldsSettings, TickSave, Tick
    <2>2. settings' = AfterRun(settings)
      BY <2>1 DEF TickSave
    <2> QED
      BY <2>1, <2>2 DEF AfterRun, Settings
  <1>2. ScheduleSpec => []IInv
    BY IInit, IStep, PTL DEF ScheduleSpec
  <1> QED
    BY <1>1, <1>2, JInit, JStep, PTL DEF ScheduleSpec, RunKeepsSettings

-----------------------------------------------------------------------------
(* Timezones the cron library knows.                                         *)

\* No settings request asks for a timezone the cron library does not know.
KnownAsked == \A r \in Requests : At(r, "save") => request[r].row.schedule \in CronKnows

\* The timezone stored is a known one, and so is that of every copy a run will save.
KnownStored ==
    /\ settings # None => settings.schedule \in CronKnows
    /\ \A t \in Ticks : tick[t] # Idle /\ tick[t].pc = "run" =>
         tick[t].row.schedule \in CronKnows

LEMMA KnownInit == ScheduleInit => KnownStored
  BY DEF ScheduleInit, KnownStored

LEMMA KnownStep ==
    IInv /\ KnownStored /\ KnownAsked /\ [ScheduleNext]_scheduleVars => KnownStored'
  <1> SUFFICES ASSUME IInv, KnownStored, KnownAsked, [ScheduleNext]_scheduleVars
               PROVE  KnownStored'
    OBVIOUS
  <1>0. ScheduleTypeOK /\ CopiesOfOnePiece
    BY DEF IInv
  <1>1. ASSUME NEW r \in Requests, NEW row \in Updated, SettingsInsert(r, row)
        PROVE  KnownStored'
    BY <1>1, DefaultAssumption DEF SettingsInsert, DefaultSettings, KnownStored
  <1>2. ASSUME NEW r \in Requests, SettingsSave(r) PROVE KnownStored'
    BY <1>2 DEF SettingsSave, KnownAsked, KnownStored
  <1>3. ASSUME NEW r \in Requests, SyncSetting(r) PROVE KnownStored'
    <2>1. \A t \in Ticks : tick'[t] # Idle /\ tick'[t].pc = "run" =>
            tick[t] # Idle /\ tick[t].pc = "run" /\ tick'[t].row = tick[t].row
      BY <1>0, <1>3, TaskType DEF SyncSetting, Tick
    <2> QED
      BY <1>3, <2>1 DEF SyncSetting, KnownStored
  <1>4. ASSUME NEW t \in Ticks, TickFire(t) PROVE KnownStored'
    BY <1>0, <1>4 DEF TickFire, KnownStored, ScheduleTypeOK
  <1>5. ASSUME NEW t \in Ticks, TickFind(t) PROVE KnownStored'
    <2>1. tick[t] \in Tick /\ UNCHANGED settings
      BY <1>0, <1>5, TaskType DEF TickFind
    <2>2. tick'[t] # Idle => settings # None /\ tick'[t].row = settings
      BY <1>0, <1>5, <2>1 DEF TickFind, Runnable, ScheduleTypeOK, Tick
    <2>3. \A u \in Ticks : u # t => tick'[u] = tick[u]
      BY <1>0, <1>5 DEF TickFind, ScheduleTypeOK
    <2> QED
      BY <2>1, <2>2, <2>3 DEF KnownStored
  <1>6. ASSUME NEW t \in Ticks, TickSave(t) PROVE KnownStored'
    <2>1. tick[t] \in Tick /\ tick[t].row # None /\ tick[t].row.schedule \in CronKnows
      BY <1>0, <1>6, TaskType DEF TickSave, CopiesOfOnePiece, KnownStored
    <2>2. settings'.schedule = tick[t].row.schedule
      BY <1>6, <2>1 DEF TickSave, AfterRun, Tick, Settings
    <2>3. \A u \in Ticks : tick'[u] # Idle => tick'[u] = tick[u]
      BY <1>0, <1>6 DEF TickSave, ScheduleTypeOK
    <2> QED
      BY <2>1, <2>2, <2>3 DEF KnownStored
  <1>7. CASE Restart
    BY <1>7 DEF Restart, KnownStored
  <1>8. CASE UNCHANGED <<settings, tick>>
    BY <1>8 DEF KnownStored
  <1> QED
    BY <1>1, <1>2, <1>3, <1>4, <1>5, <1>6, <1>7, <1>8
    DEF ScheduleNext, RequestStep, TickStep, SettingsFind, SyncFind, scheduleVars

\* With known timezones only, every start of the back goes through and rebuilds
\* the job of enabled settings, whatever requests and runs overlapped before: an
\* unknown timezone is all it takes to refute StartRebuildsJob, and nothing else.
THEOREM KnownTimezonesStart ==
    ScheduleSpec => ([]KnownAsked => []up /\ StartRebuildsJob)
  <1>1. IInv /\ KnownStored =>
          [Restart => (settings # None /\ settings.enabled => job' = settings.schedule)]_scheduleVars
    BY DEF IInv, CopiesOfOnePiece, OnePiece, KnownStored, Restart, JobFor, Refused, Runnable
  <1>2. up /\ KnownStored /\ [ScheduleNext]_scheduleVars => up'
    <2> SUFFICES ASSUME up, KnownStored, [ScheduleNext]_scheduleVars PROVE up'
      OBVIOUS
    <2>1. CASE Restart
      BY <2>1 DEF Restart, KnownStored, Refused, Runnable
    <2>2. CASE UNCHANGED up
      BY <2>2
    <2> QED
      BY <2>1, <2>2 DEF ScheduleNext, RequestStep, TickStep, SettingsFind, SettingsInsert,
                        SettingsSave, SyncFind, SyncSetting, TickFire, TickFind, TickSave,
                        scheduleVars
  <1>3. ScheduleInit => up
    BY DEF ScheduleInit
  <1>4. ScheduleSpec => []IInv
    BY IInit, IStep, PTL DEF ScheduleSpec
  <1> QED
    BY <1>1, <1>2, <1>3, <1>4, KnownInit, KnownStep, PTL DEF ScheduleSpec, StartRebuildsJob
====
