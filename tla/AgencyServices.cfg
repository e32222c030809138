SPECIFICATION ServicesSpec
CONSTANTS
    None = None
    Users = {u1}
    Workspaces = {w1, w2}
    ConnectionIds = {n1, n2}
    Callbacks = {k1}
    Resolutions = {r1}
    FeedIds = {f1, f2}
    l1 = l1
    Links = {l1}
    Listings <- SomeListings
    Hourly = {h1}
    OnDemand = {d1}
    FeedEdits = {e1}
    gm = gm
    dm = dm
    Models = {gm, dm}
    ModelsOf <- SomeModelsOf
    ConfiguredModel <- SomeConfiguredModel
    Environments <- SomeEnvironments
    Secrets = {"s"}
    AiPatches = {p1, p2}
    A1 = A1
    a1 = a1
    c1 = c1
    i1 = i1
    UserIds = {i1, i2}
    Typed = {A1, a1, c1}
    NormalizeEmail <- SomeNormalizeEmail
    Passwords = {pw}
    Registrations = {g1, g2}
    Browsers = {b1}
    ExpiresIn = 1
    Starts = 2
    PerSecond = 2
    Instants = 6
    Schedules = {daily, weekly, unknown}
    CronKnows = {daily, weekly}
    DefaultSchedule = daily
    Requests = {q1, q2}
    Ticks = {t1, t2}
    Idle = Idle
    Zones <- SomeZones
    TimesOfDay = {0, 1, 2, 9, 23}
    Weekdays = {1, 4, 7}
    Froms <- TenDays
    IdeaWords = 10
    Corpora <- SomeCorpora
    Words = {"a", "b"}
    Texts <- SomeTexts
    Topics <- SomeTopics
    Dates = {d1}
    Labels <- SomeLabels
    LowerCase <- SomeLowerCase
    StatusLabel <- SomeStatusLabel
INVARIANTS
    ConnectionTypeOK
    DisconnectForgets
    FeedsTypeOK
    RemovedFeedsStayRemoved
    AiTypeOK
    ShownIsAccepted
    AccountsTypeOK
    AddressFindsAccount
    SessionsLast
    ScheduleTypeOK
    SettingsOfOnePiece
    AnnouncedIsNextRun
    AnnouncedIsNear
    NearestDecides
    PullGivesPushedRow
    PushKeepsPulledPage
PROPERTIES
    SerialTokenIsShown
    SerialImportsOnce
    SerialIngestionKeepsFeeds
    FittingRequestsFit
    JobFollowsSerialSettings
    SerialRunKeepsSettings
