SPECIFICATION ProgressSpec
CONSTANTS
    a1 = a1
    l1 = l1
    l2 = l2
    None = None
    FeedIds = {f1, f2}
    Links = {l1, l2}
    Listings <- SomeListings
    Hourly = {h1}
    OnDemand = {}
    FeedEdits = {}
    Agencies = {a1}
    Items = {i1, i2}
    Pages = {p1, p2}
    Pushes = {j1}
    i1 = i1
    p1 = p1
    Pulls = {k1}
    Updates = {u1}
    Owner <- OneAgency
    Statuses = {"DRAFT", "SCHEDULED"}
    Eligible = {"SCHEDULED"}
    NoPage = NoPage
    NoItem = NoItem
    PageSize = 1
    MaxWrites = 2
    MaxStamp = 3
PROPERTIES
    IngestionProgress
    SerialTasksKeepRows
    SyncProgress
