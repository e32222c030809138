SPECIFICATION Spec
CONSTANTS
    a1 = a1
    a2 = a2
    Second = {}
    Agencies = {a1}
    Items = {i1, i2}
    Pages = {p1}
    Pushes = {j1}
    Pulls = {l1}
    Updates = {u1}
    Owner <- SplitOwner
    Statuses = {"DRAFT", "SCHEDULED"}
    Eligible = {"SCHEDULED"}
    NoPage = NoPage
    NoItem = NoItem
    PageSize = 1
    MaxWrites = 2
    MaxStamp = 3
CONSTRAINT TwoAtOnce
SYMMETRY Symmetry
INVARIANTS
    TypeOK
    RemoteEditsVisible
    PlannedHasPage
    OneRowPerPage
