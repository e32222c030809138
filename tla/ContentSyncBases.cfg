SPECIFICATION Spec
CONSTANTS
    a1 = a1
    a2 = a2
    Second = {i2, p2, j2}
    Agencies = {a1, a2}
    Items = {i1, i2}
    Pages = {p1, p2}
    Pushes = {j1, j2}
    Pulls = {l1}
    Updates = {u1}
    Owner <- SplitOwner
    Statuses = {"DRAFT", "SCHEDULED"}
    Eligible = {"SCHEDULED"}
    NoPage = NoPage
    NoItem = NoItem
    PageSize = 1
    MaxWrites = 2
    MaxStamp = 2
INVARIANT
    PagesStayInBase
