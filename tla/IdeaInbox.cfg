SPECIFICATION Spec
CONSTANTS
    IdeaIds = {i1, i2}
    ContentIds = {c1, c2}
    Requests = {r1, r2}
    Generations = {g1, g2}
    None = None
    Idle = Idle
INVARIANTS
    TypeOK
    AcceptedHasContent
    RunsMatchInbox
SYMMETRY
    Symmetry
