SPECIFICATION Spec
CONSTANTS
    IdeaIds = {i1}
    ContentIds = {c1, c2}
    Requests = {r1, r2}
    Generations = {g1}
    None = None
    Idle = Idle
INVARIANT
    OneContentPerIdea
