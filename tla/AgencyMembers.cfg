SPECIFICATION Spec
CONSTANTS
    Agencies = {a1}
    Users = {u1, u2}
    Tokens = {t1, t2}
    Accepts = {k1, k2}
    Changes = {c1, c2}
    NoRole = NoRole
    Idle = Idle
    Lifetime = 0
    MaxNow = 1
CONSTRAINT TwoAtOnce
INVARIANTS
    TypeOK
    SerialChangesKeepOwner
    AcceptedIsMember
PROPERTY
    ImplementsRegistry
SYMMETRY
    Symmetry
