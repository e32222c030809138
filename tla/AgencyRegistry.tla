---- MODULE AgencyRegistry ----
(***************************************************************************)
(* What the members of agencies may count on: agencies.service.ts, seen as *)
(* if every operation were one atomic step.                                *)
(***************************************************************************)
CONSTANTS Agencies, Users, Roles, Owner, NoRole

VARIABLES
    role,       \* role[a][u]: the role of user u in agency a, or NoRole
    open,       \* invitations not spent yet
    alone       \* no two role changes have met

vars == <<role, open, alone>>

Grant == [agency : Agencies, email : Users, role : Roles]

Init ==
    /\ role = [a \in Agencies |-> [u \in Users |-> NoRole]]
    /\ open = {}
    /\ alone = TRUE

HasMember(a) == \E u \in Users : role[a][u] # NoRole
HasOwner(a) == \E u \in Users : role[a][u] = Owner
Give(a, u, r) == role' = [role EXCEPT ![a][u] = r]

\* The first member of an agency is its owner.
Found(a, u) ==
    /\ ~HasMember(a)
    /\ Give(a, u, Owner)
    /\ UNCHANGED <<open, alone>>

Invite(grant) ==
    /\ HasMember(grant.agency)
    /\ alone => HasOwner(grant.agency)
    /\ open' = open \cup {grant}
    /\ UNCHANGED <<role, alone>>

\* Joining takes an open invitation, for this user and with this role.
Join(grant) ==
    /\ grant \in open
    /\ role[grant.agency][grant.email] = NoRole
    /\ Give(grant.agency, grant.email, grant.role)
    /\ UNCHANGED <<open, alone>>

\* An invitation is spent once its user is a member.
Spend(grant) ==
    /\ role[grant.agency][grant.email] # NoRole
    /\ open' = open \ {grant}
    /\ UNCHANGED <<role, alone>>

\* An owner steps down only beside another one, unless role changes meet.
SetRole(a, u, r) ==
    /\ role[a][u] # NoRole
    /\ alone /\ role[a][u] = Owner /\ r # Owner =>
           \E v \in Users \ {u} : role[a][v] = Owner
    /\ Give(a, u, r)
    /\ UNCHANGED <<open, alone>>

Meet ==
    /\ alone' = FALSE
    /\ UNCHANGED <<role, open>>

Next ==
    \/ \E a \in Agencies, u \in Users :
           Found(a, u) \/ \E r \in Roles : SetRole(a, u, r)
    \/ \E grant \in Grant : Invite(grant) \/ Join(grant) \/ Spend(grant)
    \/ Meet

Spec == Init /\ [][Next]_vars
====
