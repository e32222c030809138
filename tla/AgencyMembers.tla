---- MODULE AgencyMembers ----
(***************************************************************************)
(* Agencies, their members and the invitations: agencies.service.ts behind *)
(* agency-roles.guard.ts.  A step is what a request does between two       *)
(* awaits: what a request has checked may be stale when it writes.         *)
(***************************************************************************)
EXTENDS Naturals, FiniteSets

CONSTANTS
    Agencies,   \* agency ids
    Users,      \* users; an e-mail address is the user it belongs to
    Tokens,     \* invitation tokens
    Accepts,    \* concurrent acceptInvitation requests
    Changes,    \* concurrent updateMemberRole requests
    NoRole,     \* no membership row
    Idle,       \* no request
    Lifetime,   \* how long an invitation is valid: 7 days
    MaxNow      \* bound on the clock

Roles == {"OWNER", "EDITOR", "VIEWER"}

ASSUME NoRoleAssumption == NoRole \notin Roles
ASSUME TimeAssumption == Lifetime \in Nat /\ MaxNow \in Nat

VARIABLES
    agencies,    \* saved agencies
    role,        \* role[a][u]: the membership row of u in a; the index on
                 \* (user, agency) makes it one at most
    invitations, \* saved invitations
    founding,    \* createAgency requests between their two saves
    inviting,    \* inviteMember requests the guard let through
    accept,      \* acceptInvitation requests
    change,      \* updateMemberRole requests
    overlapped,  \* history: two role changes have been under way at once
    now

vars ==
    <<agencies, role, invitations, founding, inviting, accept, change, overlapped, now>>

Invitation ==
    [token : Tokens, agency : Agencies, email : Users, role : Roles,
     status : {"PENDING", "ACCEPTED"}, expiresAt : Nat]
AcceptTask ==
    [pc : {"lookup", "join", "mark"}, user : Users, invitation : Invitation]
ChangeTask ==
    [pc : {"read", "count", "save"}, agency : Agencies, member : Users, role : Roles]

ASSUME IdleAssumption == Idle \notin AcceptTask /\ Idle \notin ChangeTask

TypeOK ==
    /\ agencies \subseteq Agencies
    /\ role \in [Agencies -> [Users -> Roles \cup {NoRole}]]
    /\ invitations \subseteq Invitation
    /\ founding \subseteq Agencies \X Users
    /\ inviting \subseteq Agencies \X Users
    /\ accept \in [Accepts -> AcceptTask \cup {Idle}]
    /\ change \in [Changes -> ChangeTask \cup {Idle}]
    /\ overlapped \in BOOLEAN
    /\ now \in Nat

Init ==
    /\ agencies = {}
    /\ role = [a \in Agencies |-> [u \in Users |-> NoRole]]
    /\ invitations = {}
    /\ founding = {}
    /\ inviting = {}
    /\ accept = [k \in Accepts |-> Idle]
    /\ change = [c \in Changes |-> Idle]
    /\ overlapped = FALSE
    /\ now = 0

Owners(a) == {u \in Users : role[a][u] = "OWNER"}
IsMember(a, u) == role[a][u] # NoRole
\* AgencyRolesGuard with the role OWNER.
GuardOwner(a, u) == role[a][u] = "OWNER"

\* A request may name any role: NoRole stands for all that are none.
Requested == Roles \cup {NoRole}
AnyRole(r) == TRUE
Assignable(r) == r \in Roles

-----------------------------------------------------------------------------
(* createAgency: the agency is saved, then the membership of its creator.    *)

CreateAgency(a, u) ==
    /\ a \notin agencies
    /\ agencies' = agencies \cup {a}
    /\ founding' = founding \cup {<<a, u>>}
    /\ UNCHANGED <<role, invitations, inviting, accept, change, overlapped, now>>

CreateOwner(a, u) ==
    /\ <<a, u>> \in founding
    /\ founding' = founding \ {<<a, u>>}
    /\ role' = [role EXCEPT ![a][u] = "OWNER"]
    /\ UNCHANGED <<agencies, invitations, inviting, accept, change, overlapped, now>>

-----------------------------------------------------------------------------
(* inviteMember, after the guard.                                            *)

InviteAllowed(a, by) ==
    /\ GuardOwner(a, by)
    /\ inviting' = inviting \cup {<<a, by>>}
    /\ UNCHANGED <<agencies, role, invitations, founding, accept, change, overlapped, now>>

InviteMember(a, by, t, email, r) ==
    /\ <<a, by>> \in inviting
    /\ Assignable(r)
    /\ \A i \in invitations : i.token # t
    /\ inviting' = inviting \ {<<a, by>>}
    /\ invitations' = invitations \cup
         {[token |-> t, agency |-> a, email |-> email, role |-> r,
           status |-> "PENDING", expiresAt |-> now + Lifetime]}
    /\ UNCHANGED <<agencies, role, founding, accept, change, overlapped, now>>

-----------------------------------------------------------------------------
(* acceptInvitation.  A request that fails one of its checks changes nothing. *)

SetAccept(k, task) ==
    /\ accept' = [accept EXCEPT ![k] = task]
    /\ UNCHANGED <<agencies, founding, inviting, change, overlapped, now>>

UsableByAnyone(i, u) == i.status = "PENDING" /\ now <= i.expiresAt
Usable(i, u) == i.status = "PENDING" /\ now <= i.expiresAt /\ i.email = u

AcceptFind(k, u, i) ==
    /\ accept[k] = Idle
    /\ Usable(i, u)
    /\ SetAccept(k, [pc |-> "lookup", user |-> u, invitation |-> i])
    /\ UNCHANGED <<role, invitations>>

AlwaysMark(member) == "mark"
AfterLookup(member) == IF member THEN "mark" ELSE "join"
AcceptLookup(k) ==
    /\ accept[k] # Idle /\ accept[k].pc = "lookup"
    /\ SetAccept(k, [accept[k] EXCEPT !.pc =
            AfterLookup(IsMember(accept[k].invitation.agency, accept[k].user))])
    /\ UNCHANGED <<role, invitations>>

\* The INSERT.  If the membership exists by now, the unique index makes the
\* request fail.
AcceptJoin(k) ==
    LET i == accept[k].invitation
        u == accept[k].user
    IN /\ accept[k] # Idle /\ accept[k].pc = "join"
       /\ IF IsMember(i.agency, u)
          THEN SetAccept(k, Idle) /\ UNCHANGED role
          ELSE /\ role' = [role EXCEPT ![i.agency][u] = i.role]
               /\ SetAccept(k, [accept[k] EXCEPT !.pc = "mark"])
       /\ UNCHANGED invitations

AcceptMark(k) ==
    LET i == accept[k].invitation
    IN /\ accept[k] # Idle /\ accept[k].pc = "mark"
       /\ invitations' = {x \in invitations : x.token # i.token}
                           \cup {[i EXCEPT !.status = "ACCEPTED"]}
       /\ SetAccept(k, Idle)
       /\ UNCHANGED role

-----------------------------------------------------------------------------
(* updateMemberRole, after the guard.                                        *)

SetChange(c, task) ==
    /\ change' = [change EXCEPT ![c] = task]
    /\ UNCHANGED <<agencies, invitations, founding, inviting, accept, now>>

ChangeAllowed(c, by, a, u, r) ==
    /\ change[c] = Idle
    /\ IsMember(a, u) /\ GuardOwner(a, by) /\ Assignable(r)
    /\ SetChange(c, [pc |-> "read", agency |-> a, member |-> u, role |-> r])
    /\ overlapped' = (overlapped \/ \E d \in Changes \ {c} : change[d] # Idle)
    /\ UNCHANGED role

\* Only taking the role OWNER away calls for a count.
ChangeRead(c) ==
    LET t == change[c]
        demotes == role[t.agency][t.member] = "OWNER" /\ t.role # "OWNER"
    IN /\ t # Idle /\ t.pc = "read"
       /\ SetChange(c, [t EXCEPT !.pc = IF demotes THEN "count" ELSE "save"])
       /\ UNCHANGED <<role, overlapped>>

NoOwner(owners) == Cardinality(owners) < 1
LastOwner(owners) == Cardinality(owners) <= 1
ChangeCount(c) ==
    LET t == change[c]
    IN /\ t # Idle /\ t.pc = "count"
       /\ SetChange(c, IF LastOwner(Owners(t.agency)) THEN Idle
                       ELSE [t EXCEPT !.pc = "save"])
       /\ UNCHANGED <<role, overlapped>>

ChangeSave(c) ==
    LET t == change[c]
    IN /\ t # Idle /\ t.pc = "save"
       /\ role' = [role EXCEPT ![t.agency][t.member] = t.role]
       /\ SetChange(c, Idle)
       /\ UNCHANGED overlapped

-----------------------------------------------------------------------------
Tick ==
    /\ now < MaxNow
    /\ now' = now + 1
    /\ UNCHANGED <<agencies, role, invitations, founding, inviting, accept, change,
                   overlapped>>

\* The process stops: requests are lost, rows stay.
Restart ==
    /\ founding' = {}
    /\ inviting' = {}
    /\ accept' = [k \in Accepts |-> Idle]
    /\ change' = [c \in Changes |-> Idle]
    /\ UNCHANGED <<agencies, role, invitations, overlapped, now>>

Next ==
    \/ \E a \in Agencies, u \in Users :
        \/ CreateAgency(a, u) \/ CreateOwner(a, u) \/ InviteAllowed(a, u)
        \/ \E t \in Tokens, email \in Users, r \in Requested : InviteMember(a, u, t, email, r)
        \/ \E c \in Changes, by \in Users, r \in Requested : ChangeAllowed(c, by, a, u, r)
    \/ \E k \in Accepts :
        \/ \E u \in Users, i \in invitations : AcceptFind(k, u, i)
        \/ AcceptLookup(k) \/ AcceptJoin(k) \/ AcceptMark(k)
    \/ \E c \in Changes : ChangeRead(c) \/ ChangeCount(c) \/ ChangeSave(c)
    \/ Tick \/ Restart

Spec == Init /\ [][Next]_vars

-----------------------------------------------------------------------------
(* Properties.                                                               *)

\* "Modifie le role d'un membre sans permettre de supprimer le dernier OWNER"
\* (agencies.service.ts:239): an agency that has members has an owner.  Of two
\* requests at once each may count the owner the other removes: this does not
\* hold once two role changes have met,
AgencyKeepsOwner ==
    \A a \in Agencies : (\E u \in Users : IsMember(a, u)) => Owners(a) # {}

\* but does as long as none have, whatever foundings, invitations and stops come
\* in between.
SerialChangesKeepOwner == ~overlapped => AgencyKeepsOwner

\* An invitation that is ACCEPTED made its user a member, whatever crash or
\* second request came between the two saves of acceptInvitation.
AcceptedIsMember ==
    \A i \in invitations : i.status = "ACCEPTED" => IsMember(i.agency, i.email)

\* The service behaves as the atomic registry, with any number of requests at
\* once: nobody joins but by founding the agency or by an open invitation of their
\* own, with the role it gives; no invitation opens or is spent out of turn; and
\* until two role changes have met, no owner leaves the role alone.
Grant(i) == [agency |-> i.agency, email |-> i.email, role |-> i.role]
OpenGrants == {Grant(i) : i \in {x \in invitations : x.status = "PENDING"}}
Registry == INSTANCE AgencyRegistry
    WITH Owner <- "OWNER", open <- OpenGrants, alone <- ~overlapped
ImplementsRegistry == Registry!Spec
====
