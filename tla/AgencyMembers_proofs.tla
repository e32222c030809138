---- MODULE AgencyMembers_proofs ----
(***************************************************************************)
(* Proofs about AgencyMembers, for every value of its constants.           *)
(***************************************************************************)
EXTENDS AgencyMembers, FiniteSetTheorems, TLAPS

-----------------------------------------------------------------------------
(* Types.                                                                    *)

LEMMA TypeInit == Init => TypeOK
  <1> SUFFICES ASSUME Init PROVE TypeOK
    OBVIOUS
  <1>1. overlapped \in BOOLEAN
    BY DEF Init
  <1>2. role \in [Agencies -> [Users -> Roles \cup {NoRole}]]
    BY DEF Init
  <1> QED
    BY <1>1, <1>2 DEF Init, TypeOK

\* What a request that moves on, or ends, leaves typed.
LEMMA TypeSetAccept ==
    ASSUME TypeOK, NEW k \in Accepts, NEW task \in AcceptTask \cup {Idle},
           SetAccept(k, task)
    PROVE  /\ accept' \in [Accepts -> AcceptTask \cup {Idle}]
           /\ agencies' \subseteq Agencies /\ founding' \subseteq Agencies \X Users
           /\ inviting' \subseteq Agencies \X Users
           /\ change' \in [Changes -> ChangeTask \cup {Idle}]
           /\ overlapped' \in BOOLEAN /\ now' \in Nat
  BY DEF TypeOK, SetAccept

LEMMA TypeSetChange ==
    ASSUME TypeOK, NEW c \in Changes, NEW task \in ChangeTask \cup {Idle},
           SetChange(c, task)
    PROVE  /\ change' \in [Changes -> ChangeTask \cup {Idle}]
           /\ agencies' \subseteq Agencies /\ founding' \subseteq Agencies \X Users
           /\ inviting' \subseteq Agencies \X Users /\ invitations' \subseteq Invitation
           /\ accept' \in [Accepts -> AcceptTask \cup {Idle}] /\ now' \in Nat
  BY DEF TypeOK, SetChange

\* Every step keeps the types.
LEMMA TypeStep == TypeOK /\ [Next]_vars => TypeOK'
  <1> SUFFICES ASSUME TypeOK, [Next]_vars PROVE TypeOK'
    OBVIOUS
  <1> USE TimeAssumption
  <1>1. ASSUME NEW a \in Agencies, NEW u \in Users, CreateAgency(a, u) PROVE TypeOK'
    BY <1>1 DEF CreateAgency, TypeOK
  <1>2. ASSUME NEW a \in Agencies, NEW u \in Users, CreateOwner(a, u) PROVE TypeOK'
    <2>1. role' \in [Agencies -> [Users -> Roles \cup {NoRole}]]
      BY <1>2 DEF CreateOwner, TypeOK, Roles
    <2> QED
      BY <1>2, <2>1 DEF CreateOwner, TypeOK
  <1>3. ASSUME NEW a \in Agencies, NEW u \in Users, InviteAllowed(a, u) PROVE TypeOK'
    BY <1>3 DEF InviteAllowed, TypeOK
  <1>4. ASSUME NEW a \in Agencies, NEW u \in Users, NEW t \in Tokens,
               NEW email \in Users, NEW r \in Requested, InviteMember(a, u, t, email, r)
        PROVE  TypeOK'
    <2> DEFINE new == [token |-> t, agency |-> a, email |-> email, role |-> r,
                       status |-> "PENDING", expiresAt |-> now + Lifetime]
    <2>1. now + Lifetime \in Nat
      BY DEF TypeOK
    <2>2. new \in Invitation
      BY <1>4, <2>1 DEF Invitation, InviteMember, Assignable
    <2>3. invitations' = invitations \cup {new}
      BY <1>4 DEF InviteMember
    <2> HIDE DEF new
    <2> QED
      BY <1>4, <2>2, <2>3 DEF InviteMember, TypeOK
  <1>5. ASSUME NEW k \in Accepts, NEW u \in Users, NEW i \in invitations,
               AcceptFind(k, u, i)
        PROVE  TypeOK'
    <2> DEFINE task == [pc |-> "lookup", user |-> u, invitation |-> i]
    <2>1. task \in AcceptTask
      BY DEF TypeOK, AcceptTask
    <2>2. SetAccept(k, task) /\ UNCHANGED <<role, invitations>>
      BY <1>5 DEF AcceptFind
    <2> HIDE DEF task
    <2> QED
      BY <2>1, <2>2, TypeSetAccept DEF TypeOK
  <1>6. ASSUME NEW k \in Accepts, AcceptLookup(k) PROVE TypeOK'
    <2> DEFINE task == [accept[k] EXCEPT !.pc =
                AfterLookup(IsMember(accept[k].invitation.agency, accept[k].user))]
    <2>1. accept[k] \in AcceptTask
      BY <1>6 DEF AcceptLookup, TypeOK
    <2>2. task \in AcceptTask
      BY <2>1 DEF AcceptTask, AfterLookup
    <2>3. SetAccept(k, task) /\ UNCHANGED <<role, invitations>>
      BY <1>6 DEF AcceptLookup
    <2> HIDE DEF task
    <2> QED
      BY <2>2, <2>3, TypeSetAccept DEF TypeOK
  <1>7. ASSUME NEW k \in Accepts, AcceptJoin(k) PROVE TypeOK'
    <2>1. accept[k] \in AcceptTask
      BY <1>7 DEF AcceptJoin, TypeOK
    <2>2. /\ accept[k].invitation \in Invitation
          /\ accept[k].user \in Users
          /\ [accept[k] EXCEPT !.pc = "mark"] \in AcceptTask
      BY <2>1 DEF AcceptTask
    <2>3. accept[k].invitation.agency \in Agencies /\ accept[k].invitation.role \in Roles
      BY <2>2 DEF Invitation
    <2>4. role' \in [Agencies -> [Users -> Roles \cup {NoRole}]]
      BY <1>7, <2>2, <2>3 DEF AcceptJoin, TypeOK
    <2>5. \E task \in AcceptTask \cup {Idle} : SetAccept(k, task)
      BY <1>7, <2>2 DEF AcceptJoin
    <2>6. UNCHANGED invitations
      BY <1>7 DEF AcceptJoin
    <2> QED
      BY <2>4, <2>5, <2>6, TypeSetAccept DEF TypeOK
  <1>8. ASSUME NEW k \in Accepts, AcceptMark(k) PROVE TypeOK'
    <2>1. accept[k] \in AcceptTask
      BY <1>8 DEF AcceptMark, TypeOK
    <2>2. accept[k].invitation \in Invitation
      BY <2>1 DEF AcceptTask
    <2>3. [accept[k].invitation EXCEPT !.status = "ACCEPTED"] \in Invitation
      BY <2>2 DEF Invitation
    <2>4. invitations' \subseteq Invitation
      BY <1>8, <2>3 DEF AcceptMark, TypeOK
    <2>5. SetAccept(k, Idle) /\ UNCHANGED role
      BY <1>8 DEF AcceptMark
    <2> QED
      BY <2>4, <2>5, TypeSetAccept DEF TypeOK
  <1>9. ASSUME NEW a \in Agencies, NEW u \in Users, NEW c \in Changes,
               NEW by \in Users, NEW r \in Requested, ChangeAllowed(c, by, a, u, r)
        PROVE  TypeOK'
    <2> DEFINE task == [pc |-> "read", agency |-> a, member |-> u, role |-> r]
    <2>1. task \in ChangeTask
      BY <1>9 DEF ChangeAllowed, Assignable, ChangeTask
    <2>2. SetChange(c, task) /\ UNCHANGED role /\ overlapped' \in BOOLEAN
      BY <1>9 DEF ChangeAllowed
    <2> HIDE DEF task
    <2> QED
      BY <2>1, <2>2, TypeSetChange DEF TypeOK
  <1>10. ASSUME NEW c \in Changes, ChangeRead(c) PROVE TypeOK'
    <2>1. change[c] \in ChangeTask
      BY <1>10 DEF ChangeRead, TypeOK
    <2>2. \A pc \in {"count", "save"} : [change[c] EXCEPT !.pc = pc] \in ChangeTask
      BY <2>1 DEF ChangeTask
    <2>3. \E pc \in {"count", "save"} : SetChange(c, [change[c] EXCEPT !.pc = pc])
      BY <1>10 DEF ChangeRead
    <2>4. UNCHANGED role /\ overlapped' \in BOOLEAN
      BY <1>10 DEF ChangeRead, TypeOK
    <2> QED
      BY <2>2, <2>3, <2>4, TypeSetChange DEF TypeOK
  <1>11. ASSUME NEW c \in Changes, ChangeCount(c) PROVE TypeOK'
    <2>1. change[c] \in ChangeTask
      BY <1>11 DEF ChangeCount, TypeOK
    <2>2. [change[c] EXCEPT !.pc = "save"] \in ChangeTask
      BY <2>1 DEF ChangeTask
    <2>3. \E task \in ChangeTask \cup {Idle} : SetChange(c, task)
      BY <1>11, <2>2 DEF ChangeCount
    <2>4. UNCHANGED role /\ overlapped' \in BOOLEAN
      BY <1>11 DEF ChangeCount, TypeOK
    <2> QED
      BY <2>3, <2>4, TypeSetChange DEF TypeOK
  <1>12. ASSUME NEW c \in Changes, ChangeSave(c) PROVE TypeOK'
    <2>1. change[c] \in ChangeTask
      BY <1>12 DEF ChangeSave, TypeOK
    <2>2. change[c].agency \in Agencies /\ change[c].member \in Users /\ change[c].role \in Roles
      BY <2>1 DEF ChangeTask
    <2>3. role' \in [Agencies -> [Users -> Roles \cup {NoRole}]]
      BY <1>12, <2>2 DEF ChangeSave, TypeOK
    <2>4. SetChange(c, Idle) /\ overlapped' \in BOOLEAN
      BY <1>12 DEF ChangeSave, TypeOK
    <2> QED
      BY <2>3, <2>4, TypeSetChange DEF TypeOK
  <1>13. CASE Tick
    BY <1>13 DEF Tick, TypeOK
  <1>14. CASE Restart
    BY <1>14 DEF Restart, TypeOK
  <1>15. CASE UNCHANGED vars
    BY <1>15 DEF vars, TypeOK
  <1> QED
    BY <1>1, <1>2, <1>3, <1>4, <1>5, <1>6, <1>7, <1>8, <1>9, <1>10, <1>11, <1>12,
       <1>13, <1>14, <1>15 DEF Next

\* Every variable keeps its type, however requests are interleaved or cut short.
THEOREM TypeCorrect == Spec => []TypeOK
  BY TypeInit, TypeStep, PTL DEF Spec

-----------------------------------------------------------------------------
(* Accepted invitations.  A request on its way to the second save holds a    *)
(* copy of its invitation and must have seen its user a member; members stay.*)

AcceptSound(k) ==
    accept[k] # Idle =>
        LET i == accept[k].invitation
        IN /\ i.email = accept[k].user
           /\ i \in invitations \/ [i EXCEPT !.status = "ACCEPTED"] \in invitations
           /\ accept[k].pc = "mark" => IsMember(i.agency, i.email)
AcceptsSound == \A k \in Accepts : AcceptSound(k)
TokensUnique == \A i, j \in invitations : i.token = j.token => i = j

AInv == TypeOK /\ AcceptsSound /\ AcceptedIsMember /\ TokensUnique

\* No step takes a membership away.
LEMMA MembersStay ==
    ASSUME TypeOK, [Next]_vars, NEW b \in Agencies, NEW v \in Users, IsMember(b, v)
    PROVE  IsMember(b, v)'
  <1> USE NoRoleAssumption DEF IsMember
  <1>1. ASSUME NEW a \in Agencies, NEW u \in Users, NEW r \in Roles,
               role' = [role EXCEPT ![a][u] = r]
        PROVE  role'[b][v] # NoRole
    BY <1>1 DEF TypeOK
  <1>2. ASSUME UNCHANGED role PROVE role'[b][v] # NoRole
    BY <1>2
  <1>3. ASSUME NEW a \in Agencies, NEW u \in Users, CreateOwner(a, u)
        PROVE  role'[b][v] # NoRole
    BY <1>1, <1>3 DEF CreateOwner, Roles
  <1>4. ASSUME NEW k \in Accepts, AcceptJoin(k) PROVE role'[b][v] # NoRole
    <2>1. accept[k] \in AcceptTask
      BY <1>4 DEF AcceptJoin, TypeOK
    <2>2. accept[k].invitation \in Invitation /\ accept[k].user \in Users
      BY <2>1 DEF AcceptTask
    <2>3. accept[k].invitation.agency \in Agencies /\ accept[k].invitation.role \in Roles
      BY <2>2 DEF Invitation
    <2> QED
      BY <1>1, <1>2, <1>4, <2>2, <2>3 DEF AcceptJoin
  <1>5. ASSUME NEW c \in Changes, ChangeSave(c) PROVE role'[b][v] # NoRole
    <2>1. change[c] \in ChangeTask
      BY <1>5 DEF ChangeSave, TypeOK
    <2>2. change[c].agency \in Agencies /\ change[c].member \in Users /\ change[c].role \in Roles
      BY <2>1 DEF ChangeTask
    <2> QED
      BY <1>1, <1>5, <2>2 DEF ChangeSave
  <1>6. CASE \E a \in Agencies, u \in Users :
                 \/ CreateAgency(a, u) \/ InviteAllowed(a, u)
                 \/ \E t \in Tokens, email \in Users, r \in Requested :
                        InviteMember(a, u, t, email, r)
                 \/ \E c \in Changes, by \in Users, r \in Requested :
                        ChangeAllowed(c, by, a, u, r)
    BY <1>2, <1>6 DEF CreateAgency, InviteAllowed, InviteMember, ChangeAllowed
  <1>7. CASE \E k \in Accepts :
                 \/ \E u \in Users, i \in invitations : AcceptFind(k, u, i)
                 \/ AcceptLookup(k) \/ AcceptMark(k)
    BY <1>2, <1>7 DEF AcceptFind, AcceptLookup, AcceptMark
  <1>8. CASE \E c \in Changes : ChangeRead(c) \/ ChangeCount(c)
    BY <1>2, <1>8 DEF ChangeRead, ChangeCount
  <1>9. CASE Tick \/ Restart \/ UNCHANGED vars
    BY <1>2, <1>9 DEF Tick, Restart, vars
  <1> QED
    BY <1>3, <1>4, <1>5, <1>6, <1>7, <1>8, <1>9 DEF Next

LEMMA AInvInit == Init => AInv
  BY TypeInit DEF Init, AInv, AcceptsSound, AcceptSound, AcceptedIsMember, TokensUnique

\* What steps that leave the requests and the invitations alone preserve.
LEMMA AInvQuiet ==
    ASSUME AInv, [Next]_vars, UNCHANGED <<accept, invitations>>
    PROVE  AInv'
  <1>1. TypeOK /\ TypeOK'
    BY TypeStep DEF AInv
  <1>2. AcceptsSound'
    <2> SUFFICES ASSUME NEW k \in Accepts, accept[k] # Idle PROVE AcceptSound(k)'
      BY DEF AcceptsSound, AcceptSound
    <2>1. accept[k].invitation \in Invitation
      BY <1>1 DEF TypeOK, AcceptTask
    <2>2. accept[k].invitation.agency \in Agencies /\ accept[k].invitation.email \in Users
      BY <2>1 DEF Invitation
    <2>3. AcceptSound(k)
      BY DEF AInv, AcceptsSound
    <2> QED
      BY <1>1, <2>2, <2>3, MembersStay DEF AcceptSound
  <1>3. AcceptedIsMember'
    <2> SUFFICES ASSUME NEW i \in invitations, i.status = "ACCEPTED"
                 PROVE  IsMember(i.agency, i.email)'
      BY DEF AcceptedIsMember
    <2>1. i.agency \in Agencies /\ i.email \in Users
      BY <1>1 DEF TypeOK, Invitation
    <2> QED
      BY <1>1, <2>1, MembersStay DEF AInv, AcceptedIsMember
  <1> QED
    BY <1>1, <1>2, <1>3 DEF AInv, TokensUnique

\* Moving one request on, or ending it, while the invitations stay.
LEMMA AInvSetAccept ==
    ASSUME AInv, [Next]_vars, UNCHANGED invitations,
           NEW k \in Accepts, NEW task, SetAccept(k, task), AcceptSound(k)'
    PROVE  AInv'
  <1>1. TypeOK /\ TypeOK'
    BY TypeStep DEF AInv
  <1>2. AcceptsSound'
    <2> SUFFICES ASSUME NEW l \in Accepts, l # k, accept[l] # Idle PROVE AcceptSound(l)'
      BY <1>1 DEF AcceptsSound, AcceptSound, SetAccept, TypeOK
    <2>1. accept'[l] = accept[l]
      BY <1>1 DEF SetAccept, TypeOK
    <2>2. accept[l].invitation \in Invitation
      BY <1>1 DEF TypeOK, AcceptTask
    <2>3. accept[l].invitation.agency \in Agencies /\ accept[l].invitation.email \in Users
      BY <2>2 DEF Invitation
    <2>4. AcceptSound(l)
      BY DEF AInv, AcceptsSound
    <2> QED
      BY <1>1, <2>1, <2>3, <2>4, MembersStay DEF AcceptSound
  <1>3. AcceptedIsMember'
    <2> SUFFICES ASSUME NEW i \in invitations, i.status = "ACCEPTED"
                 PROVE  IsMember(i.agency, i.email)'
      BY DEF AcceptedIsMember
    <2>1. i.agency \in Agencies /\ i.email \in Users
      BY <1>1 DEF TypeOK, Invitation
    <2> QED
      BY <1>1, <2>1, MembersStay DEF AInv, AcceptedIsMember
  <1> QED
    BY <1>1, <1>2, <1>3 DEF AInv, TokensUnique

LEMMA AInvInviteMember ==
    ASSUME AInv, [Next]_vars, NEW a \in Agencies, NEW by \in Users, NEW t \in Tokens,
           NEW email \in Users, NEW r \in Requested, InviteMember(a, by, t, email, r)
    PROVE  AInv'
  <1> DEFINE new == [token |-> t, agency |-> a, email |-> email, role |-> r,
                     status |-> "PENDING", expiresAt |-> now + Lifetime]
  <1>1. TypeOK /\ TypeOK'
    BY TypeStep DEF AInv
  <1>2. /\ invitations' = invitations \cup {new}
        /\ UNCHANGED <<role, accept>>
        /\ \A i \in invitations : i.token # t
    BY DEF InviteMember
  <1>3. new.status = "PENDING" /\ new.token = t
    OBVIOUS
  <1> HIDE DEF new
  <1>4. AcceptsSound'
    BY <1>2 DEF AInv, AcceptsSound, AcceptSound, IsMember
  <1>5. AcceptedIsMember'
    BY <1>2, <1>3 DEF AInv, AcceptedIsMember, IsMember
  <1>6. TokensUnique'
    BY <1>2, <1>3 DEF AInv, TokensUnique
  <1> QED
    BY <1>1, <1>4, <1>5, <1>6 DEF AInv

\* The second save: only the copy of this invitation is replaced.
LEMMA AInvAcceptMark ==
    ASSUME AInv, [Next]_vars, NEW k \in Accepts, AcceptMark(k)
    PROVE  AInv'
  <1> DEFINE i == accept[k].invitation
             done == [i EXCEPT !.status = "ACCEPTED"]
  <1>1. TypeOK /\ TypeOK' /\ TokensUnique
    BY TypeStep DEF AInv
  <1>2. accept[k] \in AcceptTask /\ AcceptSound(k)
    BY <1>1 DEF AcceptMark, TypeOK, AInv, AcceptsSound
  <1>3. i \in Invitation
    BY <1>2 DEF AcceptTask
  <1>4. /\ done.token = i.token /\ done.agency = i.agency /\ done.email = i.email
        /\ done.status = "ACCEPTED"
        /\ i = done \/ i.status = "PENDING"
    BY <1>3 DEF Invitation
  <1>5. i \in invitations \/ done \in invitations
    BY <1>2 DEF AcceptMark, AcceptSound
  <1>6. invitations' = {x \in invitations : x.token # i.token} \cup {done}
    BY DEF AcceptMark
  <1>7. UNCHANGED role /\ accept' = [accept EXCEPT ![k] = Idle]
    BY DEF AcceptMark, SetAccept
  <1>8. IsMember(i.agency, i.email)
    BY <1>2 DEF AcceptMark, AcceptSound
  <1>9. AcceptsSound'
    <2> SUFFICES ASSUME NEW l \in Accepts, l # k, accept[l] # Idle PROVE AcceptSound(l)'
      BY <1>1, <1>7 DEF AcceptsSound, AcceptSound, TypeOK
    <2> DEFINE j == accept[l].invitation
               doneJ == [j EXCEPT !.status = "ACCEPTED"]
    <2>1. accept'[l] = accept[l]
      BY <1>1, <1>7 DEF TypeOK
    <2>2. accept[l] \in AcceptTask /\ AcceptSound(l)
      BY <1>1 DEF TypeOK, AInv, AcceptsSound
    <2>3. j \in Invitation /\ doneJ.token = j.token
      BY <2>2 DEF AcceptTask, Invitation
    <2>4. j \in invitations \/ doneJ \in invitations
      BY <2>2 DEF AcceptSound
    <2>5. j \in invitations' \/ doneJ \in invitations'
      <3>1. CASE j.token # i.token
        BY <3>1, <2>3, <2>4, <1>6
      <3>2. CASE j.token = i.token
        <4>1. \/ j = i \/ j = done \/ doneJ = i \/ doneJ = done
          BY <3>2, <1>1, <1>4, <1>5, <2>3, <2>4 DEF TokensUnique
        <4>2. done = [done EXCEPT !.status = "ACCEPTED"]
              /\ doneJ = [doneJ EXCEPT !.status = "ACCEPTED"]
          BY <1>3, <2>3 DEF Invitation
        <4>3. doneJ = done
          BY <4>1, <4>2
        <4> QED
          BY <4>3, <1>6
      <3> QED
        BY <3>1, <3>2
    <2>6. /\ j.email = accept[l].user
          /\ accept[l].pc = "mark" => IsMember(j.agency, j.email)
      BY <2>2 DEF AcceptSound
    <2> HIDE DEF i, done
    <2> QED
      BY <1>7, <2>1, <2>5, <2>6 DEF AcceptSound, IsMember
  <1> HIDE DEF i, done
  <1>10. AcceptedIsMember'
    BY <1>4, <1>6, <1>7, <1>8 DEF AInv, AcceptedIsMember, IsMember
  <1>11. TokensUnique'
    BY <1>1, <1>4, <1>6 DEF TokensUnique
  <1> QED
    BY <1>1, <1>9, <1>10, <1>11 DEF AInv

LEMMA AInvStep == AInv /\ [Next]_vars => AInv'
  <1> SUFFICES ASSUME AInv, [Next]_vars PROVE AInv'
    OBVIOUS
  <1>1. TypeOK /\ TypeOK'
    BY TypeStep DEF AInv
  <1>2. CASE \E a \in Agencies, u \in Users :
                 \/ CreateAgency(a, u) \/ CreateOwner(a, u) \/ InviteAllowed(a, u)
                 \/ \E c \in Changes, by \in Users, r \in Requested :
                        ChangeAllowed(c, by, a, u, r)
    BY <1>2, AInvQuiet
       DEF CreateAgency, CreateOwner, InviteAllowed, ChangeAllowed, SetChange
  <1>3. CASE \E a \in Agencies, u \in Users, t \in Tokens, email \in Users,
                r \in Requested : InviteMember(a, u, t, email, r)
    BY <1>3, AInvInviteMember
  <1>4. ASSUME NEW k \in Accepts, NEW u \in Users, NEW i \in invitations,
               AcceptFind(k, u, i)
        PROVE  AInv'
    <2> DEFINE task == [pc |-> "lookup", user |-> u, invitation |-> i]
    <2>1. SetAccept(k, task) /\ UNCHANGED invitations /\ i.email = u
      BY <1>4 DEF AcceptFind, Usable
    <2>2. accept'[k] = task
      BY <1>1, <2>1 DEF SetAccept, TypeOK
    <2>3. task.pc = "lookup" /\ task.user = u /\ task.invitation = i
      OBVIOUS
    <2> HIDE DEF task
    <2>4. AcceptSound(k)'
      BY <2>1, <2>2, <2>3 DEF AcceptSound
    <2> QED
      BY <2>1, <2>4, AInvSetAccept
  <1>5. ASSUME NEW k \in Accepts, AcceptLookup(k) PROVE AInv'
    <2> DEFINE i == accept[k].invitation
               task == [accept[k] EXCEPT !.pc =
                           AfterLookup(IsMember(i.agency, accept[k].user))]
    <2>1. accept[k] \in AcceptTask /\ AcceptSound(k) /\ accept[k] # Idle
      BY <1>1, <1>5 DEF AcceptLookup, TypeOK, AInv, AcceptsSound
    <2>2. SetAccept(k, task) /\ UNCHANGED <<role, invitations>>
      BY <1>5 DEF AcceptLookup
    <2>3. /\ task.user = accept[k].user /\ task.invitation = i
          /\ task.pc = "mark" => IsMember(i.agency, accept[k].user)
      BY <2>1 DEF AcceptTask, AfterLookup
    <2>4. accept'[k] = task
      BY <1>1, <2>2 DEF SetAccept, TypeOK
    <2> HIDE DEF task
    <2>5. AcceptSound(k)'
      BY <2>1, <2>2, <2>3, <2>4 DEF AcceptSound, IsMember
    <2> QED
      BY <2>2, <2>5, AInvSetAccept
  <1>6. ASSUME NEW k \in Accepts, AcceptJoin(k) PROVE AInv'
    <2> DEFINE i == accept[k].invitation
               task == [accept[k] EXCEPT !.pc = "mark"]
    <2>1. accept[k] \in AcceptTask /\ AcceptSound(k) /\ accept[k] # Idle
      BY <1>1, <1>6 DEF AcceptJoin, TypeOK, AInv, AcceptsSound
    <2>2. /\ i \in Invitation /\ accept[k].user \in Users
          /\ task.user = accept[k].user /\ task.invitation = i
      BY <2>1 DEF AcceptTask
    <2>3. i.agency \in Agencies /\ i.role \in Roles /\ i.email = accept[k].user
      BY <2>1, <2>2 DEF Invitation, AcceptSound
    <2>4. UNCHANGED invitations
      BY <1>6 DEF AcceptJoin
    <2>5. CASE SetAccept(k, Idle)
      <3>1. AcceptSound(k)'
        BY <1>1, <2>5 DEF SetAccept, TypeOK, AcceptSound
      <3> QED
        BY <2>4, <2>5, <3>1, AInvSetAccept
    <2>6. CASE role' = [role EXCEPT ![i.agency][accept[k].user] = i.role]
               /\ SetAccept(k, task)
      <3>1. role'[i.agency][i.email] = i.role
        BY <1>1, <2>2, <2>3, <2>6 DEF TypeOK
      <3>2. role'[i.agency][i.email] # NoRole
        BY <2>3, <3>1, NoRoleAssumption
      <3>3. accept'[k] = task
        BY <1>1, <2>6 DEF SetAccept, TypeOK
      <3> HIDE DEF task
      <3>4. AcceptSound(k)'
        BY <2>1, <2>2, <2>3, <2>4, <3>2, <3>3 DEF AcceptSound, IsMember
      <3> QED
        BY <2>4, <2>6, <3>4, AInvSetAccept
    <2> QED
      BY <1>6, <2>5, <2>6 DEF AcceptJoin
  <1>7. ASSUME NEW k \in Accepts, AcceptMark(k) PROVE AInv'
    BY <1>7, AInvAcceptMark
  <1>8. CASE \E c \in Changes : ChangeRead(c) \/ ChangeCount(c) \/ ChangeSave(c)
    BY <1>8, AInvQuiet DEF ChangeRead, ChangeCount, ChangeSave, SetChange
  <1>9. CASE Tick \/ UNCHANGED vars
    BY <1>9, AInvQuiet DEF Tick, vars
  <1>10. CASE Restart
    BY <1>1, <1>10 DEF Restart, AInv, AcceptsSound, AcceptSound, AcceptedIsMember,
                       TokensUnique, IsMember
  <1> QED
    BY <1>2, <1>3, <1>4, <1>5, <1>6, <1>7, <1>8, <1>9, <1>10 DEF Next

\* acceptInvitation never spends an invitation without making its user a member,
\* whatever requests run at once and wherever the process stops.
THEOREM AcceptedInvitationIsMember == Spec => []AcceptedIsMember
  <1>1. AInv => AcceptedIsMember
    BY DEF AInv
  <1> QED
    BY AInvInit, AInvStep, <1>1, PTL DEF Spec

-----------------------------------------------------------------------------
(* Members, with any number of requests at once.  Agencies fill in order:    *)
(* none has members before its founder, no invitation to it exists before it *)
(* has members, and a role change is about a row that is there.              *)

Empty(a) == \A u \in Users : ~IsMember(a, u)

SavedFirst == \A a \in Agencies : a \in agencies \/ Empty(a)
FoundingsSound ==
    /\ \A p \in founding : p[1] \in agencies /\ Empty(p[1])
    /\ \A p, q \in founding : p[1] = q[1] => p = q
GrantsSound ==
    /\ \A i \in invitations : ~Empty(i.agency)
    /\ \A p \in inviting : ~Empty(p[1])
TargetsSound ==
    \A c \in Changes : change[c] # Idle => IsMember(change[c].agency, change[c].member)

MInv == AInv /\ SavedFirst /\ FoundingsSound /\ GrantsSound /\ TargetsSound

LEMMA MInvInit == Init => MInv
  BY AInvInit DEF Init, MInv, SavedFirst, FoundingsSound, GrantsSound, TargetsSound,
                  Empty, IsMember

\* A membership is inserted only in an agency that has members.
LEMMA JoinFacts ==
    ASSUME AInv, GrantsSound, NEW k \in Accepts, AcceptJoin(k)
    PROVE  LET i == accept[k].invitation
           IN  /\ i \in Invitation /\ i.agency \in Agencies /\ i.email \in Users
               /\ i.role \in Roles /\ i.email = accept[k].user
               /\ ~Empty(i.agency)
               /\ i \in invitations \/ [i EXCEPT !.status = "ACCEPTED"] \in invitations
  <1> DEFINE i == accept[k].invitation
             done == [i EXCEPT !.status = "ACCEPTED"]
  <1>1. accept[k] \in AcceptTask /\ AcceptSound(k) /\ accept[k] # Idle
    BY DEF AcceptJoin, AInv, TypeOK, AcceptsSound
  <1>2. i \in Invitation
    BY <1>1 DEF AcceptTask
  <1>3. /\ i.agency \in Agencies /\ i.email \in Users /\ i.role \in Roles
        /\ done.agency = i.agency
    BY <1>2 DEF Invitation
  <1>4. i.email = accept[k].user /\ (i \in invitations \/ done \in invitations)
    BY <1>1 DEF AcceptSound
  <1>5. ~Empty(i.agency)
    BY <1>3, <1>4 DEF GrantsSound
  <1> QED
    BY <1>2, <1>3, <1>4, <1>5

\* What ChangeSave writes: a role in place of one that was there.
LEMMA SaveFacts ==
    ASSUME MInv, NEW c \in Changes, ChangeSave(c)
    PROVE  LET t == change[c]
           IN  /\ t \in ChangeTask /\ t.agency \in Agencies /\ t.member \in Users
               /\ t.role \in Roles /\ t.pc = "save" /\ IsMember(t.agency, t.member)
               /\ role' = [role EXCEPT ![t.agency][t.member] = t.role]
  <1>1. change[c] \in ChangeTask /\ IsMember(change[c].agency, change[c].member)
    BY DEF ChangeSave, MInv, AInv, TypeOK, TargetsSound
  <1> QED
    BY <1>1 DEF ChangeSave, ChangeTask

\* The steps that write a role, and what they write.
LEMMA RoleStep ==
    ASSUME MInv, [Next]_vars
    PROVE  \/ UNCHANGED role
           \/ \E a \in Agencies, u \in Users : CreateOwner(a, u) /\ Empty(a)
           \/ \E k \in Accepts :
                 LET i == accept[k].invitation
                 IN  /\ AcceptJoin(k) /\ ~Empty(i.agency)
                     /\ i.agency \in Agencies /\ i.email \in Users /\ i.role \in Roles
                     /\ ~IsMember(i.agency, i.email)
                     /\ role' = [role EXCEPT ![i.agency][i.email] = i.role]
           \/ \E c \in Changes : ChangeSave(c)
  <1>1. CASE \E a \in Agencies, u \in Users : CreateOwner(a, u)
    BY <1>1 DEF MInv, FoundingsSound, CreateOwner
  <1>2. CASE \E k \in Accepts : AcceptJoin(k)
    <2>1. PICK k \in Accepts : AcceptJoin(k)
      BY <1>2
    <2> DEFINE i == accept[k].invitation
    <2>2. /\ i.agency \in Agencies /\ i.email \in Users /\ i.role \in Roles
          /\ i.email = accept[k].user /\ ~Empty(i.agency)
      BY <2>1, JoinFacts DEF MInv
    <2>3. \/ UNCHANGED role
          \/ /\ ~IsMember(i.agency, i.email)
             /\ role' = [role EXCEPT ![i.agency][i.email] = i.role]
      BY <2>1, <2>2 DEF AcceptJoin
    <2> QED
      BY <2>1, <2>2, <2>3
  <1>3. CASE \E c \in Changes : ChangeSave(c)
    BY <1>3
  <1>4. CASE \E a \in Agencies, u \in Users :
                 \/ CreateAgency(a, u) \/ InviteAllowed(a, u)
                 \/ \E t \in Tokens, email \in Users, r \in Requested :
                        InviteMember(a, u, t, email, r)
                 \/ \E c \in Changes, by \in Users, r \in Requested :
                        ChangeAllowed(c, by, a, u, r)
    BY <1>4 DEF CreateAgency, InviteAllowed, InviteMember, ChangeAllowed
  <1>5. CASE \E k \in Accepts :
                 \/ \E u \in Users, i \in invitations : AcceptFind(k, u, i)
                 \/ AcceptLookup(k) \/ AcceptMark(k)
    BY <1>5 DEF AcceptFind, AcceptLookup, AcceptMark
  <1>6. CASE \E c \in Changes : ChangeRead(c) \/ ChangeCount(c)
    BY <1>6 DEF ChangeRead, ChangeCount
  <1>7. CASE Tick \/ Restart \/ UNCHANGED vars
    BY <1>7 DEF Tick, Restart, vars
  <1> QED
    BY <1>1, <1>2, <1>3, <1>4, <1>5, <1>6, <1>7 DEF Next

\* An agency without members stays so until its founder is saved.
LEMMA EmptyStays ==
    ASSUME MInv, [Next]_vars, NEW b \in Agencies, Empty(b),
           ~ \E u \in Users : CreateOwner(b, u)
    PROVE  Empty(b)'
  <1> USE NoRoleAssumption
  <1>1. TypeOK /\ \A u \in Users : role[b][u] = NoRole
    BY DEF MInv, AInv, Empty, IsMember
  <1>2. CASE UNCHANGED role
    BY <1>1, <1>2 DEF Empty, IsMember
  <1>3. CASE \E a \in Agencies, u \in Users : CreateOwner(a, u)
    BY <1>1, <1>3 DEF CreateOwner, Empty, IsMember, TypeOK
  <1>4. ASSUME NEW k \in Accepts, ~Empty(accept[k].invitation.agency),
               accept[k].invitation.agency \in Agencies,
               role' = [role EXCEPT ![accept[k].invitation.agency]
                               [accept[k].invitation.email] = accept[k].invitation.role]
        PROVE  Empty(b)'
    BY <1>1, <1>4 DEF Empty, IsMember, TypeOK, Roles
  <1>5. ASSUME NEW c \in Changes, ChangeSave(c) PROVE Empty(b)'
    <2> DEFINE t == change[c]
    <2>1. /\ t.agency \in Agencies /\ t.member \in Users /\ IsMember(t.agency, t.member)
          /\ role' = [role EXCEPT ![t.agency][t.member] = t.role]
      BY <1>5, SaveFacts
    <2> QED
      BY <1>1, <2>1 DEF Empty, IsMember, TypeOK
  <1> QED
    BY RoleStep, <1>2, <1>3, <1>4, <1>5

\* An agency that has members keeps some.
LEMMA MembersRemain ==
    ASSUME TypeOK, [Next]_vars, NEW b \in Agencies, ~Empty(b)
    PROVE  ~Empty(b)'
  BY MembersStay DEF Empty

\* Agencies and invitations: what a step may add.
LEMMA Additions ==
    ASSUME MInv, [Next]_vars
    PROVE  /\ agencies \subseteq agencies'
           /\ \A i \in invitations' : i.agency \in Agencies /\ ~Empty(i.agency)
           /\ \A p \in inviting' : p[1] \in Agencies /\ ~Empty(p[1])
  <1>1. TypeOK /\ GrantsSound
    BY DEF MInv, AInv
  <1>2. /\ \A i \in invitations : i.agency \in Agencies /\ ~Empty(i.agency)
        /\ \A p \in inviting : p[1] \in Agencies /\ ~Empty(p[1])
    BY <1>1 DEF TypeOK, Invitation, GrantsSound
  <1>3. ASSUME NEW k \in Accepts, AcceptMark(k)
        PROVE  \A i \in invitations' : i.agency \in Agencies /\ ~Empty(i.agency)
    <2> DEFINE i == accept[k].invitation
               done == [i EXCEPT !.status = "ACCEPTED"]
    <2>1. accept[k] \in AcceptTask /\ AcceptSound(k)
      BY <1>1, <1>3 DEF AcceptMark, TypeOK, MInv, AInv, AcceptsSound
    <2>2. i \in Invitation /\ (i \in invitations \/ done \in invitations)
      BY <1>3, <2>1 DEF AcceptTask, AcceptSound, AcceptMark
    <2>3. done.agency = i.agency
      BY <2>2 DEF Invitation
    <2>4. invitations' \subseteq invitations \cup {done}
      BY <1>3 DEF AcceptMark
    <2> HIDE DEF i, done
    <2> QED
      BY <1>2, <2>2, <2>3, <2>4
  <1>4. CASE \E a \in Agencies, u \in Users : CreateAgency(a, u) \/ CreateOwner(a, u)
    BY <1>2, <1>4 DEF CreateAgency, CreateOwner
  <1>5. CASE \E a \in Agencies, u \in Users : InviteAllowed(a, u)
    BY <1>2, <1>5, NoRoleAssumption DEF InviteAllowed, GuardOwner, Empty, IsMember, Roles
  <1>6. CASE \E a \in Agencies, u \in Users, t \in Tokens, email \in Users,
                r \in Requested : InviteMember(a, u, t, email, r)
    BY <1>2, <1>6 DEF InviteMember
  <1>7. CASE \E k \in Accepts :
                 \/ \E u \in Users, i \in invitations : AcceptFind(k, u, i)
                 \/ AcceptLookup(k) \/ AcceptJoin(k)
    BY <1>2, <1>7 DEF AcceptFind, AcceptLookup, AcceptJoin, SetAccept
  <1>8. CASE \E k \in Accepts : AcceptMark(k)
    BY <1>2, <1>3, <1>8 DEF AcceptMark, SetAccept
  <1>9. CASE \E c \in Changes :
                 \/ \E a \in Agencies, u \in Users, by \in Users, r \in Requested :
                        ChangeAllowed(c, by, a, u, r)
                 \/ ChangeRead(c) \/ ChangeCount(c) \/ ChangeSave(c)
    BY <1>2, <1>9 DEF ChangeAllowed, ChangeRead, ChangeCount, ChangeSave, SetChange
  <1>10. CASE Tick \/ Restart \/ UNCHANGED vars
    BY <1>2, <1>10 DEF Tick, Restart, vars
  <1> QED
    BY <1>4, <1>5, <1>6, <1>7, <1>8, <1>9, <1>10 DEF Next

\* createAgency requests: what a step may add.
LEMMA FoundingStep ==
    ASSUME [Next]_vars
    PROVE  \/ founding' \subseteq founding
           \/ \E a \in Agencies, u \in Users :
                  CreateAgency(a, u) /\ founding' = founding \cup {<<a, u>>}
  <1>1. CASE \E a \in Agencies, u \in Users : CreateAgency(a, u)
    BY <1>1 DEF CreateAgency
  <1>2. CASE \E a \in Agencies, u \in Users :
                 \/ CreateOwner(a, u) \/ InviteAllowed(a, u)
                 \/ \E t \in Tokens, email \in Users, r \in Requested :
                        InviteMember(a, u, t, email, r)
                 \/ \E c \in Changes, by \in Users, r \in Requested :
                        ChangeAllowed(c, by, a, u, r)
    BY <1>2 DEF CreateOwner, InviteAllowed, InviteMember, ChangeAllowed, SetChange
  <1>3. CASE \E k \in Accepts :
                 \/ \E u \in Users, i \in invitations : AcceptFind(k, u, i)
                 \/ AcceptLookup(k) \/ AcceptJoin(k) \/ AcceptMark(k)
    BY <1>3 DEF AcceptFind, AcceptLookup, AcceptJoin, AcceptMark, SetAccept
  <1>4. CASE \E c \in Changes : ChangeRead(c) \/ ChangeCount(c) \/ ChangeSave(c)
    BY <1>4 DEF ChangeRead, ChangeCount, ChangeSave, SetChange
  <1>5. CASE Tick \/ Restart \/ UNCHANGED vars
    BY <1>5 DEF Tick, Restart, vars
  <1> QED
    BY <1>1, <1>2, <1>3, <1>4, <1>5 DEF Next

LEMMA FoundingsKept ==
    ASSUME MInv, [Next]_vars PROVE FoundingsSound' /\ SavedFirst'
  <1>1. TypeOK /\ FoundingsSound /\ SavedFirst /\ agencies \subseteq agencies'
    BY Additions DEF MInv, AInv
  <1>2. ASSUME NEW a \in Agencies, NEW u \in Users, CreateOwner(a, u)
        PROVE  /\ founding' = founding \ {<<a, u>>} /\ <<a, u>> \in founding
               /\ a \in agencies
    BY <1>1, <1>2 DEF CreateOwner, TypeOK, FoundingsSound
  <1>3. FoundingsSound'
    <2>1. CASE founding' \subseteq founding
      <3>1. ASSUME NEW p \in founding' PROVE p[1] \in agencies' /\ Empty(p[1])'
        <4>1. p \in founding /\ p[1] \in Agencies /\ p[1] \in agencies /\ Empty(p[1])
          BY <1>1, <2>1 DEF TypeOK, FoundingsSound
        <4>2. ASSUME NEW u \in Users, CreateOwner(p[1], u) PROVE FALSE
          <5>1. <<p[1], u>> = p
            BY <1>1, <1>2, <4>1, <4>2 DEF FoundingsSound
          <5> QED
            BY <1>2, <4>1, <4>2, <5>1
        <4> QED
          BY <1>1, <4>1, <4>2, EmptyStays
      <3> QED
        BY <1>1, <2>1, <3>1 DEF FoundingsSound
    <2>2. ASSUME NEW a \in Agencies, NEW u \in Users, CreateAgency(a, u),
                 founding' = founding \cup {<<a, u>>}
          PROVE  FoundingsSound'
      <3>1. a \notin agencies /\ agencies' = agencies \cup {a} /\ UNCHANGED role
        BY <2>2 DEF CreateAgency
      <3>2. Empty(a)
        BY <1>1, <3>1 DEF SavedFirst
      <3>3. \A p \in founding : p[1] # a
        BY <1>1, <3>1 DEF FoundingsSound
      <3>4. ASSUME NEW p \in founding' PROVE p[1] \in agencies' /\ Empty(p[1])'
        BY <1>1, <2>2, <3>1, <3>2 DEF FoundingsSound, Empty, IsMember
      <3>5. \A p, q \in founding' : p[1] = q[1] => p = q
        BY <1>1, <2>2, <3>3 DEF FoundingsSound
      <3> QED
        BY <3>4, <3>5 DEF FoundingsSound
    <2> QED
      BY <2>1, <2>2, FoundingStep
  <1>4. SavedFirst'
    <2> SUFFICES ASSUME NEW b \in Agencies PROVE b \in agencies' \/ Empty(b)'
      BY DEF SavedFirst
    <2> QED
      BY <1>1, <1>2, EmptyStays DEF SavedFirst
  <1> QED
    BY <1>3, <1>4

LEMMA GrantsKept ==
    ASSUME MInv, [Next]_vars PROVE GrantsSound'
  BY Additions, MembersRemain DEF GrantsSound, MInv, AInv

\* A role change ends, waits, begins, or is moved by its own step.
LEMMA ChangeStep ==
    ASSUME TypeOK, [Next]_vars, NEW c \in Changes
    PROVE  \/ change'[c] = Idle
           \/ change'[c] = change[c]
           \/ \E a \in Agencies, u \in Users, by \in Users, r \in Requested :
                  ChangeAllowed(c, by, a, u, r)
           \/ ChangeRead(c)
           \/ ChangeCount(c)
  <1>1. ASSUME NEW d \in Changes, NEW task, SetChange(d, task), d # c
        PROVE  change'[c] = change[c]
    BY <1>1 DEF SetChange, TypeOK
  <1>2. ASSUME NEW a \in Agencies, NEW u \in Users, NEW d \in Changes, NEW by \in Users,
               NEW r \in Requested, ChangeAllowed(d, by, a, u, r), d # c
        PROVE  change'[c] = change[c]
    BY <1>1, <1>2 DEF ChangeAllowed
  <1>3. ASSUME NEW d \in Changes, ChangeRead(d) \/ ChangeCount(d), d # c
        PROVE  change'[c] = change[c]
    BY <1>1, <1>3 DEF ChangeRead, ChangeCount
  <1>4. ASSUME NEW d \in Changes, ChangeSave(d)
        PROVE  change'[c] = Idle \/ change'[c] = change[c]
    BY <1>4 DEF ChangeSave, SetChange, TypeOK
  <1>5. CASE \E a \in Agencies, u \in Users :
                 \/ CreateAgency(a, u) \/ CreateOwner(a, u) \/ InviteAllowed(a, u)
                 \/ \E t \in Tokens, email \in Users, r \in Requested :
                        InviteMember(a, u, t, email, r)
    BY <1>5 DEF CreateAgency, CreateOwner, InviteAllowed, InviteMember
  <1>6. CASE \E k \in Accepts :
                 \/ \E u \in Users, i \in invitations : AcceptFind(k, u, i)
                 \/ AcceptLookup(k) \/ AcceptJoin(k) \/ AcceptMark(k)
    BY <1>6 DEF AcceptFind, AcceptLookup, AcceptJoin, AcceptMark, SetAccept
  <1>7. CASE Tick \/ Restart \/ UNCHANGED vars
    BY <1>7 DEF Tick, Restart, vars
  <1> QED
    BY <1>2, <1>3, <1>4, <1>5, <1>6, <1>7 DEF Next

\* What ChangeRead and ChangeCount leave as it is, and what they have seen when the
\* save is next.
LEMMA ChangeMoves ==
    ASSUME TypeOK, NEW c \in Changes, ChangeRead(c) \/ ChangeCount(c), change'[c] # Idle
    PROVE  LET t == change[c]
           IN  /\ t # Idle /\ t.agency \in Agencies /\ t.member \in Users
               /\ change'[c].agency = t.agency /\ change'[c].member = t.member
               /\ change'[c].role = t.role
               /\ UNCHANGED <<role, overlapped>>
               /\ change'[c].pc = "save" =>
                      \/ ~(t.role # "OWNER" /\ role[t.agency][t.member] = "OWNER")
                      \/ ~LastOwner(Owners(t.agency))
  <1> DEFINE t == change[c]
             Now(pc) == [t EXCEPT !.pc = pc]
  <1>1. t \in ChangeTask /\ t # Idle /\ UNCHANGED <<role, overlapped>>
    BY DEF ChangeRead, ChangeCount, TypeOK
  <1>2. \A pc : /\ Now(pc).agency = t.agency /\ Now(pc).member = t.member
                /\ Now(pc).role = t.role /\ Now(pc).pc = pc
    BY <1>1 DEF ChangeTask
  <1>3. t.agency \in Agencies /\ t.member \in Users
    BY <1>1 DEF ChangeTask
  <1>4. \/ change'[c] = Now("count")
        \/ /\ change'[c] = Now("save")
           /\ \/ ~(t.role # "OWNER" /\ role[t.agency][t.member] = "OWNER")
              \/ ~LastOwner(Owners(t.agency))
    <2>1. CASE ChangeRead(c)
      BY <1>1, <2>1 DEF ChangeRead, SetChange, TypeOK
    <2>2. CASE ChangeCount(c)
      BY <1>1, <2>2 DEF ChangeCount, SetChange, TypeOK
    <2> QED
      BY <2>1, <2>2
  <1> HIDE DEF Now
  <1> QED
    BY <1>1, <1>2, <1>3, <1>4

LEMMA TargetsKept ==
    ASSUME MInv, [Next]_vars PROVE TargetsSound'
  <1> SUFFICES ASSUME NEW c \in Changes, change'[c] # Idle
               PROVE  IsMember(change[c].agency, change[c].member)'
    BY DEF TargetsSound
  <1>1. TypeOK /\ TargetsSound
    BY DEF MInv, AInv
  <1>2. ASSUME change[c] # Idle, change'[c].agency = change[c].agency,
               change'[c].member = change[c].member
        PROVE  IsMember(change[c].agency, change[c].member)'
    <2>1. change[c].agency \in Agencies /\ change[c].member \in Users
      BY <1>1, <1>2 DEF TypeOK, ChangeTask
    <2>2. IsMember(change[c].agency, change[c].member)
      BY <1>1, <1>2 DEF TargetsSound
    <2>3. role'[change[c].agency][change[c].member] # NoRole
      BY <1>1, <2>1, <2>2, MembersStay DEF IsMember
    <2> QED
      BY <1>2, <2>3 DEF IsMember
  <1>3. ASSUME NEW a \in Agencies, NEW u \in Users, NEW by \in Users,
               NEW r \in Requested, ChangeAllowed(c, by, a, u, r)
        PROVE  IsMember(change[c].agency, change[c].member)'
    <2> DEFINE task == [pc |-> "read", agency |-> a, member |-> u, role |-> r]
    <2>1. change'[c] = task /\ UNCHANGED role /\ IsMember(a, u)
      BY <1>1, <1>3 DEF ChangeAllowed, SetChange, TypeOK
    <2> QED
      BY <2>1 DEF IsMember
  <1>4. CASE change'[c] = change[c]
    BY <1>2, <1>4
  <1>5. CASE ChangeRead(c) \/ ChangeCount(c)
    BY <1>1, <1>2, <1>5, ChangeMoves
  <1> QED
    BY <1>1, <1>3, <1>4, <1>5, ChangeStep

LEMMA MInvStep == MInv /\ [Next]_vars => MInv'
  BY AInvStep, FoundingsKept, GrantsKept, TargetsKept DEF MInv

-----------------------------------------------------------------------------
(* Owners, as long as no two role changes have met.  The count a role change *)
(* relies on is still true when it saves: no step but a role change takes    *)
(* the role OWNER away, and this one runs alone.                             *)

Owned(a) == \E u \in Users : role[a][u] = "OWNER"
OwnersKept == \A a \in Agencies : Empty(a) \/ Owned(a)

Alone == \A c, d \in Changes : change[c] # Idle /\ change[d] # Idle => c = d

Demotes(t) == t.role # "OWNER" /\ role[t.agency][t.member] = "OWNER"
Backed(t) == \E v \in Users \ {t.member} : role[t.agency][v] = "OWNER"
CountHolds(c) ==
    change[c] # Idle =>
        (change[c].pc = "save" /\ Demotes(change[c]) => Backed(change[c]))
CountsHold == \A c \in Changes : CountHolds(c)

OInv == OwnersKept /\ Alone /\ CountsHold
IInv == MInv /\ (~overlapped => OInv)

LEMMA IInvInit == Init => IInv
  BY MInvInit DEF Init, IInv, OInv, OwnersKept, Alone, CountsHold, CountHolds, Empty,
                  IsMember

\* Two owners are enough for one to step down.
LEMMA CountFacts ==
    ASSUME TypeOK, NEW a \in Agencies, NEW m \in Users, role[a][m] = "OWNER",
           ~LastOwner(Owners(a))
    PROVE  \E v \in Users \ {m} : role[a][v] = "OWNER"
  <1> SUFFICES ASSUME \A v \in Users \ {m} : role[a][v] # "OWNER" PROVE FALSE
    OBVIOUS
  <1>1. Owners(a) = {m}
    BY DEF Owners
  <1>2. Cardinality(Owners(a)) = 1
    BY <1>1, FS_Singleton
  <1> QED
    BY <1>2 DEF LastOwner

\* The history only grows.
LEMMA OverlappedStays ==
    ASSUME TypeOK, [Next]_vars, overlapped PROVE overlapped'
  <1>1. ASSUME NEW a \in Agencies, NEW u \in Users, NEW c \in Changes, NEW by \in Users,
               NEW r \in Requested, ChangeAllowed(c, by, a, u, r)
        PROVE  overlapped'
    BY <1>1 DEF ChangeAllowed
  <1>2. CASE \E a \in Agencies, u \in Users :
                 \/ CreateAgency(a, u) \/ CreateOwner(a, u) \/ InviteAllowed(a, u)
                 \/ \E t \in Tokens, email \in Users, r \in Requested :
                        InviteMember(a, u, t, email, r)
    BY <1>2 DEF CreateAgency, CreateOwner, InviteAllowed, InviteMember
  <1>3. CASE \E k \in Accepts :
                 \/ \E u \in Users, i \in invitations : AcceptFind(k, u, i)
                 \/ AcceptLookup(k) \/ AcceptJoin(k) \/ AcceptMark(k)
    BY <1>3 DEF AcceptFind, AcceptLookup, AcceptJoin, AcceptMark, SetAccept
  <1>4. CASE \E c \in Changes : ChangeRead(c) \/ ChangeCount(c) \/ ChangeSave(c)
    BY <1>4 DEF ChangeRead, ChangeCount, ChangeSave
  <1>5. CASE Tick \/ Restart \/ UNCHANGED vars
    BY <1>5 DEF Tick, Restart, vars
  <1> QED
    BY <1>1, <1>2, <1>3, <1>4, <1>5 DEF Next

\* An agency that has an owner keeps one.
LEMMA OwnedStays ==
    ASSUME MInv, CountsHold, [Next]_vars, NEW b \in Agencies, Owned(b)
    PROVE  Owned(b)'
  <1> USE NoRoleAssumption
  <1>1. PICK o \in Users : role[b][o] = "OWNER"
    BY DEF Owned
  <1>2. TypeOK
    BY DEF MInv, AInv
  <1>3. CASE UNCHANGED role
    BY <1>1, <1>3 DEF Owned
  <1>4. CASE \E a \in Agencies, u \in Users : CreateOwner(a, u)
    BY <1>1, <1>2, <1>4 DEF CreateOwner, Owned, TypeOK
  <1>5. ASSUME NEW k \in Accepts,
               ~IsMember(accept[k].invitation.agency, accept[k].invitation.email),
               role' = [role EXCEPT ![accept[k].invitation.agency]
                               [accept[k].invitation.email] = accept[k].invitation.role]
        PROVE  Owned(b)'
    BY <1>1, <1>2, <1>5 DEF Owned, TypeOK, IsMember, Roles
  <1>6. ASSUME NEW c \in Changes, ChangeSave(c) PROVE Owned(b)'
    <2> DEFINE t == change[c]
    <2>1. /\ t.agency \in Agencies /\ t.member \in Users
          /\ t.pc = "save" /\ t # Idle
          /\ role' = [role EXCEPT ![t.agency][t.member] = t.role]
      BY <1>6, SaveFacts DEF ChangeSave
    <2>2. Demotes(t) => Backed(t)
      BY <2>1 DEF CountsHold, CountHolds
    <2>3. CASE t.agency = b /\ Demotes(t)
      <3>1. PICK v \in Users \ {t.member} : role[b][v] = "OWNER"
        BY <2>2, <2>3 DEF Backed
      <3>2. role'[b][v] = "OWNER"
        BY <1>2, <2>1, <3>1 DEF TypeOK
      <3> QED
        BY <3>2 DEF Owned
    <2>4. CASE ~(t.agency = b /\ Demotes(t))
      <3>1. role'[b][o] = "OWNER"
        BY <1>1, <1>2, <2>1, <2>4 DEF Demotes, TypeOK
      <3> QED
        BY <3>1 DEF Owned
    <2> QED
      BY <2>3, <2>4
  <1> QED
    BY RoleStep, <1>3, <1>4, <1>5, <1>6

LEMMA OwnersStep ==
    ASSUME MInv, OwnersKept, CountsHold, [Next]_vars PROVE OwnersKept'
  <1> SUFFICES ASSUME NEW b \in Agencies PROVE Empty(b)' \/ Owned(b)'
    BY DEF OwnersKept
  <1>1. ASSUME NEW u \in Users, CreateOwner(b, u) PROVE Owned(b)'
    BY <1>1 DEF CreateOwner, Owned, MInv, AInv, TypeOK
  <1> QED
    BY <1>1, OwnedStays, EmptyStays DEF OwnersKept

\* A role change begins alone, or two have met.
LEMMA AloneStep ==
    ASSUME TypeOK, Alone, [Next]_vars, ~overlapped' PROVE Alone'
  <1>1. ASSUME NEW c \in Changes, NEW a \in Agencies, NEW u \in Users, NEW by \in Users,
               NEW r \in Requested, ChangeAllowed(c, by, a, u, r)
        PROVE  Alone'
    <2>1. \A d \in Changes \ {c} : change[d] = Idle /\ change'[d] = Idle
      BY <1>1 DEF ChangeAllowed, SetChange, TypeOK
    <2> QED
      BY <2>1 DEF Alone
  <1>2. ASSUME ~ \E c \in Changes, a \in Agencies, u \in Users, by \in Users,
                    r \in Requested : ChangeAllowed(c, by, a, u, r)
        PROVE  Alone'
    <2>1. ASSUME NEW c \in Changes, change'[c] # Idle PROVE change[c] # Idle
      BY <1>2, <2>1, ChangeStep DEF ChangeRead, ChangeCount
    <2> QED
      BY <2>1 DEF Alone
  <1> QED
    BY <1>1, <1>2

\* A role change that is not itself moving keeps what it has counted on.
LEMMA ChangeWaits ==
    ASSUME MInv, OInv, [Next]_vars, NEW c \in Changes, change'[c] = change[c]
    PROVE  CountHolds(c)'
  <1> SUFFICES ASSUME change[c] # Idle PROVE CountHolds(c)'
    BY DEF CountHolds
  <1> DEFINE t == change[c]
  <1>1. TypeOK /\ CountHolds(c) /\ t \in ChangeTask
    BY DEF MInv, OInv, AInv, CountsHold, TypeOK
  <1>2. /\ t.agency \in Agencies /\ t.member \in Users
        /\ t.pc = "save" /\ Demotes(t) => Backed(t)
    BY <1>1 DEF ChangeTask, CountHolds
  <1>3. IsMember(t.agency, t.member)
    BY DEF MInv, TargetsSound
  <1>4. ASSUME t.pc = "save", t.role # "OWNER", role'[t.agency][t.member] = "OWNER"
        PROVE  \E v \in Users \ {t.member} : role'[t.agency][v] = "OWNER"
    <2>1. CASE UNCHANGED role
      BY <1>2, <1>4, <2>1 DEF Demotes, Backed
    <2>2. ASSUME NEW a \in Agencies, NEW u \in Users, CreateOwner(a, u), Empty(a)
          PROVE  \E v \in Users \ {t.member} : role'[t.agency][v] = "OWNER"
      <3>1. a # t.agency /\ role' = [role EXCEPT ![a][u] = "OWNER"]
        BY <1>2, <1>3, <2>2 DEF Empty, CreateOwner
      <3>2. role'[t.agency] = role[t.agency]
        BY <1>1, <1>2, <3>1 DEF TypeOK
      <3> QED
        BY <1>2, <1>4, <3>2 DEF Demotes, Backed
    <2>3. ASSUME NEW k \in Accepts,
                 ~IsMember(accept[k].invitation.agency, accept[k].invitation.email),
                 role' = [role EXCEPT ![accept[k].invitation.agency]
                                [accept[k].invitation.email] = accept[k].invitation.role]
          PROVE  \E v \in Users \ {t.member} : role'[t.agency][v] = "OWNER"
      <3>1. \A v \in Users : role[t.agency][v] # NoRole => role'[t.agency][v] = role[t.agency][v]
        BY <1>1, <1>2, <2>3 DEF IsMember, TypeOK
      <3> QED
        BY <1>2, <1>3, <1>4, <3>1, NoRoleAssumption DEF Demotes, Backed, IsMember, Roles
    <2>4. ASSUME NEW d \in Changes, ChangeSave(d) PROVE FALSE
      <3>1. d = c
        BY <2>4 DEF OInv, Alone, ChangeSave
      <3> QED
        BY <1>1, <2>4, <3>1, IdleAssumption DEF ChangeSave, SetChange, TypeOK
    <2> QED
      BY RoleStep, <2>1, <2>2, <2>3, <2>4
  <1> QED
    BY <1>2, <1>4 DEF CountHolds, Demotes, Backed

LEMMA CountsStep ==
    ASSUME MInv, OInv, [Next]_vars PROVE CountsHold'
  <1> SUFFICES ASSUME NEW c \in Changes, change'[c] # Idle PROVE CountHolds(c)'
    BY DEF CountsHold, CountHolds
  <1>1. TypeOK
    BY DEF MInv, AInv
  <1>2. ASSUME NEW a \in Agencies, NEW u \in Users, NEW by \in Users,
               NEW r \in Requested, ChangeAllowed(c, by, a, u, r)
        PROVE  CountHolds(c)'
    <2>1. change'[c].pc = "read"
      BY <1>1, <1>2 DEF ChangeAllowed, SetChange, TypeOK
    <2> QED
      BY <2>1 DEF CountHolds
  <1>3. CASE ChangeRead(c) \/ ChangeCount(c)
    <2> DEFINE t == change[c]
    <2>1. /\ t.agency \in Agencies /\ t.member \in Users /\ UNCHANGED role
          /\ change'[c].agency = t.agency /\ change'[c].member = t.member
          /\ change'[c].role = t.role
          /\ change'[c].pc = "save" => ~Demotes(t) \/ ~LastOwner(Owners(t.agency))
      BY <1>1, <1>3, ChangeMoves DEF Demotes
    <2>2. change'[c].pc = "save" /\ Demotes(t) => Backed(t)
      BY <1>1, <2>1, CountFacts DEF Demotes, Backed
    <2> QED
      BY <2>1, <2>2 DEF CountHolds, Demotes, Backed
  <1> QED
    BY <1>1, <1>2, <1>3, ChangeStep, ChangeWaits

LEMMA IInvStep == IInv /\ [Next]_vars => IInv'
  <1> SUFFICES ASSUME IInv, [Next]_vars PROVE IInv'
    OBVIOUS
  <1>1. MInv /\ MInv' /\ TypeOK
    BY MInvStep DEF IInv, MInv, AInv
  <1>2. ASSUME ~overlapped' PROVE OInv'
    <2>1. ~overlapped
      BY <1>1, <1>2, OverlappedStays
    <2>2. OInv
      BY <2>1 DEF IInv
    <2> QED
      BY <1>1, <1>2, <2>2, OwnersStep, AloneStep, CountsStep DEF OInv
  <1> QED
    BY <1>1, <1>2 DEF IInv

\* No agency with members is left without an owner before two role changes have
\* met, whatever foundings, invitations, accepts and stops come in between: what
\* updateMemberRole promises, and the condition it silently needs.
THEOREM AgencyAlwaysOwned == Spec => []SerialChangesKeepOwner
  <1>1. IInv => SerialChangesKeepOwner
    BY DEF IInv, OInv, OwnersKept, SerialChangesKeepOwner, AgencyKeepsOwner, Empty, Owned,
           Owners
  <1> QED
    BY IInvInit, IInvStep, <1>1, PTL DEF Spec

-----------------------------------------------------------------------------
(* The refinement, with any number of requests at once.                      *)

LEMMA RegistryInit == Init => Registry!Init
  BY DEF Init, Registry!Init, OpenGrants

\* Every step of the service is a step of the registry or none.
LEMMA RegistryStep ==
    ASSUME IInv, [Next]_vars
    PROVE  [Registry!Next]_Registry!vars
  <1>1. TypeOK /\ AInv /\ MInv /\ (~overlapped => OInv)
    BY DEF IInv, MInv, AInv
  <1>2. ASSUME UNCHANGED <<role, invitations, overlapped>>
        PROVE  [Registry!Next]_Registry!vars
    BY <1>2 DEF OpenGrants, Registry!vars
  <1>3. ASSUME NEW a \in Agencies, NEW u \in Users, CreateOwner(a, u)
        PROVE  Registry!Next
    <2>1. Empty(a)
      BY <1>1, <1>3 DEF MInv, FoundingsSound, CreateOwner
    <2>2. /\ UNCHANGED <<OpenGrants, ~overlapped>>
          /\ role' = [role EXCEPT ![a][u] = "OWNER"]
      BY <1>3 DEF CreateOwner, OpenGrants
    <2>3. Registry!Found(a, u)
      BY <2>1, <2>2 DEF Registry!Found, Registry!HasMember, Registry!Give, Empty, IsMember
    <2> QED
      BY <2>3 DEF Registry!Next
  <1>4. ASSUME NEW a \in Agencies, NEW u \in Users, NEW t \in Tokens,
               NEW email \in Users, NEW r \in Requested, InviteMember(a, u, t, email, r)
        PROVE  Registry!Next
    <2> DEFINE new == [token |-> t, agency |-> a, email |-> email, role |-> r,
                       status |-> "PENDING", expiresAt |-> now + Lifetime]
               grant == [agency |-> a, email |-> email, role |-> r]
    <2>1. invitations' = invitations \cup {new} /\ UNCHANGED <<role, overlapped>>
      BY <1>4 DEF InviteMember
    <2>2. Grant(new) = grant /\ new.status = "PENDING"
      BY DEF Grant
    <2> HIDE DEF new
    <2>3. OpenGrants' = OpenGrants \cup {grant}
      BY <2>1, <2>2 DEF OpenGrants
    <2>4. grant \in Registry!Grant /\ grant.agency = a
      BY <1>4 DEF InviteMember, Assignable, Registry!Grant
    <2>5. Registry!HasMember(a) /\ ~Empty(a)
      BY <1>1, <1>4 DEF MInv, GrantsSound, InviteMember, Empty, IsMember, Registry!HasMember
    <2>6. ~overlapped => Registry!HasOwner(a)
      BY <1>1, <2>5 DEF OInv, OwnersKept, Owned, Registry!HasOwner
    <2> HIDE DEF grant
    <2>7. Registry!Invite(grant)
      BY <2>1, <2>3, <2>4, <2>5, <2>6 DEF Registry!Invite
    <2> QED
      BY <2>4, <2>7 DEF Registry!Next
  <1>5. ASSUME NEW k \in Accepts, AcceptJoin(k)
        PROVE  [Registry!Next]_Registry!vars
    <2> DEFINE i == accept[k].invitation
               done == [i EXCEPT !.status = "ACCEPTED"]
    <2>1. /\ i \in Invitation /\ i.email = accept[k].user
          /\ i \in invitations \/ done \in invitations
      BY <1>1, <1>5, JoinFacts DEF MInv
    <2>2. UNCHANGED <<invitations, overlapped>>
      BY <1>5 DEF AcceptJoin, SetAccept
    <2>3. CASE UNCHANGED role
      BY <1>2, <2>2, <2>3
    <2>4. CASE ~IsMember(i.agency, i.email)
               /\ role' = [role EXCEPT ![i.agency][i.email] = i.role]
      <3>1. /\ done.status = "ACCEPTED" /\ done.agency = i.agency /\ done.email = i.email
            /\ i.status = "PENDING" \/ i = done
        BY <2>1 DEF Invitation
      <3>2. done \notin invitations
        BY <1>1, <2>4, <3>1 DEF AInv, AcceptedIsMember
      <3>3. i \in invitations /\ i.status = "PENDING"
        BY <2>1, <3>1, <3>2
      <3>4. /\ Grant(i) \in OpenGrants /\ Grant(i) \in Registry!Grant
            /\ Grant(i).agency = i.agency /\ Grant(i).email = i.email
            /\ Grant(i).role = i.role
        BY <2>1, <3>3 DEF OpenGrants, Grant, Registry!Grant, Invitation
      <3>5. UNCHANGED <<OpenGrants, overlapped>>
        BY <2>2 DEF OpenGrants
      <3>6. Registry!Join(Grant(i))
        BY <2>4, <3>4, <3>5 DEF Registry!Join, Registry!Give, IsMember
      <3> QED
        BY <3>4, <3>6 DEF Registry!Next
    <2> QED
      BY <1>5, <2>1, <2>3, <2>4 DEF AcceptJoin
  <1>6. ASSUME NEW k \in Accepts, AcceptMark(k)
        PROVE  [Registry!Next]_Registry!vars
    <2> DEFINE i == accept[k].invitation
               done == [i EXCEPT !.status = "ACCEPTED"]
    <2>1. accept[k] \in AcceptTask /\ AcceptSound(k)
      BY <1>1, <1>6 DEF AcceptMark, TypeOK, AInv, AcceptsSound
    <2>2. /\ i \in Invitation /\ IsMember(i.agency, i.email)
          /\ i \in invitations \/ done \in invitations
      BY <1>6, <2>1 DEF AcceptTask, AcceptSound, AcceptMark
    <2>3. done.token = i.token /\ done.status = "ACCEPTED" /\ Grant(done) = Grant(i)
      BY <2>2 DEF Invitation, Grant
    <2>4. /\ invitations' = {x \in invitations : x.token # i.token} \cup {done}
          /\ UNCHANGED <<role, overlapped>>
      BY <1>6 DEF AcceptMark, SetAccept
    <2>5. \A x \in invitations : x.token = i.token => Grant(x) = Grant(i)
      BY <1>1, <2>2, <2>3 DEF AInv, TokensUnique
    <2>6. Grant(i) \in Registry!Grant /\ Grant(i).agency = i.agency /\ Grant(i).email = i.email
      BY <2>2 DEF Grant, Registry!Grant, Invitation
    <2> HIDE DEF i, done
    <2>7. OpenGrants' = OpenGrants \/ OpenGrants' = OpenGrants \ {Grant(i)}
      BY <2>3, <2>4, <2>5 DEF OpenGrants
    <2>8. CASE OpenGrants' = OpenGrants \ {Grant(i)}
      <3>1. Registry!Spend(Grant(i))
        BY <2>2, <2>4, <2>6, <2>8 DEF Registry!Spend, IsMember
      <3> QED
        BY <2>6, <3>1 DEF Registry!Next
    <2> QED
      BY <2>4, <2>7, <2>8 DEF Registry!vars
  <1>7. ASSUME NEW c \in Changes, ChangeSave(c) PROVE Registry!Next
    <2> DEFINE t == change[c]
    <2>1. /\ t.agency \in Agencies /\ t.member \in Users /\ t.role \in Roles
          /\ IsMember(t.agency, t.member)
          /\ t.pc = "save" /\ t # Idle
          /\ role' = [role EXCEPT ![t.agency][t.member] = t.role]
      BY <1>1, <1>7, SaveFacts DEF ChangeSave
    <2>2. UNCHANGED <<OpenGrants, overlapped>>
      BY <1>7 DEF ChangeSave, SetChange, OpenGrants
    <2>3. ~overlapped /\ Demotes(t) => Backed(t)
      BY <1>1, <2>1 DEF OInv, CountsHold, CountHolds
    <2>4. Registry!SetRole(t.agency, t.member, t.role)
      BY <2>1, <2>2, <2>3 DEF Registry!SetRole, Registry!Give, IsMember, Demotes, Backed
    <2> QED
      BY <2>1, <2>4 DEF Registry!Next
  <1>8. CASE \E a \in Agencies, u \in Users :
                 CreateAgency(a, u) \/ InviteAllowed(a, u)
    BY <1>2, <1>8 DEF CreateAgency, InviteAllowed
  <1>9. CASE \E k \in Accepts :
                 \/ \E u \in Users, i \in invitations : AcceptFind(k, u, i)
                 \/ AcceptLookup(k)
    BY <1>2, <1>9 DEF AcceptFind, AcceptLookup, SetAccept
  <1>10. CASE \E c \in Changes : ChangeRead(c) \/ ChangeCount(c)
    BY <1>2, <1>10 DEF ChangeRead, ChangeCount, SetChange
  <1>11. CASE Tick \/ Restart \/ UNCHANGED vars
    BY <1>2, <1>11 DEF Tick, Restart, vars
  \* A role change begins: beside another one, the registry takes note.
  <1>12. ASSUME NEW a \in Agencies, NEW u \in Users, NEW c \in Changes, NEW by \in Users,
                NEW r \in Requested, ChangeAllowed(c, by, a, u, r)
         PROVE  [Registry!Next]_Registry!vars
    <2>1. UNCHANGED <<role, invitations>>
      BY <1>12 DEF ChangeAllowed, SetChange
    <2>2. CASE overlapped' = overlapped
      BY <1>2, <2>1, <2>2
    <2>3. CASE overlapped' # overlapped
      <3>1. overlapped \in BOOLEAN /\ overlapped' \in BOOLEAN
        BY <1>1, TypeStep DEF TypeOK
      <3>2. overlapped => overlapped'
        BY <1>1, OverlappedStays
      <3>3. overlapped' = TRUE
        BY <2>3, <3>1, <3>2
      <3>4. Registry!Meet
        BY <2>1, <3>3 DEF Registry!Meet, OpenGrants
      <3> QED
        BY <3>4 DEF Registry!Next
    <2> QED
      BY <2>2, <2>3
  <1> QED
    BY <1>3, <1>4, <1>5, <1>6, <1>7, <1>8, <1>9, <1>10, <1>11, <1>12 DEF Next

\* The interleaved, interruptible requests of agencies.service.ts implement the
\* atomic AgencyRegistry, any number of each kind at once.
THEOREM Refinement == Spec => ImplementsRegistry
  BY IInvInit, IInvStep, RegistryInit, RegistryStep, PTL
     DEF Spec, ImplementsRegistry, Registry!Spec
====
