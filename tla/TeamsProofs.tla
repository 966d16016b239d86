----------------------------- MODULE TeamsProofs -----------------------------
(***************************************************************************)
(* Proofs about Teams, for any panel, any number of accounts, invitations, *)
(* requests and registrations.  The argument: no request that is cleared   *)
(* to write, no invitation and no registration carries the role "owner" or *)
(* is about an owner, so the owners stay; what an owner once was allowed   *)
(* is therefore still an owner's doing whenever it is written.             *)
(***************************************************************************)
EXTENDS Teams, TLAPS

(* Idle is neither a request nor a registration. *)
LEMMA IdleIsNone == Idle \notin Request /\ Idle \notin Registration
  BY DEF Idle, Request, Registration

LEMMA FirstId == UserIds \subseteq Nat /\ 1 \in UserIds
<1>1. Len(Roster) \in 1 .. MaxUsers /\ MaxUsers \in Nat
  BY TeamsAssumption DEF UserIds
<1>2. QED
  BY <1>1 DEF UserIds

LEMMA TypeInit == Init => TypeOK
<1> SUFFICES ASSUME Init PROVE TypeOK
  OBVIOUS
<1>1. \A u \in 1 .. Len(Roster) : Roster[u] \in [email : Emails, role : Roles]
  <2>1. ASSUME NEW S, NEW q \in Seq(S) PROVE \A u \in 1 .. Len(q) : q[u] \in S
    BY <2>1
  <2>2. QED
    BY <2>1, TeamsAssumption
<1>2. Len(Roster) \in UserIds /\ UserIds \subseteq Nat
  BY TeamsAssumption DEF UserIds
<1>3. role \in [UserIds -> Roles \cup {"none"}] /\ email \in [UserIds -> Emails \cup {"none"}]
  BY <1>1, <1>2 DEF Init, UserIds
<1>4. \A u \in Users : u <= made
  BY <1>2 DEF Init, Users, UserIds
<1>5. QED
  BY <1>2, <1>3, <1>4, TeamsAssumption DEF Init, TypeOK, UserIds

LEMMA InitEstablishes == Init => IInv
<1> SUFFICES ASSUME Init PROVE IInv
  OBVIOUS
<1>1. TypeOK
  BY TypeInit
<1>2. FormsFilled /\ OwnersAuthorsStay /\ OwnersOutOfReach /\ LettersOffer /\ HeldByOne
  BY DEF Init, FormsFilled, OwnersAuthorsStay, OwnersOutOfReach, LettersOffer, HeldByOne, Holding, Idle
<1>3. AdminsFromOwners
  <2>1. 1 \in UserIds /\ 1 <= Len(Roster) /\ Roster[1].role = "owner"
    BY TeamsAssumption DEF UserIds
  <2>2. QED
    BY <2>1 DEF Init, AdminsFromOwners
<1>4. SpentIsHeldOrClosed /\ TwiceOnlyIfLeftOpen
  BY DEF Init, SpentIsHeldOrClosed, TwiceOnlyIfLeftOpen, InviteIds
<1>5. QED
  BY <1>1, <1>2, <1>3, <1>4 DEF IInv

-------------------------------------------------------------------------------
(* Types are preserved. *)
LEMMA TypeStep == IInv /\ [Next]_vars => TypeOK'
<1> SUFFICES ASSUME IInv, [Next]_vars PROVE TypeOK'
  OBVIOUS
<1> USE DEF TypeOK, accounts, letters, observed, Users
<1>1. TypeOK /\ FormsFilled /\ LettersOffer
  BY DEF IInv
<1>2. /\ UserIds \subseteq Nat /\ 1 \in UserIds /\ made \in Nat /\ sent \in Nat
      /\ InviteIds = 1 .. MaxInvites /\ MaxInvites \in Nat /\ MaxUsers \in Nat
  BY <1>1, FirstId, TeamsAssumption DEF InviteIds
<1>3. ASSUME NEW r \in Requests, NEW a \in Users, NEW q \in Asks(a), Begin(r, a, q) PROVE TypeOK'
  <2>1. role[a] \in Roles /\ a \in UserIds
    BY <1>1
  <2>2. q.op \in {"role", "remove", "invite", "revoke"} /\ q.to \in Roles \cup {"none"}
    BY DEF Asks
  <2>3. q.on \in UserIds \cup Emails \cup InviteIds
    BY <1>1 DEF Asks, Invitation
  <2>4. desk' \in [Requests -> Request \cup {Idle}]
    BY <1>1, <1>3, <2>1, <2>2, <2>3 DEF Begin, Request
  <2>5. QED
    BY <1>1, <1>3, <2>4 DEF Begin
<1>4. ASSUME NEW r \in Requests, Clear(r) \/ ClearUnread(r) \/ Lose(r) PROVE TypeOK'
  <2>1. desk' \in [Requests -> Request \cup {Idle}]
    <3>1. [desk[r] EXCEPT !.stage = "cleared"] \in Request \/ desk[r].stage # "begun"
      BY <1>1 DEF Request, Idle
    <3>2. QED
      BY <1>1, <1>4, <3>1 DEF Clear, ClearUnread, Lose
  <2>2. QED
    BY <1>1, <1>4, <2>1 DEF Clear, ClearUnread, Lose
<1>5. ASSUME NEW r \in Requests, UpdateRole(r) PROVE TypeOK'
  <2>1. desk[r] \in Request /\ desk[r].to \in Roles
    BY <1>1, <1>5 DEF UpdateRole, Writes, Idle, FormsFilled, Request
  <2>2. desk[r].by \in UserIds /\ 1 \in UserIds
    BY <1>2, <2>1 DEF Request
  <2>3. role' \in [UserIds -> Roles \cup {"none"}] /\ promoter' \in [UserIds -> UserIds]
    BY <1>1, <1>5, <2>1, <2>2 DEF UpdateRole, Promoted
  <2>4. \A u \in Users' : u <= made
    BY <1>1, <1>5 DEF UpdateRole
  <2>5. QED
    BY <1>1, <1>5, <2>3, <2>4 DEF UpdateRole, Writes
<1>6. ASSUME NEW r \in Requests, DeleteUser(r) PROVE TypeOK'
  <2>1. QED
    BY <1>1, <1>2, <1>6 DEF DeleteUser, Writes, Promoted
<1>7. ASSUME NEW r \in Requests, CreateInvitation(r) PROVE TypeOK'
  <2>1. CASE desk[r].by \in Users
    <3>1. desk[r] \in Request /\ desk[r].on \in Emails /\ desk[r].to \in Roles
      BY <1>1, <1>7 DEF CreateInvitation, Writes, Idle, FormsFilled
    <3>2. [id |-> sent + 1, email |-> desk[r].on, role |-> desk[r].to, by |-> desk[r].by] \in Invitation
      BY <1>2, <1>7, <2>1, <3>1 DEF CreateInvitation, Invitation
    <3>3. invites' \subseteq Invitation /\ \A i \in invites' : i.id <= sent'
      BY <1>1, <1>2, <1>7, <2>1, <3>2 DEF CreateInvitation, Invitation
    <3>4. sent' = sent + 1 /\ sent' \in 0 .. MaxInvites /\ 1 .. sent \subseteq 1 .. sent' /\ 0 .. sent \subseteq 0 .. sent'
      BY <1>1, <1>2, <1>7, <2>1 DEF CreateInvitation
    <3>5. open' \subseteq 1 .. sent' /\ from' \in [UserIds -> 0 .. sent']
      <4>1. open' = open \cup {sent + 1} /\ sent + 1 \in 1 .. sent'
        BY <1>2, <1>7, <2>1, <3>4 DEF CreateInvitation
      <4>2. from' = from /\ from \in [UserIds -> 0 .. sent]
        BY <1>1, <1>7 DEF CreateInvitation
      <4>3. \A u \in UserIds : from[u] \in 0 .. sent'
        BY <3>4, <4>2
      <4>4. QED
        BY <1>1, <3>4, <4>1, <4>2, <4>3
    <3>6. desk' \in [Requests -> Request \cup {Idle}]
      BY <1>1, <1>7 DEF CreateInvitation, Writes
    <3>7. left' \subseteq 1 .. sent' /\ shared' \subseteq 1 .. sent'
      BY <1>1, <1>7, <3>4 DEF CreateInvitation
    <3>8. QED
      BY <1>1, <1>7, <3>3, <3>4, <3>5, <3>6, <3>7 DEF CreateInvitation
  <2>2. CASE desk[r].by \notin Users
    BY <1>1, <1>7, <2>2 DEF CreateInvitation, Writes
  <2>3. QED
    BY <2>1, <2>2
<1>8. ASSUME NEW r \in Requests, RevokeInvitation(r) PROVE TypeOK'
  BY <1>1, <1>8 DEF RevokeInvitation, Writes
<1>9. ASSUME NEW v \in Visitors, NEW i \in invites, ReadInvitation(v, i) PROVE TypeOK'
  BY <1>1, <1>9 DEF ReadInvitation, Registration, Invitation
<1>10. ASSUME NEW v \in Visitors, CreateUser(v) PROVE TypeOK'
  <2>1. door[v] \in Registration /\ door[v].inv \in Invitation
    BY <1>1, <1>10 DEF CreateUser, Registration
  <2>2. door' \in [Visitors -> Registration \cup {Idle}]
    BY <1>1, <1>10, <2>1 DEF CreateUser, Registration
  <2>3. CASE door[v].inv.email \in {email[u] : u \in Users}
    BY <1>1, <1>10, <2>2, <2>3 DEF CreateUser
  <2>4. CASE door[v].inv.email \notin {email[u] : u \in Users}
    <3>1. made' = made + 1 /\ made' \in UserIds /\ 1 \in UserIds
      BY <1>1, <1>2, <1>10, <2>4 DEF CreateUser, UserIds
    <3>2. door[v].inv.id \in 0 .. sent
      BY <1>1, <1>2, <1>10, <2>1 DEF LettersOffer, Invitation, CreateUser
    <3>3. /\ role' \in [UserIds -> Roles \cup {"none"}]
          /\ email' \in [UserIds -> Emails \cup {"none"}]
          /\ promoter' \in [UserIds -> UserIds]
          /\ from' \in [UserIds -> 0 .. sent]
      BY <1>1, <1>10, <2>1, <2>4, <3>1, <3>2 DEF CreateUser, Promoted, Invitation
    <3>4. \A u \in Users' : u <= made'
      <4>1. ASSUME NEW u \in UserIds, role'[u] # "none" PROVE u = made + 1 \/ u \in Users
        BY <1>1, <1>10, <2>4, <4>1 DEF CreateUser
      <4>2. QED
        BY <1>1, <1>2, <3>1, <4>1
    <3>5. QED
      BY <1>1, <1>10, <2>2, <2>4, <3>1, <3>3, <3>4 DEF CreateUser
  <2>5. QED
    BY <2>3, <2>4
<1>11. ASSUME NEW v \in Visitors, MarkInvitationUsed(v) PROVE TypeOK'
  BY <1>1, <1>11 DEF MarkInvitationUsed
<1>12. ASSUME NEW v \in Visitors, LoseRegistration(v) PROVE TypeOK'
  <2>1. door[v].inv.id \in 1 .. sent
    BY <1>1, <1>2, <1>12 DEF LoseRegistration, LettersOffer, Registration, Invitation
  <2>2. QED
    BY <1>1, <1>12, <2>1 DEF LoseRegistration
<1>13. ASSUME NEW i \in InviteIds, Expire(i) PROVE TypeOK'
  BY <1>1, <1>13 DEF Expire
<1>14. CASE UNCHANGED vars
  BY <1>1, <1>14 DEF vars
<1>15. QED
  BY <1>3, <1>4, <1>5, <1>6, <1>7, <1>8, <1>9, <1>10, <1>11, <1>12, <1>13, <1>14 DEF Next
-------------------------------------------------------------------------------
(* Who ranks above whom: nobody above an owner, only owners above an admin. *)
LEMMA Ranks == \A a, b \in Roles : CanManage(a, b) => b # "owner" /\ (b = "admin" => a = "owner")
  BY DEF Roles, CanManage, RoleLevel

(* What a step may change of the accounts. *)
LEMMA RoleSteps ==
    ASSUME [Next]_vars
    PROVE  \/ UNCHANGED <<role, email, made, promoter, from>>
           \/ \E r \in Requests : UpdateRole(r) \/ DeleteUser(r)
           \/ \E v \in Visitors : CreateUser(v)
  BY DEF Next, vars, accounts, letters, observed, Begin, Clear, ClearUnread, CreateInvitation,
     RevokeInvitation, Lose, ReadInvitation, MarkInvitationUsed, LoseRegistration, Expire

(* The owners stay as they are. *)
LEMMA OwnerStep ==
    ASSUME IInv, [Next]_vars
    PROVE  \A u \in UserIds : role'[u] = "owner" <=> role[u] = "owner"
<1> USE DEF IInv, TypeOK
<1>1. CASE UNCHANGED <<role, email, made, promoter, from>>
  BY <1>1
<1>2. ASSUME NEW r \in Requests, UpdateRole(r) PROVE \A u \in UserIds : role'[u] = "owner" <=> role[u] = "owner"
  <2>1. desk[r] \in Request /\ desk[r].stage = "cleared" /\ desk[r].op = "role" /\ desk[r] # Idle
    BY <1>2 DEF UpdateRole, Writes, Idle
  <2>2. desk[r].to # "owner"
    BY <2>1, Ranks DEF FormsFilled, Request
  <2>3. role[desk[r].on] # "owner"
    BY <2>1 DEF OwnersOutOfReach
  <2>4. QED
    BY <1>2, <2>2, <2>3 DEF UpdateRole, Users, accounts
<1>3. ASSUME NEW r \in Requests, DeleteUser(r) PROVE \A u \in UserIds : role'[u] = "owner" <=> role[u] = "owner"
  <2>1. role[desk[r].on] # "owner"
    BY <1>3 DEF DeleteUser, Writes, OwnersOutOfReach
  <2>2. QED
    BY <1>3, <2>1 DEF DeleteUser
<1>4. ASSUME NEW v \in Visitors, CreateUser(v) PROVE \A u \in UserIds : role'[u] = "owner" <=> role[u] = "owner"
  <2>1. door[v].inv.role # "owner"
    BY <1>4 DEF CreateUser, LettersOffer, Offers
  <2>2. made + 1 \in UserIds => role[made + 1] # "owner"
    BY FirstId DEF Users
  <2>3. QED
    BY <1>4, <2>1, <2>2 DEF CreateUser, accounts
<1>5. QED
  BY <1>1, <1>2, <1>3, <1>4, RoleSteps

(* A request is begun, or goes on as it was, or is over. *)
LEMMA DeskStep ==
    ASSUME IInv, [Next]_vars, NEW r \in Requests, desk'[r] # Idle,
           \A a \in Users : \A q \in Asks(a) : ~Begin(r, a, q)
    PROVE  /\ desk[r] # Idle
           /\ desk'[r].op = desk[r].op /\ desk'[r].on = desk[r].on /\ desk'[r].to = desk[r].to
           /\ desk'[r].as = desk[r].as /\ desk'[r].by = desk[r].by
           /\ \/ desk'[r].stage = desk[r].stage
              \/ desk[r].op = "invite"
              \/ Allowed(desk[r])
<1> USE DEF IInv, TypeOK
<1>1. desk \in [Requests -> Request \cup {Idle}]
  OBVIOUS
<1>2. CASE UNCHANGED desk
  BY <1>2
<1>3. ASSUME NEW s \in Requests, NEW a \in Users, NEW q \in Asks(a), Begin(s, a, q), s # r
      PROVE  desk'[r] = desk[r]
  BY <1>1, <1>3 DEF Begin
<1>4. ASSUME NEW s \in Requests, s # r, Clear(s) \/ ClearUnread(s) PROVE desk'[r] = desk[r]
  BY <1>1, <1>4 DEF Clear, ClearUnread
<1>5. CASE Clear(r) \/ ClearUnread(r)
  BY <1>1, <1>5 DEF Clear, ClearUnread, Request, Idle
<1>6. ASSUME NEW s \in Requests, desk' = [desk EXCEPT ![s] = Idle] PROVE desk'[r] = desk[r]
  BY <1>1, <1>6
<1>7. QED
  BY <1>2, <1>3, <1>4, <1>5, <1>6 DEF Next, vars, UpdateRole, DeleteUser, CreateInvitation, RevokeInvitation,
     Writes, Lose, ReadInvitation, CreateUser, MarkInvitationUsed, LoseRegistration, Expire

(* A request keeps what it was filled in with. *)
LEMMA FormsStep == IInv /\ [Next]_vars => FormsFilled'
<1> SUFFICES ASSUME IInv, [Next]_vars, NEW r \in Requests, desk'[r] # Idle
             PROVE  /\ desk'[r].op \in {"role", "remove"} => desk'[r].on \in UserIds
                    /\ desk'[r].op = "invite" => desk'[r].on \in Emails
                    /\ desk'[r].op \in {"role", "invite"} => desk'[r].to \in Roles /\ CanManage(desk'[r].as, desk'[r].to)
  BY DEF FormsFilled
<1> USE DEF IInv, TypeOK
<1>1. ASSUME NEW a \in Users, NEW q \in Asks(a), Begin(r, a, q)
      PROVE  /\ desk'[r].op \in {"role", "remove"} => desk'[r].on \in UserIds
             /\ desk'[r].op = "invite" => desk'[r].on \in Emails
             /\ desk'[r].op \in {"role", "invite"} => desk'[r].to \in Roles /\ CanManage(desk'[r].as, desk'[r].to)
  <2>1. desk'[r].op = q.op /\ desk'[r].on = q.on /\ desk'[r].to = q.to /\ desk'[r].as = role[a]
    BY <1>1 DEF Begin
  <2>2. /\ q.op \in {"role", "remove"} => q.on \in UserIds
        /\ q.op = "invite" => q.on \in Emails
        /\ q.op \in {"role", "invite"} => q.to \in Roles /\ CanManage(role[a], q.to)
    BY DEF Asks, Users
  <2>3. QED
    BY <2>1, <2>2
<1>2. CASE \A a \in Users : \A q \in Asks(a) : ~Begin(r, a, q)
  <2>1. /\ desk[r] # Idle /\ desk'[r].op = desk[r].op /\ desk'[r].on = desk[r].on
        /\ desk'[r].to = desk[r].to /\ desk'[r].as = desk[r].as
    BY <1>2, DeskStep
  <2>2. QED
    BY <2>1 DEF FormsFilled
<1>3. QED
  BY <1>1, <1>2

LEMMA AuthorsStep == IInv /\ [Next]_vars => OwnersAuthorsStay'
<1> SUFFICES ASSUME IInv, [Next]_vars, NEW r \in Requests, desk'[r] # Idle, desk'[r].as = "owner"
             PROVE  role'[desk'[r].by] = "owner"
  BY DEF OwnersAuthorsStay
<1> USE DEF IInv, TypeOK
<1>1. ASSUME NEW a \in Users, NEW q \in Asks(a), Begin(r, a, q) PROVE role'[desk'[r].by] = "owner"
  BY <1>1 DEF Begin, accounts
<1>2. CASE \A a \in Users : \A q \in Asks(a) : ~Begin(r, a, q)
  <2>1. desk[r] # Idle /\ desk'[r].as = desk[r].as /\ desk'[r].by = desk[r].by
    BY <1>2, DeskStep
  <2>2. role[desk[r].by] = "owner" /\ desk[r].by \in UserIds
    BY <2>1 DEF OwnersAuthorsStay, Request
  <2>3. QED
    BY <2>1, <2>2, OwnerStep
<1>3. QED
  BY <1>1, <1>2

LEMMA ReachStep == IInv /\ [Next]_vars => OwnersOutOfReach'
<1> SUFFICES ASSUME IInv, [Next]_vars, NEW r \in Requests, desk'[r].stage = "cleared",
                    desk'[r].op \in {"role", "remove"}
             PROVE  role'[desk'[r].on] # "owner"
  BY DEF OwnersOutOfReach
<1> USE DEF IInv, TypeOK
<1>1. \A a \in Users : \A q \in Asks(a) : ~Begin(r, a, q)
  BY DEF Begin
<1>2. desk'[r] # Idle
  BY DEF Idle
<1>3. /\ desk[r] # Idle /\ desk'[r].op = desk[r].op /\ desk'[r].on = desk[r].on
      /\ desk'[r].stage = desk[r].stage \/ Allowed(desk[r])
  <2>1. desk'[r].op # "invite"
    OBVIOUS
  <2>2. QED
    BY <1>1, <1>2, <2>1, DeskStep
<1>4. desk[r] \in Request /\ desk[r].on \in UserIds
  BY <1>3 DEF FormsFilled
<1>5. role[desk[r].on] # "owner"
  <2>1. CASE desk'[r].stage = desk[r].stage
    BY <1>3, <2>1 DEF OwnersOutOfReach
  <2>2. CASE Allowed(desk[r])
    <3>1. desk[r].on \in Users /\ CanManage(desk[r].as, role[desk[r].on])
      BY <1>3, <2>2 DEF Allowed
    <3>2. desk[r].as \in Roles /\ role[desk[r].on] \in Roles
      BY <1>4, <3>1 DEF Request, Users
    <3>3. QED
      BY <3>1, <3>2, Ranks
  <2>3. QED
    BY <1>3, <2>1, <2>2
<1>6. QED
  BY <1>3, <1>4, <1>5, OwnerStep

(* An offer stays one: it names an owner by id, and owners stay. *)
LEMMA OffersStay ==
    ASSUME IInv, [Next]_vars, NEW i \in Invitation, Offers(i)
    PROVE  Offers(i)'
  BY OwnerStep DEF Offers, Invitation

(* A registration begins with a look-up, or goes on with what it read. *)
LEMMA DoorStep ==
    ASSUME IInv, [Next]_vars, NEW v \in Visitors, door'[v] # Idle,
           \A i \in invites : ~ReadInvitation(v, i)
    PROVE  /\ door[v] # Idle /\ door'[v].inv = door[v].inv
           /\ CreateUser(v) \/ door'[v].stage = door[v].stage
<1> USE DEF IInv, TypeOK
<1>1. door \in [Visitors -> Registration \cup {Idle}]
  OBVIOUS
<1>2. CASE UNCHANGED door
  BY <1>2
<1>3. ASSUME NEW o \in Visitors, o # v,
             (\E i \in invites : ReadInvitation(o, i)) \/ CreateUser(o) \/ MarkInvitationUsed(o) \/ LoseRegistration(o)
      PROVE  door'[v] = door[v]
  BY <1>1, <1>3 DEF ReadInvitation, CreateUser, MarkInvitationUsed, LoseRegistration
<1>4. CASE CreateUser(v)
  BY <1>1, <1>4 DEF CreateUser, Registration
<1>5. CASE MarkInvitationUsed(v) \/ LoseRegistration(v)
  BY <1>1, <1>5 DEF MarkInvitationUsed, LoseRegistration
<1>6. QED
  BY <1>2, <1>3, <1>4, <1>5 DEF Next, vars, Begin, Clear, ClearUnread, UpdateRole, DeleteUser,
     CreateInvitation, RevokeInvitation, Lose, Expire

(* What a step may change of the invitations. *)
LEMMA LetterSteps ==
    ASSUME IInv, [Next]_vars
    PROVE  /\ sent <= sent'
           /\ \A i \in invites' : i \in invites \/ \E r \in Requests :
                 /\ desk[r] # Idle /\ desk[r].op = "invite"
                 /\ i.role = desk[r].to /\ i.by = desk[r].by
<1> USE DEF IInv, TypeOK
<1>1. CASE UNCHANGED <<invites, sent>>
  BY <1>1
<1>2. ASSUME NEW r \in Requests, DeleteUser(r) \/ RevokeInvitation(r)
      PROVE  sent' = sent /\ invites' \subseteq invites
  BY <1>2 DEF DeleteUser, RevokeInvitation
<1>3. ASSUME NEW r \in Requests, CreateInvitation(r)
      PROVE  /\ sent <= sent' /\ desk[r] # Idle /\ desk[r].op = "invite"
             /\ \A i \in invites' : i \in invites \/ (i.role = desk[r].to /\ i.by = desk[r].by)
  BY <1>3 DEF CreateInvitation, Writes, Idle, letters
<1>4. \/ UNCHANGED <<invites, sent>>
      \/ \E r \in Requests : DeleteUser(r) \/ RevokeInvitation(r) \/ CreateInvitation(r)
  BY DEF Next, vars, letters, Begin, Clear, ClearUnread, UpdateRole, Lose, ReadInvitation, CreateUser,
     MarkInvitationUsed, LoseRegistration, Expire
<1>5. QED
  BY <1>1, <1>2, <1>3, <1>4

LEMMA LettersStep == IInv /\ [Next]_vars => LettersOffer'
<1> SUFFICES ASSUME IInv, [Next]_vars PROVE LettersOffer'
  OBVIOUS
<1> USE DEF IInv, TypeOK
<1>1. TypeOK'
  BY TypeStep
<1>2. ASSUME NEW i \in invites' PROVE Offers(i)'
  <2>1. i \in Invitation
    BY <1>1
  <2>2. CASE i \in invites
    BY <2>1, <2>2, OffersStay DEF LettersOffer
  <2>3. ASSUME NEW r \in Requests, desk[r] # Idle, desk[r].op = "invite",
               i.role = desk[r].to, i.by = desk[r].by
        PROVE  Offers(i)
    <3>1. desk[r].to \in Roles /\ desk[r].as \in Roles /\ CanManage(desk[r].as, desk[r].to)
      BY <2>3 DEF FormsFilled, Request
    <3>2. i.role # "owner" /\ (i.role = "admin" => desk[r].as = "owner")
      BY <2>3, <3>1, Ranks
    <3>3. QED
      BY <2>3, <3>2 DEF Offers, OwnersAuthorsStay
  <2>4. QED
    BY <2>1, <2>2, <2>3, LetterSteps, OffersStay
<1>3. ASSUME NEW v \in Visitors, door'[v] # Idle
      PROVE  /\ door'[v].inv.role # "owner"
             /\ door'[v].inv.role = "admin" => role'[door'[v].inv.by] = "owner"
             /\ door'[v].inv.id <= sent'
  <2>1. ASSUME NEW i \in invites, ReadInvitation(v, i) PROVE door'[v].inv = i /\ Offers(i) /\ i.id <= sent
    BY <2>1 DEF ReadInvitation, LettersOffer
  <2>2. door'[v].inv \in Invitation
    BY <1>1, <1>3 DEF Registration
  <2>3. Offers(door'[v].inv) /\ door'[v].inv.id <= sent
    <3>1. CASE \E i \in invites : ReadInvitation(v, i)
      BY <2>1, <3>1
    <3>2. CASE \A i \in invites : ~ReadInvitation(v, i)
      BY <1>3, <3>2, DoorStep DEF LettersOffer
    <3>3. QED
      BY <3>1, <3>2
  <2>4. sent \in Nat /\ sent' \in Nat /\ sent <= sent' /\ door'[v].inv.id \in Nat
    BY <1>1, <2>2, LetterSteps DEF Invitation, InviteIds
  <2>5. QED
    BY <2>2, <2>3, <2>4, OwnerStep DEF Offers, Invitation
<1>4. QED
  BY <1>2, <1>3 DEF LettersOffer, Offers
-------------------------------------------------------------------------------
(* The registrations of a step, and what it does to the invitations open. *)
LEMMA DoorSteps ==
    ASSUME [Next]_vars
    PROVE  \/ UNCHANGED <<door, from, left, shared>>
           \/ \E v \in Visitors :
                 \/ \E i \in invites : ReadInvitation(v, i)
                 \/ CreateUser(v) \/ MarkInvitationUsed(v) \/ LoseRegistration(v)
  BY DEF Next, vars, accounts, letters, observed, Begin, Clear, ClearUnread, UpdateRole, DeleteUser,
     CreateInvitation, RevokeInvitation, Lose, Expire

(* An administrator is an owner's doing: of the two steps that make one,   *)
(* the change of role acts for an owner and the registration on an offer.  *)
LEMMA AdminStep == IInv /\ [Next]_vars => AdminsFromOwners'
<1> SUFFICES ASSUME IInv, [Next]_vars, NEW u \in UserIds, role'[u] = "admin"
             PROVE  role'[promoter'[u]] = "owner"
  BY DEF AdminsFromOwners
<1> USE DEF IInv, TypeOK
<1>1. ASSUME role[u] = "admin", promoter'[u] = promoter[u] PROVE role'[promoter'[u]] = "owner"
  BY <1>1, OwnerStep DEF AdminsFromOwners
<1>2. CASE UNCHANGED <<role, email, made, promoter, from>>
  BY <1>1, <1>2
<1>3. ASSUME NEW r \in Requests, UpdateRole(r) PROVE role'[promoter'[u]] = "owner"
  <2>1. CASE u = desk[r].on /\ u \in Users
    <3>1. desk[r] \in Request /\ desk[r] # Idle /\ desk[r].op = "role" /\ desk[r].to = "admin"
      BY <1>3, <2>1 DEF UpdateRole, Writes, Idle
    <3>2. desk[r].as = "owner" /\ desk[r].by \in UserIds
      BY <3>1, Ranks DEF FormsFilled, Request
    <3>3. role[desk[r].by] = "owner"
      BY <3>1, <3>2 DEF OwnersAuthorsStay
    <3>4. promoter'[u] = desk[r].by
      BY <1>3, <2>1, <3>1 DEF UpdateRole, Promoted
    <3>5. QED
      BY <3>2, <3>3, <3>4, OwnerStep
  <2>2. CASE u # desk[r].on \/ u \notin Users
    <3>1. role'[u] = role[u] /\ promoter'[u] = promoter[u]
      BY <1>3, <2>2 DEF UpdateRole, Promoted
    <3>2. QED
      BY <1>1, <3>1
  <2>3. QED
    BY <2>1, <2>2
<1>4. ASSUME NEW r \in Requests, DeleteUser(r) PROVE role'[promoter'[u]] = "owner"
  <2>1. u # desk[r].on
    BY <1>4 DEF DeleteUser
  <2>2. role'[u] = role[u] /\ promoter'[u] = promoter[u]
    BY <1>4, <2>1 DEF DeleteUser, Promoted
  <2>3. QED
    BY <1>1, <2>2
<1>5. ASSUME NEW v \in Visitors, CreateUser(v) PROVE role'[promoter'[u]] = "owner"
  <2>1. CASE role'[u] = role[u] /\ promoter'[u] = promoter[u]
    BY <1>1, <2>1
  <2>2. CASE /\ promoter' = Promoted(made + 1, door[v].inv.role, door[v].inv.by)
             /\ role' = [role EXCEPT ![made + 1] = door[v].inv.role]
    <3>1. CASE u = made + 1
      <4>1. door[v] \in Registration /\ door[v].inv \in Invitation /\ Offers(door[v].inv)
        BY <1>5 DEF CreateUser, LettersOffer, Registration
      <4>2. door[v].inv.role = "admin" /\ promoter'[u] = door[v].inv.by /\ door[v].inv.by \in UserIds
        BY <2>2, <3>1, <4>1 DEF Promoted, Invitation
      <4>3. role[door[v].inv.by] = "owner"
        BY <4>1, <4>2 DEF Offers
      <4>4. QED
        BY <4>2, <4>3, OwnerStep
    <3>2. CASE u # made + 1
      BY <1>1, <2>2, <3>2 DEF Promoted
    <3>3. QED
      BY <3>1, <3>2
  <2>3. QED
    BY <1>5, <2>1, <2>2 DEF CreateUser, accounts
<1>6. QED
  BY <1>2, <1>3, <1>4, <1>5, RoleSteps

(* What was noted of an invitation stays noted. *)
LEMMA NotedStays == [Next]_vars => left \subseteq left' /\ shared \subseteq shared'
  BY DoorSteps DEF ReadInvitation, CreateUser, MarkInvitationUsed, LoseRegistration, observed

(* An invitation two registrations hold has been noted as shared. *)
LEMMA HeldStep == IInv /\ [Next]_vars => HeldByOne'
<1> SUFFICES ASSUME IInv, [Next]_vars, NEW v \in Visitors, NEW w \in Visitors, NEW i \in InviteIds,
                    door'[v] # Idle, door'[v].inv.id = i, door'[w] # Idle, door'[w].inv.id = i,
                    i \notin shared', v # w
             PROVE  FALSE
  BY DEF HeldByOne, Holding
<1> USE DEF IInv, TypeOK
<1>1. shared \subseteq shared'
  BY NotedStays
<1>2. ASSUME NEW o \in Visitors, door'[o] # Idle, door'[o].inv.id = i,
             \A l \in invites : ~ReadInvitation(o, l)
      PROVE  Holding(o, i)
  BY <1>2, DoorStep DEF Holding
<1>3. ASSUME NEW o \in Visitors, NEW p \in Visitors, NEW l \in invites, o # p,
             ReadInvitation(o, l), l.id = i, Holding(p, i)
      PROVE  FALSE
  BY <1>3 DEF ReadInvitation
<1>4. ASSUME NEW o \in Visitors, NEW p \in Visitors, o # p, door'[o].inv.id = i, door'[p] # Idle, door'[p].inv.id = i,
             NEW l \in invites, ReadInvitation(o, l)
      PROVE  FALSE
  <2>1. l.id = i
    BY <1>4 DEF ReadInvitation
  <2>2. door'[p] = door[p]
    BY <1>4 DEF ReadInvitation
  <2>3. QED
    BY <1>3, <1>4, <2>1, <2>2 DEF Holding
<1>5. Holding(v, i) /\ Holding(w, i)
  BY <1>2, <1>4
<1>6. QED
  BY <1>1, <1>5 DEF HeldByOne

(* Who registered with what changes only when an account is made. *)
LEMMA FromStep ==
    ASSUME IInv, [Next]_vars, NEW u \in UserIds, from'[u] # from[u]
    PROVE  \E v \in Visitors :
              /\ CreateUser(v) /\ u = made + 1 /\ from'[u] = door[v].inv.id
              /\ door[v] # Idle /\ door[v].stage = "read"
              /\ door' = [door EXCEPT ![v].stage = "admitted"]
<1> USE DEF IInv, TypeOK
<1>1. PICK v \in Visitors : CreateUser(v)
  BY DoorSteps DEF ReadInvitation, MarkInvitationUsed, LoseRegistration, observed
<1>2. QED
  BY <1>1 DEF CreateUser

(* An invitation stays open, or is the one sent now. *)
LEMMA OpenStep ==
    ASSUME IInv, [Next]_vars, NEW i \in open', i \notin open
    PROVE  i = sent + 1
  BY DEF Next, vars, letters, accounts, Begin, Clear, ClearUnread, UpdateRole, DeleteUser, CreateInvitation,
     RevokeInvitation, Lose, ReadInvitation, CreateUser, MarkInvitationUsed, LoseRegistration, Expire

LEMMA TwiceStep == IInv /\ [Next]_vars => TwiceOnlyIfLeftOpen'
<1> SUFFICES ASSUME IInv, [Next]_vars, NEW u \in UserIds, NEW w \in UserIds, u # w, from'[u] = from'[w]
             PROVE  from'[u] \in {0} \cup left' \cup shared'
  BY DEF TwiceOnlyIfLeftOpen
<1> USE DEF IInv, TypeOK
<1>1. left \subseteq left' /\ shared \subseteq shared'
  BY NotedStays
<1>2. CASE from'[u] = from[u] /\ from'[w] = from[w]
  BY <1>1, <1>2 DEF TwiceOnlyIfLeftOpen
<1>3. ASSUME NEW x \in UserIds, NEW y \in UserIds, x # y, from'[x] # from[x], from'[x] = from'[y]
      PROVE  from'[x] \in {0} \cup left' \cup shared'
  <2>1. PICK v \in Visitors : /\ x = made + 1 /\ from'[x] = door[v].inv.id
                              /\ door[v] # Idle /\ door[v].stage = "read"
    BY <1>3, FromStep
  <2>2. from'[y] = from[y]
    BY <1>3, <2>1, FromStep
  <2>3. from[y] = door[v].inv.id /\ Holding(v, from[y]) /\ door[v].inv.id \in InviteIds
    BY <1>3, <2>1, <2>2 DEF Holding, Registration, Invitation
  <2>4. from[y] \in left \cup shared
    BY <2>1, <2>3 DEF SpentIsHeldOrClosed
  <2>5. QED
    BY <1>1, <1>3, <2>2, <2>4
<1>4. QED
  BY <1>2, <1>3

(* Who has made the account goes on to mark the invitation, unless lost. *)
LEMMA AdmittedStay ==
    ASSUME IInv, [Next]_vars, NEW v \in Visitors, door[v] # Idle, door[v].stage = "admitted",
           door[v].inv.id \in open', door[v].inv.id \notin left'
    PROVE  door'[v] = door[v]
<1> USE DEF IInv, TypeOK
<1>1. ASSUME NEW o \in Visitors, o # v,
             (\E i \in invites : ReadInvitation(o, i)) \/ CreateUser(o) \/ MarkInvitationUsed(o) \/ LoseRegistration(o)
      PROVE  door'[v] = door[v]
  BY <1>1 DEF ReadInvitation, CreateUser, MarkInvitationUsed, LoseRegistration
<1>2. /\ \A i \in invites : ~ReadInvitation(v, i)
      /\ ~CreateUser(v) /\ ~MarkInvitationUsed(v) /\ ~LoseRegistration(v)
  BY DEF ReadInvitation, CreateUser, MarkInvitationUsed, LoseRegistration
<1>3. QED
  BY <1>1, <1>2, DoorSteps

LEMMA SpentStep == IInv /\ [Next]_vars => SpentIsHeldOrClosed'
<1> SUFFICES ASSUME IInv, [Next]_vars, NEW i \in InviteIds, i \notin left', i \notin shared',
                    NEW u \in UserIds, from'[u] = i
             PROVE  /\ \A v \in Visitors : door'[v] # Idle /\ door'[v].inv.id = i => door'[v].stage = "admitted"
                    /\ i \in open' => \E v \in Visitors : door'[v] # Idle /\ door'[v].inv.id = i
  BY DEF SpentIsHeldOrClosed, Holding
<1> USE DEF IInv, TypeOK
<1>1. i \notin left /\ i \notin shared
  BY NotedStays
<1>2. CASE from'[u] # from[u]
  <2>1. PICK v \in Visitors : /\ CreateUser(v) /\ i = door[v].inv.id /\ door[v] # Idle
                              /\ door' = [door EXCEPT ![v].stage = "admitted"]
    BY <1>2, FromStep
  <2>2. door[v] \in Registration
    BY <2>1
  <2>3. door'[v].stage = "admitted" /\ door'[v].inv.id = i /\ door'[v] # Idle
    BY <2>1, <2>2 DEF Registration, Idle
  <2>4. ASSUME NEW w \in Visitors, w # v, door'[w] # Idle, door'[w].inv.id = i PROVE FALSE
    <3>1. Holding(w, i) /\ Holding(v, i)
      BY <2>1, <2>4 DEF Holding
    <3>2. QED
      BY <1>1, <2>4, <3>1 DEF HeldByOne
  <2>5. QED
    BY <2>3, <2>4
<1>3. CASE from'[u] = from[u]
  <2>1. /\ \A v \in Visitors : Holding(v, i) => door[v].stage = "admitted"
        /\ i \in open => \E v \in Visitors : Holding(v, i)
    BY <1>1, <1>3 DEF SpentIsHeldOrClosed
  <2>2. ASSUME NEW v \in Visitors, door'[v] # Idle, door'[v].inv.id = i PROVE door'[v].stage = "admitted"
    <3>1. ASSUME NEW l \in invites, ReadInvitation(v, l) PROVE FALSE
      <4>1. l.id = i /\ i \in open
        BY <2>2, <3>1 DEF ReadInvitation
      <4>2. \E o \in Visitors : Holding(o, i)
        BY <2>1, <4>1
      <4>3. i \in shared'
        BY <3>1, <4>1, <4>2 DEF ReadInvitation
      <4>4. QED
        BY <4>3
    <3>2. Holding(v, i) /\ (CreateUser(v) \/ door'[v].stage = door[v].stage)
      BY <2>2, <3>1, DoorStep DEF Holding
    <3>3. QED
      BY <2>1, <3>2 DEF CreateUser
  <2>3. ASSUME i \in open' PROVE \E v \in Visitors : door'[v] # Idle /\ door'[v].inv.id = i
    <3>1. i \in open
      <4>1. sent \in Nat /\ i \in Nat /\ i <= sent
        BY <1>3, TeamsAssumption DEF InviteIds
      <4>2. i # sent + 1
        BY <4>1
      <4>3. QED
        BY <2>3, <4>2, OpenStep
    <3>2. PICK v \in Visitors : Holding(v, i) /\ door[v].stage = "admitted"
      BY <2>1, <3>1
    <3>3. door'[v] = door[v]
      BY <2>3, <3>2, AdmittedStay DEF Holding
    <3>4. QED
      BY <3>2, <3>3 DEF Holding
  <2>4. QED
    BY <2>2, <2>3
<1>4. QED
  BY <1>2, <1>3
-------------------------------------------------------------------------------
(* IInv, types included, holds in every state of web/users.rs's handlers   *)
(* and register_submit, however they overlap.                              *)
THEOREM InvariantHolds == Spec => []IInv
<1>1. Init => IInv
  BY InitEstablishes
<1>2. IInv /\ [Next]_vars => IInv'
  <2>1. ASSUME IInv, [Next]_vars PROVE IInv'
    <3>1. TypeOK' /\ FormsFilled' /\ OwnersAuthorsStay' /\ OwnersOutOfReach'
      BY <2>1, TypeStep, FormsStep, AuthorsStep, ReachStep
    <3>2. LettersOffer' /\ AdminsFromOwners'
      BY <2>1, LettersStep, AdminStep
    <3>3. HeldByOne' /\ SpentIsHeldOrClosed' /\ TwiceOnlyIfLeftOpen'
      BY <2>1, HeldStep, SpentStep, TwiceStep
    <3>4. QED
      BY <3>1, <3>2, <3>3 DEF IInv
  <2>2. QED
    BY <2>1
<1>3. QED
  BY <1>1, <1>2, PTL DEF Spec

(* Ids, roles, requests and registrations stay what they are declared as. *)
THEOREM TypesHold == Spec => []TypeOK
<1>1. IInv => TypeOK
  BY DEF IInv
<1>2. QED
  BY <1>1, InvariantHolds, PTL

(* No overlap of update_role, remove, invite and register makes or loses   *)
(* an owner: every step leaves the set of owners as it is.                 *)
THEOREM OwnersStayFixed == Spec => OwnersFixed
<1>1. IInv /\ [Next]_vars => [Owners' = Owners]_vars
  <2>1. ASSUME IInv, [Next]_vars PROVE Owners' = Owners
    BY <2>1, OwnerStep DEF Owners
  <2>2. QED
    BY <2>1
<1>2. QED
  BY <1>1, InvariantHolds, PTL DEF Spec, OwnersFixed

(* Every administrator was made by somebody who is an owner still: neither *)
(* update_role nor register lets anybody else hand the rank on.            *)
THEOREM AdminsAreOwnersDoing == Spec => []AdminsFromOwners
<1>1. IInv => AdminsFromOwners
  BY DEF IInv
<1>2. QED
  BY <1>1, InvariantHolds, PTL

(* register_submit uses an invitation twice only across the two windows    *)
(* between its statements: a common look-up, or a registration cut short.  *)
THEOREM InvitationsOnce == Spec => []TwiceOnlyIfLeftOpen
<1>1. IInv => TwiceOnlyIfLeftOpen
  BY DEF IInv
<1>2. QED
  BY <1>1, InvariantHolds, PTL
===============================================================================
