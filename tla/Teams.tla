-------------------------------- MODULE Teams --------------------------------
(***************************************************************************)
(* The panel's accounts: roles, the requests of administrators about other *)
(* accounts, invitations, and the registrations that use them.             *)
(*                                                                         *)
(* Every statement on the database is a step: a request acts on the role   *)
(* the middleware read for its author, and on what it read of its object,  *)
(* whatever the other requests have written since.                         *)
(***************************************************************************)
EXTENDS Naturals, Sequences

CONSTANTS
    Emails,       \* addresses people register with
    Roster,       \* the accounts on file when the panel starts, in order of id
    Requests,     \* requests of signed-in accounts that may be in flight
    Visitors,     \* registrations that may be in flight
    MaxUsers,     \* bound: accounts ever made
    MaxInvites    \* bound: invitations ever sent

UserIds   == 1 .. MaxUsers
InviteIds == 1 .. MaxInvites

(* A member is an operator or a viewer: neither may begin a request of     *)
(* this module, and nothing here tells them apart.                         *)
Roles == {"owner", "admin", "member"}
RoleLevel(r) == CASE r = "owner" -> 0 [] r = "admin" -> 1 [] r = "member" -> 2
HasGlobalAccess(r) == r \in {"owner", "admin"}
CanManage(actor, target) == RoleLevel(actor) < RoleLevel(target)

ASSUME TeamsAssumption ==
    /\ MaxUsers \in Nat /\ MaxInvites \in Nat
    /\ Roster \in Seq([email : Emails, role : Roles])
    /\ Len(Roster) \in UserIds
    /\ \A i, j \in 1 .. Len(Roster) : Roster[i].email = Roster[j].email => i = j
    /\ Roster[1].role = "owner"

VARIABLES
    role,      \* users.role by id, "none" where there is no row
    email,     \* users.email by id, "none" where there is no row
    made,      \* ids of users given out, AUTOINCREMENT
    invites,   \* rows of invitation_tokens
    open,      \* ids of those neither used nor expired
    sent,      \* ids of invitation_tokens given out, AUTOINCREMENT
    desk,      \* [request -> where it stands]
    door,      \* [visitor -> where the registration stands]
    promoter,  \* observed: [administrator -> the account that made it one]
    from,      \* observed: [id -> the invitation it registered with]
    left,      \* observed: invitations an account was made from and which
               \* the registration did not live to mark
    shared     \* observed: invitations two registrations held at once

accounts == <<role, email, made>>
letters  == <<invites, open, sent>>
observed == <<promoter, from, left, shared>>
vars == <<accounts, letters, desk, door, observed>>

Users  == {u \in UserIds : role[u] # "none"}
Owners == {u \in UserIds : role[u] = "owner"}

Idle == [stage |-> "idle"]
Invitation == [id : InviteIds, email : Emails, role : Roles, by : UserIds]

(* A request about another account or an invitation.  as is the role its   *)
(* author had when the middleware looked; on is what it is about.          *)
Request ==
    [stage : {"begun", "cleared"}, op : {"role", "remove", "invite", "revoke"},
     by : UserIds, as : Roles, on : UserIds \cup Emails \cup InviteIds, to : Roles \cup {"none"}]
Registration == [stage : {"read", "admitted"}, inv : Invitation]

Init ==
    /\ role  = [u \in UserIds |-> IF u <= Len(Roster) THEN Roster[u].role ELSE "none"]
    /\ email = [u \in UserIds |-> IF u <= Len(Roster) THEN Roster[u].email ELSE "none"]
    /\ made = Len(Roster)
    /\ invites = {} /\ open = {} /\ sent = 0
    /\ desk = [r \in Requests |-> Idle]
    /\ door = [v \in Visitors |-> Idle]
    /\ promoter = [u \in UserIds |-> 1]
    /\ from = [u \in UserIds |-> 0]
    /\ left = {} /\ shared = {}
-------------------------------------------------------------------------------
(* Mutant: the role named may be any but the owner's. *)
AsksAnyButOwner(a) ==
    LET below  == Roles \ {"owner"}
        others == Users \ {a}
    IN [op : {"role"}, on : others, to : below] \cup [op : {"remove"}, on : others, to : {"none"}]
       \cup [op : {"invite"}, on : Emails, to : below]
       \cup [op : {"revoke"}, on : {i.id : i \in invites}, to : {"none"}]

(* Mutant: the role named may be the author's own. *)
AsksOwnLevel(a) ==
    LET below  == {to \in Roles : ~CanManage(to, role[a])}
        others == Users \ {a}
    IN [op : {"role"}, on : others, to : below] \cup [op : {"remove"}, on : others, to : {"none"}]
       \cup [op : {"invite"}, on : Emails, to : below]
       \cup [op : {"revoke"}, on : {i.id : i \in invites}, to : {"none"}]

(* What the account a may ask for.  A request that can only be refused     *)
(* changes nothing and is left out: a role named in it must be below the   *)
(* author's, nobody changes or removes the own account, and an id without  *)
(* a row never has one again.                                              *)
Asks(a) ==
    LET below  == {to \in Roles : CanManage(role[a], to)}
        others == Users \ {a}
    IN [op : {"role"}, on : others, to : below] \cup [op : {"remove"}, on : others, to : {"none"}]
       \cup [op : {"invite"}, on : Emails, to : below]
       \cup [op : {"revoke"}, on : {i.id : i \in invites}, to : {"none"}]

(* The session resolves to an account, which must be admin or owner.  To   *)
(* revoke an invitation nothing else is read.  Bound: nobody is invited    *)
(* once MaxInvites have been sent.                                         *)
Begin(r, a, q) ==
    /\ desk[r] = Idle
    /\ q.op = "invite" => sent < MaxInvites
    /\ HasGlobalAccess(role[a])
    /\ desk' = [desk EXCEPT ![r] = [stage |-> IF q.op = "revoke" THEN "cleared" ELSE "begun",
                                    op |-> q.op, by |-> a, as |-> role[a],
                                    on |-> q.on, to |-> q.to]]
    /\ UNCHANGED <<accounts, letters, door, observed>>

(* What the handler requires of what it reads in between. *)
Allowed(q) ==
    \/ q.op \in {"role", "remove"} /\ q.on \in Users /\ CanManage(q.as, role[q.on])
    \/ q.op = "invite" /\ q.on \notin {email[u] : u \in Users}

(* The handler reads the object and checks. *)
Clear(r) ==
    /\ desk[r].stage = "begun"
    /\ desk' = [desk EXCEPT ![r] = IF Allowed(@) THEN [@ EXCEPT !.stage = "cleared"] ELSE Idle]
    /\ UNCHANGED <<accounts, letters, door, observed>>

(* An error of the look-up of the address counts as "no such account". *)
ClearUnread(r) ==
    /\ desk[r].stage = "begun" /\ desk[r].op = "invite"
    /\ desk' = [desk EXCEPT ![r].stage = "cleared"]
    /\ UNCHANGED <<accounts, letters, door, observed>>

(* r is at its one writing statement for op, and is over after it. *)
Writes(r, op) ==
    /\ desk[r].stage = "cleared" /\ desk[r].op = op
    /\ desk' = [desk EXCEPT ![r] = Idle]

Promoted(u, to, by) == [promoter EXCEPT ![u] = IF to = "admin" THEN by ELSE 1]

(* UPDATE users SET role: no row, no effect. *)
UpdateRole(r) ==
    /\ Writes(r, "role")
    /\ LET t == desk[r].on IN
       IF t \in Users
       THEN /\ role' = [role EXCEPT ![t] = desk[r].to]
            /\ promoter' = Promoted(t, desk[r].to, desk[r].by)
       ELSE UNCHANGED <<role, promoter>>
    /\ UNCHANGED <<email, made, letters, door, from, left, shared>>

(* DELETE FROM users, which takes the invitations the account sent along. *)
DeleteUser(r) ==
    /\ Writes(r, "remove")
    /\ role'  = [role EXCEPT ![desk[r].on] = "none"]
    /\ email' = [email EXCEPT ![desk[r].on] = "none"]
    /\ promoter' = Promoted(desk[r].on, "none", 1)
    /\ invites' = {i \in invites : i.by # desk[r].on}
    /\ open' = {i.id : i \in invites'} \cap open
    /\ UNCHANGED <<made, sent, door, from, left, shared>>

(* INSERT INTO invitation_tokens: an error when its author is gone. *)
CreateInvitation(r) ==
    /\ Writes(r, "invite")
    /\ IF desk[r].by \in Users
       THEN /\ sent < MaxInvites
            /\ sent' = sent + 1
            /\ invites' = invites \cup {[id |-> sent + 1, email |-> desk[r].on,
                                         role |-> desk[r].to, by |-> desk[r].by]}
            /\ open' = open \cup {sent + 1}
       ELSE UNCHANGED letters
    /\ UNCHANGED <<accounts, door, observed>>

RevokeInvitation(r) ==
    /\ Writes(r, "revoke")
    /\ invites' = {i \in invites : i.id # desk[r].on}
    /\ open' = open \ {desk[r].on}
    /\ UNCHANGED <<accounts, sent, door, observed>>

(* The client leaves, the panel stops or a statement fails: the rest of    *)
(* the request does not happen.                                            *)
Lose(r) ==
    /\ desk[r] # Idle
    /\ desk' = [desk EXCEPT ![r] = Idle]
    /\ UNCHANGED <<accounts, letters, door, observed>>
-------------------------------------------------------------------------------
Holding(v, i) == door[v] # Idle /\ door[v].inv.id = i

(* The form comes in and the token is looked up. *)
ReadInvitation(v, i) ==
    /\ door[v] = Idle
    /\ i \in invites /\ i.id \in open
    /\ door' = [door EXCEPT ![v] = [stage |-> "read", inv |-> i]]
    /\ shared' = IF \E o \in Visitors : Holding(o, i.id) THEN shared \cup {i.id} ELSE shared
    /\ UNCHANGED <<accounts, letters, desk, promoter, from, left>>

(* INSERT INTO users: an error when the address has an account. *)
CreateUser(v) ==
    /\ door[v] # Idle /\ door[v].stage = "read"
    /\ LET i == door[v].inv IN
       IF i.email \in {email[u] : u \in Users}
       THEN /\ door' = [door EXCEPT ![v] = Idle]
            /\ UNCHANGED <<accounts, promoter, from>>
       ELSE /\ made < MaxUsers
            /\ made' = made + 1
            /\ role'  = [role EXCEPT ![made + 1] = i.role]
            /\ email' = [email EXCEPT ![made + 1] = i.email]
            /\ promoter' = Promoted(made + 1, i.role, i.by)
            /\ from'  = [from EXCEPT ![made + 1] = i.id]
            /\ door' = [door EXCEPT ![v].stage = "admitted"]
    /\ UNCHANGED <<letters, desk, left, shared>>

(* Mutant: the invitation is not marked. *)
LeaveInvitationOpen(v) ==
    /\ door[v] # Idle /\ door[v].stage = "admitted"
    /\ door' = [door EXCEPT ![v] = Idle]
    /\ UNCHANGED <<accounts, letters, desk, observed>>

MarkInvitationUsed(v) ==
    /\ door[v] # Idle /\ door[v].stage = "admitted"
    /\ open' = open \ {door[v].inv.id}
    /\ door' = [door EXCEPT ![v] = Idle]
    /\ UNCHANGED <<accounts, invites, sent, desk, observed>>

LoseRegistration(v) ==
    /\ door[v] # Idle
    /\ door' = [door EXCEPT ![v] = Idle]
    /\ left' = IF door[v].stage = "admitted" THEN left \cup {door[v].inv.id} ELSE left
    /\ UNCHANGED <<accounts, letters, desk, promoter, from, shared>>

Expire(i) ==
    /\ i \in open
    /\ open' = open \ {i}
    /\ UNCHANGED <<accounts, invites, sent, desk, door, observed>>

Next ==
    \/ \E r \in Requests :
          \/ \E a \in Users : \E q \in Asks(a) : Begin(r, a, q)
          \/ Clear(r) \/ ClearUnread(r)
          \/ UpdateRole(r) \/ DeleteUser(r) \/ CreateInvitation(r) \/ RevokeInvitation(r)
          \/ Lose(r)
    \/ \E v \in Visitors :
          \/ \E i \in invites : ReadInvitation(v, i)
          \/ CreateUser(v) \/ MarkInvitationUsed(v) \/ LoseRegistration(v)
    \/ \E i \in InviteIds : Expire(i)

Spec == Init /\ [][Next]_vars
-------------------------------------------------------------------------------
(* Ids of accounts and invitations stay within what was given out, and     *)
(* requests and registrations hold values of the right kind.               *)
TypeOK ==
    /\ role \in [UserIds -> Roles \cup {"none"}]
    /\ email \in [UserIds -> Emails \cup {"none"}]
    /\ made \in UserIds /\ \A u \in Users : u <= made
    /\ invites \subseteq Invitation /\ \A i \in invites : i.id <= sent
    /\ sent \in 0 .. MaxInvites /\ open \subseteq 1 .. sent
    /\ desk \in [Requests -> Request \cup {Idle}]
    /\ door \in [Visitors -> Registration \cup {Idle}]
    /\ promoter \in [UserIds -> UserIds]
    /\ from \in [UserIds -> 0 .. sent]
    /\ left \subseteq 1 .. sent /\ shared \subseteq 1 .. sent

(* Nobody becomes an owner and no owner is ever lost: whatever requests    *)
(* overlap, and however old the roles they act on, update_role, remove,    *)
(* invite and register leave the set of owners as it is.                   *)
OwnersFixed == [][Owners' = Owners]_vars

(* Every administrator was made one by somebody who is an owner now, by an *)
(* invitation or by a change of role: requests that outlive their author's *)
(* rank, and invitations of authors since removed, make no administrator.  *)
AdminsFromOwners == \A u \in UserIds : role[u] = "admin" => role[promoter[u]] = "owner"

(* An invitation makes a second account only if two registrations had read *)
(* it before either marked it, or if one ended between the INSERT of the   *)
(* account and the UPDATE that marks the invitation used.                  *)
TwiceOnlyIfLeftOpen ==
    \A u, w \in UserIds : u # w /\ from[u] = from[w] => from[u] \in {0} \cup left \cup shared

(* What makes them inductive. *)
FormsFilled == \A r \in Requests : desk[r] # Idle =>
    /\ desk[r].op \in {"role", "remove"} => desk[r].on \in UserIds
    /\ desk[r].op = "invite" => desk[r].on \in Emails
    /\ desk[r].op \in {"role", "invite"} => desk[r].to \in Roles /\ CanManage(desk[r].as, desk[r].to)

OwnersAuthorsStay == \A r \in Requests : desk[r] # Idle /\ desk[r].as = "owner" => role[desk[r].by] = "owner"

OwnersOutOfReach == \A r \in Requests :
    desk[r].stage = "cleared" /\ desk[r].op \in {"role", "remove"} => role[desk[r].on] # "owner"

Offers(i) == i.role # "owner" /\ (i.role = "admin" => role[i.by] = "owner")
LettersOffer ==
    /\ \A i \in invites : Offers(i)
    /\ \A v \in Visitors : door[v] # Idle => Offers(door[v].inv) /\ door[v].inv.id <= sent

HeldByOne == \A v, w \in Visitors : \A i \in InviteIds :
    Holding(v, i) /\ Holding(w, i) /\ i \notin shared => v = w

SpentIsHeldOrClosed == \A i \in InviteIds \ (left \cup shared) :
    (\E u \in UserIds : from[u] = i) =>
        /\ \A v \in Visitors : Holding(v, i) => door[v].stage = "admitted"
        /\ i \in open => \E v \in Visitors : Holding(v, i)

IInv ==
    /\ TypeOK
    /\ FormsFilled /\ OwnersAuthorsStay /\ OwnersOutOfReach /\ LettersOffer
    /\ AdminsFromOwners
    /\ HeldByOne /\ SpentIsHeldOrClosed /\ TwiceOnlyIfLeftOpen
===============================================================================
