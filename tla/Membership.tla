----------------------------- MODULE Membership -----------------------------
(***************************************************************************)
(* Who belongs to an organization and with which role: createInvitation,   *)
(* acceptInvitation and cancelInvitation (api/src/invitations),            *)
(* revokeAccess (api/src/users) and assignRoleToUser (api/src/roles), for  *)
(* one organization on a paid package.  The roles do not change.  No row   *)
(* is locked: a call reads, awaits, and writes.                            *)
(* A unit of time is a day.                                                *)
(***************************************************************************)
EXTENDS Integers, Sequences, FiniteSets

CONSTANTS
  User, Owner,   \* the people, and the one who registered the organization
  Custom,        \* the roles the organization has created from templates
  Level,         \* roles.hierarchy_level, of custom roles
  Manager,       \* the roles that hold the permissions to invite, cancel, revoke and
                 \* assign roles
  Call,          \* slots for API calls running at the same time
  SeatLimit,     \* organizations.user_limit
  InviteDays,    \* days an invitation is open
  MaxTime, MaxInvites, MaxRows,  \* bounds: days, invitations, memberships of one user
  None

Role == {"owner", "admin"} \cup Custom

ASSUME OwnerIsAUser == Owner \in User
ASSUME CustomRolesAreBelowAdmin == Level \in [Custom -> Nat \ 0..2]
ASSUME ManagersAreRoles == Manager \subseteq Role /\ "owner" \in Manager
ASSUME BoundsAreNumbers ==
  SeatLimit \in Int /\ InviteDays \in Nat /\ MaxTime \in Nat
  /\ MaxInvites \in Nat /\ MaxRows \in Nat
ASSUME CallsAreFinite == IsFiniteSet(Call)
ASSUME CustomIsApart == {"owner", "admin", None} \cap Custom = {}
ASSUME NoneIsNoUser == None \notin User

VARIABLES
  now,
  account,      \* who has a row in users
  member,       \* the organization_members row of each user
  invitations,  \* the invitations table, oldest first
  call          \* what each call has read and where it stands

vars == <<now, account, member, invitations, call>>

\* `id` numbers the rows a user has had; status "none": the last one is deleted.
Membership == [status : {"none", "active", "revoked"}, role : Role, id : 0..MaxRows]
NoMember == [status |-> "none", role |-> "admin", id |-> 0]
Founder == [status |-> "active", role |-> "owner", id |-> 0]

\* What createInvitation has found of an invitation before: nothing pending, one
\* that is late, or nothing because the email was typed with other capitals.
Search == {"nothing", "late", "missed"}

Invitation == [user : User, role : Role, found : Search, expires : Nat,
               status : {"PENDING", "ACCEPTED", "EXPIRED", "CANCELLED"}]

\* A call at rest.  `row` is its copy of a membership, `inv` the invitation it is
\* about, `fresh` whether acceptInvitation found no account.
Idle == [at |-> "idle", user |-> None, role |-> "admin", found |-> "nothing", fresh |-> FALSE,
         inv |-> 0, row |-> NoMember]

Stage == {"idle", "inviting", "opened", "checking", "reactivating", "joining", "accepting",
          "cancelling", "removing", "closing", "saving"}

MembershipTypeOK ==
  /\ now \in 0..MaxTime
  /\ account \subseteq User /\ Owner \in account
  /\ member \in [User -> Membership]
  /\ \A u \in User \ account : member[u] = NoMember
  /\ invitations \in Seq(Invitation) /\ Len(invitations) <= MaxInvites
  /\ call \in [Call -> [at : Stage, user : User \cup {None}, role : Role, found : Search,
                        fresh : BOOLEAN, inv : 0..MaxInvites, row : Membership]]

Init ==
  /\ now = 0
  /\ \E others \in SUBSET (User \ {Owner}) : account = others \cup {Owner}
  /\ member = [u \in User |-> IF u = Owner THEN Founder ELSE NoMember]
  /\ invitations = <<>>
  /\ call = [c \in Call |-> Idle]

-----------------------------------------------------------------------------
Members == {u \in User : member[u].status = "active"}

\* getRoleHierarchyLevel: a smaller number has more authority.
LevelOf(r) == IF r = "owner" THEN 1 ELSE IF r = "admin" THEN 2 ELSE Level[r]

\* The caller is an active member whose role may do this.
May(by) == by \in Members /\ member[by].role \in Manager
IsOwner(by) == member[by].role = "owner"

\* An owner is above every role, anyone else above the roles with a larger number.
Above(by, r) == IsOwner(by) \/ LevelOf(member[by].role) < LevelOf(r)

\* save() of a copy overwrites the row, or inserts it when it is gone; the unique
\* index on (organization_id, user_id) refuses that when there is a newer one.
Storable(c) ==
  LET row == member[call[c].user] IN row.status = "none" \/ row.id = call[c].row.id
SaveRow(c) == member' = [member EXCEPT ![call[c].user] = call[c].row]

At(c, stage) == call[c].at = stage
Finish(c) == call' = [call EXCEPT ![c] = Idle]
Go(c, stage) == call' = [call EXCEPT ![c].at = stage]

-----------------------------------------------------------------------------
(* createInvitation *)

Open(i) == invitations[i].status = "PENDING" /\ invitations[i].expires > now

\* Mutant: only members are looked for, not invitations.
NotAMember(u, found) == found # "missed" => u \notin Members

\* A member is refused.  Of the pending invitations findOne returns any one, and
\* that one alone must be late: another may still be open.
Invitable(u, found) ==
  LET pending == {i \in DOMAIN invitations : invitations[i].user = u /\ invitations[i].status = "PENDING"}
  IN  /\ found # "missed" => u \notin Members
      /\ found = "nothing" => pending = {}
      /\ found = "late" => \E i \in pending : ~Open(i)

\* The user is counted against the limit unless a member; the members and the
\* pending invitations are searched for the email as it was typed, and what is
\* stored is in lower case.
ReadForInvite(c, by, u, r, found) ==
  /\ At(c, "idle")
  /\ May(by)
  /\ u \in Members \/ Cardinality(Members) < SeatLimit
  /\ Invitable(u, found)
  /\ r # "owner"
  /\ Above(by, r)
  /\ call' = [call EXCEPT ![c] =
       [Idle EXCEPT !.at = "inviting", !.user = u, !.role = r, !.found = found]]
  /\ UNCHANGED <<now, account, member, invitations>>

InsertInvitation(c) ==
  /\ At(c, "inviting")
  /\ Len(invitations) < MaxInvites
  /\ invitations' = Append(invitations,
       [user |-> call[c].user, role |-> call[c].role,
        found |-> call[c].found, expires |-> now + InviteDays, status |-> "PENDING"])
  /\ Finish(c)
  /\ UNCHANGED <<now, account, member>>

-----------------------------------------------------------------------------
(* acceptInvitation *)

\* getInvitationByToken marks whatever has passed its date, also an invitation
\* that was accepted or cancelled.
OpenLate(i) ==
  /\ i \in DOMAIN invitations
  /\ invitations[i].expires < now
  /\ invitations' = [invitations EXCEPT ![i].status = "EXPIRED"]
  /\ UNCHANGED <<now, account, member, call>>

\* (That an account the invitation names is still there is checked too: accounts
\* are never deleted.)
OpenInvitation(c, i) ==
  /\ At(c, "idle")
  /\ i \in DOMAIN invitations
  /\ invitations[i].status = "PENDING" /\ invitations[i].expires >= now
  /\ call' = [call EXCEPT ![c] =
       [Idle EXCEPT !.at = "opened", !.user = invitations[i].user, !.role = invitations[i].role,
                    !.inv = i, !.fresh = invitations[i].user \notin account]]
  /\ UNCHANGED <<now, account, member, invitations>>

\* Mutant: no account is created.
SaveNothing(c) ==
  /\ At(c, "opened")
  /\ call' = [call EXCEPT ![c].at = "checking"]
  /\ UNCHANGED <<now, account, member, invitations>>

\* The account is created (users.email is unique) or saved.
SaveAccount(c) ==
  /\ At(c, "opened")
  /\ IF call[c].fresh /\ call[c].user \in account
     THEN Finish(c) /\ UNCHANGED account
     ELSE /\ call' = [call EXCEPT ![c].at = "checking", ![c].fresh = FALSE]
          /\ account' = account \cup {call[c].user}
  /\ UNCHANGED <<now, member, invitations>>

\* An active member is refused; a revoked membership is used again.
CheckMembership(c) ==
  LET row == member[call[c].user]
  IN  /\ At(c, "checking")
      /\ \/ row.status = "active" /\ Finish(c)
         \/ /\ row.status = "revoked"
            /\ call' = [call EXCEPT ![c].at = "reactivating",
                                    ![c].row = [row EXCEPT !.status = "active", !.role = call[c].role]]
         \/ row.status = "none" /\ Go(c, "joining")
      /\ UNCHANGED <<now, account, member, invitations>>

\* All that is left is to save the invitation.
Settle(c) == call' = [call EXCEPT ![c] = [Idle EXCEPT !.at = "accepting", !.inv = call[c].inv]]

Reactivate(c) ==
  /\ At(c, "reactivating")
  /\ IF Storable(c) THEN SaveRow(c) /\ Settle(c) ELSE Finish(c) /\ UNCHANGED member
  /\ UNCHANGED <<now, account, invitations>>

\* The unique index on (organization_id, user_id) refuses a second row.
Join(c) ==
  /\ At(c, "joining")
  /\ IF member[call[c].user].status # "none"
     THEN Finish(c) /\ UNCHANGED member
     ELSE /\ member[call[c].user].id < MaxRows
          /\ member' = [member EXCEPT ![call[c].user] =
                          [status |-> "active", role |-> call[c].role, id |-> @.id + 1]]
          /\ Settle(c)
  /\ UNCHANGED <<now, account, invitations>>

SaveAccepted(c) ==
  /\ At(c, "accepting")
  /\ invitations' = [invitations EXCEPT ![call[c].inv].status = "ACCEPTED"]
  /\ Finish(c)
  /\ UNCHANGED <<now, account, member>>

-----------------------------------------------------------------------------
(* cancelInvitation *)

ReadForCancel(c, by, i) ==
  /\ At(c, "idle")
  /\ May(by)
  /\ i \in DOMAIN invitations
  /\ invitations[i].status = "PENDING"
  /\ call' = [call EXCEPT ![c] = [Idle EXCEPT !.at = "cancelling", !.inv = i, !.user = invitations[i].user]]
  /\ UNCHANGED <<now, account, member, invitations>>

\* A membership of the invited user, of whatever status and origin, is deleted.
LookUpMember(c) ==
  /\ At(c, "cancelling")
  /\ call' = [call EXCEPT ![c].at = IF member[call[c].user].status # "none" THEN "removing" ELSE "closing",
                          ![c].row.id = member[call[c].user].id]
  /\ UNCHANGED <<now, account, member, invitations>>

RemoveMember(c) ==
  /\ At(c, "removing")
  /\ member' = [member EXCEPT ![call[c].user] =
                  IF @.id = call[c].row.id THEN [NoMember EXCEPT !.id = call[c].row.id] ELSE @]
  /\ call' = [call EXCEPT ![c].at = "closing", ![c].row = NoMember]
  /\ UNCHANGED <<now, account, invitations>>

CloseInvitation(c) ==
  /\ At(c, "closing")
  /\ invitations' = [invitations EXCEPT ![call[c].inv].status = "CANCELLED"]
  /\ Finish(c)
  /\ UNCHANGED <<now, account, member>>

-----------------------------------------------------------------------------
(* revokeAccess and assignRoleToUser save a copy of the membership *)

\* Mutant: neither owners nor levels are looked at.
AnyMember(by, u) == u \in Members \ {by}

\* Not oneself, not an owner, and only somebody of lower rank.
Revocable(by, u) ==
  /\ u \in Members \ {by}
  /\ member[u].role # "owner"
  /\ LevelOf(member[by].role) < LevelOf(member[u].role)

ReadForRevoke(c, by, u) ==
  /\ At(c, "idle")
  /\ May(by)
  /\ Revocable(by, u)
  /\ call' = [call EXCEPT ![c] = [Idle EXCEPT !.at = "saving", !.user = u,
                                              !.row = [member[u] EXCEPT !.status = "revoked"]]]
  /\ UNCHANGED <<now, account, member, invitations>>

\* Nobody changes the role of an owner.  An owner may assign every role, also the
\* owner's; anyone else no role of their own rank or above, and none above the one
\* the user has.
ReadForAssign(c, by, u, r) ==
  LET held == member[u].role
  IN  /\ At(c, "idle")
      /\ May(by)
      /\ u \in Members
      /\ held # "owner"
      /\ IsOwner(by) \/ (Above(by, held) /\ Above(by, r) /\ LevelOf(r) >= LevelOf(held))
      /\ call' = [call EXCEPT ![c] = [Idle EXCEPT !.at = "saving", !.user = u,
                                                  !.row = [member[u] EXCEPT !.role = r]]]
      /\ UNCHANGED <<now, account, member, invitations>>

SaveMember(c) ==
  /\ At(c, "saving")
  /\ IF Storable(c) THEN SaveRow(c) ELSE UNCHANGED member
  /\ Finish(c)
  /\ UNCHANGED <<now, account, invitations>>

-----------------------------------------------------------------------------
NextDay ==
  /\ now < MaxTime
  /\ now' = now + 1
  /\ UNCHANGED <<account, member, invitations, call>>

\* A restart, or an error in one of its calls, ends a call in the middle.
Break(c) ==
  /\ ~At(c, "idle")
  /\ Finish(c)
  /\ UNCHANGED <<now, account, member, invitations>>

Invites(c) ==
  \/ \E by, u \in User, r \in Role, found \in Search : ReadForInvite(c, by, u, r, found)
  \/ InsertInvitation(c)

Accepts(c) ==
  \/ \E i \in 1..MaxInvites : OpenInvitation(c, i)
  \/ SaveAccount(c) \/ CheckMembership(c) \/ Reactivate(c) \/ Join(c) \/ SaveAccepted(c)

Cancels(c) ==
  \/ \E by \in User, i \in 1..MaxInvites : ReadForCancel(c, by, i)
  \/ LookUpMember(c) \/ RemoveMember(c) \/ CloseInvitation(c)

Manages(c) ==
  \/ \E by, u \in User : ReadForRevoke(c, by, u) \/ \E r \in Role : ReadForAssign(c, by, u, r)
  \/ SaveMember(c)

Next ==
  \/ \E c \in Call : Invites(c) \/ Accepts(c) \/ Cancels(c) \/ Manages(c) \/ Break(c)
  \/ \E i \in 1..MaxInvites : OpenLate(i)
  \/ NextDay

Spec == Init /\ [][Next]_vars

-----------------------------------------------------------------------------
(* Properties *)

\* Whoever is invited, cancelled, revoked and assigned in whatever order, the user
\* who registered the organization stays its owner, until an invitation is stored
\* for that user which the search for a member has missed: cancelling it deletes
\* the membership.
OwnerStays ==
  \/ member[Owner] = Founder
  \/ \E i \in DOMAIN invitations : invitations[i].user = Owner /\ invitations[i].found = "missed"

\* "An active invitation already exists for this email": as long as the search finds
\* none, late or not, only calls that overlap make a second one, so of these the
\* invitations of a person that are open, and those about to be inserted, are never
\* more than the calls that run at a time.
PendingBounded ==
  \A u \in User :
    LET open == {i \in DOMAIN invitations :
                   invitations[i].user = u /\ invitations[i].found = "nothing" /\ Open(i)}
        coming == {c \in Call : At(c, "inviting") /\ call[c].user = u /\ call[c].found = "nothing"}
    IN  Cardinality(open) + Cardinality(coming) <= Cardinality(Call)
=============================================================================
