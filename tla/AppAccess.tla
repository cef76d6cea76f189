------------------------------- MODULE AppAccess -------------------------------
(***************************************************************************)
(* Who may open one app an organization has subscribed to: app-access.     *)
(* service.ts (grantAccess, revokeAccess) and app-invitation.service.ts    *)
(* (src/api/src/apps).  An acceptance grants the access and saves the      *)
(* invitation afterwards.  Whether the inviter and the invited are still   *)
(* members with the rights needed, and whether the app is still            *)
(* subscribed, is asked again each time: Refused stands for a No.          *)
(***************************************************************************)
EXTENDS Server

CONSTANTS
  Guest,       \* members who may be given access
  MaxInvited,  \* bound: invitations
  MaxMishaps   \* bound: no call begins when so many were broken off or overlapped

ASSUME AccessBounds == MaxInvited \in Nat /\ MaxMishaps \in Nat

VARIABLES
  access,   \* user_app_access.is_active; "none": there is no row
  invited,  \* app_invitations: for whom, expires_at in the past, and status
  asking,   \* what each call has read and where it stands
  grants,   \* history: how often each invitation opened the app
  mishaps   \* history: acceptances that ended between the access and the invitation, and
            \* saves over a row that had changed

accessVars == <<access, invited, asking, grants, mishaps>>

Invite == 1..MaxInvited
InviteRow == [for : Guest, late : BOOLEAN,
              status : {"PENDING", "ACCEPTED", "DECLINED", "EXPIRED", "CANCELLED"}]
NoInvite == [for |-> None, late |-> FALSE, status |-> "none"]

\* `seen` is the row read, of user_app_access or app_invitations; `inv` the invitation
\* that is accepted, 0 for a grant without one.
Asleep == [at |-> "idle", of |-> None, inv |-> 0, seen |-> None, invSeen |-> NoInvite]

AccessInit ==
  /\ access = [g \in Guest |-> "none"]
  /\ invited = [i \in Invite |-> NoInvite]
  /\ asking = [c \in Call |-> Asleep]
  /\ grants = [i \in Invite |-> 0]
  /\ mishaps = 0

-----------------------------------------------------------------------------
Asks(c, at) == asking[c].at = at
Asked(c, r) == asking' = [asking EXCEPT ![c] = r]
Ready(c) == asking[c] = Asleep /\ mishaps < MaxMishaps
OnlyAsked == UNCHANGED <<access, invited, grants, mishaps>>
Mishap(row, seen) == mishaps' = mishaps + Lost(row, seen)

\* grantAccess: refused to one who has access; a revoked row is used again.
Grant(c, g) ==
  /\ Ready(c) /\ access[g] # "active"
  /\ Asked(c, [Asleep EXCEPT !.at = "granting", !.of = g, !.seen = access[g]])
  /\ OnlyAsked

\* The unique index on the user, the organization and the app refuses a second row.
SaveGrant(c) ==
  LET a == asking[c]
  IN  /\ Asks(c, "granting")
      /\ IF a.seen = "none" /\ access[a.of] # "none"
         THEN Asked(c, Asleep) /\ UNCHANGED <<access, grants, mishaps>>
         ELSE /\ access' = [access EXCEPT ![a.of] = "active"]
              /\ grants' = IF a.inv = 0 THEN grants ELSE [grants EXCEPT ![a.inv] = @ + 1]
              /\ Mishap(access[a.of], a.seen)
              /\ Asked(c, IF a.inv = 0 THEN Asleep ELSE [a EXCEPT !.at = "accepting", !.seen = None])
      /\ UNCHANGED invited

\* revokeAccess saves the row whatever it says.
Revoke(c, g) ==
  /\ Ready(c) /\ access[g] # "none"
  /\ Asked(c, [Asleep EXCEPT !.at = "revoking", !.of = g, !.seen = access[g]])
  /\ OnlyAsked

SaveRevoke(c) ==
  LET a == asking[c]
  IN  /\ Asks(c, "revoking")
      /\ access' = [access EXCEPT ![a.of] = "inactive"]
      /\ Mishap(access[a.of], a.seen)
      /\ Asked(c, Asleep)
      /\ UNCHANGED <<invited, grants>>

-----------------------------------------------------------------------------
(* Invitations *)

IsPending(i) == invited[i].status = "PENDING"
PendingFor(g) == {i \in Invite : IsPending(i) /\ invited[i].for = g}

\* createInvitation: for one without access; one pending invitation is looked up, which
\* refuses the call, or is saved as EXPIRED.
CreateInvitation(c, g) ==
  /\ Ready(c) /\ access[g] # "active"
  /\ \/ PendingFor(g) = {} /\ Asked(c, [Asleep EXCEPT !.at = "inviting", !.of = g])
     \/ \E i \in PendingFor(g) :
          /\ invited[i].late
          /\ Asked(c, [Asleep EXCEPT !.at = "expiring", !.of = g, !.inv = i, !.invSeen = invited[i]])
  /\ OnlyAsked

InsertInvite(c) ==
  /\ Asks(c, "inviting")
  /\ \E i \in Invite :
       /\ invited[i] = NoInvite /\ \A j \in Invite : j < i => invited[j] # NoInvite
       /\ invited' = [invited EXCEPT ![i] = [for |-> asking[c].of, late |-> FALSE, status |-> "PENDING"]]
  /\ Asked(c, Asleep)
  /\ UNCHANGED <<access, grants, mishaps>>

\* Mutant: the access comes last.
AcceptBeforeGrant(c, i) ==
  /\ Ready(c) /\ IsPending(i)
  /\ Asked(c, [Asleep EXCEPT !.at = "accepting", !.of = invited[i].for, !.inv = i, !.invSeen = invited[i]])
  /\ OnlyAsked

\* Mutant: the invitation's status is not asked.
AcceptAny(c, i) ==
  /\ Ready(c) /\ invited[i] # NoInvite
  /\ Asked(c, [Asleep EXCEPT !.at = "checking", !.of = invited[i].for, !.inv = i, !.invSeen = invited[i]])
  /\ OnlyAsked

\* acceptInvitation: a pending invitation, which may have expired.
Accept(c, i) ==
  /\ Ready(c) /\ IsPending(i)
  /\ Asked(c, [Asleep EXCEPT !.at = IF invited[i].late THEN "lapsing" ELSE "checking",
                             !.of = invited[i].for, !.inv = i, !.invSeen = invited[i]])
  /\ OnlyAsked

\* The access row is looked up; one who has access already is refused.
AcceptedGrant(c) ==
  LET a == asking[c]
  IN  /\ Asks(c, "checking")
      /\ Asked(c, IF access[a.of] = "active" THEN Asleep
                  ELSE [a EXCEPT !.at = "granting", !.seen = access[a.of]])
      /\ OnlyAsked

\* declineInvitation by the invited, cancelInvitation by the inviter.
Close(c, i, at) ==
  /\ Ready(c) /\ IsPending(i)
  /\ Asked(c, [Asleep EXCEPT !.at = at, !.inv = i, !.invSeen = invited[i]])
  /\ OnlyAsked

SavedAs == [accepting |-> "ACCEPTED", declining |-> "DECLINED", cancelling |-> "CANCELLED",
            expiring |-> "EXPIRED", lapsing |-> "EXPIRED"]

SaveInvitation(c) ==
  LET a == asking[c]
  IN  /\ a.at \in DOMAIN SavedAs
      /\ invited' = [invited EXCEPT ![a.inv].status = SavedAs[a.at]]
      /\ Mishap(invited[a.inv].status, a.invSeen.status)
      /\ Asked(c, IF a.at = "expiring" THEN [Asleep EXCEPT !.at = "inviting", !.of = a.of] ELSE Asleep)
      /\ UNCHANGED <<access, grants>>

\* A week has passed.
Late(i) ==
  /\ invited[i] # NoInvite /\ ~invited[i].late
  /\ invited' = [invited EXCEPT ![i].late = TRUE]
  /\ UNCHANGED <<access, asking, grants, mishaps>>

\* A refusal, an error or a restart.
Refused(c) ==
  /\ asking[c] # Asleep
  /\ mishaps' = IF Asks(c, "accepting") THEN mishaps + 1 ELSE mishaps
  /\ Asked(c, Asleep)
  /\ UNCHANGED <<access, invited, grants>>

AccessStep(c) ==
  \/ \E g \in Guest : Grant(c, g) \/ Revoke(c, g) \/ CreateInvitation(c, g)
  \/ SaveGrant(c) \/ SaveRevoke(c) \/ InsertInvite(c)
  \/ \E i \in Invite : Accept(c, i) \/ Close(c, i, "declining") \/ Close(c, i, "cancelling")
  \/ AcceptedGrant(c) \/ SaveInvitation(c) \/ Refused(c)

AccessNext == (\E c \in Call : AccessStep(c)) \/ (\E i \in Invite : Late(i))
AccessSpec == AccessInit /\ [][AccessNext]_accessVars

-----------------------------------------------------------------------------
(* Properties *)

\* An invitation opens the app no more often than acceptances can have read it before
\* the first of them saves it; more often only if an acceptance ended before it was
\* saved, or after calls have saved over each other.
GrantsBounded == \A i \in Invite : grants[i] <= Cardinality(Call) + mishaps

\* Whatever is accepted has been granted.
AcceptedIsGranted == \A i \in Invite : invited[i].status = "ACCEPTED" => grants[i] > 0
=============================================================================
