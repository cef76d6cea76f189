--------------------------- MODULE MembershipProofs ---------------------------
(***************************************************************************)
(* Proofs about Membership, for any people, roles, limits and overlapping   *)
(* calls, broken off anywhere.                                              *)
(***************************************************************************)
EXTENDS Membership, SequenceTheorems, FiniteSetTheorems, TLAPS

-----------------------------------------------------------------------------
(* Types *)

Calls == [at : Stage, user : User \cup {None}, role : Role, found : Search,
          fresh : BOOLEAN, inv : 0..MaxInvites, row : Membership]

\* A call that is about somebody knows whom; whom it is about to make a member, or
\* has found to be one, has an account.
Sound(r, accounts) ==
  /\ r.at \in {"inviting", "opened", "checking", "reactivating", "joining",
               "cancelling", "removing", "saving"} => r.user \in User
  /\ r.at \in {"checking", "reactivating", "joining", "saving"} => r.user \in accounts

CallsAreSound == \A c \in Call : Sound(call[c], account)

TypeInv == MembershipTypeOK /\ CallsAreSound

LEMMA IdleIsTyped == Idle \in Calls /\ Idle.at = "idle"
BY BoundsAreNumbers DEF Idle, Calls, Stage, Search, NoMember, Membership, Role

LEMMA TypeInvInit == Init => TypeInv
<1> SUFFICES ASSUME Init PROVE TypeInv
  OBVIOUS
<1>1. now \in 0..MaxTime
  BY BoundsAreNumbers DEF Init
<1>2. account \subseteq User /\ Owner \in account
  BY OwnerIsAUser DEF Init
<1>3. Founder \in Membership /\ NoMember \in Membership
  BY BoundsAreNumbers DEF Founder, NoMember, Membership, Role
<1>4. member \in [User -> Membership] /\ \A u \in User \ account : member[u] = NoMember
  BY <1>2, <1>3 DEF Init
<1>5. invitations \in Seq(Invitation) /\ Len(invitations) <= MaxInvites
  BY BoundsAreNumbers DEF Init
<1>6. call \in [Call -> Calls]
  BY IdleIsTyped DEF Init
<1>7. CallsAreSound
  BY IdleIsTyped DEF Init, CallsAreSound, Sound
<1> QED BY <1>1, <1>2, <1>4, <1>5, <1>6, <1>7 DEF TypeInv, MembershipTypeOK, Calls

\* Accounts are only ever added, so a step of one call leaves the others sound.
LEMMA CallStep ==
  ASSUME TypeInv, account \subseteq account', NEW c \in Call, NEW r \in Calls,
         call' = [call EXCEPT ![c] = r], Sound(r, account')
  PROVE  call' \in [Call -> Calls] /\ CallsAreSound'
<1>1. call \in [Call -> Calls]
  BY DEF TypeInv, MembershipTypeOK, Calls
<1>2. call' \in [Call -> Calls]
  BY <1>1
<1> SUFFICES ASSUME NEW d \in Call PROVE Sound(call'[d], account')
  BY <1>2 DEF CallsAreSound
<1>3. call'[c] = r /\ (d # c => call'[d] = call[d])
  BY <1>1
<1> QED BY <1>3 DEF Sound, TypeInv, CallsAreSound

LEMMA FinishStep ==
  ASSUME TypeInv, account \subseteq account', NEW c \in Call, Finish(c)
  PROVE  call' \in [Call -> Calls] /\ CallsAreSound'
<1>1. Sound(Idle, account')
  BY IdleIsTyped DEF Sound, Idle
<1> QED BY <1>1, IdleIsTyped, CallStep DEF Finish

\* Marking an invitation keeps the table a table of invitations.
LEMMA MarkedIsTyped ==
  ASSUME NEW s \in Seq(Invitation), NEW i,
         NEW mark \in {"PENDING", "ACCEPTED", "EXPIRED", "CANCELLED"}
  PROVE  LET t == [s EXCEPT ![i].status = mark]
         IN  /\ t \in Seq(Invitation) /\ Len(t) = Len(s)
             /\ \A j \in DOMAIN t : t[j].user = s[j].user /\ t[j].found = s[j].found
<1> DEFINE t == [s EXCEPT ![i].status = mark]
<1>1. CASE i \in DOMAIN s
  <2>1. s[i] \in Invitation
    BY <1>1
  <2>2. /\ [s[i] EXCEPT !.status = mark] \in Invitation
        /\ [s[i] EXCEPT !.status = mark].user = s[i].user
        /\ [s[i] EXCEPT !.status = mark].found = s[i].found
    BY <2>1 DEF Invitation
  <2>3. t = [s EXCEPT ![i] = [s[i] EXCEPT !.status = mark]]
    OBVIOUS
  <2> QED BY <1>1, <2>2, <2>3, ExceptSeq
<1>2. CASE i \notin DOMAIN s
  <2>1. t = s
    BY <1>2
  <2> QED BY <2>1
<1> QED BY <1>1, <1>2

LEMMA TypeInvNext == TypeInv /\ [Next]_vars => TypeInv'
<1> SUFFICES ASSUME TypeInv, [Next]_vars PROVE TypeInv'
  OBVIOUS
<1> USE DEF TypeInv, MembershipTypeOK
<1>0. call \in [Call -> Calls]
  BY DEF Calls
<1>1. ASSUME call' \in [Call -> Calls] /\ CallsAreSound', UNCHANGED <<now, account, member, invitations>>
      PROVE  TypeInv'
  BY <1>1 DEF Calls
<1>2. ASSUME NEW c \in Call, Invites(c) PROVE TypeInv'
  <2>1. ASSUME NEW by \in User, NEW u \in User, NEW r \in Role, NEW found \in Search,
               ReadForInvite(c, by, u, r, found)
        PROVE  TypeInv'
    <3> DEFINE s == [Idle EXCEPT !.at = "inviting", !.user = u, !.role = r, !.found = found]
    <3>1. s \in Calls /\ s.at = "inviting" /\ s.user \in User
      BY IdleIsTyped DEF Calls, Stage, Idle
    <3>2. call' = [call EXCEPT ![c] = s] /\ UNCHANGED <<now, account, member, invitations>>
      BY <2>1 DEF ReadForInvite
    <3> HIDE DEF s
    <3>3. Sound(s, account')
      BY <3>1 DEF Sound
    <3> QED BY <1>1, <3>1, <3>2, <3>3, CallStep
  <2>2. ASSUME InsertInvitation(c) PROVE TypeInv'
    <3> DEFINE inv == [user |-> call[c].user, role |-> call[c].role, found |-> call[c].found,
                       expires |-> now + InviteDays, status |-> "PENDING"]
    <3>1. call[c].user \in User
      BY <2>2 DEF InsertInvitation, At, CallsAreSound, Sound
    <3>2. inv \in Invitation
      BY <1>0, <3>1, BoundsAreNumbers DEF Calls, Invitation
    <3>3. invitations' = Append(invitations, inv)
      BY <2>2 DEF InsertInvitation
    <3> HIDE DEF inv
    <3>4. invitations' \in Seq(Invitation) /\ Len(invitations') <= MaxInvites
      BY <2>2, <3>2, <3>3, BoundsAreNumbers, AppendProperties DEF InsertInvitation
    <3>5. call' \in [Call -> Calls] /\ CallsAreSound'
      BY <2>2, FinishStep DEF InsertInvitation
    <3> QED BY <2>2, <3>4, <3>5 DEF InsertInvitation, Calls
  <2> QED BY <1>2, <2>1, <2>2 DEF Invites
<1>3. ASSUME NEW c \in Call, Accepts(c) PROVE TypeInv'
  <2>0. call[c] \in Calls /\ Sound(call[c], account)
    BY <1>0 DEF CallsAreSound
  <2>1. ASSUME NEW i \in 1..MaxInvites, OpenInvitation(c, i) PROVE TypeInv'
    <3> DEFINE r == [Idle EXCEPT !.at = "opened", !.user = invitations[i].user,
                                 !.role = invitations[i].role, !.inv = i,
                                 !.fresh = invitations[i].user \notin account]
    <3>1. invitations[i] \in Invitation
      BY <2>1 DEF OpenInvitation
    <3>2. invitations[i].user \in User /\ invitations[i].role \in Role
      BY <3>1 DEF Invitation
    <3>3. (invitations[i].user \notin account) \in BOOLEAN /\ i \in 0..MaxInvites
      BY BoundsAreNumbers
    <3>4. r \in Calls /\ r.at = "opened" /\ r.user \in User
      BY <3>2, <3>3, IdleIsTyped DEF Calls, Stage, Idle
    <3>5. call' = [call EXCEPT ![c] = r] /\ UNCHANGED <<now, account, member, invitations>>
      BY <2>1 DEF OpenInvitation
    <3> HIDE DEF r
    <3>6. Sound(r, account')
      BY <3>4 DEF Sound
    <3> QED BY <1>1, <3>4, <3>5, <3>6, CallStep
  <2>2. ASSUME SaveAccount(c) PROVE TypeInv'
    <3>1. call[c].user \in User
      BY <2>0, <2>2 DEF SaveAccount, At, Sound
    <3>2. CASE Finish(c) /\ UNCHANGED account
      BY <1>1, <2>2, <3>2, FinishStep DEF SaveAccount
    <3>3. CASE /\ call' = [call EXCEPT ![c].at = "checking", ![c].fresh = FALSE]
               /\ account' = account \cup {call[c].user}
      <4> DEFINE r == [call[c] EXCEPT !.at = "checking", !.fresh = FALSE]
      <4>1. r \in Calls /\ r.at = "checking" /\ r.user = call[c].user
        BY <2>0 DEF Calls, Stage
      <4>2. call' = [call EXCEPT ![c] = r]
        BY <3>3
      <4> HIDE DEF r
      <4>3. Sound(r, account')
        BY <3>1, <3>3, <4>1 DEF Sound
      <4>4. call' \in [Call -> Calls] /\ CallsAreSound'
        BY <3>3, <4>1, <4>2, <4>3, CallStep
      <4> QED BY <2>2, <3>1, <3>3, <4>4 DEF SaveAccount, Calls
    <3> QED BY <2>2, <3>2, <3>3 DEF SaveAccount
  <2>3. ASSUME CheckMembership(c) PROVE TypeInv'
    <3> DEFINE row == member[call[c].user]
               s == [call[c] EXCEPT !.at = "reactivating",
                                    !.row = [row EXCEPT !.status = "active", !.role = call[c].role]]
               t == [call[c] EXCEPT !.at = "joining"]
    <3>1. call[c].user \in User /\ call[c].user \in account
      BY <2>0, <2>3 DEF CheckMembership, At, Sound
    <3>2. row \in Membership /\ call[c].role \in Role
      BY <2>0, <3>1 DEF Calls
    <3>3. [row EXCEPT !.status = "active", !.role = call[c].role] \in Membership
      BY <3>2 DEF Membership
    <3>4. s \in Calls /\ s.at = "reactivating" /\ s.user = call[c].user
      BY <2>0, <3>3 DEF Calls, Stage
    <3>5. t \in Calls /\ t.at = "joining" /\ t.user = call[c].user
      BY <2>0 DEF Calls, Stage
    <3>6. /\ Finish(c) \/ call' = [call EXCEPT ![c] = s] \/ call' = [call EXCEPT ![c] = t]
          /\ UNCHANGED <<now, account, member, invitations>>
      BY <2>3 DEF CheckMembership, Go
    <3> HIDE DEF s, t
    <3>7. Sound(s, account') /\ Sound(t, account')
      BY <3>1, <3>4, <3>5, <3>6 DEF Sound
    <3> QED BY <1>1, <3>4, <3>5, <3>6, <3>7, CallStep, FinishStep
  <2>4. ASSUME Reactivate(c) \/ Join(c) PROVE TypeInv'
    <3>1. call[c].user \in User /\ call[c].user \in account
      BY <2>0, <2>4 DEF Reactivate, Join, At, Sound
    <3>2. UNCHANGED <<now, account, invitations>>
      BY <2>4 DEF Reactivate, Join
    <3>3. call' \in [Call -> Calls] /\ CallsAreSound'
      <4> DEFINE r == [Idle EXCEPT !.at = "accepting", !.inv = call[c].inv]
      <4>1. r \in Calls /\ r.at = "accepting"
        BY <2>0, IdleIsTyped DEF Calls, Stage, Idle
      <4>2. Finish(c) \/ call' = [call EXCEPT ![c] = r]
        BY <2>4 DEF Reactivate, Join, Settle
      <4> HIDE DEF r
      <4>3. Sound(r, account')
        BY <4>1 DEF Sound
      <4> QED BY <3>2, <4>1, <4>2, <4>3, CallStep, FinishStep
    <3>4. member' \in [User -> Membership] /\ \A u \in User \ account : member'[u] = NoMember
      <4>1. CASE Reactivate(c)
        BY <2>0, <3>1, <4>1 DEF Reactivate, SaveRow, Calls
      <4>2. CASE Join(c)
        <5>1. CASE UNCHANGED member
          BY <5>1
        <5>2. CASE /\ member[call[c].user].id < MaxRows
                   /\ member' = [member EXCEPT ![call[c].user] =
                          [status |-> "active", role |-> call[c].role, id |-> @.id + 1]]
          <6>1. member[call[c].user].id + 1 \in 0..MaxRows /\ call[c].role \in Role
            BY <2>0, <3>1, <5>2, BoundsAreNumbers DEF Membership, Calls
          <6>2. [status |-> "active", role |-> call[c].role, id |-> member[call[c].user].id + 1] \in Membership
            BY <6>1 DEF Membership
          <6> QED BY <3>1, <5>2, <6>2
        <5> QED BY <4>2, <5>1, <5>2 DEF Join
      <4> QED BY <2>4, <4>1, <4>2
    <3> QED BY <3>2, <3>3, <3>4 DEF Calls
  <2>5. ASSUME SaveAccepted(c) PROVE TypeInv'
    <3>1. invitations' \in Seq(Invitation) /\ Len(invitations') <= MaxInvites
      BY <2>5, MarkedIsTyped DEF SaveAccepted
    <3> QED BY <2>5, <3>1, FinishStep DEF SaveAccepted, Calls
  <2> QED BY <1>3, <2>1, <2>2, <2>3, <2>4, <2>5 DEF Accepts
<1>4. ASSUME NEW c \in Call, Cancels(c) PROVE TypeInv'
  <2>0. call[c] \in Calls /\ Sound(call[c], account)
    BY <1>0 DEF CallsAreSound
  <2>1. ASSUME NEW by \in User, NEW i \in 1..MaxInvites, ReadForCancel(c, by, i) PROVE TypeInv'
    <3> DEFINE r == [Idle EXCEPT !.at = "cancelling", !.inv = i, !.user = invitations[i].user]
    <3>1. invitations[i] \in Invitation
      BY <2>1 DEF ReadForCancel
    <3>2. invitations[i].user \in User /\ i \in 0..MaxInvites
      BY <3>1, BoundsAreNumbers DEF Invitation
    <3>3. r \in Calls /\ r.at = "cancelling" /\ r.user \in User
      BY <3>2, IdleIsTyped DEF Calls, Stage, Idle
    <3>4. call' = [call EXCEPT ![c] = r] /\ UNCHANGED <<now, account, member, invitations>>
      BY <2>1 DEF ReadForCancel
    <3> HIDE DEF r
    <3>5. Sound(r, account')
      BY <3>3 DEF Sound
    <3> QED BY <1>1, <3>3, <3>4, <3>5, CallStep
  <2>2. ASSUME LookUpMember(c) PROVE TypeInv'
    <3> DEFINE stage == IF member[call[c].user].status # "none" THEN "removing" ELSE "closing"
               r == [call[c] EXCEPT !.at = stage, !.row.id = member[call[c].user].id]
    <3>1. call[c].user \in User
      BY <2>0, <2>2 DEF LookUpMember, At, Sound
    <3>2. member[call[c].user].id \in 0..MaxRows
      BY <3>1 DEF Membership
    <3>3. call' = [call EXCEPT ![c] = r] /\ UNCHANGED <<now, account, member, invitations>>
      BY <2>2 DEF LookUpMember
    <3>4. stage \in {"removing", "closing"}
      OBVIOUS
    <3> HIDE DEF stage
    <3>5. [call[c].row EXCEPT !.id = member[call[c].user].id] \in Membership
      BY <2>0, <3>2 DEF Calls, Membership
    <3>6. r = [call[c] EXCEPT !.at = stage, !.row = [call[c].row EXCEPT !.id = member[call[c].user].id]]
      BY <2>0 DEF Calls
    <3>7. r \in Calls /\ r.at = stage /\ r.user = call[c].user
      BY <2>0, <3>4, <3>5, <3>6 DEF Calls, Stage
    <3> HIDE DEF r
    <3>8. Sound(r, account')
      BY <3>1, <3>4, <3>7 DEF Sound
    <3> QED BY <1>1, <3>3, <3>7, <3>8, CallStep
  <2>3. ASSUME RemoveMember(c) PROVE TypeInv'
    <3> DEFINE r == [call[c] EXCEPT !.at = "closing", !.row = NoMember]
    <3>1. call[c].user \in User
      BY <2>0, <2>3 DEF RemoveMember, At, Sound
    <3>2. NoMember \in Membership
      BY BoundsAreNumbers DEF NoMember, Membership, Role
    <3>3. r \in Calls /\ r.at = "closing" /\ call' = [call EXCEPT ![c] = r]
      BY <2>0, <2>3, <3>2 DEF RemoveMember, Calls, Stage
    <3> HIDE DEF r
    <3>4. Sound(r, account')
      BY <3>3 DEF Sound
    <3>5. UNCHANGED <<now, account, invitations>>
      BY <2>3 DEF RemoveMember
    <3>6. call' \in [Call -> Calls] /\ CallsAreSound'
      BY <3>3, <3>4, <3>5, CallStep
    <3>7. member' \in [User -> Membership] /\ \A u \in User \ account : member'[u] = NoMember
      <4> DEFINE gone == [NoMember EXCEPT !.id = call[c].row.id]
      <4>1. call[c].row.id \in 0..MaxRows
        BY <2>0 DEF Calls, Membership
      <4>2. gone \in Membership /\ (call[c].row.id = NoMember.id => gone = NoMember)
        BY <3>2, <4>1 DEF Membership, NoMember
      <4>3. member' = [member EXCEPT ![call[c].user] =
                         IF member[call[c].user].id = call[c].row.id THEN gone
                         ELSE member[call[c].user]]
        BY <2>3, <3>1 DEF RemoveMember
      <4> HIDE DEF gone
      <4> QED BY <3>1, <4>2, <4>3
    <3> QED BY <3>5, <3>6, <3>7 DEF Calls
  <2>4. ASSUME CloseInvitation(c) PROVE TypeInv'
    <3>1. invitations' \in Seq(Invitation) /\ Len(invitations') <= MaxInvites
      BY <2>4, MarkedIsTyped DEF CloseInvitation
    <3> QED BY <2>4, <3>1, FinishStep DEF CloseInvitation, Calls
  <2> QED BY <1>4, <2>1, <2>2, <2>3, <2>4 DEF Cancels
<1>5. ASSUME NEW c \in Call, Manages(c) PROVE TypeInv'
  <2>0. call[c] \in Calls /\ Sound(call[c], account)
    BY <1>0 DEF CallsAreSound
  <2>1. ASSUME NEW u \in Members, NEW row \in Membership,
               call' = [call EXCEPT ![c] = [Idle EXCEPT !.at = "saving", !.user = u, !.row = row]],
               UNCHANGED <<now, account, member, invitations>>
        PROVE  TypeInv'
    <3> DEFINE r == [Idle EXCEPT !.at = "saving", !.user = u, !.row = row]
    <3>1. u \in User /\ u \in account
      BY DEF Members, NoMember
    <3>2. r \in Calls /\ r.at = "saving" /\ r.user = u
      BY <3>1, IdleIsTyped DEF Calls, Stage, Idle
    <3>3. call' = [call EXCEPT ![c] = r]
      BY <2>1
    <3> HIDE DEF r
    <3>4. Sound(r, account')
      BY <2>1, <3>1, <3>2 DEF Sound
    <3> QED BY <1>1, <2>1, <3>2, <3>3, <3>4, CallStep
  <2>2. ASSUME NEW by \in User, NEW u \in User, ReadForRevoke(c, by, u) PROVE TypeInv'
    <3>1. [member[u] EXCEPT !.status = "revoked"] \in Membership
      BY DEF Membership
    <3> QED BY <2>1, <2>2, <3>1 DEF ReadForRevoke, Revocable
  <2>3. ASSUME NEW by \in User, NEW u \in User, NEW r \in Role, ReadForAssign(c, by, u, r)
        PROVE  TypeInv'
    <3>1. [member[u] EXCEPT !.role = r] \in Membership
      BY DEF Membership
    <3> QED BY <2>1, <2>3, <3>1 DEF ReadForAssign
  <2>4. ASSUME SaveMember(c) PROVE TypeInv'
    <3>1. call[c].user \in User /\ call[c].user \in account
      BY <2>0, <2>4 DEF SaveMember, At, Sound
    <3>2. member' \in [User -> Membership] /\ \A u \in User \ account : member'[u] = NoMember
      BY <2>0, <2>4, <3>1 DEF SaveMember, SaveRow, Calls
    <3> QED BY <2>4, <3>2, FinishStep DEF SaveMember, Calls
  <2> QED BY <1>5, <2>2, <2>3, <2>4 DEF Manages
<1>6. ASSUME NEW c \in Call, Break(c) PROVE TypeInv'
  BY <1>1, <1>6, FinishStep DEF Break
<1>7. ASSUME NEW i \in 1..MaxInvites, OpenLate(i) PROVE TypeInv'
  <2>1. invitations' \in Seq(Invitation) /\ Len(invitations') <= MaxInvites
    BY <1>7, MarkedIsTyped DEF OpenLate
  <2> QED BY <1>7, <2>1 DEF OpenLate, CallsAreSound
<1>8. CASE NextDay
  BY <1>8, BoundsAreNumbers DEF NextDay, CallsAreSound
<1>9. CASE UNCHANGED vars
  BY <1>9 DEF vars, CallsAreSound
<1> QED BY <1>2, <1>3, <1>4, <1>5, <1>6, <1>7, <1>8, <1>9 DEF Next

\* Every table keeps its type, and nobody is a member without an account.
THEOREM MembershipTypeCorrect == Spec => []MembershipTypeOK
<1>1. TypeInv => MembershipTypeOK
  BY DEF TypeInv
<1> QED BY <1>1, TypeInvInit, TypeInvNext, PTL DEF Spec

-----------------------------------------------------------------------------
(* The founder *)

\* The search for a member has missed the founder.
Missed == \E i \in DOMAIN invitations : invitations[i].user = Owner /\ invitations[i].found = "missed"

\* A call is about the founder only to insert an invitation after such a search.
Apart(r) == r.user = Owner => r.at = "inviting" /\ r.found = "missed"

FounderIsLeftAlone ==
  /\ \A i \in DOMAIN invitations : invitations[i].user # Owner
  /\ \A c \in Call : Apart(call[c])

Owns == member[Owner] = Founder

OwnerInv == TypeInv /\ (Missed \/ (Owns /\ FounderIsLeftAlone))

LEMMA OwnerInvInit == Init => OwnerInv
<1> SUFFICES ASSUME Init PROVE OwnerInv
  OBVIOUS
<1>1. Owns
  BY OwnerIsAUser DEF Init, Owns
<1>2. FounderIsLeftAlone
  BY OwnerIsAUser, NoneIsNoUser DEF Init, FounderIsLeftAlone, Apart, Idle
<1> QED BY <1>1, <1>2, TypeInvInit DEF OwnerInv

\* The invitations table only grows, and an invitation keeps whom it is for and what
\* was found when it was made.
LEMMA InvitationsStay ==
  ASSUME TypeInv, [Next]_vars
  PROVE  /\ DOMAIN invitations \subseteq DOMAIN invitations'
         /\ \A i \in DOMAIN invitations :
              /\ invitations'[i].user = invitations[i].user
              /\ invitations'[i].found = invitations[i].found
<1> DEFINE Stays == /\ DOMAIN invitations \subseteq DOMAIN invitations'
                    /\ \A i \in DOMAIN invitations :
                         /\ invitations'[i].user = invitations[i].user
                         /\ invitations'[i].found = invitations[i].found
<1>0. invitations \in Seq(Invitation)
  BY DEF TypeInv, MembershipTypeOK
<1>1. ASSUME UNCHANGED invitations PROVE Stays
  BY <1>1
<1>2. ASSUME NEW i, NEW mark \in {"ACCEPTED", "EXPIRED", "CANCELLED"},
             invitations' = [invitations EXCEPT ![i].status = mark]
      PROVE  Stays
  <2>1. DOMAIN invitations' = DOMAIN invitations
    BY <1>2
  <2> QED BY <1>0, <1>2, <2>1, MarkedIsTyped
<1>3. ASSUME NEW new, invitations' = Append(invitations, new) PROVE Stays
  <2>1. /\ DOMAIN invitations \subseteq DOMAIN invitations'
        /\ \A i \in DOMAIN invitations : invitations'[i] = invitations[i]
    BY <1>0, <1>3
  <2> QED BY <2>1
<1> SUFFICES Stays
  OBVIOUS
<1> HIDE DEF Stays
<1>4. ASSUME NEW c \in Call, InsertInvitation(c) PROVE Stays
  BY <1>3, <1>4 DEF InsertInvitation
<1>5. ASSUME NEW c \in Call, SaveAccepted(c) \/ CloseInvitation(c) PROVE Stays
  BY <1>2, <1>5 DEF SaveAccepted, CloseInvitation
<1>6. ASSUME NEW i \in 1..MaxInvites, OpenLate(i) PROVE Stays
  BY <1>2, <1>6 DEF OpenLate
<1>7. ASSUME NEW c \in Call, Invites(c) PROVE Stays
  BY <1>1, <1>4, <1>7 DEF Invites, ReadForInvite
<1>8. ASSUME NEW c \in Call, Accepts(c) PROVE Stays
  BY <1>1, <1>5, <1>8 DEF Accepts, OpenInvitation, SaveAccount, CheckMembership, Reactivate, Join
<1>9. ASSUME NEW c \in Call, Cancels(c) PROVE Stays
  BY <1>1, <1>5, <1>9 DEF Cancels, ReadForCancel, LookUpMember, RemoveMember
<1>10. ASSUME NEW c \in Call, Manages(c) \/ Break(c) PROVE Stays
  BY <1>1, <1>10 DEF Manages, ReadForRevoke, ReadForAssign, SaveMember, Break
<1>11. CASE NextDay \/ UNCHANGED vars
  BY <1>1, <1>11 DEF NextDay, vars
<1> QED BY <1>6, <1>7, <1>8, <1>9, <1>10, <1>11 DEF Next

LEMMA LeftAloneNext ==
  ASSUME TypeInv, Owns, FounderIsLeftAlone, [Next]_vars
  PROVE  Missed' \/ (Owns' /\ FounderIsLeftAlone')
<1>1. /\ call \in [Call -> Calls] /\ member \in [User -> Membership]
      /\ invitations \in Seq(Invitation)
      /\ member[Owner] = Founder /\ Owner \in Members
      /\ Idle.user # Owner
  BY OwnerIsAUser, NoneIsNoUser
  DEF TypeInv, MembershipTypeOK, Calls, Owns, Members, Founder, Idle
<1>2. ASSUME \/ UNCHANGED member
             \/ \E c \in Call : /\ call[c].user # Owner
                                /\ \E row : member' = [member EXCEPT ![call[c].user] = row]
      PROVE  Owns'
  BY <1>1, <1>2, OwnerIsAUser DEF Owns
<1>3. ASSUME \/ UNCHANGED call
             \/ \E c \in Call : /\ \A d \in Call : d # c => call'[d] = call[d]
                                /\ Apart(call'[c])
      PROVE  \A c \in Call : Apart(call'[c])
  BY <1>3 DEF FounderIsLeftAlone
<1>4. ASSUME NEW c \in Call, Finish(c) PROVE \A d \in Call : Apart(call'[d])
  BY <1>1, <1>3, <1>4 DEF Finish, Apart
<1>5. ASSUME NEW i, NEW mark \in {"ACCEPTED", "EXPIRED", "CANCELLED"},
             invitations' = [invitations EXCEPT ![i].status = mark]
      PROVE  \A j \in DOMAIN invitations' : invitations'[j].user # Owner
  <2>1. DOMAIN invitations' = DOMAIN invitations
    BY <1>5
  <2>2. \A j \in DOMAIN invitations' : invitations'[j].user = invitations[j].user
    BY <1>1, <1>5, MarkedIsTyped
  <2> QED BY <2>1, <2>2 DEF FounderIsLeftAlone
<1>6. ASSUME UNCHANGED invitations
      PROVE  \A j \in DOMAIN invitations' : invitations'[j].user # Owner
  BY <1>6 DEF FounderIsLeftAlone
<1> DEFINE Holds == Missed' \/ (Owns' /\ FounderIsLeftAlone')
<1>7. ASSUME NEW c \in Call, Invites(c) PROVE Holds
  <2>1. ASSUME NEW by \in User, NEW u \in User, NEW r \in Role, NEW found \in Search,
               ReadForInvite(c, by, u, r, found)
        PROVE  Holds
    <3>1. u = Owner => found = "missed"
      BY <1>1, <2>1 DEF ReadForInvite, Invitable
    <3>2. /\ \A d \in Call : d # c => call'[d] = call[d]
          /\ call'[c].user = u /\ call'[c].at = "inviting" /\ call'[c].found = found
      BY <1>1, <2>1 DEF ReadForInvite, Idle
    <3>3. \A d \in Call : Apart(call'[d])
      BY <1>3, <3>1, <3>2 DEF Apart
    <3> QED BY <1>2, <1>6, <2>1, <3>3 DEF ReadForInvite, FounderIsLeftAlone
  <2>2. ASSUME InsertInvitation(c) PROVE Holds
    <3> DEFINE inv == [user |-> call[c].user, role |-> call[c].role, found |-> call[c].found,
                       expires |-> now + InviteDays, status |-> "PENDING"]
    <3>1. inv.user = Owner => inv.found = "missed"
      BY DEF FounderIsLeftAlone, Apart
    <3>2. invitations' = Append(invitations, inv)
      BY <2>2 DEF InsertInvitation
    <3> HIDE DEF inv
    <3>3. \A j \in DOMAIN invitations' :
             \/ invitations'[j] = inv
             \/ j \in DOMAIN invitations /\ invitations'[j] = invitations[j]
      BY <1>1, <3>2
    <3>4. CASE inv.user = Owner
      <4>1. Len(invitations) + 1 \in DOMAIN invitations' /\ invitations'[Len(invitations) + 1] = inv
        BY <1>1, <3>2
      <4> QED BY <3>1, <3>4, <4>1 DEF Missed
    <3>5. CASE inv.user # Owner
      <4>1. \A j \in DOMAIN invitations' : invitations'[j].user # Owner
        BY <3>3, <3>5 DEF FounderIsLeftAlone
      <4> QED BY <1>2, <1>4, <2>2, <4>1 DEF InsertInvitation, FounderIsLeftAlone
    <3> QED BY <3>4, <3>5
  <2> QED BY <1>7, <2>1, <2>2 DEF Invites
<1>8. ASSUME NEW c \in Call, Accepts(c) PROVE Owns' /\ FounderIsLeftAlone'
  <2>0. call[c] \in Calls /\ (call[c].at # "inviting" => call[c].user # Owner)
    BY <1>1 DEF FounderIsLeftAlone, Apart
  <2>1. Owns'
    <3>1. \/ UNCHANGED member
          \/ /\ call[c].user # Owner
             /\ \E row : member' = [member EXCEPT ![call[c].user] = row]
      BY <1>8, <2>0 DEF Accepts, OpenInvitation, SaveAccount, CheckMembership, Reactivate, Join,
                  SaveAccepted, SaveRow, At
    <3> QED BY <1>2, <3>1
  <2>2. \A j \in DOMAIN invitations' : invitations'[j].user # Owner
    <3>1. CASE SaveAccepted(c)
      BY <1>5, <3>1 DEF SaveAccepted
    <3>2. CASE UNCHANGED invitations
      BY <1>6, <3>2
    <3> QED BY <1>8, <3>1, <3>2 DEF Accepts, OpenInvitation, SaveAccount, CheckMembership,
                                    Reactivate, Join
  <2>3. \A d \in Call : Apart(call'[d])
    <3>1. ASSUME NEW i \in 1..MaxInvites, OpenInvitation(c, i) PROVE \A d \in Call : Apart(call'[d])
      <4>1. invitations[i].user # Owner
        BY <3>1 DEF OpenInvitation, FounderIsLeftAlone
      <4>2. (\A d \in Call : d # c => call'[d] = call[d]) /\ call'[c].user = invitations[i].user
        BY <1>1, <3>1 DEF OpenInvitation, Idle
      <4> QED BY <1>3, <4>1, <4>2 DEF Apart
    <3>2. CASE SaveAccount(c) \/ CheckMembership(c)
      <4>1. Finish(c) \/ (/\ \A d \in Call : d # c => call'[d] = call[d]
                          /\ call'[c].user = call[c].user)
        BY <1>1, <2>0, <3>2 DEF SaveAccount, CheckMembership, Go, Calls
      <4>2. call[c].user # Owner
        BY <2>0, <3>2 DEF SaveAccount, CheckMembership, At
      <4> QED BY <1>3, <1>4, <4>1, <4>2 DEF Apart
    <3>3. CASE Reactivate(c) \/ Join(c)
      <4>1. Finish(c) \/ (/\ \A d \in Call : d # c => call'[d] = call[d]
                          /\ call'[c].user = Idle.user)
        BY <1>1, <3>3 DEF Reactivate, Join, Settle, Idle
      <4> QED BY <1>1, <1>3, <1>4, <4>1 DEF Apart
    <3> QED BY <1>4, <1>8, <3>1, <3>2, <3>3 DEF Accepts, SaveAccepted
  <2> QED BY <2>1, <2>2, <2>3 DEF FounderIsLeftAlone
<1>9. ASSUME NEW c \in Call, Cancels(c) PROVE Owns' /\ FounderIsLeftAlone'
  <2>0. call[c] \in Calls /\ (call[c].at # "inviting" => call[c].user # Owner)
    BY <1>1 DEF FounderIsLeftAlone, Apart
  <2>1. Owns'
    <3>1. \/ UNCHANGED member
          \/ /\ call[c].user # Owner
             /\ \E row : member' = [member EXCEPT ![call[c].user] = row]
      BY <1>9, <2>0 DEF Cancels, ReadForCancel, LookUpMember, RemoveMember, CloseInvitation, At
    <3> QED BY <1>2, <3>1
  <2>2. \A j \in DOMAIN invitations' : invitations'[j].user # Owner
    <3>1. CASE CloseInvitation(c)
      BY <1>5, <3>1 DEF CloseInvitation
    <3>2. CASE UNCHANGED invitations
      BY <1>6, <3>2
    <3> QED BY <1>9, <3>1, <3>2 DEF Cancels, ReadForCancel, LookUpMember, RemoveMember
  <2>3. \A d \in Call : Apart(call'[d])
    <3>1. ASSUME NEW by \in User, NEW i \in 1..MaxInvites, ReadForCancel(c, by, i)
          PROVE  \A d \in Call : Apart(call'[d])
      <4>1. invitations[i].user # Owner
        BY <3>1 DEF ReadForCancel, FounderIsLeftAlone
      <4>2. (\A d \in Call : d # c => call'[d] = call[d]) /\ call'[c].user = invitations[i].user
        BY <1>1, <3>1 DEF ReadForCancel, Idle
      <4> QED BY <1>3, <4>1, <4>2 DEF Apart
    <3>2. CASE LookUpMember(c) \/ RemoveMember(c)
      <4>1. (\A d \in Call : d # c => call'[d] = call[d]) /\ call'[c].user = call[c].user
        BY <1>1, <2>0, <3>2 DEF LookUpMember, RemoveMember, Calls
      <4>2. call[c].user # Owner
        BY <2>0, <3>2 DEF LookUpMember, RemoveMember, At
      <4> QED BY <1>3, <4>1, <4>2 DEF Apart
    <3> QED BY <1>4, <1>9, <3>1, <3>2 DEF Cancels, CloseInvitation
  <2> QED BY <2>1, <2>2, <2>3 DEF FounderIsLeftAlone
<1>10. ASSUME NEW c \in Call, Manages(c) PROVE Owns' /\ FounderIsLeftAlone'
  <2>1. UNCHANGED invitations
    BY <1>10 DEF Manages, ReadForRevoke, ReadForAssign, SaveMember
  <2>2. ASSUME NEW by \in User, NEW u \in User, NEW r \in Role,
               ReadForRevoke(c, by, u) \/ ReadForAssign(c, by, u, r)
        PROVE  Owns' /\ \A d \in Call : Apart(call'[d])
    <3>1. u # Owner
      BY <1>1, <2>2 DEF ReadForRevoke, Revocable, ReadForAssign, Founder
    <3>2. (\A d \in Call : d # c => call'[d] = call[d]) /\ call'[c].user = u
      BY <1>1, <2>2 DEF ReadForRevoke, ReadForAssign, Idle
    <3> QED BY <1>2, <1>3, <2>2, <3>1, <3>2 DEF ReadForRevoke, ReadForAssign, Apart
  <2>3. ASSUME SaveMember(c) PROVE Owns' /\ \A d \in Call : Apart(call'[d])
    <3>1. \/ UNCHANGED member
          \/ /\ call[c].user # Owner
             /\ \E row : member' = [member EXCEPT ![call[c].user] = row]
      BY <2>3 DEF SaveMember, SaveRow, At, FounderIsLeftAlone, Apart
    <3> QED BY <1>2, <1>4, <2>3, <3>1 DEF SaveMember
  <2>4. "admin" \in Role
    BY DEF Role
  <2> QED BY <1>6, <1>10, <2>1, <2>2, <2>3, <2>4 DEF Manages, FounderIsLeftAlone
<1>11. ASSUME NEW c \in Call, Break(c) PROVE Owns' /\ FounderIsLeftAlone'
  BY <1>2, <1>4, <1>6, <1>11 DEF Break, FounderIsLeftAlone
<1>12. ASSUME NEW i \in 1..MaxInvites, OpenLate(i) PROVE Owns' /\ FounderIsLeftAlone'
  BY <1>2, <1>3, <1>5, <1>12 DEF OpenLate, FounderIsLeftAlone
<1>13. ASSUME NextDay \/ UNCHANGED vars PROVE Owns' /\ FounderIsLeftAlone'
  BY <1>2, <1>3, <1>6, <1>13 DEF NextDay, vars, FounderIsLeftAlone
<1> HIDE DEF Holds
<1>14. Holds
  <2>1. ASSUME Owns' /\ FounderIsLeftAlone' PROVE Holds
    BY <2>1 DEF Holds
  <2> QED BY <1>7, <1>8, <1>9, <1>10, <1>11, <1>12, <1>13, <2>1 DEF Next
<1> QED BY <1>14 DEF Holds

LEMMA OwnerInvNext == OwnerInv /\ [Next]_vars => OwnerInv'
<1> SUFFICES ASSUME OwnerInv, [Next]_vars PROVE OwnerInv'
  OBVIOUS
<1>1. TypeInv /\ TypeInv'
  BY TypeInvNext DEF OwnerInv
<1>2. CASE Missed
  <2>1. PICK i \in DOMAIN invitations : invitations[i].user = Owner /\ invitations[i].found = "missed"
    BY <1>2 DEF Missed
  <2>2. /\ i \in DOMAIN invitations'
        /\ invitations'[i].user = Owner /\ invitations'[i].found = "missed"
    BY <1>1, <2>1, InvitationsStay
  <2> QED BY <1>1, <2>2 DEF OwnerInv, Missed
<1>3. CASE Owns /\ FounderIsLeftAlone
  BY <1>1, <1>3, LeftAloneNext DEF OwnerInv
<1> QED BY <1>2, <1>3 DEF OwnerInv

\* Whatever is invited, accepted, cancelled, revoked and assigned, the user who
\* registered the organization stays its owner as long as no invitation is stored
\* that the search for a member has missed.
THEOREM FounderStays == Spec => []OwnerStays
<1>1. OwnerInv => OwnerStays
  BY DEF OwnerInv, OwnerStays, Missed, Owns
<1> QED BY <1>1, OwnerInvInit, OwnerInvNext, PTL DEF Spec

-----------------------------------------------------------------------------
(* Open invitations *)

OpenFor(u) == {i \in DOMAIN invitations : invitations[i].user = u /\ invitations[i].found = "nothing" /\ Open(i)}
ComingFor(u) == {c \in Call : At(c, "inviting") /\ call[c].user = u /\ call[c].found = "nothing"}

PendingInv == TypeInv /\ PendingBounded

\* Both sets are finite.
LEMMA PendingCounts ==
  ASSUME TypeInv, NEW u
  PROVE  /\ IsFiniteSet(OpenFor(u)) /\ Cardinality(OpenFor(u)) \in Nat
         /\ IsFiniteSet(ComingFor(u)) /\ Cardinality(ComingFor(u)) \in Nat
         /\ Cardinality(ComingFor(u)) <= Cardinality(Call) /\ Cardinality(Call) \in Nat
<1>1. DOMAIN invitations = 1..Len(invitations) /\ Len(invitations) \in Nat
  BY DEF TypeInv, MembershipTypeOK
<1>2. IsFiniteSet(DOMAIN invitations)
  BY <1>1, FS_Interval
<1>3. OpenFor(u) \in SUBSET (DOMAIN invitations) /\ ComingFor(u) \in SUBSET Call
  BY DEF OpenFor, ComingFor
<1>4. IsFiniteSet(OpenFor(u)) /\ IsFiniteSet(ComingFor(u)) /\ Cardinality(ComingFor(u)) <= Cardinality(Call)
  BY <1>2, <1>3, CallsAreFinite, FS_Subset
<1> QED BY <1>4, CallsAreFinite, FS_CardinalityType

\* No invitation opens, and no call is about to add one.
Quiet ==
  /\ now' \in Nat /\ now <= now'
  /\ DOMAIN invitations' = DOMAIN invitations
  /\ \A i \in DOMAIN invitations :
       /\ invitations'[i].user = invitations[i].user
       /\ invitations'[i].found = invitations[i].found
       /\ invitations'[i].expires = invitations[i].expires
       /\ invitations'[i].status = "PENDING" => invitations[i].status = "PENDING"
  /\ \A c \in Call : call'[c].at = "inviting" => call'[c] = call[c]

LEMMA MarkIsQuiet ==
  ASSUME TypeInv, NEW i, NEW mark \in {"ACCEPTED", "EXPIRED", "CANCELLED"},
         invitations' = [invitations EXCEPT ![i].status = mark]
  PROVE  /\ DOMAIN invitations' = DOMAIN invitations
         /\ \A k \in DOMAIN invitations :
              /\ invitations'[k].user = invitations[k].user
              /\ invitations'[k].found = invitations[k].found
              /\ invitations'[k].expires = invitations[k].expires
              /\ invitations'[k].status = "PENDING" => invitations[k].status = "PENDING"
<1>1. invitations \in Seq(Invitation)
  BY DEF TypeInv, MembershipTypeOK
<1>2. \A k \in DOMAIN invitations : invitations[k] \in Invitation
  BY <1>1
<1> QED BY <1>2 DEF Invitation

LEMMA OtherStepsAreQuiet ==
  ASSUME TypeInv, [Next]_vars
  PROVE  \/ Quiet
         \/ \E c \in Call : \/ InsertInvitation(c)
                            \/ \E by, u \in User, r \in Role, found \in Search : ReadForInvite(c, by, u, r, found)
<1>0. now \in Nat /\ call \in [Call -> Calls]
  BY BoundsAreNumbers DEF TypeInv, MembershipTypeOK, Calls
<1>1. ASSUME NEW c \in Call, NEW r, r.at # "inviting", call' = [call EXCEPT ![c] = r]
      PROVE  \A d \in Call : call'[d].at = "inviting" => call'[d] = call[d]
  BY <1>0, <1>1
<1>2. ASSUME NEW c \in Call, Finish(c)
      PROVE  \A d \in Call : call'[d].at = "inviting" => call'[d] = call[d]
  BY <1>1, <1>2, IdleIsTyped DEF Finish
<1>3. ASSUME \A d \in Call : call'[d].at = "inviting" => call'[d] = call[d],
             UNCHANGED <<now, invitations>>
      PROVE  Quiet
  BY <1>0, <1>3 DEF Quiet
<1>4. ASSUME NEW c \in Call, Accepts(c) PROVE Quiet
  <2>0. call[c] \in Calls
    BY <1>0
  <2>1. ASSUME NEW i \in 1..MaxInvites, OpenInvitation(c, i) PROVE Quiet
    <3> DEFINE r == [Idle EXCEPT !.at = "opened", !.user = invitations[i].user,
                                 !.role = invitations[i].role, !.inv = i,
                                 !.fresh = invitations[i].user \notin account]
    <3>1. r.at # "inviting"
      BY DEF Idle
    <3>2. call' = [call EXCEPT ![c] = r]
      BY <2>1 DEF OpenInvitation
    <3> HIDE DEF r
    <3> QED BY <1>1, <1>3, <2>1, <3>1, <3>2 DEF OpenInvitation
  <2>2. CASE SaveAccount(c)
    BY <1>0, <1>2, <1>3, <2>0, <2>2 DEF SaveAccount, Calls
  <2>3. CASE CheckMembership(c)
    BY <1>0, <1>2, <1>3, <2>0, <2>3 DEF CheckMembership, Go, Calls
  <2>4. CASE Reactivate(c) \/ Join(c)
    BY <1>0, <1>2, <1>3, <2>0, <2>4 DEF Reactivate, Join, Settle, Calls, Idle
  <2>5. CASE SaveAccepted(c)
    BY <1>0, <1>2, <2>5, MarkIsQuiet DEF SaveAccepted, Quiet
  <2> QED BY <1>4, <2>1, <2>2, <2>3, <2>4, <2>5 DEF Accepts
<1>5. ASSUME NEW c \in Call, Cancels(c) PROVE Quiet
  <2>0. call[c] \in Calls
    BY <1>0
  <2>1. ASSUME NEW by \in User, NEW i \in 1..MaxInvites, ReadForCancel(c, by, i) PROVE Quiet
    BY <1>0, <1>3, <2>1 DEF ReadForCancel, Idle
  <2>2. CASE LookUpMember(c)
    BY <1>0, <1>3, <2>0, <2>2 DEF LookUpMember, Calls
  <2>3. CASE RemoveMember(c)
    BY <1>0, <1>3, <2>0, <2>3 DEF RemoveMember, Calls
  <2>4. CASE CloseInvitation(c)
    BY <1>0, <1>2, <2>4, MarkIsQuiet DEF CloseInvitation, Quiet
  <2> QED BY <1>5, <2>1, <2>2, <2>3, <2>4 DEF Cancels
<1>6. ASSUME NEW c \in Call, Manages(c) PROVE Quiet
  <2>1. ASSUME NEW by \in User, NEW u \in User, ReadForRevoke(c, by, u) PROVE Quiet
    BY <1>0, <1>3, <2>1 DEF ReadForRevoke, Idle
  <2>2. ASSUME NEW by \in User, NEW u \in User, NEW r \in Role, ReadForAssign(c, by, u, r) PROVE Quiet
    BY <1>0, <1>3, <2>2 DEF ReadForAssign, Idle
  <2>3. CASE SaveMember(c)
    BY <1>2, <1>3, <2>3 DEF SaveMember
  <2> QED BY <1>6, <2>1, <2>2, <2>3 DEF Manages
<1>7. ASSUME NEW c \in Call, Break(c) PROVE Quiet
  BY <1>2, <1>3, <1>7 DEF Break
<1>8. ASSUME NEW i, OpenLate(i) PROVE Quiet
  BY <1>0, <1>8, MarkIsQuiet DEF OpenLate, Quiet
<1>9. CASE NextDay
  BY <1>0, <1>9 DEF NextDay, Quiet
<1>10. CASE UNCHANGED vars
  BY <1>3, <1>10 DEF vars
<1> QED BY <1>4, <1>5, <1>6, <1>7, <1>8, <1>9, <1>10 DEF Next, Invites

LEMMA PendingInvNext == PendingInv /\ [Next]_vars => PendingInv'
<1> SUFFICES ASSUME PendingInv, [Next]_vars PROVE PendingInv'
  OBVIOUS
<1>1. TypeInv /\ TypeInv'
  BY TypeInvNext DEF PendingInv
<1> DEFINE Bounded(u) == Cardinality(OpenFor(u)') + Cardinality(ComingFor(u)') <= Cardinality(Call)
<1>2. SUFFICES ASSUME NEW u \in User PROVE Bounded(u)
  BY <1>1 DEF PendingInv, PendingBounded, OpenFor, ComingFor, Open, At
<1>3. Cardinality(OpenFor(u)) + Cardinality(ComingFor(u)) <= Cardinality(Call)
  BY DEF PendingInv, PendingBounded, OpenFor, ComingFor
<1>4. /\ IsFiniteSet(OpenFor(u)) /\ Cardinality(OpenFor(u)) \in Nat
      /\ IsFiniteSet(ComingFor(u)) /\ Cardinality(ComingFor(u)) \in Nat
      /\ Cardinality(ComingFor(u)) <= Cardinality(Call) /\ Cardinality(Call) \in Nat
  BY <1>1, PendingCounts
<1>5. /\ IsFiniteSet(OpenFor(u)') /\ Cardinality(OpenFor(u)') \in Nat
      /\ IsFiniteSet(ComingFor(u)') /\ Cardinality(ComingFor(u)') \in Nat
      /\ Cardinality(ComingFor(u)') <= Cardinality(Call)
  <2>1. DOMAIN invitations' = 1..Len(invitations') /\ Len(invitations') \in Nat
    BY <1>1 DEF TypeInv, MembershipTypeOK
  <2>2. IsFiniteSet(DOMAIN invitations')
    BY <2>1, FS_Interval
  <2>3. OpenFor(u)' \in SUBSET (DOMAIN invitations') /\ ComingFor(u)' \in SUBSET Call
    BY DEF OpenFor, ComingFor
  <2>4. /\ IsFiniteSet(OpenFor(u)') /\ IsFiniteSet(ComingFor(u)')
        /\ Cardinality(ComingFor(u)') <= Cardinality(Call)
    BY <2>2, <2>3, CallsAreFinite, FS_Subset
  <2> QED BY <2>4, FS_CardinalityType
<1>6. /\ now \in Nat /\ call \in [Call -> Calls] /\ invitations \in Seq(Invitation)
      /\ \A i \in DOMAIN invitations : invitations[i] \in Invitation
  BY <1>1, BoundsAreNumbers DEF TypeInv, MembershipTypeOK, Calls
<1>7. ASSUME OpenFor(u)' \subseteq OpenFor(u), ComingFor(u)' \subseteq ComingFor(u)
      PROVE  Bounded(u)
  <2>1. Cardinality(OpenFor(u)') <= Cardinality(OpenFor(u))
    BY <1>4, <1>7, FS_Subset
  <2>2. Cardinality(ComingFor(u)') <= Cardinality(ComingFor(u))
    BY <1>4, <1>7, FS_Subset
  <2> QED BY <1>3, <1>4, <1>5, <2>1, <2>2
<1>8. CASE Quiet
  <2>1. OpenFor(u)' \subseteq OpenFor(u)
    BY <1>6, <1>8 DEF Quiet, OpenFor, Open, Invitation
  <2>2. ComingFor(u)' \subseteq ComingFor(u)
    BY <1>8 DEF Quiet, ComingFor, At
  <2> QED BY <1>7, <2>1, <2>2
<1>9. ASSUME NEW c \in Call, NEW by \in User, NEW v \in User, NEW r \in Role, NEW found \in Search,
             ReadForInvite(c, by, v, r, found)
      PROVE  Bounded(u)
  <2> DEFINE s == [Idle EXCEPT !.at = "inviting", !.user = v, !.role = r, !.found = found]
  <2>1. call' = [call EXCEPT ![c] = s] /\ UNCHANGED <<now, invitations>> /\ s.user = v /\ s.found = found
    BY <1>9 DEF ReadForInvite, Idle
  <2>2. OpenFor(u)' = OpenFor(u)
    BY <2>1 DEF OpenFor, Open
  <2> HIDE DEF s
  <2>3. CASE v = u /\ found = "nothing"
    <3>1. OpenFor(u) = {}
      BY <1>9, <2>3 DEF ReadForInvite, Invitable, OpenFor, Open
    <3> QED BY <1>4, <1>5, <2>2, <3>1, FS_EmptySet
  <2>4. CASE ~(v = u /\ found = "nothing")
    <3>1. ComingFor(u)' \subseteq ComingFor(u)
      BY <1>6, <2>1, <2>4 DEF ComingFor, At
    <3> QED BY <1>7, <2>2, <3>1
  <2> QED BY <2>3, <2>4
<1>10. ASSUME NEW c \in Call, InsertInvitation(c) PROVE Bounded(u)
  <2> DEFINE new == [user |-> call[c].user, role |-> call[c].role, found |-> call[c].found,
                     expires |-> now + InviteDays, status |-> "PENDING"]
             n == Len(invitations) + 1
  <2>1. /\ At(c, "inviting") /\ now' = now /\ call' = [call EXCEPT ![c] = Idle]
        /\ invitations' = Append(invitations, new)
    BY <1>10 DEF InsertInvitation, Finish
  <2>2. new.user = call[c].user /\ new.found = call[c].found
    OBVIOUS
  <2> HIDE DEF new
  <2>3. /\ DOMAIN invitations' = DOMAIN invitations \cup {n} /\ invitations'[n] = new
        /\ \A i \in DOMAIN invitations : invitations'[i] = invitations[i]
    BY <1>6, <2>1
  <2> HIDE DEF n
  <2>4. ComingFor(u)' = ComingFor(u) \ {c}
    BY <1>6, <2>1, IdleIsTyped DEF ComingFor, At
  <2>5. CASE call[c].user = u /\ call[c].found = "nothing"
    <3>1. c \in ComingFor(u)
      BY <2>1, <2>5 DEF ComingFor
    <3>2. OpenFor(u)' \subseteq OpenFor(u) \cup {n}
      BY <2>1, <2>3 DEF OpenFor, Open
    <3>3. /\ IsFiniteSet(OpenFor(u) \cup {n})
          /\ Cardinality(OpenFor(u) \cup {n}) <= Cardinality(OpenFor(u)) + 1
          /\ Cardinality(OpenFor(u) \cup {n}) \in Nat
      <4> DEFINE more == OpenFor(u) \cup {n}
      <4>1. IsFiniteSet(more) /\ Cardinality(more) \in {Cardinality(OpenFor(u)), Cardinality(OpenFor(u)) + 1}
        BY <1>4, FS_AddElement
      <4> QED BY <1>4, <4>1
    <3>4. Cardinality(OpenFor(u)') <= Cardinality(OpenFor(u) \cup {n})
      BY <3>2, <3>3, FS_Subset
    <3>5. Cardinality(ComingFor(u)') = Cardinality(ComingFor(u)) - 1
      BY <1>4, <2>4, <3>1, FS_RemoveElement
    <3> QED BY <1>3, <1>4, <1>5, <3>3, <3>4, <3>5
  <2>6. CASE ~(call[c].user = u /\ call[c].found = "nothing")
    <3>1. OpenFor(u)' \subseteq OpenFor(u)
      BY <2>1, <2>2, <2>3, <2>6 DEF OpenFor, Open
    <3> QED BY <1>7, <2>4, <3>1
  <2> QED BY <2>5, <2>6
<1> HIDE DEF Bounded
<1> QED BY <1>1, <1>8, <1>9, <1>10, OtherStepsAreQuiet

\* However many invitations are sent, accepted and cancelled at once, broken off and
\* forgotten, a person never has more of them open than calls can run at a time, but
\* for those made where the search has found one that was late.
THEOREM InvitationsStayFew == Spec => []PendingBounded
<1>1. ASSUME Init PROVE PendingInv
  <2>1. TypeInv
    BY <1>1, TypeInvInit
  <2>2. ASSUME NEW u \in User PROVE Cardinality(OpenFor(u)) + Cardinality(ComingFor(u)) <= Cardinality(Call)
    <3>1. OpenFor(u) = {}
      BY <1>1 DEF Init, OpenFor
    <3> QED BY <2>1, <3>1, PendingCounts, FS_EmptySet
  <2> QED BY <2>1, <2>2 DEF PendingInv, PendingBounded, OpenFor, ComingFor
<1>2. PendingInv => PendingBounded
  BY DEF PendingInv
<1> QED BY <1>1, <1>2, PendingInvNext, PTL DEF Spec
=============================================================================
