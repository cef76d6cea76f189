----------------------------- MODULE AccessProofs -----------------------------
(***************************************************************************)
(* Proofs about AppAccess, for any number of members, invitations and      *)
(* overlapping calls.                                                      *)
(***************************************************************************)
EXTENDS AppAccess, FiniteSetTheorems, TLAPS

AccessStatus == {"none", "active", "inactive"}
InviteStatus == {"none", "PENDING", "ACCEPTED", "DECLINED", "EXPIRED", "CANCELLED"}
Row == [for : Guest \cup {None}, late : BOOLEAN, status : InviteStatus]
Stand == {"idle", "granting", "revoking", "inviting", "expiring", "lapsing", "checking",
          "accepting", "declining", "cancelling"}
Asking == [at : Stand, of : Guest \cup {None}, inv : Invite \cup {0},
           seen : AccessStatus \cup {None}, invSeen : Row]

\* A call that looks up or inserts a row does it for a member.
ForGuest(a) == a.at \in {"checking", "inviting", "expiring"} => a.of \in Guest

AccessTypes ==
  /\ access \in [Guest -> AccessStatus]
  /\ invited \in [Invite -> Row]
  /\ asking \in [Call -> Asking]
  /\ grants \in [Invite -> Nat]
  /\ mishaps \in Nat
  /\ \A c \in Call : ForGuest(asking[c])
  /\ \A i \in Invite : invited[i].status = "PENDING" => invited[i].for \in Guest

\* An acceptance that is about to be saved has granted the access.
AcceptingHasGranted ==
  \A c \in Call : asking[c].at = "accepting" => asking[c].inv \in Invite /\ grants[asking[c].inv] > 0

\* Calls that will grant the access for an invitation, and those that have.
Waits(a, i) == a.inv = i /\ a.at \in {"checking", "granting"}
Accepts(a, i) == a.inv = i /\ a.at = "accepting"
Waiting(i) == {c \in Call : Waits(asking[c], i)}
Accepting(i) == {c \in Call : Accepts(asking[c], i)}

Closed(i) == invited[i].status \notin {"none", "PENDING"}

\* As long as the invitation is pending whoever has granted is still about to save it;
\* afterwards nobody comes to those who have read it before.
GrantsCounted ==
  \A i \in Invite :
    /\ ~Closed(i) => grants[i] <= Cardinality(Accepting(i)) + mishaps
    /\ Closed(i) => grants[i] + Cardinality(Waiting(i)) <= Cardinality(Call) + mishaps

AccessInv == AccessTypes /\ AcceptedIsGranted /\ AcceptingHasGranted /\ GrantsCounted

-----------------------------------------------------------------------------
(* One call takes a step *)

Num(b) == IF b THEN 1 ELSE 0

LEMMA Replaced ==
  ASSUME NEW S, IsFiniteSet(S), NEW T, NEW c, NEW b \in BOOLEAN,
         T = IF b THEN S \cup {c} ELSE S \ {c}
  PROVE  /\ IsFiniteSet(T) /\ Cardinality(S) \in Nat /\ Cardinality(T) \in Nat
         /\ Cardinality(T) = Cardinality(S) + Num(b) - Num(c \in S)
<1>1. Cardinality(S) \in Nat
  BY FS_CardinalityType
<1>2. IsFiniteSet(S \cup {c}) /\ Cardinality(S \cup {c}) = IF c \in S THEN Cardinality(S) ELSE Cardinality(S) + 1
  BY FS_AddElement
<1>3. IsFiniteSet(S \ {c}) /\ Cardinality(S \ {c}) = IF c \in S THEN Cardinality(S) - 1 ELSE Cardinality(S)
  BY FS_RemoveElement
<1>4. IsFiniteSet(T) /\ Cardinality(T) \in Nat
  BY <1>2, <1>3, FS_CardinalityType
<1> QED BY <1>1, <1>2, <1>3, <1>4 DEF Num

LEMMA OneCall ==
  ASSUME asking \in [Call -> Asking], NEW c \in Call, NEW r \in Asking,
         asking' = [asking EXCEPT ![c] = r], NEW i \in Invite
  PROVE  /\ Cardinality(Waiting(i)) \in Nat /\ Cardinality(Accepting(i)) \in Nat
         /\ Cardinality(Waiting(i)') = Cardinality(Waiting(i)) + Num(Waits(r, i)) - Num(Waits(asking[c], i))
         /\ Cardinality(Accepting(i)') = Cardinality(Accepting(i)) + Num(Accepts(r, i)) - Num(Accepts(asking[c], i))
         /\ Cardinality(Accepting(i)) + Cardinality(Waiting(i)) <= Cardinality(Call)
<1>1. IsFiniteSet(Waiting(i)) /\ IsFiniteSet(Accepting(i))
  BY CallsAreFinite, FS_Subset DEF Waiting, Accepting
<1>2. asking' \in [Call -> Asking] /\ \A d \in Call : asking'[d] = IF d = c THEN r ELSE asking[d]
  OBVIOUS
<1>3. /\ Waits(r, i) \in BOOLEAN
      /\ Waiting(i)' = IF Waits(r, i) THEN Waiting(i) \cup {c} ELSE Waiting(i) \ {c}
  BY <1>2 DEF Waiting, Waits
<1>4. /\ Accepts(r, i) \in BOOLEAN
      /\ Accepting(i)' = IF Accepts(r, i) THEN Accepting(i) \cup {c} ELSE Accepting(i) \ {c}
  BY <1>2 DEF Accepting, Accepts
<1>5. (c \in Waiting(i) <=> Waits(asking[c], i)) /\ (c \in Accepting(i) <=> Accepts(asking[c], i))
  BY DEF Waiting, Accepting
<1>6. Cardinality(Accepting(i) \cup Waiting(i)) = Cardinality(Accepting(i)) + Cardinality(Waiting(i))
  <2>1. Accepting(i) \cap Waiting(i) = {}
    BY DEF Accepting, Waiting, Accepts, Waits
  <2>2. Cardinality(Accepting(i)) \in Nat /\ Cardinality(Waiting(i)) \in Nat
    BY <1>1, FS_CardinalityType
  <2>3. Cardinality(Accepting(i) \cap Waiting(i)) = 0
    BY <2>1, FS_EmptySet
  <2>4. Cardinality(Accepting(i) \cup Waiting(i))
          = Cardinality(Accepting(i)) + Cardinality(Waiting(i)) - Cardinality(Accepting(i) \cap Waiting(i))
    BY <1>1, FS_Union
  <2> QED BY <2>2, <2>3, <2>4
<1>7. Cardinality(Accepting(i) \cup Waiting(i)) <= Cardinality(Call)
  BY CallsAreFinite, FS_Subset DEF Waiting, Accepting
<1>8. /\ Cardinality(Waiting(i)) \in Nat
      /\ Cardinality(Waiting(i)') = Cardinality(Waiting(i)) + Num(Waits(r, i)) - Num(c \in Waiting(i))
  BY <1>1, <1>3, Replaced
<1>9. /\ Cardinality(Accepting(i)) \in Nat
      /\ Cardinality(Accepting(i)') = Cardinality(Accepting(i)) + Num(Accepts(r, i)) - Num(c \in Accepting(i))
  BY <1>1, <1>4, Replaced
<1>10. Num(c \in Waiting(i)) = Num(Waits(asking[c], i)) /\ Num(c \in Accepting(i)) = Num(Accepts(asking[c], i))
  BY <1>5 DEF Num
<1> QED BY <1>6, <1>7, <1>8, <1>9, <1>10

\* What a step of call c may do to the counts of an invitation.
Balanced(c, r, i) ==
  /\ Closed(i) => Closed(i)'
  /\ ~Closed(i)' => grants'[i] + Num(Accepts(asking[c], i)) + mishaps <= grants[i] + Num(Accepts(r, i)) + mishaps'
  /\ Closed(i)' => grants'[i] + Num(Waits(r, i)) + mishaps <= grants[i] + Num(Waits(asking[c], i)) + mishaps'

LEMMA CountKeeps ==
  ASSUME AccessInv, AccessTypes', NEW c \in Call, NEW r \in Asking,
         asking' = [asking EXCEPT ![c] = r], \A i \in Invite : Balanced(c, r, i)
  PROVE  GrantsCounted'
<1> SUFFICES ASSUME NEW i \in Invite
             PROVE  /\ ~Closed(i)' => grants'[i] <= Cardinality(Accepting(i)') + mishaps'
                    /\ Closed(i)' => grants'[i] + Cardinality(Waiting(i)') <= Cardinality(Call) + mishaps'
  BY DEF GrantsCounted
<1>1. asking \in [Call -> Asking] /\ grants[i] \in Nat /\ mishaps \in Nat /\ grants'[i] \in Nat /\ mishaps' \in Nat
  BY DEF AccessInv, AccessTypes
<1>2. /\ ~Closed(i) => grants[i] <= Cardinality(Accepting(i)) + mishaps
      /\ Closed(i) => grants[i] + Cardinality(Waiting(i)) <= Cardinality(Call) + mishaps
  BY DEF AccessInv, GrantsCounted
<1>3. Balanced(c, r, i)
  OBVIOUS
<1>4. /\ Cardinality(Waiting(i)) \in Nat /\ Cardinality(Accepting(i)) \in Nat
      /\ Cardinality(Waiting(i)') = Cardinality(Waiting(i)) + Num(Waits(r, i)) - Num(Waits(asking[c], i))
      /\ Cardinality(Accepting(i)') = Cardinality(Accepting(i)) + Num(Accepts(r, i)) - Num(Accepts(asking[c], i))
      /\ Cardinality(Accepting(i)) + Cardinality(Waiting(i)) <= Cardinality(Call)
  BY <1>1, OneCall
<1>5. /\ Num(Waits(r, i)) \in Nat /\ Num(Waits(asking[c], i)) \in Nat
      /\ Num(Accepts(r, i)) \in Nat /\ Num(Accepts(asking[c], i)) \in Nat
  BY DEF Num
<1>6. Cardinality(Call) \in Nat
  BY CallsAreFinite, FS_CardinalityType
<1> QED BY <1>1, <1>2, <1>3, <1>4, <1>5, <1>6 DEF Balanced

\* A step that changes no invitation and grants nothing.
LEMMA AskKeeps ==
  ASSUME AccessInv, AccessTypes', NEW c \in Call, NEW r \in Asking,
         asking' = [asking EXCEPT ![c] = r], UNCHANGED <<invited, grants>>, mishaps' >= mishaps,
         r.at # "accepting", asking[c].at = "accepting" => mishaps' > mishaps,
         \A i \in Invite : Waits(r, i) => Waits(asking[c], i) \/ ~Closed(i)
  PROVE  AccessInv'
<1>1. AcceptedIsGranted'
  BY DEF AccessInv, AcceptedIsGranted
<1>2. AcceptingHasGranted'
  BY DEF AccessInv, AcceptingHasGranted, AccessTypes
<1>3. ASSUME NEW i \in Invite PROVE Balanced(c, r, i)
  <2>1. Closed(i)' = Closed(i) /\ grants'[i] = grants[i] /\ grants[i] \in Nat /\ mishaps \in Nat /\ mishaps' \in Nat
    BY DEF Closed, AccessInv, AccessTypes
  <2>2. Num(Accepts(r, i)) = 0
    BY DEF Num, Accepts
  <2>3. Num(Accepts(asking[c], i)) + mishaps <= mishaps'
    <3>1. CASE asking[c].at = "accepting"
      <4>1. Num(Accepts(asking[c], i)) \in 0..1
        BY DEF Num
      <4> QED BY <2>1, <3>1, <4>1
    <3>2. CASE asking[c].at # "accepting"
      <4>1. Num(Accepts(asking[c], i)) = 0
        BY <3>2 DEF Num, Accepts
      <4> QED BY <2>1, <4>1
    <3> QED BY <3>1, <3>2
  <2>4. Closed(i) => Num(Waits(r, i)) <= Num(Waits(asking[c], i))
    BY <1>3 DEF Num
  <2>5. /\ Num(Waits(r, i)) \in Nat /\ Num(Waits(asking[c], i)) \in Nat
        /\ Num(Accepts(asking[c], i)) \in Nat
    BY DEF Num
  <2> QED BY <2>1, <2>2, <2>3, <2>4, <2>5 DEF Balanced
<1> QED BY <1>1, <1>2, <1>3, CountKeeps DEF AccessInv

-----------------------------------------------------------------------------
(* The inductive invariant *)

LEMMA AccessInvInit == AccessInit => AccessInv
<1> SUFFICES ASSUME AccessInit PROVE AccessInv
  OBVIOUS
<1>1. NoInvite \in Row /\ Asleep \in Asking
  BY DEF NoInvite, Row, InviteStatus, Asleep, Asking, Stand
<1>2. AccessTypes
  BY <1>1 DEF AccessInit, AccessTypes, AccessStatus, ForGuest, Asleep, NoInvite
<1>3. AcceptedIsGranted /\ AcceptingHasGranted
  BY DEF AccessInit, AcceptedIsGranted, AcceptingHasGranted, NoInvite, Asleep
<1>4. GrantsCounted
  <2>1. ASSUME NEW i \in Invite PROVE ~Closed(i) /\ grants[i] = 0 /\ Cardinality(Accepting(i)) \in Nat
    BY CallsAreFinite, FS_Subset, FS_CardinalityType DEF AccessInit, Closed, NoInvite, Accepting
  <2> QED BY <2>1 DEF GrantsCounted, AccessInit
<1> QED BY <1>2, <1>3, <1>4 DEF AccessInv

LEMMA AsleepIsAsking == Asleep \in Asking
BY DEF NoInvite, Row, InviteStatus, Asleep, Asking, Stand

\* The calls that only look: Grant, Revoke, CreateInvitation, Accept, Close, AcceptedGrant.
LEMMA ReadKeeps ==
  ASSUME AccessInv, NEW c \in Call,
         \/ \E g \in Guest : Grant(c, g) \/ Revoke(c, g) \/ CreateInvitation(c, g)
         \/ \E i \in Invite : Accept(c, i) \/ Close(c, i, "declining") \/ Close(c, i, "cancelling")
         \/ AcceptedGrant(c)
  PROVE  AccessInv'
<1>1. AccessTypes
  BY DEF AccessInv
<1>2. OnlyAsked
  BY DEF Grant, Revoke, CreateInvitation, Accept, Close, AcceptedGrant
<1>3. \A r \in Asking :
        /\ Asked(c, r) /\ ForGuest(r) /\ r.at # "accepting" /\ asking[c].at # "accepting"
        /\ \A i \in Invite : Waits(r, i) => Waits(asking[c], i) \/ ~Closed(i)
        => AccessInv'
  <2> SUFFICES ASSUME NEW r \in Asking, Asked(c, r), ForGuest(r), r.at # "accepting", asking[c].at # "accepting",
                      \A i \in Invite : Waits(r, i) => Waits(asking[c], i) \/ ~Closed(i)
               PROVE  AccessInv'
    OBVIOUS
  <2>1. asking' = [asking EXCEPT ![c] = r] /\ UNCHANGED <<invited, grants>> /\ mishaps' >= mishaps
    BY <1>1, <1>2 DEF Asked, OnlyAsked, AccessTypes
  <2>2. AccessTypes'
    <3>1. \A d \in Call : asking'[d] = IF d = c THEN r ELSE asking[d]
      BY <1>1, <2>1 DEF AccessTypes
    <3> QED BY <1>1, <1>2, <2>1, <3>1 DEF AccessTypes, OnlyAsked
  <2> QED BY <2>1, <2>2, AskKeeps
<1>4. Ready(c) => asking[c].at # "accepting"
  BY DEF Ready, Asleep
<1>5. ASSUME NEW g \in Guest, Grant(c, g) \/ Revoke(c, g) PROVE AccessInv'
  <2>1. PICK at \in {"granting", "revoking"} : Asked(c, [Asleep EXCEPT !.at = at, !.of = g, !.seen = access[g]])
    BY <1>5 DEF Grant, Revoke
  <2> DEFINE r == [Asleep EXCEPT !.at = at, !.of = g, !.seen = access[g]]
  <2>2. r \in Asking /\ r.at # "accepting" /\ r.inv = 0 /\ ForGuest(r)
    BY <1>1 DEF Asking, Stand, Asleep, NoInvite, Row, InviteStatus, AccessTypes, ForGuest
  <2>3. \A i \in Invite : ~Waits(r, i)
    BY <2>2 DEF Waits, Invite
  <2> QED BY <1>3, <1>4, <1>5, <2>1, <2>2, <2>3 DEF Grant, Revoke
<1>6. ASSUME NEW g \in Guest, CreateInvitation(c, g) PROVE AccessInv'
  <2> DEFINE fresh == [Asleep EXCEPT !.at = "inviting", !.of = g]
             late(i) == [Asleep EXCEPT !.at = "expiring", !.of = g, !.inv = i, !.invSeen = invited[i]]
  <2>1. fresh \in Asking /\ fresh.at = "inviting" /\ ForGuest(fresh)
    BY DEF ForGuest, Asking, Stand, Asleep, NoInvite, Row, InviteStatus
  <2>2. \A i \in Invite : late(i) \in Asking /\ late(i).at = "expiring" /\ ForGuest(late(i))
    BY <1>1 DEF ForGuest, Asking, Stand, Asleep, AccessTypes
  <2>3. PICK r \in Asking : Asked(c, r) /\ r.at \in {"inviting", "expiring"} /\ ForGuest(r)
    BY <1>6, <2>1, <2>2 DEF CreateInvitation, PendingFor
  <2>4. \A i \in Invite : ~Waits(r, i)
    BY <2>3 DEF Waits
  <2> QED BY <1>3, <1>4, <1>6, <2>3, <2>4 DEF CreateInvitation
<1>7. ASSUME NEW j \in Invite, Accept(c, j) PROVE AccessInv'
  <2>1. PICK at \in {"lapsing", "checking"} :
          Asked(c, [Asleep EXCEPT !.at = at, !.of = invited[j].for, !.inv = j, !.invSeen = invited[j]])
    BY <1>7 DEF Accept
  <2> DEFINE r == [Asleep EXCEPT !.at = at, !.of = invited[j].for, !.inv = j, !.invSeen = invited[j]]
  <2>2. r \in Asking /\ r.at # "accepting" /\ r.inv = j /\ ForGuest(r)
    BY <1>1, <1>7 DEF Accept, IsPending, ForGuest, Asking, Stand, Asleep, NoInvite, Row, InviteStatus, AccessTypes
  <2>3. \A i \in Invite : Waits(r, i) => ~Closed(i)
    BY <2>2, <1>7 DEF Waits, Accept, IsPending, Closed
  <2> QED BY <1>3, <1>4, <1>7, <2>1, <2>2, <2>3 DEF Accept
<1>8. ASSUME NEW j \in Invite, NEW at \in {"declining", "cancelling"}, Close(c, j, at) PROVE AccessInv'
  <2> DEFINE r == [Asleep EXCEPT !.at = at, !.inv = j, !.invSeen = invited[j]]
  <2>1. r \in Asking /\ r.at \in {"declining", "cancelling"} /\ ForGuest(r)
    BY <1>1 DEF ForGuest,  Asking, Stand, Asleep, NoInvite, Row, InviteStatus, AccessTypes
  <2>2. \A i \in Invite : ~Waits(r, i)
    BY <2>1 DEF Waits
  <2>3. Asked(c, r)
    BY <1>8 DEF Close
  <2> QED BY <1>3, <1>4, <1>8, <2>1, <2>2, <2>3 DEF Close
<1>9. ASSUME AcceptedGrant(c) PROVE AccessInv'
  <2> DEFINE a == asking[c]
             r == IF access[a.of] = "active" THEN Asleep ELSE [a EXCEPT !.at = "granting", !.seen = access[a.of]]
  <2>1. a \in Asking /\ a.at = "checking" /\ Asked(c, r)
    BY <1>1, <1>9 DEF AcceptedGrant, Asks, AccessTypes
  <2>4. a.of \in Guest /\ access[a.of] \in AccessStatus
    BY <1>1, <2>1 DEF AccessTypes, ForGuest
  <2>2. CASE access[a.of] = "active"
    <3>1. \A i \in Invite : ~Waits(Asleep, i)
      BY DEF Waits, Asleep
    <3> QED BY <1>3, <2>1, <2>2, <3>1, AsleepIsAsking DEF Asleep, ForGuest
  <2>3. CASE access[a.of] # "active"
    <3>1. r = [a EXCEPT !.at = "granting", !.seen = access[a.of]]
      BY <2>3
    <3> HIDE DEF r
    <3>2. r \in Asking /\ r.at = "granting" /\ r.inv = a.inv
      BY <2>1, <2>4, <3>1 DEF Asking, Stand
    <3>3. \A i \in Invite : Waits(r, i) => Waits(a, i)
      BY <2>1, <3>2 DEF Waits
    <3> QED BY <1>3, <2>1, <3>2, <3>3 DEF ForGuest
  <2> QED BY <2>2, <2>3
<1> QED BY <1>5, <1>6, <1>7, <1>8, <1>9

LEMMA RefusedKeeps ==
  ASSUME AccessInv, NEW c \in Call, Refused(c)
  PROVE  AccessInv'
<1>1. /\ asking' = [asking EXCEPT ![c] = Asleep] /\ UNCHANGED <<access, invited, grants>>
      /\ mishaps' = IF asking[c].at = "accepting" THEN mishaps + 1 ELSE mishaps
  BY DEF Refused, Asked, Asks
<1>2. AccessTypes'
  BY <1>1, AsleepIsAsking DEF AccessInv, AccessTypes, ForGuest, Asleep
<1>3. \A i \in Invite : ~Waits(Asleep, i)
  BY DEF Waits, Asleep
<1>4. mishaps' >= mishaps /\ (asking[c].at = "accepting" => mishaps' > mishaps)
  BY <1>1 DEF AccessInv, AccessTypes
<1> QED BY <1>1, <1>2, <1>3, <1>4, AskKeeps, AsleepIsAsking DEF Asleep

LEMMA SaveRevokeKeeps ==
  ASSUME AccessInv, NEW c \in Call, SaveRevoke(c)
  PROVE  AccessInv'
<1>1. /\ asking' = [asking EXCEPT ![c] = Asleep] /\ UNCHANGED <<invited, grants>>
      /\ mishaps' \in {mishaps, mishaps + 1} /\ asking[c].at = "revoking"
      /\ access' = [access EXCEPT ![asking[c].of] = "inactive"]
  BY DEF SaveRevoke, Asked, Asks, Mishap, Lost, AccessInv, AccessTypes
<1>2. mishaps' \in Nat /\ mishaps' >= mishaps
  BY <1>1 DEF AccessInv, AccessTypes
<1>3. access' \in [Guest -> AccessStatus]
  BY <1>1 DEF AccessInv, AccessTypes, AccessStatus
<1>4. AccessTypes'
  BY <1>1, <1>2, <1>3, AsleepIsAsking DEF AccessInv, AccessTypes, ForGuest, Asleep
<1>5. \A i \in Invite : ~Waits(Asleep, i)
  BY DEF Waits, Asleep
<1> QED BY <1>1, <1>2, <1>4, <1>5, AskKeeps, AsleepIsAsking DEF Asleep

LEMMA SaveGrantKeeps ==
  ASSUME AccessInv, NEW c \in Call, SaveGrant(c)
  PROVE  AccessInv'
<1> DEFINE a == asking[c]
<1>1. AccessTypes /\ a \in Asking /\ a.at = "granting" /\ invited' = invited
  BY DEF SaveGrant, Asks, AccessInv, AccessTypes
<1>2. CASE Asked(c, Asleep) /\ UNCHANGED <<access, grants, mishaps>>
  <2>1. AccessTypes'
    BY <1>1, <1>2, AsleepIsAsking DEF AccessTypes, ForGuest, Asleep, Asked
  <2>2. \A i \in Invite : ~Waits(Asleep, i)
    BY DEF Waits, Asleep
  <2>3. mishaps' >= mishaps
    BY <1>1, <1>2 DEF AccessTypes
  <2> QED BY <1>1, <1>2, <2>1, <2>2, <2>3, AskKeeps, AsleepIsAsking DEF Asleep, Asked
<1>3. CASE /\ access' = [access EXCEPT ![a.of] = "active"]
           /\ grants' = IF a.inv = 0 THEN grants ELSE [grants EXCEPT ![a.inv] = @ + 1]
           /\ Mishap(access[a.of], a.seen)
           /\ Asked(c, IF a.inv = 0 THEN Asleep ELSE [a EXCEPT !.at = "accepting", !.seen = None])
  <2>1. mishaps' \in Nat /\ mishaps' >= mishaps
    BY <1>1, <1>3 DEF AccessTypes, Mishap, Lost
  <2>2. access' \in [Guest -> AccessStatus]
    BY <1>1, <1>3 DEF AccessTypes, AccessStatus
  <2>3. CASE a.inv = 0
    <3>1. grants' = grants /\ Asked(c, Asleep)
      BY <1>3, <2>3
    <3>2. AccessTypes'
      BY <1>1, <2>1, <2>2, <3>1, AsleepIsAsking DEF AccessTypes, ForGuest, Asleep, Asked
    <3>3. \A i \in Invite : ~Waits(Asleep, i)
      BY DEF Waits, Asleep
    <3> QED BY <1>1, <2>1, <3>1, <3>2, <3>3, AskKeeps, AsleepIsAsking DEF Asleep, Asked
  <2>4. CASE a.inv # 0
    <3> DEFINE r == [a EXCEPT !.at = "accepting", !.seen = None]
    <3>1. a.inv \in Invite /\ r \in Asking /\ r.at = "accepting" /\ r.inv = a.inv
      BY <1>1, <2>4 DEF Asking, Stand
    <3>2. asking' = [asking EXCEPT ![c] = r] /\ grants' = [grants EXCEPT ![a.inv] = @ + 1]
      BY <1>3, <2>4 DEF Asked
    <3>3. /\ grants' \in [Invite -> Nat]
          /\ \A i \in Invite : grants[i] \in Nat /\ grants'[i] = IF i = a.inv THEN grants[i] + 1 ELSE grants[i]
      BY <1>1, <3>1, <3>2 DEF AccessTypes
    <3>4. asking' \in [Call -> Asking] /\ \A d \in Call : asking'[d] = IF d = c THEN r ELSE asking[d]
      BY <1>1, <3>1, <3>2 DEF AccessTypes
    <3>5. AccessTypes'
      BY <1>1, <2>1, <2>2, <3>1, <3>3, <3>4 DEF AccessTypes, ForGuest
    <3>6. AcceptedIsGranted'
      BY <1>1, <3>3 DEF AccessInv, AcceptedIsGranted
    <3>7. AcceptingHasGranted'
      <4> SUFFICES ASSUME NEW d \in Call, asking'[d].at = "accepting"
                   PROVE  asking'[d].inv \in Invite /\ grants'[asking'[d].inv] > 0
        BY DEF AcceptingHasGranted
      <4>1. CASE d = c
        <5>1. grants'[a.inv] = grants[a.inv] + 1 /\ grants[a.inv] \in Nat
          BY <3>1, <3>3
        <5>2. asking'[d].inv = a.inv
          BY <3>1, <3>4, <4>1
        <5> QED BY <3>1, <5>1, <5>2
      <4>2. CASE d # c
        <5>1. asking'[d] = asking[d] /\ asking[d].inv \in Invite /\ grants[asking[d].inv] > 0
          BY <3>4, <4>2 DEF AccessInv, AcceptingHasGranted
        <5> QED BY <3>3, <5>1
      <4> QED BY <4>1, <4>2
    <3>8. ASSUME NEW i \in Invite PROVE Balanced(c, r, i)
      <4>1. Closed(i)' = Closed(i) /\ mishaps \in Nat
        BY <1>1 DEF Closed, AccessTypes
      <4>2. CASE i = a.inv
        <5>1. Num(Accepts(asking[c], i)) = 0 /\ Num(Accepts(r, i)) = 1
          BY <1>1, <3>1, <4>2 DEF Num, Accepts
        <5>2. Num(Waits(asking[c], i)) = 1 /\ Num(Waits(r, i)) = 0
          BY <1>1, <3>1, <4>2 DEF Num, Waits
        <5> QED BY <2>1, <3>3, <4>1, <4>2, <5>1, <5>2 DEF Balanced
      <4>3. CASE i # a.inv
        <5>1. Num(Accepts(asking[c], i)) = 0 /\ Num(Accepts(r, i)) = 0
          BY <3>1, <4>3 DEF Num, Accepts
        <5>2. Num(Waits(asking[c], i)) = 0 /\ Num(Waits(r, i)) = 0
          BY <3>1, <4>3 DEF Num, Waits
        <5> QED BY <2>1, <3>3, <4>1, <4>3, <5>1, <5>2 DEF Balanced
      <4> QED BY <4>2, <4>3
    <3> HIDE DEF r
    <3>9. GrantsCounted'
      BY <3>1, <3>2, <3>5, <3>8, CountKeeps
    <3> QED BY <3>5, <3>6, <3>7, <3>9 DEF AccessInv
  <2> QED BY <2>3, <2>4
<1> QED BY <1>2, <1>3 DEF SaveGrant

LEMMA InsertInviteKeeps ==
  ASSUME AccessInv, NEW c \in Call, InsertInvite(c)
  PROVE  AccessInv'
<1>1. AccessTypes /\ asking[c].at = "inviting" /\ asking[c].of \in Guest
  BY DEF InsertInvite, Asks, AccessInv, AccessTypes, ForGuest
<1>2. asking' = [asking EXCEPT ![c] = Asleep] /\ UNCHANGED <<access, grants, mishaps>>
  BY DEF InsertInvite, Asked
<1>3. PICK i \in Invite : /\ invited[i] = NoInvite
                         /\ invited' = [invited EXCEPT ![i] = [for |-> asking[c].of, late |-> FALSE, status |-> "PENDING"]]
  BY DEF InsertInvite
<1>4. /\ invited' \in [Invite -> Row]
      /\ \A j \in Invite : invited'[j] = IF j = i THEN [for |-> asking[c].of, late |-> FALSE, status |-> "PENDING"]
                                         ELSE invited[j]
  BY <1>1, <1>3 DEF AccessTypes, Row, InviteStatus
<1>5. AccessTypes'
  BY <1>1, <1>2, <1>4, AsleepIsAsking DEF AccessTypes, ForGuest, Asleep
<1>6. AcceptedIsGranted'
  BY <1>2, <1>4 DEF AccessInv, AcceptedIsGranted
<1>7. AcceptingHasGranted'
  BY <1>1, <1>2 DEF AccessInv, AcceptingHasGranted, AccessTypes, Asleep
<1>8. ASSUME NEW j \in Invite PROVE Balanced(c, Asleep, j)
  <2>1. Closed(j)' = Closed(j)
    BY <1>3, <1>4 DEF Closed, NoInvite
  <2>2. Num(Accepts(asking[c], j)) = 0 /\ Num(Accepts(Asleep, j)) = 0
    BY <1>1 DEF Num, Accepts, Asleep
  <2>3. Num(Waits(asking[c], j)) = 0 /\ Num(Waits(Asleep, j)) = 0
    BY <1>1 DEF Num, Waits, Asleep
  <2>4. grants'[j] = grants[j] /\ grants[j] \in Nat /\ mishaps' = mishaps /\ mishaps \in Nat
    BY <1>1, <1>2 DEF AccessTypes
  <2> QED BY <2>1, <2>2, <2>3, <2>4 DEF Balanced
<1>9. GrantsCounted'
  BY <1>2, <1>5, <1>8, CountKeeps, AsleepIsAsking
<1> QED BY <1>5, <1>6, <1>7, <1>9 DEF AccessInv

LEMMA SaveInvitationKeeps ==
  ASSUME AccessInv, NEW c \in Call, SaveInvitation(c)
  PROVE  AccessInv'
<1> DEFINE a == asking[c]
           status == SavedAs[a.at]
           r == IF a.at = "expiring" THEN [Asleep EXCEPT !.at = "inviting", !.of = a.of] ELSE Asleep
<1>1. AccessTypes /\ a \in Asking /\ UNCHANGED <<access, grants>>
  BY DEF SaveInvitation, AccessInv, AccessTypes
<1>2. /\ a.at \in {"accepting", "declining", "cancelling", "expiring", "lapsing"}
      /\ status \in InviteStatus /\ status # "none" /\ status # "PENDING"
      /\ status = "ACCEPTED" => a.at = "accepting"
  BY DEF SaveInvitation, SavedAs, InviteStatus
<1>3. /\ asking' = [asking EXCEPT ![c] = r]
      /\ invited' = [invited EXCEPT ![a.inv].status = status]
      /\ Mishap(invited[a.inv].status, a.invSeen.status)
  BY DEF SaveInvitation, Asked
<1>4. r \in Asking /\ ForGuest(r) /\ r.at \in {"idle", "inviting"}
  <2>1. CASE a.at = "expiring"
    <3>1. a.of \in Guest
      BY <1>1, <2>1 DEF AccessTypes, ForGuest
    <3> QED BY <2>1, <3>1, AsleepIsAsking DEF ForGuest, Asking, Stand
  <2>2. CASE a.at # "expiring"
    BY <2>2, AsleepIsAsking DEF ForGuest, Asleep
  <2> QED BY <2>1, <2>2
<1> HIDE DEF r, status
<1>5. mishaps' \in Nat /\ mishaps' >= mishaps
  BY <1>1, <1>3 DEF AccessTypes, Mishap, Lost
<1>6. \A i \in Invite : invited'[i] = IF i = a.inv THEN [invited[i] EXCEPT !.status = status] ELSE invited[i]
  BY <1>1, <1>3 DEF AccessTypes
<1>7. invited' \in [Invite -> Row]
  <2>1. ASSUME NEW i \in Invite PROVE invited'[i] \in Row
    BY <1>1, <1>2, <1>6 DEF AccessTypes, Row
  <2>2. invited' = [i \in Invite |-> invited'[i]]
    BY <1>1, <1>3 DEF AccessTypes
  <2> QED BY <2>1, <2>2
<1>8. asking' \in [Call -> Asking] /\ \A d \in Call : asking'[d] = IF d = c THEN r ELSE asking[d]
  BY <1>1, <1>3, <1>4 DEF AccessTypes
<1>9. \A i \in Invite : invited'[i].status = IF i = a.inv THEN status ELSE invited[i].status
  BY <1>1, <1>6 DEF AccessTypes, Row
<1>10. AccessTypes'
  <2>1. \A i \in Invite : invited'[i].status = "PENDING" => invited'[i].for \in Guest
    <3>1. \A i \in Invite : i # a.inv => invited'[i] = invited[i]
      BY <1>6
    <3> QED BY <1>1, <1>2, <1>9, <3>1 DEF AccessTypes
  <2> QED BY <1>1, <1>4, <1>5, <1>7, <1>8, <2>1 DEF AccessTypes
<1>11. AcceptedIsGranted'
  <2> SUFFICES ASSUME NEW i \in Invite, invited'[i].status = "ACCEPTED" PROVE grants[i] > 0
    BY <1>1 DEF AcceptedIsGranted
  <2>1. CASE i = a.inv
    <3>1. a.at = "accepting"
      BY <1>2, <1>9, <2>1
    <3> QED BY <2>1, <3>1 DEF AccessInv, AcceptingHasGranted
  <2>2. CASE i # a.inv
    BY <1>9, <2>2 DEF AccessInv, AcceptedIsGranted
  <2> QED BY <2>1, <2>2
<1>12. AcceptingHasGranted'
  BY <1>1, <1>4, <1>8 DEF AccessInv, AcceptingHasGranted
<1>13. ASSUME NEW i \in Invite PROVE Balanced(c, r, i)
  <2>1. Closed(i) => Closed(i)'
    BY <1>2, <1>9 DEF Closed, InviteStatus
  <2>2. ~Closed(i)' => Num(Accepts(a, i)) = 0
    BY <1>2, <1>9 DEF Closed, InviteStatus, Num, Accepts
  <2>3. Num(Accepts(r, i)) = 0 /\ Num(Waits(r, i)) = 0 /\ Num(Waits(a, i)) = 0
    BY <1>2, <1>4 DEF Num, Accepts, Waits
  <2>4. grants'[i] = grants[i] /\ grants[i] \in Nat /\ mishaps \in Nat
    BY <1>1 DEF AccessTypes
  <2> QED BY <1>5, <2>1, <2>2, <2>3, <2>4 DEF Balanced
<1>14. GrantsCounted'
  BY <1>3, <1>4, <1>10, <1>13, CountKeeps
<1> QED BY <1>10, <1>11, <1>12, <1>14 DEF AccessInv

LEMMA LateKeeps ==
  ASSUME AccessInv, NEW i \in Invite, Late(i)
  PROVE  AccessInv'
<1>1. AccessTypes /\ UNCHANGED <<access, asking, grants, mishaps>> /\ invited' = [invited EXCEPT ![i].late = TRUE]
  BY DEF Late, AccessInv
<1>2. \A j \in Invite : invited'[j] = IF j = i THEN [invited[j] EXCEPT !.late = TRUE] ELSE invited[j]
  BY <1>1 DEF AccessTypes
<1>3. \A j \in Invite : invited'[j] \in Row /\ invited'[j].status = invited[j].status /\ invited'[j].for = invited[j].for
  <2>1. \A row \in Row : LET late == [row EXCEPT !.late = TRUE]
                        IN  late \in Row /\ late.status = row.status /\ late.for = row.for
    BY DEF Row
  <2>2. \A j \in Invite : invited[j] \in Row
    BY <1>1 DEF AccessTypes
  <2> QED BY <1>2, <2>1, <2>2
<1>4. invited' \in [Invite -> Row]
  <2>1. invited' = [j \in Invite |-> invited'[j]]
    BY <1>1 DEF AccessTypes
  <2> QED BY <1>3, <2>1
<1>5. AccessTypes'
  BY <1>1, <1>3, <1>4 DEF AccessTypes, ForGuest
<1>6. AcceptedIsGranted' /\ AcceptingHasGranted'
  BY <1>1, <1>3 DEF AccessInv, AcceptedIsGranted, AcceptingHasGranted
<1>7. GrantsCounted'
  BY <1>1, <1>3 DEF AccessInv, GrantsCounted, Closed, Waiting, Accepting, Waits, Accepts
<1> QED BY <1>5, <1>6, <1>7 DEF AccessInv

LEMMA AccessInvStutter ==
  ASSUME AccessInv, UNCHANGED accessVars
  PROVE  AccessInv'
BY DEF AccessInv, accessVars, AccessTypes, ForGuest, AcceptedIsGranted, AcceptingHasGranted, GrantsCounted,
       Closed, Waiting, Accepting, Waits, Accepts

LEMMA AccessInvStep == AccessInv /\ [AccessNext]_accessVars => AccessInv'
<1> SUFFICES ASSUME AccessInv, [AccessNext]_accessVars PROVE AccessInv'
  OBVIOUS
<1>1. ASSUME NEW c \in Call, AccessStep(c) PROVE AccessInv'
  BY <1>1, ReadKeeps, SaveGrantKeeps, SaveRevokeKeeps, InsertInviteKeeps, SaveInvitationKeeps, RefusedKeeps
     DEF AccessStep
<1> QED BY <1>1, LateKeeps, AccessInvStutter DEF AccessNext

LEMMA AccessAlways == AccessSpec => []AccessInv
BY AccessInvInit, AccessInvStep, PTL DEF AccessSpec

-----------------------------------------------------------------------------
\* An invitation that was accepted has given its access (app-invitation.service.ts
\* grants before it saves the invitation), however calls overlap and break off.
THEOREM AcceptedHasGranted == AccessSpec => []AcceptedIsGranted
<1>1. AccessInv => AcceptedIsGranted
  BY DEF AccessInv
<1> QED BY <1>1, AccessAlways, PTL

\* One invitation gives the access at most once for each call that can run beside the
\* first, and once more for each acceptance cut short or overwritten.
THEOREM GrantsStayBounded == AccessSpec => []GrantsBounded
<1>1. AccessInv => GrantsBounded
  <2> SUFFICES ASSUME AccessInv, NEW i \in Invite PROVE grants[i] <= Cardinality(Call) + mishaps
    BY DEF GrantsBounded
  <2>1. IsFiniteSet(Waiting(i)) /\ IsFiniteSet(Accepting(i))
    BY CallsAreFinite, FS_Subset DEF Waiting, Accepting
  <2>2. Cardinality(Waiting(i)) \in Nat /\ Cardinality(Accepting(i)) \in Nat /\ Cardinality(Call) \in Nat
    BY <2>1, CallsAreFinite, FS_CardinalityType
  <2>3. Cardinality(Accepting(i)) <= Cardinality(Call)
    BY CallsAreFinite, FS_Subset DEF Accepting
  <2> QED BY <2>2, <2>3 DEF AccessInv, AccessTypes, GrantsCounted
<1> QED BY <1>1, AccessAlways, PTL
=============================================================================
