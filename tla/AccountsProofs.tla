---------------------------- MODULE AccountsProofs ----------------------------
(***************************************************************************)
(* Proofs about Accounts, for any number of passwords, codes, mails, logins *)
(* and overlapping calls.                                                  *)
(***************************************************************************)
EXTENDS Accounts, FiniteSetTheorems, TLAPS

\* A row whose columns of the second factor fit, and whose set-up was completed.
\* All of it holds for as long as no save was torn; n is the number of those that were.
Whole(row, n) ==
  n = 0 => /\ row.mfa = 0 => row.codes = {}
           /\ \A k, l \in row.codes : k[1] = l[1]

Backed(row, m, n) == n = 0 /\ row.mfa # 0 => m[row.mfa] > 0

Tears == stale.torn

Act ==
  [op : {"none", "plain", "verify", "login", "complete", "regenerate", "disable", "resend", "verifyEmail", "reset"},
   at : {"idle", "saving", "spending", "checking", "dropping", "mailing", "marking", "reading"},
   base : UserRow \cup {None}, copy : UserRow \cup {None},
   seen : UserRow \cup MailRow \cup {None}, first : UserRow \cup {None}, found : UserRow \cup {None},
   code : Code \cup {None}, ref : Nat]

AccountTypes ==
  /\ user \in UserRow
  /\ mails \in [Mail -> MailRow]
  /\ setups \subseteq SetId /\ temps \subseteq 1..begun
  /\ acting \in [Call -> Act]
  /\ made \in [SetId -> Nat] /\ spent \in [Code -> Nat]
  /\ begun \in 0..MaxTemps /\ opened \in [Temp -> Nat]
  /\ acted \in [Mail -> Nat]
  /\ stale \in [user : Nat, mail : Nat, torn : Nat]

\* The copy a call is to save: the codes of a new set, or some of those on the row it is a
\* copy of.
Carries(a, m, n) ==
  /\ a.base \in UserRow /\ a.copy \in UserRow /\ Whole(a.copy, n)
  /\ IF a.op = "complete" THEN a.ref = a.copy.mfa ELSE Backed(a.copy, m, n)
  /\ IF a.op \in {"complete", "regenerate"} THEN a.ref \in SetId /\ a.copy.codes = CodesOf(a.ref)
     ELSE a.copy.codes \subseteq a.base.codes
  /\ a.op = "disable" => a.copy.codes = {}

\* The copy with which a backup code is taken off the row.
Takes(a, m, n) ==
  /\ a.seen \in UserRow /\ a.first \in UserRow /\ Whole(a.first, n) /\ Backed(a.first, m, n)
  /\ a.code \in Code /\ a.code \in a.seen.codes
  /\ a.first.codes \subseteq a.seen.codes \ {a.code}

\* What a call carries, by where it stands; m, te, b and n are made, temps, begun and Tears.
Sound(a, m, te, b, n) ==
  /\ \/ a.at \in {"spending", "saving"}
     \/ a.at = "dropping" /\ a.op = "verify"
     \/ a.at = "marking" /\ a.op = "reset"
     => Carries(a, m, n)
  /\ a.at = "spending" => Takes(a, m, n) /\ a.op \in {"verify", "login", "regenerate", "disable"}
  /\ a.at = "checking" /\ a.op \in {"regenerate", "disable"} =>
       a.base \in UserRow /\ Whole(a.base, n) /\ Backed(a.base, m, n) /\ a.base.mfa # 0
  /\ a.op = "verify" => a.ref \in 1..b /\ (a.at = "saving" => a.ref \notin te)
  /\ a.at \in {"marking", "reading"} => a.op \in {"verifyEmail", "reset"}
  /\ a.at = "reading" => a.op = "verifyEmail"
  /\ a.op \in {"verifyEmail", "reset"} => a.ref \in Mail
  /\ a.at = "marking" => a.seen \in MailRow /\ a.seen.used = FALSE

CallsAreSound == \A c \in Call : Sound(acting[c], made, temps, begun, Tears)

\* Calls that will open a session with a temporary token; and those that will act on a
\* mailed token.
Verifies(a, t) == a.op = "verify" /\ a.ref = t
Acts(a, t) == a.op \in {"verifyEmail", "reset"} /\ a.ref = t /\ a.at \in {"reading", "saving"}
Verifying(t) == {c \in Call : Verifies(acting[c], t)}
Acting(t) == {c \in Call : Acts(acting[c], t)}

Num(b) == IF b THEN 1 ELSE 0

TempsCounted ==
  \A t \in Temp :
    /\ opened[t] + Cardinality(Verifying(t)) <= Cardinality(Call)
    /\ t \in temps \/ t > begun => opened[t] = 0

MailsCounted ==
  \A t \in Mail : acted[t] + Cardinality(Acting(t)) <= Num(mails[t].used) + stale.mail

\* A code that is still on the row can be accepted once more.
CodesCounted ==
  \A k \in Code :
    /\ spent[k] <= made[k[1]] + stale.user
    /\ k \in user.codes => spent[k] < made[k[1]] + stale.user

AccountInv ==
  /\ AccountTypes /\ CallsAreSound
  /\ Whole(user, Tears) /\ Backed(user, made, Tears)
  /\ CodesCounted /\ TempsCounted /\ MailsCounted

-----------------------------------------------------------------------------
(* One call takes a step *)

LEMMA Replaced ==
  ASSUME NEW S, IsFiniteSet(S), NEW T, NEW c, NEW b \in BOOLEAN,
         T = IF b THEN S \cup {c} ELSE S \ {c}
  PROVE  /\ Cardinality(S) \in Nat /\ Cardinality(T) \in Nat
         /\ Cardinality(T) = Cardinality(S) + Num(b) - Num(c \in S)
<1>1. Cardinality(S) \in Nat
  BY FS_CardinalityType
<1>2. IsFiniteSet(S \cup {c}) /\ Cardinality(S \cup {c}) = IF c \in S THEN Cardinality(S) ELSE Cardinality(S) + 1
  BY FS_AddElement
<1>3. IsFiniteSet(S \ {c}) /\ Cardinality(S \ {c}) = IF c \in S THEN Cardinality(S) - 1 ELSE Cardinality(S)
  BY FS_RemoveElement
<1>4. Cardinality(T) \in Nat
  BY <1>2, <1>3, FS_CardinalityType
<1> QED BY <1>1, <1>2, <1>3, <1>4 DEF Num

LEMMA OneCall ==
  ASSUME acting \in [Call -> Act], NEW c \in Call, NEW r \in Act, acting' = [acting EXCEPT ![c] = r], NEW t
  PROVE  /\ Cardinality(Verifying(t)) \in Nat /\ Cardinality(Acting(t)) \in Nat
         /\ Cardinality(Verifying(t)') \in Nat /\ Cardinality(Acting(t)') \in Nat
         /\ Cardinality(Verifying(t)') = Cardinality(Verifying(t)) + Num(Verifies(r, t)) - Num(Verifies(acting[c], t))
         /\ Cardinality(Acting(t)') = Cardinality(Acting(t)) + Num(Acts(r, t)) - Num(Acts(acting[c], t))
         /\ Cardinality(Verifying(t)') <= Cardinality(Call) /\ Cardinality(Call) \in Nat
<1>1. IsFiniteSet(Verifying(t)) /\ IsFiniteSet(Acting(t))
  BY CallsAreFinite, FS_Subset DEF Verifying, Acting
<1>2. acting' \in [Call -> Act] /\ \A d \in Call : acting'[d] = IF d = c THEN r ELSE acting[d]
  OBVIOUS
<1>3. /\ Verifies(r, t) \in BOOLEAN
      /\ Verifying(t)' = IF Verifies(r, t) THEN Verifying(t) \cup {c} ELSE Verifying(t) \ {c}
  BY <1>2 DEF Verifying, Verifies
<1>4. /\ Acts(r, t) \in BOOLEAN
      /\ Acting(t)' = IF Acts(r, t) THEN Acting(t) \cup {c} ELSE Acting(t) \ {c}
  BY <1>2 DEF Acting, Acts
<1>5. /\ Cardinality(Verifying(t)) \in Nat /\ Cardinality(Verifying(t)') \in Nat
      /\ Cardinality(Verifying(t)') = Cardinality(Verifying(t)) + Num(Verifies(r, t)) - Num(c \in Verifying(t))
  BY <1>1, <1>3, Replaced
<1>6. /\ Cardinality(Acting(t)) \in Nat /\ Cardinality(Acting(t)') \in Nat
      /\ Cardinality(Acting(t)') = Cardinality(Acting(t)) + Num(Acts(r, t)) - Num(c \in Acting(t))
  BY <1>1, <1>4, Replaced
<1>7. Num(c \in Verifying(t)) = Num(Verifies(acting[c], t)) /\ Num(c \in Acting(t)) = Num(Acts(acting[c], t))
  BY DEF Num, Verifying, Acting
<1>8. Cardinality(Verifying(t)') <= Cardinality(Call) /\ Cardinality(Call) \in Nat
  <2>1. Verifying(t)' \in SUBSET Call
    BY DEF Verifying
  <2> QED BY <2>1, CallsAreFinite, FS_Subset, FS_CardinalityType
<1> QED BY <1>5, <1>6, <1>7, <1>8

\* What a call carries stays sound while sets of codes are handed out and temporary tokens
\* issued and dropped, and saves are torn.
LEMMA SoundStays ==
  ASSUME NEW a \in Act, NEW m \in [SetId -> Nat], NEW o \in [SetId -> Nat], \A g \in SetId : m[g] <= o[g],
         NEW te, NEW tf, NEW b \in Nat, NEW e \in Nat, b <= e, \A t \in tf : t \in te \/ t > b,
         NEW n \in Nat, NEW x \in Nat, n <= x,
         Sound(a, m, te, b, n)
  PROVE  Sound(a, o, tf, e, x)
<1>1. \A row \in UserRow : (Backed(row, m, n) => Backed(row, o, x)) /\ (Whole(row, n) => Whole(row, x))
  BY DEF UserRow, Backed, Whole, SetId
<1>2. ((Carries(a, m, n) => Carries(a, o, x))) /\ (Takes(a, m, n) => Takes(a, o, x))
  BY <1>1 DEF Carries, Takes
<1>3. a.op = "verify" => a.ref \in 1..e /\ (a.at = "saving" => a.ref \notin tf)
  BY DEF Sound
<1> QED BY <1>1, <1>2, <1>3 DEF Sound

LEMMA CallKeeps ==
  ASSUME AccountInv, NEW c \in Call, NEW r \in Act, acting' = [acting EXCEPT ![c] = r],
         made' \in [SetId -> Nat], \A g \in SetId : made[g] <= made'[g],
         begun' \in Nat, begun <= begun', \A t \in temps' : t \in temps \/ t > begun,
         Tears' \in Nat, Tears <= Tears',
         Sound(r, made', temps', begun', Tears')
  PROVE  acting' \in [Call -> Act] /\ CallsAreSound'
<1>1. acting \in [Call -> Act] /\ made \in [SetId -> Nat] /\ begun \in Nat /\ Tears \in Nat
  BY DEF AccountInv, AccountTypes, Tears
<1>2. acting' \in [Call -> Act] /\ \A d \in Call : acting'[d] = IF d = c THEN r ELSE acting[d]
  BY <1>1
<1>3. ASSUME NEW d \in Call PROVE Sound(acting'[d], made', temps', begun', Tears')
  <2>1. CASE d = c
    BY <1>2, <2>1
  <2>2. CASE d # c
    <3>1. acting'[d] = acting[d] /\ acting[d] \in Act /\ Sound(acting[d], made, temps, begun, Tears)
      BY <1>1, <1>2, <2>2 DEF AccountInv, CallsAreSound
    <3>2. Sound(acting[d], made', temps', begun', Tears')
      BY <1>1, <3>1, SoundStays
    <3> QED BY <3>1, <3>2
  <2> QED BY <2>1, <2>2
<1> QED BY <1>2, <1>3 DEF CallsAreSound

LEMMA TempsKeep ==
  ASSUME AccountInv, NEW c \in Call, NEW r \in Act, acting' = [acting EXCEPT ![c] = r],
         opened' \in [Temp -> Nat],
         \A t \in Temp :
           /\ t \in temps' \/ t > begun' => opened'[t] = 0
           /\ \/ opened'[t] = 0
              \/ opened'[t] + Num(Verifies(r, t)) <= opened[t] + Num(Verifies(acting[c], t))
  PROVE  TempsCounted'
<1> SUFFICES ASSUME NEW t \in Temp PROVE opened'[t] + Cardinality(Verifying(t)') <= Cardinality(Call)
  BY DEF TempsCounted
<1>1. /\ Cardinality(Verifying(t)) \in Nat /\ Cardinality(Verifying(t)') \in Nat
      /\ Cardinality(Verifying(t)') = Cardinality(Verifying(t)) + Num(Verifies(r, t)) - Num(Verifies(acting[c], t))
      /\ Cardinality(Verifying(t)') <= Cardinality(Call) /\ Cardinality(Call) \in Nat
  BY OneCall DEF AccountInv, AccountTypes
<1>2. opened[t] + Cardinality(Verifying(t)) <= Cardinality(Call) /\ opened[t] \in Nat /\ opened'[t] \in Nat
  BY DEF AccountInv, TempsCounted, AccountTypes
<1>3. Num(Verifies(r, t)) \in Nat /\ Num(Verifies(acting[c], t)) \in Nat
  BY DEF Num
<1> QED BY <1>1, <1>2, <1>3

LEMMA MailsKeep ==
  ASSUME AccountInv, NEW c \in Call, NEW r \in Act, acting' = [acting EXCEPT ![c] = r],
         acted' \in [Mail -> Nat], stale'.mail \in Nat,
         \A t \in Mail :
           acted'[t] + Num(Acts(r, t)) + Num(mails[t].used) + stale.mail
             <= acted[t] + Num(Acts(acting[c], t)) + Num(mails'[t].used) + stale'.mail
  PROVE  MailsCounted'
<1> SUFFICES ASSUME NEW t \in Mail
             PROVE  acted'[t] + Cardinality(Acting(t)') <= Num(mails'[t].used) + stale'.mail
  BY DEF MailsCounted, Num
<1>1. /\ Cardinality(Acting(t)) \in Nat /\ Cardinality(Acting(t)') \in Nat
      /\ Cardinality(Acting(t)') = Cardinality(Acting(t)) + Num(Acts(r, t)) - Num(Acts(acting[c], t))
  BY OneCall DEF AccountInv, AccountTypes
<1>2. acted[t] + Cardinality(Acting(t)) <= Num(mails[t].used) + stale.mail
  BY DEF AccountInv, MailsCounted
<1>3. acted[t] \in Nat /\ acted'[t] \in Nat /\ stale.mail \in Nat
  BY DEF AccountInv, AccountTypes
<1>4. /\ Num(Acts(r, t)) \in Nat /\ Num(Acts(acting[c], t)) \in Nat
      /\ Num(mails[t].used) \in Nat /\ Num(mails'[t].used) \in Nat
  BY DEF Num
<1> QED BY <1>1, <1>2, <1>3, <1>4

\* While the history of the saves stays, or only a mail is marked.
LEMMA TearsStay ==
  ASSUME AccountTypes, stale'.torn = stale.torn
  PROVE  Tears \in Nat /\ Tears' = Tears /\ Tears' \in Nat /\ Tears <= Tears'
BY DEF AccountTypes, Tears

\* A step that changes nothing but what the call carries.
LEMMA LookKeeps ==
  ASSUME AccountInv, NEW c \in Call, NEW r \in Act, acting' = [acting EXCEPT ![c] = r], OnlyCall,
         Sound(r, made, temps, begun, Tears),
         \A t \in Temp : Verifies(r, t) => Verifies(acting[c], t) \/ t \in temps,
         \A t \in Mail : Acts(r, t) => Acts(acting[c], t)
  PROVE  AccountInv'
<1>1. UNCHANGED <<user, mails, setups, temps, made, spent, begun, opened, acted, stale>>
  BY DEF OnlyCall, history
<1>2. AccountTypes
  BY DEF AccountInv
<1>3. acting' \in [Call -> Act] /\ CallsAreSound'
  <2>1. /\ made' \in [SetId -> Nat] /\ \A g \in SetId : made[g] <= made'[g]
        /\ begun' \in Nat /\ begun <= begun' /\ \A t \in temps' : t \in temps \/ t > begun
    BY <1>1, <1>2 DEF AccountTypes
  <2>2. Tears' = Tears /\ Tears' \in Nat /\ Tears <= Tears'
    BY <1>1, <1>2, TearsStay
  <2>3. Sound(r, made', temps', begun', Tears')
    BY <1>1, <2>2
  <2> QED BY <2>1, <2>2, <2>3, CallKeeps
<1>4. AccountTypes'
  BY <1>1, <1>2, <1>3 DEF AccountTypes
<1>5. TempsCounted'
  <2>1. opened' \in [Temp -> Nat] /\ \A t \in Temp : opened'[t] = opened[t] /\ opened[t] \in Nat
    BY <1>1, <1>2 DEF AccountTypes
  <2>2. \A t \in Temp : t \in temps' \/ t > begun' => opened'[t] = 0
    BY <1>1 DEF AccountInv, TempsCounted
  <2>3. \A t \in Temp : \/ opened'[t] = 0
                       \/ opened'[t] + Num(Verifies(r, t)) <= opened[t] + Num(Verifies(acting[c], t))
    <3> SUFFICES ASSUME NEW t \in Temp, opened'[t] # 0
                 PROVE  opened'[t] + Num(Verifies(r, t)) <= opened[t] + Num(Verifies(acting[c], t))
      OBVIOUS
    <3>1. Verifies(r, t) => Verifies(acting[c], t)
      BY <2>1 DEF AccountInv, TempsCounted
    <3> QED BY <2>1, <3>1 DEF Num
  <2> QED BY <2>1, <2>2, <2>3, TempsKeep
<1>6. MailsCounted'
  <2>1. acted' \in [Mail -> Nat] /\ stale'.mail \in Nat
    BY <1>1, <1>2 DEF AccountTypes
  <2>2. ASSUME NEW t \in Mail
        PROVE  acted'[t] + Num(Acts(r, t)) + Num(mails[t].used) + stale.mail
                 <= acted[t] + Num(Acts(acting[c], t)) + Num(mails'[t].used) + stale'.mail
    <3>1. acted'[t] = acted[t] /\ acted[t] \in Nat /\ mails'[t] = mails[t] /\ stale'.mail = stale.mail /\ stale.mail \in Nat
      BY <1>1, <1>2 DEF AccountTypes
    <3>2. Num(Acts(r, t)) <= Num(Acts(acting[c], t))
      BY DEF Num
    <3>3. Num(Acts(r, t)) \in Nat /\ Num(Acts(acting[c], t)) \in Nat /\ Num(mails[t].used) \in Nat
      BY DEF Num
    <3> QED BY <3>1, <3>2, <3>3
  <2> QED BY <2>1, <2>2, MailsKeep
<1>7. Whole(user, Tears)' /\ Backed(user, made, Tears)' /\ CodesCounted'
  BY <1>1 DEF AccountInv, CodesCounted, Whole, Backed, Tears
<1> QED BY <1>3, <1>4, <1>5, <1>6, <1>7 DEF AccountInv

LEMMA RestIsSound ==
  /\ AtRest \in Act
  /\ \A m, te, b, n : Sound(AtRest, m, te, b, n)
  /\ \A t : ~Verifies(AtRest, t) /\ ~Acts(AtRest, t)
<1>1. AtRest \in Act
  BY DEF AtRest, Act
<1>2. ASSUME NEW m, NEW te, NEW b, NEW n PROVE Sound(AtRest, m, te, b, n)
  BY DEF Sound, AtRest
<1>3. \A t : ~Verifies(AtRest, t) /\ ~Acts(AtRest, t)
  BY DEF Verifies, Acts, AtRest
<1> QED BY <1>1, <1>2, <1>3

LEMMA AccountInvInit == AccountInit => AccountInv
<1> SUFFICES ASSUME AccountInit PROVE AccountInv
  OBVIOUS
<1>1. PICK verified \in BOOLEAN, mailed \in {1, MaxMails} : AccountStart(verified, mailed)
  BY DEF AccountInit
<1>2. /\ {PerSet, MaxSets, MaxMails, MaxTemps, MaxMade, MaxStale} \subseteq Nat
  BY AccountBounds
<1>3. user \in UserRow /\ user.mfa = 0 /\ user.codes = {}
  BY <1>1, <1>2 DEF AccountStart, UserRow
<1>4. mails \in [Mail -> MailRow]
  BY <1>1 DEF AccountStart, MailRow, NoMail
<1>5. acted \in [Mail -> Nat] /\ \A t \in Mail : acted[t] = Num(mails[t].used)
  BY <1>1 DEF AccountStart, Num
<1>6. AccountTypes
  BY <1>1, <1>2, <1>3, <1>4, <1>5, RestIsSound DEF AccountStart, AccountTypes
<1>7. CallsAreSound
  BY <1>1, RestIsSound DEF AccountStart, CallsAreSound
<1>8. \A t : Verifying(t) = {} /\ Acting(t) = {}
  BY <1>1, RestIsSound DEF AccountStart, Verifying, Acting
<1>9. \A t : Cardinality(Verifying(t)) = 0 /\ Cardinality(Acting(t)) = 0
  BY <1>8, FS_EmptySet
<1>10. TempsCounted
  <2>1. Cardinality(Call) \in Nat
    BY CallsAreFinite, FS_CardinalityType
  <2> QED BY <1>1, <1>9, <2>1 DEF AccountStart, TempsCounted
<1>11. MailsCounted
  <2>1. stale.mail = 0
    BY <1>1 DEF AccountStart
  <2>2. \A t \in Mail : acted[t] \in Nat
    BY <1>5
  <2> QED BY <1>5, <1>9, <2>1, <2>2 DEF MailsCounted
<1>12. CodesCounted
  <2>1. stale.user = 0 /\ (\A k \in Code : spent[k] = 0 /\ made[k[1]] = 0)
    BY <1>1 DEF AccountStart, Code
  <2> QED BY <1>3, <2>1 DEF CodesCounted
<1> QED BY <1>3, <1>6, <1>7, <1>10, <1>11, <1>12 DEF AccountInv, Whole, Backed

-----------------------------------------------------------------------------
(* The calls that only look *)

LEMMA CheckKeeps ==
  ASSUME AccountInv, NEW c \in Call, NEW op \in {"verify", "login", "regenerate", "disable"},
         NEW ref \in Nat, NEW base \in UserRow, NEW copy \in UserRow,
         CheckCode(c, op, ref, base, copy), OnlyCall,
         Whole(copy, Tears), Backed(copy, made, Tears),
         IF op = "regenerate" THEN ref \in SetId /\ copy.codes = CodesOf(ref) ELSE copy.codes \subseteq base.codes,
         op = "disable" => copy.codes = {},
         op = "verify" => acting[c].op = "verify" /\ ref = acting[c].ref /\ ref \in 1..begun
  PROVE  AccountInv'
<1>1. user \in UserRow /\ Whole(user, Tears) /\ Backed(user, made, Tears)
  BY DEF AccountInv, AccountTypes
<1>2. ASSUME NEW k \in user.codes,
             acting' = [acting EXCEPT ![c] =
               [op |-> op, at |-> "spending", base |-> base, copy |-> copy, seen |-> user,
                first |-> [user EXCEPT !.codes = @ \ {k}], found |-> None, code |-> k, ref |-> ref]]
      PROVE  AccountInv'
  <2> DEFINE first == [user EXCEPT !.codes = @ \ {k}]
             r == [op |-> op, at |-> "spending", base |-> base, copy |-> copy, seen |-> user,
                   first |-> first, found |-> None, code |-> k, ref |-> ref]
  <2>1. first \in UserRow /\ first.mfa = user.mfa /\ first.codes = user.codes \ {k} /\ k \in Code
    BY <1>1 DEF UserRow
  <2>2. Whole(first, Tears) /\ Backed(first, made, Tears)
    BY <1>1, <2>1 DEF Whole, Backed
  <2> HIDE DEF first
  <2>3. r \in Act
    BY <1>1, <2>1 DEF Act
  <2>4. Carries(r, made, Tears) /\ Takes(r, made, Tears)
    BY <1>1, <2>1, <2>2 DEF Carries, Takes
  <2>5. /\ r.op = op /\ r.at = "spending" /\ r.ref = ref
        /\ acting' = [acting EXCEPT ![c] = r]
    BY <1>2 DEF first
  <2> HIDE DEF r
  <2>6. Sound(r, made, temps, begun, Tears)
    BY <2>4, <2>5 DEF Sound
  <2>7. /\ \A t \in Temp : Verifies(r, t) => Verifies(acting[c], t) \/ t \in temps
        /\ \A t \in Mail : Acts(r, t) => Acts(acting[c], t)
    BY <2>5 DEF Verifies, Acts
  <2> QED BY <2>3, <2>5, <2>6, <2>7, LookKeeps
<1>3. ASSUME acting' = [acting EXCEPT ![c] = [Saving(Later(op), copy, ref) EXCEPT !.at = Then(op), !.base = base]]
      PROVE  AccountInv'
  <2> DEFINE r == [Saving(Later(op), copy, ref) EXCEPT !.at = Then(op), !.base = base]
  <2>1. Later(op) \in {"verify", "plain", "regenerate"} /\ Then(op) \in {"dropping", "saving"}
    BY DEF Later, Then
  <2>2. /\ r \in Act /\ r.op = Later(op) /\ r.at = Then(op) /\ r.base = base /\ r.copy = copy /\ r.ref = ref
        /\ acting' = [acting EXCEPT ![c] = r]
    BY <1>1, <1>3, <2>1 DEF Saving, AtRest, Act
  <2> HIDE DEF r
  <2>3. Carries(r, made, Tears)
    BY <2>2 DEF Carries, Later
  <2>4. Sound(r, made, temps, begun, Tears)
    BY <2>1, <2>2, <2>3 DEF Sound, Later, Then
  <2>5. /\ \A t \in Temp : Verifies(r, t) => Verifies(acting[c], t) \/ t \in temps
        /\ \A t \in Mail : Acts(r, t) => Acts(acting[c], t)
    BY <2>1, <2>2 DEF Verifies, Acts, Later
  <2> QED BY <2>2, <2>4, <2>5, LookKeeps
<1> QED BY <1>2, <1>3 DEF CheckCode, Becomes

\* A call that will save a copy of the row it has just read.
LEMMA SavingKeeps ==
  ASSUME AccountInv, NEW c \in Call, NEW op \in {"plain", "complete"}, NEW copy \in UserRow, NEW ref \in Nat,
         Becomes(c, Saving(op, copy, ref)), OnlyCall, Whole(copy, Tears),
         IF op = "complete" THEN ref \in SetId /\ copy.mfa = ref /\ copy.codes = CodesOf(ref)
         ELSE Backed(copy, made, Tears) /\ copy.codes \subseteq user.codes
  PROVE  AccountInv'
<1> DEFINE r == Saving(op, copy, ref)
<1>1. user \in UserRow
  BY DEF AccountInv, AccountTypes
<1>2. /\ r \in Act /\ r.op = op /\ r.at = "saving" /\ r.base = user /\ r.copy = copy /\ r.ref = ref
      /\ acting' = [acting EXCEPT ![c] = r]
  BY <1>1 DEF Saving, AtRest, Act, Becomes
<1> HIDE DEF r
<1>3. Carries(r, made, Tears)
  BY <1>1, <1>2 DEF Carries
<1>4. Sound(r, made, temps, begun, Tears)
  BY <1>2, <1>3 DEF Sound
<1>5. \A t : ~Verifies(r, t) /\ ~Acts(r, t)
  BY <1>2 DEF Verifies, Acts
<1> QED BY <1>2, <1>4, <1>5, LookKeeps

LEMMA RefuseKeeps ==
  ASSUME AccountInv, NEW c \in Call, Refuse(c)
  PROVE  AccountInv'
BY LookKeeps, RestIsSound DEF Refuse, Becomes

LEMMA CompareKeeps ==
  ASSUME AccountInv, NEW c \in Call, CompareUser(c)
  PROVE  AccountInv'
<1> DEFINE a == acting[c]
           r == [a EXCEPT !.found = user]
<1>1. a \in Act /\ user \in UserRow /\ Sound(a, made, temps, begun, Tears)
  BY DEF AccountInv, AccountTypes, CallsAreSound
<1>2. acting' = [acting EXCEPT ![c] = r] /\ OnlyCall
  BY DEF CompareUser, Becomes
<1>3. r \in Act
  BY <1>1 DEF Act
<1>4. /\ r.op = a.op /\ r.at = a.at /\ r.base = a.base /\ r.copy = a.copy /\ r.seen = a.seen
      /\ r.first = a.first /\ r.code = a.code /\ r.ref = a.ref
  BY <1>1 DEF Act
<1> HIDE DEF r
<1>5. (Carries(r, made, Tears) <=> Carries(a, made, Tears)) /\ (Takes(r, made, Tears) <=> Takes(a, made, Tears))
  BY <1>4 DEF Carries, Takes
<1>6. Sound(r, made, temps, begun, Tears)
  BY <1>1, <1>4, <1>5 DEF Sound
<1>7. \A t : (Verifies(r, t) => Verifies(a, t)) /\ (Acts(r, t) => Acts(a, t))
  BY <1>4 DEF Verifies, Acts
<1> QED BY <1>2, <1>3, <1>6, <1>7, LookKeeps

LEMMA PlainKeeps ==
  ASSUME AccountInv, NEW c \in Call,
         UpdateCurrentUser(c) \/ (\E p, q \in Password : ChangePassword(c, p, q))
           \/ (Becomes(c, Saving("plain", user, 0)) /\ OnlyCall)
  PROVE  AccountInv'
<1>1. user \in UserRow /\ Whole(user, Tears) /\ Backed(user, made, Tears)
  BY DEF AccountInv, AccountTypes
<1>2. CASE Becomes(c, Saving("plain", user, 0)) /\ OnlyCall
  BY <1>1, <1>2, SavingKeeps
<1>3. ASSUME NEW p \in Password, NEW q \in Password, ChangePassword(c, p, q) PROVE AccountInv'
  <2> DEFINE copy == [user EXCEPT !.pw = q]
  <2>1. copy \in UserRow /\ copy.mfa = user.mfa /\ copy.codes = user.codes
    BY <1>1 DEF UserRow
  <2>2. Becomes(c, Saving("plain", copy, 0)) /\ OnlyCall
    BY <1>3 DEF ChangePassword
  <2> HIDE DEF copy
  <2>3. Whole(copy, Tears) /\ Backed(copy, made, Tears)
    BY <1>1, <2>1 DEF Whole, Backed
  <2> QED BY <2>1, <2>2, <2>3, SavingKeeps
<1> QED BY <1>2, <1>3 DEF UpdateCurrentUser

LEMMA CompleteKeeps ==
  ASSUME AccountInv, NEW c \in Call, NEW g \in SetId, VerifyAndCompleteSetup(c, g)
  PROVE  AccountInv'
<1> DEFINE copy == [user EXCEPT !.mfa = g, !.codes = CodesOf(g)]
<1>1. user \in UserRow
  BY DEF AccountInv, AccountTypes
<1>2. g \in Nat /\ g # 0 /\ g \in 0..MaxSets /\ CodesOf(g) \in SUBSET Code
  BY AccountBounds DEF SetId, CodesOf, Code
<1>3. copy \in UserRow /\ copy.mfa = g /\ copy.codes = CodesOf(g)
  BY <1>1, <1>2 DEF UserRow
<1>4. Becomes(c, Saving("complete", copy, g)) /\ OnlyCall
  BY DEF VerifyAndCompleteSetup
<1> HIDE DEF copy
<1>5. Whole(copy, Tears)
  BY <1>2, <1>3 DEF Whole, CodesOf
<1> QED BY <1>2, <1>3, <1>4, <1>5, SavingKeeps

LEMMA BeginLoginKeeps ==
  ASSUME AccountInv, NEW c \in Call, NEW t \in Temp, VerifyMfaAndLogin(c, t)
  PROVE  AccountInv'
<1> DEFINE r == [AtRest EXCEPT !.op = "verify", !.at = "checking", !.ref = t]
<1>1. t \in temps /\ t \in 1..begun /\ t \in Nat /\ acting' = [acting EXCEPT ![c] = r] /\ OnlyCall
  BY AccountBounds DEF VerifyMfaAndLogin, AccountInv, AccountTypes, Becomes, Temp
<1>2. r \in Act /\ r.op = "verify" /\ r.at = "checking" /\ r.ref = t
  BY <1>1, RestIsSound DEF Act
<1> HIDE DEF r
<1>3. Sound(r, made, temps, begun, Tears)
  BY <1>1, <1>2 DEF Sound
<1>4. (\A u \in Temp : Verifies(r, u) => u \in temps) /\ (\A u \in Mail : ~Acts(r, u))
  BY <1>1, <1>2 DEF Verifies, Acts
<1> QED BY <1>1, <1>2, <1>3, <1>4, LookKeeps

LEMMA CheckLoginKeeps ==
  ASSUME AccountInv, NEW c \in Call, CheckLogin(c) \/ LoginWithMfa(c)
  PROVE  AccountInv'
<1>1. user \in UserRow /\ Whole(user, Tears) /\ Backed(user, made, Tears) /\ user.codes \subseteq user.codes
  BY DEF AccountInv, AccountTypes
<1>2. CASE CheckLogin(c)
  <2>1. acting[c].op = "verify" /\ acting[c].ref \in 1..begun /\ acting[c].ref \in Nat
    BY <1>2 DEF CheckLogin, AccountInv, CallsAreSound, Sound, AccountTypes, Act
  <2> QED BY <1>1, <1>2, <2>1, CheckKeeps DEF CheckLogin
<1>3. CASE LoginWithMfa(c)
  BY <1>1, <1>3, CheckKeeps DEF LoginWithMfa
<1> QED BY <1>2, <1>3

LEMMA ReadForChangeKeeps ==
  ASSUME AccountInv, NEW c \in Call, NEW op \in {"regenerate", "disable"}, ReadForChange(c, op)
  PROVE  AccountInv'
<1> DEFINE r == [AtRest EXCEPT !.op = op, !.at = "checking", !.base = user]
<1>1. user \in UserRow /\ Whole(user, Tears) /\ Backed(user, made, Tears) /\ user.mfa # 0
  BY DEF AccountInv, AccountTypes, ReadForChange
<1>2. acting' = [acting EXCEPT ![c] = r] /\ OnlyCall
  BY DEF ReadForChange, Becomes
<1>3. r \in Act /\ r.op = op /\ r.at = "checking" /\ r.base = user
  BY <1>1, RestIsSound DEF Act, AtRest
<1> HIDE DEF r
<1>4. Sound(r, made, temps, begun, Tears)
  BY <1>1, <1>3 DEF Sound
<1>5. \A t : ~Verifies(r, t) /\ ~Acts(r, t)
  BY <1>3 DEF Verifies, Acts
<1> QED BY <1>2, <1>3, <1>4, <1>5, LookKeeps

LEMMA CheckRegenerateKeeps ==
  ASSUME AccountInv, NEW c \in Call, CheckRegenerate(c)
  PROVE  AccountInv'
<1>1. PICK g \in NewSets :
        CheckCode(c, "regenerate", g, acting[c].base, [acting[c].base EXCEPT !.codes = CodesOf(g)])
  BY DEF CheckRegenerate
<1> DEFINE base == acting[c].base
           copy == [base EXCEPT !.codes = CodesOf(g)]
<1>2. base \in UserRow /\ Whole(base, Tears) /\ Backed(base, made, Tears) /\ base.mfa # 0 /\ OnlyCall
  BY DEF CheckRegenerate, Is, AccountInv, CallsAreSound, Sound
<1>3. g \in SetId /\ g \in Nat /\ CodesOf(g) \in SUBSET Code
  BY AccountBounds DEF NewSets, FreeSets, SetId, CodesOf, Code
<1>4. copy \in UserRow /\ copy.mfa = base.mfa /\ copy.codes = CodesOf(g)
  BY <1>2, <1>3 DEF UserRow
<1>5. CheckCode(c, "regenerate", g, base, copy)
  BY <1>1
<1> HIDE DEF base, copy
<1>6. Whole(copy, Tears) /\ Backed(copy, made, Tears)
  BY <1>2, <1>4 DEF Whole, Backed, CodesOf
<1> QED BY <1>2, <1>3, <1>4, <1>5, <1>6, CheckKeeps

LEMMA CheckDisableKeeps ==
  ASSUME AccountInv, NEW c \in Call, CheckDisable(c)
  PROVE  AccountInv'
<1> DEFINE base == acting[c].base
           copy == [base EXCEPT !.mfa = 0, !.codes = {}]
<1>1. base \in UserRow /\ OnlyCall
  BY DEF CheckDisable, Is, AccountInv, CallsAreSound, Sound
<1>2. copy \in UserRow /\ copy.mfa = 0 /\ copy.codes = {}
  <2>1. 0 \in 0..MaxSets /\ {} \in SUBSET Code
    BY AccountBounds
  <2> QED BY <1>1, <2>1 DEF UserRow
<1>3. CheckCode(c, "disable", 0, base, copy)
  BY DEF CheckDisable
<1> HIDE DEF base, copy
<1>4. Whole(copy, Tears) /\ Backed(copy, made, Tears) /\ copy.codes \subseteq base.codes
  BY <1>2 DEF Whole, Backed
<1> QED BY <1>1, <1>2, <1>3, <1>4, CheckKeeps

LEMMA VerifyEmailKeeps ==
  ASSUME AccountInv, NEW c \in Call, NEW t \in Mail, VerifyEmail(c, t)
  PROVE  AccountInv'
<1> DEFINE r == [AtRest EXCEPT !.op = "verifyEmail", !.at = "marking", !.seen = mails[t], !.ref = t]
<1>1. mails[t] \in MailRow /\ mails[t].used = FALSE /\ t \in Nat
  BY AccountBounds DEF AccountInv, AccountTypes, VerifyEmail, Open, Mail, MailRow
<1>2. acting' = [acting EXCEPT ![c] = r] /\ OnlyCall
  BY DEF VerifyEmail, Becomes
<1>3. r \in Act /\ r.op = "verifyEmail" /\ r.at = "marking" /\ r.seen = mails[t] /\ r.ref = t
  BY <1>1, RestIsSound DEF Act
<1> HIDE DEF r
<1>4. Sound(r, made, temps, begun, Tears)
  BY <1>1, <1>3 DEF Sound
<1>5. \A u : ~Verifies(r, u) /\ ~Acts(r, u)
  BY <1>3 DEF Verifies, Acts
<1> QED BY <1>2, <1>3, <1>4, <1>5, LookKeeps

LEMMA ResetPasswordKeeps ==
  ASSUME AccountInv, NEW c \in Call, NEW t \in Mail, NEW p \in Password, ResetPassword(c, t, p)
  PROVE  AccountInv'
<1> DEFINE copy == [user EXCEPT !.pw = p, !.verified = TRUE]
           r == [Saving("reset", copy, t) EXCEPT !.at = "marking", !.seen = mails[t]]
<1>1. mails[t] \in MailRow /\ mails[t].used = FALSE /\ t \in Nat
  BY AccountBounds DEF AccountInv, AccountTypes, ResetPassword, Open, Mail, MailRow
<1>2. user \in UserRow /\ Whole(user, Tears) /\ Backed(user, made, Tears)
  BY DEF AccountInv, AccountTypes
<1>3. copy \in UserRow /\ copy.mfa = user.mfa /\ copy.codes = user.codes
  BY <1>2 DEF UserRow
<1>4. acting' = [acting EXCEPT ![c] = r] /\ OnlyCall
  BY DEF ResetPassword, Becomes
<1> HIDE DEF copy
<1>5. /\ r \in Act /\ r.op = "reset" /\ r.at = "marking" /\ r.seen = mails[t] /\ r.ref = t
      /\ r.base = user /\ r.copy = copy
  BY <1>1, <1>2, <1>3 DEF Saving, AtRest, Act
<1> HIDE DEF r
<1>6. Carries(r, made, Tears)
  BY <1>2, <1>3, <1>5 DEF Carries, Whole, Backed
<1>7. Sound(r, made, temps, begun, Tears)
  BY <1>1, <1>5, <1>6 DEF Sound
<1>8. \A u : ~Verifies(r, u) /\ ~Acts(r, u)
  BY <1>5 DEF Verifies, Acts
<1> QED BY <1>4, <1>5, <1>7, <1>8, LookKeeps

LEMMA ReadUserKeeps ==
  ASSUME AccountInv, NEW c \in Call, ReadUser(c)
  PROVE  AccountInv'
<1> DEFINE copy == [user EXCEPT !.verified = TRUE]
           t == acting[c].ref
           r == Saving("verifyEmail", copy, t)
<1>1. acting[c].op = "verifyEmail" /\ acting[c].at = "reading" /\ t \in Mail /\ t \in Nat
  BY AccountBounds DEF ReadUser, Is, AccountInv, CallsAreSound, Sound, Mail
<1>2. user \in UserRow /\ Whole(user, Tears) /\ Backed(user, made, Tears)
  BY DEF AccountInv, AccountTypes
<1>3. copy \in UserRow /\ copy.mfa = user.mfa /\ copy.codes = user.codes
  BY <1>2 DEF UserRow
<1>4. acting' = [acting EXCEPT ![c] = r] /\ OnlyCall
  BY DEF ReadUser, Becomes
<1> HIDE DEF copy
<1>5. /\ r \in Act /\ r.op = "verifyEmail" /\ r.at = "saving" /\ r.ref = t
      /\ r.base = user /\ r.copy = copy
  BY <1>1, <1>2, <1>3 DEF Saving, AtRest, Act
<1> HIDE DEF r
<1>6. Carries(r, made, Tears)
  BY <1>2, <1>3, <1>5 DEF Carries, Whole, Backed
<1>7. Sound(r, made, temps, begun, Tears)
  BY <1>1, <1>5, <1>6 DEF Sound
<1>8. \A u : ~Verifies(r, u) /\ (Acts(r, u) => Acts(acting[c], u))
  BY <1>1, <1>5 DEF Verifies, Acts
<1> QED BY <1>4, <1>5, <1>7, <1>8, LookKeeps

-----------------------------------------------------------------------------
(* The calls that write *)

\* A step that leaves the user and what was handed out alone.
LEMMA SideKeeps ==
  ASSUME AccountInv, NEW c \in Call, NEW r \in Act, acting' = [acting EXCEPT ![c] = r],
         UNCHANGED <<user, made, spent, opened, acted, stale>>,
         begun' \in begun..MaxTemps, temps' \subseteq 1..begun', \A t \in temps' : t \in temps \/ t > begun,
         setups' \subseteq SetId, mails' \in [Mail -> MailRow], \A t \in Mail : mails'[t].used = mails[t].used,
         Sound(r, made, temps', begun', Tears),
         \A t : (Verifies(r, t) => Verifies(acting[c], t)) /\ (Acts(r, t) => Acts(acting[c], t))
  PROVE  AccountInv'
<1>1. AccountTypes /\ MaxTemps \in Nat
  BY AccountBounds DEF AccountInv
<1>2. begun' \in 0..MaxTemps /\ begun' \in Nat /\ begun <= begun' /\ begun \in Nat
  BY <1>1 DEF AccountTypes
<1>3. acting' \in [Call -> Act] /\ CallsAreSound'
  <2>1. Tears' = Tears /\ Tears' \in Nat /\ Tears <= Tears'
    BY <1>1, TearsStay
  <2>2. /\ made' \in [SetId -> Nat] /\ \A g \in SetId : made[g] <= made'[g]
        /\ Sound(r, made', temps', begun', Tears')
    BY <1>1, <2>1 DEF AccountTypes
  <2> QED BY <1>2, <2>1, <2>2, CallKeeps
<1>4. AccountTypes'
  BY <1>1, <1>2, <1>3 DEF AccountTypes
<1>5. TempsCounted'
  <2>1. opened' \in [Temp -> Nat] /\ \A t \in Temp : opened'[t] = opened[t] /\ opened[t] \in Nat
    BY <1>1 DEF AccountTypes
  <2>2. ASSUME NEW t \in Temp, t \in temps' \/ t > begun' PROVE opened'[t] = 0
    <3>1. t \in Nat
      BY <1>1 DEF Temp
    <3>2. t \in temps \/ t > begun
      BY <1>2, <2>2, <3>1
    <3> QED BY <2>1, <3>2 DEF AccountInv, TempsCounted
  <2>3. ASSUME NEW t \in Temp
        PROVE  opened'[t] + Num(Verifies(r, t)) <= opened[t] + Num(Verifies(acting[c], t))
    BY <2>1 DEF Num
  <2> QED BY <2>1, <2>2, <2>3, TempsKeep
<1>6. MailsCounted'
  <2>1. acted' \in [Mail -> Nat] /\ stale'.mail \in Nat
    BY <1>1 DEF AccountTypes
  <2>2. ASSUME NEW t \in Mail
        PROVE  acted'[t] + Num(Acts(r, t)) + Num(mails[t].used) + stale.mail
                 <= acted[t] + Num(Acts(acting[c], t)) + Num(mails'[t].used) + stale'.mail
    <3>1. /\ acted'[t] = acted[t] /\ acted[t] \in Nat /\ stale'.mail = stale.mail /\ stale.mail \in Nat
          /\ Num(mails'[t].used) = Num(mails[t].used)
      BY <1>1 DEF AccountTypes
    <3>2. Num(Acts(r, t)) <= Num(Acts(acting[c], t))
      BY DEF Num
    <3>3. Num(Acts(r, t)) \in Nat /\ Num(Acts(acting[c], t)) \in Nat /\ Num(mails[t].used) \in Nat
      BY DEF Num
    <3> QED BY <3>1, <3>2, <3>3
  <2> QED BY <2>1, <2>2, MailsKeep
<1>7. Whole(user, Tears)' /\ Backed(user, made, Tears)' /\ CodesCounted'
  BY DEF AccountInv, CodesCounted, Whole, Backed, Tears
<1> QED BY <1>3, <1>4, <1>5, <1>6, <1>7 DEF AccountInv

\* What is unchanged when nothing is.
LEMMA SideTypes ==
  ASSUME AccountInv
  PROVE  /\ begun \in begun..MaxTemps /\ temps \subseteq 1..begun /\ (\A t \in temps : t \in temps \/ t > begun)
         /\ setups \subseteq SetId /\ mails \in [Mail -> MailRow]
BY AccountBounds DEF AccountInv, AccountTypes

LEMMA LoginKeeps ==
  ASSUME AccountInv, NEW c \in Call, NEW p \in Password, Login(c, p)
  PROVE  AccountInv'
<1>1. CASE Becomes(c, Saving("plain", user, 0)) /\ OnlyCall
  BY <1>1, PlainKeeps
<1>2. CASE /\ user.mfa # 0 /\ begun < MaxTemps
           /\ begun' = begun + 1
           /\ temps' = temps \cup {begun + 1}
           /\ UNCHANGED <<user, mails, setups, acting, made, spent, opened, acted, stale>>
  <2> DEFINE r == acting[c]
  <2>1. r \in Act /\ Sound(r, made, temps, begun, Tears) /\ acting \in [Call -> Act] /\ begun \in 0..MaxTemps /\ MaxTemps \in Nat
    BY AccountBounds DEF AccountInv, AccountTypes, CallsAreSound
  <2>2. acting' = [acting EXCEPT ![c] = r]
    BY <1>2, <2>1
  <2>3. /\ begun' \in begun..MaxTemps /\ begun' \in Nat /\ begun \in Nat /\ begun <= begun'
        /\ temps' \subseteq 1..begun' /\ \A t \in temps' : t \in temps \/ t > begun
    BY <1>2, <2>1, SideTypes
  <2>4. Sound(r, made, temps', begun', Tears)
    <3>1. made \in [SetId -> Nat] /\ (\A g \in SetId : made[g] <= made[g]) /\ Tears \in Nat /\ Tears <= Tears
      BY DEF AccountInv, AccountTypes, Tears
    <3> QED BY <2>1, <2>3, <3>1, SoundStays
  <2> HIDE DEF r
  <2>5. /\ setups' \subseteq SetId /\ mails' \in [Mail -> MailRow] /\ \A t \in Mail : mails'[t].used = mails[t].used
    BY <1>2, SideTypes
  <2>6. \A t : (Verifies(r, t) => Verifies(acting[c], t)) /\ (Acts(r, t) => Acts(acting[c], t))
    BY DEF r
  <2> QED BY <1>2, <2>1, <2>2, <2>3, <2>4, <2>5, <2>6, SideKeeps
<1> QED BY <1>1, <1>2 DEF Login

\* The call that takes the step carries what it carried, and only mails or set-ups change.
LEMMA StayKeeps ==
  ASSUME AccountInv, NEW c \in Call, UNCHANGED <<user, temps, acting, made, spent, begun, opened, acted, stale>>,
         setups' \subseteq SetId, mails' \in [Mail -> MailRow], \A t \in Mail : mails'[t].used = mails[t].used
  PROVE  AccountInv'
<1> DEFINE r == acting[c]
<1>1. r \in Act /\ Sound(r, made, temps, begun, Tears) /\ acting \in [Call -> Act]
  BY DEF AccountInv, AccountTypes, CallsAreSound
<1>2. acting' = [acting EXCEPT ![c] = r]
  BY <1>1
<1>3. /\ begun' \in begun..MaxTemps /\ temps' \subseteq 1..begun' /\ \A t \in temps' : t \in temps \/ t > begun
  BY SideTypes
<1>4. Sound(r, made, temps', begun', Tears)
  BY <1>1
<1>5. \A t : (Verifies(r, t) => Verifies(acting[c], t)) /\ (Acts(r, t) => Acts(acting[c], t))
  OBVIOUS
<1> HIDE DEF r
<1> QED BY <1>1, <1>2, <1>3, <1>4, <1>5, SideKeeps

\* The call ends, and only mails, set-ups or temporary tokens change.
LEMMA DoneKeeps ==
  ASSUME AccountInv, NEW c \in Call, Becomes(c, AtRest),
         UNCHANGED <<user, temps, made, spent, begun, opened, acted, stale>>,
         setups' \subseteq SetId, mails' \in [Mail -> MailRow], \A t \in Mail : mails'[t].used = mails[t].used
  PROVE  AccountInv'
<1>1. /\ begun' \in begun..MaxTemps /\ temps' \subseteq 1..begun' /\ \A t \in temps' : t \in temps \/ t > begun
  BY SideTypes
<1> QED BY <1>1, RestIsSound, SideKeeps DEF Becomes

LEMMA DropTempKeeps ==
  ASSUME AccountInv, NEW c \in Call, DropTemp(c)
  PROVE  AccountInv'
<1> DEFINE a == acting[c]
           r == [a EXCEPT !.at = "saving"]
<1>1. a \in Act /\ a.op = "verify" /\ a.at = "dropping" /\ Carries(a, made, Tears) /\ a.ref \in 1..begun
  BY DEF DropTemp, Is, AccountInv, AccountTypes, CallsAreSound, Sound
<1>2. /\ acting' = [acting EXCEPT ![c] = r] /\ temps' = temps \ {a.ref}
      /\ UNCHANGED <<user, mails, setups, made, spent, begun, opened, acted, stale>>
  BY DEF DropTemp, Becomes, history
<1>3. /\ r \in Act /\ r.op = "verify" /\ r.at = "saving" /\ r.ref = a.ref
      /\ r.base = a.base /\ r.copy = a.copy
  BY <1>1 DEF Act
<1> HIDE DEF r
<1>4. Carries(r, made, Tears)
  BY <1>1, <1>3 DEF Carries
<1>5. Sound(r, made, temps', begun', Tears)
  BY <1>1, <1>2, <1>3, <1>4 DEF Sound
<1>6. \A t : (Verifies(r, t) => Verifies(a, t)) /\ (Acts(r, t) => Acts(a, t))
  BY <1>1, <1>3 DEF Verifies, Acts
<1>7. /\ begun' \in begun..MaxTemps /\ temps' \subseteq 1..begun' /\ (\A t \in temps' : t \in temps \/ t > begun)
      /\ setups' \subseteq SetId /\ mails' \in [Mail -> MailRow] /\ \A t \in Mail : mails'[t].used = mails[t].used
  BY <1>2, SideTypes
<1> QED BY <1>2, <1>3, <1>5, <1>6, <1>7, SideKeeps

LEMMA SetupKeeps ==
  ASSUME AccountInv, NEW c \in Call, InitializeSetup(c) \/ DropSetup(c)
  PROVE  AccountInv'
<1>1. CASE InitializeSetup(c)
  <2>1. setups' \subseteq SetId /\ UNCHANGED <<user, mails, temps, acting, made, spent, begun, opened, acted, stale>>
    BY <1>1, SideTypes DEF InitializeSetup, NewSets, FreeSets, history
  <2> QED BY <2>1, SideTypes, StayKeeps
<1>2. CASE DropSetup(c)
  <2>1. setups' \subseteq SetId /\ UNCHANGED <<user, mails, temps, made, spent, begun, opened, acted, stale>>
    BY <1>2, SideTypes DEF DropSetup, history
  <2> QED BY <1>2, <2>1, SideTypes, DoneKeeps DEF DropSetup
<1> QED BY <1>1, <1>2

LEMMA TokenMails ==
  ASSUME AccountInv, NEW c \in Call, NEW type \in {"registration", "password_reset"}, MailToken(c, type)
  PROVE  /\ mails' \in [Mail -> MailRow] /\ \A t \in Mail : mails'[t].used = mails[t].used
         /\ UNCHANGED <<user, setups, temps, made, spent, begun, opened, acted, stale>>
<1>1. PICK u \in Unmailed : mails' = [mails EXCEPT ![u] = [type |-> type, used |-> FALSE]]
  BY DEF MailToken
<1>2. u \in Mail /\ mails[u] = NoMail /\ mails \in [Mail -> MailRow]
  BY DEF Unmailed, AccountInv, AccountTypes
<1>3. [type |-> type, used |-> FALSE] \in MailRow
  BY DEF MailRow
<1>4. mails' \in [Mail -> MailRow]
  BY <1>1, <1>2, <1>3
<1>5. ASSUME NEW t \in Mail PROVE mails'[t].used = mails[t].used
  <2>1. CASE t = u
    <3>1. mails'[t] = [type |-> type, used |-> FALSE]
      BY <1>1, <1>2, <2>1
    <3>2. mails'[t].used = FALSE /\ mails[t].used = FALSE
      BY <1>2, <2>1, <3>1 DEF NoMail
    <3> QED BY <3>2
  <2>2. CASE t # u
    <3>1. mails'[t] = mails[t]
      BY <1>1, <1>2, <2>2
    <3> QED BY <3>1
  <2> QED BY <2>1, <2>2
<1> QED BY <1>4, <1>5 DEF MailToken, history

LEMMA MailingKeeps ==
  ASSUME AccountInv, NEW c \in Call, ForgotPassword(c) \/ MailAgain(c)
  PROVE  AccountInv'
<1>1. CASE ForgotPassword(c)
  <2>1. MailToken(c, "password_reset") /\ UNCHANGED acting
    BY <1>1 DEF ForgotPassword
  <2> QED BY <2>1, TokenMails, SideTypes, StayKeeps
<1>2. CASE MailAgain(c)
  <2>1. MailToken(c, "registration") /\ Becomes(c, AtRest)
    BY <1>2 DEF MailAgain
  <2> QED BY <2>1, TokenMails, SideTypes, DoneKeeps
<1> QED BY <1>1, <1>2

LEMMA ResendKeeps ==
  ASSUME AccountInv, NEW c \in Call, ResendVerificationEmail(c)
  PROVE  AccountInv'
<1> DEFINE r == [AtRest EXCEPT !.op = "resend", !.at = "mailing"]
<1>1. /\ acting' = [acting EXCEPT ![c] = r]
      /\ UNCHANGED <<user, setups, temps, made, spent, begun, opened, acted, stale>>
      /\ mails' = [t \in Mail |-> IF mails[t] = [type |-> "registration", used |-> FALSE]
                                 THEN [mails[t] EXCEPT !.type = "deleted"] ELSE mails[t]]
  BY DEF ResendVerificationEmail, Becomes, history
<1>2. r \in Act /\ r.op = "resend" /\ r.at = "mailing"
  BY RestIsSound DEF Act, AtRest
<1> HIDE DEF r
<1>3. Sound(r, made, temps', begun', Tears) /\ \A t : ~Verifies(r, t) /\ ~Acts(r, t)
  BY <1>2 DEF Sound, Verifies, Acts
<1>4. \A row \in MailRow : LET gone == [row EXCEPT !.type = "deleted"] IN gone \in MailRow /\ gone.used = row.used
  BY DEF MailRow
<1>5. \A t \in Mail : mails'[t] \in MailRow /\ mails'[t].used = mails[t].used
  <2>1. \A t \in Mail : mails[t] \in MailRow
    BY DEF AccountInv, AccountTypes
  <2>2. \A t \in Mail : mails'[t] \in {mails[t], [mails[t] EXCEPT !.type = "deleted"]}
    BY <1>1
  <2> QED BY <1>4, <2>1, <2>2
<1>6. mails' \in [Mail -> MailRow]
  <2>1. mails' = [t \in Mail |-> mails'[t]]
    BY <1>1
  <2> QED BY <1>5, <2>1
<1>7. /\ begun' \in begun..MaxTemps /\ temps' \subseteq 1..begun' /\ (\A t \in temps' : t \in temps \/ t > begun)
      /\ setups' \subseteq SetId
  BY <1>1, SideTypes
<1> QED BY <1>1, <1>2, <1>3, <1>5, <1>6, <1>7, SideKeeps

LEMMA MarkKeeps ==
  ASSUME AccountInv, NEW c \in Call, Mark(c)
  PROVE  AccountInv'
<1> DEFINE a == acting[c]
           u == a.ref
           r == IF a.op = "verifyEmail" THEN [a EXCEPT !.at = "reading", !.seen = None]
                ELSE IF a.copy.pw = a.base.pw THEN AtRest
                ELSE [a EXCEPT !.at = "saving", !.seen = None]
           lost == Lost(mails[u], a.seen)
<1>1. /\ AccountTypes /\ a \in Act /\ a.at = "marking" /\ a.op \in {"verifyEmail", "reset"} /\ u \in Mail
      /\ a.seen \in MailRow /\ a.seen.used = FALSE
  BY DEF Mark, Is, AccountInv, AccountTypes, CallsAreSound, Sound
<1>2. a.op = "reset" => Carries(a, made, Tears)
  BY <1>1 DEF AccountInv, CallsAreSound, Sound
<1>3. /\ acting' = [acting EXCEPT ![c] = r]
      /\ mails' = [mails EXCEPT ![u] = [a.seen EXCEPT !.used = TRUE]]
      /\ stale' = [stale EXCEPT !.mail = @ + lost]
      /\ UNCHANGED <<user, setups, temps, made, spent, begun, opened, acted>>
  BY DEF Mark, Becomes
<1>4. r \in Act /\ Sound(r, made, temps, begun, Tears) /\ \A t : ~Verifies(r, t) /\ (Acts(r, t) => t = u)
  <2>1. CASE r = AtRest
    BY <2>1, RestIsSound
  <2>2. CASE a.op = "verifyEmail"
    <3> DEFINE q == [a EXCEPT !.at = "reading", !.seen = None]
    <3>1. q \in Act /\ q.op = "verifyEmail" /\ q.at = "reading" /\ q.ref = u
      BY <1>1, <2>2 DEF Act
    <3> HIDE DEF q
    <3>2. Sound(q, made, temps, begun, Tears) /\ \A t : ~Verifies(q, t) /\ (Acts(q, t) => t = u)
      BY <1>1, <3>1 DEF Sound, Verifies, Acts
    <3>3. r = q
      BY <2>2 DEF q
    <3> QED BY <3>1, <3>2, <3>3
  <2>3. CASE a.op = "reset" /\ r # AtRest
    <3> DEFINE q == [a EXCEPT !.at = "saving", !.seen = None]
    <3>1. q \in Act /\ q.op = "reset" /\ q.at = "saving" /\ q.ref = u /\ q.base = a.base /\ q.copy = a.copy
      BY <1>1, <2>3 DEF Act
    <3> HIDE DEF q
    <3>2. Carries(q, made, Tears)
      BY <1>2, <2>3, <3>1 DEF Carries
    <3>3. Sound(q, made, temps, begun, Tears) /\ \A t : ~Verifies(q, t) /\ (Acts(q, t) => t = u)
      BY <1>1, <3>1, <3>2 DEF Sound, Verifies, Acts
    <3>4. r = q
      BY <2>3 DEF q
    <3> QED BY <3>1, <3>3, <3>4
  <2> QED BY <1>1, <2>1, <2>2, <2>3
<1> HIDE DEF r
<1>5. /\ lost \in {0, 1} /\ stale.mail \in Nat /\ stale.user \in Nat
      /\ mails[u] # a.seen => lost = 1
  BY <1>1 DEF Lost, AccountTypes
<1> HIDE DEF lost
<1>6. stale'.mail = stale.mail + lost /\ stale'.user = stale.user /\ stale'.torn = stale.torn /\ stale' \in [user : Nat, mail : Nat, torn : Nat]
  BY <1>1, <1>3, <1>5 DEF AccountTypes
<1>7. /\ mails' \in [Mail -> MailRow] /\ mails'[u].used = TRUE
      /\ \A t \in Mail : t # u => mails'[t] = mails[t]
  <2>1. [a.seen EXCEPT !.used = TRUE] \in MailRow /\ [a.seen EXCEPT !.used = TRUE].used = TRUE
    BY <1>1 DEF MailRow
  <2> QED BY <1>1, <1>3, <2>1 DEF AccountTypes
<1>8. acting' \in [Call -> Act] /\ CallsAreSound'
  <2>1. /\ made' \in [SetId -> Nat] /\ (\A g \in SetId : made[g] <= made'[g])
        /\ begun' \in Nat /\ begun <= begun' /\ \A t \in temps' : t \in temps \/ t > begun
    BY <1>1, <1>3 DEF AccountTypes
  <2>2. Tears' = Tears /\ Tears' \in Nat /\ Tears <= Tears'
    BY <1>1, <1>6, TearsStay
  <2>3. Sound(r, made', temps', begun', Tears')
    BY <1>3, <1>4, <2>2
  <2> QED BY <1>3, <1>4, <2>1, <2>2, <2>3, CallKeeps
<1>9. AccountTypes'
  BY <1>1, <1>3, <1>6, <1>7, <1>8 DEF AccountTypes
<1>10. TempsCounted'
  <2>1. opened' \in [Temp -> Nat] /\ \A t \in Temp : opened'[t] = opened[t] /\ opened[t] \in Nat
    BY <1>1, <1>3 DEF AccountTypes
  <2>2. \A t \in Temp : t \in temps' \/ t > begun' => opened'[t] = 0
    BY <1>3 DEF AccountInv, TempsCounted
  <2>3. ASSUME NEW t \in Temp
        PROVE  opened'[t] + Num(Verifies(r, t)) <= opened[t] + Num(Verifies(acting[c], t))
    BY <1>4, <2>1 DEF Num
  <2> QED BY <1>3, <1>4, <2>1, <2>2, <2>3, TempsKeep
<1>11. MailsCounted'
  <2>1. acted' \in [Mail -> Nat] /\ stale'.mail \in Nat
    BY <1>1, <1>3, <1>6 DEF AccountTypes
  <2>2. ASSUME NEW t \in Mail
        PROVE  acted'[t] + Num(Acts(r, t)) + Num(mails[t].used) + stale.mail
                 <= acted[t] + Num(Acts(acting[c], t)) + Num(mails'[t].used) + stale'.mail
    <3>1. acted'[t] = acted[t] /\ acted[t] \in Nat
      BY <1>1, <1>3 DEF AccountTypes
    <3>2. Num(Acts(r, t)) \in 0..1 /\ Num(Acts(acting[c], t)) \in 0..1 /\ Num(mails[t].used) \in 0..1
      BY DEF Num
    <3>3. CASE t = u
      <4>1. Num(mails'[t].used) = 1
        BY <1>7, <3>3 DEF Num
      <4>2. Num(mails[t].used) = 0 \/ lost = 1
        BY <1>1, <1>5, <3>3 DEF Num
      <4> QED BY <1>5, <1>6, <3>1, <3>2, <4>1, <4>2
    <3>4. CASE t # u
      <4>1. Num(mails'[t].used) = Num(mails[t].used) /\ Num(Acts(r, t)) = 0
        BY <1>4, <1>7, <3>4 DEF Num
      <4> QED BY <1>5, <1>6, <3>1, <3>2, <4>1
    <3> QED BY <3>3, <3>4
  <2> QED BY <1>3, <1>4, <2>1, <2>2, MailsKeep
<1>12. Whole(user, Tears)' /\ Backed(user, made, Tears)' /\ CodesCounted'
  BY <1>3, <1>6 DEF AccountInv, CodesCounted, Whole, Backed, Tears
<1> QED BY <1>8, <1>9, <1>10, <1>11, <1>12 DEF AccountInv

\* What a save leaves on the row, and what it counts.
LEMMA SaveWrites ==
  ASSUME user \in UserRow, stale \in [user : Nat, mail : Nat, torn : Nat],
         NEW base \in UserRow, NEW found \in UserRow, NEW copy \in UserRow,
         NEW m \in [SetId -> Nat], NEW n \in [SetId -> Nat], \A g \in SetId : m[g] <= n[g],
         Whole(user, Tears), Backed(user, m, Tears), Whole(copy, Tears), Backed(copy, n, Tears)
  PROVE  LET row == Overwritten(found, copy)
             counted == Counted(base, found, copy)
         IN  /\ row \in UserRow /\ counted \in [user : Nat, mail : Nat, torn : Nat]
             /\ counted.mail = stale.mail /\ counted.user \in {stale.user, stale.user + 1}
             /\ counted.torn >= Tears
             /\ counted.user = stale.user => user = base /\ row = copy
             /\ row.codes \in {copy.codes, user.codes}
             /\ row # copy => counted.user = stale.user + 1
             /\ Whole(row, counted.torn) /\ Backed(row, n, counted.torn)
<1> DEFINE row == Overwritten(found, copy)
           lost == Lost(<<user, user>>, <<base, found>>)
           tear == IF Torn(found, copy) THEN 1 ELSE 0
           counted == Counted(base, found, copy)
<1>1. DOMAIN user = {"pw", "verified", "mfa", "codes"}
  BY DEF UserRow
<1>2. /\ row = [col \in {"pw", "verified", "mfa", "codes"} |-> IF copy[col] = found[col] THEN user[col] ELSE copy[col]]
  BY <1>1 DEF Overwritten
<1>3. /\ row.pw = (IF copy.pw = found.pw THEN user.pw ELSE copy.pw)
      /\ row.verified = (IF copy.verified = found.verified THEN user.verified ELSE copy.verified)
      /\ row.mfa = (IF copy.mfa = found.mfa THEN user.mfa ELSE copy.mfa)
      /\ row.codes = (IF copy.codes = found.codes THEN user.codes ELSE copy.codes)
  BY <1>2
<1>4. row = [pw |-> row.pw, verified |-> row.verified, mfa |-> row.mfa, codes |-> row.codes]
  BY <1>2
<1>5. row \in UserRow
  <2>1. user.pw \in Password /\ user.verified \in BOOLEAN /\ user.mfa \in 0..MaxSets /\ user.codes \in SUBSET Code
    BY DEF UserRow
  <2>2. copy.pw \in Password /\ copy.verified \in BOOLEAN /\ copy.mfa \in 0..MaxSets /\ copy.codes \in SUBSET Code
    BY DEF UserRow
  <2> HIDE DEF row
  <2>3. row.pw \in Password /\ row.verified \in BOOLEAN /\ row.mfa \in 0..MaxSets /\ row.codes \in SUBSET Code
    BY <1>3, <2>1, <2>2
  <2> QED BY <1>4, <2>3 DEF UserRow
<1>6. user = found => row = copy
  <2>1. copy = [pw |-> copy.pw, verified |-> copy.verified, mfa |-> copy.mfa, codes |-> copy.codes]
    BY DEF UserRow
  <2> HIDE DEF row
  <2> QED BY <1>3, <1>4, <2>1
<1>7. lost \in {0, 1} /\ (lost = 0 => user = base /\ user = found)
  BY DEF Lost
<1>8. tear \in {0, 1}
  OBVIOUS
<1> HIDE DEF lost, row
<1>9. tear = 0 => <<row.mfa, row.codes>> = <<copy.mfa, copy.codes>> \/ <<row.mfa, row.codes>> = <<user.mfa, user.codes>>
  BY <1>3 DEF Torn
<1> HIDE DEF tear
<1>10. counted = [stale EXCEPT !.user = @ + lost, !.torn = @ + tear]
  BY DEF Counted, lost, tear
<1> HIDE DEF counted
<1>11. /\ counted \in [user : Nat, mail : Nat, torn : Nat]
       /\ counted.user = stale.user + lost /\ counted.mail = stale.mail /\ counted.torn = stale.torn + tear
       /\ stale.user \in Nat /\ stale.torn \in Nat
  <2>1. /\ stale.user \in Nat /\ stale.mail \in Nat /\ stale.torn \in Nat
        /\ stale = [user |-> stale.user, mail |-> stale.mail, torn |-> stale.torn]
    OBVIOUS
  <2>2. counted = [user |-> stale.user + lost, mail |-> stale.mail, torn |-> stale.torn + tear]
    BY <1>10, <2>1
  <2>3. stale.user + lost \in Nat /\ stale.torn + tear \in Nat
    BY <1>7, <1>8, <2>1
  <2> QED BY <2>1, <2>2, <2>3
<1>12. Whole(row, counted.torn) /\ Backed(row, n, counted.torn)
  <2> SUFFICES ASSUME counted.torn = 0
               PROVE  /\ row.mfa = 0 => row.codes = {}
                      /\ \A k, l \in row.codes : k[1] = l[1]
                      /\ row.mfa # 0 => n[row.mfa] > 0
    BY DEF Whole, Backed
  <2>1. tear = 0 /\ Tears = 0
    BY <1>8, <1>11 DEF Tears
  <2>2. CASE row.mfa = copy.mfa /\ row.codes = copy.codes
    BY <2>1, <2>2 DEF Whole, Backed
  <2>3. CASE row.mfa = user.mfa /\ row.codes = user.codes
    <3>1. user.mfa # 0 => user.mfa \in SetId /\ m[user.mfa] > 0
      BY <2>1 DEF Backed, UserRow, SetId
    <3> QED BY <2>1, <2>3, <3>1 DEF Whole
  <2> QED BY <1>9, <2>1, <2>2, <2>3
<1>13. row.codes \in {copy.codes, user.codes}
  BY <1>3
<1>14. /\ counted.user \in {stale.user, stale.user + 1} /\ counted.torn >= Tears
       /\ counted.user = stale.user => user = base /\ row = copy
       /\ row # copy => counted.user = stale.user + 1
  BY <1>6, <1>7, <1>8, <1>11 DEF Tears
<1> QED BY <1>5, <1>11, <1>12, <1>13, <1>14 DEF row, counted

LEMMA SpendKeeps ==
  ASSUME AccountInv, NEW c \in Call, Spend(c)
  PROVE  AccountInv'
<1> DEFINE a == acting[c]
           own == a.op \in {"verify", "login"}
           base == IF own \/ a.base = a.seen THEN a.first ELSE a.base
           copy == IF own THEN a.first ELSE a.copy
           r == [a EXCEPT !.at = Then(a.op), !.op = Later(a.op), !.base = base, !.copy = copy,
                          !.seen = None, !.first = None, !.found = None, !.code = None]
           row == Overwritten(a.found, a.first)
           counted == Counted(a.seen, a.found, a.first)
<1>1. /\ AccountTypes /\ a \in Act /\ a.at = "spending" /\ a.op \in {"verify", "login", "regenerate", "disable"}
      /\ Carries(a, made, Tears) /\ Takes(a, made, Tears)
      /\ a.op = "verify" => a.ref \in 1..begun
      /\ a.found \in UserRow
  BY DEF Spend, Is, AccountInv, AccountTypes, CallsAreSound, Sound, Act
<1>2. /\ user' = row /\ spent' = [spent EXCEPT ![a.code] = @ + 1]
      /\ stale' = counted
      /\ acting' = [acting EXCEPT ![c] = r]
      /\ UNCHANGED <<mails, setups, temps, made, begun, opened, acted>>
  BY DEF Spend, Becomes
<1>3. a.seen \in UserRow /\ a.first \in UserRow /\ Whole(a.first, Tears) /\ Backed(a.first, made, Tears)
  BY <1>1 DEF Takes
<1>4. /\ row \in UserRow /\ counted \in [user : Nat, mail : Nat, torn : Nat]
      /\ counted.mail = stale.mail /\ counted.user \in {stale.user, stale.user + 1}
      /\ counted.torn >= Tears
      /\ counted.user = stale.user => user = a.seen /\ row = a.first
      /\ row.codes \in {a.first.codes, user.codes}
      /\ row # a.first => counted.user = stale.user + 1
      /\ Whole(row, counted.torn) /\ Backed(row, made, counted.torn)
  <2>1. /\ user \in UserRow /\ stale \in [user : Nat, mail : Nat, torn : Nat]
        /\ made \in [SetId -> Nat] /\ \A g \in SetId : made[g] <= made[g]
    BY <1>1 DEF AccountTypes
  <2>2. Whole(user, Tears) /\ Backed(user, made, Tears)
    BY DEF AccountInv
  <2> HIDE DEF a
  <2> QED BY <1>1, <1>3, <2>1, <2>2, SaveWrites
<1> HIDE DEF row, counted
<1>5. /\ Tears \in Nat /\ Tears' = counted.torn /\ Tears' \in Nat /\ Tears <= Tears'
      /\ stale.user \in Nat /\ stale'.user = counted.user /\ stale'.mail = stale.mail
  BY <1>1, <1>2, <1>4 DEF AccountTypes, Tears
<1>6. base \in UserRow /\ copy \in UserRow
  BY <1>1, <1>3 DEF Carries
<1>7. /\ own => base = a.first /\ copy = a.first
      /\ ~own => copy = a.copy
  OBVIOUS
<1> HIDE DEF base, copy
<1>8. /\ Later(a.op) \in {"verify", "plain", "regenerate"} /\ Then(a.op) \in {"dropping", "saving"}
      /\ Later(a.op) = "verify" <=> a.op = "verify"
      /\ Later(a.op) = "regenerate" <=> a.op = "regenerate"
      /\ Then(a.op) = "dropping" <=> a.op = "verify"
  BY <1>1 DEF Later, Then
<1>9. r \in Act /\ r.op = Later(a.op) /\ r.at = Then(a.op) /\ r.base = base /\ r.copy = copy /\ r.ref = a.ref
  BY <1>1, <1>6, <1>8 DEF Act
<1> HIDE DEF r
<1>10. Carries(r, made, Tears)
  <2>1. CASE own
    BY <1>1, <1>3, <1>6, <1>7, <1>8, <1>9, <2>1 DEF Carries
  <2>2. CASE a.op = "regenerate"
    BY <1>1, <1>6, <1>7, <1>8, <1>9, <2>2 DEF Carries
  <2>3. CASE a.op = "disable"
    BY <1>1, <1>6, <1>7, <1>8, <1>9, <2>3 DEF Carries
  <2> QED BY <1>1, <2>1, <2>2, <2>3
<1>11. Sound(r, made, temps, begun, Tears)
  BY <1>1, <1>8, <1>9, <1>10 DEF Sound
<1>12. \A t : (Verifies(r, t) => Verifies(a, t)) /\ ~Acts(r, t)
  BY <1>1, <1>8, <1>9 DEF Verifies, Acts
<1>13. acting' \in [Call -> Act] /\ CallsAreSound'
  <2>1. /\ made' \in [SetId -> Nat] /\ (\A g \in SetId : made[g] <= made'[g])
        /\ begun' \in Nat /\ begun <= begun' /\ \A t \in temps' : t \in temps \/ t > begun
    BY <1>1, <1>2 DEF AccountTypes
  <2>2. Sound(r, made', temps', begun', Tears')
    <3>1. /\ made \in [SetId -> Nat] /\ (\A g \in SetId : made[g] <= made[g])
          /\ begun \in Nat /\ begun <= begun /\ \A t \in temps : t \in temps \/ t > begun
      BY <1>1 DEF AccountTypes
    <3>2. Sound(r, made, temps, begun, Tears')
      BY <1>5, <1>9, <1>11, <3>1, SoundStays
    <3> QED BY <1>2, <3>2
  <2> QED BY <1>2, <1>5, <1>9, <2>1, <2>2, CallKeeps
<1>14. /\ spent' \in [Code -> Nat] /\ a.code \in Code
       /\ \A k \in Code : spent[k] \in Nat /\ spent'[k] = IF k = a.code THEN spent[k] + 1 ELSE spent[k]
  BY <1>1, <1>2 DEF AccountTypes, Takes
<1>15. AccountTypes'
  BY <1>1, <1>2, <1>4, <1>13, <1>14 DEF AccountTypes
<1>16. TempsCounted'
  <2>1. opened' \in [Temp -> Nat] /\ \A t \in Temp : opened'[t] = opened[t] /\ opened[t] \in Nat
    BY <1>1, <1>2 DEF AccountTypes
  <2>2. \A t \in Temp : t \in temps' \/ t > begun' => opened'[t] = 0
    BY <1>2 DEF AccountInv, TempsCounted
  <2>3. ASSUME NEW t \in Temp
        PROVE  opened'[t] + Num(Verifies(r, t)) <= opened[t] + Num(Verifies(acting[c], t))
    BY <1>12, <2>1 DEF Num
  <2> QED BY <1>2, <1>9, <2>1, <2>2, <2>3, TempsKeep
<1>17. MailsCounted'
  <2>1. acted' \in [Mail -> Nat] /\ stale'.mail \in Nat
    BY <1>1, <1>2, <1>4 DEF AccountTypes
  <2>2. stale.mail \in Nat
    BY <1>1 DEF AccountTypes
  <2>3. ASSUME NEW t \in Mail
        PROVE  acted'[t] + Num(Acts(r, t)) + Num(mails[t].used) + stale.mail
                 <= acted[t] + Num(Acts(acting[c], t)) + Num(mails'[t].used) + stale'.mail
    <3>1. acted'[t] = acted[t] /\ acted[t] \in Nat /\ mails'[t] = mails[t]
      BY <1>1, <1>2 DEF AccountTypes
    <3>2. Num(Acts(r, t)) = 0 /\ Num(Acts(acting[c], t)) \in 0..1 /\ Num(mails[t].used) \in 0..1
      BY <1>12 DEF Num
    <3> QED BY <1>5, <2>2, <3>1, <3>2
  <2> QED BY <1>2, <1>9, <2>1, <2>3, MailsKeep
<1>18. CodesCounted'
  <2> SUFFICES ASSUME NEW k \in Code
               PROVE  /\ spent'[k] <= made[k[1]] + stale'.user
                      /\ k \in row.codes => spent'[k] < made[k[1]] + stale'.user
    BY <1>2 DEF CodesCounted
  <2>1. made[k[1]] \in Nat
    BY <1>1 DEF AccountTypes, Code
  <2>2. /\ spent[k] <= made[k[1]] + stale.user
        /\ k \in user.codes => spent[k] < made[k[1]] + stale.user
    BY DEF AccountInv, CodesCounted
  <2>3. a.code \in a.seen.codes /\ a.code \notin a.first.codes /\ a.first.codes \subseteq a.seen.codes
    BY <1>1 DEF Takes
  <2>4. CASE k = a.code
    <3>1. stale'.user = stale.user + 1 \/ (stale'.user = stale.user /\ k \in user.codes)
      BY <1>4, <1>5, <2>3, <2>4
    <3>2. spent'[k] = spent[k] + 1 /\ spent[k] \in Nat
      BY <1>14, <2>4
    <3>3. k \in row.codes => k \in user.codes /\ stale'.user = stale.user + 1
      BY <1>4, <1>5, <2>3, <2>4
    <3> QED BY <1>5, <2>1, <2>2, <3>1, <3>2, <3>3
  <2>5. CASE k # a.code
    <3>1. /\ stale'.user \in {stale.user, stale.user + 1}
          /\ k \in row.codes => stale'.user = stale.user + 1 \/ k \in user.codes
      BY <1>4, <1>5, <2>3
    <3>2. spent'[k] = spent[k] /\ spent[k] \in Nat
      BY <1>14, <2>5
    <3> QED BY <1>5, <2>1, <2>2, <3>1, <3>2
  <2> QED BY <2>4, <2>5
<1>19. Whole(user, Tears)' /\ Backed(user, made, Tears)'
  BY <1>2, <1>4, <1>5 DEF Whole, Backed
<1> QED BY <1>13, <1>15, <1>16, <1>17, <1>18, <1>19 DEF AccountInv

\* A history in which one count goes up.
LEMMA OneUp ==
  ASSUME NEW D, NEW f \in [D -> Nat], NEW d
  PROVE  LET g == [f EXCEPT ![d] = @ + 1]
         IN  /\ g \in [D -> Nat]
             /\ \A e \in D : g[e] = IF e = d THEN f[e] + 1 ELSE f[e]
<1> DEFINE g == [f EXCEPT ![d] = @ + 1]
<1>1. \A e \in D : f[e] \in Nat /\ g[e] = IF e = d THEN f[e] + 1 ELSE f[e]
  OBVIOUS
<1>2. g = [e \in D |-> g[e]]
  OBVIOUS
<1> HIDE DEF g
<1>3. \A e \in D : g[e] \in Nat
  BY <1>1
<1>4. g \in [D -> Nat]
  BY <1>2, <1>3
<1> QED BY <1>1, <1>4 DEF g

LEMMA SaveUserKeeps ==
  ASSUME AccountInv, NEW c \in Call, SaveUser(c)
  PROVE  AccountInv'
<1> DEFINE a == acting[c]
           r == IF a.op = "complete" THEN [AtRest EXCEPT !.op = a.op, !.at = "dropping", !.ref = a.ref] ELSE AtRest
           row == Overwritten(a.found, a.copy)
           counted == Counted(a.base, a.found, a.copy)
           sets == a.op \in {"complete", "regenerate"}
           logs == a.op \in {"verify"}
           acts == a.op \in {"verifyEmail", "reset"}
<1>1. /\ AccountTypes /\ a \in Act /\ a.at = "saving" /\ Carries(a, made, Tears) /\ a.found \in UserRow
      /\ a.op = "verify" => a.ref \in 1..begun /\ a.ref \notin temps
      /\ acts => a.ref \in Mail
  BY DEF SaveUser, Is, AccountInv, AccountTypes, CallsAreSound, Sound, Act
<1>2. /\ user' = row
      /\ stale' = counted
      /\ acting' = [acting EXCEPT ![c] = r]
      /\ UNCHANGED <<mails, setups, temps, spent, begun>>
  BY DEF SaveUser, Becomes
<1>3. /\ made' = IF sets THEN [made EXCEPT ![a.ref] = @ + 1] ELSE made
      /\ opened' = IF logs THEN [opened EXCEPT ![a.ref] = @ + 1] ELSE opened
      /\ acted' = IF acts THEN [acted EXCEPT ![a.ref] = @ + 1] ELSE acted
  BY DEF SaveUser
<1>4. a.base \in UserRow /\ a.copy \in UserRow /\ Whole(a.copy, Tears)
  BY <1>1 DEF Carries
<1> HIDE DEF row, counted
<1>5. /\ made' \in [SetId -> Nat]
      /\ \A g \in SetId : /\ made[g] \in Nat /\ made'[g] \in Nat
                          /\ made'[g] = IF sets /\ g = a.ref THEN made[g] + 1 ELSE made[g]
  <2> DEFINE up == [made EXCEPT ![a.ref] = @ + 1]
  <2>1. made \in [SetId -> Nat]
    BY <1>1 DEF AccountTypes
  <2>2. up \in [SetId -> Nat] /\ \A e \in SetId : up[e] = IF e = a.ref THEN made[e] + 1 ELSE made[e]
    BY <2>1, OneUp
  <2>3. made' = IF sets THEN up ELSE made
    BY <1>3
  <2> HIDE DEF up, sets
  <2> QED BY <2>1, <2>2, <2>3
<1>6. Backed(a.copy, made', Tears)
  <2>1. CASE a.op = "complete"
    BY <1>1, <1>5, <2>1 DEF Carries, Backed
  <2>2. CASE a.op # "complete"
    <3>1. Tears = 0 /\ a.copy.mfa # 0 => a.copy.mfa \in SetId /\ made[a.copy.mfa] > 0
      BY <1>1, <1>4, <2>2 DEF Carries, Backed, UserRow, SetId
    <3> QED BY <1>5, <3>1 DEF Backed
  <2> QED BY <2>1, <2>2
<1>7. /\ row \in UserRow /\ counted \in [user : Nat, mail : Nat, torn : Nat]
      /\ counted.mail = stale.mail /\ counted.user \in {stale.user, stale.user + 1}
      /\ counted.torn >= Tears
      /\ counted.user = stale.user => user = a.base /\ row = a.copy
      /\ row.codes \in {a.copy.codes, user.codes}
      /\ Whole(row, counted.torn) /\ Backed(row, made', counted.torn)
  <2>1. /\ user \in UserRow /\ stale \in [user : Nat, mail : Nat, torn : Nat]
        /\ made \in [SetId -> Nat] /\ \A g \in SetId : made[g] <= made'[g]
    BY <1>1, <1>5 DEF AccountTypes
  <2>2. Whole(user, Tears) /\ Backed(user, made, Tears)
    BY DEF AccountInv
  <2>3. /\ a.found \in UserRow /\ a.base \in UserRow /\ a.copy \in UserRow /\ Whole(a.copy, Tears)
        /\ Backed(a.copy, made', Tears) /\ made' \in [SetId -> Nat]
    BY <1>1, <1>4, <1>5, <1>6
  <2>4. PICK m : m = made'
    OBVIOUS
  <2>5. /\ m \in [SetId -> Nat] /\ Backed(a.copy, m, Tears)
        /\ \A g \in SetId : made[g] <= m[g]
    BY <2>1, <2>3, <2>4
  <2> HIDE DEF a
  <2>6. /\ Overwritten(a.found, a.copy) = row /\ Counted(a.base, a.found, a.copy) = counted
    BY DEF row, counted
  <2>7. Backed(row, m, counted.torn)
    BY <2>1, <2>2, <2>3, <2>5, <2>6, SaveWrites
  <2>8. Backed(row, made', counted.torn)
    BY <2>4, <2>7
  <2> QED BY <2>1, <2>2, <2>3, <2>5, <2>6, <2>8, SaveWrites
<1>8. /\ row \in UserRow /\ row.codes \in {a.copy.codes, user.codes}
      /\ stale' \in [user : Nat, mail : Nat, torn : Nat] /\ stale'.mail = stale.mail
      /\ stale'.user \in {stale.user, stale.user + 1} /\ (stale'.user = stale.user => user = a.base)
      /\ Tears \in Nat /\ Tears' \in Nat /\ Tears <= Tears'
      /\ Whole(row, Tears') /\ Backed(row, made', Tears')
  <2>1. Tears' = counted.torn /\ Tears \in Nat /\ counted.torn \in Nat
    BY <1>1, <1>2, <1>7 DEF AccountTypes, Tears
  <2>2. /\ stale' \in [user : Nat, mail : Nat, torn : Nat] /\ stale'.mail = stale.mail
        /\ stale'.user \in {stale.user, stale.user + 1} /\ (stale'.user = stale.user => user = a.base)
    BY ONLY <1>2, <1>7
  <2> QED BY ONLY <1>7, <2>1, <2>2
<1>9. /\ opened' \in [Temp -> Nat]
      /\ \A t \in Temp : /\ opened[t] \in Nat
                         /\ opened'[t] = IF logs /\ t = a.ref THEN opened[t] + 1 ELSE opened[t]
  <2> DEFINE up == [opened EXCEPT ![a.ref] = @ + 1]
  <2>1. opened \in [Temp -> Nat]
    BY <1>1 DEF AccountTypes
  <2>2. up \in [Temp -> Nat] /\ \A e \in Temp : up[e] = IF e = a.ref THEN opened[e] + 1 ELSE opened[e]
    BY <2>1, OneUp
  <2>3. opened' = IF logs THEN up ELSE opened
    BY <1>3
  <2> HIDE DEF up, logs
  <2> QED BY <2>1, <2>2, <2>3
<1>10. /\ acted' \in [Mail -> Nat]
      /\ \A t \in Mail : /\ acted[t] \in Nat
                         /\ acted'[t] = IF acts /\ t = a.ref THEN acted[t] + 1 ELSE acted[t]
  <2> DEFINE up == [acted EXCEPT ![a.ref] = @ + 1]
  <2>1. acted \in [Mail -> Nat]
    BY <1>1 DEF AccountTypes
  <2>2. up \in [Mail -> Nat] /\ \A e \in Mail : up[e] = IF e = a.ref THEN acted[e] + 1 ELSE acted[e]
    BY <2>1, OneUp
  <2>3. acted' = IF acts THEN up ELSE acted
    BY <1>3
  <2> HIDE DEF up, acts
  <2> QED BY <2>1, <2>2, <2>3
<1>11. r \in Act /\ (\A m, te, b, n : Sound(r, m, te, b, n)) /\ \A t : ~Verifies(r, t) /\ ~Acts(r, t)
  <2>1. CASE a.op = "complete"
    <3> DEFINE q == [AtRest EXCEPT !.op = a.op, !.at = "dropping", !.ref = a.ref]
    <3>1. q \in Act /\ q.op = "complete" /\ q.at = "dropping"
      BY <1>1, <2>1, RestIsSound DEF Act, AtRest
    <3>2. r = q
      BY <2>1
    <3> HIDE DEF q, r
    <3>3. (\A m, te, b, n : Sound(q, m, te, b, n)) /\ \A t : ~Verifies(q, t) /\ ~Acts(q, t)
      BY <3>1 DEF Sound, Verifies, Acts
    <3> QED BY <3>1, <3>2, <3>3
  <2>2. CASE a.op # "complete"
    BY <2>2, RestIsSound
  <2> QED BY <2>1, <2>2
<1> HIDE DEF r
<1>12. acting' \in [Call -> Act] /\ CallsAreSound'
  <2>1. /\ (\A g \in SetId : made[g] <= made'[g])
        /\ begun' \in Nat /\ begun <= begun' /\ \A t \in temps' : t \in temps \/ t > begun
    BY <1>1, <1>2, <1>5 DEF AccountTypes
  <2> QED BY <1>2, <1>8, <1>5, <1>11, <2>1, CallKeeps
<1>13. AccountTypes'
  BY <1>1, <1>2, <1>8, <1>5, <1>9, <1>10, <1>12 DEF AccountTypes
<1>14. TempsCounted'
  <2>1. ASSUME NEW t \in Temp, t \in temps' \/ t > begun' PROVE opened'[t] = 0
    <3>1. t \in temps \/ t > begun
      BY <1>2, <2>1
    <3>2. opened[t] = 0
      BY <3>1 DEF AccountInv, TempsCounted
    <3>3. ~(logs /\ t = a.ref)
      BY <1>1, <3>1 DEF AccountTypes
    <3> QED BY <1>9, <3>2, <3>3
  <2>2. ASSUME NEW t \in Temp
        PROVE  opened'[t] + Num(Verifies(r, t)) <= opened[t] + Num(Verifies(acting[c], t))
    <3>1. Num(Verifies(r, t)) = 0 /\ Num(Verifies(a, t)) = IF logs /\ t = a.ref THEN 1 ELSE 0
      BY <1>11 DEF Num, Verifies
    <3> QED BY <1>9, <3>1
  <2> QED BY <1>2, <1>9, <1>11, <2>1, <2>2, TempsKeep
<1>15. MailsCounted'
  <2>1. stale'.mail \in Nat /\ stale'.mail = stale.mail
    BY <1>1, <1>8 DEF AccountTypes
  <2>2. ASSUME NEW t \in Mail
        PROVE  acted'[t] + Num(Acts(r, t)) + Num(mails[t].used) + stale.mail
                 <= acted[t] + Num(Acts(acting[c], t)) + Num(mails'[t].used) + stale'.mail
    <3>1. Num(Acts(r, t)) = 0 /\ Num(Acts(a, t)) = IF acts /\ t = a.ref THEN 1 ELSE 0
      BY <1>1, <1>11 DEF Num, Acts
    <3>2. Num(mails'[t].used) = Num(mails[t].used) /\ Num(mails[t].used) \in Nat
      BY <1>2 DEF Num
    <3> QED BY <1>10, <2>1, <3>1, <3>2
  <2> QED BY <1>2, <1>10, <1>11, <2>1, <2>2, MailsKeep
<1>16. CodesCounted'
  <2> SUFFICES ASSUME NEW k \in Code
               PROVE  /\ spent[k] <= made'[k[1]] + stale'.user
                      /\ k \in row.codes => spent[k] < made'[k[1]] + stale'.user
    BY <1>2 DEF CodesCounted
  <2>1. k[1] \in SetId /\ spent[k] \in Nat
    BY <1>1 DEF AccountTypes, Code
  <2>2. /\ spent[k] <= made[k[1]] + stale.user
        /\ k \in user.codes => spent[k] < made[k[1]] + stale.user
    BY DEF AccountInv, CodesCounted
  <2>3. made[k[1]] \in Nat /\ made'[k[1]] \in Nat /\ made[k[1]] <= made'[k[1]]
    BY <1>5, <2>1
  <2>4. k \in a.copy.codes => stale'.user = stale.user + 1 \/ k \in user.codes \/ made'[k[1]] = made[k[1]] + 1
    <3>1. CASE sets
      <4>1. k \in a.copy.codes => k[1] = a.ref
        BY <1>1, <3>1 DEF Carries, CodesOf
      <4> QED BY <1>5, <2>1, <3>1, <4>1
    <3>2. CASE ~sets
      <4>1. a.copy.codes \subseteq a.base.codes
        BY <1>1, <3>2 DEF Carries
      <4> QED BY <1>8, <4>1
    <3> QED BY <3>1, <3>2
  <2>5. stale.user \in Nat /\ stale'.user \in {stale.user, stale.user + 1} /\ row.codes \in {a.copy.codes, user.codes}
    BY <1>1, <1>8 DEF AccountTypes
  <2> QED BY <2>1, <2>2, <2>3, <2>4, <2>5
<1>17. Whole(user, Tears)' /\ Backed(user, made, Tears)'
  BY <1>2, <1>8 DEF Whole, Backed
<1> QED BY <1>12, <1>13, <1>14, <1>15, <1>16, <1>17 DEF AccountInv

LEMMA AccountInvStutter ==
  ASSUME AccountInv, UNCHANGED accountVars
  PROVE  AccountInv'
BY DEF AccountInv, accountVars, AccountTypes, CallsAreSound, Whole, Backed, CodesCounted, TempsCounted, MailsCounted,
       Verifying, Acting, Tears

LEMMA AccountInvStep == AccountInv /\ [AccountNext]_accountVars => AccountInv'
<1> SUFFICES ASSUME AccountInv, [AccountNext]_accountVars PROVE AccountInv'
  OBVIOUS
<1>1. ASSUME NEW c \in Call, AccountStep(c) PROVE AccountInv'
  <2>1. CASE LoggingIn(c)
    BY <2>1, LoginKeeps, BeginLoginKeeps, CheckLoginKeeps, DropTempKeeps DEF LoggingIn
  <2>2. CASE SettingUp(c)
    BY <2>2, SetupKeeps, CompleteKeeps, ReadForChangeKeeps, CheckRegenerateKeeps, CheckDisableKeeps, SpendKeeps
       DEF SettingUp
  <2>3. CASE Mailing(c)
    BY <2>3, MailingKeeps, ResendKeeps, VerifyEmailKeeps, ResetPasswordKeeps, MarkKeeps, ReadUserKeeps DEF Mailing
  <2>4. CASE Saves(c)
    BY <2>4, PlainKeeps, CompareKeeps, SaveUserKeeps, RefuseKeeps DEF Saves
  <2> QED BY <1>1, <2>1, <2>2, <2>3, <2>4 DEF AccountStep
<1> QED BY <1>1, AccountInvStutter DEF AccountNext

LEMMA AccountAlways == AccountSpec => []AccountInv
BY AccountInvInit, AccountInvStep, PTL DEF AccountSpec

-----------------------------------------------------------------------------
(* The theorems *)

\* Secret and backup codes fit together however set-up, change and login overlap and
\* however late their copies are saved (mfa.service.ts, auth.service.ts), unless a save of
\* one has had another call change them between its SELECT and its UPDATE.
THEOREM SecondFactorStaysWhole == AccountSpec => []SecondFactorIsWhole
<1>1. AccountInv => SecondFactorIsWhole
  BY DEF AccountInv, AccountTypes, Whole, Backed, SecondFactorIsWhole, Tears
<1> QED BY <1>1, AccountAlways, PTL

\* A backup code taken off the row is not accepted again, unless its set is handed out
\* again or overlapping calls lose a change of the row.
THEOREM CodesStaySpent == AccountSpec => []CodesAreSpent
<1>1. AccountInv => CodesAreSpent
  BY DEF AccountInv, CodesCounted, CodesAreSpent
<1> QED BY <1>1, AccountAlways, PTL

\* verifyEmail and resetPassword mark a token before they act on it, so that it is good
\* once, and once more for each mark overlapping calls set over each other.
THEOREM MailsActJustOnce == AccountSpec => []MailsActOnce
<1>1. AccountInv => MailsActOnce
  <2> SUFFICES ASSUME AccountInv, NEW t \in Mail PROVE acted[t] <= 1 + stale.mail
    BY DEF MailsActOnce
  <2>1. Cardinality(Acting(t)) \in Nat
    BY CallsAreFinite, FS_Subset, FS_CardinalityType DEF Acting
  <2>2. acted[t] \in Nat /\ stale.mail \in Nat
    BY DEF AccountInv, AccountTypes
  <2>3. Num(mails[t].used) \in 0..1 /\ acted[t] + Cardinality(Acting(t)) <= Num(mails[t].used) + stale.mail
    BY DEF Num, AccountInv, MailsCounted
  <2> QED BY <2>1, <2>2, <2>3
<1> QED BY <1>1, AccountAlways, PTL

\* A temporary token opens a session only for calls that looked it up before the first of
\* them deleted it (verifyMfaAndLogin).
THEOREM TempLoginsStayBounded == AccountSpec => []TempLoginsBounded
<1>1. AccountInv => TempLoginsBounded
  <2> SUFFICES ASSUME AccountInv, NEW t \in Temp PROVE opened[t] <= Cardinality(Call)
    BY DEF TempLoginsBounded
  <2>1. Cardinality(Verifying(t)) \in Nat /\ Cardinality(Call) \in Nat
    BY CallsAreFinite, FS_Subset, FS_CardinalityType DEF Verifying
  <2>2. opened[t] \in Nat /\ opened[t] + Cardinality(Verifying(t)) <= Cardinality(Call)
    BY DEF AccountInv, AccountTypes, TempsCounted
  <2> QED BY <2>1, <2>2
<1> QED BY <1>1, AccountAlways, PTL
=============================================================================
