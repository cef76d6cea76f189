------------------------------- MODULE Accounts -------------------------------
(***************************************************************************)
(* One user's account: logging in with or without a second factor,         *)
(* verifying the email address, resetting the password, setting up and     *)
(* switching off two-factor authentication (src/api/src/auth, mfa, users). *)
(*                                                                         *)
(* The user's row is read, and a copy of it saved, by every one of these   *)
(* calls; nothing is in a transaction.  A save is two statements,         *)
(* CompareUser and SaveUser (or Spend).  A TOTP code is a guess.           *)
(* Expiry of mailed tokens and of Redis keys is a refusal, as are a        *)
(* missing membership and an unverified organization: Refuse.              *)
(***************************************************************************)
EXTENDS Server

CONSTANTS
  Password,                     \* passwords the user can think of
  PerSet,                       \* backup codes in a set
  MaxSets, MaxMails, MaxTemps,  \* bounds: sets of codes, tokens mailed, MFA logins begun
  MaxMade, MaxStale             \* bounds: no set-up is begun that was completed so often, no
                                \* call when so many changes were lost

ASSUME PasswordsExist == Password # {} /\ None \notin Password
ASSUME AccountBounds == {PerSet, MaxSets, MaxMails, MaxTemps, MaxMade, MaxStale} \subseteq Nat

VARIABLES
  user,    \* the users row: pw, verified, mfa (the set-up of the secret, 0: off), codes
  mails,   \* email_verifications: what was mailed, and verified_at
  setups,  \* Redis, mfa:setup:*: set-ups that can be completed
  temps,   \* Redis, mfa:temp:*: logins waiting for a second factor
  acting,  \* what each call has read and is about to save
  made,    \* history: how often each set of codes was handed out
  spent,   \* history: how often each code was accepted and taken off the row
  begun,   \* history: how many temporary tokens were issued
  opened,  \* history: sessions opened with each temporary token
  acted,   \* history: what each mailed token was good for
  stale    \* history: saves over a users row, and over a mail's, that had changed, and saves
           \* that were torn (see Torn)

accountVars == <<user, mails, setups, temps, acting, made, spent, begun, opened, acted, stale>>
history == <<made, spent, begun, opened, acted, stale>>

SetId == 1..MaxSets
Code == SetId \X (1..PerSet)
CodesOf(g) == {g} \X (1..PerSet)
Mail == 1..MaxMails
Temp == 1..MaxTemps

UserRow == [pw : Password, verified : BOOLEAN, mfa : 0..MaxSets, codes : SUBSET Code]
MailRow == [type : {"none", "registration", "password_reset", "deleted"}, used : BOOLEAN]
NoMail == [type |-> "none", used |-> FALSE]

\* `op` is what the call is for, as far as its later steps depend on it ("plain": not at
\* all).  `seen` and `first` are the row as it was read and the copy saved when a backup code
\* is taken off it; `base` and `copy` those of the last save; `found` is the row with which
\* the copy was compared.
AtRest == [op |-> "none", at |-> "idle", base |-> None, copy |-> None, seen |-> None,
           first |-> None, found |-> None, code |-> None, ref |-> 0]

\* Registration stores the user and mails the first token.  An account can also be
\* older: its address is verified and `mailed` tokens are used up.
AccountStart(verified, mailed) ==
  /\ \E p \in Password : user = [pw |-> p, verified |-> verified, mfa |-> 0, codes |-> {}]
  /\ mails = [t \in Mail |-> IF t = 1 THEN [type |-> "registration", used |-> verified]
                            ELSE IF t <= mailed THEN [type |-> "password_reset", used |-> TRUE]
                            ELSE NoMail]
  /\ acted = [t \in Mail |-> IF mails[t].used THEN 1 ELSE 0]
  /\ setups = {} /\ temps = {}
  /\ acting = [c \in Call |-> AtRest]
  /\ made = [g \in SetId |-> 0] /\ spent = [k \in Code |-> 0]
  /\ begun = 0 /\ opened = [t \in Temp |-> 0]
  /\ stale = [user |-> 0, mail |-> 0, torn |-> 0]

AccountInit == AccountStart(FALSE, 1) \/ AccountStart(TRUE, MaxMails)

-----------------------------------------------------------------------------
Is(c, at) == acting[c].at = at
Becomes(c, r) == acting' = [acting EXCEPT ![c] = r]
Free(c) == Is(c, "idle") /\ stale.user < MaxStale /\ stale.mail < MaxStale

\* A call whose next step saves `copy`, for a row read as it is now.
Saving(op, copy, ref) ==
  [AtRest EXCEPT !.op = op, !.at = "saving", !.base = user, !.copy = copy, !.ref = ref]

OnlyCall == UNCHANGED <<user, mails, setups, temps, history>>

\* save() reads the row again and compares the copy with it ...
CompareUser(c) ==
  /\ acting[c].at \in {"spending", "saving"} /\ acting[c].found = None
  /\ Becomes(c, [acting[c] EXCEPT !.found = user]) /\ OnlyCall

\* ... and then writes the columns in which they differed.
Overwritten(found, copy) ==
  [col \in DOMAIN user |-> IF copy[col] = found[col] THEN user[col] ELSE copy[col]]

\* The second factor was changed between the two statements of a save that writes part of it.
Torn(found, copy) ==
  LET factor(row) == <<row.mfa, row.codes>>
  IN  factor(copy) # factor(found) /\ factor(user) # factor(found)

\* What a save adds to `stale`: the row is not as the call read it, or not as compared.
Counted(base, found, copy) ==
  [stale EXCEPT !.user = @ + Lost(<<user, user>>, <<base, found>>),
                !.torn = @ + IF Torn(found, copy) THEN 1 ELSE 0]

\* The set generated next: which of the free numbers it gets does not matter.
FreeSets == {g \in SetId : /\ made[g] = 0 /\ g \notin setups
                           /\ \A c \in Call : acting[c].ref # g \/ acting[c].op # "regenerate"}
NewSets == {g \in FreeSets : \A h \in FreeSets : g <= h}

-----------------------------------------------------------------------------
(* auth.service.ts, users.service.ts: passwords and logins *)

\* login: without a second factor the copy read with the password is saved, with one a
\* temporary token is issued.  (If the second factor is still to be set up, nothing
\* that matters here is stored.)
Login(c, p) ==
  /\ Free(c) /\ user.pw = p /\ user.verified
  /\ \/ Becomes(c, Saving("plain", user, 0)) /\ OnlyCall
     \/ /\ user.mfa # 0 /\ begun < MaxTemps
        /\ begun' = begun + 1
        /\ temps' = temps \cup {begun + 1}
        /\ UNCHANGED <<user, mails, setups, acting, made, spent, opened, acted, stale>>

\* updateCurrentUser and changePassword.
UpdateCurrentUser(c) == Free(c) /\ Becomes(c, Saving("plain", user, 0)) /\ OnlyCall
ChangePassword(c, p, q) ==
  /\ Free(c) /\ user.pw = p
  /\ Becomes(c, Saving("plain", [user EXCEPT !.pw = q], 0)) /\ OnlyCall

-----------------------------------------------------------------------------
(* The second factor, in auth.service.ts and mfa.service.ts *)

\* What follows the check of a code.
Then(op) == IF op = "verify" THEN "dropping" ELSE "saving"
Later(op) == IF op \in {"login", "disable"} THEN "plain" ELSE op

\* Mutant: the code is accepted and left on the row.
KeepCode(c, op, ref, base, copy) ==
  /\ user.mfa # 0
  /\ \/ \E k \in user.codes :
          Becomes(c, [op |-> op, at |-> "spending", base |-> base, copy |-> copy, seen |-> user,
                      first |-> user, found |-> None, code |-> k, ref |-> ref])
     \/ Becomes(c, [Saving(Later(op), copy, ref) EXCEPT !.at = Then(op), !.base = base])

\* The code given is a backup code, which is taken off a copy of the row, or a TOTP code.
CheckCode(c, op, ref, base, copy) ==
  /\ user.mfa # 0
  /\ \/ \E k \in user.codes :
          Becomes(c, [op |-> op, at |-> "spending", base |-> base, copy |-> copy, seen |-> user,
                      first |-> [user EXCEPT !.codes = @ \ {k}], found |-> None, code |-> k,
                      ref |-> ref])
     \/ Becomes(c, [Saving(Later(op), copy, ref) EXCEPT !.at = Then(op), !.base = base])

\* The copy without the code is saved.  A login goes on with that copy, a change of the
\* set-up with the one it had read before.
Spend(c) ==
  LET a == acting[c]
      own == a.op \in {"verify", "login"}
  IN  /\ Is(c, "spending") /\ a.found # None
      /\ user' = Overwritten(a.found, a.first)
      /\ spent' = [spent EXCEPT ![a.code] = @ + 1]
      /\ stale' = Counted(a.seen, a.found, a.first)
      /\ Becomes(c, [a EXCEPT !.at = Then(a.op), !.op = Later(a.op),
                              !.base = IF own \/ a.base = a.seen THEN a.first ELSE a.base,
                              !.copy = IF own THEN a.first ELSE a.copy,
                              !.seen = None, !.first = None, !.found = None, !.code = None])
      /\ UNCHANGED <<mails, setups, temps, made, begun, opened, acted>>

\* verifyMfaAndLogin: the temporary token is looked up, the code checked, the token
\* deleted, and the user saved again before the session is.
VerifyMfaAndLogin(c, t) ==
  /\ Free(c) /\ t \in temps
  /\ Becomes(c, [AtRest EXCEPT !.op = "verify", !.at = "checking", !.ref = t]) /\ OnlyCall

CheckLogin(c) ==
  /\ Is(c, "checking") /\ acting[c].op = "verify"
  /\ CheckCode(c, "verify", acting[c].ref, user, user) /\ OnlyCall

\* Mutant: the token is left to expire.
KeepTemp(c) ==
  /\ Is(c, "dropping") /\ acting[c].op = "verify"
  /\ Becomes(c, [acting[c] EXCEPT !.at = "saving"])
  /\ UNCHANGED <<user, mails, setups, temps, history>>

DropTemp(c) ==
  /\ Is(c, "dropping") /\ acting[c].op = "verify"
  /\ temps' = temps \ {acting[c].ref}
  /\ Becomes(c, [acting[c] EXCEPT !.at = "saving"])
  /\ UNCHANGED <<user, mails, setups, history>>

\* loginWithMfa: the code alone.
LoginWithMfa(c) == Free(c) /\ user.verified /\ CheckCode(c, "login", 0, user, user) /\ OnlyCall

\* initializeSetup.
InitializeSetup(c) ==
  /\ Free(c) /\ user.mfa = 0
  /\ \E g \in NewSets : setups' = setups \cup {g}
  /\ UNCHANGED <<user, mails, temps, acting, history>>

\* verifyAndCompleteSetup: whether a second factor is in force already is not asked;
\* the key in Redis is deleted at the end.
VerifyAndCompleteSetup(c, g) ==
  /\ Free(c) /\ g \in setups /\ made[g] < MaxMade
  /\ Becomes(c, Saving("complete", [user EXCEPT !.mfa = g, !.codes = CodesOf(g)], g)) /\ OnlyCall

DropSetup(c) ==
  /\ Is(c, "dropping") /\ acting[c].op = "complete"
  /\ setups' = setups \ {acting[c].ref}
  /\ Becomes(c, AtRest)
  /\ UNCHANGED <<user, mails, temps, history>>

\* regenerateBackupCodes and disableMfa: the row is read, then verifyCode reads it again.
ReadForChange(c, op) ==
  /\ Free(c) /\ user.mfa # 0
  /\ Becomes(c, [AtRest EXCEPT !.op = op, !.at = "checking", !.base = user]) /\ OnlyCall

\* Mutant: the codes are left.
DisableSecretOnly(c) ==
  /\ Is(c, "checking") /\ acting[c].op = "disable"
  /\ CheckCode(c, "disable", 0, acting[c].base, [acting[c].base EXCEPT !.mfa = 0])
  /\ OnlyCall

CheckRegenerate(c) ==
  /\ Is(c, "checking") /\ acting[c].op = "regenerate"
  /\ \E g \in NewSets :
       CheckCode(c, "regenerate", g, acting[c].base, [acting[c].base EXCEPT !.codes = CodesOf(g)])
  /\ OnlyCall

CheckDisable(c) ==
  /\ Is(c, "checking") /\ acting[c].op = "disable"
  /\ CheckCode(c, "disable", 0, acting[c].base, [acting[c].base EXCEPT !.mfa = 0, !.codes = {}])
  /\ OnlyCall

-----------------------------------------------------------------------------
(* auth.service.ts: mailed tokens *)

Unmailed == {t \in Mail : mails[t] = NoMail}

MailToken(c, type) ==
  /\ \E t \in Unmailed : mails' = [mails EXCEPT ![t] = [type |-> type, used |-> FALSE]]
  /\ UNCHANGED <<user, setups, temps, history>>

ForgotPassword(c) == Free(c) /\ MailToken(c, "password_reset") /\ UNCHANGED acting

\* resendVerificationEmail: the tokens not used yet are deleted, then one is inserted.
ResendVerificationEmail(c) ==
  /\ Free(c) /\ ~user.verified
  /\ mails' = [t \in Mail |-> IF mails[t] = [type |-> "registration", used |-> FALSE]
                              THEN [mails[t] EXCEPT !.type = "deleted"] ELSE mails[t]]
  /\ Becomes(c, [AtRest EXCEPT !.op = "resend", !.at = "mailing"])
  /\ UNCHANGED <<user, setups, temps, history>>

MailAgain(c) == Is(c, "mailing") /\ MailToken(c, "registration") /\ Becomes(c, AtRest)

\* Mutant: whether the token was used is not asked.
Sent(t) == mails[t].type \in {"registration", "password_reset"}

Open(t) == mails[t].type \in {"registration", "password_reset"} /\ ~mails[t].used

\* verifyEmail marks the token used, then reads the user.
VerifyEmail(c, t) ==
  /\ Free(c) /\ Open(t)
  /\ Becomes(c, [AtRest EXCEPT !.op = "verifyEmail", !.at = "marking", !.seen = mails[t], !.ref = t])
  /\ OnlyCall

\* resetPassword has read the user together with the token.
ResetPassword(c, t, p) ==
  /\ Free(c) /\ Open(t)
  /\ Becomes(c, [Saving("reset", [user EXCEPT !.pw = p, !.verified = TRUE], t)
                   EXCEPT !.at = "marking", !.seen = mails[t]])
  /\ OnlyCall

\* The token is saved as used; only then is the new password compared with the old.
Mark(c) ==
  LET a == acting[c]
  IN  /\ Is(c, "marking")
      /\ mails' = [mails EXCEPT ![a.ref] = [a.seen EXCEPT !.used = TRUE]]
      /\ stale' = [stale EXCEPT !.mail = @ + Lost(mails[a.ref], a.seen)]
      /\ Becomes(c, IF a.op = "verifyEmail" THEN [a EXCEPT !.at = "reading", !.seen = None]
                    ELSE IF a.copy.pw = a.base.pw THEN AtRest
                    ELSE [a EXCEPT !.at = "saving", !.seen = None])
      /\ UNCHANGED <<user, setups, temps, made, spent, begun, opened, acted>>

ReadUser(c) ==
  /\ Is(c, "reading")
  /\ Becomes(c, Saving("verifyEmail", [user EXCEPT !.verified = TRUE], acting[c].ref)) /\ OnlyCall

-----------------------------------------------------------------------------
\* The last save of the user's row, and the session a login ends with.
SaveUser(c) ==
  LET a == acting[c]
      bump(f, ops) == IF a.op \in ops THEN [f EXCEPT ![a.ref] = @ + 1] ELSE f
  IN  /\ Is(c, "saving") /\ a.found # None
      /\ user' = Overwritten(a.found, a.copy)
      /\ stale' = Counted(a.base, a.found, a.copy)
      /\ made' = bump(made, {"complete", "regenerate"})
      /\ opened' = bump(opened, {"verify"})
      /\ acted' = bump(acted, {"verifyEmail", "reset"})
      /\ Becomes(c, IF a.op = "complete" THEN [AtRest EXCEPT !.op = a.op, !.at = "dropping", !.ref = a.ref]
                    ELSE AtRest)
      /\ UNCHANGED <<mails, setups, temps, spent, begun>>

\* A refusal, an error or a restart; what was saved stays.
Refuse(c) == ~Is(c, "idle") /\ Becomes(c, AtRest) /\ OnlyCall

LoggingIn(c) ==
  \/ \E p \in Password : Login(c, p)
  \/ \E t \in Temp : VerifyMfaAndLogin(c, t)
  \/ CheckLogin(c) \/ DropTemp(c) \/ LoginWithMfa(c)

SettingUp(c) ==
  \/ InitializeSetup(c) \/ (\E g \in SetId : VerifyAndCompleteSetup(c, g)) \/ DropSetup(c)
  \/ (\E op \in {"regenerate", "disable"} : ReadForChange(c, op))
  \/ CheckRegenerate(c) \/ CheckDisable(c) \/ Spend(c)

Mailing(c) ==
  \/ ForgotPassword(c) \/ ResendVerificationEmail(c) \/ MailAgain(c)
  \/ \E t \in Mail : VerifyEmail(c, t) \/ \E p \in Password : ResetPassword(c, t, p)
  \/ Mark(c) \/ ReadUser(c)

Saves(c) ==
  \/ UpdateCurrentUser(c) \/ (\E p, q \in Password : ChangePassword(c, p, q))
  \/ CompareUser(c) \/ SaveUser(c) \/ Refuse(c)

AccountStep(c) == LoggingIn(c) \/ SettingUp(c) \/ Mailing(c) \/ Saves(c)
AccountNext == \E c \in Call : AccountStep(c)
AccountSpec == AccountInit /\ [][AccountNext]_accountVars

-----------------------------------------------------------------------------
(* Properties *)

\* However late the copies that overlapping calls save, the columns of the second factor
\* are no mixture: a user without one has no backup codes, the codes are of one set, and
\* the secret is that of a set-up that was completed.  Only a save can mix them that had
\* another one change them between its two statements.
SecondFactorIsWhole ==
  /\ user \in UserRow
  /\ stale.torn = 0 =>
       /\ user.mfa = 0 => user.codes = {}
       /\ user.mfa # 0 => made[user.mfa] > 0
       /\ \A k, l \in user.codes : k[1] = l[1]

\* A backup code is accepted once for every time its set was handed out, and once more
\* only for a change of the row that overlapping calls have lost.
CodesAreSpent == \A k \in Code : spent[k] <= made[k[1]] + stale.user

\* A token that was mailed is good for one verification or one reset, and once more only
\* if overlapping calls have marked it over each other.
MailsActOnce == \A t \in Mail : acted[t] <= 1 + stale.mail

\* The temporary token of a login that waits for its second factor opens no more
\* sessions than calls can have looked it up before the first of them deletes it.
TempLoginsBounded == \A t \in Temp : opened[t] <= Cardinality(Call)
=============================================================================
