------------------------------ MODULE MCServices ------------------------------
(***************************************************************************)
(* Accounts, Recurring, Chat, AppAccess, Assets and Invoices share no row. *)
(* They are checked side by side: the initial state chooses the part that  *)
(* runs, and the others stay in one of their initial states.               *)
(***************************************************************************)
EXTENDS Accounts, Recurring, Chat, AppAccess, Assets, Invoices, TLC

VARIABLE part  \* which part runs

partVars == <<accountVars, recurringVars, chatVars, accessVars, assetVars, invoiceVars>>
MCEnds == [s \in Schedule |-> 5]
\* Months of three, two and three days: what is due on the third of the first is due again
\* on the first of the third.
MCGap == [d \in Day |-> IF d \in {3, 4} THEN 2 ELSE 3]
MCRows == Permutations(Call) \cup Permutations(Payment)

\* An account's mailed tokens and its second factor are checked apart: the first for an
\* address that is not verified yet, the second for one with no token left.  Passwords are
\* changed in the first only.  Of the second factor, the two-step login and the changes that
\* ask for a code are again apart ("temps" and "codes"); each runs with the set-up and with
\* the other logins, which take a code by the same steps.
AnyPassword == CHOOSE p \in Password : TRUE
StillAccount == AccountStart(FALSE, 1) /\ user.pw = AnyPassword
StillChat == ChatInit /\ InChat = {Opener}
StillAsset == AssetInit /\ asset.method = "WDV"
StillInvoice == InvoiceInit /\ invoice.status = "draft"

UsesFactor(c) == LoggingIn(c) \/ SettingUp(c) \/ CompareUser(c) \/ SaveUser(c) \/ Refuse(c)
Changes(c) == acting'[c].op \in {"regenerate", "disable"}

MCInit ==
  \/ /\ part = "mail" /\ StillAccount
     /\ RecurringInit /\ StillChat /\ AccessInit /\ StillAsset /\ StillInvoice
  \/ /\ part \in {"temps", "codes"} /\ AccountStart(TRUE, MaxMails) /\ user.pw = AnyPassword
     /\ RecurringInit /\ StillChat /\ AccessInit /\ StillAsset /\ StillInvoice
  \/ /\ part = "recurring" /\ RecurringInit
     /\ StillAccount /\ StillChat /\ AccessInit /\ StillAsset /\ StillInvoice
  \/ /\ part \in {"chat", "badges"} /\ ChatInit
     /\ StillAccount /\ RecurringInit /\ AccessInit /\ StillAsset /\ StillInvoice
  \/ /\ part = "access" /\ AccessInit
     /\ StillAccount /\ RecurringInit /\ StillChat /\ StillAsset /\ StillInvoice
  \/ /\ part = "asset" /\ AssetInit
     /\ StillAccount /\ RecurringInit /\ StillChat /\ AccessInit /\ StillInvoice
  \/ /\ part = "invoice" /\ InvoiceInit
     /\ StillAccount /\ RecurringInit /\ StillChat /\ AccessInit /\ StillAsset

MCNext ==
  \/ /\ part = "mail" /\ \E c \in Call : LoggingIn(c) \/ Mailing(c) \/ Saves(c)
     /\ UNCHANGED <<part, recurringVars, chatVars, accessVars, assetVars, invoiceVars>>
  \/ /\ \E c \in Call : UsesFactor(c) /\ IF part = "temps" THEN ~Changes(c)
                                         ELSE part = "codes" /\ temps' = {}
     /\ UNCHANGED <<part, recurringVars, chatVars, accessVars, assetVars, invoiceVars>>
  \/ /\ part = "recurring" /\ RecurringNext
     /\ UNCHANGED <<part, accountVars, chatVars, accessVars, assetVars, invoiceVars>>
  \/ /\ \/ part = "chat" /\ \E c \in Call : Status(c) \/ Adding(c) \/ Messages(c)
        \/ part = "badges" /\ \E c \in Call : Members(c) \/ Adding(c) \/ Messages(c)
     /\ UNCHANGED <<part, accountVars, recurringVars, accessVars, assetVars, invoiceVars>>
  \/ /\ part = "access" /\ AccessNext
     /\ UNCHANGED <<part, accountVars, recurringVars, chatVars, assetVars, invoiceVars>>
  \/ /\ part = "asset" /\ AssetNext
     /\ UNCHANGED <<part, accountVars, recurringVars, chatVars, accessVars, invoiceVars>>
  \/ /\ part = "invoice" /\ InvoiceNext
     /\ UNCHANGED <<part, accountVars, recurringVars, chatVars, accessVars, assetVars>>

MCSpec == MCInit /\ [][MCNext]_<<part, partVars>>
=============================================================================
