# Mero Jugx in TLA+

Mero Jugx is a multi-tenant ERP platform for Nepal: a NestJS API over TypeORM and
PostgreSQL (`src/api/src`), marketplace apps that run inside it
(`src/api/marketplace`) and React front ends (`src/app`). Organizations subscribe to a
package and to apps, pay through local and international gateways, invite members under
the limits of their package, and keep accounts, stock, customers and staff in the apps.

This directory holds the formal model of the platform's core, the TLC configurations that
check it on small instances, and TLAPS proofs for every instance. Paths below are relative
to the repository; line numbers of every definition are in `PROJECT.json` ("map").

What makes this code hard is the same everywhere: a request or a cron job reads rows,
awaits (another query, a gateway, a mail server), and saves. No row is locked, few
handlers use a transaction, and TypeORM's `save()` writes every column in which the copy
differs from the stored row, so a stale copy undoes what happened since, and a copy of a
deleted row is inserted again. **One action of these modules is what the code does between
two awaits**, so that everything else can happen in between.

## 1. Inventory

| Component | State | Operations | Correct when |
|---|---|---|---|
| Payments (`payments`) | `payments` rows; the gateways' ledgers | createPayment, verifyPayment, handlePostPaymentActions, six adapters | paid only with money; settled once; what was paid is handed over, and not too often |
| App subscriptions, invoices (`apps`, `invoices`) | `organization_apps`, `invoices`, `user_app_access`, `apps.subscription_count` | purchaseApp, updateSubscription, cancelSubscription, renewSubscription, payInvoice, payAllInvoices, getInvoices, grantAccess, four cron jobs | no use without money; bills follow periods; trials and periods end |
| Packages (`packages`) | the organization's package, end and limits; `organization_package_features` | upgradePackage, purchaseFeature, cancelFeature, toggleAutoRenew, repairBranchLimits, midnight job | limits are those of the package and its features; paid periods end; a refusal changes nothing |
| Membership (`invitations`, parts of `users`, `roles`) | `users`, `organization_members`, `invitations` | createInvitation, acceptInvitation, cancelInvitation, revokeAccess, assignRoleToUser | the founder stays; one membership and one open invitation per person |
| Roles and permissions (`roles`, `permissions`) | roles, their permissions, time-based grants | createRoleFromTemplate, deleteRole, approval of grants | no member with a deleted role; a grant ends |
| Organizations, branches (`organizations`) | `organizations`, documents, branding | registration, createBranch, deleteBranch, data transfer | branches within limits |
| Accounts: authentication and MFA (`auth`, `mfa`, parts of `users`) | the `users` row, `email_verifications`, Redis keys of set-ups and waiting logins, sessions | login with and without a second factor, set-up, switching off, regeneration, verifyEmail, resetPassword, changePassword | secret and codes belong together; a code, a mailed token, a waiting login counts once |
| App access (`apps/app-access`, `apps/app-invitation`) | `user_app_access`, `app_invitations` | grant, revoke, invite, accept, decline, cancel | accepted means granted; one grant per invitation |
| Inventory (`mero-inventory`) | `stock`, `stock_movements`, purchase and sales orders, GRNs, shipments | adjustStock, confirm GRN, ship, adjust, reserve | quantity = sum of movements; one receipt per GRN |
| Accounting ledger (`mero-accounting`) | accounts, journal entries, invoices, customers, allocations, fiscal years | post, take back, pay, allocate, delete, close the year | balances, debts and paid amounts follow the posted entries; a closed year is closed exactly |
| Recurring transactions (`mero-accounting`) | `recurring_transactions` | edit, pause, delete, the job at midnight | no occurrence that the dates give is skipped, none created twice |
| Fixed assets (`mero-accounting`) | `fixed_assets`, `depreciation_logs` | depreciate, revalue, dispose | accumulated = logged; book value = what is left of the cost; disposed of once |
| Banking, cheques, budgets, reports | statements, cheques, budgets | reconcile, clear, bounce | follow the ledger |
| HR (`mero-hr`) | leave requests, balances, payroll | request, approve, reject, pay | balance = granted - approved |
| Khata (`mero-khata`) | customers, transactions, balances | add, edit, delete | balance = sum of transactions |
| CRM (`mero-crm`) | leads, deals, quotes; `crm_invoices`, `crm_payments` | convert; record, change, remove a payment; edit, send, remove an invoice | the payment status is that of the payments; a sent invoice is in the ledger |
| Projects board (`mero-board`, `boards`, `tasks`) | projects, tasks, dependencies | move, link, template | acyclic dependencies, dense order |
| Chat (`chat`) | `chats`, `chat_members`, `messages` | add, remove, leave, send, read, archive, delete | badges count what was not read; who is gone and what is deleted stays so |
| Calls (`chat/call`) | call sessions, participants | initiate, join, leave, end | a call without participants has ended |
| Webhooks, workflows, API keys (`integrations`, `workflows`) | webhooks, failure counts | deliver, retry, disable | failures are counted |
| CMS, tickets, notifications, mail, billing views, monitoring, analytics, search, audit | rows of their own | CRUD, sends, queries | no protocol |
| Front ends (`src/app`) | none of the system's own | forms and views | out of scope |

How they interact. A purchase of an app or a payment of an invoice calls `createPayment`; the
gateway sends the customer back and the front end calls `verifyPayment`, which asks the
gateway, saves the outcome and calls `handlePostPaymentActions`, which activates the
subscription, grants access and settles the invoice. Package changes write the limits that
invitations, roles and branches are compared with. Cron jobs write the same rows as requests.
Shared state is the database only; there are no messages between parts but function calls.
Hard behaviours: overlapping requests, jobs against requests, a gateway that answers late or
not at all, a process that restarts between two writes, a second write that is refused after
the first. `PROJECT.json` lists each as a hazard at its line, with the properties that
cover it or the reason none does.

## 2. Modules and how they correspond to the code

| Module | What it is |
|---|---|
| `Payments` | `payments.service.ts` and the six adapters |
| `PaymentSettlement` | abstract specification: what the platform expects of a payment |
| `PaymentRefinement` | the mapping from `Payments` to `PaymentSettlement` |
| `AppSubscriptions` | subscriptions, invoices and jobs; extends `Payments`, so that a step of both is one step |
| `Packages` | package, features, limits and the midnight job |
| `Membership` | invitations, members, role assignment |
| `Ledger` | the books: invoices, receipts, bulk receipts, journal entries, closing of a year |
| `Server` | what the next six share: slots for calls, and what a save over a changed row loses |
| `Accounts` | one user's account: password, address, second factor, mailed tokens |
| `Recurring` | recurring transactions and their midnight job |
| `Chat` | one group chat: members, status, messages, unread counts |
| `AppAccess` | access to one app, and invitations to it |
| `Assets` | one fixed asset |
| `Invoices` | one CRM invoice and its payments |
| `MCAppSubscriptions`, `MCPackages`, `MCMembership`, `MCLedger` | values for TLC: roles, scaled-down seed data, symmetry |
| `MCServices` | the six small modules side by side, one running at a time |
| `PaymentsProofs` | theorems and proofs about `Payments`, its refinement, and `AppSubscriptions` |
| `PackagesProofs`, `MembershipProofs`, `LedgerProofs` | theorems and proofs about these modules |
| `AccountsProofs`, `ChatProofs`, `AccessProofs`, `BooksProofs` | theorems and proofs about the small modules, `BooksProofs` about `Assets`, `Invoices` and `Recurring` |

**Payments.** `status`, `gateway` are columns; `form` says whether the gateway's form has reached
the customer (it only does when `createPayment` and its caller return); `funds` is the gateway's
own ledger, which is outside the code. `pc` and `target` are the calls of `verifyPayment` in
flight. `BeginVerify` is the read and the early returns; `AnswerSuccess`, `AnswerFailure`,
`AnswerThrows` are what each adapter can make of the gateway's answer: eSewa, Stripe and IME Pay
turn a network error into 'failure', PayPal and Khalti throw, Khalti's 'SUCCESS' is not the 'success'
that `verifyPayment` compares with and counts as a failure, ConnectIPS is not asked (the callback
counts as the answer). `Confirms(p, q)` says when the answer for row `p` may be a success if the request
names payment `q`'s session or order: eSewa and IME Pay are asked about `p`, Stripe and PayPal about `q`,
and nothing compares the two. `Funded(p)` is accordingly the money that stands behind `p`: its own, or at
Stripe and PayPal that of any payment made there. A PayPal order is captured once (`Captured`). `SaveCompleted` and `SaveFailed` write whatever the row holds by now.
`deliveries` counts calls of `handlePostPaymentActions`.

**AppSubscriptions.** A worker's `job` holds the copy it read (`row`), the payment it made and the
access it has still to grant. `ReadFor...` actions are the checks and the read, `Pay` is
`createPayment` (the same step as in `Payments`), `SaveSubscription` overwrites the row with
the copy, `InsertRefused` is the unique index on organization and app. `LookUpPurchase`,
`ActivateSubscription`, `Count`, `GrantNext`, `SettleInvoice`, `EndPurchase` are the SUBSCRIPTION
branch of `handlePostPaymentActions`. `List...` and `ExpireListed`, `InvoiceListed` are the jobs, which
read their rows and then treat them one by one. `LoadedRelationWins` names a fact about the ORM: a
row saved with a loaded `payment` relation keeps that relation's key; all runs set it TRUE.

**Packages.** `org` is the row, `feature` the row per feature, `usage` what counts against the limits.
`upgradePackage` is `ReadForUpgrade`, `CalculateLimits` (with `validateDowngrade`), `UpdatePackage`,
`VerifyPackage`, `ListRedundant`, `CancelRedundant`, `LookUpBundled`, `InsertFeature`; an `update()`
names its columns, a `save()` is two statements, a SELECT (`CompareOrganization`) and an UPDATE of the columns that
differed (`WriteOrganization`). `mixed` remembers whether the row, or the copy it was written from, came out of
a save that another write had overtaken between the two (`Torn`). `LimitsOf` is `calculateLimits`.
`Reverted` is what the midnight job writes: base limits of the free package, `branch_limit` untouched.
Not modelled: prices, prorated credit, and the warnings three days ahead, which write nothing but notices.

**Membership.** `member[u]` is the membership row with an `id`, because a saved copy of a deleted row is
inserted anew and a newer row makes the unique index refuse it (`Storable`). `found` says what
`createInvitation` has found of earlier invitations: nothing, one that is late (any one of the pending ones is looked
at, another may be open), or nothing because the email was typed with other capitals: the search for members
and invitations uses it as typed, the invitation is stored in lower case ("missed"). `Break` ends a call after any of its writes. Roles do not change here.

**Ledger.** A call is one database transaction: `Plan` is what it has read and will save, `ReadBalances` the
`findOne` of each account just before it is saved, `Commit` the end. Nothing locks a row while it is
read, so a commit may write over what another one has saved since; which columns survive depends on
the statements' order, and is not modelled: such a commit sets `raced`, and the properties speak of
histories without it. A commit marks every call that is going to save one of the rows it has written
(`Overlap`) as `stale`; the mark stays, also if a third commit writes the old value back. (Two overlapping
transactions that do not save the same row are not races and are covered, and so is a transaction that has
only read what another one saves.) `Touches` is what one unit of an entry adds to each account on its normal side.
`bypassed` remembers that the entry of an invoice or a receipt was posted or deleted through the plain
journal functions, which leave invoice and customer alone. `closeFiscalYear` is `CloseRead`, four
transactions of the journal service (`CloseStep`) and `CloseMark`; `since` is the revenue posted since its sum.
A bulk receipt is received as `amount` and allocated as `alloc`, which may differ by the tolerance of 0.01
(`Rests`); un-posting it takes `amount` off the accounts and the sum of `alloc` off the customer, so that each one
taken back may move the two apart by 0.01, which is what `ReceiptsAgree` allows.
Not modelled: purchase invoices and credit notes (the mirror image), VAT and TDS lines (they go the way
of the revenue line), entry numbers.

**Accounts.** `user` is the row: the password, `verified`, `mfa` (which set-up's secret is in force) and
`codes`. Every handler that ends in `save(user)` is a read (`Login`, `ChangePassword`, `CheckLogin`, ...)
and, later, a save of that copy: its SELECT (`CompareUser`) and its UPDATE (`Spend`, `SaveUser`). `verifyCode` is `CheckCode` and `Spend`: it reads the row
on its own, so that `disableMfa` and `regenerateBackupCodes` save a copy from before the code was taken
off. `temps` and `setups` are Redis keys; `mails` are rows of `email_verifications`. `stale` counts the
saves that wrote over a change, and those where the second factor changed between SELECT and UPDATE (`torn`).

**Recurring.** The job's run is `Midnight` (it lists what is due), then for each row `CreateTransaction` and
`MoveOn` of the copy that was listed. `NightBreaks` ends it anywhere. Edits are a read and a save or
a removal. Days stand for dates; `Gap[d]` is what the date arithmetic of the schedule's frequency adds to day `d`: a
constant, or as many days as the month or year has, so that a short month can be passed over (31 January is
followed by 3 March). Which days are occurrences is taken from the code.

**Chat.** A chat is saved with the list of members it was loaded with (`SaveChat`): TypeORM tries to
unlink a row that is not in that list, whose `chat_id` may not be NULL, so the save fails when a member was
added meanwhile, after the message has been stored. `sendMessage` is `SendMessage`, `StoreMessage`, `SaveChat`,
`CountMessage`; `getMessages` is `Page`, `ReadMember`, `StoreMember`. A page holds at most `limit` messages, the newest or
some older ones, but the whole badge is cleared; `asked` is therefore not what a member has been shown but how
many messages there were when they last asked. `markMessagesAsRead` and
`markMessagesAsDelivered` insert rows without the NOT NULL `organization_id`, always fail, and are left out.

**AppAccess.** `Grant` and `SaveGrant` are `grantAccess`, which `acceptInvitation` calls as well
(`AcceptedGrant`); the unique index on user, organization and app refuses a second row. `mishaps`
counts acceptances that ended between access and invitation, and saves over a changed status.

**Assets.** `Compare` is the SELECT of a `save()`, which finds the columns in which the copy differs, `Write`
takes the row's lock, `Commit` makes those columns visible. Amounts are hundredths, rounded where a `decimal(15,2)`
column takes them. The code computes in doubles, so that what is exactly half a hundredth may be rounded either way,
in the log, in the accumulated depreciation and in the book value independently (`Rounded` is the set of
outcomes), and a book value that comes to the salvage value may be taken to be above it (`Depreciated`). `halves`
counts the depreciations where that can happen.

**Invoices.** An invoice may be created in any status, SENT included, without being posted. `StatusesOver` is the
set of payment statuses that a sum of doubles can give: several payments that make up the total exactly may
add up to less (0.7 + 0.1 < 0.8) and leave PARTIALLY. A call on a payment is `CreatePayment`, `UpdatePayment` or `RemovePayment` (what it reads), then
`SavePayment`, then `UpdatePaymentStatus`, which reads the invoice with all its payments, removed ones
included, and saves it. Since the list of payments is loaded, the save compares it with the table
(`CompareInvoice`) and would set `invoice_id` of a payment it does not know to NULL, which the column
refuses (`Detaches`): the call fails after its own payment was stored, and whoever stored the unknown
payment recounts. Only a payment that comes between the SELECT and the UPDATE (`WriteInvoice`) escapes; `upsets`
counts those, changes of an amount between the reading and the SELECT, and statuses that an edit writes by
itself. An edit to SENT goes on to `PostToAccounting`.

**MCServices.** These six modules share no row, so that their product says nothing new. `part` chooses in the
initial state which of them runs; of the account, mailed tokens and second factor run apart, and of
the second factor the two-step login (`temps`) and the changes that ask for a code (`codes`), both with the set-up and
the one-step logins, which check and spend a code by the same steps; of
the chat its status and its members, since the two do not meet in any property. The theorems have all of them together.

## 3. Runs

| Run | Question | Result |
|---|---|---|
| `payments` | two payments at Stripe or PayPal, two overlapping verifications which name either one's session or order, a restart | types; COMPLETED only with money at the gateway, and no more payments by PayPal than orders captured; hand-overs at most the number of slots; settled rows final once no call is in flight; a confirmed payment is handed over unless the process restarts |
| `payments_serial` | verifications one at a time, of a payment in Nepal and two abroad | refines `PaymentSettlement`, with progress |
| `payments_late_failure` | does a handed-over payment stay COMPLETED? | **no** (finding 1) |
| `subs_overlap` | two overlapping calls on one paid app, a verification, the jobs | no use without money; a shown purchase is booked; the composition implements `Payments` |
| `subs_renewals` | two payments on one app, renewals, two invoices | `next_billing_date` is always `subscription_end`; no use before one of the payments has money behind it |
| `subs_schedulers` | a free app with a trial, a restart, two days | types; every trial and every period ends |
| `subs_purchase_stored` | is a purchase after a cancellation stored? | **no** (finding 2) |
| `packages` | a call at a time beside the midnight job, three packages, a feature of each kind, two days, restarts | types; the row is a mixture of two packages only after a save that was overtaken between SELECT and UPDATE; a paid period ends |
| `packages_refused` | does a refused cancellation change nothing? | **no** (finding 3) |
| `membership` | two overlapping calls, each may break off; invitations whatever the search before them finds | types; the founder stays owner unless invited past the search; of the invitations made where the search found none, no more are open than calls |
| `ledger` | two invoices, two entries of any kind, two overlapping transactions, closings | account balances are the sums of posted lines (`BooksAgree`); paid amounts are the posted receipts and allocations, the debt is the receivables account, but for 0.01 per bulk receipt taken back (`ReceiptsAgree`); PAID is paid in full; a closed year keeps exactly what was posted later (`ClosingIsExact`) |
| `services` | each of the six small modules with two overlapping calls that may break off anywhere | *Accounts*: secret and codes not mixed but by a save that was overtaken between SELECT and UPDATE; codes, mailed tokens and waiting logins used no more often than overlapping calls can; *Recurring*: no occurrence skipped, twice only after a broken night or a lost save; *Chat*: a badge counts what came after its reader last asked for a page; *AppAccess*: accepted means granted, grants bounded; *Assets*: accumulated is logged and book value is what is left of the cost, each but for a hundredth per depreciation that came to a half; disposed of once; *Invoices*: whatever overlaps, the payment status fits all payments; what is SENT was posted (or created SENT, or its posting failed), and posted twice only if it left SENT or edits to SENT overlapped |

Each property has a mutant in `PROJECT.json`, a plausible slip in one definition (a dropped status
check, a forgotten column, an equality for a comparison) under which its run fails.

### Findings

1. `payments.service.ts:586`: a verification that was told 'failure' (a network error counts)
   saves FAILED over the COMPLETED an overlapping one has written and is handing over.
2. `organization-apps.service.ts:275`: buying an app again after a cancellation or expiry, or
   converting a trial, inserts a second row; the unique index refuses it after the payment and the
   invoice have been saved.
3. `packages.service.ts:787`: `cancelFeature` saves before it validates; its refusal leaves the
   feature cancelled and the limits lowered.

Met while modelling, and in the models as the code has them, without a run that says so:

- `app-subscription-scheduler.service.ts:72`: the job updates the rows it has listed by id alone, also one
  that was activated in the meantime.
- `payments.service.ts:494`, `:504`: Stripe and PayPal are asked about the session or order that the request names, which
  is not compared with the payment; `khalti.service.ts:73` answers 'SUCCESS', which `payments.service.ts:518` does
  not take for a success.
- `packages.service.ts:695`: a feature that was cancelled cannot be bought again (the unique index refuses the new row),
  where the check at `:672` and the bundling at `:478` mean it to be.
- `invitations.service.ts:177`: of several pending invitations one is looked at, so that a late one hides another that
  is open; and the search (`:168`, `:180`) uses the email as typed, where what is stored is in lower case.
- `chat.service.ts:388`: `findOne` does not look at the chat's status, so a deleted chat takes
  messages and can be unarchived; `addMembers` (`:515`) cannot bring back anybody who left; `:980` clears the whole
  badge although a page holds at most 50 messages.
- `payment-allocation.service.ts:394`: un-posting takes the amount received off the accounts and the amounts allocated off
  the customer, which `:65` and `:91` allow to differ by 0.01.
- `recurring-transactions.service.ts:182`: what is due monthly on the 31st passes over short months.
- `sales-invoices.service.ts`: posting an invoice or a receipt looks at no fiscal year, so it goes on after
  the closing; posting a draft receipt (`postPayment`) does not compare it with what is due.
- `fixed-assets.service.ts:149`: log, accumulated depreciation and book value are rounded apart: for every depreciation
  that comes to half a hundredth they can move apart by one (`LogsAgree` and `WorthIsLeft` state just that bound).
- `journal-entries.service.ts`: an entry created with status POSTED always fails, since posting asks for APPROVED.
- `app-access.service.ts:155`: granting to somebody who has access is refused, where a comment in
  `organization-apps.controller.ts` says it updates; updating the role of a revoked user grants access again.

- `mero-crm/src/services/invoices.service.ts:177`: payments are added as doubles, so that several which make up the total can
  leave the invoice PARTIALLY paid; `:55` creates an invoice SENT without posting it; removed payments are still counted, so removing one never changes the
  status; a call whose save is refused answers with an error although its payment is stored, and a retry
  stores it twice. Editing the items (`:132`) deletes and inserts them, then fails in the save of the invoice. An
  invoice with a discount is not balanced in `postInvoiceToAccounting` and never reaches the ledger.

## 4. Bounds, and why they are enough

Deadlock is not checked: every one of these systems may come to rest (nothing due, bounds reached).

- *Payments*: in the run `payments` both payments are abroad, since only there a request for one can name the other's
  session or order; `payments_serial` adds one in Nepal, and the gateways there ask about the payment alone. Two slots give every pair of overlapping verifications, one restart every
  place a call can be lost. The proofs remove these bounds.
- *AppSubscriptions*: one app, since no handler looks at two. `subs_overlap` has two API slots, one
  verification, one payment; `subs_renewals` one slot and two payments; `subs_schedulers` a free app
  with a one-day trial over two days, so that a trial can lapse and a purchase can follow. The
  first two have `TrialDays = 0`, to make access depend on money alone. `MaxInvoices` 1 or 2,
  `MaxCount` 2 (how far `subscription_count` may drift; beyond it a call does not start). Its safety properties are
  proved for any apps, slots, payments and days.
- *Packages*: limits scaled to 0..2, three packages (free, one with a limit, one that bundles
  features), `Period = 1`, two days: a period can lapse and be bought again. One call runs beside the
  midnight job, which writes the same row, so that a save is overtaken by the job and the row is mixed in the run;
  overlapping calls are covered by `RowNeverMixed`, which holds for any number. `MaxUsage` bounds members, roles and branches.
- *Membership*: the founder and one other person, the roles owner and admin (a custom role was left out for
  room, and with it an admin's invitations and assignments, which go below admin only; the theorems have both), two seats, two calls, two
  invitations per history, two days, one membership row per person (`MaxRows`: whoever was removed is not inserted
  anew in the run, which the theorems cover). Two calls are what the races need. The search before
  an invitation finds whatever it can, so that the run has invitations of members, of the founder and past open ones.
- *Ledger*: two invoices of 2 (interchangeable, as are the calls) and receipts of 1, so that one can be paid in
  part, in full and, after a correction, too much, and a bulk receipt can pay both. `Rests` is 0 or 0.01 received
  too much; the theorems allow too little as well. Bulk receipts and closings occur in separate histories (`Apart` in `MCLedger`):
  a bulk receipt touches neither revenue nor the fiscal year, which is all a closing reads; the theorems have them together. Two ids for entries ever inserted (`MaxEntries`): an invoice's and a receipt's, a
  receipt's and a bulk one's, a journal entry's and the closing one's meet in every order. `MaxOwed` stops
  a debt that repeated postings let grow; no call begins after a race. The theorems hold for any invoices, amounts,
  calls and bounds.
- *Services*: two calls each. Accounts: two passwords, two sets of one code each, three mails, one waiting
  login; a set-up is not completed twice (`MaxMade`), and no call begins after a save has been lost (`MaxStale`):
  what one loss can do is seen, what two can do is left to the theorems. Recurring: one schedule from day 2 of 5 on, moved on by
  two days or three as the day has it (`MCGap`), so that a day can be passed over; one broken night, one lost save. Chat: two people, two messages. AppAccess: one
  guest, two invitations, one mishap. Assets: a cost of 5 hundredths with a salvage value of 2 over two months or at half a month, so that halves
  occur in every column, revalued at 4, two runs, one clash. Invoices: two payments of 1 or 2 for a total of 2 (so that two
  make it up exactly), an edit may set PAID by hand, no call begins after one upset, one time the invoice left SENT, or
  two turns to SENT without a posting. Every property of this
  run is proved for all values.

Symmetry is used for calls, payments, invoices of the ledger and passwords, only in runs whose properties are not liveness.

## 5. Fairness

- `Payments!FairSpec`: weak fairness of each call's steps. Promises resolve and the event loop runs
  their continuations; that a gateway call ends with an answer or a broken connection is assumed.
  Customers, new calls and restarts are not fair.
- `SubFairSpec`: weak fairness of listing and treating by the two expiry jobs: crons fire every hour
  or midnight, and a run goes on. Requests are not fair. Weak fairness is enough here since the run
  has a bounded number of restarts.
- `Packages!FairSpec`: weak fairness of the listing, strong fairness of `RevertListed`: restarts are
  not counted there, and it is assumed that they do not interrupt every single run.

## 6. Proofs

TLAPS checks the following for all values of the constants under the modules' named ASSUMEs, which TLC
evaluates in the runs. They say that slots, apps and `None` are different things, that prices, amounts and spans are
numbers of the right sign, that a table has finitely many rows (`InvoicesAreFinite`, `CallsAreFinite`), and that
bounds are numbers. In `Ledger` the sign is a restriction (`AmountsArePositive`): `recordPayment` and the bulk receipts
refuse an amount that is not positive, but nothing refuses such a total of an invoice or a changed amount in
`updatePayment`; the theorems about the ledger speak of books without them.

An invariant the runs check is seldom inductive; the strengthening is named.

| Theorem | Statement | Inductive invariant |
|---|---|---|
| `TypeCorrect` | `Spec => []TypeOK` | `TypeOK` |
| `PaidBeforeCompleted` | `Spec => []CompletedIsFunded` | `FundsInv`: a call knows its row, and past a 'success' the money is there (`SuccessIsFunded`) |
| `OrdersPayForOne` | `Spec => []OrdersPayOnce` | `ClaimInv`: the PayPal payments that are COMPLETED, or that a call has been told are (`Claims`), are no more than the orders captured (`Orders`); a success adds one to each |
| `SettledForGood` | `Spec => SettledIsFinal` | `FundsInv` |
| `HandOversBounded` | `Spec => []DeliveriesBounded` | `DeliveryInv`: deliveries plus the calls that may still deliver are at most the slots (`DeliveriesUseCalls`), and nothing was delivered from an unsettled row |
| `SerialCallsSettle` | with one slot, `Spec => ImplementsSettlement` | `SerialInv`: a call that asks has a PENDING row, one that completed a COMPLETED and undelivered one |
| `SubscriptionTypes` | `SubSpec => []SubTypeOK` | `SubTyped`: what a call carries fits the place it has come to (`JobsFit`), every payment made has a purpose (`PurposesFit`), and `FundsInv` |
| `SubscriptionsKeepPayments` | `SubSpec => ImplementsPayments`: the composition implements `Payments`, so that its theorems hold of every marketplace | `SubTyped`; each action is a step of `Payments` or leaves its variables alone (`StepsArePayments`) |
| `BillsAtTheEnd` | `SubSpec => []BillingFollowsPeriod` | `BillingInv`: in the copies that calls and jobs carry, too (`CopiesBill`) |
| `NoPaidAppWithoutMoney` | `SubSpec => []PaidAppNeedsMoney` | `MoneyInv`: no copy of a paid app's row is ACTIVE before there is money (`CopiesPaid`); a paid app has a trial only where there are trials (`NoTrials`) |
| `ShownPurchasesStayLinked` | `SubSpec => []ShownPurchaseIsLinked` | `LinksInv`: the payment a row or a copy points to is one for its app (`RowLinked`, `CopyLinked`); `ShownInv`: as long as a payment is the only one for its app, no copy that can still be saved points elsewhere (`SoleLinked`) |
| `PackagesTypeCorrect` | `Spec => []PackagesTypeOK` | `TypeInv`: a call keeps the package or feature it works on; lemma `LargestGrant`: `calculateLimits` always has a maximum |
| `RowNeverMixed` | `Spec => []RowIsConsistent` | `RowInv`: copies about to be saved are consistent rows too, unless the row they were read from was mixed; limits about to be written are those of the target package (`CopiesAreConsistent`) |
| `MembershipTypeCorrect` | `Spec => []MembershipTypeOK` | `TypeInv`: who is about to be made a member has an account (`CallsAreSound`) |
| `FounderStays` | `Spec => []OwnerStays` | `OwnerInv`: until an invitation of the founder has been stored past the search (`Missed`), no invitation and no call is about the founder but one that is about to store it (`FounderIsLeftAlone`) |
| `InvitationsStayFew` | `Spec => []PendingBounded` | `PendingInv`: `TypeInv` and the bound itself; the work is in how the open invitations of a person and the calls about to insert one change together |
| `BooksStayBalanced` | `Spec => []BooksAgree` | `Inv` of `LedgerProofs`, see below |
| `DebtsFollowReceipts` | `Spec => []ReceiptsAgree` | `Inv` |
| `PaidMeansPaid` | `Spec => []PaidInFull` | `Inv`: every row saved or about to be saved that says PAID is paid (`InvoiceRow`) |
| `ClosedYearsAreExact` | `Spec => []ClosingIsExact` | `Inv`: while a year is being closed, the revenue account holds its sum, or nothing any more, and what others have posted since; the entry made for it is of that sum (`Summed`) |
| `SecondFactorStaysWhole`, `CodesStaySpent`, `MailsActJustOnce`, `TempLoginsStayBounded` | `AccountSpec => []SecondFactorIsWhole`, `[]CodesAreSpent`, `[]MailsActOnce`, `[]TempLoginsBounded` | `AccountInv`: copies about to be saved, and the rows they are compared with, are whole as long as no save was torn (`CallsAreSound`); a code still on the row can be accepted once more within its bound (`CodesCounted`); sessions opened and calls that hold the temporary token are together at most the calls (`TempsCounted`), uses of a mailed token and calls about to use it at most one and the lost saves (`MailsCounted`) |
| `NothingSkipped`, `NothingTwice` | `RecurringSpec => []NoneSkipped`, `[]CreatedOnce` | `RecInv`: `CopiesCaught` (every row, listed copy and edited copy stands at a day reached from an occurrence that was created, and every occurrence created was reached so), `OncePerMove` (an occurrence still to come has not been created yet, up to what is excused) |
| `BadgesAlwaysCount` | `ChatSpec => []BadgeCounts` | `ChatInv`: `CallsAreSound`, `BadgesCount` (also of the copies about to be stored) |
| `AcceptedHasGranted`, `GrantsStayBounded` | `AccessSpec => []AcceptedIsGranted`, `[]GrantsBounded` | `AccessInv`: who is accepting has granted (`AcceptingHasGranted`); grants and the calls that may still grant are counted together (`GrantsCounted`) |
| `AccumulatedIsLogged`, `BookValueIsLeft`, `NoSecondDisposal` | `AssetSpec => []LogsAgree`, `[]WorthIsLeft`, `[]DisposedOnce` | `AssetInv`: a copy is what the transaction should make of the row it has read (`CopyIsSound`), and that row had no more depreciation than is logged (`BookingInv`); how the three roundings of one amount relate, in lemmas of their own (`Apportioned`, `SameOrHalf`) |
| `StatusIsOfPayments`, `SentInvoiceIsBooked` | `InvoiceSpec => []StatusFollowsPayments`, `[]SentIsBooked` | `InvoiceInv`: without an upset, either the status fits or a call is on its way to write one that does (`StatusIsRestored`); once SENT, or SENT in a copy, the invoice is posted, being posted, or one of those without a posting (`SendingIsBooked`); drafts, posted or on their way, have a turn to SENT each (`DraftsAreTurns`) |

`SerialCallsSettle` assumes that no two calls of `verifyPayment` overlap (`r = q` for any two slots); with
overlap it is false, as `payments_late_failure` and the bound of `HandOversBounded` show.

**The ledger's invariant.** That the sums agree is not inductive: a commit writes absolute values which were
computed from rows that other calls may have changed. The debt is not exact: it is within 0.01 of the receivables
account per bulk receipt that is not POSTED (`OwedFits`), so a plan moves the two together up to the bulk receipts it takes back
(`OwedExact`). `Inv` says that, until a commit writes over such a
row, what each call has planned is still an *exact* change of the tables as they are now (`PlanHolds`,
`Exact`): its lines are those of the entries it posts or takes back, each invoice's paid amount
moves with them, and so does the debt within that margin. Other calls' commits keep that, because a plan that is not `stale` saves rows they have not
written (`CommitPlans`). Taking an invoice back reverses its own total and removes its own entry, which is
right because an invoice has at most one, of its total, and none while it is a draft (`OwnFits`); for that, a plan
must not change the total of an invoice that has left DRAFT, nor set it back without removing the entry
(`InvoicesExact`, `EntriesExact`, `OwnComesAlone`).

The sums are the community modules' `SumFunctionOnSet`, whose definition recurs over subsets. The library's
induction theorems cannot be used here (they take an operator as parameter), so `LedgerProofs` begins with a theory
of finite sums made without them: the recursive function exists and is unique, by looking at a smallest set on which
it would not be (`LeastNumber`, `SumExists`, `SumUnique`), any element may be taken out first (`TotalRemove`), and from that
what the proofs need: zeros can be left out, sums add up, a change of some terms changes the sum by the change
of these (`TotalOfRest`, `TotalPlus`, `TotalChange`).

Only model-checked: liveness (`SuccessIsDelivered`, `ImplementsFairSettlement`, `TrialsEnd`, `PeriodsEnd`,
`PackageEnds`), which is beyond this prover. Every other property of a passing run is stated by a theorem.

## 7. Honest limits of the model

- ConnectIPS is excepted from `CompletedIsFunded`: the code does not ask the gateway. For Stripe and PayPal the property
  says no more than that there is money at the gateway, since the code does not tie an answer to a payment.
- The package-upgrade branch of `handlePostPaymentActions` is counted as a delivery only; it is not
  joined with `Packages`, where an upgrade starts with the call of `upgradePackage`.
- `CalculateLimits` and `Recalculate` read the features in one step; what the code reads beside them
  is independent.
- `SettleInvoice` reads and saves an invoice in one step (the only other write it could lose is
  a flip to OVERDUE).
- `Packages` has one main organization; its branches are counted, their own rows are not modelled.
- The SELECT and the UPDATE of a `save()` are separate steps in `Packages`, `Accounts`, `Assets` and `Invoices`. In
  `AppSubscriptions`, `Membership`, `Chat`, `AppAccess` and `Recurring` they are one step, and the row becomes the copy: what a commit
  that falls just between the two would leave is not modelled there. In `Ledger` such a commit sets `raced`.
- `RowIsConsistent`, `SecondFactorIsWhole`, `OwnerStays` and `PendingBounded` name the case in which the code breaks them, as a
  history variable or a field, and promise nothing after it.
- Doubles: amounts in `Assets` and `Invoices` are taken to be small enough that a result can only be on the wrong side of
  exactly half a hundredth, or of exactly the total. In `Ledger` sums are exact: where the code adds doubles, a receivable
  paid in several parts may say PARTIALLY_PAID instead of PAID. Amounts are whole hundredths; negative or zero lines of
  a manual allocation are not modelled.
- `Ledger` takes totals and amounts to be positive, which the code checks only where a receipt is recorded.
- `Ledger` says nothing of the books once two transactions have saved over each other: they need not agree then.
- The database is taken to have the columns, keys and enums that the entities declare.
- `Login` and its like read the row and save it; the rows of `sessions` are inserted and deleted by single
  statements and counted in `opened` where it matters.
- The models cover the API's protocols, a small share of a repository that is mostly user interface.

## 8. Not modelled, and why

- CRUD without a protocol (CMS, tickets, catalogue, profiles, most of HR and CRM), reads (reports,
  analytics, search, billing views, audit), sends (mail, SMS, push, notifications), wiring, and the front ends.
- Calls: `initiateCall` inserts a session without its NOT NULL `organization_id`, so that none begins.
- HR leave: `create` needs an `employeeId` that is not in the DTO, and the validation pipe refuses unknown
  properties; no request is ever stored.
- Webhooks: nothing calls `triggerWebhooksForEvent`; no webhook is delivered.
- Inventory: its controllers read `req.organization` and `req.user.id`, which nothing sets, and a
  goods receipt's movement lacks its NOT NULL `created_by`; what would be worth checking (quantity against
  movements, one receipt per GRN) cannot happen yet.
- Projects board: single saves. `task.service.ts:1220` ("Prevent circular dependencies") refuses a direct reverse
  pair only; a longer circle is accepted.
- CRM leads and quotes: `convert` and `convertToInvoice` look at no status, so that a second call converts again.
- Purchase invoices, vendor payments, credit notes: the mirror image of what `Ledger` models.
- Roles: deletion against open invitations (`roles.service.ts:471` counts members, not invitations).

## 9. Plan

The parts that carry a protocol are modelled. Worth doing next, in this order:

1. The abstract specification of `Ledger` (balances as sums of posted lines, without calls) and the refinement.
2. `Roles` composed with `Membership`: creation and deletion of roles against open invitations and members.
3. A composition of `Payments` and `Packages` through the package-upgrade branch.
4. `Stock`, once the inventory controllers reach their services.
