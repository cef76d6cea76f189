-------------------------- MODULE AppSubscriptions --------------------------
(***************************************************************************)
(* The marketplace subscriptions of one organization: purchase, update,     *)
(* cancel and renew (api/src/apps/organization-apps.service.ts), the        *)
(* invoices (api/src/invoices), the schedulers (app-subscription-scheduler) *)
(* and what a verified payment does to them (handlePostPaymentActions).     *)
(*                                                                          *)
(* A call reads an organization_apps row, awaits, and saves its copy: the   *)
(* ORM writes every column in which the copy differs from the stored row,   *)
(* so a save leaves the row equal to the copy.  A worker (an API call, or a *)
(* verification in its post-payment part) carries that copy in its job.     *)
(*                                                                          *)
(* One billing period stands for monthly and yearly ones, and a unit of     *)
(* time for a day: what happened today is due after today's midnight jobs.  *)
(***************************************************************************)
EXTENDS Payments, Sequences, Integers

CONSTANTS
  App, PaidApp,     \* the catalogue, and the apps whose price is above 0
  Member, RoleOf,   \* active members of the organization and their roles
  Handler,          \* slots for API calls running at the same time
  TrialDays, Period, DueDays,
  MaxTime,          \* bound: days
  MaxInvoices,      \* bound: invoices
  MaxCount,         \* bound: how far subscription_count drifts before no call moves it further
  LoadedRelationWins \* see Linked

ASSUME PaidAppsAreApps == PaidApp \subseteq App
ASSUME RolesAreKnown == RoleOf \in [Member -> {"owner", "admin", "staff"}]
ASSUME SpansArePositive == TrialDays \in Nat /\ Period \in Nat \ {0} /\ DueDays \in Nat
ASSUME BoundsAreNumbers == MaxTime \in Nat /\ MaxInvoices \in Nat /\ MaxCount \in Nat
ASSUME RelationRuleIsBoolean == LoadedRelationWins \in BOOLEAN
ASSUME WorkersAreApart == Handler \cap Request = {}
ASSUME NoneIsNoApp == None \notin App

VARIABLES
  now,
  sub,       \* the organization_apps row of each app
  subCount,  \* apps.subscription_count
  invoices,  \* the invoices table, oldest first
  access,    \* active user_app_access rows, per app
  purpose,   \* payments.user_id and payments.metadata: the call that made the
             \* payment, the app and the invoices it is for
  job,       \* what each worker has read and where it stands
  listed,    \* rows each scheduler run has read and not treated yet
  invoicedOn \* the last day the renewal job ran

subVars == <<sub, subCount, access>>
allVars == <<vars, now, subVars, invoices, purpose, job, listed, invoicedOn>>

Worker == Handler \cup Request
NoDate == -1
Live == {"TRIAL", "ACTIVE"}
Ended == {"CANCELLED", "EXPIRED"}

Row == [status : {"absent", "PENDING_PAYMENT"} \cup Live \cup Ended,
        end : Nat \cup {NoDate}, billing : Nat \cup {NoDate},
        trialEnds : Nat \cup {NoDate}, trialUsed : BOOLEAN, autoRenew : BOOLEAN,
        payment : Payment \cup {None}]
NoRow == [status |-> "absent", end |-> NoDate, billing |-> NoDate, trialEnds |-> NoDate,
          trialUsed |-> FALSE, autoRenew |-> FALSE, payment |-> None]

Invoice == [app : App, payment : Payment \cup {None},
            status : {"UNPAID", "PAID", "OVERDUE"}, due : Nat]

\* A worker at rest.  `row` is the copy a call will save (for a purchase: `new`
\* when it is to be inserted), `bill` the invoice it will pay and `flips` those
\* it will save as OVERDUE, as pairs of position and copy, `covers` the positions
\* its payment is for, `pay` the payment it created or is verifying, `todo` the
\* pairs <<granter, user>> it has still to grant access for.
Idle == [at |-> "idle", op |-> "none", app |-> None, user |-> None, row |-> NoRow,
         new |-> FALSE, bill |-> <<>>, flips |-> {}, covers |-> {}, pay |-> None, todo |-> {}]

Places == {"idle", "flipping", "paying", "awaitingForm", "saving", "counting", "uncounting",
           "granting", "activating", "done"}
Ops == {"none", "purchase", "update", "cancel", "renew", "payInvoice", "payAll", "view", "verify"}
Job == [at : Places, op : Ops, app : App \cup {None}, user : Member \cup {None}, row : Row,
        new : BOOLEAN, bill : {<<>>} \cup ((1..MaxInvoices) \X Invoice),
        flips : SUBSET ((1..MaxInvoices) \X Invoice), covers : SUBSET (1..MaxInvoices),
        pay : Payment \cup {None}, todo : SUBSET (Member \X Member)]

Purpose == [op : Ops, app : App \cup {None}, user : Member \cup {None},
            covers : SUBSET (1..MaxInvoices)]
NoPurpose == [op |-> "none", app |-> None, user |-> None, covers |-> {}]

SubTypeOK ==
  /\ now \in 0..MaxTime
  /\ sub \in [App -> Row]
  /\ subCount \in [App -> Int]
  /\ invoices \in Seq(Invoice) /\ Len(invoices) <= MaxInvoices
  /\ access \in [App -> SUBSET Member]
  /\ purpose \in [Payment -> Purpose]
  /\ job \in [Worker -> Job]
  /\ \A a \in App : sub[a].status = "TRIAL" => sub[a].trialEnds # NoDate /\ sub[a].trialUsed
  /\ listed \in [{"trials", "expired", "renewals"} -> SUBSET App]
  /\ invoicedOn \in 0..MaxTime \cup {NoDate}

SubInit ==
  /\ Init
  /\ now = 0
  /\ sub = [a \in App |-> NoRow]
  /\ subCount = [a \in App |-> 0]
  /\ invoices = <<>>
  /\ access = [a \in App |-> {}]
  /\ purpose = [p \in Payment |-> NoPurpose]
  /\ job = [w \in Worker |-> Idle]
  /\ listed = [k \in {"trials", "expired", "renewals"} |-> {}]
  /\ invoicedOn = NoDate

-----------------------------------------------------------------------------
(* Reading: the first part of each call, up to its first write *)

\* A row saved with a loaded `payment` relation keeps that relation's key: the
\* ORM then ignores the assignment to payment_id (external; with
\* LoadedRelationWins = FALSE the assignment counts).
Linked(old, p) == IF LoadedRelationWins /\ old # None THEN old ELSE p

StartJob(h, j) ==
  /\ job[h].at = "idle"
  /\ job' = [job EXCEPT ![h] = j]

\* Mutants: a paid app is ACTIVE before its payment; a trial without an end.
UnpaidIsActive(a, trial, auto) ==
  [NoRow EXCEPT !.status = IF trial THEN "TRIAL" ELSE "ACTIVE", !.end = now + Period,
                !.billing = now + Period, !.autoRenew = auto]
EndlessTrial(a, trial, auto) ==
  [NoRow EXCEPT !.status = IF trial THEN "TRIAL" ELSE "PENDING_PAYMENT",
                !.end = now + Period, !.autoRenew = auto]

\* The row a purchase is going to save: a trial, or a subscription that waits
\* for its payment unless the app is free.
PurchasedRow(a, trial, auto) ==
  LET old == sub[a]
      end == now + Period + (IF trial THEN TrialDays ELSE 0)
  IN  [status |-> IF trial THEN "TRIAL" ELSE IF a \in PaidApp THEN "PENDING_PAYMENT" ELSE "ACTIVE",
       end |-> end,
       billing |-> IF trial THEN NoDate ELSE end,
       trialEnds |-> IF trial THEN now + TrialDays ELSE NoDate,
       trialUsed |-> old.trialUsed \/ trial,
       autoRenew |-> auto,
       payment |-> IF old.status = "PENDING_PAYMENT" THEN old.payment ELSE None]

\* purchaseApp: refused for an ACTIVE app and for a second trial.  Only a row
\* that is PENDING_PAYMENT is reused; anything else gets a new row.
ReadForPurchase(h, a, u, trial, auto) ==
  /\ sub[a].status # "ACTIVE"
  /\ subCount[a] < MaxCount
  /\ trial => TrialDays > 0 /\ ~sub[a].trialUsed
  /\ StartJob(h, [Idle EXCEPT !.at = IF trial THEN "saving" ELSE "paying",
                              !.op = "purchase", !.app = a, !.user = u,
                              !.row = PurchasedRow(a, trial, auto),
                              !.new = sub[a].status # "PENDING_PAYMENT"])
  /\ UNCHANGED <<vars, now, subVars, invoices, purpose, listed, invoicedOn>>

\* updateSubscription: switches auto-renewal, and pays when a method is given.
ReadForUpdate(h, a, u, auto, pays) ==
  /\ sub[a].status # "absent"
  /\ StartJob(h, [Idle EXCEPT !.at = IF pays THEN "paying" ELSE "saving",
                              !.op = "update", !.app = a, !.user = u,
                              !.row = [sub[a] EXCEPT !.autoRenew = auto]])
  /\ UNCHANGED <<vars, now, subVars, invoices, purpose, listed, invoicedOn>>

\* cancelSubscription: refused once CANCELLED or EXPIRED.
ReadForCancel(h, a) ==
  /\ sub[a].status \notin Ended \cup {"absent"}
  /\ subCount[a] > -MaxCount
  /\ StartJob(h, [Idle EXCEPT !.at = "saving", !.op = "cancel", !.app = a,
                              !.row = [sub[a] EXCEPT !.status = "CANCELLED",
                                                     !.autoRenew = FALSE]])
  /\ UNCHANGED <<vars, now, subVars, invoices, purpose, listed, invoicedOn>>

\* Mutant: the renewal moves the end and forgets next_billing_date.
RenewWithoutBilling(h, a, u) ==
  /\ sub[a].status = "ACTIVE"
  /\ StartJob(h, [Idle EXCEPT !.at = "paying", !.op = "renew", !.app = a, !.user = u,
                              !.row = [sub[a] EXCEPT !.end = @ + Period]])
  /\ UNCHANGED <<vars, now, subVars, invoices, purpose, listed, invoicedOn>>

\* renewSubscription: for ACTIVE rows; the end moves one period on.
ReadForRenewal(h, a, u) ==
  /\ sub[a].status = "ACTIVE"
  /\ StartJob(h, [Idle EXCEPT !.at = "paying", !.op = "renew", !.app = a, !.user = u,
                              !.row = [sub[a] EXCEPT !.end = @ + Period,
                                                     !.billing = sub[a].end + Period]])
  /\ UNCHANGED <<vars, now, subVars, invoices, purpose, listed, invoicedOn>>

\* An UNPAID invoice past its due date is shown as OVERDUE, and saved so.
Overdue(inv) == inv.status = "UNPAID" /\ inv.due < now
Flips(positions) ==
  {<<i, [invoices[i] EXCEPT !.status = "OVERDUE"]>> : i \in {k \in positions : Overdue(invoices[k])}}

\* getInvoices: reads a page, then saves the overdue ones one after the other.
ReadInvoices(h) ==
  /\ Flips(DOMAIN invoices) # {}
  /\ StartJob(h, [Idle EXCEPT !.at = "flipping", !.op = "view", !.flips = Flips(DOMAIN invoices)])
  /\ UNCHANGED <<vars, now, subVars, invoices, purpose, listed, invoicedOn>>

\* payInvoice: an unpaid invoice, which getInvoice may have to flip first.
ReadForInvoicePayment(h, i, u) ==
  /\ i \in DOMAIN invoices
  /\ invoices[i].status # "PAID"
  /\ StartJob(h, [Idle EXCEPT !.at = "flipping", !.op = "payInvoice", !.app = invoices[i].app,
                              !.user = u, !.bill = <<i, invoices[i]>>, !.covers = {i}, !.flips = Flips({i})])
  /\ UNCHANGED <<vars, now, subVars, invoices, purpose, listed, invoicedOn>>

\* payAllInvoices: one payment for all UNPAID invoices, which carries no app.
\* Its invoices are marked only if that payment is COMPLETED on creation, which
\* it never is (no form has been shown yet), so only the flips are written.
ReadForPayAll(h, u) ==
  LET unpaid == {i \in DOMAIN invoices : invoices[i].status = "UNPAID"} IN
  /\ unpaid # {}
  /\ StartJob(h, [Idle EXCEPT !.at = "flipping", !.op = "payAll", !.user = u,
                              !.covers = unpaid, !.flips = Flips(unpaid)])
  /\ UNCHANGED <<vars, now, subVars, invoices, purpose, listed, invoicedOn>>

\* Each copy is saved over whatever its invoice is by now.
SaveOverdue(h) ==
  /\ job[h].at = "flipping"
  /\ \E f \in job[h].flips :
       /\ invoices' = [invoices EXCEPT ![f[1]] = f[2]]
       /\ job' = [job EXCEPT ![h].flips = @ \ {f}]
  /\ UNCHANGED <<vars, now, subVars, purpose, listed, invoicedOn>>

InvoicesShown(h) ==
  /\ job[h].at = "flipping"
  /\ job[h].flips = {}
  /\ job' = [job EXCEPT ![h] = IF @.op = "view" THEN Idle ELSE [@ EXCEPT !.at = "paying"]]
  /\ UNCHANGED <<vars, now, subVars, invoices, purpose, listed, invoicedOn>>

-----------------------------------------------------------------------------
(* Paying: createPayment, called from the five calls above *)

\* The methods these calls accept: IME Pay for a purchase only.
Methods(op) == IF op = "purchase" THEN {"ESEWA", "STRIPE", "IME_PAY"} ELSE {"ESEWA", "STRIPE"}

\* Mutant: the payment's row is saved again by a later call.
PayAgain(h, p, g) ==
  /\ job[h].at = "paying"
  /\ g \in Methods(job[h].op)
  /\ status' = [status EXCEPT ![p] = "PENDING"]
  /\ gateway' = [gateway EXCEPT ![p] = g]
  /\ form' = [form EXCEPT ![p] = "initiating"]
  /\ purpose' = [purpose EXCEPT ![p] = [op |-> job[h].op, app |-> job[h].app,
                                         user |-> job[h].user, covers |-> job[h].covers]]
  /\ job' = [job EXCEPT ![h].at = "awaitingForm", ![h].pay = p]
  /\ UNCHANGED <<funds, calls, deliveries, crashes, now, subVars, invoices, listed, invoicedOn>>

Pay(h, p, g) ==
  /\ job[h].at = "paying"
  /\ g \in Methods(job[h].op)
  /\ CreatePayment(p, g)
  /\ purpose' = [purpose EXCEPT ![p] = [op |-> job[h].op, app |-> job[h].app,
                                         user |-> job[h].user, covers |-> job[h].covers]]
  /\ job' = [job EXCEPT ![h].at = "awaitingForm", ![h].pay = p]
  /\ UNCHANGED <<now, subVars, invoices, listed, invoicedOn>>

\* createPayment throws after its row was saved: the call fails.
FormFails(h) ==
  /\ job[h].at = "awaitingForm"
  /\ InitiateThrows(job[h].pay)
  /\ job' = [job EXCEPT ![h] = Idle]
  /\ UNCHANGED <<now, subVars, invoices, purpose, listed, invoicedOn>>

\* The form came back, which writes nothing: each call's next write is a step
\* from "awaitingForm".  The customer sees the form when the call returns.
Responds(h) == IF job[h].pay = None THEN UNCHANGED vars ELSE OfferForm(job[h].pay)

NewInvoice(a, p) == [app |-> a, payment |-> p, status |-> "UNPAID", due |-> now + DueDays]

\* purchaseApp and updateSubscription save an invoice for the payment.
SaveInvoice(h) ==
  /\ job[h].at = "awaitingForm"
  /\ job[h].op \in {"purchase", "update"}
  /\ Len(invoices) < MaxInvoices
  /\ invoices' = Append(invoices, NewInvoice(job[h].app, job[h].pay))
  /\ job' = [job EXCEPT ![h].at = "saving"]
  /\ UNCHANGED <<vars, now, subVars, purpose, listed, invoicedOn>>

\* payInvoice marks the invoice PAID as soon as the payment exists.  It extends
\* the subscription only if that payment is COMPLETED, which it never is yet.
MarkInvoicePaid(h) ==
  LET j == job[h] IN
  /\ j.at = "awaitingForm"
  /\ j.op = "payInvoice"
  /\ invoices' = [invoices EXCEPT ![j.bill[1]] =
       [j.bill[2] EXCEPT !.status = "PAID", !.payment = Linked(@, j.pay)]]
  /\ Responds(h)
  /\ job' = [job EXCEPT ![h] = Idle]
  /\ UNCHANGED <<now, subVars, purpose, listed, invoicedOn>>

PayAllResponds(h) ==
  /\ job[h].at = "awaitingForm"
  /\ job[h].op = "payAll"
  /\ Responds(h)
  /\ job' = [job EXCEPT ![h] = Idle]
  /\ UNCHANGED <<now, subVars, invoices, purpose, listed, invoicedOn>>

-----------------------------------------------------------------------------
(* Saving the copy, and what follows it *)

ToSave(h) == job[h].at = "saving" \/ (job[h].at = "awaitingForm" /\ job[h].op = "renew")

\* Mutant: the new payment is not written to the row.
SavedUnlinked(j) == j.row

\* The copy as it will be stored.  A purchase read its row without the payment
\* relation, the other calls with it.
SavedRow(j) ==
  IF j.pay = None THEN j.row
  ELSE [j.row EXCEPT !.payment = IF j.op = "purchase" THEN j.pay ELSE Linked(@, j.pay)]

\* The unique index on (organization_id, app_id) refuses a second row: the call
\* fails, and the payment and the invoice it has saved stay behind.
InsertRefused(h) ==
  /\ ToSave(h)
  /\ job[h].new /\ sub[job[h].app].status # "absent"
  /\ IF job[h].pay = None THEN UNCHANGED vars ELSE LoseForm(job[h].pay)
  /\ job' = [job EXCEPT ![h] = Idle]
  /\ UNCHANGED <<now, subVars, invoices, purpose, listed, invoicedOn>>

SaveSubscription(h) ==
  /\ ToSave(h)
  /\ ~(job[h].new /\ sub[job[h].app].status # "absent")
  /\ sub' = [sub EXCEPT ![job[h].app] = SavedRow(job[h])]
  /\ \/ /\ job[h].op = "purchase" /\ job[h].row.status # "PENDING_PAYMENT"
        /\ job' = [job EXCEPT ![h].at = "counting"]
        /\ UNCHANGED vars
     \/ /\ job[h].op = "cancel"
        /\ job' = [job EXCEPT ![h].at = "uncounting"]
        /\ UNCHANGED vars
     \/ /\ job[h].op # "cancel" /\ (job[h].op = "purchase" => job[h].row.status = "PENDING_PAYMENT")
        /\ job' = [job EXCEPT ![h] = Idle]
        /\ Responds(h)
  /\ UNCHANGED <<now, subCount, invoices, access, purpose, listed, invoicedOn>>

\* decrementSubscriptionCount, for a cancelled subscription.
Uncount(h) ==
  /\ job[h].at = "uncounting"
  /\ subCount' = [subCount EXCEPT ![job[h].app] = @ - 1]
  /\ job' = [job EXCEPT ![h] = Idle]
  /\ UNCHANGED <<vars, now, sub, access, invoices, purpose, listed, invoicedOn>>

Owners == {m \in Member : RoleOf[m] = "owner"}

\* Whom a worker grants access: the purchaser of a trial or a free app and the
\* owner each grant themselves, then the purchaser grants the chosen users; the
\* payer of a paid subscription grants everyone.
Grants(j, chosen) ==
  IF j.op = "verify" THEN {<<j.user, m>> : m \in Member}
  ELSE {<<m, m>> : m \in Owners \cup {j.user}}
         \cup {<<j.user, m>> : m \in chosen \ (Owners \cup {j.user})}

\* incrementSubscriptionCount, for a trial or free app and for a paid one.
Count(w) ==
  /\ job[w].at = "counting"
  /\ subCount' = [subCount EXCEPT ![job[w].app] = @ + 1]
  /\ \E chosen \in SUBSET Member :
       job' = [job EXCEPT ![w].at = "granting", ![w].todo = Grants(job[w], chosen)]
  /\ UNCHANGED <<vars, now, sub, access, invoices, purpose, listed, invoicedOn>>

\* canGrantAccess: only the owner assigns apps to an admin.
CanGrant(granter, m) ==
  \/ RoleOf[granter] = "owner"
  \/ RoleOf[granter] = "admin" /\ RoleOf[m] # "admin"

\* grantAccess, once per user; it reads the subscription afresh, and a refusal
\* is ignored.
GrantNext(w) ==
  /\ job[w].at = "granting"
  /\ \E t \in job[w].todo :
       /\ access' = [access EXCEPT ![job[w].app] =
            @ \cup (IF sub[job[w].app].status \in Live /\ CanGrant(t[1], t[2]) THEN {t[2]} ELSE {})]
       /\ job' = [job EXCEPT ![w].todo = @ \ {t}]
  /\ UNCHANGED <<vars, now, sub, subCount, invoices, purpose, listed, invoicedOn>>

PurchaseGranted(h) ==
  /\ job[h].at = "granting" /\ job[h].op = "purchase"
  /\ job[h].todo = {}
  /\ Responds(h)
  /\ job' = [job EXCEPT ![h] = Idle]
  /\ UNCHANGED <<now, subVars, invoices, purpose, listed, invoicedOn>>

-----------------------------------------------------------------------------
(* handlePostPaymentActions for payments of type SUBSCRIPTION *)

\* The subscription is looked up by the payment it is linked to; a payment with
\* no app, or one its row no longer points to, ends with an error.
LookUpPurchase(r) ==
  LET p == target[r]
      a == purpose[p].app
      found == a # None /\ sub[a].status # "absent" /\ sub[a].payment = p
  IN  /\ BeginDelivery(r)
      /\ job' = [job EXCEPT ![r] =
           [Idle EXCEPT !.at = IF found THEN "activating" ELSE "done", !.op = "verify",
                        !.app = a, !.user = purpose[p].user, !.pay = p,
                        !.row = IF found THEN [sub[a] EXCEPT !.status = "ACTIVE",
                                                             !.end = now + Period,
                                                             !.billing = now + Period]
                                ELSE NoRow]]
      /\ UNCHANGED <<now, subVars, invoices, purpose, listed, invoicedOn>>

ActivateSubscription(r) ==
  /\ job[r].at = "activating"
  /\ sub' = [sub EXCEPT ![job[r].app] = job[r].row]
  /\ job' = [job EXCEPT ![r].at = "counting"]
  /\ UNCHANGED <<vars, now, subCount, access, invoices, purpose, listed, invoicedOn>>

\* The invoice linked to the payment is PAID if it is still UNPAID.  Its read
\* and its save are one step: in between only the flip to OVERDUE could come,
\* which the save would overwrite.
SettleInvoice(r) ==
  LET theirs == {i \in DOMAIN invoices : invoices[i].app = job[r].app /\ invoices[i].payment = job[r].pay}
  IN  /\ job[r].at = "granting"
      /\ job[r].todo = {}
      /\ \/ \E i \in theirs :
              invoices' = [invoices EXCEPT ![i].status = IF @ = "UNPAID" THEN "PAID" ELSE @]
         \/ theirs = {} /\ UNCHANGED invoices
      /\ job' = [job EXCEPT ![r].at = "done"]
      /\ UNCHANGED <<vars, now, subVars, purpose, listed, invoicedOn>>

EndPurchase(r) ==
  /\ job[r].at = "done"
  /\ EndVerify(r)
  /\ job' = [job EXCEPT ![r] = Idle]
  /\ UNCHANGED <<now, subVars, invoices, purpose, listed, invoicedOn>>

-----------------------------------------------------------------------------
(* The schedulers: each run lists its rows, then treats them one by one *)

\* Mutant: both jobs look only at rows that are not renewed automatically.
NotRenewed(as) == {a \in as : ~sub[a].autoRenew}
TrialsOverUnrenewed == NotRenewed({a \in App : sub[a].status = "TRIAL" /\ sub[a].trialEnds <= now})
PeriodsOverUnrenewed == NotRenewed({a \in App : sub[a].status = "ACTIVE" /\ sub[a].end < now})

TrialsOver == {a \in App : sub[a].status = "TRIAL" /\ sub[a].trialEnds <= now}
PeriodsOver == {a \in App : sub[a].status = "ACTIVE" /\ sub[a].end < now}
RenewalsDue == {a \in App : sub[a].status = "ACTIVE" /\ sub[a].billing = now /\ sub[a].autoRenew}

\* expireTrials runs every hour, checkExpiredSubscriptions every midnight.
ListTrials ==
  /\ listed["trials"] = {} /\ TrialsOver # {}
  /\ listed' = [listed EXCEPT !["trials"] = TrialsOver]
  /\ UNCHANGED <<vars, now, subVars, invoices, purpose, job, invoicedOn>>

ListExpired ==
  /\ listed["expired"] = {} /\ PeriodsOver # {}
  /\ listed' = [listed EXCEPT !["expired"] = PeriodsOver]
  /\ UNCHANGED <<vars, now, subVars, invoices, purpose, job, invoicedOn>>

\* update({id}, {status: EXPIRED}), whatever the row is by now.
ExpireListed(k) ==
  /\ k \in {"trials", "expired"}
  /\ \E a \in listed[k] :
       /\ sub' = [sub EXCEPT ![a].status = "EXPIRED"]
       /\ listed' = [listed EXCEPT ![k] = @ \ {a}]
  /\ UNCHANGED <<vars, now, subCount, access, invoices, purpose, job, invoicedOn>>

\* checkSubscriptionsDueForRenewal runs once a day and bills; nobody is charged.
ListRenewals ==
  /\ invoicedOn < now /\ listed["renewals"] = {} /\ RenewalsDue # {}
  /\ listed' = [listed EXCEPT !["renewals"] = RenewalsDue]
  /\ invoicedOn' = now
  /\ UNCHANGED <<vars, now, subVars, invoices, purpose, job>>

InvoiceListed ==
  /\ Len(invoices) < MaxInvoices
  /\ \E a \in listed["renewals"] :
       /\ invoices' = Append(invoices, NewInvoice(a, None))
       /\ listed' = [listed EXCEPT !["renewals"] = @ \ {a}]
  /\ UNCHANGED <<vars, now, subVars, purpose, job, invoicedOn>>

-----------------------------------------------------------------------------
NextDay ==
  /\ now < MaxTime
  /\ now' = now + 1
  /\ UNCHANGED <<vars, subVars, invoices, purpose, job, listed, invoicedOn>>

\* A restart forgets every call and every scheduler run in flight.
Restart ==
  /\ Crash
  /\ job' = [w \in Worker |-> Idle]
  /\ listed' = [k \in DOMAIN listed |-> {}]
  /\ UNCHANGED <<now, subVars, invoices, purpose, invoicedOn>>

\* The steps of Payments that touch no subscription.
PaymentStep ==
  /\ \/ \E p \in Payment : CustomerPays(p)
     \/ \E r \in Request, p \in Payment : BeginVerify(r, p)
     \/ \E r \in Request : GatewayAnswers(r) \/ SaveCompleted(r) \/ SaveFailed(r)
  /\ UNCHANGED <<now, subVars, invoices, purpose, job, listed, invoicedOn>>

CallStarts(h) ==
  \/ \E a \in App, u \in Member, trial, auto \in BOOLEAN : ReadForPurchase(h, a, u, trial, auto)
  \/ \E a \in App, u \in Member, auto, pays \in BOOLEAN : ReadForUpdate(h, a, u, auto, pays)
  \/ \E a \in App : ReadForCancel(h, a)
  \/ \E a \in App, u \in Member : ReadForRenewal(h, a, u)
  \/ ReadInvoices(h)
  \/ \E i \in 1..MaxInvoices, u \in Member : ReadForInvoicePayment(h, i, u)
  \/ \E u \in Member : ReadForPayAll(h, u)

CallContinues(h) ==
  \/ SaveOverdue(h) \/ InvoicesShown(h)
  \/ \E p \in Payment, g \in Gateways : Pay(h, p, g)
  \/ FormFails(h) \/ SaveInvoice(h) \/ MarkInvoicePaid(h) \/ PayAllResponds(h)
  \/ InsertRefused(h) \/ SaveSubscription(h) \/ Uncount(h) \/ PurchaseGranted(h)

Delivers(r) ==
  \/ LookUpPurchase(r) \/ ActivateSubscription(r) \/ SettleInvoice(r) \/ EndPurchase(r)

SchedulerStep ==
  \/ ListTrials \/ ListExpired \/ ListRenewals \/ InvoiceListed
  \/ \E k \in {"trials", "expired"} : ExpireListed(k)

SubNext ==
  \/ PaymentStep
  \/ \E h \in Handler : CallStarts(h) \/ CallContinues(h)
  \/ \E r \in Request : Delivers(r)
  \/ \E w \in Worker : Count(w) \/ GrantNext(w)
  \/ SchedulerStep
  \/ NextDay
  \/ Restart

SubSpec == SubInit /\ [][SubNext]_allVars

\* The crons fire for as long as the process is up, and a run goes on.
SubFairSpec ==
  /\ SubSpec
  /\ WF_allVars(ListTrials) /\ WF_allVars(ExpireListed("trials"))
  /\ WF_allVars(ListExpired) /\ WF_allVars(ExpireListed("expired"))

-----------------------------------------------------------------------------
(* Properties *)

Quiet == \A w \in Worker : job[w].at = "idle"

\* No order of purchases, cancellations, renewals, scheduler runs and stale
\* saves makes a paid app ACTIVE without a payment for it that has money behind
\* it, and where there is no trial nobody gets access before that either.
PaidAppNeedsMoney ==
  \A a \in PaidApp :
    sub[a].status = "ACTIVE" \/ (TrialDays = 0 /\ access[a] # {})
      => \E p \in Payment : purpose[p].app = a /\ Funded(p)

\* The renewal job bills on the day the period ends: whatever copies overwrite
\* each other, next_billing_date is subscription_end or, in a trial, unset.
BillingFollowsPeriod == \A a \in App : sub[a].billing \in {NoDate, sub[a].end}

\* A customer who is shown the form of a purchase finds it booked: the app's row
\* points to the payment, as long as nobody starts another one for the app, so
\* that its verification finds a subscription to activate.
ShownPurchaseIsLinked ==
  \A p \in Payment :
    /\ form[p] = "offered" /\ purpose[p].op = "purchase"
    /\ \A q \in Payment \ {p} : purpose[q].app # purpose[p].app
    => sub[purpose[p].app].payment = p

\* A subscription step is a step of Payments or leaves payments alone, so what
\* holds of payments holds of the composition.
ImplementsPayments == Spec

\* The hourly job ends every trial, the midnight job every period that nobody
\* renews, even if a stale save brings the row back in between.
TrialsEnd ==
  \A a \in App :
    sub[a].status = "TRIAL" /\ sub[a].trialEnds <= now ~> sub[a].status # "TRIAL"
PeriodsEnd ==
  \A a \in App :
    sub[a].status = "ACTIVE" /\ sub[a].end < now
      ~> sub[a].status # "ACTIVE" \/ sub[a].end >= now

-----------------------------------------------------------------------------
(* What comments in the code say, and the code does not do *)

\* purchaseApp: "If cancelled/expired/pending_payment or TRIAL, we can
\* create/update subscription": a purchase that got past the checks is stored.
PurchaseIsStored ==
  \A h \in Handler : ToSave(h) /\ job[h].new => sub[job[h].app].status = "absent"
=============================================================================
