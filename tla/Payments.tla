------------------------------ MODULE Payments ------------------------------
(***************************************************************************)
(* The life of a payment in api/src/payments: createPayment saves the row   *)
(* and asks the gateway for a form; the customer pays at the gateway; the   *)
(* callback calls verifyPayment, which reads the row, awaits the gateway,   *)
(* saves the outcome and hands a COMPLETED row to handlePostPaymentActions. *)
(* No row is locked, so every await lets other calls in: one action here    *)
(* is what the code does between two awaits.                                *)
(***************************************************************************)
EXTENDS Naturals, FiniteSets

CONSTANTS
  Payment,     \* transaction ids createPayment may draw
  Request,     \* slots for calls of verifyPayment running at the same time
  Abroad,      \* the payments of organizations outside Nepal
  MaxCrashes,  \* bound: restarts of the API process
  None         \* "no payment", "no gateway"

ASSUME RequestsAreFinite == IsFiniteSet(Request)
ASSUME PaymentsAreFinite == IsFiniteSet(Payment)
ASSUME CrashBound == MaxCrashes \in Nat

NepalGateways == {"ESEWA", "KHALTI", "CONNECT_IPS", "IME_PAY"}
GlobalGateways == {"STRIPE", "PAYPAL"}
Gateways == NepalGateways \cup GlobalGateways

ASSUME NoneIsNothing == None \notin Payment \cup Gateways

\* The gateways createPayment offers the organization that makes payment p.
VisibleGateways(p) == IF p \in Abroad THEN GlobalGateways ELSE NepalGateways

\* A ConnectIPS callback is believed without asking ConnectIPS.
Unasked == {"CONNECT_IPS"}

VARIABLES
  status,     \* payments.status; "absent" before the row is saved
  gateway,    \* payments.gateway
  form,       \* has the gateway's form reached the customer?
  funds,      \* the gateway's own ledger (external)
  pc,         \* where each call of verifyPayment is
  target,     \* the payment row each call has read
  deliveries, \* runs of handlePostPaymentActions, per payment
  crashes

rows     == <<status, gateway, form>>
calls    == <<pc, target>>
vars     == <<status, gateway, form, funds, pc, target, deliveries, crashes>>

Status == {"absent", "PENDING", "COMPLETED", "FAILED"}
Settled == {"COMPLETED", "FAILED"}
Asking == {"asking", "succeeded", "declined"}

TypeOK ==
  /\ status \in [Payment -> Status]
  /\ gateway \in [Payment -> Gateways \cup {None}]
  /\ \A p \in Payment : gateway[p] \in VisibleGateways(p) \cup {None}
  /\ form \in [Payment -> {"none", "initiating", "offered", "abandoned"}]
  /\ funds \in [Payment -> {"none", "approved", "taken"}]
  /\ pc \in [Request -> {"idle", "completed", "applying"} \cup Asking]
  /\ target \in [Request -> Payment \cup {None}]
  /\ deliveries \in [Payment -> Nat]
  /\ crashes \in 0..MaxCrashes

Init ==
  /\ status = [p \in Payment |-> "absent"]
  /\ gateway = [p \in Payment |-> None]
  /\ form = [p \in Payment |-> "none"]
  /\ funds = [p \in Payment |-> "none"]
  /\ pc = [r \in Request |-> "idle"]
  /\ target = [r \in Request |-> None]
  /\ deliveries = [p \in Payment |-> 0]
  /\ crashes = 0

-----------------------------------------------------------------------------
(* createPayment *)

\* Mutant: the gateway is not compared with the organization's country.
CreateUnchecked(p, g) ==
  /\ status[p] = "absent"
  /\ status' = [status EXCEPT ![p] = "PENDING"]
  /\ gateway' = [gateway EXCEPT ![p] = g]
  /\ form' = [form EXCEPT ![p] = "initiating"]
  /\ UNCHANGED <<funds, calls, deliveries, crashes>>

\* The membership, permission and gateway checks passed: the row is saved
\* PENDING before the gateway is contacted.
CreatePayment(p, g) ==
  /\ status[p] = "absent"
  /\ g \in VisibleGateways(p)
  /\ status' = [status EXCEPT ![p] = "PENDING"]
  /\ gateway' = [gateway EXCEPT ![p] = g]
  /\ form' = [form EXCEPT ![p] = "initiating"]
  /\ UNCHANGED <<funds, calls, deliveries, crashes>>

\* The adapter answered and the caller hands the customer its form or redirect
\* URL. The Khalti branch reads membership.user, which the query did not load,
\* and never gets this far.
OfferForm(p) ==
  /\ form[p] = "initiating"
  /\ gateway[p] # "KHALTI"
  /\ form' = [form EXCEPT ![p] = "offered"]
  /\ UNCHANGED <<status, gateway, funds, calls, deliveries, crashes>>

\* The caller gets an error instead, from the adapter or from its own later
\* writes; the PENDING row stays.
LoseForm(p) ==
  /\ form[p] = "initiating"
  /\ form' = [form EXCEPT ![p] = "abandoned"]
  /\ UNCHANGED <<status, gateway, funds, calls, deliveries, crashes>>

\* The adapter throws (the eSewa and ConnectIPS ones only sign a form).
InitiateThrows(p) == gateway[p] \notin {"ESEWA", "CONNECT_IPS"} /\ LoseForm(p)

\* External. The customer completes the form; PayPal only records an approval,
\* the money moves when the order is captured.
CustomerPays(p) ==
  /\ form[p] = "offered"
  /\ funds[p] = "none"
  /\ funds' = [funds EXCEPT ![p] = IF gateway[p] = "PAYPAL" THEN "approved" ELSE "taken"]
  /\ UNCHANGED <<rows, calls, deliveries, crashes>>

-----------------------------------------------------------------------------
(* verifyPayment *)

\* Mutant: no status check.
BeginAnyRow(r, p) ==
  /\ pc[r] = "idle"
  /\ status[p] # "absent"
  /\ pc' = [pc EXCEPT ![r] = "asking"]
  /\ target' = [target EXCEPT ![r] = p]
  /\ UNCHANGED <<rows, funds, deliveries, crashes>>

\* A call reads the row. Only a PENDING row is verified: the early returns
\* ("already verified", "cannot be verified", not found) change nothing and are
\* stuttering steps.
BeginVerify(r, p) ==
  /\ pc[r] = "idle"
  /\ status[p] = "PENDING"
  /\ pc' = [pc EXCEPT ![r] = "asking"]
  /\ target' = [target EXCEPT ![r] = p]
  /\ UNCHANGED <<rows, funds, deliveries, crashes>>

\* The call returns, or throws.
Return(r) ==
  /\ pc' = [pc EXCEPT ![r] = "idle"]
  /\ target' = [target EXCEPT ![r] = None]

\* Mutants: an adapter that takes any answer of the gateway for a success; an
\* order captured before counts as captured again.
ConfirmsAnything(p, q) == gateway[p] # "KHALTI"
ConfirmsCaptured(p, q) ==
  gateway[p] = "PAYPAL" /\ gateway[q] = "PAYPAL" /\ funds[q] \in {"approved", "taken"}

\* When the adapter of payment p's gateway may answer 'success' to a request that
\* names payment q's session or order. eSewa and IME Pay are asked about p's own
\* transaction and amount. Stripe and PayPal are asked about what the request
\* names, and nothing compares that with p. An order is captured once.
Confirms(p, q) ==
  \/ gateway[p] \in Unasked
  \/ gateway[p] \in {"ESEWA", "IME_PAY"} /\ funds[p] = "taken"
  \/ gateway[p] = "STRIPE" /\ gateway[q] = "STRIPE" /\ funds[q] = "taken"
  \/ gateway[p] = "PAYPAL" /\ gateway[q] = "PAYPAL" /\ funds[q] = "approved"

\* captureOrder takes the money of an approved PayPal order.
Captured(p, q) ==
  IF gateway[p] = "PAYPAL" /\ gateway[q] = "PAYPAL" /\ funds[q] = "approved"
  THEN [funds EXCEPT ![q] = "taken"]
  ELSE funds

AnswerSuccess(r) ==
  /\ pc[r] = "asking"
  /\ \E q \in Payment : Confirms(target[r], q) /\ funds' = Captured(target[r], q)
  /\ pc' = [pc EXCEPT ![r] = "succeeded"]
  /\ UNCHANGED <<rows, target, deliveries, crashes>>

\* 'failure' is the answer for an unpaid order, and for a paid one whenever the
\* gateway cannot be reached: the adapters turn the network error into it. The
\* Khalti adapter answers 'SUCCESS' for a paid one, which is not 'success'.
AnswerFailure(r) ==
  /\ pc[r] = "asking"
  /\ gateway[target[r]] \notin Unasked
  /\ pc' = [pc EXCEPT ![r] = "declined"]
  /\ UNCHANGED <<rows, funds, target, deliveries, crashes>>

\* The PayPal and Khalti adapters throw instead; a capture may have been made
\* before its answer was lost. All but eSewa and ConnectIPS are refused without
\* an id to ask about. The call ends, the row is untouched.
AnswerThrows(r) ==
  /\ pc[r] = "asking"
  /\ gateway[target[r]] \notin {"ESEWA"} \cup Unasked
  /\ funds' \in {funds} \cup {Captured(target[r], q) : q \in Payment}
  /\ Return(r)
  /\ UNCHANGED <<rows, deliveries, crashes>>

\* save(payment) writes the outcome whatever the row holds by now.
SaveCompleted(r) ==
  /\ pc[r] = "succeeded"
  /\ status' = [status EXCEPT ![target[r]] = "COMPLETED"]
  /\ pc' = [pc EXCEPT ![r] = "completed"]
  /\ UNCHANGED <<gateway, form, funds, target, deliveries, crashes>>

SaveFailed(r) ==
  /\ pc[r] = "declined"
  /\ status' = [status EXCEPT ![target[r]] = "FAILED"]
  /\ Return(r)
  /\ UNCHANGED <<gateway, form, funds, deliveries, crashes>>

\* Mutant: the reloaded row must still be COMPLETED, or the purchase is dropped.
BeginIfStillCompleted(r) ==
  /\ pc[r] = "completed"
  /\ IF status[target[r]] = "COMPLETED"
     THEN /\ pc' = [pc EXCEPT ![r] = "applying"]
          /\ deliveries' = [deliveries EXCEPT ![target[r]] = @ + 1]
          /\ UNCHANGED target
     ELSE Return(r) /\ UNCHANGED deliveries
  /\ UNCHANGED <<rows, funds, crashes>>

\* The row is reloaded and handed to handlePostPaymentActions.
BeginDelivery(r) ==
  /\ pc[r] = "completed"
  /\ pc' = [pc EXCEPT ![r] = "applying"]
  /\ deliveries' = [deliveries EXCEPT ![target[r]] = @ + 1]
  /\ UNCHANGED <<rows, funds, target, crashes>>

\* It returned or threw: the error is logged and the caller told of success.
EndVerify(r) ==
  /\ pc[r] = "applying"
  /\ Return(r)
  /\ UNCHANGED <<rows, funds, deliveries, crashes>>

-----------------------------------------------------------------------------
\* The process restarts: every call in flight is gone, the rows stay.
Crash ==
  /\ crashes < MaxCrashes
  /\ crashes' = crashes + 1
  /\ pc' = [r \in Request |-> "idle"]
  /\ target' = [r \in Request |-> None]
  /\ form' = [p \in Payment |-> IF form[p] = "initiating" THEN "abandoned" ELSE form[p]]
  /\ UNCHANGED <<status, gateway, funds, deliveries>>

GatewayAnswers(r) == AnswerSuccess(r) \/ AnswerFailure(r) \/ AnswerThrows(r)
Proceed(r) == SaveCompleted(r) \/ SaveFailed(r) \/ BeginDelivery(r) \/ EndVerify(r)

Next ==
  \/ \E p \in Payment, g \in Gateways : CreatePayment(p, g)
  \/ \E p \in Payment : OfferForm(p) \/ LoseForm(p) \/ CustomerPays(p)
  \/ \E r \in Request, p \in Payment : BeginVerify(r, p)
  \/ \E r \in Request : GatewayAnswers(r) \/ Proceed(r)
  \/ Crash

Spec == Init /\ [][Next]_vars

\* The promises of a call are awaited by the event loop, so each call goes on;
\* that a gateway call ends, with an answer or a broken connection, is assumed.
Fairness == \A r \in Request : WF_vars(GatewayAnswers(r)) /\ WF_vars(Proceed(r))
FairSpec == Spec /\ Fairness

-----------------------------------------------------------------------------
(* Properties *)

\* A call between reading the row as PENDING and writing its outcome.
InFlight(p) == {r \in Request : target[r] = p /\ pc[r] \in Asking}

\* The money behind payment p: its own, or at the gateways that are asked about
\* the id in the request, that of any payment made there.
Funded(p) ==
  \E q \in Payment :
    /\ gateway[q] = gateway[p]
    /\ funds[q] = "taken"
    /\ q = p \/ gateway[p] \in GlobalGateways

\* A row is COMPLETED, and its purchase handed over, only with money at its gateway
\* (ConnectIPS excepted, whose answer is not asked for): at eSewa and IME Pay the
\* payment's own. At Stripe and PayPal some payment's, as the code lets one paid
\* session stand for another payment. No overlap, restart or late answer does more.
Paid(p) == status[p] = "COMPLETED" \/ deliveries[p] > 0
CompletedIsFunded == \A p \in Payment : Paid(p) /\ gateway[p] \notin Unasked => Funded(p)

\* A captured PayPal order completes one payment at most: whichever order the
\* requests name, overlap and repeat, no more payments are COMPLETED or handed
\* over than orders were captured.
OrdersPayOnce ==
  Cardinality({p \in Payment : gateway[p] = "PAYPAL" /\ Paid(p)})
    <= Cardinality({p \in Payment : gateway[p] = "PAYPAL" /\ funds[p] = "taken"})

\* verifyPayment has no lock, so a purchase may be handed over once per call that
\* was in flight when the row was first settled, and never once more after that.
DeliveriesBounded == \A p \in Payment : deliveries[p] <= Cardinality(Request)

\* Once no call is in flight a settled row is final: "already verified" and
\* "cannot be verified" hold for good.
SettledIsFinal ==
  [][\A p \in Payment :
       status[p] \in Settled /\ InFlight(p) = {}
         => status'[p] = status[p] /\ InFlight(p)' = {}]_vars

\* verifyPayment, where it swallows errors of the post-payment part: "The payment
\* is already marked as completed".  (An overlapping call that was told 'failure'
\* may have overwritten it.)
AppliedIsCompleted ==
  \A r \in Request : pc[r] = "applying" => status[target[r]] = "COMPLETED"

\* Unless the process restarts, a payment whose gateway said 'success' has its
\* purchase handed over, even if another call overwrites its row.
SuccessIsDelivered ==
  \A r \in Request, p \in Payment, c \in 0..MaxCrashes :
    pc[r] = "succeeded" /\ target[r] = p /\ crashes = c ~> deliveries[p] > 0 \/ crashes > c
=============================================================================
