-------------------------------- MODULE Invoices --------------------------------
(***************************************************************************)
(* One CRM invoice and its payments (mero-crm/src/services/                *)
(* payments.service.ts, invoices.service.ts).  Every payment call writes   *)
(* its payment first, then reads the invoice with all its payments and     *)
(* saves the payment status it computes; edits of the invoice save copies  *)
(* of the same row.  No call runs in a transaction of its own.             *)
(*                                                                         *)
(* Saving an invoice that was loaded with its payments also compares the   *)
(* list: a payment it does not hold would be detached (invoice_id = NULL), *)
(* which the column refuses, so that a save after somebody else's payment  *)
(* fails.  The comparison reads before the UPDATE, and a payment may still *)
(* come between the two.                                                   *)
(*                                                                         *)
(* Left out: edits of the items, which fail (the save inserts the deleted  *)
(* items again and detaches the new ones) unless the new list is empty, so *)
(* that the total stays as created; sales orders, which need a product     *)
(* that no item can name; and the statuses other than sent, which are all  *)
(* treated as draft.                                                       *)
(***************************************************************************)
EXTENDS Server, FiniteSetsExt

CONSTANTS
  Payment,   \* the crm_payments of the invoice
  Paid,      \* amounts of payments, not negative
  Total,     \* total of the invoice
  ByHand,    \* payment statuses an edit may set
  MaxUpsets  \* bound: no call begins after so many upsets

PaymentStatus == {"unpaid", "partially", "paid"}

ASSUME InvoiceAssumption ==
  /\ Paid \subseteq Nat /\ {Total, MaxUpsets} \subseteq Nat
  /\ ByHand \subseteq PaymentStatus /\ None \notin Payment

VARIABLES
  invoice,   \* the crm_invoices row
  payment,   \* the crm_payments rows
  billing,   \* what each call has read and is about to save
  drafts,    \* draft journal entries posted for the invoice
  upsets,    \* history: payment statuses written by hand or from other payments than there are
  unbooked,  \* history: turns to SENT without a posting: it failed, or the invoice was created so
  left       \* history: saves that took the invoice out of SENT, and edits to SENT that did not
             \* bring it there: it was sent meanwhile

invoiceVars == <<invoice, payment, billing, drafts, upsets, unbooked, left>>

InvoiceStatus == {"draft", "sent"}
NotRecorded == [state |-> "none", amount |-> 0]
Bill(at, op, was, copy, list) ==
  [at |-> at, op |-> op, p |-> None, new |-> NotRecorded, was |-> was, copy |-> copy, list |-> list]
At(at, op) == Bill(at, op, None, None, None)
NoBill == At("idle", "none")

\* create: an invoice is born unpaid, in the status asked for, and nothing is posted.
InvoiceInit ==
  /\ \E status \in InvoiceStatus : invoice = [removed |-> FALSE, status |-> status, pay |-> "unpaid"]
  /\ payment = [p \in Payment |-> NotRecorded]
  /\ billing = [c \in Call |-> NoBill]
  /\ drafts = 0 /\ upsets = 0 /\ left = 0
  /\ unbooked = IF invoice.status = "sent" THEN 1 ELSE 0

-----------------------------------------------------------------------------
Recorded(list) == {p \in Payment : list[p].state # "none"}

\* Removed payments are not filtered out.
SumOver(list, ps) == MapThenSumSet(LAMBDA p : list[p].amount, ps)

\* The statuses that fit. The code adds doubles: amounts that make up the total exactly may
\* add up to less (0.7 + 0.1 < 0.8), unless it is a single one.
StatusesOver(list, ps) ==
  LET sum == SumOver(list, ps)
      several == \E p, q \in ps : p # q /\ list[p].amount > 0 /\ list[q].amount > 0
  IN  IF sum = 0 THEN {"unpaid"}
      ELSE IF sum < Total THEN {"partially"}
      ELSE IF sum = Total /\ several THEN {"partially", "paid"} ELSE {"paid"}

StatusesFor(list) == StatusesOver(list, Recorded(list))

MayBegin(c) == billing[c] = NoBill /\ upsets + left < MaxUpsets /\ unbooked <= MaxUpsets
Moves(c, bill) == billing' = [billing EXCEPT ![c] = bill]
BeginsBill(c, bill) ==
  /\ MayBegin(c) /\ Moves(c, bill)
  /\ UNCHANGED <<invoice, payment, drafts, upsets, unbooked, left>>
Proceeds(c, from, bill) ==
  /\ billing[c].at = from /\ Moves(c, bill)
  /\ UNCHANGED <<invoice, payment, drafts, upsets, unbooked, left>>
Pays(p, row) ==
  [at |-> "paying", op |-> "pay", p |-> p, new |-> row, was |-> None, copy |-> None, list |-> None]
Computed(op, copy) == Bill("computed", op, invoice.status, copy, payment)

\* Payments: the invoice is looked up, or the payment to be changed read.
CreatePayment(c, p, amount) ==
  /\ ~invoice.removed
  /\ payment[p] = NotRecorded /\ \A d \in Call : billing[d].p # p
  /\ BeginsBill(c, Pays(p, [state |-> "kept", amount |-> amount]))

UpdatePayment(c, p, amount) ==
  /\ payment[p].state = "kept"
  /\ BeginsBill(c, Pays(p, [state |-> "kept", amount |-> amount]))

RemovePayment(c, p) ==
  /\ payment[p].state = "kept"
  /\ BeginsBill(c, Pays(p, [payment[p] EXCEPT !.state = "removed"]))

SavePayment(c) ==
  /\ billing[c].at = "paying"
  /\ payment' = [payment EXCEPT ![billing[c].p] = billing[c].new]
  /\ Moves(c, At("recounting", "recount"))
  /\ UNCHANGED <<invoice, drafts, upsets, unbooked, left>>

\* updatePaymentStatus; an invoice that was removed meanwhile is not found.
UpdatePaymentStatus(c) ==
  /\ ~invoice.removed
  /\ \E pay \in StatusesFor(payment) :
       Proceeds(c, "recounting", Computed("recount", [invoice EXCEPT !.pay = pay]))

\* Mutant: the previous status is not looked at.
EditToAgain(status) == IF status = "sent" THEN "send" ELSE "edit"

\* An edit that turns its copy to SENT goes on to post the invoice.
EditTo(status) == IF status = "sent" /\ invoice.status # "sent" THEN "send" ELSE "edit"

UpdateInvoice(c, status, pay) ==
  /\ ~invoice.removed
  /\ BeginsBill(c, Computed(EditTo(status), [invoice EXCEPT !.status = status, !.pay = pay]))

RemoveInvoice(c) ==
  /\ ~invoice.removed
  /\ BeginsBill(c, Computed("edit", [invoice EXCEPT !.removed = TRUE]))

-----------------------------------------------------------------------------
InvoiceColumn == {"removed", "status", "pay"}
Written(copy) == [col \in {k \in InvoiceColumn : copy[k] # invoice[k]} |-> copy[col]]

\* The SELECT of a save, of the row and of its payments; amounts may have changed since
\* the status was computed.
Selects(c) ==
  LET b == billing[c]
      fitting == StatusesOver(payment, Recorded(b.list))
  IN  /\ upsets' = IF b.op = "recount" /\ fitting # StatusesFor(b.list) THEN upsets + 1 ELSE upsets
      /\ Moves(c, Bill("compared", b.op, b.was, Written(b.copy),
                       IF b.op = "recount" THEN payment ELSE None))
      /\ UNCHANGED <<invoice, payment, drafts, unbooked, left>>

\* Mutant: the lists of payments are not compared.
CompareRowOnly(c) == billing[c].at = "computed" /\ Selects(c)

CompareInvoice(c) ==
  /\ billing[c].at = "computed" /\ Recorded(billing[c].list) = Recorded(payment)
  /\ Selects(c)

Detaches(c) ==
  /\ billing[c].at = "computed" /\ Recorded(billing[c].list) # Recorded(payment)
  /\ Proceeds(c, "computed", NoBill)

\* The status written is not the present one's: payments have changed since the SELECT, or
\* an edit writes a status of its own, or an old one.
Upsets(b) ==
  IF b.op = "recount" THEN StatusesFor(b.list) # StatusesFor(payment) ELSE "pay" \in DOMAIN b.copy

\* The UPDATE.
WriteInvoice(c) ==
  LET b == billing[c]
      row == [col \in InvoiceColumn |-> IF col \in DOMAIN b.copy THEN b.copy[col] ELSE invoice[col]]
  IN  /\ b.at = "compared"
      /\ invoice' = row
      /\ upsets' = IF Upsets(b) THEN upsets + 1 ELSE upsets
      /\ left' = IF \/ invoice.status = "sent" /\ row.status # "sent"
                    \/ b.op = "send" /\ b.was # "sent" /\ (invoice.status = "sent" \/ row.status # "sent")
                 THEN left + 1 ELSE left
      /\ Moves(c, IF b.op = "send" THEN At("posting", "none") ELSE NoBill)
      /\ UNCHANGED <<payment, drafts, unbooked>>

\* postInvoiceToAccounting: a draft journal entry, or an error that is only logged (the
\* accounts are not found, the entry does not balance because of a discount).
PostToAccounting(c) ==
  /\ billing[c].at = "posting"
  /\ \/ drafts' = drafts + 1 /\ UNCHANGED unbooked
     \/ unbooked' = unbooked + 1 /\ UNCHANGED drafts
  /\ Moves(c, NoBill)
  /\ UNCHANGED <<invoice, payment, upsets, left>>

\* An error or a restart ends a call where it stands, and so does a 404.
BillBreaks(c) ==
  LET b == billing[c]
  IN  /\ b # NoBill
      /\ upsets' = IF b.op = "recount" THEN upsets + 1 ELSE upsets
      /\ unbooked' = IF b.at = "posting" THEN unbooked + 1 ELSE unbooked
      /\ Moves(c, NoBill)
      /\ UNCHANGED <<invoice, payment, drafts, left>>

InvoiceStep(c) ==
  \/ \E p \in Payment :
       (\E a \in Paid : CreatePayment(c, p, a) \/ UpdatePayment(c, p, a)) \/ RemovePayment(c, p)
  \/ SavePayment(c) \/ UpdatePaymentStatus(c)
  \/ (\E status \in InvoiceStatus, pay \in {invoice.pay} \cup ByHand : UpdateInvoice(c, status, pay))
  \/ RemoveInvoice(c) \/ CompareInvoice(c) \/ Detaches(c) \/ WriteInvoice(c)
  \/ PostToAccounting(c) \/ BillBreaks(c)

InvoiceNext == \E c \in Call : InvoiceStep(c)
InvoiceSpec == InvoiceInit /\ [][InvoiceNext]_invoiceVars

-----------------------------------------------------------------------------
(* Properties *)

Quiet == \A c \in Call : billing[c] = NoBill

\* Payments recorded, changed and removed side by side leave the invoice with a status that
\* fits their sum, although nothing is locked and a save may fail: the call that fails is
\* never the one that saw all payments.
StatusFollowsPayments == Quiet /\ upsets = 0 => invoice.pay \in StatusesFor(payment)

\* An invoice that is SENT was posted to the ledger unless the posting failed or it was
\* created SENT, and it is posted twice only if it left SENT in between or edits to SENT overlapped.
SentIsBooked ==
  /\ Quiet /\ unbooked = 0 /\ invoice.status = "sent" => drafts >= 1
  /\ drafts <= 1 + left
=============================================================================
