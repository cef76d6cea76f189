------------------------------- MODULE Ledger -------------------------------
(***************************************************************************)
(* The books of one organization (api/marketplace/organization/            *)
(* mero-accounting/services): sales invoices of one customer, receipts,    *)
(* bulk receipts allocated to several invoices, plain journal entries and  *)
(* the closing of a fiscal year.  (Credit notes and purchase invoices are  *)
(* the same with the sign reversed, and left out.)                         *)
(*                                                                         *)
(* Every operation is one READ COMMITTED transaction that reads rows,      *)
(* computes new absolute values from its copies, saves them and commits;   *)
(* no row is locked while it is read.  A call here is such a transaction:  *)
(* it plans what it will save, reads the account balances, and commits.    *)
(* A commit that overwrites a row another call has written since this call *)
(* read it sets `raced`; which columns survive then is not modelled.       *)
(* All dates fall into one fiscal year; a unit of money is 0.01.           *)
(***************************************************************************)
EXTENDS Integers, FiniteSets, Functions

CONSTANTS
  Invoice,              \* the sales_invoices of type INVOICE
  Price, Amount,        \* totals of invoices, amounts of receipts and entries
  Rests,                \* by how much a bulk receipt and what it is allocated to differ
  Call,                 \* slots for API calls running at the same time
  MaxEntries, MaxOwed,  \* bounds: rows of journal_entries ever inserted, what is owed
  None

ASSUME AmountsArePositive == Price \cup Amount \subseteq Nat \ {0}
ASSUME InvoicesAreFinite == IsFiniteSet(Invoice)
ASSUME RestsAreSmall == Rests \subseteq -1..1
ASSUME EntriesAreBounded == MaxEntries \in Nat /\ MaxOwed \in Nat

VARIABLES
  invoices,  \* the sales_invoices rows
  owed,      \* customers.current_balance
  entries,   \* journal_entries with their lines and payment_allocations
  balance,   \* accounts.balance
  closed,    \* fiscal_years.is_closed
  call,      \* what each call has read and is about to save
  raced,     \* history: a save has overwritten a row written since it was read
  bypassed,  \* history: an invoice's or a receipt's entry was posted or deleted as a
             \* plain journal entry
  since      \* history: net revenue posted since the sum the year was closed with

rows == <<invoices, owed, entries, balance, closed>>
vars == <<rows, call, raced, bypassed, since>>

Id == 1..MaxEntries
Customer == {"customer"}
Account == {"receivable", "bank", "revenue", "equity"}

\* What one unit of an entry adds to the account balances, on each account's normal
\* side (assets and expenses: debit, the others: credit).
Touches == [
  invoice |-> [receivable |-> 1, bank |-> 0, revenue |-> 1, equity |-> 0],
  receipt |-> [receivable |-> -1, bank |-> 1, revenue |-> 0, equity |-> 0],
  bulk    |-> [receivable |-> -1, bank |-> 1, revenue |-> 0, equity |-> 0],
  journal |-> [receivable |-> 0, bank |-> 1, revenue |-> 1, equity |-> 0],
  closing |-> [receivable |-> 0, bank |-> 0, revenue |-> -1, equity |-> 1],
  none    |-> [receivable |-> 0, bank |-> 0, revenue |-> 0, equity |-> 0]]

Nowhere == [i \in Invoice |-> 0]
NoLines == Touches["none"]
NoEntry == [kind |-> "none", ref |-> None, amount |-> 0, status |-> "NONE", alloc |-> Nowhere]

\* Some rows of a table: none, and the one under x.
NoRows == [x \in {} |-> 0]
Row(x, v) == [y \in {x} |-> v]

\* A table after some rows are saved.
Over(saved, table) == [x \in DOMAIN table |-> IF x \in DOMAIN saved THEN saved[x] ELSE table[x]]

Nothing == [inv |-> NoRows, owed |-> NoRows, ent |-> NoRows]

\* `step` is what the transaction is a step of: a call of its own, or of closing a
\* year whose lines came to `sum`; `drift` is the revenue others have posted since.
\* `stale`: a row that it has read and will save was written meanwhile.
Idle == [at |-> "idle", step |-> "idle", stale |-> FALSE, write |-> Nothing, lines |-> NoLines,
         seen |-> NoRows, id |-> 0, sum |-> 0, drift |-> 0]

\* The steps of closeFiscalYear, and what follows each.
Follow == [idle |-> "idle", drafting |-> "reviewing", reviewing |-> "approving",
           approving |-> "posting", posting |-> "marking"]

Init ==
  /\ \E total \in [Invoice -> Price] :
       invoices = [i \in Invoice |-> [status |-> "DRAFT", total |-> total[i], paid |-> 0]]
  /\ owed = [x \in Customer |-> 0]
  /\ entries = [id \in Id |-> NoEntry]
  /\ balance = [a \in Account |-> 0]
  /\ closed = FALSE
  /\ call = [c \in Call |-> Idle]
  /\ raced = FALSE /\ bypassed = FALSE /\ since = 0

-----------------------------------------------------------------------------
\* The sum of f[x] for the x in S.
Total(f, S) == SumFunctionOnSet(f, S)

LinesOf(e) == [a \in Account |-> Touches[e.kind][a] * e.amount]
Minus(f) == [a \in Account |-> -f[a]]

Is(id, kind, status) == entries[id].kind = kind /\ entries[id].status = status
Receipts(i) == {id \in Id : Is(id, "receipt", "POSTED") /\ entries[id].ref = i}
AmountOf(ids) == Total([id \in ids |-> entries[id].amount], ids)
LinesOfAll(ids) == [a \in Account |-> Total([id \in ids |-> LinesOf(entries[id])[a]], ids)]

\* The sum of the POSTED lines on an account.
Posted(a) == LinesOfAll({id \in Id : entries[id].status = "POSTED"})[a]

\* Ids are uuids: never used twice.
Fresh == {id \in Id : entries[id] = NoEntry /\ \A c \in Call : id \notin DOMAIN call[c].write.ent}
Gone(e) == [e EXCEPT !.status = "DELETED", !.alloc = Nowhere]

\* Mutant: a rest of one unit is taken for a rounding difference.
ReceivedRounded(row, amount) ==
  [row EXCEPT !.paid = @ + amount,
              !.status = IF row.paid + amount >= row.total - 1 THEN "PAID" ELSE "PARTIALLY_PAID"]

\* The status that goes with an amount paid, after a receipt and after its reversal.
Received(row, amount) ==
  [row EXCEPT !.paid = @ + amount,
              !.status = IF row.paid + amount >= row.total THEN "PAID" ELSE "PARTIALLY_PAID"]
Reversed(row, amount) ==
  [row EXCEPT !.paid = @ - amount,
              !.status = IF row.paid - amount <= 0 THEN "POSTED" ELSE "PARTIALLY_PAID"]

Owe(delta) == Row("customer", owed["customer"] + delta)

At(c, stage) == call[c].at = stage

\* Between the sum of a year's lines and the year marked closed.
Closing(c) == {call[c].at, call[c].step} \cap ((DOMAIN Follow \cup {"marking"}) \ {"idle"}) # {}

\* A call has read the rows, and will save them as `w` and post or reverse `lines`.
Plan(c, w, lines) ==
  /\ call' = [call EXCEPT ![c] =
       [call[c] EXCEPT !.at = IF lines = NoLines THEN "planned" ELSE "adding",
                 !.step = call[c].at,
                 !.write = w,
                 !.lines = lines]]
  /\ UNCHANGED <<rows, raced, bypassed, since>>

\* The accounts of the lines are read, one after the other.
ReadBalances(c) ==
  /\ At(c, "adding")
  /\ call' = [call EXCEPT ![c].at = "planned",
                          ![c].seen = [a \in {b \in Account : call[c].lines[b] # 0} |-> balance[a]]]
  /\ UNCHANGED <<rows, raced, bypassed, since>>

\* Two calls have read, and will save, the same row.
Overlap(k, l) ==
  \/ DOMAIN k.write.inv \cap DOMAIN l.write.inv # {}
  \/ DOMAIN k.write.owed \cap DOMAIN l.write.owed # {}
  \/ DOMAIN k.write.ent \cap DOMAIN l.write.ent # {}
  \/ DOMAIN k.seen \cap DOMAIN l.seen # {}

Commit(c) ==
  LET w == call[c].write
      seen == call[c].seen
      revenue == call[c].lines["revenue"]
  IN  /\ At(c, "planned")
      /\ invoices' = Over(w.inv, invoices)
      /\ owed' = Over(w.owed, owed)
      /\ entries' = Over(w.ent, entries)
      /\ balance' = Over([a \in DOMAIN seen |-> seen[a] + call[c].lines[a]], balance)
      /\ raced' = (raced \/ call[c].stale)
      /\ bypassed' = (bypassed \/ (call[c].lines["receivable"] # 0 /\ w.owed = NoRows))
      /\ since' = IF closed THEN since + revenue ELSE 0
      /\ call' = [d \in Call |->
           IF d # c THEN [call[d] EXCEPT !.stale = @ \/ Overlap(call[d], call[c]),
                                         !.drift = IF Closing(d) THEN @ + revenue ELSE @]
           ELSE IF call[c].step = "idle" THEN Idle
           ELSE [Idle EXCEPT !.at = Follow[call[c].step], !.sum = call[c].sum,
                             !.drift = call[c].drift, !.id = CHOOSE id \in DOMAIN w.ent : TRUE]]
      /\ UNCHANGED closed

-----------------------------------------------------------------------------
(* sales-invoices.service.ts *)

SaveInvoice(i, row) == [Nothing EXCEPT !.inv = Row(i, row)]

\* (In no transaction.)
UpdateInvoice(c, i, total) ==
  /\ invoices[i].status = "DRAFT"
  /\ Plan(c, SaveInvoice(i, [invoices[i] EXCEPT !.total = total]), NoLines)

PostInvoice(c, i) ==
  /\ invoices[i].status = "DRAFT"
  /\ \E id \in Fresh :
       LET e == [NoEntry EXCEPT !.kind = "invoice", !.ref = i, !.amount = invoices[i].total, !.status = "POSTED"]
       IN  Plan(c, [inv |-> Row(i, [invoices[i] EXCEPT !.status = "POSTED"]),
                    owed |-> Owe(invoices[i].total), ent |-> Row(id, e)], LinesOf(e))

\* Mutant: the receipts are set back, the amount paid is kept.
UnpostKeepingPaid(c, i) ==
  LET paid == Receipts(i)
      own == {id \in Id : entries[id].kind = "invoice" /\ entries[id].ref = i
                          /\ entries[id].status # "DELETED"}
  IN  /\ invoices[i].status # "DRAFT"
      /\ Plan(c, [inv |-> Row(i, [invoices[i] EXCEPT !.status = "DRAFT"]),
                  owed |-> Owe(AmountOf(paid) - (IF own = {} THEN 0 ELSE invoices[i].total)),
                  ent |-> [id \in paid \cup own |->
                             IF id \in own THEN Gone(entries[id])
                             ELSE [entries[id] EXCEPT !.status = "DRAFT"]]],
              Minus(LinesOfAll(paid \cup own)))

\* The invoice's own entry, when it is still there, is removed; its posted receipts
\* go back to DRAFT.  (The link that is cleared is not modelled: an entry knows its
\* invoice.)
UnpostInvoice(c, i) ==
  LET paid == Receipts(i)
      own == {id \in Id : entries[id].kind = "invoice" /\ entries[id].ref = i
                          /\ entries[id].status # "DELETED"}
  IN  /\ invoices[i].status # "DRAFT"
      /\ Plan(c, [inv |-> Row(i, [invoices[i] EXCEPT !.status = "DRAFT", !.paid = @ - AmountOf(paid)]),
                  owed |-> Owe(AmountOf(paid) - (IF own = {} THEN 0 ELSE invoices[i].total)),
                  ent |-> [id \in paid \cup own |->
                             IF id \in own THEN Gone(entries[id])
                             ELSE [entries[id] EXCEPT !.status = "DRAFT"]]],
              Minus(LinesOfAll(paid \cup own)))

RecordPayment(c, i, amount) ==
  /\ invoices[i].status \in {"POSTED", "PARTIALLY_PAID"}
  /\ amount <= invoices[i].total - invoices[i].paid
  /\ \E id \in Fresh :
       LET e == [NoEntry EXCEPT !.kind = "receipt", !.ref = i, !.amount = amount, !.status = "POSTED"]
       IN  Plan(c, [inv |-> Row(i, Received(invoices[i], amount)), owed |-> Owe(-amount),
                    ent |-> Row(id, e)], LinesOf(e))

UpdatePayment(c, id, amount) ==
  /\ Is(id, "receipt", "DRAFT")
  /\ Plan(c, [Nothing EXCEPT !.ent = Row(id, [entries[id] EXCEPT !.amount = amount])], NoLines)

UnpostPayment(c, id) ==
  LET e == entries[id]
  IN  /\ Is(id, "receipt", "POSTED")
      /\ Plan(c, [inv |-> Row(e.ref, Reversed(invoices[e.ref], e.amount)), owed |-> Owe(e.amount),
                  ent |-> Row(id, [e EXCEPT !.status = "DRAFT"])], Minus(LinesOf(e)))

\* Neither what is still due nor the status of the invoice is looked at.
PostPayment(c, id) ==
  LET e == entries[id]
  IN  /\ e.kind = "receipt" /\ e.status \notin {"POSTED", "DELETED"}
      /\ Plan(c, [inv |-> Row(e.ref, Received(invoices[e.ref], e.amount)), owed |-> Owe(-e.amount),
                  ent |-> Row(id, [e EXCEPT !.status = "POSTED"])], LinesOf(e))

DeletePayment(c, id) ==
  LET e == entries[id]
  IN  /\ e.kind = "receipt" /\ e.status # "DELETED"
      /\ IF e.status = "POSTED"
         THEN Plan(c, [inv |-> Row(e.ref, Reversed(invoices[e.ref], e.amount)), owed |-> Owe(e.amount),
                       ent |-> Row(id, Gone(e))], Minus(LinesOf(e)))
         ELSE Plan(c, [Nothing EXCEPT !.ent = Row(id, Gone(e))], NoLines)

-----------------------------------------------------------------------------
(* payment-allocation.service.ts *)

Due(i) == invoices[i].total - invoices[i].paid

\* FIFO takes posted invoices and pays what is due, MANUAL any.  A line may exceed what is
\* due by 0.01; a MANUAL list may name an invoice any number of times, and each of its
\* lines is compared with what is due before any is paid.
Allocatable(alloc) == \A i \in Invoice : alloc[i] > 0 => Due(i) >= 0

\* What is allocated may differ by 0.01 from what is received, and booked.
AllocateCustomerPayment(c, alloc, amount) ==
  LET paying == {i \in Invoice : alloc[i] > 0}
  IN  /\ amount > 0 /\ amount - Total(alloc, Invoice) \in Rests
      /\ Allocatable(alloc)
      /\ \E id \in Fresh :
           LET e == [NoEntry EXCEPT !.kind = "bulk", !.amount = amount, !.status = "POSTED",
                                    !.alloc = alloc]
           IN  Plan(c, [inv |-> [i \in paying |-> Received(invoices[i], alloc[i])],
                        owed |-> Owe(-amount), ent |-> Row(id, e)], LinesOf(e))

\* The lines are reversed by what was received, the debt by what was allocated.
UnpostAllocationGroup(c, id) ==
  LET e == entries[id]
      paying == {i \in Invoice : e.alloc[i] > 0}
      amount == Total(e.alloc, Invoice)
  IN  /\ Is(id, "bulk", "POSTED") /\ paying # {}
      /\ Plan(c, [inv |-> [i \in paying |-> Reversed(invoices[i], e.alloc[i])],
                  owed |-> Owe(amount),
                  ent |-> Row(id, [e EXCEPT !.status = "DRAFT", !.alloc = Nowhere])],
              Minus(LinesOf(e)))

-----------------------------------------------------------------------------
(* journal-entries.service.ts: the steps through which any entry can be taken *)

SaveEntry(id, e) == [Nothing EXCEPT !.ent = Row(id, e)]

\* The fiscal year is looked up first.
CreateEntry(c, kind, amount) ==
  /\ ~closed
  /\ \E id \in Fresh :
       Plan(c, SaveEntry(id, [NoEntry EXCEPT !.kind = kind, !.amount = amount, !.status = "DRAFT"]), NoLines)

MarkAsReviewed(c, id) ==
  /\ entries[id].status = "DRAFT"
  /\ Plan(c, SaveEntry(id, [entries[id] EXCEPT !.status = "REVIEWED"]), NoLines)

ApproveEntry(c, id) ==
  /\ entries[id].status = "REVIEWED"
  /\ Plan(c, SaveEntry(id, [entries[id] EXCEPT !.status = "APPROVED"]), NoLines)

PostEntry(c, id) ==
  /\ ~closed
  /\ entries[id].status = "APPROVED"
  /\ Plan(c, SaveEntry(id, [entries[id] EXCEPT !.status = "POSTED"]), LinesOf(entries[id]))

\* Mutant: the balances are not reversed.
DeleteRowsOnly(c, id) ==
  /\ entries[id].status \notin {"NONE", "DELETED"}
  /\ entries[id].status = "POSTED" => ~closed
  /\ Plan(c, SaveEntry(id, Gone(entries[id])), NoLines)

\* Only of a posted entry are the balances reversed and the year looked up.
DeleteEntry(c, id) ==
  LET e == entries[id]
  IN  /\ e.status \notin {"NONE", "DELETED"}
      /\ e.status = "POSTED" => ~closed
      /\ Plan(c, SaveEntry(id, Gone(e)), IF e.status = "POSTED" THEN Minus(LinesOf(e)) ELSE NoLines)

-----------------------------------------------------------------------------
(* year-end-closing.service.ts: closeFiscalYear, each step a transaction *)

\* Mutant: the sum is over the lines of all entries.
CloseReadAll(c) ==
  LET sum == LinesOfAll({id \in Id : entries[id].status # "DELETED"})["revenue"]
  IN  /\ ~closed
      /\ call' = [call EXCEPT ![c] =
           [Idle EXCEPT !.at = IF sum = 0 THEN "marking" ELSE "drafting", !.sum = sum]]
      /\ UNCHANGED <<rows, raced, bypassed, since>>

CloseRead(c) ==
  /\ ~closed
  /\ call' = [call EXCEPT ![c] =
       [Idle EXCEPT !.at = IF Posted("revenue") = 0 THEN "marking" ELSE "drafting",
                    !.sum = Posted("revenue")]]
  /\ UNCHANGED <<rows, raced, bypassed, since>>

CloseStep(c) ==
  \/ At(c, "drafting") /\ CreateEntry(c, "closing", call[c].sum)
  \/ At(c, "reviewing") /\ MarkAsReviewed(c, call[c].id)
  \/ At(c, "approving") /\ ApproveEntry(c, call[c].id)
  \/ At(c, "posting") /\ PostEntry(c, call[c].id)

CloseMark(c) ==
  /\ At(c, "marking")
  /\ closed' = TRUE
  /\ since' = call[c].drift
  /\ call' = [call EXCEPT ![c] = Idle]
  /\ UNCHANGED <<invoices, owed, entries, balance, raced, bypassed>>

-----------------------------------------------------------------------------
\* A refusal, an error, a restart or a deadlock of row locks, which PostgreSQL ends by
\* aborting a transaction: what was not committed is gone.
Abort(c) ==
  /\ ~At(c, "idle")
  /\ call' = [call EXCEPT ![c] = Idle]
  /\ UNCHANGED <<rows, raced, bypassed, since>>

Invoicing(c) ==
  \E i \in Invoice :
    \/ \E total \in Price : UpdateInvoice(c, i, total)
    \/ \E amount \in Amount : RecordPayment(c, i, amount)
    \/ PostInvoice(c, i) \/ UnpostInvoice(c, i)

Receiving(c) ==
  \/ \E id \in Id :
       \/ \E amount \in Amount : UpdatePayment(c, id, amount)
       \/ UnpostPayment(c, id) \/ PostPayment(c, id) \/ DeletePayment(c, id)
       \/ UnpostAllocationGroup(c, id)
  \/ \E alloc \in [Invoice -> Amount \cup {0}] : \E rest \in Rests :
       AllocateCustomerPayment(c, alloc, Total(alloc, Invoice) + rest)

Journal(c) ==
  \/ \E amount \in Amount : CreateEntry(c, "journal", amount)
  \/ \E id \in Id :
       MarkAsReviewed(c, id) \/ ApproveEntry(c, id) \/ PostEntry(c, id) \/ DeleteEntry(c, id)

\* (Bounds: no call begins after a race, nor when MaxOwed is exceeded.)
Begin(c) ==
  /\ At(c, "idle") /\ ~raced
  /\ owed["customer"] \in -MaxOwed..MaxOwed
  /\ Invoicing(c) \/ Receiving(c) \/ Journal(c) \/ CloseRead(c)

Next ==
  \E c \in Call :
    \/ Begin(c) \/ CloseStep(c) \/ CloseMark(c)
    \/ ReadBalances(c) \/ Commit(c) \/ Abort(c)

Spec == Init /\ [][Next]_vars

-----------------------------------------------------------------------------
(* Properties *)

\* Whatever is posted, taken back, deleted, allocated and closed in whatever order, an
\* account's balance is the sum of its POSTED lines, unless a transaction has
\* overwritten a row that was written since it read it.
BooksAgree == ~raced => \A a \in Account : balance[a] = Posted(a)

\* Unless the entry of an invoice or a receipt was posted or deleted as a plain journal
\* entry (or calls raced), what an invoice counts as paid is its posted receipts and
\* the allocations to it, and what the customer owes is the receivables account but for
\* 0.01 either way for every bulk receipt that was taken back.
ReceiptsAgree ==
  ~raced /\ ~bypassed =>
    /\ LET back == Cardinality({id \in Id : entries[id].kind = "bulk" /\ entries[id].status # "POSTED"})
       IN  owed["customer"] - Posted("receivable") \in -back..back
    /\ \A i \in Invoice :
         LET posted == {id \in Id : entries[id].status = "POSTED"}
         IN  invoices[i].paid = AmountOf(Receipts(i))
                                + Total([id \in posted |-> entries[id].alloc[i]], posted)

\* Unless calls raced, an invoice that says it is PAID is paid in full, whatever was
\* posted, taken back, corrected and posted again.
PaidInFull ==
  ~raced => \A i \in Invoice : invoices[i].status = "PAID" => invoices[i].paid >= invoices[i].total

\* A year closed, however often the closing was broken off and begun again, leaves on
\* the revenue account exactly what was posted after the sum was taken.
ClosingIsExact == closed /\ ~raced => Posted("revenue") = since
=============================================================================
