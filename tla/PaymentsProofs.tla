---------------------------- MODULE PaymentsProofs ----------------------------
(***************************************************************************)
(* Proofs about Payments, for any number of payments, overlapping calls of  *)
(* verifyPayment and restarts, and about AppSubscriptions, which settles    *)
(* its purchases by them, for any apps, members, days, overlapping calls,   *)
(* scheduler runs and restarts.                                             *)
(***************************************************************************)
EXTENDS PaymentRefinement, AppSubscriptions, FiniteSetTheorems, TLAPS

-----------------------------------------------------------------------------
(* Types *)

LEMMA InitTyped == Init => TypeOK
BY CrashBound DEF Init, TypeOK, Status, Gateways

LEMMA NextTyped == TypeOK /\ [Next]_vars => TypeOK'
<1> SUFFICES ASSUME TypeOK, [Next]_vars PROVE TypeOK'
  OBVIOUS
<1> USE DEF TypeOK, rows, calls
<1>1. ASSUME NEW p \in Payment, NEW g \in Gateways, CreatePayment(p, g) PROVE TypeOK'
  BY <1>1 DEF CreatePayment, Status, VisibleGateways
<1>2. ASSUME NEW p \in Payment, OfferForm(p) \/ LoseForm(p) PROVE TypeOK'
  BY <1>2 DEF OfferForm, LoseForm
<1>3. ASSUME NEW p \in Payment, CustomerPays(p) PROVE TypeOK'
  BY <1>3 DEF CustomerPays
<1>4. ASSUME NEW r \in Request, NEW p \in Payment, BeginVerify(r, p) PROVE TypeOK'
  BY <1>4 DEF BeginVerify, Asking
<1>5. ASSUME NEW r \in Request, GatewayAnswers(r) PROVE TypeOK'
  <2>1. CASE AnswerSuccess(r)
    <3>1. funds' \in [Payment -> {"none", "approved", "taken"}]
      BY <2>1 DEF AnswerSuccess, Captured
    <3> QED BY <2>1, <3>1 DEF AnswerSuccess, Asking
  <2>2. CASE AnswerFailure(r)
    BY <2>2 DEF AnswerFailure, Asking
  <2>3. CASE AnswerThrows(r)
    <3>1. funds' \in [Payment -> {"none", "approved", "taken"}]
      BY <2>3 DEF AnswerThrows, Captured
    <3> QED BY <2>3, <3>1 DEF AnswerThrows, Return
  <2> QED BY <1>5, <2>1, <2>2, <2>3 DEF GatewayAnswers
<1>6. ASSUME NEW r \in Request, Proceed(r) PROVE TypeOK'
  <2>1. CASE SaveCompleted(r)
    BY <2>1 DEF SaveCompleted, Status
  <2>2. CASE SaveFailed(r)
    BY <2>2 DEF SaveFailed, Return, Status
  <2>3. CASE BeginDelivery(r)
    <3>1. deliveries \in [Payment -> Nat]
      OBVIOUS
    <3>2. deliveries' = [p \in Payment |-> IF p = target[r] THEN deliveries[p] + 1 ELSE deliveries[p]]
      BY <2>3, <3>1 DEF BeginDelivery
    <3>3. deliveries' \in [Payment -> Nat]
      BY <3>1, <3>2
    <3> QED BY <2>3, <3>3 DEF BeginDelivery
  <2>4. CASE EndVerify(r)
    BY <2>4 DEF EndVerify, Return
  <2> QED BY <1>6, <2>1, <2>2, <2>3, <2>4 DEF Proceed
<1>7. CASE Crash
  BY <1>7, CrashBound DEF Crash
<1>8. CASE UNCHANGED vars
  BY <1>8 DEF vars
<1> QED BY <1>1, <1>2, <1>3, <1>4, <1>5, <1>6, <1>7, <1>8 DEF Next

\* Every variable keeps its type, whatever overlaps and restarts.
THEOREM TypeCorrect == Spec => []TypeOK
BY InitTyped, NextTyped, PTL DEF Spec

-----------------------------------------------------------------------------
(* Money *)

\* A call that works on a payment has its row, which is not created again, a row has
\* its gateway, nothing is paid without one, and past a 'success' the money is there.
CallsKnowTheirRow ==
  /\ \A r \in Request : pc[r] # "idle" => target[r] \in Payment /\ status[target[r]] # "absent"
  /\ \A p \in Payment : deliveries[p] > 0 => status[p] # "absent"
  /\ \A p \in Payment :
       /\ gateway[p] = None <=> status[p] = "absent"
       /\ status[p] = "absent" => form[p] = "none" /\ funds[p] = "none"

SuccessIsFunded ==
  \A r \in Request :
    pc[r] \in {"succeeded", "completed", "applying"} /\ gateway[target[r]] \notin Unasked
      => Funded(target[r])

FundsInv == TypeOK /\ CallsKnowTheirRow /\ SuccessIsFunded /\ CompletedIsFunded

LEMMA FundsInvInit == Init => FundsInv
BY InitTyped, NoneIsNothing
DEF Init, FundsInv, CallsKnowTheirRow, SuccessIsFunded, CompletedIsFunded, Paid

\* What a gateway has taken it keeps, and a row keeps its gateway.
LEMMA CapturedKeeps ==
  ASSUME TypeOK, NEW p \in Payment, NEW q \in Payment, NEW u \in Payment, funds[u] = "taken"
  PROVE  Captured(p, q)[u] = "taken"
BY DEF Captured, TypeOK

LEMMA FundsStay ==
  ASSUME TypeOK, CallsKnowTheirRow, [Next]_vars, NEW p \in Payment
  PROVE  /\ funds[p] = "taken" => funds'[p] = "taken"
         /\ status[p] # "absent" => gateway'[p] = gateway[p]
<1> USE DEF TypeOK, CallsKnowTheirRow, rows, calls, Asking
<1>1. ASSUME NEW q \in Payment, NEW g \in Gateways, CreatePayment(q, g)
      PROVE  funds' = funds /\ (status[p] # "absent" => gateway'[p] = gateway[p])
  BY <1>1 DEF CreatePayment
<1>2. ASSUME NEW q \in Payment, OfferForm(q) \/ LoseForm(q) PROVE UNCHANGED <<funds, gateway>>
  BY <1>2 DEF OfferForm, LoseForm
<1>3. ASSUME NEW q \in Payment, CustomerPays(q)
      PROVE  gateway' = gateway /\ (funds[p] = "taken" => funds'[p] = "taken")
  BY <1>3 DEF CustomerPays
<1>4. ASSUME NEW r \in Request, NEW q \in Payment, BeginVerify(r, q) PROVE UNCHANGED <<funds, gateway>>
  BY <1>4 DEF BeginVerify
<1>5. ASSUME NEW r \in Request, GatewayAnswers(r)
      PROVE  gateway' = gateway /\ (funds[p] = "taken" => funds'[p] = "taken")
  <2>1. target[r] \in Payment /\ gateway' = gateway
    BY <1>5 DEF GatewayAnswers, AnswerSuccess, AnswerFailure, AnswerThrows
  <2>2. funds' = funds \/ \E q \in Payment : funds' = Captured(target[r], q)
    BY <1>5 DEF GatewayAnswers, AnswerSuccess, AnswerFailure, AnswerThrows
  <2> QED BY <2>1, <2>2, CapturedKeeps
<1>6. ASSUME NEW r \in Request, Proceed(r) PROVE UNCHANGED <<funds, gateway>>
  BY <1>6 DEF Proceed, SaveCompleted, SaveFailed, BeginDelivery, EndVerify
<1>7. CASE Crash \/ UNCHANGED vars
  BY <1>7 DEF Crash, vars
<1> QED BY <1>1, <1>2, <1>3, <1>4, <1>5, <1>6, <1>7 DEF Next

LEMMA FundedExists ==
  ASSUME CallsKnowTheirRow, NEW p \in Payment, Funded(p) PROVE status[p] # "absent"
BY DEF CallsKnowTheirRow, Funded

LEMMA FundedStays ==
  ASSUME TypeOK, CallsKnowTheirRow, [Next]_vars, NEW p \in Payment, Funded(p)
  PROVE  Funded(p)'
<1>0. status[p] # "absent"
  BY FundedExists
<1>1. PICK q \in Payment : /\ gateway[q] = gateway[p] /\ funds[q] = "taken"
                           /\ q = p \/ gateway[p] \in GlobalGateways
  BY DEF Funded
<1>2. status[q] # "absent"
  BY <1>1 DEF CallsKnowTheirRow
<1>3. gateway'[p] = gateway[p] /\ gateway'[q] = gateway[q] /\ funds'[q] = "taken"
  BY <1>0, <1>1, <1>2, FundsStay
<1> QED BY <1>1, <1>3 DEF Funded

\* A 'success' means money, the captured order's included.
LEMMA SuccessBrings ==
  ASSUME TypeOK, NEW r \in Request, target[r] \in Payment, AnswerSuccess(r),
         gateway[target[r]] \notin Unasked
  PROVE  Funded(target[r])'
<1> DEFINE p == target[r]
<1>1. PICK q \in Payment : Confirms(p, q) /\ funds' = Captured(p, q)
  BY DEF AnswerSuccess
<1>2. gateway' = gateway /\ target' = target /\ funds \in [Payment -> {"none", "approved", "taken"}]
  BY DEF AnswerSuccess, rows, TypeOK
<1>3. CASE gateway[p] = "PAYPAL"
  <2>1. gateway[q] = "PAYPAL" /\ funds'[q] = "taken"
    BY <1>1, <1>2, <1>3 DEF Confirms, Captured, Unasked
  <2> QED BY <1>2, <1>3, <2>1 DEF Funded, GlobalGateways
<1>4. CASE gateway[p] # "PAYPAL"
  <2>1. /\ funds' = funds
        /\ \/ funds[p] = "taken"
           \/ gateway[p] = "STRIPE" /\ gateway[q] = "STRIPE" /\ funds[q] = "taken"
    BY <1>1, <1>4 DEF Confirms, Captured
  <2> QED BY <1>2, <2>1 DEF Funded, GlobalGateways
<1> QED BY <1>3, <1>4

LEMMA RowsKnown ==
  ASSUME TypeOK, CallsKnowTheirRow, [Next]_vars PROVE CallsKnowTheirRow'
<1> USE DEF TypeOK, CallsKnowTheirRow, rows, calls, Asking, Status
<1>1. ASSUME NEW p \in Payment, NEW g \in Gateways, CreatePayment(p, g) PROVE CallsKnowTheirRow'
  BY <1>1, NoneIsNothing DEF CreatePayment
<1>2. ASSUME NEW p \in Payment, OfferForm(p) \/ LoseForm(p) \/ CustomerPays(p) PROVE CallsKnowTheirRow'
  BY <1>2 DEF OfferForm, LoseForm, CustomerPays
<1>3. ASSUME NEW r \in Request, NEW p \in Payment, BeginVerify(r, p) PROVE CallsKnowTheirRow'
  BY <1>3 DEF BeginVerify
<1>4. ASSUME NEW r \in Request, GatewayAnswers(r) PROVE CallsKnowTheirRow'
  <2>1. funds' = funds \/ \E q \in Payment : funds' = Captured(target[r], q)
    BY <1>4 DEF GatewayAnswers, AnswerSuccess, AnswerFailure, AnswerThrows
  <2>2. ASSUME NEW p \in Payment, status[p] = "absent" PROVE funds'[p] = "none"
    <3>1. gateway[p] # "PAYPAL"
      BY <2>2, NoneIsNothing DEF Gateways, GlobalGateways
    <3> QED BY <2>1, <2>2, <3>1 DEF Captured
  <2> QED BY <1>4, <2>2 DEF GatewayAnswers, AnswerSuccess, AnswerFailure, AnswerThrows, Return
<1>5. ASSUME NEW r \in Request, SaveCompleted(r) \/ SaveFailed(r) PROVE CallsKnowTheirRow'
  BY <1>5 DEF SaveCompleted, SaveFailed, Return
<1>6. ASSUME NEW r \in Request, BeginDelivery(r) \/ EndVerify(r) PROVE CallsKnowTheirRow'
  BY <1>6 DEF BeginDelivery, EndVerify, Return
<1>7. CASE Crash \/ UNCHANGED vars
  BY <1>7 DEF Crash, vars
<1> QED BY <1>1, <1>2, <1>3, <1>4, <1>5, <1>6, <1>7 DEF Next, Proceed

\* A call reaches a 'success' by an answer or had it before; a row is COMPLETED or
\* handed over by a call with a 'success', or was before.
LEMMA SuccessMoves ==
  ASSUME TypeOK, CallsKnowTheirRow, [Next]_vars
  PROVE  /\ \A r \in Request : pc'[r] \in {"succeeded", "completed", "applying"} =>
              /\ target'[r] = target[r]
              /\ AnswerSuccess(r) \/ pc[r] \in {"succeeded", "completed", "applying"}
         /\ \A p \in Payment : Paid(p)' => Paid(p) \/ \E r \in Request :
              target[r] = p /\ pc[r] \in {"succeeded", "completed", "applying"}
<1> USE DEF TypeOK, CallsKnowTheirRow, rows, calls, Asking, Status, Paid
<1>1. ASSUME NEW p \in Payment, NEW g \in Gateways, CreatePayment(p, g)
      PROVE  UNCHANGED calls /\ \A q \in Payment : Paid(q)' => Paid(q)
  BY <1>1 DEF CreatePayment
<1>2. ASSUME NEW p \in Payment, OfferForm(p) \/ LoseForm(p) \/ CustomerPays(p)
      PROVE  UNCHANGED calls /\ \A q \in Payment : Paid(q)' => Paid(q)
  BY <1>2 DEF OfferForm, LoseForm, CustomerPays
<1>3. CASE \E r \in Request, p \in Payment : BeginVerify(r, p)
  BY <1>3 DEF BeginVerify
<1>4. CASE \E r \in Request : GatewayAnswers(r)
  BY <1>4 DEF GatewayAnswers, AnswerSuccess, AnswerFailure, AnswerThrows, Return
<1>5. CASE \E r \in Request : SaveCompleted(r) \/ SaveFailed(r)
  BY <1>5 DEF SaveCompleted, SaveFailed, Return
<1>6. CASE \E r \in Request : BeginDelivery(r) \/ EndVerify(r)
  BY <1>6 DEF BeginDelivery, EndVerify, Return
<1>7. CASE Crash \/ UNCHANGED vars
  BY <1>7 DEF Crash, vars
<1> QED BY <1>1, <1>2, <1>3, <1>4, <1>5, <1>6, <1>7 DEF Next, Proceed

LEMMA FundsInvNext == FundsInv /\ [Next]_vars => FundsInv'
<1> SUFFICES ASSUME FundsInv, [Next]_vars PROVE FundsInv'
  OBVIOUS
<1>0. TypeOK /\ CallsKnowTheirRow /\ TypeOK' /\ CallsKnowTheirRow'
  BY NextTyped, RowsKnown DEF FundsInv
<1>1. SuccessIsFunded'
  <2> SUFFICES ASSUME NEW r \in Request, pc'[r] \in {"succeeded", "completed", "applying"},
                      gateway'[target'[r]] \notin Unasked
               PROVE  Funded(target[r])' /\ target'[r] = target[r]
    BY DEF SuccessIsFunded
  <2>1. target'[r] = target[r] /\ pc[r] # "idle"
    BY <1>0, SuccessMoves DEF AnswerSuccess
  <2>2. target[r] \in Payment /\ status[target[r]] # "absent"
    BY <1>0, <2>1 DEF CallsKnowTheirRow
  <2>3. gateway'[target[r]] = gateway[target[r]]
    BY <1>0, <2>2, FundsStay
  <2>4. CASE AnswerSuccess(r)
    BY <1>0, <2>1, <2>2, <2>3, <2>4, SuccessBrings
  <2>5. CASE pc[r] \in {"succeeded", "completed", "applying"}
    <3>1. Funded(target[r])
      BY <2>1, <2>3, <2>5 DEF FundsInv, SuccessIsFunded
    <3> QED BY <1>0, <2>1, <2>2, <3>1, FundedStays
  <2> QED BY <1>0, <2>4, <2>5, SuccessMoves
<1>2. CompletedIsFunded'
  <2> SUFFICES ASSUME NEW p \in Payment, Paid(p)', gateway'[p] \notin Unasked PROVE Funded(p)'
    BY DEF CompletedIsFunded
  <2>1. CASE Paid(p)
    <3>1. status[p] # "absent"
      BY <1>0, <2>1 DEF Paid, CallsKnowTheirRow
    <3>2. gateway'[p] = gateway[p]
      BY <1>0, <3>1, FundsStay
    <3> QED BY <1>0, <2>1, <3>1, <3>2, FundedStays DEF FundsInv, CompletedIsFunded
  <2>2. ASSUME NEW r \in Request, target[r] = p, pc[r] \in {"succeeded", "completed", "applying"}
        PROVE  Funded(p)'
    <3>1. status[p] # "absent"
      BY <1>0, <2>2 DEF CallsKnowTheirRow
    <3>2. gateway'[p] = gateway[p]
      BY <1>0, <3>1, FundsStay
    <3> QED BY <1>0, <2>2, <3>1, <3>2, FundedStays DEF FundsInv, SuccessIsFunded
  <2> QED BY <1>0, <2>1, <2>2, SuccessMoves
<1> QED BY <1>0, <1>1, <1>2 DEF FundsInv

\* No overlap of calls, restart or late answer marks a payment COMPLETED, or hands
\* its purchase over, before the gateway has the money.
THEOREM PaidBeforeCompleted == Spec => []CompletedIsFunded
<1>1. Spec => []FundsInv
  BY FundsInvInit, FundsInvNext, PTL DEF Spec
<1>2. FundsInv => CompletedIsFunded
  BY DEF FundsInv
<1> QED BY <1>1, <1>2, PTL

\* The PayPal payments that were told 'success', and the orders that were captured.
Succeeded(p) == \E r \in Request : target[r] = p /\ pc[r] \in {"succeeded", "completed", "applying"}
Claims == {p \in Payment : gateway[p] = "PAYPAL" /\ (Paid(p) \/ Succeeded(p))}
Orders == {p \in Payment : gateway[p] = "PAYPAL" /\ funds[p] = "taken"}

ClaimInv == TypeOK /\ CallsKnowTheirRow /\ Cardinality(Claims) <= Cardinality(Orders)

LEMMA ClaimsFinite ==
  /\ IsFiniteSet(Claims) /\ IsFiniteSet(Orders) /\ IsFiniteSet(Claims') /\ IsFiniteSet(Orders')
  /\ Cardinality(Claims) \in Nat /\ Cardinality(Orders) \in Nat
  /\ Cardinality(Claims') \in Nat /\ Cardinality(Orders') \in Nat
<1>1. /\ Claims \subseteq Payment /\ Orders \subseteq Payment
      /\ Claims' \subseteq Payment /\ Orders' \subseteq Payment
  BY DEF Claims, Orders
<1>2. IsFiniteSet(Claims) /\ IsFiniteSet(Orders) /\ IsFiniteSet(Claims') /\ IsFiniteSet(Orders')
  BY <1>1, PaymentsAreFinite, FS_Subset
<1> QED BY <1>2, FS_CardinalityType

\* Claims grow only by an answer, and a PayPal answer captures an order more.
LEMMA ClaimsMove ==
  ASSUME TypeOK, CallsKnowTheirRow, [Next]_vars
  PROVE  /\ Orders \subseteq Orders'
         /\ \/ Claims' \subseteq Claims
            \/ \E p, q \in Payment : Claims' \subseteq Claims \cup {p} /\ q \in Orders' \ Orders
<1>1. ASSUME NEW q \in Payment, gateway[q] # None
      PROVE  gateway'[q] = gateway[q] /\ (funds[q] = "taken" => funds'[q] = "taken")
  BY <1>1, FundsStay DEF CallsKnowTheirRow
<1>2. Orders \subseteq Orders'
  BY <1>1, NoneIsNothing DEF Orders, Gateways, GlobalGateways
<1>3. ASSUME NEW p \in Claims', ~\E r \in Request : target[r] = p /\ AnswerSuccess(r)
      PROVE  p \in Claims
  <2>1. p \in Payment /\ gateway'[p] = "PAYPAL" /\ (Paid(p)' \/ Succeeded(p)')
    BY DEF Claims
  <2>2. Paid(p) \/ Succeeded(p)
    BY <1>3, <2>1, SuccessMoves DEF Succeeded
  <2>3. status[p] # "absent"
    <3>1. CASE Paid(p)
      BY <2>1, <3>1 DEF Paid, CallsKnowTheirRow
    <3>2. CASE Succeeded(p)
      BY <3>2 DEF Succeeded, CallsKnowTheirRow
    <3> QED BY <2>2, <3>1, <3>2
  <2> QED BY <2>1, <2>2, <2>3, <1>1 DEF Claims, CallsKnowTheirRow
<1>4. CASE ~\E r \in Request : target[r] \in Claims' \ Claims /\ AnswerSuccess(r)
  BY <1>2, <1>3, <1>4
<1>5. ASSUME NEW r \in Request, target[r] \in Claims' \ Claims, AnswerSuccess(r)
      PROVE  \E p, q \in Payment : Claims' \subseteq Claims \cup {p} /\ q \in Orders' \ Orders
  <2>1. target[r] \in Payment /\ gateway' = gateway /\ gateway[target[r]] = "PAYPAL"
    BY <1>5 DEF Claims, AnswerSuccess, rows
  <2>2. PICK q \in Payment : Confirms(target[r], q) /\ funds' = Captured(target[r], q)
    BY <1>5 DEF AnswerSuccess
  <2>3. q \in Orders' \ Orders
    BY <2>1, <2>2 DEF Confirms, Captured, Orders, Unasked, TypeOK
  <2>4. \A x \in Request : AnswerSuccess(x) => x = r
    BY <1>5 DEF AnswerSuccess, TypeOK
  <2>5. Claims' \subseteq Claims \cup {target[r]}
    BY <1>3, <2>4
  <2> QED BY <2>1, <2>3, <2>5
<1> QED BY <1>2, <1>4, <1>5

LEMMA ClaimInvNext == ClaimInv /\ [Next]_vars => ClaimInv'
<1> SUFFICES ASSUME ClaimInv, [Next]_vars PROVE ClaimInv'
  OBVIOUS
<1>1. TypeOK' /\ CallsKnowTheirRow'
  BY NextTyped, RowsKnown DEF ClaimInv
<1>2. Cardinality(Orders) <= Cardinality(Orders')
  BY ClaimsMove, ClaimsFinite, FS_Subset DEF ClaimInv
<1>3. CASE Claims' \subseteq Claims
  <2>1. Cardinality(Claims') <= Cardinality(Claims)
    BY <1>3, ClaimsFinite, FS_Subset
  <2> QED BY <1>1, <1>2, <2>1, ClaimsFinite DEF ClaimInv
<1>4. ASSUME NEW p \in Payment, NEW q \in Payment, Claims' \subseteq Claims \cup {p}, q \in Orders' \ Orders
      PROVE  ClaimInv'
  <2>1. /\ IsFiniteSet(Claims \cup {p}) /\ Cardinality(Claims \cup {p}) \in Nat
        /\ Cardinality(Claims \cup {p}) <= Cardinality(Claims) + 1
    <3>1. CASE p \in Claims
      <4>1. Claims \cup {p} = Claims
        BY <3>1
      <4> QED BY <4>1, ClaimsFinite
    <3>2. CASE p \notin Claims
      <4>1. IsFiniteSet(Claims \cup {p}) /\ Cardinality(Claims \cup {p}) = Cardinality(Claims) + 1
        BY <3>2, ClaimsFinite, FS_AddElement
      <4> QED BY <4>1, ClaimsFinite
    <3> QED BY <3>1, <3>2
  <2>2. Cardinality(Claims') <= Cardinality(Claims \cup {p})
    BY <1>4, <2>1, FS_Subset
  <2>3. Orders \cup {q} \subseteq Orders' /\ q \notin Orders
    BY <1>4, ClaimsMove DEF ClaimInv
  <2>4. Cardinality(Orders \cup {q}) = Cardinality(Orders) + 1
    BY <2>3, ClaimsFinite, FS_AddElement
  <2>5. Cardinality(Orders \cup {q}) <= Cardinality(Orders')
    BY <2>3, ClaimsFinite, FS_Subset
  <2>6. Cardinality(Claims') <= Cardinality(Orders')
    BY <2>1, <2>2, <2>4, <2>5, ClaimsFinite DEF ClaimInv
  <2> QED BY <1>1, <2>6 DEF ClaimInv
<1> QED BY <1>3, <1>4, ClaimsMove DEF ClaimInv

\* Whatever orders the requests name, however often and overlapping, no more PayPal
\* payments are COMPLETED or handed over than PayPal orders were captured.
THEOREM OrdersPayForOne == Spec => []OrdersPayOnce
<1>1. Init => ClaimInv
  <2> SUFFICES ASSUME Init PROVE ClaimInv
    OBVIOUS
  <2>1. TypeOK /\ CallsKnowTheirRow
    BY InitTyped, FundsInvInit DEF FundsInv
  <2>2. Claims = {} /\ Orders = {}
    BY NoneIsNothing DEF Init, Claims, Orders, Gateways, GlobalGateways
  <2> QED BY <2>1, <2>2, FS_EmptySet DEF ClaimInv
<1>2. ClaimInv => OrdersPayOnce
  <2> SUFFICES ASSUME ClaimInv PROVE OrdersPayOnce
    OBVIOUS
  <2> DEFINE paid == {p \in Payment : gateway[p] = "PAYPAL" /\ Paid(p)}
  <2>1. paid \subseteq Claims
    BY DEF Claims
  <2>2. Cardinality(paid) <= Cardinality(Claims) /\ Cardinality(paid) \in Nat
    BY <2>1, ClaimsFinite, FS_Subset, FS_CardinalityType
  <2> QED BY <2>2, ClaimsFinite DEF ClaimInv, OrdersPayOnce, Orders
<1> QED BY <1>1, <1>2, ClaimInvNext, PTL DEF Spec

-----------------------------------------------------------------------------
(* Settled rows *)

LEMMA SettledStays ==
  ASSUME FundsInv, [Next]_vars, NEW p \in Payment, status[p] \in Settled, InFlight(p) = {}
  PROVE  status'[p] = status[p] /\ InFlight(p)' = {}
<1> USE DEF FundsInv, TypeOK, CallsKnowTheirRow, rows, calls, Asking, Status, Settled, InFlight
<1>1. ASSUME NEW q \in Payment, NEW g \in Gateways, CreatePayment(q, g)
      PROVE  status'[p] = status[p] /\ InFlight(p)' = {}
  BY <1>1 DEF CreatePayment
<1>2. ASSUME NEW q \in Payment, OfferForm(q) \/ LoseForm(q) \/ CustomerPays(q)
      PROVE  status'[p] = status[p] /\ InFlight(p)' = {}
  BY <1>2 DEF OfferForm, LoseForm, CustomerPays
<1>3. ASSUME NEW r \in Request, NEW q \in Payment, BeginVerify(r, q)
      PROVE  status'[p] = status[p] /\ InFlight(p)' = {}
  BY <1>3 DEF BeginVerify
<1>4. ASSUME NEW r \in Request, GatewayAnswers(r)
      PROVE  status'[p] = status[p] /\ InFlight(p)' = {}
  BY <1>4 DEF GatewayAnswers, AnswerSuccess, AnswerFailure, AnswerThrows, Return
<1>5. ASSUME NEW r \in Request, Proceed(r)
      PROVE  status'[p] = status[p] /\ InFlight(p)' = {}
  BY <1>5 DEF Proceed, SaveCompleted, SaveFailed, BeginDelivery, EndVerify, Return
<1>6. CASE Crash
  BY <1>6 DEF Crash
<1>7. CASE UNCHANGED vars
  BY <1>7 DEF vars
<1> QED BY <1>1, <1>2, <1>3, <1>4, <1>5, <1>6, <1>7 DEF Next

\* Once no call is in flight a settled row never changes again.
THEOREM SettledForGood == Spec => SettledIsFinal
<1>1. Spec => []FundsInv
  BY FundsInvInit, FundsInvNext, PTL DEF Spec
<1>2. FundsInv /\ [Next]_vars
        => [\A p \in Payment :
              status[p] \in Settled /\ InFlight(p) = {}
                => status'[p] = status[p] /\ InFlight(p)' = {}]_vars
  BY SettledStays
<1> QED BY <1>1, <1>2, PTL DEF Spec, SettledIsFinal

-----------------------------------------------------------------------------
(* How often a purchase can be handed over *)

\* The calls that may still hand over p's purchase.
MayDeliver(p) == {r \in Request : target[r] = p /\ pc[r] \in Asking \cup {"completed"}}

\* Only a settled row is handed over.
HandedOverIsSettled ==
  /\ \A r \in Request : pc[r] = "completed" => status[target[r]] \in Settled
  /\ \A p \in Payment : status[p] \notin Settled => deliveries[p] = 0

\* Each hand-over uses up a call that was in flight when the row was settled.
DeliveriesUseCalls ==
  \A p \in Payment : deliveries[p] + Cardinality(MayDeliver(p)) <= Cardinality(Request)

DeliveryInv == FundsInv /\ HandedOverIsSettled /\ DeliveriesUseCalls

LEMMA MayDeliverFinite ==
  ASSUME NEW p
  PROVE  /\ IsFiniteSet(MayDeliver(p)) /\ Cardinality(MayDeliver(p)) \in Nat
         /\ Cardinality(Request) \in Nat /\ Cardinality(MayDeliver(p)) <= Cardinality(Request)
<1>1. MayDeliver(p) \in SUBSET Request
  BY DEF MayDeliver
<1> QED BY <1>1, RequestsAreFinite, FS_Subset, FS_CardinalityType

LEMMA MayDeliverFiniteNext ==
  ASSUME NEW p
  PROVE  /\ IsFiniteSet(MayDeliver(p)') /\ Cardinality(MayDeliver(p)') \in Nat
         /\ Cardinality(MayDeliver(p)') <= Cardinality(Request)
<1>1. MayDeliver(p)' \in SUBSET Request
  BY DEF MayDeliver
<1> QED BY <1>1, RequestsAreFinite, FS_Subset, FS_CardinalityType

LEMMA DeliveryInvInit == Init => DeliveryInv
<1> SUFFICES ASSUME Init PROVE DeliveryInv
  OBVIOUS
<1>1. FundsInv
  BY FundsInvInit
<1>2. ASSUME NEW p \in Payment
      PROVE  deliveries[p] + Cardinality(MayDeliver(p)) <= Cardinality(Request)
  BY MayDeliverFinite DEF Init
<1> QED BY <1>1, <1>2 DEF Init, DeliveryInv, HandedOverIsSettled, DeliveriesUseCalls, Settled

LEMMA HandedOverIsSettledNext ==
  FundsInv /\ HandedOverIsSettled /\ [Next]_vars => HandedOverIsSettled'
<1> SUFFICES ASSUME FundsInv, HandedOverIsSettled, [Next]_vars PROVE HandedOverIsSettled'
  OBVIOUS
<1> USE DEF FundsInv, TypeOK, CallsKnowTheirRow, HandedOverIsSettled, rows, calls, Asking,
            Status, Settled
<1>1. ASSUME NEW p \in Payment, NEW g \in Gateways, CreatePayment(p, g)
      PROVE  HandedOverIsSettled'
  BY <1>1 DEF CreatePayment
<1>2. ASSUME NEW p \in Payment, OfferForm(p) \/ LoseForm(p) \/ CustomerPays(p)
      PROVE  HandedOverIsSettled'
  BY <1>2 DEF OfferForm, LoseForm, CustomerPays
<1>3. ASSUME NEW r \in Request, NEW p \in Payment, BeginVerify(r, p)
      PROVE  HandedOverIsSettled'
  BY <1>3 DEF BeginVerify
<1>4. ASSUME NEW r \in Request, GatewayAnswers(r) PROVE HandedOverIsSettled'
  BY <1>4 DEF GatewayAnswers, AnswerSuccess, AnswerFailure, AnswerThrows, Return
<1>5. ASSUME NEW r \in Request, Proceed(r) PROVE HandedOverIsSettled'
  <2>1. CASE SaveCompleted(r)
    BY <2>1 DEF SaveCompleted
  <2>2. CASE SaveFailed(r)
    BY <2>2 DEF SaveFailed, Return
  <2>3. CASE BeginDelivery(r)
    BY <2>3 DEF BeginDelivery
  <2>4. CASE EndVerify(r)
    BY <2>4 DEF EndVerify, Return
  <2> QED BY <1>5, <2>1, <2>2, <2>3, <2>4 DEF Proceed
<1>6. CASE Crash
  BY <1>6 DEF Crash
<1>7. CASE UNCHANGED vars
  BY <1>7 DEF vars
<1> QED BY <1>1, <1>2, <1>3, <1>4, <1>5, <1>6, <1>7 DEF Next

\* What a step does to the hand-overs of one payment: nothing, with no new call;
\* or a call starts on a row that had none; or a call is used up.
LEMMA DeliveryStep ==
  ASSUME FundsInv, HandedOverIsSettled, [Next]_vars, NEW p \in Payment
  PROVE  \/ MayDeliver(p)' \subseteq MayDeliver(p) /\ deliveries'[p] = deliveries[p]
         \/ deliveries'[p] = 0
         \/ /\ deliveries'[p] = deliveries[p] + 1
            /\ \E r \in MayDeliver(p) : MayDeliver(p)' = MayDeliver(p) \ {r}
<1> DEFINE Goal == \/ MayDeliver(p)' \subseteq MayDeliver(p) /\ deliveries'[p] = deliveries[p]
                   \/ deliveries'[p] = 0
                   \/ /\ deliveries'[p] = deliveries[p] + 1
                      /\ \E r \in MayDeliver(p) : MayDeliver(p)' = MayDeliver(p) \ {r}
<1> SUFFICES Goal
  OBVIOUS
<1> USE DEF FundsInv, TypeOK, CallsKnowTheirRow, HandedOverIsSettled, MayDeliver, rows, calls,
            Asking, Status, Settled
<1>1. ASSUME NEW q \in Payment, NEW g \in Gateways, CreatePayment(q, g) PROVE Goal
  BY <1>1 DEF CreatePayment
<1>2. ASSUME NEW q \in Payment, OfferForm(q) \/ LoseForm(q) \/ CustomerPays(q) PROVE Goal
  BY <1>2 DEF OfferForm, LoseForm, CustomerPays
<1>3. ASSUME NEW r \in Request, NEW q \in Payment, BeginVerify(r, q) PROVE Goal
  <2>1. CASE p = q
    BY <1>3, <2>1 DEF BeginVerify
  <2>2. CASE p # q
    BY <1>3, <2>2 DEF BeginVerify
  <2> QED BY <2>1, <2>2
<1>4. ASSUME NEW r \in Request, GatewayAnswers(r) PROVE Goal
  BY <1>4 DEF GatewayAnswers, AnswerSuccess, AnswerFailure, AnswerThrows, Return
<1>5. ASSUME NEW r \in Request, Proceed(r) PROVE Goal
  <2>1. CASE SaveCompleted(r)
    BY <2>1 DEF SaveCompleted
  <2>2. CASE SaveFailed(r)
    BY <2>2 DEF SaveFailed, Return
  <2>3. CASE BeginDelivery(r)
    <3>1. CASE target[r] = p
      <4>1. r \in MayDeliver(p) /\ MayDeliver(p)' = MayDeliver(p) \ {r}
        BY <2>3, <3>1 DEF BeginDelivery
      <4>2. deliveries'[p] = deliveries[p] + 1
        BY <2>3, <3>1 DEF BeginDelivery
      <4> HIDE DEF MayDeliver
      <4> QED BY <4>1, <4>2
    <3>2. CASE target[r] # p
      BY <2>3, <3>2 DEF BeginDelivery
    <3> QED BY <3>1, <3>2
  <2>4. CASE EndVerify(r)
    BY <2>4 DEF EndVerify, Return
  <2> QED BY <1>5, <2>1, <2>2, <2>3, <2>4 DEF Proceed
<1>6. CASE Crash
  BY <1>6 DEF Crash
<1>7. CASE UNCHANGED vars
  BY <1>7 DEF vars
<1> HIDE DEF Goal
<1> QED BY <1>1, <1>2, <1>3, <1>4, <1>5, <1>6, <1>7 DEF Next

LEMMA DeliveryInvNext == DeliveryInv /\ [Next]_vars => DeliveryInv'
<1> SUFFICES ASSUME DeliveryInv, [Next]_vars PROVE DeliveryInv'
  OBVIOUS
<1>1. FundsInv' /\ HandedOverIsSettled'
  BY FundsInvNext, HandedOverIsSettledNext DEF DeliveryInv
<1>2. ASSUME NEW p \in Payment
      PROVE  deliveries'[p] + Cardinality(MayDeliver(p)') <= Cardinality(Request)
  <2>1. /\ deliveries[p] \in Nat
        /\ deliveries[p] + Cardinality(MayDeliver(p)) <= Cardinality(Request)
    BY DEF DeliveryInv, DeliveriesUseCalls, FundsInv, TypeOK
  <2>2. CASE MayDeliver(p)' \subseteq MayDeliver(p) /\ deliveries'[p] = deliveries[p]
    <3>1. Cardinality(MayDeliver(p)') <= Cardinality(MayDeliver(p))
      BY <2>2, MayDeliverFinite, FS_Subset
    <3> QED BY <2>1, <2>2, <3>1, MayDeliverFinite, MayDeliverFiniteNext
  <2>3. CASE deliveries'[p] = 0
    BY <2>3, MayDeliverFiniteNext, MayDeliverFinite
  <2>4. CASE /\ deliveries'[p] = deliveries[p] + 1
             /\ \E r \in MayDeliver(p) : MayDeliver(p)' = MayDeliver(p) \ {r}
    <3>1. PICK r \in MayDeliver(p) : MayDeliver(p)' = MayDeliver(p) \ {r}
      BY <2>4
    <3>2. Cardinality(MayDeliver(p)') = Cardinality(MayDeliver(p)) - 1
      BY <3>1, MayDeliverFinite, FS_RemoveElement
    <3> QED BY <2>1, <2>4, <3>2, MayDeliverFinite
  <2> QED BY <2>2, <2>3, <2>4, DeliveryStep DEF DeliveryInv
<1> QED BY <1>1, <1>2 DEF DeliveryInv, DeliveriesUseCalls

\* With n slots for calls of verifyPayment no purchase is ever handed over more
\* than n times, however the calls overlap.
THEOREM HandOversBounded == Spec => []DeliveriesBounded
<1>1. Spec => []DeliveryInv
  BY DeliveryInvInit, DeliveryInvNext, PTL DEF Spec
<1>2. DeliveryInv => DeliveriesBounded
  <2> SUFFICES ASSUME DeliveryInv, NEW p \in Payment PROVE deliveries[p] <= Cardinality(Request)
    BY DEF DeliveriesBounded
  <2>1. /\ deliveries[p] \in Nat
        /\ deliveries[p] + Cardinality(MayDeliver(p)) <= Cardinality(Request)
    BY DEF DeliveryInv, DeliveriesUseCalls, FundsInv, TypeOK
  <2> QED BY <2>1, MayDeliverFinite
<1> QED BY <1>1, <1>2, PTL

-----------------------------------------------------------------------------
(* One call at a time: the settlement everyone expects *)

\* A call finds its row as it read it, and what it hands over was never handed over
\* before.
CallsAreAlone ==
  \A r \in Request :
    /\ pc[r] \in Asking => status[target[r]] = "PENDING"
    /\ pc[r] = "completed" => status[target[r]] = "COMPLETED" /\ deliveries[target[r]] = 0

SerialInv == DeliveryInv /\ CallsAreAlone

LEMMA SerialInvNext ==
  ASSUME \A r, q \in Request : r = q, SerialInv, [Next]_vars
  PROVE  SerialInv'
<1>0. DeliveryInv'
  BY DeliveryInvNext DEF SerialInv
<1> SUFFICES CallsAreAlone'
  BY <1>0 DEF SerialInv
<1> USE DEF SerialInv, DeliveryInv, FundsInv, TypeOK, CallsKnowTheirRow, HandedOverIsSettled,
            CallsAreAlone, rows, calls, Asking, Status, Settled
<1>1. ASSUME NEW p \in Payment, NEW g \in Gateways, CreatePayment(p, g) PROVE CallsAreAlone'
  BY <1>1 DEF CreatePayment
<1>2. ASSUME NEW p \in Payment, OfferForm(p) \/ LoseForm(p) \/ CustomerPays(p)
      PROVE  CallsAreAlone'
  BY <1>2 DEF OfferForm, LoseForm, CustomerPays
<1>3. ASSUME NEW r \in Request, NEW p \in Payment, BeginVerify(r, p) PROVE CallsAreAlone'
  BY <1>3 DEF BeginVerify
<1>4. ASSUME NEW r \in Request, GatewayAnswers(r) PROVE CallsAreAlone'
  BY <1>4 DEF GatewayAnswers, AnswerSuccess, AnswerFailure, AnswerThrows, Return
<1>5. ASSUME NEW r \in Request, Proceed(r) PROVE CallsAreAlone'
  <2>1. CASE SaveCompleted(r)
    BY <2>1 DEF SaveCompleted
  <2>2. CASE SaveFailed(r)
    BY <2>2 DEF SaveFailed, Return
  <2>3. CASE BeginDelivery(r)
    BY <2>3 DEF BeginDelivery
  <2>4. CASE EndVerify(r)
    BY <2>4 DEF EndVerify, Return
  <2> QED BY <1>5, <2>1, <2>2, <2>3, <2>4 DEF Proceed
<1>6. CASE Crash
  BY <1>6 DEF Crash
<1>7. CASE UNCHANGED vars
  BY <1>7 DEF vars
<1> QED BY <1>1, <1>2, <1>3, <1>4, <1>5, <1>6, <1>7 DEF Next

LEMMA SettlementInit == Init => Settlement!Init
BY NoneIsNothing DEF Init, Settlement!Init, Outcome, Confirmed, Funded, Unasked, Gateways, NepalGateways

Outcomes == [p \in Payment |-> Outcome(status[p])]

\* The money behind a payment stays.
LEMMA ConfirmedGrows ==
  ASSUME TypeOK, CallsKnowTheirRow, [Next]_vars PROVE Confirmed \subseteq Confirmed'
<1> SUFFICES ASSUME NEW p \in Confirmed PROVE p \in Confirmed'
  OBVIOUS
<1>1. p \in Payment /\ (Funded(p) \/ gateway[p] \in Unasked)
  BY DEF Confirmed
<1>2. status[p] # "absent"
  BY <1>1, FundedExists, NoneIsNothing DEF Unasked, Gateways, NepalGateways, CallsKnowTheirRow
<1>3. gateway'[p] = gateway[p]
  BY <1>2, FundsStay, <1>1
<1> QED BY <1>1, <1>2, <1>3, FundedStays DEF Confirmed

\* A step that leaves outcomes and hand-overs alone only lets money arrive.
LEMMA MoneyStep ==
  ASSUME UNCHANGED <<Outcomes, deliveries>>, Confirmed \subseteq Confirmed'
  PROVE  [Settlement!Next]_(Settlement!vars)
<1>1. Confirmed' \in SUBSET Payment /\ Confirmed' = Confirmed \cup Confirmed'
  BY DEF Confirmed
<1> QED BY <1>1 DEF Settlement!Next, Settlement!vars, Settlement!MoneyArrives, Outcomes

LEMMA SettlementNext ==
  ASSUME \A r, q \in Request : r = q, SerialInv, [Next]_vars
  PROVE  [Settlement!Next]_(Settlement!vars)
<1>0. Confirmed \subseteq Confirmed'
  BY ConfirmedGrows DEF SerialInv, DeliveryInv, FundsInv
<1> USE DEF SerialInv, DeliveryInv, FundsInv, TypeOK, rows, calls, Asking
<1>1. ASSUME NEW p \in Payment, NEW g \in Gateways, CreatePayment(p, g)
      PROVE  [Settlement!Next]_(Settlement!vars)
  <2>1. UNCHANGED <<Outcomes, deliveries>>
    BY <1>1 DEF CreatePayment, Outcomes, Outcome, Status
  <2> QED BY <1>0, <2>1, MoneyStep
<1>2. ASSUME NEW p \in Payment, OfferForm(p) \/ LoseForm(p) \/ CustomerPays(p)
      PROVE  [Settlement!Next]_(Settlement!vars)
  <2>1. UNCHANGED <<Outcomes, deliveries>>
    BY <1>2 DEF OfferForm, LoseForm, CustomerPays, Outcomes
  <2> QED BY <1>0, <2>1, MoneyStep
<1>4. ASSUME NEW r \in Request, NEW p \in Payment, BeginVerify(r, p)
      PROVE  [Settlement!Next]_(Settlement!vars)
  <2>1. UNCHANGED <<Outcomes, deliveries>>
    BY <1>4 DEF BeginVerify, Outcomes
  <2> QED BY <1>0, <2>1, MoneyStep
<1>5. ASSUME NEW r \in Request, GatewayAnswers(r) PROVE [Settlement!Next]_(Settlement!vars)
  <2>1. UNCHANGED <<Outcomes, deliveries>>
    BY <1>5 DEF GatewayAnswers, AnswerSuccess, AnswerFailure, AnswerThrows, Outcomes
  <2> QED BY <1>0, <2>1, MoneyStep
<1>6. ASSUME NEW r \in Request, Proceed(r) PROVE [Settlement!Next]_(Settlement!vars)
  <2>1. CASE SaveCompleted(r)
    <3>1. target[r] \in Confirmed /\ UNCHANGED <<Confirmed, deliveries>>
      BY <2>1 DEF SaveCompleted, CallsKnowTheirRow, SuccessIsFunded, Confirmed, Funded
    <3>2. Outcomes[target[r]] = "open" /\ Outcomes' = [Outcomes EXCEPT ![target[r]] = "paid"]
      BY <2>1 DEF SaveCompleted, CallsKnowTheirRow, CallsAreAlone, Outcomes, Outcome
    <3>3. Settlement!Decide(target[r], "paid")
      BY <3>1, <3>2 DEF Settlement!Decide, Outcomes
    <3> QED BY <2>1, <3>3 DEF Settlement!Next, SaveCompleted, CallsKnowTheirRow
  <2>2. CASE SaveFailed(r)
    <3>1. UNCHANGED <<Confirmed, deliveries>>
      BY <2>2 DEF SaveFailed, Confirmed, Funded
    <3>2. Outcomes[target[r]] = "open" /\ Outcomes' = [Outcomes EXCEPT ![target[r]] = "lost"]
      BY <2>2 DEF SaveFailed, CallsKnowTheirRow, CallsAreAlone, Outcomes, Outcome
    <3>3. Settlement!Decide(target[r], "lost")
      BY <3>1, <3>2 DEF Settlement!Decide, Outcomes
    <3> QED BY <2>2, <3>3 DEF Settlement!Next, SaveFailed, CallsKnowTheirRow
  <2>3. CASE BeginDelivery(r)
    <3>1. target[r] \in Payment /\ status[target[r]] = "COMPLETED" /\ deliveries[target[r]] = 0
      BY <2>3 DEF BeginDelivery, CallsKnowTheirRow, CallsAreAlone
    <3>2. UNCHANGED <<Outcomes, Confirmed>> /\ deliveries' = [deliveries EXCEPT ![target[r]] = 1]
      BY <2>3, <3>1 DEF BeginDelivery, Outcomes, Confirmed, Funded
    <3>3. Settlement!HandOver(target[r])
      BY <3>1, <3>2 DEF Settlement!HandOver, Outcomes, Outcome
    <3> QED BY <3>1, <3>3 DEF Settlement!Next
  <2>4. CASE EndVerify(r)
    <3>1. UNCHANGED <<Outcomes, deliveries>>
      BY <2>4 DEF EndVerify, Outcomes
    <3> QED BY <1>0, <3>1, MoneyStep
  <2> QED BY <1>6, <2>1, <2>2, <2>3, <2>4 DEF Proceed
<1>7. CASE Crash \/ UNCHANGED vars
  <2>1. UNCHANGED <<Outcomes, deliveries>>
    BY <1>7 DEF Crash, vars, Outcomes
  <2> QED BY <1>0, <2>1, MoneyStep
<1> QED BY <1>1, <1>2, <1>4, <1>5, <1>6, <1>7 DEF Next

\* Where calls of verifyPayment never overlap, a payment is decided once, counts as
\* paid only with the money there, and is handed over at most once, through any
\* number of restarts.
THEOREM SerialCallsSettle ==
  ASSUME \A r, q \in Request : r = q
  PROVE  Spec => ImplementsSettlement
<1>1. Init => SerialInv /\ Settlement!Init
  BY DeliveryInvInit, SettlementInit DEF SerialInv, CallsAreAlone, Init, Asking
<1>2. SerialInv /\ [Next]_vars => SerialInv' /\ [Settlement!Next]_(Settlement!vars)
  BY SerialInvNext, SettlementNext
<1> QED BY <1>1, <1>2, PTL DEF Spec, ImplementsSettlement, Settlement!Spec

-----------------------------------------------------------------------------
(* Subscriptions: where a call stands and what it carries *)

Fits(w, j) ==
  /\ j.op = "verify" => w \in Request /\ j.pay \in Payment
  /\ j.op \notin {"none", "verify"} => w \in Handler
  /\ j.op \in {"purchase", "update", "renew", "payInvoice", "payAll"} => j.user \in Member
  /\ j.op \in {"purchase", "update", "cancel", "renew", "payInvoice"} => j.app \in App
  /\ j.at = "flipping" => j.op \in {"view", "payInvoice", "payAll"} /\ j.pay = None
  /\ j.at \in {"paying", "awaitingForm"} =>
       /\ j.op \in {"purchase", "update", "renew", "payInvoice", "payAll"}
       /\ IF j.at = "paying" THEN j.pay = None ELSE j.pay \in Payment
  /\ j.at = "saving" => j.op \in {"purchase", "update", "cancel"}
  /\ j.at = "uncounting" => j.op = "cancel"
  /\ j.at \in {"counting", "granting"} =>
       j.op \in {"purchase", "verify"} /\ j.app \in App /\ j.user \in Member
  /\ j.at \in {"activating", "done"} => j.op = "verify"
  /\ j.at = "activating" => j.app \in App /\ j.user \in Member
  /\ j.op = "payInvoice" => j.bill # <<>>
  /\ j.row.status = "TRIAL" => j.row.trialEnds # NoDate /\ j.row.trialUsed

JobsFit == \A w \in Worker : Fits(w, job[w])

\* What a payment is for is known from its creation on, it was made with a gateway that
\* asks, and nothing has happened to a payment that does not exist.
PurposesFit ==
  \A p \in Payment :
    /\ gateway[p] \notin Unasked
    /\ IF status[p] = "absent"
       THEN purpose[p] = NoPurpose /\ funds[p] = "none" /\ form[p] = "none"
       ELSE purpose[p].user \in Member
    /\ purpose[p].op = "purchase" => purpose[p].app \in App

SubTyped == SubTypeOK /\ JobsFit /\ FundsInv /\ PurposesFit

-----------------------------------------------------------------------------
\* The same of the rows and of the copies that will be saved over them.
CopiesBill == \A w \in Worker : job[w].row.billing \in {NoDate, job[w].row.end}

Money(a) == \E p \in Payment : purpose[p].app = a /\ Funded(p)

CopiesPaid ==
  \A w \in Worker :
    job[w].app \in PaidApp /\ job[w].row.status = "ACTIVE" => Money(job[w].app)

NoTrials ==
  TrialDays = 0 =>
    /\ \A a \in App : sub[a].status # "TRIAL"
    /\ \A w \in Worker : job[w].row.status # "TRIAL"

-----------------------------------------------------------------------------
(* Types *)

LEMMA SubTypedInit == SubInit => SubTyped
<1> SUFFICES ASSUME SubInit PROVE SubTyped
  OBVIOUS
<1>1. FundsInv
  BY FundsInvInit DEF SubInit
<1>2. NoRow \in Row /\ Idle \in Job
  BY DEF NoRow, Row, Idle, Job, Places, Ops
<1>3. SubTypeOK
  BY <1>2, BoundsAreNumbers DEF SubInit, SubTypeOK, Purpose, NoPurpose, Ops, NoRow
<1>4. JobsFit
  BY DEF SubInit, JobsFit, Fits, Idle, NoRow
<1>5. PurposesFit
  BY NoneIsNothing DEF SubInit, Init, PurposesFit, NoPurpose, Unasked, Gateways, NepalGateways
<1> QED BY <1>1, <1>3, <1>4, <1>5 DEF SubTyped

\* The steps of Payments that create no payment.
Elsewhere ==
  \/ \E p \in Payment : OfferForm(p) \/ LoseForm(p) \/ CustomerPays(p)
  \/ \E r \in Request, p \in Payment : BeginVerify(r, p)
  \/ \E r \in Request : GatewayAnswers(r) \/ Proceed(r)
  \/ Crash
  \/ UNCHANGED vars

LEMMA ElsewhereKeeps ==
  ASSUME FundsInv, PurposesFit, Elsewhere, purpose' = purpose
  PROVE  FundsInv' /\ PurposesFit'
<1>1. FundsInv'
  BY FundsInvNext DEF Elsewhere, Next
<1> USE DEF FundsInv, TypeOK, CallsKnowTheirRow, PurposesFit, rows, calls, Asking, Status
<1>2. CASE \E p \in Payment : OfferForm(p) \/ LoseForm(p) \/ CustomerPays(p)
  BY <1>1, <1>2 DEF OfferForm, LoseForm, CustomerPays
<1>3. CASE \E r \in Request, p \in Payment : BeginVerify(r, p)
  BY <1>1, <1>3 DEF BeginVerify
<1>4. ASSUME NEW r \in Request, GatewayAnswers(r) PROVE PurposesFit'
  <2>1. UNCHANGED <<rows, purpose>> /\ target[r] \in Payment
    BY <1>4 DEF GatewayAnswers, AnswerSuccess, AnswerFailure, AnswerThrows
  <2>2. funds' = funds \/ \E q \in Payment : funds' = Captured(target[r], q)
    BY <1>4 DEF GatewayAnswers, AnswerSuccess, AnswerFailure, AnswerThrows
  <2>3. ASSUME NEW p \in Payment, status[p] = "absent" PROVE funds'[p] = funds[p]
    <3>1. gateway[p] # "PAYPAL"
      BY <2>3, NoneIsNothing DEF Gateways, GlobalGateways
    <3> QED BY <2>2, <3>1 DEF Captured
  <2> QED BY <2>1, <2>3
<1>5. ASSUME NEW r \in Request, Proceed(r) PROVE PurposesFit'
  BY <1>5 DEF Proceed, SaveCompleted, SaveFailed, BeginDelivery, EndVerify
<1>6. CASE Crash
  BY <1>1, <1>6 DEF Crash
<1>7. CASE UNCHANGED vars
  BY <1>1, <1>7 DEF vars
<1> QED BY <1>1, <1>2, <1>3, <1>4, <1>5, <1>6, <1>7 DEF Elsewhere

\* Every step but a restart is one worker's, or nobody's.
LEMMA OneJob ==
  ASSUME SubTyped, NEW w \in Worker, NEW j \in Job, Fits(w, j), job' = [job EXCEPT ![w] = j]
  PROVE  job' \in [Worker -> Job] /\ JobsFit'
BY DEF SubTyped, SubTypeOK, JobsFit

\* A call that begins has copied a row, or invoices.
LEMMA BeginsTyped ==
  ASSUME SubTyped, NEW h \in Handler, NEW j \in Job, Fits(h, j), StartJob(h, j),
         UNCHANGED <<vars, now, subVars, invoices, purpose, listed, invoicedOn>>
  PROVE  SubTyped'
<1>1. FundsInv' /\ PurposesFit'
  BY ElsewhereKeeps DEF SubTyped, Elsewhere
<1>2. job' \in [Worker -> Job] /\ JobsFit'
  BY OneJob DEF StartJob, Worker
<1> QED BY <1>1, <1>2 DEF SubTyped, SubTypeOK, subVars

LEMMA PurchaseBegins ==
  ASSUME SubTyped, NEW h \in Handler, NEW a \in App, NEW u \in Member, NEW trial \in BOOLEAN,
         NEW auto \in BOOLEAN, ReadForPurchase(h, a, u, trial, auto)
  PROVE  SubTyped'
<1> DEFINE j == [Idle EXCEPT !.at = IF trial THEN "saving" ELSE "paying",
                              !.op = "purchase", !.app = a, !.user = u,
                              !.row = PurchasedRow(a, trial, auto),
                              !.new = sub[a].status # "PENDING_PAYMENT"]
<1>1. PurchasedRow(a, trial, auto) \in Row
  BY SpansArePositive, BoundsAreNumbers DEF SubTyped, SubTypeOK, PurchasedRow, Row, Live, Ended
<1>2. j \in Job
  BY <1>1 DEF Idle, Job, Places, Ops
<1>3. Fits(h, j)
  BY SpansArePositive, BoundsAreNumbers DEF SubTyped, SubTypeOK, Fits, Idle, PurchasedRow, NoDate
<1>4. StartJob(h, j)
  BY DEF ReadForPurchase
<1> HIDE DEF j
<1> QED BY <1>2, <1>3, <1>4, BeginsTyped DEF ReadForPurchase

LEMMA SubCallStarts ==
  ASSUME SubTyped, NEW h \in Handler, CallStarts(h) PROVE SubTyped'
<1>0. ASSUME NEW a \in App
      PROVE  sub[a] \in Row /\ (sub[a].status = "TRIAL" => sub[a].trialEnds # NoDate /\ sub[a].trialUsed)
  BY DEF SubTyped, SubTypeOK
<1>1. ASSUME NEW a \in App, NEW u \in Member, NEW auto \in BOOLEAN, NEW pays \in BOOLEAN,
             ReadForUpdate(h, a, u, auto, pays)
      PROVE  SubTyped'
  <2> DEFINE row == [sub[a] EXCEPT !.autoRenew = auto]
             j == [Idle EXCEPT !.at = IF pays THEN "paying" ELSE "saving",
                               !.op = "update", !.app = a, !.user = u, !.row = row]
  <2>1. row \in Row /\ (row.status = "TRIAL" => row.trialEnds # NoDate /\ row.trialUsed)
    BY <1>0 DEF Row
  <2>2. StartJob(h, j)
    BY <1>1 DEF ReadForUpdate
  <2> HIDE DEF row
  <2>3. j \in Job /\ Fits(h, j)
    BY <2>1 DEF Idle, Job, Places, Ops, Fits
  <2> HIDE DEF j
  <2> QED BY <1>1, <2>2, <2>3, BeginsTyped DEF ReadForUpdate
<1>2. ASSUME NEW a \in App, ReadForCancel(h, a) PROVE SubTyped'
  <2> DEFINE row == [sub[a] EXCEPT !.status = "CANCELLED", !.autoRenew = FALSE]
             j == [Idle EXCEPT !.at = "saving", !.op = "cancel", !.app = a, !.row = row]
  <2>1. row \in Row /\ row.status # "TRIAL"
    BY <1>0 DEF Row, Ended
  <2>2. StartJob(h, j)
    BY <1>2 DEF ReadForCancel
  <2> HIDE DEF row
  <2>3. j \in Job /\ Fits(h, j)
    BY <2>1 DEF Idle, Job, Places, Ops, Fits
  <2> HIDE DEF j
  <2> QED BY <1>2, <2>2, <2>3, BeginsTyped DEF ReadForCancel
<1>3. ASSUME NEW a \in App, NEW u \in Member, ReadForRenewal(h, a, u) PROVE SubTyped'
  <2> DEFINE row == [sub[a] EXCEPT !.end = @ + Period, !.billing = sub[a].end + Period]
             j == [Idle EXCEPT !.at = "paying", !.op = "renew", !.app = a, !.user = u, !.row = row]
  <2>1. sub[a].status = "ACTIVE" /\ StartJob(h, j)
    BY <1>3 DEF ReadForRenewal
  <2>2. sub[a].end + Period \in Nat
    <3>1. sub[a].end \in Nat \cup {-1}
      BY <1>0 DEF Row, NoDate
    <3> QED BY <3>1, SpansArePositive
  <2>3. row \in Row /\ row.status # "TRIAL"
    BY <1>0, <2>1, <2>2 DEF Row
  <2> HIDE DEF row
  <2>4. j \in Job /\ Fits(h, j)
    BY <2>3 DEF Idle, Job, Places, Ops, Fits
  <2> HIDE DEF j
  <2> QED BY <1>3, <2>1, <2>4, BeginsTyped DEF ReadForRenewal
<1>4. \A i \in DOMAIN invoices : i \in 1..MaxInvoices /\ invoices[i] \in Invoice
  BY BoundsAreNumbers DEF SubTyped, SubTypeOK
<1>5. ASSUME NEW S \in SUBSET (DOMAIN invoices)
      PROVE  Flips(S) \in SUBSET ((1..MaxInvoices) \X Invoice) /\ S \in SUBSET (1..MaxInvoices)
  <2>1. \A i \in S : [invoices[i] EXCEPT !.status = "OVERDUE"] \in Invoice
    BY <1>4 DEF Invoice
  <2> QED BY <1>4, <2>1 DEF Flips
<1>6. CASE ReadInvoices(h)
  <2> DEFINE j == [Idle EXCEPT !.at = "flipping", !.op = "view", !.flips = Flips(DOMAIN invoices)]
  <2>1. j \in Job /\ Fits(h, j)
    BY <1>5 DEF Idle, Job, Places, Ops, Fits, NoRow, Row
  <2>2. StartJob(h, j)
    BY <1>6 DEF ReadInvoices
  <2> HIDE DEF j
  <2> QED BY <1>6, <2>1, <2>2, BeginsTyped DEF ReadInvoices
<1>7. ASSUME NEW i \in 1..MaxInvoices, NEW u \in Member, ReadForInvoicePayment(h, i, u)
      PROVE  SubTyped'
  <2> DEFINE j == [Idle EXCEPT !.at = "flipping", !.op = "payInvoice", !.app = invoices[i].app,
                               !.user = u, !.bill = <<i, invoices[i]>>, !.covers = {i},
                               !.flips = Flips({i})]
  <2>1. i \in DOMAIN invoices
    BY <1>7 DEF ReadForInvoicePayment
  <2>2. Flips({i}) \in SUBSET ((1..MaxInvoices) \X Invoice) /\ {i} \in SUBSET (1..MaxInvoices)
    BY <1>5, <2>1
  <2>3. <<i, invoices[i]>> \in (1..MaxInvoices) \X Invoice /\ invoices[i].app \in App
    BY <1>4, <2>1 DEF Invoice
  <2>4. j \in Job /\ Fits(h, j)
    BY <2>2, <2>3 DEF Idle, Job, Places, Ops, Fits, NoRow, Row
  <2>5. StartJob(h, j)
    BY <1>7 DEF ReadForInvoicePayment
  <2> HIDE DEF j
  <2> QED BY <1>7, <2>4, <2>5, BeginsTyped DEF ReadForInvoicePayment
<1>8. ASSUME NEW u \in Member, ReadForPayAll(h, u) PROVE SubTyped'
  <2> DEFINE unpaid == {i \in DOMAIN invoices : invoices[i].status = "UNPAID"}
             j == [Idle EXCEPT !.at = "flipping", !.op = "payAll", !.user = u,
                               !.covers = unpaid, !.flips = Flips(unpaid)]
  <2>1. Flips(unpaid) \in SUBSET ((1..MaxInvoices) \X Invoice) /\ unpaid \in SUBSET (1..MaxInvoices)
    BY <1>5
  <2>2. StartJob(h, j)
    BY <1>8 DEF ReadForPayAll
  <2> HIDE DEF unpaid
  <2>3. j \in Job /\ Fits(h, j)
    BY <2>1 DEF Idle, Job, Places, Ops, Fits, NoRow, Row
  <2> HIDE DEF j
  <2> QED BY <1>8, <2>2, <2>3, BeginsTyped DEF ReadForPayAll
<1> QED BY <1>1, <1>2, <1>3, <1>6, <1>7, <1>8, PurchaseBegins DEF CallStarts

\* An invoice is saved over whatever its row is by now, and no other is touched.
LEMMA InvoiceSaved ==
  ASSUME NEW s \in Seq(Invoice), NEW i, NEW inv \in Invoice
  PROVE  /\ [s EXCEPT ![i] = inv] \in Seq(Invoice)
         /\ Len([s EXCEPT ![i] = inv]) = Len(s)
<1>1. CASE i \in 1..Len(s)
  BY <1>1
<1>2. CASE i \notin 1..Len(s)
  <2>1. [s EXCEPT ![i] = inv] = s
    BY <1>2
  <2> QED BY <2>1
<1> QED BY <1>1, <1>2

\* A call goes on: its job is another, and the payments are looked after elsewhere.
LEMMA GoesOnTyped ==
  ASSUME SubTyped, NEW w \in Worker, NEW j \in Job, Fits(w, j), job' = [job EXCEPT ![w] = j],
         Elsewhere, UNCHANGED <<now, purpose, listed, invoicedOn>>,
         sub' \in [App -> Row], subCount' \in [App -> Int], access' \in [App -> SUBSET Member],
         invoices' \in Seq(Invoice), Len(invoices') <= MaxInvoices,
         \A a \in App : sub'[a].status = "TRIAL" => sub'[a].trialEnds # NoDate /\ sub'[a].trialUsed
  PROVE  SubTyped'
<1>1. FundsInv' /\ PurposesFit'
  BY ElsewhereKeeps DEF SubTyped
<1>2. job' \in [Worker -> Job] /\ JobsFit'
  BY OneJob
<1> QED BY <1>1, <1>2 DEF SubTyped, SubTypeOK

\* The same when the rows of the marketplace are left alone.
LEMMA GoesOnQuietly ==
  ASSUME SubTyped, NEW w \in Worker, NEW j \in Job, Fits(w, j), job' = [job EXCEPT ![w] = j],
         Elsewhere, UNCHANGED <<now, purpose, listed, invoicedOn, subVars>>,
         invoices' \in Seq(Invoice), Len(invoices') <= MaxInvoices
  PROVE  SubTyped'
BY GoesOnTyped DEF subVars, SubTyped, SubTypeOK

LEMMA RestFits == Idle \in Job /\ \A w \in Worker : Fits(w, Idle)
BY DEF NoRow, Row, Idle, Job, Places, Ops, Fits


LEMMA RespondsElsewhere ==
  ASSUME SubTyped, NEW h \in Worker, Responds(h) PROVE Elsewhere
BY DEF SubTyped, SubTypeOK, Job, Responds, Elsewhere

LEMMA InvoicesMove ==
  ASSUME SubTyped, NEW h \in Handler, SaveOverdue(h) \/ InvoicesShown(h) \/ MarkInvoicePaid(h)
                                       \/ SaveInvoice(h)
  PROVE  SubTyped'
<1> h \in Worker
  BY DEF Worker
<1>0. /\ job[h] \in Job /\ Fits(h, job[h]) /\ job \in [Worker -> Job]
      /\ invoices \in Seq(Invoice) /\ Len(invoices) <= MaxInvoices /\ now \in Nat
  BY BoundsAreNumbers DEF SubTyped, SubTypeOK, JobsFit
<1>1. CASE SaveOverdue(h)
  <2>1. PICK f \in job[h].flips : /\ invoices' = [invoices EXCEPT ![f[1]] = f[2]]
                                  /\ job' = [job EXCEPT ![h].flips = @ \ {f}]
    BY <1>1 DEF SaveOverdue
  <2> DEFINE j == [job[h] EXCEPT !.flips = @ \ {f}]
  <2>2. f[2] \in Invoice
    BY <1>0 DEF Job
  <2>3. j \in Job /\ Fits(h, j) /\ job' = [job EXCEPT ![h] = j]
    BY <1>0, <2>1 DEF Job, Fits
  <2>4. invoices' \in Seq(Invoice) /\ Len(invoices') <= MaxInvoices
    BY <1>0, <2>1, <2>2, InvoiceSaved
  <2> HIDE DEF j
  <2> QED BY <1>1, <2>3, <2>4, GoesOnQuietly DEF SaveOverdue, Elsewhere
<1>2. CASE InvoicesShown(h)
  <2> DEFINE k == [job[h] EXCEPT !.at = "paying"]
             j == IF job[h].op = "view" THEN Idle ELSE k
  <2>1. job[h].op # "view" => k \in Job /\ Fits(h, k)
    BY <1>0, <1>2 DEF Job, Fits, Places, InvoicesShown
  <2>2. job' = [job EXCEPT ![h] = j]
    BY <1>2 DEF InvoicesShown
  <2> HIDE DEF k
  <2>3. j \in Job /\ Fits(h, j)
    BY <2>1, RestFits
  <2> HIDE DEF j
  <2> QED BY <1>0, <1>2, <2>2, <2>3, GoesOnQuietly DEF InvoicesShown, Elsewhere
<1>3. CASE MarkInvoicePaid(h)
  <2> DEFINE inv == [job[h].bill[2] EXCEPT !.status = "PAID", !.payment = Linked(@, job[h].pay)]
  <2>1. inv \in Invoice
    BY <1>0, <1>3 DEF MarkInvoicePaid, Fits, Job, Invoice, Linked
  <2>2. invoices' = [invoices EXCEPT ![job[h].bill[1]] = inv]
    BY <1>3 DEF MarkInvoicePaid
  <2> HIDE DEF inv
  <2>3. invoices' \in Seq(Invoice) /\ Len(invoices') <= MaxInvoices
    BY <1>0, <2>1, <2>2, InvoiceSaved
  <2> QED BY <1>3, <2>3, RestFits, RespondsElsewhere, GoesOnQuietly DEF MarkInvoicePaid
<1>4. CASE SaveInvoice(h)
  <2> DEFINE j == [job[h] EXCEPT !.at = "saving"]
             inv == NewInvoice(job[h].app, job[h].pay)
  <2>1. j \in Job /\ Fits(h, j) /\ job' = [job EXCEPT ![h] = j]
    BY <1>0, <1>4 DEF Job, Fits, Places, SaveInvoice
  <2>2. inv \in Invoice
    BY <1>0, <1>4, SpansArePositive DEF SaveInvoice, Fits, Job, NewInvoice, Invoice
  <2>3. invoices' = Append(invoices, inv) /\ Len(invoices) < MaxInvoices
    BY <1>4 DEF SaveInvoice
  <2> HIDE DEF j, inv
  <2>4. invoices' \in Seq(Invoice) /\ Len(invoices') <= MaxInvoices
    BY <1>0, <2>2, <2>3, BoundsAreNumbers
  <2> QED BY <1>4, <2>1, <2>4, GoesOnQuietly DEF SaveInvoice, Elsewhere
<1> QED BY <1>1, <1>2, <1>3, <1>4

\* A payment is created: it gets its purpose, and nothing had happened to it.
LEMMA PayTyped ==
  ASSUME SubTyped, NEW h \in Handler, NEW p \in Payment, NEW g \in Gateways, Pay(h, p, g)
  PROVE  SubTyped'
<1> DEFINE j == [job[h] EXCEPT !.at = "awaitingForm", !.pay = p]
           q == [op |-> job[h].op, app |-> job[h].app, user |-> job[h].user, covers |-> job[h].covers]
<1>0. job[h] \in Job /\ Fits(h, job[h]) /\ h \in Worker
  BY DEF SubTyped, SubTypeOK, JobsFit, Worker
<1>1. FundsInv'
  BY FundsInvNext DEF SubTyped, Pay, Next
<1>2. q \in Purpose /\ q.user \in Member /\ (q.op = "purchase" => q.app \in App)
  BY <1>0 DEF Pay, Job, Fits, Purpose
<1>3. purpose' = [purpose EXCEPT ![p] = q]
  BY DEF Pay
<1>4. j \in Job /\ Fits(h, j) /\ job' = [job EXCEPT ![h] = j]
  <2>1. j \in Job
    BY <1>0 DEF Job, Places
  <2>2. Fits(h, j)
    BY <1>0 DEF Fits, Pay
  <2>3. job' = [job EXCEPT ![h] = j]
    BY <1>0 DEF Pay, Job
  <2> QED BY <2>1, <2>2, <2>3
<1>5. job' \in [Worker -> Job] /\ JobsFit'
  <2> HIDE DEF j
  <2> QED BY <1>0, <1>4, OneJob
<1> HIDE DEF q, j
<1>6. PurposesFit'
  <2>1. g \notin Unasked
    BY DEF Pay, Methods, Unasked
  <2>2. /\ status' = [status EXCEPT ![p] = "PENDING"] /\ gateway' = [gateway EXCEPT ![p] = g]
        /\ form' = [form EXCEPT ![p] = "initiating"] /\ funds' = funds
    BY DEF Pay, CreatePayment
  <2> QED BY <1>2, <1>3, <2>1, <2>2 DEF SubTyped, SubTypeOK, FundsInv, TypeOK, PurposesFit
<1>7. SubTypeOK'
  BY <1>2, <1>3, <1>5 DEF SubTyped, SubTypeOK, Pay, subVars
<1> QED BY <1>1, <1>5, <1>6, <1>7 DEF SubTyped

\* The row a save leaves behind.
LEMMA SavedRowTyped ==
  ASSUME SubTyped, NEW h \in Worker
  PROVE  /\ SavedRow(job[h]) \in Row
         /\ SavedRow(job[h]).status = job[h].row.status
         /\ SavedRow(job[h]).end = job[h].row.end
         /\ SavedRow(job[h]).billing = job[h].row.billing
         /\ SavedRow(job[h]).trialEnds = job[h].row.trialEnds
         /\ SavedRow(job[h]).trialUsed = job[h].row.trialUsed
         /\ SavedRow(job[h]).payment =
              IF job[h].pay = None THEN job[h].row.payment
              ELSE IF job[h].op = "purchase" THEN job[h].pay
              ELSE Linked(job[h].row.payment, job[h].pay)
<1>1. job[h].row \in Row /\ job[h].pay \in Payment \cup {None}
  BY DEF SubTyped, SubTypeOK, Job
<1> QED BY <1>1 DEF SavedRow, Row, Linked

\* The row is saved, and its trial still has an end.
LEMMA RowSaved ==
  ASSUME SubTyped, NEW a \in App, NEW row \in Row, sub' = [sub EXCEPT ![a] = row],
         row.status = "TRIAL" => row.trialEnds # NoDate /\ row.trialUsed
  PROVE  /\ sub' \in [App -> Row]
         /\ \A b \in App : sub'[b].status = "TRIAL" => sub'[b].trialEnds # NoDate /\ sub'[b].trialUsed
BY DEF SubTyped, SubTypeOK

LEMMA SaveTyped ==
  ASSUME SubTyped, NEW h \in Handler, SaveSubscription(h) PROVE SubTyped'
<1> DEFINE a == job[h].app
           j == IF job[h].op = "purchase" /\ job[h].row.status # "PENDING_PAYMENT"
                THEN [job[h] EXCEPT !.at = "counting"]
                ELSE IF job[h].op = "cancel" THEN [job[h] EXCEPT !.at = "uncounting"] ELSE Idle
<1>0. job[h] \in Job /\ Fits(h, job[h]) /\ h \in Worker
  BY DEF SubTyped, SubTypeOK, JobsFit, Worker
<1>1. a \in App /\ job[h].op \in {"purchase", "update", "cancel", "renew"}
  BY <1>0 DEF SaveSubscription, ToSave, Fits
<1>2. [job[h] EXCEPT !.at = "counting"] \in Job /\ [job[h] EXCEPT !.at = "uncounting"] \in Job
  BY <1>0 DEF Job, Places
<1>3. /\ job[h].op = "purchase" => Fits(h, [job[h] EXCEPT !.at = "counting"])
      /\ job[h].op = "cancel" => Fits(h, [job[h] EXCEPT !.at = "uncounting"])
  BY <1>0 DEF Job, Fits
<1>4. j \in Job /\ Fits(h, j)
  BY <1>0, <1>2, <1>3, RestFits
<1>5. job' = [job EXCEPT ![h] = j]
  BY DEF SaveSubscription
<1>6. Elsewhere
  BY <1>0, RespondsElsewhere DEF SaveSubscription, Elsewhere
<1>7. sub' = [sub EXCEPT ![a] = SavedRow(job[h])]
  BY DEF SaveSubscription
<1>8. SavedRow(job[h]).status = "TRIAL" => SavedRow(job[h]).trialEnds # NoDate /\ SavedRow(job[h]).trialUsed
  BY <1>0, SavedRowTyped DEF Fits
<1> HIDE DEF j, a
<1>9. /\ sub' \in [App -> Row]
      /\ \A b \in App : sub'[b].status = "TRIAL" => sub'[b].trialEnds # NoDate /\ sub'[b].trialUsed
  BY <1>0, <1>1, <1>7, <1>8, RowSaved, SavedRowTyped
<1>10. UNCHANGED <<now, subCount, invoices, access, purpose, listed, invoicedOn>>
  BY DEF SaveSubscription
<1> QED BY <1>0, <1>4, <1>5, <1>6, <1>9, <1>10, GoesOnTyped DEF SubTyped, SubTypeOK

LEMMA SubCallContinues ==
  ASSUME SubTyped, NEW h \in Handler, CallContinues(h) PROVE SubTyped'
<1> h \in Worker
  BY DEF Worker
<1>0. /\ job[h] \in Job /\ Fits(h, job[h]) /\ job \in [Worker -> Job]
      /\ invoices \in Seq(Invoice) /\ Len(invoices) <= MaxInvoices
  BY DEF SubTyped, SubTypeOK, JobsFit
<1>1. CASE FormFails(h) \/ PayAllResponds(h) \/ InsertRefused(h) \/ PurchaseGranted(h)
  <2>1. Elsewhere
    <3>1. CASE FormFails(h)
      BY <1>0, <3>1 DEF FormFails, InitiateThrows, Elsewhere, Fits
    <3>2. CASE InsertRefused(h)
      BY <1>0, <3>2 DEF InsertRefused, Elsewhere, Job
    <3> QED BY <1>1, <3>1, <3>2, RespondsElsewhere DEF PayAllResponds, PurchaseGranted
  <2>2. /\ job' = [job EXCEPT ![h] = Idle]
        /\ UNCHANGED <<now, subVars, invoices, purpose, listed, invoicedOn>>
    BY <1>1 DEF FormFails, PayAllResponds, InsertRefused, PurchaseGranted
  <2> QED BY <1>0, <2>1, <2>2, RestFits, GoesOnQuietly
<1>2. CASE Uncount(h)
  <2>1. job[h].app \in App
    BY <1>0, <1>2 DEF Uncount, Fits
  <2>2. subCount' \in [App -> Int]
    BY <1>2, <2>1 DEF Uncount, SubTyped, SubTypeOK
  <2> QED BY <1>2, <2>2, RestFits, GoesOnTyped DEF Uncount, Elsewhere, SubTyped, SubTypeOK
<1> QED BY <1>1, <1>2, InvoicesMove, PayTyped, SaveTyped DEF CallContinues

LEMMA LookUpTyped ==
  ASSUME SubTyped, NEW r \in Request, LookUpPurchase(r) PROVE SubTyped'
<1> DEFINE p == target[r]
           a == purpose[p].app
           found == a # None /\ sub[a].status # "absent" /\ sub[a].payment = p
           row == IF found THEN [sub[a] EXCEPT !.status = "ACTIVE", !.end = now + Period, !.billing = now + Period]
                  ELSE NoRow
           j == [Idle EXCEPT !.at = IF found THEN "activating" ELSE "done", !.op = "verify",
                             !.app = a, !.user = purpose[p].user, !.pay = p, !.row = row]
<1>1. p \in Payment /\ status[p] # "absent"
  BY DEF LookUpPurchase, BeginDelivery, SubTyped, FundsInv, CallsKnowTheirRow
<1>2. a \in App \cup {None} /\ purpose[p].user \in Member
  BY <1>1 DEF SubTyped, SubTypeOK, PurposesFit, Purpose
<1>3. found => [sub[a] EXCEPT !.status = "ACTIVE", !.end = now + Period, !.billing = now + Period] \in Row
  <2>1. now + Period \in Nat /\ (a \in App => sub[a] \in Row)
    BY SpansArePositive, BoundsAreNumbers DEF SubTyped, SubTypeOK
  <2> QED BY <1>2, <2>1 DEF Row, Live
<1>4. row \in Row /\ row.status # "TRIAL" /\ (found => a \in App)
  BY <1>2, <1>3 DEF NoRow, Row
<1>5. job' = [job EXCEPT ![r] = j] /\ BeginDelivery(r)
  BY DEF LookUpPurchase
<1>6. UNCHANGED <<now, subVars, invoices, purpose, listed, invoicedOn>>
  BY DEF LookUpPurchase
<1> HIDE DEF row, found, a, p
<1>7. j \in Job /\ Fits(r, j)
  BY <1>1, <1>2, <1>4 DEF Idle, Job, Places, Ops, Fits
<1> HIDE DEF j
<1> QED BY <1>5, <1>6, <1>7, GoesOnQuietly DEF SubTyped, SubTypeOK, Worker, Elsewhere, Proceed

LEMMA DeliversTyped ==
  ASSUME SubTyped, NEW r \in Request, Delivers(r) PROVE SubTyped'
<1> r \in Worker
  BY DEF Worker
<1>0. /\ job[r] \in Job /\ Fits(r, job[r]) /\ job \in [Worker -> Job]
      /\ invoices \in Seq(Invoice) /\ Len(invoices) <= MaxInvoices
  BY DEF SubTyped, SubTypeOK, JobsFit
<1>1. CASE ActivateSubscription(r)
  <2> DEFINE j == [job[r] EXCEPT !.at = "counting"]
  <2>1. job[r].app \in App /\ job[r].row \in Row
    BY <1>0, <1>1 DEF ActivateSubscription, Fits, Job
  <2>2. j \in Job /\ Fits(r, j)
    BY <1>0, <1>1 DEF ActivateSubscription, Fits, Job, Places
  <2>3. job' = [job EXCEPT ![r] = j] /\ sub' = [sub EXCEPT ![job[r].app] = job[r].row]
    BY <1>1 DEF ActivateSubscription
  <2>4. job[r].row.status = "TRIAL" => job[r].row.trialEnds # NoDate /\ job[r].row.trialUsed
    BY <1>0 DEF Fits
  <2>5. /\ sub' \in [App -> Row]
        /\ \A b \in App : sub'[b].status = "TRIAL" => sub'[b].trialEnds # NoDate /\ sub'[b].trialUsed
    BY <2>1, <2>3, <2>4, RowSaved
  <2> HIDE DEF j
  <2> QED BY <1>1, <2>2, <2>3, <2>5, GoesOnTyped
      DEF ActivateSubscription, Elsewhere, SubTyped, SubTypeOK
<1>2. CASE SettleInvoice(r)
  <2> DEFINE j == [job[r] EXCEPT !.at = "done"]
  <2>0. \A i \in DOMAIN invoices : invoices[i] \in Invoice
    BY <1>0
  <2>1. j \in Job /\ job' = [job EXCEPT ![r] = j]
    BY <1>0, <1>2 DEF SettleInvoice, Job, Places
  <2>2. Fits(r, j)
    <3>1. job[r].op = "verify" /\ job[r].at = "granting"
      BY <1>0, <1>2, WorkersAreApart DEF SettleInvoice, Fits
    <3> QED BY <1>0, <3>1 DEF Fits, Job
  <2>3. invoices' \in Seq(Invoice) /\ Len(invoices') <= MaxInvoices
    <3>1. CASE UNCHANGED invoices
      BY <1>0, <3>1
    <3>2. ASSUME NEW i \in DOMAIN invoices,
                 invoices' = [invoices EXCEPT ![i].status = IF @ = "UNPAID" THEN "PAID" ELSE @]
          PROVE  invoices' \in Seq(Invoice) /\ Len(invoices') <= MaxInvoices
      <4> DEFINE inv == [invoices[i] EXCEPT !.status = IF @ = "UNPAID" THEN "PAID" ELSE @]
      <4>1. inv \in Invoice
        BY <2>0 DEF Invoice
      <4>2. invoices' = [invoices EXCEPT ![i] = inv]
        BY <3>2
      <4> HIDE DEF inv
      <4> QED BY <1>0, <4>1, <4>2, InvoiceSaved
    <3> QED BY <1>2, <3>1, <3>2 DEF SettleInvoice
  <2> HIDE DEF j
  <2> QED BY <1>2, <2>1, <2>2, <2>3, GoesOnQuietly DEF SettleInvoice, Elsewhere
<1>3. CASE EndPurchase(r)
  BY <1>0, <1>3, RestFits, GoesOnQuietly DEF EndPurchase, Elsewhere, Proceed
<1> QED BY <1>1, <1>2, <1>3, LookUpTyped DEF Delivers

LEMMA CountTyped ==
  ASSUME SubTyped, NEW w \in Worker, Count(w) \/ GrantNext(w) PROVE SubTyped'
<1>0. job[w] \in Job /\ Fits(w, job[w]) /\ job \in [Worker -> Job] /\ access \in [App -> SUBSET Member]
  BY DEF SubTyped, SubTypeOK, JobsFit
<1>1. CASE Count(w)
  <2>1. PICK chosen \in SUBSET Member :
          job' = [job EXCEPT ![w].at = "granting", ![w].todo = Grants(job[w], chosen)]
    BY <1>1 DEF Count
  <2>2. job[w].app \in App /\ job[w].user \in Member
    BY <1>0, <1>1 DEF Count, Fits
  <2>3. Grants(job[w], chosen) \in SUBSET (Member \X Member)
    BY <2>2 DEF Grants, Owners
  <2> DEFINE todo == Grants(job[w], chosen)
             j == [job[w] EXCEPT !.at = "granting", !.todo = todo]
  <2>4. j \in Job
    BY <1>0, <2>3 DEF Job, Places
  <2>5. Fits(w, j)
    <3>1. job[w].at = "counting"
      BY <1>1 DEF Count
    <3> HIDE DEF todo
    <3> QED BY <1>0, <3>1 DEF Fits, Job
  <2>6. job' = [job EXCEPT ![w] = j]
    <3> HIDE DEF todo
    <3> QED BY <1>0, <2>1 DEF Job, todo
  <2> HIDE DEF j
  <2>7. subCount' \in [App -> Int]
    <3>1. subCount' = [subCount EXCEPT ![job[w].app] = @ + 1]
      BY <1>1 DEF Count
    <3> QED BY <2>2, <3>1 DEF SubTyped, SubTypeOK
  <2> QED BY <1>1, <2>4, <2>5, <2>6, <2>7, GoesOnTyped DEF Count, Elsewhere, SubTyped, SubTypeOK
<1>2. CASE GrantNext(w)
  <2>1. PICK t \in job[w].todo :
          /\ access' = [access EXCEPT ![job[w].app] =
               @ \cup (IF sub[job[w].app].status \in Live /\ CanGrant(t[1], t[2]) THEN {t[2]} ELSE {})]
          /\ job' = [job EXCEPT ![w].todo = @ \ {t}]
    BY <1>2 DEF GrantNext
  <2> DEFINE j == [job[w] EXCEPT !.todo = @ \ {t}]
  <2>2. t[2] \in Member /\ job[w].app \in App
    BY <1>0, <1>2 DEF GrantNext, Fits, Job
  <2>3. j \in Job /\ Fits(w, j) /\ job' = [job EXCEPT ![w] = j]
    BY <1>0, <2>1 DEF Job, Fits
  <2>4. access' \in [App -> SUBSET Member]
    BY <1>0, <2>1, <2>2
  <2> HIDE DEF j
  <2> QED BY <1>2, <2>3, <2>4, GoesOnTyped DEF GrantNext, Elsewhere, SubTyped, SubTypeOK
<1> QED BY <1>1, <1>2

LEMMA SchedulerTyped ==
  ASSUME SubTyped, SchedulerStep \/ NextDay \/ PaymentStep \/ UNCHANGED allVars PROVE SubTyped'
<1>1. FundsInv' /\ PurposesFit'
  BY ElsewhereKeeps DEF SubTyped, Elsewhere, SchedulerStep, NextDay, PaymentStep, allVars, ListTrials,
     ListExpired, ListRenewals, InvoiceListed, ExpireListed, GatewayAnswers, Proceed
<1>2. JobsFit'
  BY DEF SubTyped, JobsFit, SchedulerStep, NextDay, PaymentStep, allVars, ListTrials, ListExpired,
         ListRenewals, InvoiceListed, ExpireListed
<1> USE DEF SubTyped, SubTypeOK, subVars
<1>3. ASSUME ListTrials \/ ListExpired \/ ListRenewals PROVE SubTypeOK'
  BY <1>3 DEF ListTrials, ListExpired, ListRenewals, TrialsOver, PeriodsOver, RenewalsDue
<1>4. ASSUME NEW k \in {"trials", "expired"}, ExpireListed(k) PROVE SubTypeOK'
  <2>1. PICK a \in listed[k] : /\ sub' = [sub EXCEPT ![a].status = "EXPIRED"]
                               /\ listed' = [listed EXCEPT ![k] = @ \ {a}]
    BY <1>4 DEF ExpireListed
  <2>2. a \in App
    BY <2>1
  <2>3. [sub[a] EXCEPT !.status = "EXPIRED"] \in Row /\ [sub[a] EXCEPT !.status = "EXPIRED"].status # "TRIAL"
    BY <2>2 DEF Row, Ended
  <2>4. sub' = [sub EXCEPT ![a] = [sub[a] EXCEPT !.status = "EXPIRED"]]
    BY <2>1
  <2>5. /\ sub' \in [App -> Row]
        /\ \A b \in App : sub'[b].status = "TRIAL" => sub'[b].trialEnds # NoDate /\ sub'[b].trialUsed
    BY <2>2, <2>3, <2>4, RowSaved
  <2>6. listed' \in [{"trials", "expired", "renewals"} -> SUBSET App]
    BY <2>1
  <2> QED BY <1>4, <2>5, <2>6 DEF ExpireListed
<1>5. ASSUME InvoiceListed PROVE SubTypeOK'
  <2>1. PICK a \in listed["renewals"] : /\ invoices' = Append(invoices, NewInvoice(a, None))
                                        /\ listed' = [listed EXCEPT !["renewals"] = @ \ {a}]
    BY <1>5 DEF InvoiceListed
  <2> DEFINE inv == NewInvoice(a, None)
  <2>2. inv \in Invoice
    BY <2>1, SpansArePositive, BoundsAreNumbers DEF NewInvoice, Invoice
  <2> HIDE DEF inv
  <2>3. invoices' \in Seq(Invoice) /\ Len(invoices') <= MaxInvoices
    BY <1>5, <2>1, <2>2, BoundsAreNumbers DEF InvoiceListed, inv
  <2> QED BY <1>5, <2>1, <2>3 DEF InvoiceListed
<1>6. ASSUME NextDay PROVE SubTypeOK'
  BY <1>6, BoundsAreNumbers DEF NextDay
<1>7. ASSUME PaymentStep \/ UNCHANGED allVars PROVE SubTypeOK'
  BY <1>7 DEF PaymentStep, allVars
<1>8. SubTypeOK'
  BY <1>3, <1>4, <1>5, <1>6, <1>7 DEF SchedulerStep
<1> QED BY <1>1, <1>2, <1>8

LEMMA RestartTyped == SubTyped /\ Restart => SubTyped'
<1> SUFFICES ASSUME SubTyped, Restart PROVE SubTyped'
  OBVIOUS
<1>1. FundsInv' /\ PurposesFit'
  BY ElsewhereKeeps DEF SubTyped, Elsewhere, Restart
<1>2. JobsFit' /\ job' \in [Worker -> Job]
  BY RestFits DEF Restart, JobsFit
<1> QED BY <1>1, <1>2 DEF SubTyped, SubTypeOK, Restart, subVars

LEMMA SubTypedNext == SubTyped /\ [SubNext]_allVars => SubTyped'
BY SubCallStarts, SubCallContinues, DeliversTyped, CountTyped, SchedulerTyped, RestartTyped DEF SubNext

\* Every variable keeps its type, whatever overlaps and restarts.
THEOREM SubscriptionTypes == SubSpec => []SubTypeOK
<1>1. SubSpec => []SubTyped
  BY SubTypedInit, SubTypedNext, PTL DEF SubSpec
<1>2. SubTyped => SubTypeOK
  BY DEF SubTyped
<1> QED BY <1>1, <1>2, PTL

-----------------------------------------------------------------------------
(* A subscription step is a step of Payments, or none of its business *)

LEMMA StepsArePayments == SubTyped /\ [SubNext]_allVars => [Next]_vars
<1> SUFFICES ASSUME SubTyped, [SubNext]_allVars PROVE [Next]_vars
  OBVIOUS
<1>0. Elsewhere => [Next]_vars
  BY DEF Elsewhere, Next
<1>1. ASSUME NEW h \in Handler, CallStarts(h) PROVE UNCHANGED vars
  BY <1>1 DEF CallStarts, ReadForPurchase, ReadForUpdate, ReadForCancel, ReadForRenewal, ReadInvoices,
              ReadForInvoicePayment, ReadForPayAll
<1>2. ASSUME NEW h \in Handler, CallContinues(h) PROVE [Next]_vars
  <2>0. h \in Worker /\ job[h] \in Job /\ Fits(h, job[h])
    BY DEF SubTyped, SubTypeOK, JobsFit, Worker
  <2>1. CASE \E p \in Payment, g \in Gateways : Pay(h, p, g)
    BY <2>1 DEF Pay, Next
  <2>2. CASE FormFails(h)
    BY <1>0, <2>0, <2>2 DEF FormFails, InitiateThrows, Elsewhere, Fits
  <2>3. CASE InsertRefused(h)
    BY <1>0, <2>0, <2>3 DEF InsertRefused, Elsewhere, Job
  <2>4. CASE \/ SaveOverdue(h) \/ InvoicesShown(h) \/ SaveInvoice(h) \/ Uncount(h)
             \/ MarkInvoicePaid(h) \/ PayAllResponds(h) \/ PurchaseGranted(h) \/ SaveSubscription(h)
    <3>1. Responds(h) \/ UNCHANGED vars
      BY <2>4 DEF SaveOverdue, InvoicesShown, SaveInvoice, Uncount, MarkInvoicePaid, PayAllResponds,
                  PurchaseGranted, SaveSubscription
    <3> QED BY <1>0, <2>0, <3>1, RespondsElsewhere
  <2> QED BY <1>2, <2>1, <2>2, <2>3, <2>4 DEF CallContinues
<1>3. ASSUME NEW r \in Request, Delivers(r) PROVE [Next]_vars
  BY <1>3 DEF Delivers, LookUpPurchase, ActivateSubscription, SettleInvoice, EndPurchase, Next, Proceed
<1>4. ASSUME NEW w \in Worker, Count(w) \/ GrantNext(w) PROVE UNCHANGED vars
  BY <1>4 DEF Count, GrantNext
<1>5. CASE SchedulerStep \/ NextDay \/ UNCHANGED allVars
  BY <1>5 DEF SchedulerStep, NextDay, allVars, ListTrials, ListExpired, ListRenewals, InvoiceListed,
              ExpireListed
<1>6. CASE PaymentStep \/ Restart
  BY <1>6 DEF PaymentStep, Restart, Next, Proceed
<1> QED BY <1>1, <1>2, <1>3, <1>4, <1>5, <1>6 DEF SubNext

\* The composition implements Payments: what holds of every run of Payments holds of
\* the payments of every marketplace.
THEOREM SubscriptionsKeepPayments == SubSpec => ImplementsPayments
<1>1. SubInit => Init
  BY DEF SubInit
<1> QED BY <1>1, SubTypedInit, SubTypedNext, StepsArePayments, PTL DEF SubSpec, Spec, ImplementsPayments

-----------------------------------------------------------------------------
(* Where a row and a copy can come from *)

LEMMA RowsMove ==
  ASSUME SubTyped, [SubNext]_allVars, NEW a \in App
  PROVE  \/ sub'[a] = sub[a]
         \/ sub'[a] = [sub[a] EXCEPT !.status = "EXPIRED"]
         \/ \E h \in Handler : SaveSubscription(h) /\ job[h].app = a /\ sub'[a] = SavedRow(job[h])
         \/ \E r \in Request : ActivateSubscription(r) /\ job[r].app = a /\ sub'[a] = job[r].row
<1> DEFINE Goal == \/ sub'[a] = sub[a]
                   \/ sub'[a] = [sub[a] EXCEPT !.status = "EXPIRED"]
                   \/ \E h \in Handler :
                        SaveSubscription(h) /\ job[h].app = a /\ sub'[a] = SavedRow(job[h])
                   \/ \E r \in Request :
                        ActivateSubscription(r) /\ job[r].app = a /\ sub'[a] = job[r].row
<1> SUFFICES Goal
  OBVIOUS
<1>0. sub \in [App -> Row]
  BY DEF SubTyped, SubTypeOK
<1>1. ASSUME NEW h \in Handler, CallStarts(h) PROVE sub' = sub
  BY <1>1 DEF CallStarts, subVars, ReadForPurchase, ReadForUpdate, ReadForCancel, ReadForRenewal,
              ReadInvoices, ReadForInvoicePayment, ReadForPayAll
<1>2. ASSUME NEW h \in Handler, CallContinues(h), ~SaveSubscription(h) PROVE sub' = sub
  BY <1>2 DEF CallContinues, subVars, SaveOverdue, InvoicesShown, Pay, FormFails, SaveInvoice,
              MarkInvoicePaid, PayAllResponds, InsertRefused, Uncount, PurchaseGranted
<1>3. ASSUME NEW h \in Handler, SaveSubscription(h) PROVE Goal
  <2>1. sub' = [sub EXCEPT ![job[h].app] = SavedRow(job[h])]
    BY <1>3 DEF SaveSubscription
  <2> QED BY <1>0, <1>3, <2>1
<1>4. ASSUME NEW r \in Request, Delivers(r) PROVE Goal
  <2>1. CASE ActivateSubscription(r)
    <3>1. sub' = [sub EXCEPT ![job[r].app] = job[r].row]
      BY <2>1 DEF ActivateSubscription
    <3> QED BY <1>0, <2>1, <3>1
  <2>2. CASE ~ActivateSubscription(r)
    BY <1>4, <2>2 DEF Delivers, subVars, LookUpPurchase, SettleInvoice, EndPurchase
  <2> QED BY <2>1, <2>2
<1>5. ASSUME NEW w \in Worker, Count(w) \/ GrantNext(w) PROVE sub' = sub
  BY <1>5 DEF Count, GrantNext
<1>6. ASSUME NEW k \in {"trials", "expired"}, ExpireListed(k) PROVE Goal
  <2>1. PICK b : sub' = [sub EXCEPT ![b].status = "EXPIRED"]
    BY <1>6 DEF ExpireListed
  <2> QED BY <1>0, <2>1
<1>7. CASE \/ PaymentStep \/ NextDay \/ Restart \/ UNCHANGED allVars
           \/ ListTrials \/ ListExpired \/ ListRenewals \/ InvoiceListed
  BY <1>7 DEF PaymentStep, NextDay, Restart, allVars, subVars, ListTrials, ListExpired, ListRenewals,
              InvoiceListed
<1> HIDE DEF Goal
<1>8. (sub' = sub) => Goal
  BY DEF Goal
<1> QED BY <1>1, <1>2, <1>3, <1>4, <1>5, <1>6, <1>7, <1>8 DEF SubNext, SchedulerStep

\* How a call copies the row of an app.
CopiedFrom(j, a) ==
  /\ j.op \in {"update", "cancel", "renew"} /\ ~j.new /\ j.pay = None
  /\ j.row.payment = sub[a].payment /\ sub[a].status # "absent"
  /\ \/ UNCHANGED sub /\ j.row.status \in {sub[a].status, "CANCELLED"}
        /\ j.row.end = sub[a].end /\ j.row.billing = sub[a].billing
     \/ UNCHANGED sub /\ j.row.status = sub[a].status /\ j.row.billing = j.row.end

BoughtFrom(j, a) ==
  /\ j.op = "purchase" /\ j.new = (sub[a].status # "PENDING_PAYMENT") /\ j.pay = None
  /\ \E trial, auto \in BOOLEAN :
       /\ j.row = PurchasedRow(a, trial, auto)
       /\ trial => TrialDays > 0
       /\ j.at = IF trial THEN "saving" ELSE "paying"

\* A verified payment has the money, and the row of its app still points to it.
VerifiedFrom(j, a) ==
  /\ j.op = "verify" /\ ~j.new
  /\ j.row.status = "ACTIVE" /\ j.row.billing = j.row.end
  /\ sub[a].status # "absent" /\ sub[a].payment = j.pay /\ j.row.payment = j.pay
  /\ j.pay \in Payment /\ purpose[j.pay].app = a /\ Funded(j.pay)

Same(j, k) == j.row = k.row /\ j.app = k.app /\ j.op = k.op /\ j.new = k.new

Granting(j) == j.op = "purchase" /\ j.at \in {"counting", "granting"}

\* A call keeps its copy while it goes on, and when it makes its payment.
GoesOn(w) ==
  /\ Same(job'[w], job[w]) /\ job'[w].pay = job[w].pay
  /\ job'[w].at = "saving" => job[w].at = "saving" \/ job[w].pay # None
  /\ job'[w].at = "activating" => job[w].at = "activating"
  /\ Granting(job'[w]) => Granting(job[w]) \/ (w \in Handler /\ SaveSubscription(w))

PaysNow(w) ==
  /\ w \in Handler /\ Same(job'[w], job[w])
  /\ job'[w].at = "awaitingForm" /\ job'[w].pay \in Payment
  /\ \E g \in Gateways : Pay(w, job'[w].pay, g)

\* It ends, or begins with no copy of a row.
Blank(j) ==
  /\ j.row = NoRow /\ ~j.new /\ j.at # "activating"
  /\ j.op = "verify" \/ (j.op \in {"none", "view", "payInvoice", "payAll"} /\ j.pay = None)

LEMMA CopiesMove ==
  ASSUME SubTyped, [SubNext]_allVars, NEW w \in Worker
  PROVE  \/ GoesOn(w) \/ PaysNow(w) \/ Blank(job'[w])
         \/ \E a \in App : job'[w].app = a /\ sub' = sub
              /\ (CopiedFrom(job'[w], a) \/ BoughtFrom(job'[w], a) \/ VerifiedFrom(job'[w], a))
<1> DEFINE Goal(v) ==
      \/ GoesOn(v) \/ PaysNow(v) \/ Blank(job'[v])
      \/ \E a \in App : job'[v].app = a /\ sub' = sub
           /\ (CopiedFrom(job'[v], a) \/ BoughtFrom(job'[v], a) \/ VerifiedFrom(job'[v], a))
<1> SUFFICES Goal(w)
  OBVIOUS
<1>0. job \in [Worker -> Job] /\ job[w] \in Job /\ sub \in [App -> Row]
  BY DEF SubTyped, SubTypeOK
<1>1. ASSUME NEW v \in Worker, NEW j, job' = [job EXCEPT ![v] = j], v = w => Goal(w)
      PROVE  Goal(w)
  <2>1. CASE v # w
    BY <1>0, <1>1, <2>1 DEF GoesOn, Same
  <2> QED BY <1>1, <2>1
<1>2. ASSUME NEW v \in Worker, job' = [job EXCEPT ![v] = Idle] PROVE Goal(w)
  <2>1. Blank(Idle)
    BY DEF Blank, Idle
  <2> HIDE DEF Goal
  <2>2. v = w => Goal(w)
    BY <1>0, <1>2, <2>1 DEF Goal
  <2> QED BY <1>1, <1>2, <2>2
<1>3. (job' = job) => Goal(w)
  BY DEF Same, GoesOn
<1>10. ASSUME NEW v \in Worker, NEW j, job' = [job EXCEPT ![v] = j], Same(j, job[v]), j.pay = job[v].pay,
              j.at = "saving" => job[v].at = "saving" \/ job[v].pay # None,
              j.at = "activating" => job[v].at = "activating",
              Granting(j) => Granting(job[v]) \/ (v \in Handler /\ SaveSubscription(v))
       PROVE  Goal(w)
  <2>1. v = w => GoesOn(w)
    BY <1>0, <1>10 DEF GoesOn
  <2> QED BY <1>1, <1>10, <2>1
<1>4. ASSUME NEW h \in Handler, CallStarts(h) PROVE Goal(w)
  <2>0. sub' = sub /\ h \in Worker
    BY <1>4 DEF CallStarts, subVars, ReadForPurchase, ReadForUpdate, ReadForCancel, ReadForRenewal,
                ReadInvoices, ReadForInvoicePayment, ReadForPayAll, Worker
  <2>1. ASSUME NEW a \in App, NEW u \in Member, NEW trial \in BOOLEAN, NEW auto \in BOOLEAN,
               ReadForPurchase(h, a, u, trial, auto)
        PROVE  Goal(w)
    <3> DEFINE j == [Idle EXCEPT !.at = IF trial THEN "saving" ELSE "paying",
                                 !.op = "purchase", !.app = a, !.user = u,
                                 !.row = PurchasedRow(a, trial, auto),
                                 !.new = sub[a].status # "PENDING_PAYMENT"]
    <3>1. job' = [job EXCEPT ![h] = j] /\ (trial => TrialDays > 0)
      BY <2>1 DEF ReadForPurchase, StartJob
    <3>2. BoughtFrom(j, a) /\ j.app = a
      BY <3>1 DEF BoughtFrom, Idle
    <3> HIDE DEF j
    <3> QED BY <1>0, <1>1, <2>0, <3>1, <3>2
  <2>2. ASSUME NEW a \in App, NEW u \in Member, NEW auto \in BOOLEAN, NEW pays \in BOOLEAN,
               ReadForUpdate(h, a, u, auto, pays)
        PROVE  Goal(w)
    <3> DEFINE j == [Idle EXCEPT !.at = IF pays THEN "paying" ELSE "saving",
                                 !.op = "update", !.app = a, !.user = u,
                                 !.row = [sub[a] EXCEPT !.autoRenew = auto]]
    <3>1. job' = [job EXCEPT ![h] = j] /\ sub[a].status # "absent" /\ sub[a] \in Row
      BY <1>0, <2>2 DEF ReadForUpdate, StartJob
    <3>2. CopiedFrom(j, a) /\ j.app = a
      BY <2>0, <3>1 DEF CopiedFrom, Idle, Row
    <3> HIDE DEF j
    <3> QED BY <1>0, <1>1, <2>0, <3>1, <3>2
  <2>3. ASSUME NEW a \in App, ReadForCancel(h, a) PROVE Goal(w)
    <3> DEFINE j == [Idle EXCEPT !.at = "saving", !.op = "cancel", !.app = a,
                                 !.row = [sub[a] EXCEPT !.status = "CANCELLED", !.autoRenew = FALSE]]
    <3>1. job' = [job EXCEPT ![h] = j] /\ sub[a].status # "absent" /\ sub[a] \in Row
      BY <1>0, <2>3 DEF ReadForCancel, StartJob
    <3>2. CopiedFrom(j, a) /\ j.app = a
      BY <2>0, <3>1 DEF CopiedFrom, Idle, Row
    <3> HIDE DEF j
    <3> QED BY <1>0, <1>1, <2>0, <3>1, <3>2
  <2>4. ASSUME NEW a \in App, NEW u \in Member, ReadForRenewal(h, a, u) PROVE Goal(w)
    <3> DEFINE j == [Idle EXCEPT !.at = "paying", !.op = "renew", !.app = a, !.user = u,
                                 !.row = [sub[a] EXCEPT !.end = @ + Period,
                                                        !.billing = sub[a].end + Period]]
    <3>1. job' = [job EXCEPT ![h] = j] /\ sub[a].status = "ACTIVE" /\ sub[a] \in Row
      BY <1>0, <2>4 DEF ReadForRenewal, StartJob
    <3>2. CopiedFrom(j, a) /\ j.app = a
      BY <2>0, <3>1 DEF CopiedFrom, Idle, Row
    <3> HIDE DEF j
    <3> QED BY <1>0, <1>1, <2>0, <3>1, <3>2
  <2>5. ASSUME \/ ReadInvoices(h)
               \/ \E i \in 1..MaxInvoices, u \in Member : ReadForInvoicePayment(h, i, u)
               \/ \E u \in Member : ReadForPayAll(h, u)
        PROVE  Goal(w)
    <3>1. ASSUME NEW j, StartJob(h, j), Blank(j) PROVE Goal(w)
      BY <1>0, <1>1, <2>0, <3>1 DEF StartJob
    <3>2. CASE ReadInvoices(h)
      <4> DEFINE j == [Idle EXCEPT !.at = "flipping", !.op = "view", !.flips = Flips(DOMAIN invoices)]
      <4>1. StartJob(h, j)
        BY <3>2 DEF ReadInvoices
      <4>2. Blank(j)
        BY DEF Idle, Blank
      <4> HIDE DEF j, Goal
      <4> QED BY <3>1, <4>1, <4>2
    <3>3. ASSUME NEW i \in 1..MaxInvoices, NEW u \in Member, ReadForInvoicePayment(h, i, u)
          PROVE  Goal(w)
      <4> DEFINE j == [Idle EXCEPT !.at = "flipping", !.op = "payInvoice", !.app = invoices[i].app,
                                   !.user = u, !.bill = <<i, invoices[i]>>, !.covers = {i},
                                   !.flips = Flips({i})]
      <4>1. StartJob(h, j)
        BY <3>3 DEF ReadForInvoicePayment
      <4>2. Blank(j)
        BY DEF Idle, Blank
      <4> HIDE DEF j, Goal
      <4> QED BY <3>1, <4>1, <4>2
    <3>4. ASSUME NEW u \in Member, ReadForPayAll(h, u) PROVE Goal(w)
      <4> DEFINE unpaid == {i \in DOMAIN invoices : invoices[i].status = "UNPAID"}
                 j == [Idle EXCEPT !.at = "flipping", !.op = "payAll", !.user = u,
                                   !.covers = unpaid, !.flips = Flips(unpaid)]
      <4>1. StartJob(h, j)
        BY <3>4 DEF ReadForPayAll
      <4>2. Blank(j)
        BY DEF Idle, Blank
      <4> HIDE DEF j, Goal
      <4> QED BY <3>1, <4>1, <4>2
    <3> HIDE DEF Goal
    <3> QED BY <2>5, <3>2, <3>3, <3>4
  <2> HIDE DEF Goal
  <2> QED BY <1>4, <2>1, <2>2, <2>3, <2>4, <2>5 DEF CallStarts
<1>5. ASSUME NEW h \in Handler, CallContinues(h) PROVE Goal(w)
  <2>0. h \in Worker /\ job[h] \in Job
    BY DEF SubTyped, SubTypeOK, Worker
  <2>1. CASE InvoicesShown(h)
    <3>1. CASE job[h].op = "view"
      BY <1>2, <2>0, <2>1, <3>1 DEF InvoicesShown
    <3>2. CASE job[h].op # "view"
      <4> DEFINE j == [job[h] EXCEPT !.at = "paying"]
      <4>1. job' = [job EXCEPT ![h] = j]
        BY <2>1, <3>2 DEF InvoicesShown
      <4>2. Same(j, job[h]) /\ j.pay = job[h].pay /\ j.at = "paying"
        BY <2>0 DEF Same, Job
      <4> HIDE DEF j, Goal
      <4> QED BY <1>10, <2>0, <4>1, <4>2 DEF Granting
    <3> QED BY <3>1, <3>2
  <2>2. CASE SaveOverdue(h)
    <3>1. PICK f : job' = [job EXCEPT ![h].flips = @ \ {f}]
      BY <2>2 DEF SaveOverdue
    <3> DEFINE j == [job[h] EXCEPT !.flips = @ \ {f}]
    <3>2. /\ job' = [job EXCEPT ![h] = j]
          /\ Same(j, job[h]) /\ j.pay = job[h].pay /\ j.at = job[h].at
      BY <1>0, <2>0, <3>1 DEF Same, Job
    <3>3. j.at = "flipping"
      BY <2>2, <3>2 DEF SaveOverdue
    <3> HIDE DEF j, Goal
    <3> QED BY <1>10, <2>0, <3>2, <3>3 DEF Granting
  <2>3. ASSUME NEW p \in Payment, NEW g \in Gateways, Pay(h, p, g) PROVE Goal(w)
    <3> DEFINE j == [job[h] EXCEPT !.at = "awaitingForm", !.pay = p]
    <3>1. job' = [job EXCEPT ![h] = j]
      BY <1>0, <2>0, <2>3 DEF Pay, Job
    <3>2. Same(j, job[h]) /\ j.pay = p /\ j.at = "awaitingForm"
      BY <2>0 DEF Same, Job
    <3> HIDE DEF j
    <3>3. h = w => PaysNow(w)
      BY <1>0, <2>3, <3>1, <3>2 DEF PaysNow
    <3> QED BY <1>1, <2>0, <3>1, <3>3
  <2>4. CASE SaveInvoice(h)
    <3> DEFINE j == [job[h] EXCEPT !.at = "saving"]
    <3>1. job' = [job EXCEPT ![h] = j] /\ Same(j, job[h]) /\ j.pay = job[h].pay /\ j.at = "saving"
      BY <2>0, <2>4 DEF SaveInvoice, Same, Job
    <3>2. job[h].pay # None
      BY <2>0, <2>4, NoneIsNothing DEF SaveInvoice, SubTyped, JobsFit, Fits
    <3> HIDE DEF j, Goal
    <3> QED BY <1>10, <2>0, <3>1, <3>2 DEF Granting
  <2>5. CASE SaveSubscription(h)
    <3>1. \/ job' = [job EXCEPT ![h].at = "counting"]
          \/ job' = [job EXCEPT ![h].at = "uncounting"]
          \/ job' = [job EXCEPT ![h] = Idle]
      BY <2>5 DEF SaveSubscription
    <3>2. ASSUME NEW x \in {"counting", "uncounting"}, job' = [job EXCEPT ![h].at = x]
          PROVE  Goal(w)
      <4> DEFINE j == [job[h] EXCEPT !.at = x]
      <4>1. job' = [job EXCEPT ![h] = j] /\ Same(j, job[h]) /\ j.pay = job[h].pay /\ j.at = x
        BY <2>0, <3>2 DEF Same, Job
      <4> HIDE DEF j, Goal
      <4> QED BY <1>10, <2>0, <2>5, <4>1
    <3> HIDE DEF Goal
    <3> QED BY <1>2, <2>0, <3>1, <3>2
  <2>6. CASE \/ FormFails(h) \/ MarkInvoicePaid(h) \/ PayAllResponds(h)
             \/ InsertRefused(h) \/ Uncount(h) \/ PurchaseGranted(h)
    <3>1. job' = [job EXCEPT ![h] = Idle]
      BY <2>6 DEF FormFails, MarkInvoicePaid, PayAllResponds, InsertRefused, Uncount, PurchaseGranted
    <3> QED BY <1>2, <2>0, <3>1
  <2> HIDE DEF Goal
  <2> QED BY <1>5, <2>1, <2>2, <2>3, <2>4, <2>5, <2>6 DEF CallContinues
<1>6. ASSUME NEW r \in Request, Delivers(r) PROVE Goal(w)
  <2>0. r \in Worker /\ job[r] \in Job
    BY DEF SubTyped, SubTypeOK, Worker
  <2>1. CASE LookUpPurchase(r)
    <3> DEFINE p == target[r]
               a == purpose[p].app
               found == a # None /\ sub[a].status # "absent" /\ sub[a].payment = p
               row == IF found THEN [sub[a] EXCEPT !.status = "ACTIVE", !.end = now + Period, !.billing = now + Period]
                      ELSE NoRow
               j == [Idle EXCEPT !.at = IF found THEN "activating" ELSE "done", !.op = "verify",
                                 !.app = a, !.user = purpose[p].user, !.pay = p, !.row = row]
    <3>1. job' = [job EXCEPT ![r] = j] /\ sub' = sub
      BY <2>1 DEF LookUpPurchase, subVars
    <3>2. p \in Payment /\ Funded(p)
      BY <2>1 DEF LookUpPurchase, BeginDelivery, SubTyped, FundsInv, CallsKnowTheirRow, SuccessIsFunded,
                  PurposesFit
    <3>3. a \in App \cup {None}
      BY <3>2 DEF SubTyped, SubTypeOK, Purpose
    <3>4. found => /\ row.status = "ACTIVE" /\ row.billing = row.end
                   /\ row.payment = sub[a].payment /\ a \in App
      BY <1>0, <3>3 DEF Row
    <3>5. ~found => row = NoRow
      OBVIOUS
    <3>6. found => sub[a].status # "absent" /\ sub[a].payment = p
      OBVIOUS
    <3> HIDE DEF row
    <3>7. /\ j.app = a /\ j.op = "verify" /\ ~j.new /\ j.pay = p /\ j.row = row
          /\ ~found => j.at = "done"
      BY DEF Idle
    <3> HIDE DEF found
    <3> HIDE DEF j
    <3>8. purpose[p].app = a
      OBVIOUS
    <3> HIDE DEF a, p
    <3>9. CASE found
      <4>1. VerifiedFrom(j, a)
        BY <3>2, <3>4, <3>6, <3>7, <3>8, <3>9 DEF VerifiedFrom
      <4> QED BY <1>0, <1>1, <2>0, <3>1, <3>4, <3>7, <3>9, <4>1
    <3>10. CASE ~found
      <4>1. Blank(j)
        BY <3>5, <3>7, <3>10 DEF Blank
      <4> QED BY <1>0, <1>1, <2>0, <3>1, <4>1
    <3> QED BY <3>9, <3>10
  <2>2. ASSUME ActivateSubscription(r) \/ SettleInvoice(r) PROVE Goal(w)
    <3>1. PICK x \in {"counting", "done"} : job' = [job EXCEPT ![r].at = x]
      BY <2>2 DEF ActivateSubscription, SettleInvoice
    <3> DEFINE j == [job[r] EXCEPT !.at = x]
    <3>2. job' = [job EXCEPT ![r] = j] /\ Same(j, job[r]) /\ j.pay = job[r].pay /\ j.at = x
      BY <2>0, <3>1 DEF Same, Job
    <3>3. job[r].op # "purchase"
      BY <2>0, WorkersAreApart DEF SubTyped, JobsFit, Fits
    <3> HIDE DEF j, Goal
    <3> QED BY <1>10, <2>0, <3>2, <3>3 DEF Granting, Same
  <2>3. CASE EndPurchase(r)
    BY <1>2, <2>0, <2>3 DEF EndPurchase
  <2> HIDE DEF Goal
  <2> QED BY <1>6, <2>1, <2>2, <2>3 DEF Delivers
<1>7. ASSUME NEW v \in Worker, Count(v) \/ GrantNext(v) PROVE Goal(w)
  <2>0. job[v] \in Job
    BY <1>0
  <2>1. CASE Count(v)
    <3>1. PICK x : job' = [job EXCEPT ![v].at = "granting", ![v].todo = x]
      BY <2>1 DEF Count
    <3> DEFINE j == [job[v] EXCEPT !.at = "granting", !.todo = x]
    <3>2. job' = [job EXCEPT ![v] = j] /\ Same(j, job[v]) /\ j.pay = job[v].pay /\ j.at = "granting"
      BY <1>0, <2>0, <3>1 DEF Same, Job
    <3>3. job[v].at = "counting"
      BY <2>1 DEF Count
    <3> HIDE DEF j, Goal
    <3> QED BY <1>10, <3>2, <3>3 DEF Granting, Same
  <2>2. CASE GrantNext(v)
    <3>1. PICK x : job' = [job EXCEPT ![v].todo = @ \ {x}]
      BY <2>2 DEF GrantNext
    <3> DEFINE j == [job[v] EXCEPT !.todo = @ \ {x}]
    <3>2. job' = [job EXCEPT ![v] = j] /\ Same(j, job[v]) /\ j.pay = job[v].pay /\ j.at = job[v].at
      BY <1>0, <2>0, <3>1 DEF Same, Job
    <3> HIDE DEF j, Goal
    <3> QED BY <1>10, <3>2 DEF Granting, Same
  <2> QED BY <1>7, <2>1, <2>2
<1>8. CASE PaymentStep \/ SchedulerStep \/ NextDay \/ UNCHANGED allVars
  <2>1. job' = job
    BY <1>8 DEF PaymentStep, NextDay, allVars, SchedulerStep, ListTrials, ListExpired, ListRenewals,
                InvoiceListed, ExpireListed
  <2> QED BY <1>3, <2>1
<1>9. CASE Restart
  <2>1. Blank(Idle)
    BY DEF Blank, Idle
  <2> QED BY <1>9, <2>1 DEF Restart
<1> HIDE DEF Goal
<1> QED BY <1>4, <1>5, <1>6, <1>7, <1>8, <1>9 DEF SubNext

-----------------------------------------------------------------------------
(* Billing *)

BillingInv == SubTyped /\ BillingFollowsPeriod /\ CopiesBill

LEMMA BillingInvNext == BillingInv /\ [SubNext]_allVars => BillingInv'
<1> SUFFICES ASSUME BillingInv, [SubNext]_allVars PROVE BillingInv'
  OBVIOUS
<1>0. SubTyped
  BY DEF BillingInv
<1>1. ASSUME NEW a \in App PROVE sub'[a].billing \in {NoDate, sub'[a].end}
  <2>0. sub[a] \in Row /\ sub[a].billing \in {NoDate, sub[a].end}
    BY <1>0 DEF BillingInv, BillingFollowsPeriod, SubTypeOK, SubTyped
  <2>1. ASSUME NEW w \in Worker PROVE job[w].row.billing \in {NoDate, job[w].row.end}
    BY DEF BillingInv, CopiesBill
  <2>2. CASE sub'[a] = [sub[a] EXCEPT !.status = "EXPIRED"]
    BY <2>0, <2>2 DEF Row
  <2>3. ASSUME NEW h \in Handler, sub'[a] = SavedRow(job[h])
        PROVE  sub'[a].billing \in {NoDate, sub'[a].end}
    BY <1>0, <2>1, <2>3, SavedRowTyped DEF Worker
  <2>4. ASSUME NEW r \in Request, sub'[a] = job[r].row
        PROVE  sub'[a].billing \in {NoDate, sub'[a].end}
    BY <2>1, <2>4 DEF Worker
  <2> QED BY <1>0, <2>0, <2>2, <2>3, <2>4, RowsMove
<1>2. ASSUME NEW w \in Worker PROVE job'[w].row.billing \in {NoDate, job'[w].row.end}
  <2>0. job[w].row.billing \in {NoDate, job[w].row.end}
    BY DEF BillingInv, CopiesBill
  <2>1. CASE GoesOn(w) \/ PaysNow(w)
    BY <2>0, <2>1 DEF Same, GoesOn, PaysNow
  <2>2. CASE Blank(job'[w])
    BY <2>2 DEF NoRow, Blank
  <2>3. ASSUME NEW a \in App,
               CopiedFrom(job'[w], a) \/ BoughtFrom(job'[w], a) \/ VerifiedFrom(job'[w], a)
        PROVE  job'[w].row.billing \in {NoDate, job'[w].row.end}
    <3>1. sub[a].billing \in {NoDate, sub[a].end}
      BY DEF BillingInv, BillingFollowsPeriod
    <3>2. \A trial, auto : PurchasedRow(a, trial, auto).billing \in {NoDate, PurchasedRow(a, trial, auto).end}
      BY DEF PurchasedRow
    <3> QED BY <2>3, <3>1, <3>2 DEF CopiedFrom, BoughtFrom, VerifiedFrom
  <2> QED BY <1>0, <2>1, <2>2, <2>3, CopiesMove
<1> QED BY <1>0, <1>1, <1>2, SubTypedNext DEF BillingInv, BillingFollowsPeriod, CopiesBill

\* Whatever copies overwrite each other, next_billing_date is the end of the period or
\* unset: the renewal job never bills on another day.
THEOREM BillsAtTheEnd == SubSpec => []BillingFollowsPeriod
<1>1. SubInit => BillingInv
  BY SubTypedInit DEF SubInit, BillingInv, BillingFollowsPeriod, CopiesBill, NoRow, Idle
<1>2. BillingInv => BillingFollowsPeriod
  BY DEF BillingInv
<1> QED BY <1>1, <1>2, BillingInvNext, PTL DEF SubSpec

-----------------------------------------------------------------------------
(* Money *)

MoneyInv == SubTyped /\ PaidAppNeedsMoney /\ CopiesPaid /\ NoTrials

\* What a payment was for stays, as does the money behind it.
LEMMA MoneyKept ==
  ASSUME SubTyped, [SubNext]_allVars, NEW p \in Payment, Funded(p)
  PROVE  Funded(p)' /\ purpose'[p] = purpose[p]
<1>0. purpose \in [Payment -> Purpose] /\ status[p] # "absent"
  BY FundedExists DEF SubTyped, SubTypeOK, FundsInv
<1>1. [Next]_vars /\ TypeOK /\ CallsKnowTheirRow
  BY StepsArePayments DEF SubTyped, FundsInv
<1>2. Funded(p)'
  BY <1>1, FundedStays
<1>3. purpose'[p] = purpose[p]
  <2>1. ASSUME NEW h \in Handler, NEW q \in Payment, NEW g \in Gateways, Pay(h, q, g)
        PROVE  purpose'[p] = purpose[p]
    <3>1. status[q] = "absent" /\ \E x : purpose' = [purpose EXCEPT ![q] = x]
      BY <2>1 DEF Pay, CreatePayment
    <3> QED BY <1>0, <3>1
  <2>2. ASSUME NEW h \in Handler, CallStarts(h) PROVE purpose' = purpose
    BY <2>2 DEF CallStarts, ReadForPurchase, ReadForUpdate, ReadForCancel, ReadForRenewal, ReadInvoices,
                ReadForInvoicePayment, ReadForPayAll
  <2>3. ASSUME NEW h \in Handler, CallContinues(h), ~\E q \in Payment, g \in Gateways : Pay(h, q, g)
        PROVE  purpose' = purpose
    BY <2>3 DEF CallContinues, SaveOverdue, InvoicesShown, FormFails, SaveInvoice, MarkInvoicePaid,
                PayAllResponds, InsertRefused, SaveSubscription, Uncount, PurchaseGranted
  <2>4. ASSUME NEW r \in Request, Delivers(r) PROVE purpose' = purpose
    BY <2>4 DEF Delivers, LookUpPurchase, ActivateSubscription, SettleInvoice, EndPurchase
  <2>5. ASSUME NEW w \in Worker, Count(w) \/ GrantNext(w) PROVE purpose' = purpose
    BY <2>5 DEF Count, GrantNext
  <2>6. CASE PaymentStep \/ SchedulerStep \/ NextDay \/ Restart \/ UNCHANGED allVars
    BY <2>6 DEF PaymentStep, SchedulerStep, NextDay, Restart, allVars, ListTrials, ListExpired, ListRenewals,
                InvoiceListed, ExpireListed
  <2> QED BY <2>1, <2>2, <2>3, <2>4, <2>5, <2>6 DEF SubNext
<1> QED BY <1>2, <1>3

LEMMA MoneyStays ==
  ASSUME SubTyped, [SubNext]_allVars, NEW a, Money(a) PROVE Money(a)'
BY MoneyKept DEF Money

\* Access is granted while the app's row is live.
LEMMA AccessMoves ==
  ASSUME SubTyped, [SubNext]_allVars, NEW a \in App
  PROVE  access'[a] = access[a] \/ sub[a].status \in Live
<1> DEFINE Goal == access'[a] = access[a] \/ sub[a].status \in Live
<1> SUFFICES Goal
  OBVIOUS
<1>0. access \in [App -> SUBSET Member]
  BY DEF SubTyped, SubTypeOK
<1>1. ASSUME NEW w \in Worker, GrantNext(w) PROVE Goal
  <2>1. PICK t : access' = [access EXCEPT ![job[w].app] =
                   @ \cup (IF sub[job[w].app].status \in Live /\ CanGrant(t[1], t[2]) THEN {t[2]} ELSE {})]
    BY <1>1 DEF GrantNext
  <2> QED BY <1>0, <2>1
<1>2. ASSUME NEW w \in Worker, Count(w) PROVE access' = access
  BY <1>2 DEF Count
<1>3. ASSUME NEW h \in Handler, CallStarts(h) PROVE access' = access
  BY <1>3 DEF CallStarts, subVars, ReadForPurchase, ReadForUpdate, ReadForCancel, ReadForRenewal,
              ReadInvoices, ReadForInvoicePayment, ReadForPayAll
<1>4. ASSUME NEW h \in Handler, CallContinues(h) PROVE access' = access
  BY <1>4 DEF CallContinues, subVars, SaveOverdue, InvoicesShown, Pay, FormFails, SaveInvoice,
              MarkInvoicePaid, PayAllResponds, InsertRefused, SaveSubscription, Uncount, PurchaseGranted
<1>5. ASSUME NEW r \in Request, Delivers(r) PROVE access' = access
  BY <1>5 DEF Delivers, subVars, LookUpPurchase, ActivateSubscription, SettleInvoice, EndPurchase
<1>6. CASE PaymentStep \/ SchedulerStep \/ NextDay \/ Restart \/ UNCHANGED allVars
  BY <1>6 DEF PaymentStep, SchedulerStep, NextDay, Restart, allVars, subVars, ListTrials, ListExpired,
              ListRenewals, InvoiceListed, ExpireListed
<1> QED BY <1>1, <1>2, <1>3, <1>4, <1>5, <1>6 DEF SubNext

LEMMA MoneyInvNext == MoneyInv /\ [SubNext]_allVars => MoneyInv'
<1> SUFFICES ASSUME MoneyInv, [SubNext]_allVars PROVE MoneyInv'
  OBVIOUS
<1>0. SubTyped
  BY DEF MoneyInv
<1> DEFINE Then(a) == \E p \in Payment : purpose'[p].app = a /\ Funded(p)'
<1>1. ASSUME NEW a, Money(a) PROVE Then(a)
  <2>1. Money(a)'
    BY <1>0, <1>1, MoneyStays
  <2> QED BY <2>1 DEF Money
<1>2. ASSUME NEW w \in Worker, job[w].app \in PaidApp, job[w].row.status = "ACTIVE"
      PROVE  Money(job[w].app)
  BY <1>2 DEF MoneyInv, CopiesPaid
<1>3. ASSUME NEW a \in PaidApp, sub[a].status = "ACTIVE" \/ (TrialDays = 0 /\ access[a] # {})
      PROVE  Money(a)
  BY <1>3 DEF MoneyInv, PaidAppNeedsMoney, Money
<1> HIDE DEF Money, Then
<1>4. ASSUME NEW a \in PaidApp, sub'[a].status = "ACTIVE" PROVE Then(a)
  <2>0. a \in App /\ sub[a] \in Row
    BY <1>0, PaidAppsAreApps DEF SubTyped, SubTypeOK
  <2>1. CASE sub'[a] = sub[a]
    BY <1>1, <1>3, <1>4, <2>1
  <2>2. CASE sub'[a] = [sub[a] EXCEPT !.status = "EXPIRED"]
    BY <1>4, <2>0, <2>2 DEF Row
  <2>3. ASSUME NEW h \in Handler, job[h].app = a, sub'[a] = SavedRow(job[h]) PROVE Then(a)
    <3>1. h \in Worker /\ job[h].row.status = "ACTIVE"
      BY <1>0, <1>4, <2>3, SavedRowTyped DEF Worker
    <3> QED BY <1>1, <1>2, <2>3, <3>1
  <2>4. ASSUME NEW r \in Request, job[r].app = a, sub'[a] = job[r].row PROVE Then(a)
    BY <1>1, <1>2, <1>4, <2>4 DEF Worker
  <2> QED BY <1>0, <2>0, <2>1, <2>2, <2>3, <2>4, RowsMove
<1>5. ASSUME NEW a \in PaidApp, TrialDays = 0, access'[a] # {} PROVE Then(a)
  <2>0. a \in App /\ sub[a].status # "TRIAL"
    BY <1>5, PaidAppsAreApps DEF MoneyInv, NoTrials
  <2>1. access[a] # {} \/ sub[a].status = "ACTIVE"
    BY <1>0, <1>5, <2>0, AccessMoves DEF Live
  <2> QED BY <1>1, <1>3, <1>5, <2>1
<1>6. ASSUME NEW w \in Worker, job'[w].app \in PaidApp, job'[w].row.status = "ACTIVE"
      PROVE  Then(job'[w].app)
  <2>1. CASE GoesOn(w) \/ PaysNow(w)
    BY <1>1, <1>2, <1>6, <2>1 DEF Same, GoesOn, PaysNow
  <2>2. CASE Blank(job'[w])
    BY <1>6, <2>2 DEF NoRow, Blank
  <2>3. ASSUME NEW a \in App, job'[w].app = a, sub' = sub,
               CopiedFrom(job'[w], a) \/ BoughtFrom(job'[w], a) \/ VerifiedFrom(job'[w], a)
        PROVE  Then(job'[w].app)
    <3>1. CASE CopiedFrom(job'[w], a)
      BY <1>1, <1>3, <1>6, <2>3, <3>1 DEF CopiedFrom
    <3>2. CASE BoughtFrom(job'[w], a)
      BY <1>6, <2>3, <3>2 DEF BoughtFrom, PurchasedRow
    <3>3. CASE VerifiedFrom(job'[w], a)
      <4>1. Money(a)
        BY <3>3 DEF VerifiedFrom, Money
      <4> QED BY <1>1, <2>3, <4>1
    <3> QED BY <2>3, <3>1, <3>2, <3>3
  <2> QED BY <1>0, <2>1, <2>2, <2>3, CopiesMove
<1>7. NoTrials'
  <2> SUFFICES ASSUME TrialDays = 0
               PROVE  /\ \A a \in App : sub'[a].status # "TRIAL"
                      /\ \A w \in Worker : job'[w].row.status # "TRIAL"
    BY DEF NoTrials
  <2>0. /\ \A a \in App : sub[a].status # "TRIAL" /\ sub[a] \in Row
        /\ \A w \in Worker : job[w].row.status # "TRIAL"
    BY <1>0 DEF MoneyInv, NoTrials, SubTyped, SubTypeOK
  <2>1. ASSUME NEW a \in App PROVE sub'[a].status # "TRIAL"
    <3>1. CASE sub'[a] = [sub[a] EXCEPT !.status = "EXPIRED"]
      BY <2>0, <3>1 DEF Row
    <3>2. \A h \in Handler : SavedRow(job[h]).status # "TRIAL"
      BY <1>0, <2>0, SavedRowTyped DEF Worker
    <3> QED BY <1>0, <2>0, <3>1, <3>2, RowsMove DEF Worker
  <2>2. ASSUME NEW w \in Worker PROVE job'[w].row.status # "TRIAL"
    <3>1. ASSUME NEW a \in App,
                 CopiedFrom(job'[w], a) \/ BoughtFrom(job'[w], a) \/ VerifiedFrom(job'[w], a)
          PROVE  job'[w].row.status # "TRIAL"
      <4>1. CASE CopiedFrom(job'[w], a)
        BY <2>0, <4>1 DEF CopiedFrom
      <4>2. CASE BoughtFrom(job'[w], a)
        BY <4>2 DEF BoughtFrom, PurchasedRow
      <4> QED BY <3>1, <4>1, <4>2 DEF VerifiedFrom
    <3> QED BY <1>0, <2>0, <3>1, CopiesMove DEF Same, GoesOn, PaysNow, Blank, NoRow
  <2> QED BY <2>1, <2>2
<1>8. PaidAppNeedsMoney'
  <2> SUFFICES ASSUME NEW a \in PaidApp,
                      sub'[a].status = "ACTIVE" \/ (TrialDays = 0 /\ access'[a] # {})
               PROVE  Then(a)
    BY DEF PaidAppNeedsMoney, Then
  <2> QED BY <1>4, <1>5
<1>9. CopiesPaid'
  BY <1>6 DEF CopiesPaid, Then, Money
<1> QED BY <1>0, <1>7, <1>8, <1>9, SubTypedNext DEF MoneyInv

\* No order of purchases, cancellations, renewals, scheduler runs, restarts and stale
\* saves makes a paid app ACTIVE without a payment for it that has money behind it, nor,
\* where there are no trials, gives anybody access.
THEOREM NoPaidAppWithoutMoney == SubSpec => []PaidAppNeedsMoney
<1>1. SubInit => MoneyInv
  BY SubTypedInit, PaidAppsAreApps
  DEF SubInit, MoneyInv, PaidAppNeedsMoney, CopiesPaid, NoTrials, NoRow, Idle
<1>2. MoneyInv => PaidAppNeedsMoney
  BY DEF MoneyInv
<1> QED BY <1>1, <1>2, MoneyInvNext, PTL DEF SubSpec

-----------------------------------------------------------------------------
(* Links between rows and payments *)

\* A copy of a stored row, and not a row that will be inserted.
Copies(j) == j.row.status # "absent" /\ ~j.new

\* A link leads to a payment that was made for the app.
LinkFits(p, a) == p # None => p \in Payment /\ status[p] # "absent" /\ purpose[p].app = a

RowLinked(a) ==
  /\ LinkFits(sub[a].payment, a)
  /\ sub[a].status = "absent" => sub[a].payment = None
  /\ sub[a].status = "PENDING_PAYMENT" => sub[a].payment # None

\* The payment a call has made, for the app and the operation it is about.
PayFits(j) ==
  j.pay # None =>
    /\ j.pay \in Payment /\ status[j.pay] # "absent" /\ j.pay # j.row.payment
    /\ purpose[j.pay].op = j.op /\ purpose[j.pay].app = j.app

CopyLinked(w, j) ==
  /\ j.op \in {"purchase", "update", "cancel", "renew"} \/ j.at = "activating" => j.row.status # "absent"
  /\ j.op # "purchase" => ~j.new
  /\ j.op = "purchase" => (j.new <=> j.row.payment = None)
  /\ Copies(j) => j.app \in App /\ sub[j.app].status # "absent"
  /\ LinkFits(j.row.payment, j.app)
  /\ j.row.status = "PENDING_PAYMENT" =>
       IF j.op = "purchase" THEN j.at # "saving" \/ j.pay # None ELSE j.row.payment # None
  /\ w \in Handler => PayFits(j)

LinksInv ==
  /\ SubTyped
  /\ \A a \in App : RowLinked(a)
  /\ \A w \in Worker : CopyLinked(w, job[w])

\* No other payment was ever started for the app of this purchase.
Sole(p) ==
  /\ purpose[p].op = "purchase"
  /\ \A q \in Payment \ {p} : purpose[q].app # purpose[p].app

\* The purchase p has saved its row, and has not responded yet.
Stored(j, p) == j.op = "purchase" /\ j.at \in {"counting", "granting"} /\ j.pay = p

\* The row points to such a payment from the moment it is saved; and the copies do
\* exactly when the row does.
SoleLinked(p) ==
  LET a == purpose[p].app
      theirs == {w \in Worker : job[w].app = a}
  IN  /\ form[p] = "offered" \/ (\E h \in Handler : Stored(job[h], p)) => sub[a].payment = p
      /\ \A w \in theirs : job[w].row.payment = p => sub[a].payment = p
      /\ sub[a].payment = p => \A w \in theirs : Copies(job[w]) => job[w].row.payment = p

ShownInv == LinksInv /\ \A p \in Payment : Sole(p) => SoleLinked(p)

\* A payment that exists stays, with its purpose.
LEMMA PurposeStays ==
  ASSUME SubTyped, [SubNext]_allVars, NEW p \in Payment
  PROVE  \/ status[p] # "absent" /\ status'[p] # "absent" /\ purpose'[p] = purpose[p]
         \/ status[p] = "absent" /\ purpose'[p] = purpose[p]
         \/ status[p] = "absent" /\ form'[p] = "initiating" /\ sub' = sub
            /\ \E h \in Handler, g \in Gateways :
                 Pay(h, p, g) /\ purpose'[p].op = job[h].op /\ purpose'[p].app = job[h].app
<1> DEFINE Goal == \/ status[p] # "absent" /\ status'[p] # "absent" /\ purpose'[p] = purpose[p]
                   \/ status[p] = "absent" /\ purpose'[p] = purpose[p]
                   \/ status[p] = "absent" /\ form'[p] = "initiating" /\ sub' = sub
                      /\ \E h \in Handler, g \in Gateways :
                           Pay(h, p, g) /\ purpose'[p].op = job[h].op /\ purpose'[p].app = job[h].app
<1> SUFFICES Goal
  OBVIOUS
<1>0. /\ purpose \in [Payment -> Purpose] /\ status \in [Payment -> Status]
      /\ form \in [Payment -> {"none", "initiating", "offered", "abandoned"}]
  BY DEF SubTyped, FundsInv, TypeOK, SubTypeOK
<1>1. ASSUME status[p] # "absent" PROVE status'[p] # "absent"
  <2>1. [Next]_vars
    BY StepsArePayments
  <2>2. ASSUME NEW r \in Request, Proceed(r) PROVE status'[p] # "absent"
    BY <1>0, <1>1, <2>2 DEF Proceed, SaveCompleted, SaveFailed, BeginDelivery, EndVerify, rows
  <2>3. ASSUME NEW r \in Request, GatewayAnswers(r) PROVE status' = status
    BY <2>3 DEF GatewayAnswers, AnswerSuccess, AnswerFailure, AnswerThrows, rows
  <2>4. ASSUME NEW q \in Payment, OfferForm(q) \/ LoseForm(q) \/ CustomerPays(q) PROVE status' = status
    BY <2>4 DEF OfferForm, LoseForm, CustomerPays, rows
  <2>5. ASSUME NEW q \in Payment, NEW g \in Gateways, CreatePayment(q, g) PROVE status'[p] # "absent"
    BY <1>0, <1>1, <2>5 DEF CreatePayment
  <2>6. ASSUME NEW r \in Request, NEW q \in Payment, BeginVerify(r, q) PROVE status' = status
    BY <2>6 DEF BeginVerify, rows
  <2>7. CASE Crash \/ UNCHANGED vars
    BY <1>1, <2>7 DEF Crash, vars
  <2> QED BY <1>1, <2>1, <2>2, <2>3, <2>4, <2>5, <2>6, <2>7 DEF Next
<1>2. (purpose'[p] = purpose[p]) => Goal
  BY <1>1
<1>3. ASSUME NEW h \in Handler, NEW q \in Payment, NEW g \in Gateways, Pay(h, q, g)
      PROVE  Goal
  <2> DEFINE x == [op |-> job[h].op, app |-> job[h].app, user |-> job[h].user, covers |-> job[h].covers]
  <2>1. /\ status[q] = "absent" /\ purpose' = [purpose EXCEPT ![q] = x]
        /\ form' = [form EXCEPT ![q] = "initiating"] /\ sub' = sub
    BY <1>3 DEF Pay, CreatePayment, subVars
  <2>2. CASE q = p
    BY <1>0, <1>3, <2>1, <2>2
  <2>3. CASE q # p
    BY <1>0, <1>2, <2>1, <2>3
  <2> QED BY <2>2, <2>3
<1> HIDE DEF Goal
<1>4. ASSUME NEW h \in Handler, CallStarts(h) PROVE purpose' = purpose
  BY <1>4 DEF CallStarts, ReadForPurchase, ReadForUpdate, ReadForCancel, ReadForRenewal, ReadInvoices,
              ReadForInvoicePayment, ReadForPayAll
<1>5. ASSUME NEW h \in Handler, CallContinues(h), ~\E q \in Payment, g \in Gateways : Pay(h, q, g)
      PROVE  purpose' = purpose
  BY <1>5 DEF CallContinues, SaveOverdue, InvoicesShown, FormFails, SaveInvoice, MarkInvoicePaid,
              PayAllResponds, InsertRefused, SaveSubscription, Uncount, PurchaseGranted
<1>6. ASSUME NEW r \in Request, Delivers(r) PROVE purpose' = purpose
  BY <1>6 DEF Delivers, LookUpPurchase, ActivateSubscription, SettleInvoice, EndPurchase
<1>7. ASSUME NEW w \in Worker, Count(w) \/ GrantNext(w) PROVE purpose' = purpose
  BY <1>7 DEF Count, GrantNext
<1>8. CASE PaymentStep \/ SchedulerStep \/ NextDay \/ Restart \/ UNCHANGED allVars
  BY <1>2, <1>8 DEF PaymentStep, SchedulerStep, NextDay, Restart, allVars, ListTrials, ListExpired, ListRenewals,
              InvoiceListed, ExpireListed
<1> QED BY <1>2, <1>3, <1>4, <1>5, <1>6, <1>7, <1>8 DEF SubNext

\* A form reaches the customer when a call responds.
LEMMA FormMoves ==
  ASSUME SubTyped, [SubNext]_allVars, NEW p \in Payment, form'[p] = "offered", form[p] # "offered"
  PROVE  \E h \in Handler :
           /\ job[h].pay = p /\ p # None
           /\ job[h].op = "purchase" => SaveSubscription(h) \/ Granting(job[h])
<1> DEFINE Goal == \E h \in Handler :
                     /\ job[h].pay = p /\ p # None
                     /\ job[h].op = "purchase" => SaveSubscription(h) \/ Granting(job[h])
<1> SUFFICES Goal
  OBVIOUS
<1>0. form \in [Payment -> {"none", "initiating", "offered", "abandoned"}] /\ p # None
  BY NoneIsNothing DEF SubTyped, FundsInv, TypeOK
<1>1. ASSUME NEW h \in Handler, Responds(h) PROVE job[h].pay = p
  BY <1>0, <1>1 DEF Responds, OfferForm, vars
<1>2. ASSUME NEW h \in Handler, CallContinues(h) PROVE Goal
  <2>1. CASE MarkInvoicePaid(h) \/ PayAllResponds(h)
    BY <1>0, <1>1, <2>1 DEF MarkInvoicePaid, PayAllResponds
  <2>2. CASE PurchaseGranted(h)
    BY <1>0, <1>1, <2>2 DEF PurchaseGranted, Granting
  <2>3. CASE SaveSubscription(h)
    <3>1. Responds(h) \/ UNCHANGED vars
      BY <2>3 DEF SaveSubscription
    <3> QED BY <1>0, <1>1, <2>3, <3>1 DEF vars
  <2>4. CASE \E q \in Payment, g \in Gateways : Pay(h, q, g)
    BY <1>0, <2>4 DEF Pay, CreatePayment
  <2>5. CASE FormFails(h) \/ InsertRefused(h)
    BY <1>0, <2>5 DEF FormFails, InsertRefused, InitiateThrows, LoseForm, vars
  <2>6. CASE SaveOverdue(h) \/ InvoicesShown(h) \/ SaveInvoice(h) \/ Uncount(h)
    BY <2>6 DEF SaveOverdue, InvoicesShown, SaveInvoice, Uncount, vars
  <2> HIDE DEF Goal
  <2> QED BY <1>2, <2>1, <2>2, <2>3, <2>4, <2>5, <2>6 DEF CallContinues
<1>3. ASSUME NEW h \in Handler, CallStarts(h) PROVE form' = form
  BY <1>3 DEF CallStarts, ReadForPurchase, ReadForUpdate, ReadForCancel, ReadForRenewal, ReadInvoices,
              ReadForInvoicePayment, ReadForPayAll, vars
<1>4. ASSUME NEW r \in Request, Delivers(r) PROVE form' = form
  BY <1>4 DEF Delivers, LookUpPurchase, ActivateSubscription, SettleInvoice, EndPurchase, BeginDelivery,
              EndVerify, vars, rows
<1>5. ASSUME NEW w \in Worker, Count(w) \/ GrantNext(w) PROVE form' = form
  BY <1>5 DEF Count, GrantNext, vars
<1>6. CASE SchedulerStep \/ NextDay \/ UNCHANGED allVars
  BY <1>6 DEF SchedulerStep, NextDay, allVars, vars, ListTrials, ListExpired, ListRenewals,
              InvoiceListed, ExpireListed
<1>7. CASE PaymentStep
  BY <1>7 DEF PaymentStep, CustomerPays, BeginVerify, GatewayAnswers, AnswerSuccess, AnswerFailure,
              AnswerThrows, SaveCompleted, SaveFailed, rows
<1>8. CASE Restart
  BY <1>0, <1>8 DEF Restart, Crash
<1> HIDE DEF Goal
<1> QED BY <1>2, <1>3, <1>4, <1>5, <1>6, <1>7, <1>8 DEF SubNext

\* A link that leads to a payment goes on doing so.
LEMMA LinksStay ==
  ASSUME SubTyped, [SubNext]_allVars, NEW p, NEW a, LinkFits(p, a)
  PROVE  p # None => p \in Payment /\ status'[p] # "absent" /\ purpose'[p] = purpose[p]
BY PurposeStays DEF LinkFits

\* What a call is about to save.
LEMMA SavedLinks ==
  ASSUME LinksInv, NEW h \in Handler, SaveSubscription(h)
  PROVE  LET j == job[h]
             new == SavedRow(j)
         IN  /\ j.op \in {"purchase", "update", "cancel", "renew"} /\ j.app \in App
             /\ CopyLinked(h, j) /\ PayFits(j)
             /\ j.op = "purchase" => j.at = "saving"
             /\ new.status = j.row.status /\ new.status # "absent"
             /\ new.payment \in {j.row.payment, j.pay}
             /\ j.pay = None => new.payment = j.row.payment
             /\ j.pay # None /\ j.op = "purchase" => new.payment = j.pay
             /\ new.status = "PENDING_PAYMENT" => new.payment # None
<1> DEFINE j == job[h]
           new == SavedRow(j)
<1>0. h \in Worker /\ SubTyped /\ Fits(h, j)
  BY DEF Worker, LinksInv, SubTyped, JobsFit
<1>1. ToSave(h)
  BY DEF SaveSubscription
<1>2. j.op \in {"purchase", "update", "cancel", "renew"} /\ j.app \in App
  BY <1>0, <1>1 DEF ToSave, Fits
<1>3. j.op = "purchase" => j.at = "saving"
  BY <1>1 DEF ToSave
<1>4. CopyLinked(h, j) /\ PayFits(j)
  BY <1>0 DEF LinksInv, CopyLinked
<1>5. /\ new.status = j.row.status
      /\ new.payment = IF j.pay = None THEN j.row.payment
                       ELSE IF j.op = "purchase" THEN j.pay ELSE Linked(j.row.payment, j.pay)
  BY <1>0, SavedRowTyped
<1> HIDE DEF new, j
<1>6. j.row.status # "absent"
  BY <1>2, <1>4 DEF CopyLinked
<1>7. new.status = "PENDING_PAYMENT" => new.payment # None
  BY <1>3, <1>4, <1>5 DEF CopyLinked, Linked
<1>8. new.payment \in {j.row.payment, j.pay}
  BY <1>5 DEF Linked
<1> QED BY <1>2, <1>3, <1>4, <1>5, <1>6, <1>7, <1>8 DEF j, new

\* A row, once inserted, stays.
LEMMA RowsStay ==
  ASSUME LinksInv, [SubNext]_allVars, NEW a \in App, sub[a].status # "absent"
  PROVE  sub'[a].status # "absent"
<1>0. SubTyped /\ sub[a] \in Row
  BY DEF LinksInv, SubTyped, SubTypeOK
<1>1. CASE sub'[a] = [sub[a] EXCEPT !.status = "EXPIRED"]
  BY <1>0, <1>1 DEF Row
<1>2. ASSUME NEW h \in Handler, SaveSubscription(h), sub'[a] = SavedRow(job[h])
      PROVE  sub'[a].status # "absent"
  BY <1>2, SavedLinks
<1>3. ASSUME NEW r \in Request, ActivateSubscription(r), sub'[a] = job[r].row
      PROVE  sub'[a].status # "absent"
  BY <1>3 DEF LinksInv, CopyLinked, ActivateSubscription, Worker
<1> QED BY <1>0, <1>1, <1>2, <1>3, RowsMove

LEMMA RowLinkedNext ==
  ASSUME LinksInv, [SubNext]_allVars, NEW a \in App
  PROVE  RowLinked(a)'
<1>0. SubTyped /\ sub[a] \in Row /\ RowLinked(a)
  BY DEF LinksInv, SubTyped, SubTypeOK
<1>1. ASSUME NEW p, LinkFits(p, a)
      PROVE  p # None => p \in Payment /\ status'[p] # "absent" /\ purpose'[p].app = a
  BY <1>0, <1>1, LinksStay DEF LinkFits
<1>2. CASE sub'[a] = sub[a]
  BY <1>0, <1>1, <1>2 DEF RowLinked, LinkFits
<1>3. CASE sub'[a] = [sub[a] EXCEPT !.status = "EXPIRED"]
  <2>1. sub'[a].status = "EXPIRED" /\ sub'[a].payment = sub[a].payment
    BY <1>0, <1>3 DEF Row
  <2> QED BY <1>0, <1>1, <2>1 DEF RowLinked, LinkFits
<1>4. ASSUME NEW h \in Handler, SaveSubscription(h), job[h].app = a, sub'[a] = SavedRow(job[h])
      PROVE  RowLinked(a)'
  <2>1. /\ CopyLinked(h, job[h]) /\ PayFits(job[h])
        /\ sub'[a].status # "absent"
        /\ sub'[a].payment \in {job[h].row.payment, job[h].pay}
        /\ sub'[a].status = "PENDING_PAYMENT" => sub'[a].payment # None
    BY <1>4, SavedLinks
  <2>2. LinkFits(job[h].row.payment, a) /\ LinkFits(job[h].pay, a)
    BY <1>4, <2>1 DEF CopyLinked, PayFits, LinkFits
  <2> QED BY <1>1, <2>1, <2>2 DEF RowLinked, LinkFits
<1>5. ASSUME NEW r \in Request, ActivateSubscription(r), job[r].app = a, sub'[a] = job[r].row
      PROVE  RowLinked(a)'
  <2>1. CopyLinked(r, job[r]) /\ Fits(r, job[r]) /\ job[r].at = "activating"
    BY <1>5 DEF LinksInv, SubTyped, JobsFit, ActivateSubscription, Worker
  <2>2. LinkFits(job[r].row.payment, a) /\ job[r].op = "verify"
    BY <1>5, <2>1 DEF CopyLinked, Fits
  <2> QED BY <1>1, <1>5, <2>1, <2>2 DEF RowLinked, LinkFits, CopyLinked
<1> QED BY <1>0, <1>2, <1>3, <1>4, <1>5, RowsMove

LEMMA CopyLinkedNext ==
  ASSUME LinksInv, [SubNext]_allVars, NEW w \in Worker
  PROVE  CopyLinked(w, job[w])'
<1> DEFINE j == job[w]
           k == job'[w]
           ThenFits(p, a) == p # None => p \in Payment /\ status'[p] # "absent" /\ purpose'[p].app = a
           ThenPaid == k.pay # None =>
                         /\ k.pay \in Payment /\ status'[k.pay] # "absent" /\ k.pay # k.row.payment
                         /\ purpose'[k.pay].op = k.op /\ purpose'[k.pay].app = k.app
           Goal ==
             /\ k.op \in {"purchase", "update", "cancel", "renew"} \/ k.at = "activating" => k.row.status # "absent"
             /\ k.op # "purchase" => ~k.new
             /\ k.op = "purchase" => (k.new <=> k.row.payment = None)
             /\ Copies(k) => k.app \in App /\ sub'[k.app].status # "absent"
             /\ ThenFits(k.row.payment, k.app)
             /\ k.row.status = "PENDING_PAYMENT" =>
                  IF k.op = "purchase" THEN k.at # "saving" \/ k.pay # None ELSE k.row.payment # None
             /\ w \in Handler => ThenPaid
<1>0. SubTyped /\ CopyLinked(w, j) /\ Fits(w, j)
  BY DEF LinksInv, SubTyped, JobsFit
<1>1. ASSUME NEW p, NEW a, LinkFits(p, a) PROVE ThenFits(p, a)
  BY <1>0, <1>1, LinksStay DEF LinkFits
<1>2. \A a \in App : sub[a].status # "absent" => sub'[a].status # "absent"
  BY RowsStay
<1>3. w \in Handler => k.op # "verify"
  <2>1. SubTyped'
    BY <1>0, SubTypedNext
  <2> QED BY <2>1, WorkersAreApart DEF SubTyped, JobsFit, Fits
<1>4. SUFFICES Goal
  BY DEF CopyLinked, LinkFits, PayFits, Copies
<1>5. ThenFits(j.row.payment, j.app)
  BY <1>0, <1>1 DEF CopyLinked
<1>6. Copies(j) => j.app \in App /\ sub'[j.app].status # "absent"
  BY <1>0, <1>2 DEF CopyLinked
<1>7. CASE GoesOn(w)
  <2>1. /\ Same(k, j) /\ k.pay = j.pay
        /\ k.at = "saving" => j.at = "saving" \/ j.pay # None
        /\ k.at = "activating" => j.at = "activating"
    BY <1>7 DEF GoesOn
  <2>2. PayFits(j) => ThenPaid
    BY <1>0, <2>1, PurposeStays DEF PayFits, Same
  <2> HIDE DEF j, k, ThenPaid, ThenFits
  <2> QED BY <1>0, <1>5, <1>6, <2>1, <2>2 DEF CopyLinked, Same, Copies
<1>8. CASE PaysNow(w)
  <2>1. PICK g \in Gateways : Pay(w, k.pay, g)
    BY <1>8 DEF PaysNow
  <2>2. Same(k, j) /\ k.at = "awaitingForm" /\ k.pay \in Payment /\ k.pay # None
    BY <1>8, NoneIsNothing DEF PaysNow
  <2>3. status[k.pay] = "absent" /\ status'[k.pay] # "absent"
    BY <1>0, <2>1, <2>2 DEF Pay, CreatePayment, SubTyped, FundsInv, TypeOK
  <2>4. purpose'[k.pay].op = j.op /\ purpose'[k.pay].app = j.app
    BY <1>0, <2>1, <2>2 DEF Pay, SubTyped, SubTypeOK
  <2>5. k.pay # j.row.payment
    BY <1>0, <2>2, <2>3 DEF CopyLinked, LinkFits
  <2>6. ThenPaid
    BY <2>2, <2>3, <2>4, <2>5 DEF Same
  <2> HIDE DEF j, k, ThenPaid, ThenFits
  <2> QED BY <1>0, <1>5, <1>6, <2>2, <2>6 DEF CopyLinked, Same, Copies
<1>9. CASE Blank(k)
  <2>1. w \in Handler => k.pay = None
    BY <1>3, <1>9 DEF Blank
  <2> HIDE DEF j, k
  <2> QED BY <1>9, <2>1 DEF Blank, Copies, NoRow
<1>10. ASSUME NEW a \in App, k.app = a, sub' = sub, k.pay = None \/ k.op = "verify",
              k.row.status # "absent" /\ LinkFits(k.row.payment, a),
              k.op # "purchase" => ~k.new,
              k.op = "purchase" => (k.new <=> k.row.payment = None),
              ~k.new => sub[a].status # "absent",
              k.row.status = "PENDING_PAYMENT" => IF k.op = "purchase" THEN k.at # "saving" ELSE k.row.payment # None
       PROVE  Goal
  <2>1. ThenFits(k.row.payment, k.app)
    BY <1>1, <1>10
  <2>2. w \in Handler => k.pay = None
    BY <1>3, <1>10
  <2> HIDE DEF ThenFits, k
  <2> QED BY <1>10, <2>1, <2>2 DEF Copies
<1>11. ASSUME NEW a \in App PROVE sub[a] \in Row /\ RowLinked(a)
  BY <1>0, <1>11 DEF LinksInv, SubTyped, SubTypeOK
<1> HIDE DEF j, k, Goal
<1>12. ASSUME NEW a \in App, k.app = a, sub' = sub, CopiedFrom(k, a) PROVE Goal
  BY <1>10, <1>11, <1>12 DEF CopiedFrom, RowLinked
<1>13. ASSUME NEW a \in App, k.app = a, sub' = sub, BoughtFrom(k, a) PROVE Goal
  <2>1. PICK trial, auto \in BOOLEAN :
          k.row = PurchasedRow(a, trial, auto) /\ k.at = IF trial THEN "saving" ELSE "paying"
    BY <1>13 DEF BoughtFrom
  <2>2. /\ k.row.status = IF trial THEN "TRIAL" ELSE IF a \in PaidApp THEN "PENDING_PAYMENT" ELSE "ACTIVE"
        /\ k.row.payment = IF sub[a].status = "PENDING_PAYMENT" THEN sub[a].payment ELSE None
    BY <2>1 DEF PurchasedRow
  <2>3. LinkFits(k.row.payment, a)
    BY <1>11, <2>2 DEF RowLinked, LinkFits
  <2>4. k.op = "purchase" /\ k.new = (sub[a].status # "PENDING_PAYMENT") /\ k.pay = None
    BY <1>13 DEF BoughtFrom
  <2>5. k.row.status = "PENDING_PAYMENT" => k.at # "saving"
    BY <2>1, <2>2
  <2> QED BY <1>10, <1>11, <1>13, <2>2, <2>3, <2>4, <2>5 DEF RowLinked
<1>14. ASSUME NEW a \in App, k.app = a, sub' = sub, VerifiedFrom(k, a) PROVE Goal
  <2>1. LinkFits(k.row.payment, a)
    BY <1>0, <1>14, FundedExists DEF VerifiedFrom, LinkFits, SubTyped, FundsInv
  <2> QED BY <1>10, <1>14, <2>1 DEF VerifiedFrom
<1> QED BY <1>0, <1>7, <1>8, <1>9, <1>12, <1>13, <1>14, CopiesMove DEF k

LEMMA LinksInvNext == LinksInv /\ [SubNext]_allVars => LinksInv'
<1> SUFFICES ASSUME LinksInv, [SubNext]_allVars PROVE LinksInv'
  OBVIOUS
<1>1. SubTyped'
  BY SubTypedNext DEF LinksInv
<1> QED BY <1>1, RowLinkedNext, CopyLinkedNext DEF LinksInv

\* A copy that names a payment has named it before, or has just taken it from the row.
LEMMA PaymentCopied ==
  ASSUME SubTyped, [SubNext]_allVars, NEW w \in Worker, NEW p \in Payment, job'[w].row.payment = p
  PROVE  \/ job'[w].app = job[w].app /\ job[w].row.payment = p
         \/ sub' = sub /\ job'[w].app \in App /\ sub[job'[w].app].payment = p
<1>1. ASSUME NEW a \in App, BoughtFrom(job'[w], a) PROVE sub[a].payment = p
  <2>1. PICK trial, auto \in BOOLEAN : job'[w].row = PurchasedRow(a, trial, auto)
    BY <1>1 DEF BoughtFrom
  <2> QED BY <2>1, NoneIsNothing DEF PurchasedRow
<1>2. ~Blank(job'[w])
  BY NoneIsNothing DEF Blank, NoRow
<1> QED BY <1>1, <1>2, CopiesMove DEF GoesOn, PaysNow, Same, CopiedFrom, VerifiedFrom

\* A copy of a stored row was one before, or has just been made.
LEMMA CopyTaken ==
  ASSUME SubTyped, [SubNext]_allVars, NEW w \in Worker, Copies(job'[w])
  PROVE  \/ Same(job'[w], job[w]) /\ Copies(job[w])
         \/ /\ sub' = sub /\ job'[w].app \in App
            /\ job'[w].row.payment = sub[job'[w].app].payment
<1>1. ASSUME NEW a \in App, BoughtFrom(job'[w], a) PROVE job'[w].row.payment = sub[a].payment
  <2>1. PICK trial, auto \in BOOLEAN : job'[w].row = PurchasedRow(a, trial, auto)
    BY <1>1 DEF BoughtFrom
  <2>2. sub[a].status = "PENDING_PAYMENT"
    <3>1. job'[w].new = (sub[a].status # "PENDING_PAYMENT") /\ ~job'[w].new
      BY <1>1 DEF BoughtFrom, Copies
    <3> QED BY <3>1, Zenon
  <2> QED BY <2>1, <2>2 DEF PurchasedRow
<1>2. ~Blank(job'[w])
  BY DEF Blank, NoRow, Copies
<1> QED BY <1>1, <1>2, CopiesMove DEF GoesOn, PaysNow, Same, CopiedFrom, VerifiedFrom, Copies

\* A purchase has stored its row when it has saved it.
LEMMA StoredBySaving ==
  ASSUME SubTyped, [SubNext]_allVars, NEW h \in Handler, NEW p \in Payment, Stored(job'[h], p)
  PROVE  /\ job[h].op = "purchase" /\ job[h].pay = p
         /\ Stored(job[h], p) \/ SaveSubscription(h)
<1>1. h \in Worker /\ p # None
  BY NoneIsNothing DEF Worker
<1>2. GoesOn(h)
  BY <1>1, CopiesMove DEF Stored, PaysNow, Blank, CopiedFrom, BoughtFrom, VerifiedFrom
<1> QED BY <1>2 DEF GoesOn, Same, Granting, Stored

LEMMA SoleBefore ==
  ASSUME SubTyped, [SubNext]_allVars, NEW p \in Payment, Sole(p)'
  PROVE  \/ status[p] # "absent" /\ purpose'[p] = purpose[p] /\ Sole(p)
         \/ status[p] = "absent" /\ form'[p] = "initiating" /\ sub' = sub
<1>1. \A q \in Payment : status[q] = "absent" => purpose[q] = NoPurpose
  BY DEF SubTyped, PurposesFit
<1>2. purpose[p].op = "purchase" => purpose[p].app \in App
  BY DEF SubTyped, PurposesFit
<1>3. CASE purpose'[p] = purpose[p]
  <2>1. purpose[p].op = "purchase" /\ \A q \in Payment \ {p} : purpose'[q].app # purpose[p].app
    BY <1>3 DEF Sole
  <2>2. status[p] # "absent"
    BY <1>1, <2>1 DEF NoPurpose
  <2>3. ASSUME NEW q \in Payment \ {p} PROVE purpose[q].app # purpose[p].app
    BY <1>1, <1>2, <2>1, PurposeStays, NoneIsNoApp DEF NoPurpose
  <2> QED BY <1>3, <2>1, <2>2, <2>3 DEF Sole
<1> QED BY <1>3, PurposeStays

\* While no other payment is started for the app, its row goes on pointing to this one.
LEMMA LinkKept ==
  ASSUME ShownInv, [SubNext]_allVars, NEW p \in Payment, Sole(p), NEW a \in App,
         a = purpose[p].app, sub[a].payment = p
  PROVE  sub'[a].payment = p
<1>0. LinksInv /\ SubTyped /\ sub[a] \in Row /\ RowLinked(a) /\ SoleLinked(p)
  BY DEF ShownInv, LinksInv, SubTyped, SubTypeOK
<1>1. sub[a].status # "absent"
  BY <1>0, NoneIsNothing DEF RowLinked
<1>2. \A w \in Worker : job[w].app = a /\ Copies(job[w]) => job[w].row.payment = p
  BY <1>0 DEF SoleLinked
<1>3. CASE sub'[a] = [sub[a] EXCEPT !.status = "EXPIRED"]
  BY <1>0, <1>3 DEF Row
<1>4. ASSUME NEW h \in Handler, SaveSubscription(h), job[h].app = a, sub'[a] = SavedRow(job[h])
      PROVE  sub'[a].payment = p
  <2>1. ~job[h].new /\ h \in Worker
    BY <1>1, <1>4 DEF SaveSubscription, Worker
  <2>2. /\ job[h].row.status # "absent" /\ PayFits(job[h])
        /\ job[h].pay = None => sub'[a].payment = job[h].row.payment
    BY <1>0, <1>4, SavedLinks
  <2>3. job[h].row.payment = p
    BY <1>2, <1>4, <2>1, <2>2 DEF Copies
  <2>4. job[h].pay = None
    BY <1>4, <2>2, <2>3 DEF PayFits, Sole
  <2> QED BY <2>2, <2>3, <2>4
<1>5. ASSUME NEW r \in Request, ActivateSubscription(r), job[r].app = a, sub'[a] = job[r].row
      PROVE  sub'[a].payment = p
  <2>1. r \in Worker /\ job[r].at = "activating"
    BY <1>5 DEF ActivateSubscription, Worker
  <2>2. Copies(job[r])
    BY <1>0, <2>1 DEF LinksInv, CopyLinked, SubTyped, JobsFit, Fits, Copies
  <2> QED BY <1>2, <1>5, <2>1, <2>2
<1> QED BY <1>0, <1>3, <1>4, <1>5, RowsMove

LEMMA SoleLinkedNext ==
  ASSUME ShownInv, [SubNext]_allVars, NEW p \in Payment, Sole(p)'
  PROVE  SoleLinked(p)'
<1> DEFINE a == purpose[p].app
           b == purpose'[p].app
           Shown == form'[p] = "offered" \/ (\E h \in Handler : Stored(job'[h], p)) => sub'[b].payment = p
           Named == \A w \in Worker : job'[w].app = b /\ job'[w].row.payment = p => sub'[b].payment = p
           Copied == sub'[b].payment = p =>
                       \A w \in Worker : job'[w].app = b /\ Copies(job'[w]) => job'[w].row.payment = p
<1>0. LinksInv /\ SubTyped /\ SubTyped' /\ p # None
  BY SubTypedNext, NoneIsNothing DEF ShownInv, LinksInv
<1>1. SUFFICES Shown /\ Named /\ Copied
  BY DEF SoleLinked, Copies, Stored
<1>2. b \in App
  BY <1>0 DEF Sole, SubTyped, PurposesFit
<1>3. ASSUME NEW w \in Worker PROVE CopyLinked(w, job[w]) /\ (w \in Handler => PayFits(job[w]))
  BY <1>0 DEF LinksInv, CopyLinked
<1>4. RowLinked(b)
  BY <1>0, <1>2 DEF LinksInv
<1>5. CASE status[p] = "absent" /\ form'[p] = "initiating" /\ sub' = sub
  <2>1. \A w \in Worker : job[w].row.payment # p
    BY <1>0, <1>3, <1>5 DEF CopyLinked, LinkFits
  <2>2. \A c \in App : sub[c].payment # p
    BY <1>0, <1>5 DEF LinksInv, RowLinked, LinkFits
  <2>3. \A h \in Handler : ~Stored(job'[h], p)
    BY <1>0, <1>3, <1>5, StoredBySaving DEF PayFits, Worker
  <2>4. \A w \in Worker : job'[w].row.payment # p
    BY <1>0, <2>1, <2>2, PaymentCopied
  <2> QED BY <1>2, <1>5, <2>2, <2>3, <2>4
<1>6. CASE status[p] # "absent" /\ purpose'[p] = purpose[p] /\ Sole(p)
  <2>0. SoleLinked(p) /\ a = b /\ a \in App
    BY <1>2, <1>6 DEF ShownInv
  <2>1. sub[a].payment = p => sub'[a].payment = p
    BY <1>6, <2>0, LinkKept
  <2>2. ASSUME NEW h \in Handler, job[h].pay = p PROVE job[h].op = "purchase" /\ job[h].app = a
    BY <1>0, <1>3, <1>6, <2>2 DEF PayFits, Sole, Worker
  <2>3. ASSUME NEW h \in Handler, job[h].pay = p, SaveSubscription(h) PROVE sub'[a].payment = p
    <3>1. SavedRow(job[h]).payment = p
      BY <1>0, <2>2, <2>3, SavedLinks
    <3>2. sub' = [sub EXCEPT ![a] = SavedRow(job[h])]
      BY <2>2, <2>3 DEF SaveSubscription
    <3> QED BY <1>0, <2>0, <3>1, <3>2 DEF SubTyped, SubTypeOK
  <2>4. ASSUME NEW h \in Handler, Stored(job[h], p) PROVE sub'[a].payment = p
    BY <2>0, <2>1, <2>4 DEF SoleLinked
  <2>5. Shown
    <3>1. CASE form[p] = "offered"
      BY <2>0, <2>1, <3>1 DEF SoleLinked
    <3>2. CASE form'[p] = "offered" /\ form[p] # "offered"
      <4>1. PICK h \in Handler : /\ job[h].pay = p
                                 /\ job[h].op = "purchase" => SaveSubscription(h) \/ Granting(job[h])
        BY <1>0, <3>2, FormMoves
      <4> QED BY <2>0, <2>2, <2>3, <2>4, <4>1 DEF Granting, Stored
    <3>3. ASSUME NEW h \in Handler, Stored(job'[h], p) PROVE sub'[a].payment = p
      BY <1>0, <2>3, <2>4, <3>3, StoredBySaving
    <3> QED BY <2>0, <3>1, <3>2, <3>3
  <2>6. \A w \in Worker : job[w].app = a /\ job[w].row.payment = p => sub[a].payment = p
    BY <2>0 DEF SoleLinked
  <2>7. Named
    BY <1>0, <2>0, <2>1, <2>6, PaymentCopied
  <2>8. ASSUME sub[a].payment # p, sub'[a].payment = p, NEW w \in Worker, job[w].app = a, Copies(job[w])
        PROVE  FALSE
    <3>0. sub[a] \in Row /\ sub[a].status # "absent"
      BY <1>0, <1>3, <2>0, <2>8 DEF CopyLinked, SubTyped, SubTypeOK
    <3>1. CASE sub'[a] = [sub[a] EXCEPT !.status = "EXPIRED"]
      BY <2>8, <3>0, <3>1 DEF Row
    <3>2. ASSUME NEW h \in Handler, SaveSubscription(h), job[h].app = a, sub'[a] = SavedRow(job[h])
          PROVE  FALSE
      <4>1. ~job[h].new /\ h \in Worker
        BY <3>0, <3>2 DEF SaveSubscription, Worker
      <4>2. sub'[a].payment \in {job[h].row.payment, job[h].pay}
        BY <1>0, <3>2, SavedLinks
      <4>3. job[h].row.payment # p
        BY <2>6, <2>8, <3>2, <4>1
      <4>4. job[h].pay = p /\ job[h].op = "purchase"
        BY <2>2, <2>8, <4>2, <4>3
      <4>5. job[h].row.payment \in Payment /\ purpose[job[h].row.payment].app = a
        BY <1>3, <3>2, <4>1, <4>4 DEF CopyLinked, LinkFits
      <4> QED BY <1>6, <4>3, <4>5 DEF Sole
    <3>3. ASSUME NEW r \in Request, job[r].app = a, sub'[a] = job[r].row PROVE FALSE
      BY <2>6, <2>8, <3>3 DEF Worker
    <3> QED BY <1>0, <2>0, <2>8, <3>1, <3>2, <3>3, RowsMove
  <2>9. Copied
    <3> SUFFICES ASSUME sub'[a].payment = p, NEW w \in Worker, job'[w].app = a, Copies(job'[w])
                 PROVE  job'[w].row.payment = p
      BY <2>0
    <3>1. CASE sub' = sub /\ job'[w].row.payment = sub[a].payment
      BY <3>1
    <3>2. CASE Same(job'[w], job[w]) /\ Copies(job[w])
      <4>1. job[w].app = a /\ job'[w].row = job[w].row
        BY <3>2 DEF Same
      <4>2. sub[a].payment = p
        BY <2>8, <3>2, <4>1
      <4> QED BY <2>0, <3>2, <4>1, <4>2 DEF SoleLinked
    <3> QED BY <1>0, <3>1, <3>2, CopyTaken
  <2> QED BY <2>5, <2>7, <2>9
<1> QED BY <1>0, <1>5, <1>6, SoleBefore

LEMMA ShownInvNext == ShownInv /\ [SubNext]_allVars => ShownInv'
<1> SUFFICES ASSUME ShownInv, [SubNext]_allVars PROVE ShownInv'
  OBVIOUS
<1>1. LinksInv'
  BY LinksInvNext DEF ShownInv
<1> QED BY <1>1, SoleLinkedNext DEF ShownInv

\* A customer who is shown the form of a purchase finds it booked: unless a payment for
\* the same app is started elsewhere, the row points to this one when the form is shown
\* and ever after, through scheduler runs, restarts and stale saves.
THEOREM ShownPurchasesStayLinked == SubSpec => []ShownPurchaseIsLinked
<1>1. ASSUME SubInit PROVE ShownInv
  <2>1. SubTyped
    BY <1>1, SubTypedInit
  <2>2. (\A a \in App : RowLinked(a)) /\ \A w \in Worker : CopyLinked(w, job[w])
    BY <1>1 DEF SubInit, RowLinked, CopyLinked, LinkFits, PayFits, Copies, NoRow, Idle
  <2>3. \A p \in Payment : ~Sole(p)
    BY <1>1 DEF SubInit, Sole, NoPurpose
  <2> QED BY <2>1, <2>2, <2>3 DEF ShownInv, LinksInv
<1>2. ShownInv => ShownPurchaseIsLinked
  BY DEF ShownInv, Sole, SoleLinked, ShownPurchaseIsLinked
<1> QED BY <1>1, <1>2, ShownInvNext, PTL DEF SubSpec
=============================================================================
