-------------------------- MODULE PaymentSettlement --------------------------
(***************************************************************************)
(* What the rest of the platform expects of a payment: it is decided once,  *)
(* it counts as paid only with money behind it, and what was bought is      *)
(* handed over at most once.  Payments implements this when calls of        *)
(* verifyPayment do not overlap.                                            *)
(***************************************************************************)
EXTENDS Naturals

CONSTANT Payment

VARIABLES
  outcome,   \* "open", then "paid" or "lost" for good
  money,     \* the payments with money behind them, their own or, where the
             \* gateway is asked about another's, that payment's
  handOvers  \* how often the purchase was handed over

vars == <<outcome, money, handOvers>>

Init ==
  /\ outcome = [p \in Payment |-> "open"]
  /\ money = {}
  /\ handOvers = [p \in Payment |-> 0]

\* Money may stand behind several payments at once.
MoneyArrives ==
  /\ \E S \in SUBSET Payment : money' = money \cup S
  /\ UNCHANGED <<outcome, handOvers>>

Decide(p, o) ==
  /\ outcome[p] = "open"
  /\ o = "paid" => p \in money
  /\ outcome' = [outcome EXCEPT ![p] = o]
  /\ UNCHANGED <<money, handOvers>>

HandOver(p) ==
  /\ outcome[p] = "paid"
  /\ handOvers[p] = 0
  /\ handOvers' = [handOvers EXCEPT ![p] = 1]
  /\ UNCHANGED <<outcome, money>>

Next ==
  \/ MoneyArrives
  \/ \E p \in Payment : HandOver(p) \/ \E o \in {"paid", "lost"} : Decide(p, o)

Spec == Init /\ [][Next]_vars

\* A paid purchase is handed over in the end.
FairSpec == Spec /\ \A p \in Payment : WF_vars(HandOver(p))
=============================================================================
