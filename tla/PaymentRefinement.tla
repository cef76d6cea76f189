-------------------------- MODULE PaymentRefinement --------------------------
(***************************************************************************)
(* Payments seen as PaymentSettlement.  The mapping forgets where the calls *)
(* of verifyPayment are; with at most one of them at a time every step of   *)
(* Payments is a step of the settlement or a stutter.                       *)
(***************************************************************************)
EXTENDS Payments

Outcome(s) ==
  IF s = "COMPLETED" THEN "paid" ELSE IF s = "FAILED" THEN "lost" ELSE "open"

\* The money that counts: what the gateway has, for Stripe and PayPal whoever paid
\* it, or ConnectIPS's unasked word.
Confirmed == {p \in Payment : Funded(p) \/ gateway[p] \in Unasked}

Settlement ==
  INSTANCE PaymentSettlement WITH
    outcome <- [p \in Payment |-> Outcome(status[p])],
    money <- Confirmed,
    handOvers <- deliveries

\* verifyPayment with no overlapping calls settles each payment once and hands
\* its purchase over at most once, with money behind it.
ImplementsSettlement == Settlement!Spec

\* The same with progress, for a process that is not restarted: a paid purchase
\* is handed over in the end.
ImplementsFairSettlement == Settlement!FairSpec
=============================================================================
