------------------------- MODULE MCAppSubscriptions -------------------------
(* Small organizations: one owner, everyone else an admin. *)
EXTENDS AppSubscriptions, TLC

CONSTANT Owner

MCRoleOf == [m \in Member |-> IF m = Owner THEN "owner" ELSE "admin"]

\* Payments are interchangeable, and so are the slots for calls.
MCSymmetry == Permutations(Payment) \cup Permutations(Handler)
=============================================================================
