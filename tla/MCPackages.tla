----------------------------- MODULE MCPackages -----------------------------
EXTENDS Packages, TLC

CONSTANTS free, basic, platinum, moreUsers, anyUsers, anyRoles, chat

MCTier == [k \in Package |-> IF k = free THEN 1 ELSE IF k = basic THEN 2 ELSE 3]

Grants(users, roles, branches) ==
  ("users" :> users) @@ ("roles" :> roles) @@ ("branches" :> branches)

\* The seeded packages, scaled down.
MCBase ==
  [k \in Package |-> IF k = free THEN Grants(1, 0, 1)
                     ELSE IF k = basic THEN Grants(2, 1, 2) ELSE Grants(2, 2, 2)]

MCRaises == [f \in Feature |-> IF f = anyRoles THEN "roles" ELSE IF f = chat THEN "support" ELSE "users"]
MCValue == [f \in Feature |-> IF f = moreUsers THEN 2 ELSE Unlimited]

=============================================================================
