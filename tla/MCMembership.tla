---------------------------- MODULE MCMembership ----------------------------
EXTENDS Membership, TLC

MCLevel == [r \in Custom |-> 3]
MCManager == {"owner", "admin"}
MCCalls == Permutations(Call)
=============================================================================
