------------------------------ MODULE MCLedger ------------------------------
EXTENDS Ledger, TLC

MCRests == {0, 1}

MCRows == Permutations(Call) \cup Permutations(Invoice)

\* A bulk receipt has no line on revenue and asks for no fiscal year, a closing reads nothing
\* else: the run takes them in separate histories.
Written(c) == {call[c].write.ent[id] : id \in DOMAIN call[c].write.ent}
Kinds == {entries[id].kind : id \in Id} \cup UNION {{e.kind : e \in Written(c)} : c \in Call}
Apart == "bulk" \notin Kinds \/ (~closed /\ \A c \in Call : ~Closing(c))

MCSpec == Init /\ [][Next /\ Apart']_vars
=============================================================================
