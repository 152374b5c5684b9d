----------------------------- MODULE MCQueryDB -----------------------------
EXTENDS QueryDB, TLC
Symmetry == Permutations(Reqs) \cup Permutations(Interrupters) \cup Permutations(QIDs)
=============================================================================
