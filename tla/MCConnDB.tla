------------------------------ MODULE MCConnDB ------------------------------
EXTENDS ConnDB, TLC
Symmetry == Permutations(Conns) \cup Permutations(IDs)
=============================================================================
