----------------------------- MODULE MCBIOutbox -----------------------------
EXTENDS BIOutbox, TLC
Symmetry == Permutations(Publishers)
=============================================================================
