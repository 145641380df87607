--------------------------- MODULE MCTimeCounter ---------------------------
EXTENDS TimeCounter, TLC

Symmetry == Permutations(Callers)

=============================================================================
