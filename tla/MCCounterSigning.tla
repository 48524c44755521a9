--------------------------- MODULE MCCounterSigning ---------------------------
EXTENDS CounterSigning, TLC

Symmetry == Permutations(Operators) \cup Permutations(Keys)
=============================================================================
