--------------------------- MODULE MCIssuerRegistry ---------------------------
EXTENDS IssuerRegistry, TLC

Symmetry == Permutations(Sessions) \cup Permutations(Publications)
=============================================================================
