------------------------------- MODULE MCEscrow -------------------------------
(***************************************************************************)
(* Instances of Escrow for TLC.                                            *)
(***************************************************************************)
EXTENDS Escrow, TLC

CONSTANTS i1

SharedIntent == [p \in Proofs |-> i1]
AllExpireAtOne == [p \in Proofs |-> 1]

\* No operator tells sessions, tokens or bindings apart.
Symmetry == Permutations(Sessions) \cup Permutations(Tokens) \cup Permutations(Bindings)
=============================================================================
