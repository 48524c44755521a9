---------------------------- MODULE MCProofIssuance ----------------------------
(***************************************************************************)
(* Instances of ProofIssuance for TLC.                                     *)
(***************************************************************************)
EXTENDS ProofIssuance, TLC

EveryoneEligible == [i \in Intents |-> Principals]
One == [i \in Intents |-> 1]

Symmetry ==
    Permutations(Sessions) \cup Permutations(Proofs) \cup Permutations(Keys)
    \cup Permutations(EvidenceIds) \cup Permutations(Principals)
=============================================================================
