------------------------------ MODULE MCApprovals ------------------------------
(***************************************************************************)
(* Instances of Approvals for TLC.                                         *)
(***************************************************************************)
EXTENDS Approvals, TLC

CONSTANTS requester, governed, free

\* The requester takes part and is not eligible.
EligibleApprovers == [i \in Intents |-> Principals \ {requester}]

\* One intent needs two approvals, the other none.
TwoForGoverned == [i \in Intents |-> IF i = governed THEN 2 ELSE 0]

ExpiresAfterOne == [i \in Intents |-> 1]
NeverExpires == [i \in Intents |-> 0]

Symmetry == Permutations(Sessions) \cup Permutations(Principals \ {requester})
=============================================================================
