\* Two sessions race for one slot of one intent and renew its proof.
SPECIFICATION Spec
CONSTANTS
    Sessions = {s1, s2}
    Intents = {i1}
    Permitted = {i1}
    Scopes = {x1}
    Principals = {alice}
    Eligible <- EveryoneEligible
    RequiredCount <- One
    MinimumCount <- One
    EvidenceIds = {e1}
    Keys = {k1}
    Proofs = {p1, p2}
    MaxTtl = 1
    MaxTime = 2
    NoIntent = NoIntent  NoScope = NoScope  NoProof = NoProof  NoKey = NoKey
SYMMETRY Symmetry
INVARIANTS
    IssuedBehindQuorum EvidenceWasCurrent OneValidProof RequestedInFlight KeyWasActive
CHECK_DEADLOCK FALSE
