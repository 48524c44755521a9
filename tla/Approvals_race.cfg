\* Three sessions decide on one request, two approvals required.
SPECIFICATION Spec
CONSTANTS
    requester = requester  governed = governed  free = free
    Sessions = {s1, s2, s3}
    Intents = {governed, free}
    Principals = {alice, bob, carol, requester}
    Eligible <- EligibleApprovers
    RequiredCount <- TwoForGoverned
    Ttl <- ExpiresAfterOne
    MaxTime = 2
    NoPrincipal = NoPrincipal
SYMMETRY Symmetry
INVARIANTS
    QuorumBehindSatisfied
PROPERTIES
    ImplementsBallot
CHECK_DEADLOCK FALSE
