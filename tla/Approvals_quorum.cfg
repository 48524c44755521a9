\* Two approvals at once, two required.
SPECIFICATION Spec
CONSTANTS
    requester = requester  governed = governed  free = free
    Sessions = {s1, s2}
    Intents = {governed, free}
    Principals = {alice, bob, requester}
    Eligible <- EligibleApprovers
    RequiredCount <- TwoForGoverned
    Ttl <- NeverExpires
    MaxTime = 0
    NoPrincipal = NoPrincipal
SYMMETRY Symmetry
INVARIANTS
    QuorumSatisfies
CHECK_DEADLOCK FALSE
