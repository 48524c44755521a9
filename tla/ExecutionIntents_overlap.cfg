SPECIFICATION FairSpec
CONSTANTS
    Requests = {r1, r2}
    Intents = {i1, i2}
    Mode <- ResourceOwned
    Registered = {i1}
    Malformed = {i1}
    Transitions <- Table
    MaxRequests = 6
    NoIntent = NoIntent
INVARIANTS
    OutcomeWasAuthorised
PROPERTY
    NonFinalIsReconciled
CHECK_DEADLOCK FALSE
