\* Three sessions race on one record.
SPECIFICATION Spec
CONSTANTS
    i1 = i1
    Sessions = {s1, s2, s3}
    Proofs = {p1}
    Intents = {i1}
    IntentOf <- SharedIntent
    ProofExpiry <- AllExpireAtOne
    Bindings = {b1, b2}
    Tokens = {t1, t2}
    Reported = {"result_observed"}
    ReleaseMode = "development_simulated"
    MaxTtl = 2
    MaxTime = 1
    NoProof = NoProof  NoBinding = NoBinding  NoToken = NoToken
SYMMETRY Symmetry
INVARIANTS
    SingleUse TokenReturnedOnce HistoryExplainsRecord SoleRecordMirrored HoldAsConfirmed
PROPERTIES
    DeadStaysDead ImplementsLedger
CHECK_DEADLOCK FALSE
