\* Publications of one issuer overlap the changes of its standing.
SPECIFICATION Spec
CONSTANTS
    Issuers = {i1}
    Sessions = {s1, s2, s3}
    Publications = {p1, p2}
    TTL = 1
    MaxVersion = 3
    MaxTime = 2
    NoIssuer = NoIssuer  NoSession = NoSession  NoPublication = NoPublication
SYMMETRY Symmetry
INVARIANTS
    AuditExplainsRecord PublishedInItsVersion EarlierStandingExpires AnswersCurrentStanding
PROPERTIES
    RevocationIsFinal
CHECK_DEADLOCK FALSE
