\* Two payloads, delivered at once and again, while a trace is read.
SPECIFICATION ReceiptsFairSpec
CONSTANTS
    p1 = p1  p2 = p2
    Sessions = {s1, s2}
    Readers = {t1}
    Payloads = {p1, p2}
    Claims <- TwoClaims
    Outcomes <- TwoOutcomes
    Links <- TwoLinks
    MaxFailures = 1
    None = None
INVARIANTS
    WholeIngestions TraceIsClosed
PROPERTIES
    EveryReceiptAcknowledged
CHECK_DEADLOCK FALSE
