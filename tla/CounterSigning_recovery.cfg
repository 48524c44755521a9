\* The runbook of a compromised key: a revocation that overlaps a rotation.
SPECIFICATION Spec
CONSTANTS
    Operators = {o1, o2}
    Signers = {}
    Keys = {k1, k2}
    MaxTime = 1
    NoKey = NoKey  NoOperator = NoOperator
INVARIANTS
    RevocationStaysPublished
CHECK_DEADLOCK FALSE
