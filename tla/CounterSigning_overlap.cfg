\* Two operators whose lifecycle operations overlap, and a signer.
SPECIFICATION Spec
CONSTANTS
    Operators = {o1, o2}
    Signers = {g1}
    Keys = {k1, k2}
    MaxTime = 2
    NoKey = NoKey  NoOperator = NoOperator
SYMMETRY Symmetry
INVARIANTS
    RevokedIsDisabled SignaturesPrecedeRevocation SignerWasPublished RevokedAtIsKept
CHECK_DEADLOCK FALSE
