\* Two sessions, one corruption of the tables.
SPECIFICATION Spec
CONSTANTS
    Sessions = {s1, s2}
    Digests = {d1, d2, d3}
    MerkleRoot <- RootOf
    MaxCorruptions = 1
    MaxFailures = 1
    NoSession = NoSession  NoDigest = NoDigest
SYMMETRY Symmetry
INVARIANTS
    IntactLogAudits FalseAlarmsOnlyAtBirth ServedProofsVerify
PROPERTIES
    CheckpointsExtend
CHECK_DEADLOCK FALSE
