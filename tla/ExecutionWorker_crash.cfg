\* One worker process that crashes and recovers.
SPECIFICATION WorkerFairSpec
CONSTANTS
    Clients = {c1}
    Workers = {w1}
    Jobs = {j1, j2}
    Keys = {k1, k2}
    MaxRetries = 1
    MaxCrashes = 2
    NoJob = NoJob  NoKey = NoKey
INVARIANTS
    AttemptBudget
    SuccessWasPerformed
PROPERTIES
    AnswerKept
    RunSettlesJob
CHECK_DEADLOCK FALSE
