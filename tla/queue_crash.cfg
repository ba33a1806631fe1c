\* A failed roll-back leaves a task nobody will run: shutdown() then waits for ever.
SPECIFICATION Spec
CONSTANTS
    Agents = {a1}
    Kinds = {verify, refresh}
    Workers = {w1, w2}
    Callers = {c1, c2}
    None = None
    MaxTasks = 2
    MaxPending = 1
    MaxCrashes = 1
    FailableOps = {"insert", "thread", "finish", "unknown", "delete"}
    JoinTimeout = FALSE
SYMMETRY Symmetry
CHECK_DEADLOCK FALSE
INVARIANTS
    VerdictTruthful
    StartedAtMostOnce
    AcceptedNeverLost
PROPERTIES
    NoLateCommit
    ImplementsContract
