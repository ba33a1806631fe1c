\* Runners get no fairness: each of them may hang for ever.
SPECIFICATION FairSpec
CONSTANTS
    Agents = {a1}
    Kinds = {verify, refresh}
    Workers = {w1, w2}
    Callers = {c1}
    None = None
    MaxTasks = 2
    MaxPending = 1
    MaxCrashes = 1
    FailableOps = {"thread", "finish", "unknown"}
    JoinTimeout = FALSE
PROPERTIES
    AcceptedGetsOutcome
    ShutdownReturns
