SPECIFICATION Spec
CONSTANTS
    Agents = {a1}
    Kinds = {verify, refresh}
    Workers = {w1, w2}
    Callers = {c1}
    None = None
    MaxTasks = 3
    MaxPending = 1
    MaxCrashes = 0
    FailableOps = {"insert", "running", "thread", "finish", "unknown"}
    JoinTimeout = FALSE
SYMMETRY Symmetry
INVARIANTS
    NoOverlappingCommit
    InOnePlace
    DeferredHasWaker
    ExitLeavesNothing
