SPECIFICATION Spec
CONSTANTS
    Runtimes = {r1, r2}
    Texts = {t1, t2}
    Enrollments = {e1}
    Requests = {q1}
    Calls = {c1}
    None = None
    MaxVersion = 3
    MaxRevision = 2
    MaxPending = 1
SYMMETRY Symmetry
INVARIANTS
    EndpointsMirror
    GrantBindsOnce
    ApprovedWhileGoverned
    
PROPERTIES
    ImplementsContract
CHECK_DEADLOCK FALSE
