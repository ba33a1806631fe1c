\* One worker and two slots: a fetch may wait for a slot while another one is
\* queued behind a resolution whose caller has left or gone on.
SPECIFICATION FetchSpec
CONSTANTS
    Fetches = {f1, f2}
    Workers = {w1}
    Slots = 2
    RedirectLimit = 2
    Nobody = Nobody
CHECK_DEADLOCK FALSE
INVARIANTS
    NoTruncatedResult
    NothingLeft
    SlotsAreConserved
PROPERTIES
    FetchEnds
