SPECIFICATION Spec
CONSTANTS
    Agents = {a1, a2}
    Merchants = {m1}
    Domains = {d1, d2}
    Runs = {r1}
    Claims = {c1}
    Top = 2
    None = None
    AtomicDomainWrites = TRUE
SYMMETRY Symmetry
INVARIANTS
    EvidenceIsOwn
    
    
    OneAgentPerMerchant

    
