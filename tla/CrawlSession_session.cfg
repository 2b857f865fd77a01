SPECIFICATION FairSpec
CONSTANTS
    c1 = c1
    c2 = c2
    p1 = p1
    v1 = v1
    None = None
    Crawls = {c1, c2}
    Pipelines = {p1}
    VDIs = {v1}
    MaxStatus = 2
CHECK_DEADLOCK FALSE
INVARIANTS
    TypeOK
    
    
    
PROPERTIES
    NoLateOutcome
    
