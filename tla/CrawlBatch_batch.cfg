SPECIFICATION Spec
CONSTANTS
    s1 = s1
    s2 = s2
    s3 = s3
    Sources = {s1, s2, s3}
    N = 2
    MaxSources = 1
    None = None
    RefillEarly = TRUE
    NetLingers = TRUE
    MaxStatus = 2
SYMMETRY MCSymmetry
CHECK_DEADLOCK FALSE
INVARIANTS
    TypeOK
    OnePlace
    ReloadWaitsForJobs
    
PROPERTIES
    NothingDropped
