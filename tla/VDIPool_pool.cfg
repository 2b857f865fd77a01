SPECIFICATION FairSpec
CONSTANTS
    v1 = v1
    v2 = v2
    e1 = e1
    e2 = e2
    s1 = s1
    s2 = s2
    VDIs <- MCVDIs
    Names <- MCNames
    NameOf <- MCNameOf
    Config <- MCConfig
    EngineClients = {e1, e2}
    SeedClients = {s1, s2}
    EngineAllow = {}
    SeedAllowLists <- MCAllow
    NoLease = NoLease
    NoVDI = NoVDI
    MaxSlots = 6
INVARIANTS
    TypeOK
    LeaseTableConsistent
    NoLostWakeup
PROPERTIES
    LeaseEndsWithHolder
    
    ImplementsOwnership
