SPECIFICATION FairSpec
CONSTANTS
    a = a
    b = b
    c = c
    d = d
    None = None
    Links = {a, b, c, d}
    Home = a
    LinksOn <- MCLinksOn
    Skipped = {}
    Workers = 3
    HTTPHeaders = FALSE
    MaxLinks = 3
    MaxDepth = 0
CHECK_DEADLOCK FALSE
INVARIANTS
    TypeOK
    PagesBounded
    PageRepeats
    

    
