SPECIFICATION FairSpec
CONSTANTS
    s1 = s1
    s2 = s2
    e1 = e1
    e2 = e2
    j1 = j1
    j2 = j2
    Sources = {s1, s2}
    Rank <- MCRank
    Engines = {e1, e2}
    Jobs = {j1, j2}
    None = None
    Limit = 2
    IfOk <- MCOff
    Interval <- MCOff
    IfError = 0
    Timeout = 1
    MaxAge = 2
    EditsEnabled = FALSE
    ImportsEnabled = FALSE
    CLIEnabled = FALSE
PROPERTIES
    AbandonedRecovered
