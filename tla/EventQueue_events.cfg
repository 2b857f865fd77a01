SPECIFICATION FairSpec
CONSTANTS
    a = a
    b = b
    None = None
    Events = {a, b}
    Refused = {b}
    Workers = {w1, w2}
    Listeners = 1
    Handlers = 1
    ApiCap = 1
    QueueCap = 1
    MaxPosts <- MCPosts
    MaxUnanswered = 1
    MaxCatchUps = 1
INVARIANTS TypeOK AckedHeld StoredOnce HandledAsAnnounced
PROPERTIES  WorkerFreed PipelineDrains
