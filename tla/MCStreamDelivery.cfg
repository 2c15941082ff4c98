SPECIFICATION Spec
CHECK_DEADLOCK FALSE
CONSTANTS
    None = None
    Ids = {"a", "b"}
    MaxRetries = 1
    MaxEvents = 3
    Events <- MCEvents
INVARIANTS TypeOK StreamTellsMessage AccountsTell Released
PROPERTIES RequestEnds
