SPECIFICATION Spec
CONSTANTS
    NoDoc = NoDoc
    Docs = {d1}
    MaxRunning = 1
    MaxTries = 2
    MaxFaults = 2
    Env = {"delete", "cancel ingest", "cancel erase", "crash", "shutdown", "timeout", "db", "redis", "api", "index", "disk"}
INVARIANTS
    ReadyIsIndexed
PROPERTIES
    DeletionIsOrderly
    
