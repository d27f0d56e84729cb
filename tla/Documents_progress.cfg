SPECIFICATION FairSpec
CONSTANTS
    NoDoc = NoDoc
    Docs = {d1}
    MaxRunning = 1
    MaxTries = 3
    MaxFaults = 2
    Env = {"delete", "crash", "shutdown"}
PROPERTIES
    DeletionCompletes
