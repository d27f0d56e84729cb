SPECIFICATION FairSpec
CONSTANTS
    Jobs = {q1, q2}
    MaxRunning = 1
    MaxTries = 3
    MaxFaults = 2
    Env = {"crash", "shutdown"}
PROPERTY
    AnswerSettles
