SPECIFICATION Spec
CONSTANTS
    Jobs = {q1}
    MaxRunning = 1
    MaxTries = 2
    MaxFaults = 3
    Env = {"cancel", "crash", "shutdown", "timeout", "db", "redis", "api"}
INVARIANTS
    TypeOK
    DeliveredJobIsRecorded
    CompletedJobHasAnswer
    SettledAgreement
    NoStrandedMessage
PROPERTIES
    ReplyAgreesWithMessage
    CancelBeforeStartHolds
