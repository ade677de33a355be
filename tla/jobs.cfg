SPECIFICATION EndingSpec
CONSTANTS
    MaxJobs = 2
    HistoryLimit = 1
    MaxItems = 2
INVARIANTS
    LiveIsActive
    OneScript
    JoinSafe
    SuccessIsReal
PROPERTIES
    JobsSettle
