CONSTANTS
    m1 = m1
    m2 = m2
    m3 = m3
    Run = {1}
    Model = {m1, m2, m3}
    Receipt = {1}
    NoTask = NoTask
    Repeating = {}
    Lease = 1
    BaseDelay = 1
    MaxDelay = 2
    MaxTries = 1
    HoldBound = 1
    MaxFaults = 1
    MaxCrashes = 1
    MaxOutages = 1
SPECIFICATION FairSpec
INVARIANTS
    TypeOK
    AccountsBalance
    TasksKeepReceipts
PROPERTIES
    ImplementsLedger
    QueuedIsTried
    RunningIsReleased
    RunWithModelsCompletes
