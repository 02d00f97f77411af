CONSTANTS
    m1 = m1
    m2 = m2
    m3 = m3
    Run = {1}
    Model = {m1}
    Receipt = {1}
    NoTask = NoTask
    Repeating = {}
    Lease = 1
    BaseDelay = 1
    MaxDelay = 1
    MaxTries = 0
    HoldBound = 1
    MaxFaults = 0
    MaxCrashes = 0
    MaxOutages = 1
SPECIFICATION FairSpec
PROPERTIES
    QueuedRunCompletes
