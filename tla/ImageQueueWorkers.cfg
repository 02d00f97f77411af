CONSTANTS
    i1 = i1
    i2 = i2
    loop = loop
    manual = manual
    Image = {i1, i2}
    Runner = {loop, manual}
    Loop = loop
    NoImage = NoImage
    Multi = {i2}
    Bypass = {i1}
    Lease = 1
    HoldBound = 1
    MaxFailures = 1
    MaxDeletes = 1
SPECIFICATION Spec
INVARIANTS
    TypeOK
    ExclusiveAnalysis
    AnalyzedHasReceipt
    CycleNeverOverwrites
    TriggerNotLost
PROPERTIES
    SettledStays
    ImplementsLifecycle
