CONSTANTS
    i1 = i1
    i2 = i2
    loop = loop
    manual = manual
    Image = {i1, i2}
    Runner = {loop}
    Loop = loop
    NoImage = NoImage
    Multi = {i2}
    Bypass = {}
    Lease = 1
    HoldBound = 1
    MaxFailures = 2
    MaxDeletes = 0
SPECIFICATION FairSpec
PROPERTIES
    PendingIsAttempted
    ProcessingIsReleased
    UploadSettles
