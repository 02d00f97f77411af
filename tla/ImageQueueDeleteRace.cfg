CONSTANTS
    i1 = i1
    i2 = i2
    loop = loop
    manual = manual
    Image = {i1}
    Runner = {loop}
    Loop = loop
    NoImage = NoImage
    Multi = {}
    Bypass = {}
    Lease = 1
    HoldBound = 1
    MaxFailures = 0
    MaxDeletes = 0
SPECIFICATION Spec
PROPERTIES
    ActiveImagesAreKept
