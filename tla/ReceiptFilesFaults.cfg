CONSTANTS
    v1 = v1
    v2 = v2
    d1 = d1
    b = b
    u = u
    c = c
    Uploader = {u}
    Discarder = {c}
    Last = 2
    Verifier = {v1, v2}
    Deleter = {d1}
    Mover = {b}
    MaxFaults = 2
SYMMETRY Symmetry
SPECIFICATION Spec
CHECK_DEADLOCK FALSE
INVARIANTS
    TypeOK
    PhotosSurvive
    VerifiedIsPermanent
    RowFindsPhotos
    NothingLeft
