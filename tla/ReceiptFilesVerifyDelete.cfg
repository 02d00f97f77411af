CONSTANTS
    v1 = v1
    v2 = v2
    d1 = d1
    b = b
    u = u
    c = c
    Uploader = {u}
    Discarder = {}
    Last = 1
    Verifier = {v1}
    Deleter = {d1}
    Mover = {}
    MaxFaults = 0
SPECIFICATION Spec
CHECK_DEADLOCK FALSE
INVARIANTS
    DeletedLeavesNothing
