CONSTANTS
    m1 = m1
    m2 = m2
    milk = milk
    noname = noname
    Model = {m1, m2}
    Chosen = m1
    Empty = Empty
    Invalid = Invalid
    Unreadable = Unreadable
    Imageless = Imageless
    MaxPhotos = 3
    egg = egg
    Value = {milk, egg, noname}
    Nameless = {noname}
    Reading <- MCReading
    RetryLimit = 3
SPECIFICATION FairSpec
CHECK_DEADLOCK FALSE
INVARIANTS
    TypeOK
    NothingLost
    ShowsEveryPhoto
PROPERTIES
    RequestEnds
