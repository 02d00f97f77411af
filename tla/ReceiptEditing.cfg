CONSTANTS
    r1 = r1
    r2 = r2
    e1 = e1
    e2 = e2
    a1 = a1
    a2 = a2
    a3 = a3
    user = user
    admin = admin
    milk = milk
    latte = latte
    shop = shop
    k1 = k1
    k2 = k2
    dairy = dairy
    drink = drink
    Receipt = {r1, r2}
    Editor = {e1, e2}
    Analysis = {a1, a2, a3}
    Bypass = {a3}
    User = {user, admin}
    SeeAll = {admin}
    Text = {milk, latte}
    Merchant = {shop}
    Key = {k1, k2}
    Blank = Blank
    Category = {Unknown, dairy, drink}
    Unknown = Unknown
    NoAlias = NoAlias
    NoNote = NoNote
    Untouched = Untouched
    Unset = Unset
    NoUser = NoUser
    NoId = NoId
    None = None
    Item = {1, 2, 3, 4, 5, 6}
    Target <- MCTarget
    Owner <- MCOwner
    By <- MCBy
    Fold <- MCFold
    Body <- MCBody
    Extraction <- MCExtraction
SPECIFICATION FairSpec
CHECK_DEADLOCK FALSE
INVARIANTS
    TypeOK
PROPERTIES
    ImplementsBook
    RequestsEnd
