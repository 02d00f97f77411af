CONSTANTS
    user = user
    admin = admin
    c1 = c1
    c2 = c2
    c3 = c3
    r1 = r1
    n1 = n1
    n2 = n2
    q1 = q1
    q2 = q2
    None = None
    User = {user, admin}
    Admin = {admin}
    Collection = {c1, c2, c3}
    Receipt = {r1}
    Owner <- MCOwner
    Name = {n1, n2}
    Request = {q1}
SPECIFICATION Spec
PROPERTIES
    ActivationSwitches
