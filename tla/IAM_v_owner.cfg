SPECIFICATION Spec
CONSTANTS
    e1 = e1
    e2 = e2
    e3 = e3
    f1 = f1
    f2 = f2
    r1 = r1
    r2 = r2
    r3 = r3
    r4 = r4
    Requests = {r1, r2}
    Users = {1, 2}
    Invitations = {1, 2}
    Codes = {1, 2}
    Sessions = {1, 2}
    Emails = {e1, e2, e3}
    Phones = {f1, f2}
    Commands <- JustBlock
    InitTables <- Early
    NoPhone = NoPhone
    None = None
SYMMETRY Interchangeable
INVARIANTS AnOwnerIsActive
CHECK_DEADLOCK FALSE
