SPECIFICATION Spec
CONSTANTS
    r1 = r1
    r2 = r2
    r3 = r3
    n1 = n1
    f1 = f1
    f2 = f2
    a1 = a1
    a2 = a2
    t0 = t0
    t1 = t1
    Requests = {r1, r2, r3}
    ClientIds = {1, 2}
    VehicleIds = {1, 2}
    ConsentIds = {1, 2, 3}
    Forms = {1}
    Names = {n1}
    Erased = Erased
    Phones = {f1, f2}
    Placeholder = Placeholder
    Makes = {a1, a2}
    Types = {t0, t1}
    Mandatory = t0
    Commands <- AllCommands
    InitTables <- Early
    None = None
SYMMETRY Interchangeable
PROPERTIES ForgottenGetsNothing
CHECK_DEADLOCK FALSE
