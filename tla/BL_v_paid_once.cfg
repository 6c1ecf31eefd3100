SPECIFICATION Spec
CONSTANTS
    Requests = {r1, r2}
    Invoices = {1, 2, 3}
    Plans = {starter, standard}
    Starter = starter
    Tenant = t1
    OwnerId = t1
    AutoPay = TRUE
    TrialLen = 1
    Month = 2
    MaxNow = 5
    MaxCrashes = 1
    None = None
PROPERTIES PaidOnce
CHECK_DEADLOCK FALSE
