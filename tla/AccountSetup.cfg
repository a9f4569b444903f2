CONSTANTS
    w1 = w1
    w2 = w2
    r1 = r1
    r2 = r2
    NoWorker = NoWorker
    Worker = {w1, w2}
    Request = {r1, r2}
    Username = {"root", "bob"}
    SuperAdmin = "root"
    NameOf <- MCNameOf
    NewRole <- MCNewRole
    Names <- MCNames
    MaxFailures = 1
SPECIFICATION Spec
INVARIANTS
    AccountsWhole
    SuccessMeansStored
    DefaultsOnce
PROPERTIES
    WorkersStart
CHECK_DEADLOCK FALSE
