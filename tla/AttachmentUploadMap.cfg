CONSTANTS
    Parts = 3
    Rcpt = {r1}
    Wild = {}
    Known = {r1}
SPECIFICATION Spec
INVARIANTS
    PartsKeepTheirFiles
CHECK_DEADLOCK FALSE
