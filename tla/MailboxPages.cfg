CONSTANTS
    m1 = m1
    m2 = m2
    m3 = m3
    m4 = m4
    None = None
    Message = {m1, m2, m3, m4}
    Limits <- MCLimits
    MaxClock = 4
SYMMETRY MCSymmetry
SPECIFICATION Spec
INVARIANTS
    NothingSkipped
    FlagsRight
PROPERTIES
    BackAndForth
CHECK_DEADLOCK FALSE
