CONSTANTS
    c1 = c1
    c2 = c2
    t1 = t1
    t2 = t2
    i1 = i1
    alice = alice
    bob = bob
    inA = inA
    sentA = sentA
    inB = inB
    NoBox = NoBox
    Owner <- MCOwner
    Conn = {c1}
    User = {alice, bob}
    Mailbox = {inA, inB}
    Copy = {i1}
    BoxOf <- MCBoxOf
    Outgoing = {i1}
    Tag = {t1, t2}
    Pipeline <- Overlapping
    Lossy = TRUE
SPECIFICATION Spec
INVARIANTS
    OwnMailboxesOnly
    SelectedIsUsable
PROPERTIES
    CommandsEnd
    ClosingEnds
CHECK_DEADLOCK FALSE
