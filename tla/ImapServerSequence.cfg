CONSTANTS
    c1 = c1
    c2 = c2
    t1 = t1
    t2 = t2
    i1 = i1
    alice = alice
    bob = bob
    inA = inA
    sentA = sentA
    inB = inB
    NoBox = NoBox
    Owner <- MCOwner
    Conn = {c1}
    User = {alice, bob}
    Mailbox = {inA, sentA, inB}
    Copy = {i1}
    BoxOf <- MCBoxOf
    Outgoing = {}
    Tag = {t1}
    Pipeline <- Sequential
    Lossy = FALSE
SPECIFICATION Spec
INVARIANTS
    SequenceIsMailbox
CHECK_DEADLOCK FALSE
