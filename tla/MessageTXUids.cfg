CONSTANTS
    c1 = c1
    c2 = c2
    inA = inA
    sentA = sentA
    inB = inB
    m1 = m1
    m2 = m2
    m3 = m3
    m4 = m4
    NoMail = NoMail
    NoBox = NoBox
    NoThread = NoThread
    NoSubject = ""
    Client = {c1, c2}
    Outbound = {m1}
    Mail <- MCMail
    Mailbox <- MCMailbox
    AddressOf <- MCAddressOf
    Rcpt <- MCRcpt
    Headers <- MCHeaders
    Refs <- MCRefs
    Subject <- MCSubject
SPECIFICATION Spec
INVARIANTS
    UniqueUids
CHECK_DEADLOCK FALSE
