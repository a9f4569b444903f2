CONSTANTS
    Parts = 2
    Rcpt = {r1, w}
    Wild = {w}
    Known = {r1, w}
    Domain = {here}
    Local = here
    Retries = 2
SPECIFICATION RoundTripSpec
INVARIANTS
    HookAnsweredLast
    OkMeansWhole
    RecipientsServed
    ToldAsQueued
    OneVerdict
    CopiesAgree
    DeliveredMeansStored
PROPERTIES
    MailSettles
CHECK_DEADLOCK FALSE
