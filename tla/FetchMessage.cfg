CONSTANTS
    Symbol <- MCSymbol
    MaxInput = 4
    Typed <- MCTyped
    Mails <- MCMails
    Stored = {"raw", "decoded"}
SPECIFICATION Spec
INVARIANTS
    ParsedAsTyped
    LiteralAsAnnounced
    MailAsStored
PROPERTY FetchSettles
\* a command is parsed and answered once
CHECK_DEADLOCK FALSE
