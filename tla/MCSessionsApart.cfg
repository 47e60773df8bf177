SPECIFICATION SessionSpec
CONSTANTS
    Workers = {w1, w2}
    MaxTokens = 2
    Emails = {e1}
    Registered = e1
    MaxChanges = 2
    MaxLogins = 1
    MaxLinks = 2
CHECK_DEADLOCK FALSE
INVARIANTS SessionTypeOK
PROPERTIES OldSessionsEndApart LinkResetsOnceApart
