SPECIFICATION SessionSpec
CONSTANTS
    Workers = {w1, w2}
    MaxTokens = 1
    Emails = {e1, e2}
    Registered = e1
    MaxChanges = 1
    MaxLogins = 0
    MaxLinks = 2
CHECK_DEADLOCK FALSE
PROPERTIES LinkGoodUntilReset
