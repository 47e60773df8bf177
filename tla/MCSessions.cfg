SPECIFICATION SessionSpec
CONSTANTS
    Workers = {w1, w2}
    MaxTokens = 2
    Emails = {e1}
    Registered = e1
    MaxChanges = 1
    MaxLogins = 0
    MaxLinks = 1
SYMMETRY Interchangeable
CHECK_DEADLOCK FALSE
INVARIANTS OldSessionsEnd
