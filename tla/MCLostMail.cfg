SPECIFICATION SessionSpec
CONSTANTS
    Workers = {w1}
    MaxTokens = 2
    Emails = {e1, e2}
    Registered = e1
    MaxChanges = 1
    MaxLogins = 0
    MaxLinks = 1
SYMMETRY Interchangeable
CHECK_DEADLOCK FALSE
INVARIANTS LinkArrives
