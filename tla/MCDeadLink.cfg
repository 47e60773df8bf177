SPECIFICATION SessionSpec
CONSTANTS
    Workers = {w1}
    MaxTokens = 2
    Emails = {e1}
    Registered = e1
    MaxChanges = 1
    MaxLogins = 0
    MaxLinks = 2
SYMMETRY Interchangeable
CHECK_DEADLOCK FALSE
INVARIANTS LinkStaysGood
