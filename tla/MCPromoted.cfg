SPECIFICATION RightsSpec
CONSTANTS
    Users = {u1, u2}
    Root = u1
    Emails = {e1, e2}
    Workers = {w1, w2}
    Records = {r1}
SYMMETRY Interchangeable
CHECK_DEADLOCK FALSE
PROPERTIES LentToMembers
