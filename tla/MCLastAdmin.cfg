SPECIFICATION AdminSpec
CONSTANTS
    Users = {u1, u2}
    Root = u1
    Emails = {e1, e2}
    Workers = {w1, w2}
SYMMETRY Interchangeable
CHECK_DEADLOCK FALSE
INVARIANTS AdminRemains
