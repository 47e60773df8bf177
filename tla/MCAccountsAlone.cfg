SPECIFICATION AccountsSpec
CONSTANTS
    Users = {u1, u2, u3}
    Root = u1
    Emails = {e1, e2, e3}
    Workers = {w1}
SYMMETRY Interchangeable
CHECK_DEADLOCK FALSE
INVARIANTS AccountsTypeOK AdminRemains AddressProven
PROPERTIES RemovalLeavesAnAdmin
