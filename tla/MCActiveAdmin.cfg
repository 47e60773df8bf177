SPECIFICATION AccountsSpec
CONSTANTS
    Users = {u1, u2}
    Root = u1
    Emails = {e1, e2}
    Workers = {w1}
SYMMETRY Interchangeable
INVARIANTS ActiveAdminRemains
