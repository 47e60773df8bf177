SPECIFICATION Spec
CONSTANTS
    Members = {m1}
    Books = {b1}
    Loans = {r1, r2}
    Limit = 2
    BorrowLimit <- SameLimit
    LoanDays = 1
    FinePerDay = 5
    BlockOnPendingFines = TRUE
    MaxDay = 4
    MaxCopies = 1
SYMMETRY Interchangeable
INVARIANTS StatusFilterExact
