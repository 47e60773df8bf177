SPECIFICATION Spec
CONSTANTS
    Members = {m1, m2}
    Books = {b1}
    Loans = {r1, r2}
    Limit = 1
    BorrowLimit <- SameLimit
    LoanDays = 1
    FinePerDay = 5
    BlockOnPendingFines = TRUE
    MaxDay = 3
    MaxCopies = 2
PROPERTIES WriteOffStaysReduced
