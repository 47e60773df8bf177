SPECIFICATION ServiceSpec
CONSTANTS
    Workers = {w1, w2}
    Cron = cron
    Members = {m1}
    Books = {b1, b2}
    Loans = {r1, r2}
    Limit = 1
    BorrowLimit <- SameLimit
    LoanDays = 0
    FinePerDay = 5
    BlockOnPendingFines = TRUE
    MaxDay = 1
    MaxCopies = 1
SYMMETRY Interchangeable
PROPERTIES ImplementsLibrary
