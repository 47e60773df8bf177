SPECIFICATION AdminSiteSpec
CONSTANTS
    Members = {m1, m2}
    Books = {b1}
    Loans = {r1, r2}
    Limit = 1
    BorrowLimit <- SameLimit
    LoanDays = 0
    FinePerDay = 5
    BlockOnPendingFines = TRUE
    MaxDay = 1
    MaxCopies = 2
SYMMETRY Interchangeable
INVARIANTS AdminTypeOK OneActivePerTitle
PROPERTIES UpsetByFormsOnly ServicesKeepLifecycle
