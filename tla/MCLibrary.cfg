SPECIFICATION Spec
CONSTANTS
    Members = {m1, m2}
    Books = {b1, b2}
    Loans = {r1, r2, r3}
    Limit = 1
    BorrowLimit <- SameLimit
    LoanDays = 0
    FinePerDay = 5
    BlockOnPendingFines = TRUE
    MaxDay = 2
    MaxCopies = 2
SYMMETRY Interchangeable
INVARIANTS TypeOK StockCovered LimitRespected OneActivePerTitle FinesSound TitlesKept ViewsAgree
PROPERTIES LoanLifecycle CopiesConserved KeepsPromise PromotionInvisible ChargedIffOverdue
