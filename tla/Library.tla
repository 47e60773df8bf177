------------------------------ MODULE Library ------------------------------
(***************************************************************************)
(* The circulation desk of LibraryHub: what the services of               *)
(* borrowing/services.py and books/services.py promise.  Every service is  *)
(* one atomic action here; LoanService.tla cuts the same services into the *)
(* database steps they really take and is shown to implement this module.  *)
(*                                                                         *)
(* One variable per column the rules depend on.  Titles, notes, reasons,   *)
(* timestamps and the like are left out; money is counted in cents and     *)
(* dates are day numbers.                                                  *)
(***************************************************************************)
EXTENDS Integers, FiniteSets

CONSTANTS
    Members,              \* users with role MEMBER
    Books,                \* primary keys a title can get
    Loans,                \* primary keys a BorrowRecord can get
    BorrowLimit,          \* MemberProfile.max_borrow_limit of each member
    LoanDays,             \* settings.LIBRARY_LOAN_DAYS
    FinePerDay,           \* settings.LIBRARY_FINE_PER_DAY, in cents
    BlockOnPendingFines,  \* settings.LIBRARY_BLOCK_BORROW_ON_PENDING_FINES
    MaxDay,               \* bound: the last day of the calendar
    MaxCopies             \* bound: the largest total_copies a client sends

ASSUME LoansAssumption == IsFiniteSet(Loans)
ASSUME SettingsAssumption ==
    /\ BorrowLimit \in [Members -> Nat]
    /\ LoanDays \in Nat
    /\ FinePerDay \in Nat
    /\ BlockOnPendingFines \in BOOLEAN
    /\ MaxDay \in Nat
    /\ MaxCopies \in Nat

VARIABLES
    day,        \* timezone.localdate()
    shelf,      \* shelf[b]: has the Book row been created, or deleted
    total,      \* total[b]: Book.total_copies
    available,  \* available[b]: Book.available_copies
    eligible,   \* eligible[m]: is_active, email_verified and not deleted
    loan,       \* loan[r]: the BorrowRecord row
    fine        \* fine[r]: the Fine row of that record (one to one)

vars == <<day, shelf, total, available, eligible, loan, fine>>

OpenStatuses == {"BORROWED", "OVERDUE"}
ActiveStatuses == {"BORROWED", "OVERDUE", "LOST"}

Never == -1
NoLoan == [status |-> "NONE"]
NoFine == [status |-> "NONE"]
LoanRows == [status   : {"BORROWED", "OVERDUE", "LOST", "RETURNED"},
             member   : Members,
             book     : Books,
             due      : Nat,
             returned : Nat \cup {Never}]
FineRows == [status : {"PENDING", "PAID", "WAIVED"}, amount : Nat]

TypeOK ==
    /\ day \in Nat
    /\ shelf \in [Books -> {"absent", "listed", "deleted"}]
    /\ total \in [Books -> Nat]
    /\ available \in [Books -> Nat]
    /\ eligible \in [Members -> BOOLEAN]
    /\ loan \in [Loans -> LoanRows \cup {NoLoan}]
    /\ fine \in [Loans -> FineRows \cup {NoFine}]

-----------------------------------------------------------------------------
(***************************************************************************)
(* Questions the services ask of the tables.                               *)
(***************************************************************************)
Exists(r) == loan[r].status # "NONE"

LoansOf(b) == {r \in Loans : Exists(r) /\ loan[r].book = b}

ActiveOf(b) ==
    {r \in Loans : loan[r].status \in ActiveStatuses /\ loan[r].book = b}

OpenOf(m) ==
    {r \in Loans : loan[r].status \in OpenStatuses /\ loan[r].member = m}

HasActive(m, b) == \E r \in ActiveOf(b) : loan[r].member = m

HasPendingFines(m) ==
    \E r \in Loans : /\ fine[r].status = "PENDING"
                     /\ Exists(r)
                     /\ loan[r].member = m

\* Mutation variant: any record past its due date is promoted.
PastDue_AnyStatus(r) == Exists(r) /\ loan[r].due < day

PastDue(r) == loan[r].status = "BORROWED" /\ loan[r].due < day

\* Mutation variant: the due date itself is charged.
FineAmount_CountsDueDay(due, on) ==
    IF on >= due THEN FinePerDay * (on - due + 1) ELSE 0

FineAmount(due, on) == IF on > due THEN FinePerDay * (on - due) ELSE 0

\* The Fine that get_or_create leaves behind: none when nothing is owed, the
\* existing one when there is one.
FineOnReturn(r, due, on) ==
    IF FineAmount(due, on) > 0 /\ fine[r] = NoFine
    THEN [status |-> "PENDING", amount |-> FineAmount(due, on)]
    ELSE fine[r]

\* The record once it is settled.
ReturnedRow(r) == [loan[r] EXCEPT !.status = "RETURNED", !.returned = day]

-----------------------------------------------------------------------------
Init ==
    /\ day = 0
    /\ shelf = [b \in Books |-> "absent"]
    /\ total = [b \in Books |-> 0]
    /\ available = [b \in Books |-> 0]
    /\ eligible = [m \in Members |-> FALSE]
    /\ loan = [r \in Loans |-> NoLoan]
    /\ fine = [r \in Loans |-> NoFine]

\* Midnight passes.
NextDay ==
    /\ day < MaxDay
    /\ day' = day + 1
    /\ UNCHANGED <<shelf, total, available, eligible, loan, fine>>

\* A member is verified, activated, deactivated, soft-deleted or restored.
AccountChange(m) ==
    /\ eligible' = [eligible EXCEPT ![m] = ~@]
    /\ UNCHANGED <<day, shelf, total, available, loan, fine>>

CreateBook(b, n) ==
    /\ shelf[b] = "absent"
    /\ shelf' = [shelf EXCEPT ![b] = "listed"]
    /\ total' = [total EXCEPT ![b] = n]
    /\ available' = [available EXCEPT ![b] = n]
    /\ UNCHANGED <<day, eligible, loan, fine>>

\* A PUT or PATCH that carries total_copies; one that does not leaves these
\* columns alone.
UpdateBook(b, n) ==
    /\ shelf[b] = "listed"
    /\ n >= Cardinality(ActiveOf(b))
    /\ total' = [total EXCEPT ![b] = n]
    /\ available' = [available EXCEPT ![b] = n - Cardinality(ActiveOf(b))]
    /\ UNCHANGED <<day, shelf, eligible, loan, fine>>

\* Mutation variant: only unsettled records protect their title.
DeleteBook_OnlyActive(b) ==
    /\ shelf[b] = "listed"
    /\ ActiveOf(b) = {}
    /\ shelf' = [shelf EXCEPT ![b] = "deleted"]
    /\ UNCHANGED <<day, total, available, eligible, loan, fine>>

\* on_delete=PROTECT: any record, returned ones included, keeps the title.
DeleteBook(b) ==
    /\ shelf[b] = "listed"
    /\ LoansOf(b) = {}
    /\ shelf' = [shelf EXCEPT ![b] = "deleted"]
    /\ UNCHANGED <<day, total, available, eligible, loan, fine>>

\* Mutation variants: the limit test is off by one; the test for an active
\* loan of the same title, or the test for stock, is gone.
BorrowChecks_LimitOffByOne(m, b) ==
    /\ eligible[m]
    /\ ~(BlockOnPendingFines /\ HasPendingFines(m))
    /\ Cardinality(OpenOf(m)) <= BorrowLimit[m]
    /\ shelf[b] = "listed"
    /\ available[b] >= 1
    /\ ~HasActive(m, b)

BorrowChecks_NoDuplicateTest(m, b) ==
    /\ eligible[m]
    /\ ~(BlockOnPendingFines /\ HasPendingFines(m))
    /\ Cardinality(OpenOf(m)) < BorrowLimit[m]
    /\ shelf[b] = "listed"
    /\ available[b] >= 1

BorrowChecks_NoStockTest(m, b) ==
    /\ eligible[m]
    /\ ~(BlockOnPendingFines /\ HasPendingFines(m))
    /\ Cardinality(OpenOf(m)) < BorrowLimit[m]
    /\ shelf[b] = "listed"
    /\ ~HasActive(m, b)

\* The conditions under which a member may take a title home.
BorrowChecks(m, b) ==
    /\ eligible[m]
    /\ ~(BlockOnPendingFines /\ HasPendingFines(m))
    /\ Cardinality(OpenOf(m)) < BorrowLimit[m]
    /\ shelf[b] = "listed"
    /\ available[b] >= 1
    /\ ~HasActive(m, b)

Borrow(m, b, r) ==
    /\ loan[r] = NoLoan
    /\ BorrowChecks(m, b)
    /\ loan' = [loan EXCEPT ![r] = [status   |-> "BORROWED",
                                    member   |-> m,
                                    book     |-> b,
                                    due      |-> day + LoanDays,
                                    returned |-> Never]]
    /\ available' = [available EXCEPT ![b] = @ - 1]
    /\ UNCHANGED <<day, shelf, total, eligible, fine>>

\* Mutation variant: the copy is not put back on the shelf.
Return_ForgetsStock(r) ==
    /\ loan[r].status \in OpenStatuses
    /\ loan' = [loan EXCEPT ![r] = ReturnedRow(r)]
    /\ fine' = [fine EXCEPT ![r] = FineOnReturn(r, loan[r].due, day)]
    /\ UNCHANGED <<day, shelf, total, available, eligible>>

\* Mutation variant: the copy is put back without looking at total_copies.
Return_NoIntegrityTest(r) ==
    /\ loan[r].status \in OpenStatuses
    /\ loan' = [loan EXCEPT ![r] = ReturnedRow(r)]
    /\ available' = [available EXCEPT ![loan[r].book] = @ + 1]
    /\ fine' = [fine EXCEPT ![r] = FineOnReturn(r, loan[r].due, day)]
    /\ UNCHANGED <<day, shelf, total, eligible>>

\* return_book: the copy goes back on the shelf and lateness is charged.
Return(r) ==
    /\ loan[r].status \in OpenStatuses
    /\ available[loan[r].book] < total[loan[r].book]
    /\ loan' = [loan EXCEPT ![r] = ReturnedRow(r)]
    /\ available' = [available EXCEPT ![loan[r].book] = @ + 1]
    /\ fine' = [fine EXCEPT ![r] = FineOnReturn(r, loan[r].due, day)]
    /\ UNCHANGED <<day, shelf, total, eligible>>

\* Mutation variant: a lost copy is put back on the shelf at once.
MarkLost_RestoresStock(r) ==
    /\ loan[r].status \in OpenStatuses
    /\ loan' = [loan EXCEPT ![r].status = "LOST"]
    /\ available' = [available EXCEPT ![loan[r].book] = @ + 1]
    /\ UNCHANGED <<day, shelf, total, eligible, fine>>

MarkLost(r) ==
    /\ loan[r].status \in OpenStatuses
    /\ loan' = [loan EXCEPT ![r].status = "LOST"]
    /\ UNCHANGED <<day, shelf, total, available, eligible, fine>>

\* resolve_lost: close a LOST record, putting a found copy back on the shelf.
ResolveLost(r, restore) ==
    /\ loan[r].status = "LOST"
    /\ restore => available[loan[r].book] < total[loan[r].book]
    /\ loan' = [loan EXCEPT ![r] = ReturnedRow(r)]
    /\ available' = [available EXCEPT ![loan[r].book] = IF restore THEN @ + 1 ELSE @]
    /\ UNCHANGED <<day, shelf, total, eligible, fine>>

PayFine(r) ==
    /\ fine[r].status = "PENDING"
    /\ fine' = [fine EXCEPT ![r].status = "PAID"]
    /\ UNCHANGED <<day, shelf, total, available, eligible, loan>>

\* The sync_overdue command promotes past-due BORROWED rows.  Which of them it
\* sees depends on its snapshot, so the promise is about any set of them.
SyncOverdue(S) ==
    /\ S # {}
    /\ \A r \in S : PastDue(r)
    /\ loan' = [r \in Loans |->
                  IF r \in S THEN [loan[r] EXCEPT !.status = "OVERDUE"] ELSE loan[r]]
    /\ UNCHANGED <<day, shelf, total, available, eligible, fine>>

Next ==
    \/ NextDay
    \/ \E m \in Members : AccountChange(m)
    \/ \E b \in Books, n \in 0..MaxCopies : CreateBook(b, n)
    \/ \E b \in Books, n \in 0..MaxCopies : UpdateBook(b, n)
    \/ \E b \in Books : DeleteBook(b)
    \/ \E m \in Members, b \in Books, r \in Loans : Borrow(m, b, r)
    \/ \E r \in Loans : Return(r)
    \/ \E r \in Loans : MarkLost(r)
    \/ \E r \in Loans, restore \in BOOLEAN : ResolveLost(r, restore)
    \/ \E r \in Loans : PayFine(r)
    \/ \E S \in SUBSET Loans : SyncOverdue(S)

Spec == Init /\ [][Next]_vars

-----------------------------------------------------------------------------
(***************************************************************************)
(* What the desk must never get wrong.                                     *)
(***************************************************************************)

\* Copies that are on the shelf or out on an unsettled record.
Circulating(b) == available[b] + Cardinality(ActiveOf(b))

\* No copy is promised twice: shelf stock and unsettled records of a title
\* never add up to more than its total_copies.  A return or a restore can then
\* never raise InventoryIntegrityError (borrowing/services.py 215 and 310), and
\* update_book's max(.., 0) never clips.
StockCovered == \A b \in Books : Circulating(b) <= total[b]

\* No member holds more open loans than max_borrow_limit, whatever the order of
\* borrowing, losing, resolving and promoting records (services.py 125).
LimitRespected == \A m \in Members : Cardinality(OpenOf(m)) <= BorrowLimit[m]

\* A member has one unsettled record of a title at most, LOST ones included:
\* unique_active_borrow_per_member_book (borrowing/models.py 55) never has to
\* refuse what the service accepted.
OneActivePerTitle ==
    \A b \in Books : \A r, s \in ActiveOf(b) :
        loan[r].member = loan[s].member => r = s

\* A fine exists only for a loan that came back late, for the very number of
\* days it was late; a lost, open or punctual loan owes nothing
\* (services.py 222-235).
FinesSound ==
    \A r \in Loans : fine[r] # NoFine =>
        /\ loan[r].status = "RETURNED"
        /\ loan[r].returned > loan[r].due
        /\ fine[r].amount = FineAmount(loan[r].due, loan[r].returned)
        /\ fine[r].amount > 0

\* A record refers to a title that is still there (on_delete=PROTECT,
\* borrowing/models.py 31): no interleaving of delete and borrow orphans one.
TitlesKept == \A r \in Loans : Exists(r) => shelf[loan[r].book] = "listed"

\* The only ways a record may move.  RETURNED is final, LOST never reopens, no
\* record disappears, and who borrowed what until when is never rewritten
\* (the early returns of return_book, mark_borrow_lost and resolve_lost).
Moves == {<<"NONE", "BORROWED">>, <<"BORROWED", "OVERDUE">>,
          <<"BORROWED", "LOST">>, <<"OVERDUE", "LOST">>, <<"LOST", "RETURNED">>,
          <<"BORROWED", "RETURNED">>, <<"OVERDUE", "RETURNED">>}

LifecycleStep ==
    \A r \in Loans : loan'[r] # loan[r] =>
        /\ <<loan[r].status, loan'[r].status>> \in Moves
        /\ Exists(r) => /\ loan'[r].member = loan[r].member
                        /\ loan'[r].book = loan[r].book
                        /\ loan'[r].due = loan[r].due

LoanLifecycle == [][LifecycleStep]_vars

\* Copies are neither made nor mislaid by circulation: the number circulating
\* of a title moves only when an edit sets it to total_copies, when the title
\* is created, or by one when a lost copy is written off.
ConservationStep ==
    \A b \in Books : Circulating(b)' # Circulating(b) =>
        \/ loan' = loan /\ Circulating(b)' = total'[b]
        \/ /\ Circulating(b)' = Circulating(b) - 1
           /\ \E r \in Loans : /\ loan[r].status = "LOST"
                              /\ loan[r].book = b
                              /\ loan'[r].status = "RETURNED"

CopiesConserved == [][ConservationStep]_vars

\* What resolve_lost's docstring says of the default (services.py 279):
\* "write-off - stock stays reduced".  So an edit that keeps total_copies
\* should not bring written-off copies back into circulation.
WriteOffStaysReduced ==
    [][\A b \in Books :
         shelf[b] = "listed" /\ total'[b] = total[b]
            => Circulating(b)' <= Circulating(b)]_vars

\* The tables keep a lending desk's promise: copies circulate on the shelf and on
\* unsettled records, LOST ones included, and a record is settled by RETURNED.
\* It is what stock, records and their statuses mean together, across every
\* service (borrow_book, return_book, mark_borrow_lost, resolve_lost,
\* create_book, update_book, sync_overdue).
Promise == INSTANCE Lending WITH
    copies  <- [b \in Books |-> Circulating(b)],
    out     <- [b \in Books |-> ActiveOf(b)],
    settled <- {r \in Loans : loan[r].status = "RETURNED"}

KeepsPromise == Promise!Spec
=============================================================================
