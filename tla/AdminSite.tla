----------------------------- MODULE AdminSite -----------------------------
(***************************************************************************)
(* Django's admin site beside the services of Library.tla.  A change form  *)
(* shows a row when it is opened and writes every column it shows when it  *)
(* is posted, whatever the services did in between; no service of the code *)
(* is called, only the constraints of the tables are tested.               *)
(***************************************************************************)
EXTENDS Library

VARIABLE form   \* the page an officer has open: one at a time is a bound

adminVars == <<vars, form>>

NoForm == [kind |-> "none"]

AdminInit == Init /\ form = NoForm

-----------------------------------------------------------------------------
Open(page) ==
    /\ form = NoForm
    /\ form' = page
    /\ UNCHANGED vars

OpenBook(b) ==
    /\ shelf[b] = "listed"
    /\ Open([kind |-> "book", key |-> b, total |-> total[b], available |-> available[b]])

OpenRecord(r) ==
    /\ Exists(r)
    /\ Open([kind |-> "record", key |-> r, row |-> loan[r], fine |-> fine[r]])

OpenNewRecord == Open([kind |-> "new"])

\* The page is left, or its post is refused.
Close ==
    /\ form # NoForm
    /\ form' = NoForm
    /\ UNCHANGED vars

-----------------------------------------------------------------------------
\* book_available_lte_total
FitsShelf(copies, stock) == stock <= copies

\* BookAdmin: the officer edits what is left out here, or total_copies; the
\* availability is posted as it was shown.
PostBook(n) ==
    /\ form.kind = "book"
    /\ shelf[form.key] = "listed"
    /\ FitsShelf(n, form.available)
    /\ total' = [total EXCEPT ![form.key] = n]
    /\ available' = [available EXCEPT ![form.key] = form.available]
    /\ form' = NoForm
    /\ UNCHANGED <<day, shelf, eligible, loan, fine>>

\* Mutation variant: the index leaves LOST records out.
UniqueActive_OpenOnly(r, row) ==
    row.status \in OpenStatuses =>
        \A s \in ActiveOf(row.book) \ {r} :
            loan[s].status \in OpenStatuses => loan[s].member # row.member

\* unique_active_borrow_per_member_book
UniqueActive(r, row) ==
    row.status \in ActiveStatuses =>
        \A s \in ActiveOf(row.book) \ {r} : loan[s].member # row.member

\* BorrowRecordAdmin with its FineInline: the officer edits the notes or the
\* status.  A fine that was not on the page is left alone; one that was is
\* posted as it was shown.
PostRecord(status) ==
    /\ form.kind = "record"
    /\ LET r == form.key
           row == [form.row EXCEPT !.status = status]
       IN  /\ UniqueActive(r, row)
           /\ loan' = [loan EXCEPT ![r] = row]
           /\ fine' = [fine EXCEPT ![r] =
                         IF form.fine = NoFine \/ @ = NoFine THEN @ ELSE form.fine]
    /\ form' = NoForm
    /\ UNCHANGED <<day, shelf, total, available, eligible>>

\* A record that is added moves no stock.
PostNewRecord(m, b, r) ==
    /\ form.kind = "new"
    /\ loan[r] = NoLoan
    /\ shelf[b] = "listed"
    /\ LET row == [status |-> "BORROWED", member |-> m, book |-> b,
                   due |-> day + LoanDays, returned |-> Never]
       IN  /\ UniqueActive(r, row)
           /\ loan' = [loan EXCEPT ![r] = row]
    /\ form' = NoForm
    /\ UNCHANGED <<day, shelf, total, available, eligible, fine>>

\* Mutation variant: on_delete=DO_NOTHING for the fine.
DeleteRecords_LeavesFines(S) ==
    /\ S # {} /\ \A r \in S : Exists(r)
    /\ loan' = [r \in Loans |-> IF r \in S THEN NoLoan ELSE loan[r]]
    /\ form' = IF form.kind = "record" /\ form.key \in S THEN NoForm ELSE form
    /\ UNCHANGED <<day, shelf, total, available, eligible, fine>>

\* "Delete selected records", or a user with all of theirs: on_delete=CASCADE takes
\* the fines along, and no copy goes back on the shelf.  A page of a record that
\* is gone cannot be posted.
DeleteRecords(S) ==
    /\ S # {} /\ \A r \in S : Exists(r)
    /\ loan' = [r \in Loans |-> IF r \in S THEN NoLoan ELSE loan[r]]
    /\ fine' = [r \in Loans |-> IF r \in S THEN NoFine ELSE fine[r]]
    /\ form' = IF form.kind = "record" /\ form.key \in S THEN NoForm ELSE form
    /\ UNCHANGED <<day, shelf, total, available, eligible>>

AdminNext ==
    \/ Next /\ UNCHANGED form
    \/ \E b \in Books : OpenBook(b)
    \/ \E r \in Loans : OpenRecord(r)
    \/ OpenNewRecord
    \/ Close
    \/ \E n \in 0..MaxCopies : PostBook(n)
    \/ \E status \in ActiveStatuses \cup {"RETURNED"} : PostRecord(status)
    \/ \E m \in Members, b \in Books, r \in Loans : PostNewRecord(m, b, r)
    \/ \E S \in SUBSET Loans : DeleteRecords(S)

AdminSiteSpec == AdminInit /\ [][AdminNext]_adminVars

-----------------------------------------------------------------------------
\* What is typed in at the admin site, early or late, the tables stay tables: as
\* in TypeOK, with no more copies on the shelf than there are (by the services'
\* own tests, borrowing/services.py 215 and 310, and by book_available_lte_total),
\* and a fine belongs to a record (borrowing/models.py 92-96).
AdminTypeOK ==
    /\ TypeOK
    /\ \A b \in Books : available[b] <= total[b]
    /\ \A r \in Loans : fine[r] # NoFine => Exists(r)

\* The services keep stock in order however the tables were left by the admin
\* site: a title whose copies are covered is upset by the post of a page only,
\* never by a borrow, a return, a lost copy, an edit or the calendar working on
\* rows that no service would have written (borrowing/services.py 108-338).
Covered(b) == Circulating(b) <= total[b]

UpsetStep == \A b \in Books : Covered(b) /\ ~Covered(b)' => form' # form

UpsetByFormsOnly == [][UpsetStep]_adminVars

\* And they move a record along its life only, from whatever state it was put in:
\* what returns a closed record to the open ones is a post, what removes one is
\* a deletion.
KeptStep ==
    \A r \in Loans : loan'[r] # loan[r] =>
        \/ form' # form
        \/ loan'[r] = NoLoan /\ fine'[r] = NoFine
        \/ /\ <<loan[r].status, loan'[r].status>> \in Moves
           /\ available'[loan'[r].book] <= total'[loan'[r].book]

ServicesKeepLifecycle == [][KeptStep]_adminVars
=============================================================================
