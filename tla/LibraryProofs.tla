--------------------------- MODULE LibraryProofs ---------------------------
(***************************************************************************)
(* Proofs about the atomic services of Library.tla, for every set of       *)
(* members, titles and records and every setting: its invariants, and that *)
(* it implements Lending.tla.                                              *)
(***************************************************************************)
EXTENDS Library, FiniteSetTheorems, TLAPS

-----------------------------------------------------------------------------
(***************************************************************************)
(* Rows.                                                                   *)
(***************************************************************************)

\* A record with a status other than NONE is a complete row.
LEMMA ExistingRow ==
    ASSUME TypeOK, NEW r \in Loans, loan[r].status # "NONE"
    PROVE  loan[r] \in LoanRows
BY DEF TypeOK, NoLoan

LEMMA ExistingFine ==
    ASSUME TypeOK, NEW r \in Loans, fine[r].status # "NONE"
    PROVE  fine[r] \in FineRows
BY DEF TypeOK, NoFine

LEMMA ReturnedRowType ==
    ASSUME TypeOK, NEW r \in Loans, loan[r] \in LoanRows
    PROVE  ReturnedRow(r) \in LoanRows
BY DEF TypeOK, ReturnedRow, LoanRows

LEMMA FineAmountNat ==
    ASSUME NEW due \in Nat, NEW on \in Nat
    PROVE  FineAmount(due, on) \in Nat
<1>1. FinePerDay \in Nat
    BY SettingsAssumption
<1>2. CASE on > due
    <2>1. on - due \in Nat
        BY <1>2
    <2>2. FinePerDay * (on - due) \in Nat
        BY <1>1, <2>1
    <2> QED BY <1>2, <2>2 DEF FineAmount
<1>3. CASE ~(on > due)
    BY <1>3 DEF FineAmount
<1> QED BY <1>2, <1>3

LEMMA FineOnReturnType ==
    ASSUME TypeOK, NEW r \in Loans, NEW due \in Nat
    PROVE  FineOnReturn(r, due, day) \in FineRows \cup {NoFine}
<1>1. FineAmount(due, day) \in Nat
    BY FineAmountNat DEF TypeOK
<1> QED BY <1>1 DEF TypeOK, FineOnReturn, FineRows

-----------------------------------------------------------------------------
(***************************************************************************)
(* Type correctness.                                                       *)
(***************************************************************************)

\* No service, and no passing of time, leaves the types.
LEMMA TypeStep ==
    ASSUME TypeOK, [Next]_vars
    PROVE  TypeOK'
<1> USE SettingsAssumption
<1>1. CASE NextDay
    BY <1>1 DEF NextDay, TypeOK
<1>2. ASSUME NEW m \in Members, AccountChange(m) PROVE TypeOK'
    BY <1>2 DEF AccountChange, TypeOK
<1>3. ASSUME NEW b \in Books, NEW n \in 0..MaxCopies, CreateBook(b, n)
      PROVE TypeOK'
    BY <1>3 DEF CreateBook, TypeOK
<1>4. ASSUME NEW b \in Books, NEW n \in 0..MaxCopies, UpdateBook(b, n)
      PROVE TypeOK'
    <2>1. Cardinality(ActiveOf(b)) \in Nat
        BY LoansAssumption, FS_Subset, FS_CardinalityType DEF ActiveOf
    <2> QED BY <1>4, <2>1 DEF UpdateBook, TypeOK
<1>5. ASSUME NEW b \in Books, DeleteBook(b) PROVE TypeOK'
    BY <1>5 DEF DeleteBook, TypeOK
<1>6. ASSUME NEW m \in Members, NEW b \in Books, NEW r \in Loans, Borrow(m, b, r)
      PROVE TypeOK'
    BY <1>6 DEF Borrow, BorrowChecks, TypeOK, LoanRows
<1>7. ASSUME NEW r \in Loans, Return(r) PROVE TypeOK'
    <2>1. loan[r] \in LoanRows
        BY <1>7, ExistingRow DEF Return, OpenStatuses
    <2>2. FineOnReturn(r, loan[r].due, day) \in FineRows \cup {NoFine}
        BY <2>1, FineOnReturnType DEF LoanRows
    <2>3. ReturnedRow(r) \in LoanRows
        BY <2>1, ReturnedRowType
    <2> QED BY <1>7, <2>1, <2>2, <2>3 DEF Return, TypeOK, LoanRows
<1>8. ASSUME NEW r \in Loans, MarkLost(r) PROVE TypeOK'
    <2>1. loan[r] \in LoanRows
        BY <1>8, ExistingRow DEF MarkLost, OpenStatuses
    <2> QED BY <1>8, <2>1 DEF MarkLost, TypeOK, LoanRows
<1>9. ASSUME NEW r \in Loans, NEW restore \in BOOLEAN, ResolveLost(r, restore)
      PROVE TypeOK'
    <2>1. loan[r] \in LoanRows
        BY <1>9, ExistingRow DEF ResolveLost
    <2>2. ReturnedRow(r) \in LoanRows
        BY <2>1, ReturnedRowType
    <2> QED BY <1>9, <2>1, <2>2 DEF ResolveLost, TypeOK, LoanRows
<1>10. ASSUME NEW r \in Loans, PayFine(r) PROVE TypeOK'
    <2>1. fine[r] \in FineRows
        BY <1>10, ExistingFine DEF PayFine
    <2> QED BY <1>10, <2>1 DEF PayFine, TypeOK, FineRows
<1>11. ASSUME NEW S \in SUBSET Loans, SyncOverdue(S) PROVE TypeOK'
    <2>1. \A r \in S : loan[r] \in LoanRows
        BY <1>11, ExistingRow DEF SyncOverdue, PastDue
    <2> QED BY <1>11, <2>1 DEF SyncOverdue, TypeOK, LoanRows
<1>12. CASE UNCHANGED vars
    BY <1>12 DEF vars, TypeOK
<1> QED BY <1>1, <1>2, <1>3, <1>4, <1>5, <1>6, <1>7, <1>8, <1>9, <1>10,
           <1>11, <1>12 DEF Next

\* Every reachable state of the services is well typed; in particular
\* available_copies never goes below zero (the PositiveIntegerField of
\* books/models.py 100).
THEOREM TypeCorrect == Spec => []TypeOK
<1>1. Init => TypeOK
    BY DEF Init, TypeOK
<1>2. TypeOK /\ [Next]_vars => TypeOK'
    BY TypeStep
<1> QED BY <1>1, <1>2, PTL DEF Spec

-----------------------------------------------------------------------------
(***************************************************************************)
(* Counting records.  Every service but sync_overdue changes one record.   *)
(***************************************************************************)

\* Two finite sets that differ in at most one element.
LEMMA OneApart ==
    ASSUME NEW S, NEW T, NEW x, IsFiniteSet(S), S \ {x} = T \ {x}
    PROVE  /\ IsFiniteSet(T)
           /\ Cardinality(S) \in Nat
           /\ Cardinality(T) \in Nat
           /\ x \in S /\ x \notin T => Cardinality(T) = Cardinality(S) - 1
           /\ x \notin S /\ x \in T => Cardinality(T) = Cardinality(S) + 1
           /\ (x \in S <=> x \in T) => T = S
<1>1. CASE x \in S <=> x \in T
    <2>1. T = S
        BY <1>1
    <2> QED BY <2>1, FS_CardinalityType
<1>2. CASE x \in S /\ x \notin T
    <2>1. T = S \ {x}
        BY <1>2
    <2> QED BY <1>2, <2>1, FS_RemoveElement, FS_CardinalityType
<1>3. CASE x \notin S /\ x \in T
    <2>1. T = S \cup {x}
        BY <1>3
    <2> QED BY <1>3, <2>1, FS_AddElement, FS_CardinalityType
<1> QED BY <1>1, <1>2, <1>3

LEMMA ActiveFinite == ASSUME NEW b \in Books
                      PROVE  /\ IsFiniteSet(ActiveOf(b))
                             /\ Cardinality(ActiveOf(b)) \in Nat
BY LoansAssumption, FS_Subset, FS_CardinalityType DEF ActiveOf

LEMMA OpenFinite == ASSUME NEW m \in Members
                    PROVE  /\ IsFiniteSet(OpenOf(m))
                           /\ Cardinality(OpenOf(m)) \in Nat
BY LoansAssumption, FS_Subset, FS_CardinalityType DEF OpenOf

\* A step that touches one record moves it in or out of the active records of
\* each title, and of the open records of each member, and nothing else.
LEMMA OneRecordActive ==
    ASSUME TypeOK, NEW r \in Loans, NEW row \in LoanRows, NEW b \in Books,
           loan' = [loan EXCEPT ![r] = row]
    PROVE  /\ ActiveOf(b) \ {r} = ActiveOf(b)' \ {r}
           /\ r \in ActiveOf(b) <=> loan[r].status \in ActiveStatuses /\ loan[r].book = b
           /\ r \in ActiveOf(b)' <=> row.status \in ActiveStatuses /\ row.book = b
<1>1. /\ loan'[r] = row
      /\ \A s \in Loans \ {r} : loan'[s] = loan[s]
    BY DEF TypeOK
<1> QED BY <1>1 DEF ActiveOf

LEMMA OneRecordOpen ==
    ASSUME TypeOK, NEW r \in Loans, NEW row \in LoanRows, NEW m \in Members,
           loan' = [loan EXCEPT ![r] = row]
    PROVE  /\ OpenOf(m) \ {r} = OpenOf(m)' \ {r}
           /\ r \in OpenOf(m) <=> loan[r].status \in OpenStatuses /\ loan[r].member = m
           /\ r \in OpenOf(m)' <=> row.status \in OpenStatuses /\ row.member = m
<1>1. /\ loan'[r] = row
      /\ \A s \in Loans \ {r} : loan'[s] = loan[s]
    BY DEF TypeOK
<1> QED BY <1>1 DEF OpenOf

\* sync_overdue changes many records at once but moves none of them in or out.
LEMMA SyncKeepsSets ==
    ASSUME TypeOK, NEW S \in SUBSET Loans, SyncOverdue(S)
    PROVE  /\ \A b \in Books : ActiveOf(b)' = ActiveOf(b)
           /\ \A m \in Members : OpenOf(m)' = OpenOf(m)
<1>1. \A r \in S : loan[r] \in LoanRows /\ loan[r].status = "BORROWED"
    BY ExistingRow DEF SyncOverdue, PastDue
<1>2. \A r \in S : /\ loan'[r].status = "OVERDUE"
                   /\ loan'[r].book = loan[r].book
                   /\ loan'[r].member = loan[r].member
    BY <1>1 DEF SyncOverdue, LoanRows
<1>3. \A r \in Loans \ S : loan'[r] = loan[r]
    BY DEF SyncOverdue
<1>4. ASSUME NEW b \in Books PROVE ActiveOf(b)' = ActiveOf(b)
    BY <1>1, <1>2, <1>3 DEF ActiveOf, ActiveStatuses
<1>5. ASSUME NEW m \in Members PROVE OpenOf(m)' = OpenOf(m)
    BY <1>1, <1>2, <1>3 DEF OpenOf, OpenStatuses
<1> QED BY <1>4, <1>5

\* The row that each single-record service leaves behind.
LEMMA BorrowRow ==
    ASSUME TypeOK, NEW m \in Members, NEW b \in Books, NEW r \in Loans,
           Borrow(m, b, r)
    PROVE  \E row \in LoanRows : /\ loan' = [loan EXCEPT ![r] = row]
                                /\ row.status = "BORROWED"
                                /\ row.member = m /\ row.book = b
<1> DEFINE row == [status |-> "BORROWED", member |-> m, book |-> b,
                   due |-> day + LoanDays, returned |-> Never]
<1>1. row \in LoanRows
    BY SettingsAssumption DEF TypeOK, LoanRows
<1> QED BY <1>1 DEF Borrow

LEMMA LostRow ==
    ASSUME TypeOK, NEW r \in Loans, MarkLost(r)
    PROVE  /\ loan[r] \in LoanRows
           /\ \E row \in LoanRows : /\ loan' = [loan EXCEPT ![r] = row]
                                   /\ row.status = "LOST"
                                   /\ row.member = loan[r].member
                                   /\ row.book = loan[r].book
<1> DEFINE row == [loan[r] EXCEPT !.status = "LOST"]
<1>1. loan[r] \in LoanRows
    BY ExistingRow DEF MarkLost, OpenStatuses
<1>2. /\ row \in LoanRows
      /\ row.status = "LOST" /\ row.member = loan[r].member
      /\ row.book = loan[r].book
    BY <1>1 DEF LoanRows
<1>3. loan' = [loan EXCEPT ![r] = row]
    BY DEF MarkLost
<1> QED BY <1>1, <1>2, <1>3

LEMMA SettledRow ==
    ASSUME TypeOK, NEW r \in Loans, loan[r].status # "NONE"
    PROVE  /\ loan[r] \in LoanRows
           /\ ReturnedRow(r) \in LoanRows
           /\ ReturnedRow(r).status = "RETURNED"
           /\ ReturnedRow(r).returned = day
           /\ ReturnedRow(r).due = loan[r].due
           /\ ReturnedRow(r).member = loan[r].member
           /\ ReturnedRow(r).book = loan[r].book
<1>1. loan[r] \in LoanRows
    BY ExistingRow
<1> QED BY <1>1, ReturnedRowType DEF ReturnedRow, LoanRows

-----------------------------------------------------------------------------
(***************************************************************************)
(* Titles are kept while a record refers to them.                          *)
(***************************************************************************)
LEMMA TitlesStep ==
    ASSUME TypeOK, TitlesKept, [Next]_vars
    PROVE  TitlesKept'
<1>1. CASE UNCHANGED vars
    BY <1>1 DEF vars, TitlesKept, Exists
<1>2. CASE NextDay
    BY <1>2 DEF NextDay, TitlesKept, Exists
<1>3. ASSUME NEW m \in Members, AccountChange(m) PROVE TitlesKept'
    BY <1>3 DEF AccountChange, TitlesKept, Exists
<1>4. ASSUME NEW b \in Books, NEW n \in 0..MaxCopies, CreateBook(b, n)
      PROVE TitlesKept'
    BY <1>4 DEF CreateBook, TypeOK, TitlesKept, Exists
<1>5. ASSUME NEW b \in Books, NEW n \in 0..MaxCopies, UpdateBook(b, n)
      PROVE TitlesKept'
    BY <1>5 DEF UpdateBook, TitlesKept, Exists
<1>6. ASSUME NEW b \in Books, DeleteBook(b) PROVE TitlesKept'
    BY <1>6 DEF DeleteBook, LoansOf, TypeOK, TitlesKept, Exists
<1>7. ASSUME NEW m \in Members, NEW b \in Books, NEW r \in Loans, Borrow(m, b, r)
      PROVE TitlesKept'
    BY <1>7, BorrowRow DEF Borrow, BorrowChecks, TypeOK, TitlesKept, Exists
<1>8. ASSUME NEW r \in Loans, Return(r) PROVE TitlesKept'
    BY <1>8, SettledRow DEF Return, OpenStatuses, TypeOK, TitlesKept, Exists
<1>9. ASSUME NEW r \in Loans, MarkLost(r) PROVE TitlesKept'
    BY <1>9, LostRow DEF MarkLost, OpenStatuses, TypeOK, TitlesKept, Exists
<1>10. ASSUME NEW r \in Loans, NEW restore \in BOOLEAN, ResolveLost(r, restore)
       PROVE TitlesKept'
    BY <1>10, SettledRow DEF ResolveLost, TypeOK, TitlesKept, Exists
<1>11. ASSUME NEW r \in Loans, PayFine(r) PROVE TitlesKept'
    BY <1>11 DEF PayFine, TitlesKept, Exists
<1>12. ASSUME NEW S \in SUBSET Loans, SyncOverdue(S) PROVE TitlesKept'
    <2>1. \A r \in S : loan[r] \in LoanRows /\ Exists(r)
        BY <1>12, ExistingRow DEF SyncOverdue, PastDue, Exists
    <2>2. \A r \in Loans : (loan'[r].book = loan[r].book /\ Exists(r))
                          \/ loan'[r] = loan[r]
        BY <1>12, <2>1 DEF SyncOverdue, LoanRows
    <2>3. shelf' = shelf
        BY <1>12 DEF SyncOverdue
    <2> QED BY <2>2, <2>3 DEF TitlesKept, Exists
<1> QED BY <1>1, <1>2, <1>3, <1>4, <1>5, <1>6, <1>7, <1>8, <1>9, <1>10, <1>11,
           <1>12 DEF Next

\* For every library, however large: a title with a record is never deleted,
\* so the foreign key of a record always has its target.
THEOREM TitlesAreKept == Spec => []TitlesKept
<1>1. Init => TitlesKept
    BY DEF Init, TitlesKept, Exists, NoLoan
<1>2. TypeOK /\ TypeOK' /\ TitlesKept /\ [Next]_vars => TitlesKept'
    BY TitlesStep
<1> QED BY <1>1, <1>2, TypeCorrect, PTL DEF Spec

-----------------------------------------------------------------------------
(***************************************************************************)
(* Stock.  StockCovered needs TitlesKept: a title that is being created    *)
(* must have no records yet.                                               *)
(***************************************************************************)
LEMMA StockUntouched ==
    ASSUME TypeOK, StockCovered, NEW b \in Books,
           ActiveOf(b)' = ActiveOf(b),
           available'[b] = available[b], total'[b] = total[b]
    PROVE  Circulating(b)' <= total'[b]
BY DEF StockCovered, Circulating

LEMMA StockStep ==
    ASSUME TypeOK, TitlesKept, StockCovered, [Next]_vars
    PROVE  StockCovered'
<1> SUFFICES ASSUME NEW c \in Books PROVE Circulating(c)' <= total'[c]
    BY DEF StockCovered
<1>0. /\ Cardinality(ActiveOf(c)) \in Nat
      /\ IsFiniteSet(ActiveOf(c))
      /\ Circulating(c) <= total[c]
    BY ActiveFinite DEF StockCovered
<1>1. ASSUME loan' = loan, available' = available, total' = total
      PROVE  Circulating(c)' <= total'[c]
    BY <1>1, StockUntouched DEF ActiveOf
<1>2. CASE UNCHANGED vars
    BY <1>1, <1>2 DEF vars
<1>3. CASE NextDay
    BY <1>1, <1>3 DEF NextDay
<1>4. ASSUME NEW m \in Members, AccountChange(m) PROVE Circulating(c)' <= total'[c]
    BY <1>1, <1>4 DEF AccountChange
<1>5. ASSUME NEW b \in Books, NEW n \in 0..MaxCopies, CreateBook(b, n)
      PROVE Circulating(c)' <= total'[c]
    <2>1. ActiveOf(c)' = ActiveOf(c)
        BY <1>5 DEF CreateBook, ActiveOf
    <2>2. CASE b = c
        <3>1. ActiveOf(c) = {}
            BY <1>5, <2>2 DEF CreateBook, TitlesKept, Exists, ActiveOf, ActiveStatuses
        <3>2. available'[c] = n /\ total'[c] = n
            BY <1>5, <2>2 DEF CreateBook, TypeOK
        <3> QED BY <2>1, <3>1, <3>2, FS_EmptySet DEF Circulating
    <2>3. CASE b # c
        BY <1>5, <2>1, <2>3, StockUntouched DEF CreateBook, TypeOK
    <2> QED BY <2>2, <2>3
<1>6. ASSUME NEW b \in Books, NEW n \in 0..MaxCopies, UpdateBook(b, n)
      PROVE Circulating(c)' <= total'[c]
    <2>1. ActiveOf(c)' = ActiveOf(c)
        BY <1>6 DEF UpdateBook, ActiveOf
    <2>2. CASE b = c
        <3>1. available'[c] = n - Cardinality(ActiveOf(c)) /\ total'[c] = n
            BY <1>6, <2>2 DEF UpdateBook, TypeOK
        <3> QED BY <1>0, <2>1, <3>1 DEF Circulating
    <2>3. CASE b # c
        BY <1>6, <2>1, <2>3, StockUntouched DEF UpdateBook, TypeOK
    <2> QED BY <2>2, <2>3
<1>7. ASSUME NEW b \in Books, DeleteBook(b) PROVE Circulating(c)' <= total'[c]
    BY <1>1, <1>7 DEF DeleteBook
<1>8. ASSUME NEW m \in Members, NEW b \in Books, NEW r \in Loans, Borrow(m, b, r)
      PROVE Circulating(c)' <= total'[c]
    <2>1. PICK row \in LoanRows : /\ loan' = [loan EXCEPT ![r] = row]
                                 /\ row.status = "BORROWED" /\ row.book = b
        BY <1>8, BorrowRow
    <2>2. /\ ActiveOf(c) \ {r} = ActiveOf(c)' \ {r}
          /\ r \in ActiveOf(c) <=> loan[r].status \in ActiveStatuses /\ loan[r].book = c
          /\ r \in ActiveOf(c)' <=> row.status \in ActiveStatuses /\ row.book = c
        BY <2>1, OneRecordActive
    <2>3. r \notin ActiveOf(c) /\ (r \in ActiveOf(c)' <=> b = c)
        BY <1>8, <2>1, <2>2 DEF Borrow, NoLoan, ActiveStatuses
    <2>4. available'[c] = (IF b = c THEN available[c] - 1 ELSE available[c])
          /\ total'[c] = total[c]
        BY <1>8 DEF Borrow, TypeOK
    <2>5. Cardinality(ActiveOf(c)') =
            IF b = c THEN Cardinality(ActiveOf(c)) + 1 ELSE Cardinality(ActiveOf(c))
        BY <1>0, <2>2, <2>3, OneApart
    <2> QED BY <1>0, <2>4, <2>5 DEF Circulating, TypeOK
<1>9. ASSUME NEW r \in Loans, Return(r) PROVE Circulating(c)' <= total'[c]
    <2>1. /\ loan[r] \in LoanRows
          /\ ReturnedRow(r) \in LoanRows
          /\ ReturnedRow(r).status = "RETURNED"
          /\ loan' = [loan EXCEPT ![r] = ReturnedRow(r)]
        BY <1>9, SettledRow DEF Return, OpenStatuses
    <2>2. /\ ActiveOf(c) \ {r} = ActiveOf(c)' \ {r}
          /\ r \in ActiveOf(c) <=> loan[r].book = c
          /\ r \notin ActiveOf(c)'
        BY <1>9, <2>1, OneRecordActive DEF Return, OpenStatuses, ActiveStatuses
    <2>3. available'[c] = (IF loan[r].book = c THEN available[c] + 1 ELSE available[c])
          /\ total'[c] = total[c]
        BY <1>9, <2>1 DEF Return, TypeOK, LoanRows
    <2>4. Cardinality(ActiveOf(c)') =
            IF loan[r].book = c THEN Cardinality(ActiveOf(c)) - 1
                                ELSE Cardinality(ActiveOf(c))
        BY <1>0, <2>2, OneApart
    <2> QED BY <1>0, <2>3, <2>4 DEF Circulating, TypeOK
<1>10. ASSUME NEW r \in Loans, MarkLost(r) PROVE Circulating(c)' <= total'[c]
    <2>1. PICK row \in LoanRows : /\ loan' = [loan EXCEPT ![r] = row]
                                 /\ row.status = "LOST" /\ row.book = loan[r].book
        BY <1>10, LostRow
    <2>2. /\ ActiveOf(c) \ {r} = ActiveOf(c)' \ {r}
          /\ r \in ActiveOf(c) <=> loan[r].status \in ActiveStatuses /\ loan[r].book = c
          /\ r \in ActiveOf(c)' <=> row.status \in ActiveStatuses /\ row.book = c
        BY <2>1, OneRecordActive
    <2>3. r \in ActiveOf(c) <=> r \in ActiveOf(c)'
        BY <1>10, <2>1, <2>2 DEF MarkLost, OpenStatuses, ActiveStatuses
    <2>4. ActiveOf(c)' = ActiveOf(c)
        BY <1>0, <2>2, <2>3, OneApart
    <2> QED BY <1>10, <2>4, StockUntouched DEF MarkLost
<1>11. ASSUME NEW r \in Loans, NEW restore \in BOOLEAN, ResolveLost(r, restore)
       PROVE Circulating(c)' <= total'[c]
    <2>1. /\ loan[r] \in LoanRows
          /\ ReturnedRow(r) \in LoanRows
          /\ ReturnedRow(r).status = "RETURNED"
          /\ loan' = [loan EXCEPT ![r] = ReturnedRow(r)]
        BY <1>11, SettledRow DEF ResolveLost
    <2>2. /\ ActiveOf(c) \ {r} = ActiveOf(c)' \ {r}
          /\ r \in ActiveOf(c) <=> loan[r].book = c
          /\ r \notin ActiveOf(c)'
        BY <1>11, <2>1, OneRecordActive DEF ResolveLost, ActiveStatuses
    <2>3. /\ available'[c] \in Int
          /\ available'[c] <= (IF loan[r].book = c THEN available[c] + 1 ELSE available[c])
          /\ total'[c] = total[c]
        BY <1>11, <2>1 DEF ResolveLost, TypeOK, LoanRows
    <2>4. Cardinality(ActiveOf(c)') =
            IF loan[r].book = c THEN Cardinality(ActiveOf(c)) - 1
                                ELSE Cardinality(ActiveOf(c))
        BY <1>0, <2>2, OneApart
    <2> QED BY <1>0, <2>3, <2>4 DEF Circulating, TypeOK
<1>12. ASSUME NEW r \in Loans, PayFine(r) PROVE Circulating(c)' <= total'[c]
    BY <1>1, <1>12 DEF PayFine
<1>13. ASSUME NEW S \in SUBSET Loans, SyncOverdue(S) PROVE Circulating(c)' <= total'[c]
    BY <1>13, SyncKeepsSets, StockUntouched DEF SyncOverdue
<1> QED BY <1>2, <1>3, <1>4, <1>5, <1>6, <1>7, <1>8, <1>9, <1>10, <1>11, <1>12,
           <1>13 DEF Next

\* For every library: shelf stock plus unsettled records never exceed
\* total_copies.  The inductive invariant is TypeOK /\ TitlesKept /\ StockCovered.
THEOREM StockIsCovered == Spec => []StockCovered
<1>1. Init => StockCovered
    <2> SUFFICES ASSUME Init, NEW b \in Books PROVE Circulating(b) <= total[b]
        BY DEF StockCovered
    <2>1. ActiveOf(b) = {}
        BY DEF Init, NoLoan, ActiveOf, ActiveStatuses
    <2> QED BY <2>1, FS_EmptySet DEF Init, Circulating
<1>2. TypeOK /\ TitlesKept /\ StockCovered /\ [Next]_vars => StockCovered'
    BY StockStep
<1> QED BY <1>1, <1>2, TypeCorrect, TitlesAreKept, PTL DEF Spec

\* While stock is covered, a copy that comes back always fits: return_book and
\* resolve_lost cannot raise InventoryIntegrityError (services.py 215, 310).
THEOREM ReturnsAlwaysFit ==
    ASSUME TypeOK, StockCovered, NEW r \in Loans, loan[r].status \in ActiveStatuses
    PROVE  available[loan[r].book] < total[loan[r].book]
<1> DEFINE b == loan[r].book
<1>1. loan[r] \in LoanRows
    BY ExistingRow DEF ActiveStatuses
<1>2. b \in Books /\ r \in ActiveOf(b)
    BY <1>1 DEF LoanRows, ActiveOf
<1>3. IsFiniteSet(ActiveOf(b)) /\ Cardinality(ActiveOf(b)) \in Nat
    BY <1>2, ActiveFinite
<1>4. Cardinality(ActiveOf(b)) # 0
    BY <1>2, <1>3, FS_EmptySet
<1>5. Circulating(b) <= total[b]
    BY <1>2 DEF StockCovered
<1> QED BY <1>2, <1>3, <1>4, <1>5 DEF Circulating, TypeOK

-----------------------------------------------------------------------------
(***************************************************************************)
(* The borrow limit.                                                       *)
(***************************************************************************)
LEMMA LimitUntouched ==
    ASSUME LimitRespected, NEW k \in Members, OpenOf(k)' = OpenOf(k)
    PROVE  Cardinality(OpenOf(k)') <= BorrowLimit[k]
BY DEF LimitRespected

\* Rewriting one record so that it is not open breaks no limit.
LEMMA LimitOneRecord ==
    ASSUME TypeOK, LimitRespected, NEW k \in Members,
           NEW r \in Loans, NEW row \in LoanRows,
           loan' = [loan EXCEPT ![r] = row], row.status \notin OpenStatuses
    PROVE  Cardinality(OpenOf(k)') <= BorrowLimit[k]
<1>1. /\ OpenOf(k) \ {r} = OpenOf(k)' \ {r}
      /\ r \notin OpenOf(k)'
    BY OneRecordOpen
<1>2. Cardinality(OpenOf(k)') <= Cardinality(OpenOf(k))
    BY <1>1, OpenFinite, OneApart
<1>3. Cardinality(OpenOf(k)) <= BorrowLimit[k] /\ BorrowLimit[k] \in Nat
    BY SettingsAssumption DEF LimitRespected
<1>4. Cardinality(OpenOf(k)) \in Nat /\ Cardinality(OpenOf(k)') \in Nat
    BY <1>1, OpenFinite, OneApart
<1> QED BY <1>2, <1>3, <1>4

LEMMA LimitStep ==
    ASSUME TypeOK, LimitRespected, [Next]_vars
    PROVE  LimitRespected'
<1> SUFFICES ASSUME NEW k \in Members
             PROVE  Cardinality(OpenOf(k)') <= BorrowLimit[k]
    BY DEF LimitRespected
<1>1. ASSUME loan' = loan PROVE Cardinality(OpenOf(k)') <= BorrowLimit[k]
    BY <1>1, LimitUntouched DEF OpenOf
<1>2. CASE UNCHANGED vars
    BY <1>1, <1>2 DEF vars
<1>3. CASE NextDay
    BY <1>1, <1>3 DEF NextDay
<1>4. CASE \E m \in Members : AccountChange(m)
    BY <1>1, <1>4 DEF AccountChange
<1>5. CASE \E b \in Books, n \in 0..MaxCopies : CreateBook(b, n) \/ UpdateBook(b, n)
    BY <1>1, <1>5 DEF CreateBook, UpdateBook
<1>6. CASE \E b \in Books : DeleteBook(b)
    BY <1>1, <1>6 DEF DeleteBook
<1>7. CASE \E r \in Loans : PayFine(r)
    BY <1>1, <1>7 DEF PayFine
<1>8. ASSUME NEW m \in Members, NEW b \in Books, NEW r \in Loans, Borrow(m, b, r)
      PROVE  Cardinality(OpenOf(k)') <= BorrowLimit[k]
    <2>1. PICK row \in LoanRows : /\ loan' = [loan EXCEPT ![r] = row]
                                 /\ row.status = "BORROWED" /\ row.member = m
        BY <1>8, BorrowRow
    <2>2. /\ OpenOf(k) \ {r} = OpenOf(k)' \ {r}
          /\ r \in OpenOf(k) <=> loan[r].status \in OpenStatuses /\ loan[r].member = k
          /\ r \in OpenOf(k)' <=> row.status \in OpenStatuses /\ row.member = k
        BY <2>1, OneRecordOpen
    <2>3. r \notin OpenOf(k) /\ (r \in OpenOf(k)' <=> m = k)
        BY <1>8, <2>1, <2>2 DEF Borrow, NoLoan, OpenStatuses
    <2>4. CASE m = k
        <3>1. Cardinality(OpenOf(k)) < BorrowLimit[k]
            BY <1>8, <2>4 DEF Borrow, BorrowChecks
        <3>2. Cardinality(OpenOf(k)') = Cardinality(OpenOf(k)) + 1
            BY <2>2, <2>3, <2>4, OpenFinite, OneApart
        <3> QED BY <3>1, <3>2, OpenFinite, SettingsAssumption
    <2>5. CASE m # k
        <3>1. OpenOf(k)' = OpenOf(k)
            BY <2>2, <2>3, <2>5
        <3> QED BY <3>1, LimitUntouched
    <2> QED BY <2>4, <2>5
<1>9. ASSUME NEW r \in Loans, Return(r) PROVE Cardinality(OpenOf(k)') <= BorrowLimit[k]
    BY <1>9, SettledRow, LimitOneRecord DEF Return, OpenStatuses
<1>10. ASSUME NEW r \in Loans, MarkLost(r) PROVE Cardinality(OpenOf(k)') <= BorrowLimit[k]
    BY <1>10, LostRow, LimitOneRecord DEF OpenStatuses
<1>11. ASSUME NEW r \in Loans, NEW restore \in BOOLEAN, ResolveLost(r, restore)
       PROVE  Cardinality(OpenOf(k)') <= BorrowLimit[k]
    BY <1>11, SettledRow, LimitOneRecord DEF ResolveLost, OpenStatuses
<1>12. ASSUME NEW S \in SUBSET Loans, SyncOverdue(S)
       PROVE  Cardinality(OpenOf(k)') <= BorrowLimit[k]
    BY <1>12, SyncKeepsSets, LimitUntouched
<1> QED BY <1>2, <1>3, <1>4, <1>5, <1>6, <1>7, <1>8, <1>9, <1>10, <1>11, <1>12
        DEF Next

\* For every library: no member ever has more open loans than their limit.
THEOREM LimitIsRespected == Spec => []LimitRespected
<1>1. Init => LimitRespected
    <2> SUFFICES ASSUME Init, NEW m \in Members
                 PROVE  Cardinality(OpenOf(m)) <= BorrowLimit[m]
        BY DEF LimitRespected
    <2>1. OpenOf(m) = {}
        BY DEF Init, NoLoan, OpenOf, OpenStatuses
    <2> QED BY <2>1, FS_EmptySet, SettingsAssumption
<1>2. TypeOK /\ LimitRespected /\ [Next]_vars => LimitRespected'
    BY LimitStep
<1> QED BY <1>1, <1>2, TypeCorrect, PTL DEF Spec

-----------------------------------------------------------------------------
(***************************************************************************)
(* How a record moves.                                                     *)
(***************************************************************************)
LEMMA LifecycleHolds ==
    ASSUME TypeOK, [Next]_vars
    PROVE  LifecycleStep
<1> SUFFICES ASSUME NEW s \in Loans, loan'[s] # loan[s]
             PROVE  /\ <<loan[s].status, loan'[s].status>> \in Moves
                    /\ Exists(s) => /\ loan'[s].member = loan[s].member
                                    /\ loan'[s].book = loan[s].book
                                    /\ loan'[s].due = loan[s].due
    BY DEF LifecycleStep
<1> DEFINE Moved == /\ <<loan[s].status, loan'[s].status>> \in Moves
                    /\ Exists(s) => /\ loan'[s].member = loan[s].member
                                    /\ loan'[s].book = loan[s].book
                                    /\ loan'[s].due = loan[s].due
<1>1. loan' # loan
    OBVIOUS
<1>2. ASSUME NEW m \in Members, NEW b \in Books, NEW r \in Loans, Borrow(m, b, r)
      PROVE  Moved
    BY <1>2 DEF Borrow, TypeOK, NoLoan, Moves, Exists
<1>3. ASSUME NEW r \in Loans, Return(r) PROVE Moved
    <2>1. s = r /\ loan'[s] = ReturnedRow(s)
        BY <1>3 DEF Return, TypeOK
    <2> QED BY <1>3, <2>1, SettledRow DEF Return, OpenStatuses, Moves
<1>4. ASSUME NEW r \in Loans, MarkLost(r) PROVE Moved
    <2>1. s = r /\ loan'[s] = [loan[s] EXCEPT !.status = "LOST"]
        BY <1>4 DEF MarkLost, TypeOK
    <2>2. loan[s] \in LoanRows /\ loan[s].status \in OpenStatuses
        BY <1>4, <2>1, LostRow DEF MarkLost
    <2> QED BY <2>1, <2>2 DEF OpenStatuses, LoanRows, Moves
<1>5. ASSUME NEW r \in Loans, NEW restore \in BOOLEAN, ResolveLost(r, restore)
      PROVE  Moved
    <2>1. s = r /\ loan'[s] = ReturnedRow(s)
        BY <1>5 DEF ResolveLost, TypeOK
    <2> QED BY <1>5, <2>1, SettledRow DEF ResolveLost, Moves
<1>6. ASSUME NEW S \in SUBSET Loans, SyncOverdue(S) PROVE Moved
    <2>1. s \in S /\ loan'[s] = [loan[s] EXCEPT !.status = "OVERDUE"]
        BY <1>6 DEF SyncOverdue
    <2>2. loan[s].status = "BORROWED" /\ loan[s] \in LoanRows
        BY <1>6, <2>1, ExistingRow DEF SyncOverdue, PastDue
    <2> QED BY <2>1, <2>2 DEF LoanRows, Moves
<1> QED BY <1>1, <1>2, <1>3, <1>4, <1>5, <1>6
        DEF Next, vars, NextDay, AccountChange, CreateBook, UpdateBook,
            DeleteBook, PayFine

\* A record that exists goes on existing, with its member and title.
LEMMA RecordsStay ==
    ASSUME TypeOK, [Next]_vars, NEW r \in Loans, Exists(r)
    PROVE  Exists(r)' /\ loan'[r].member = loan[r].member /\ loan'[r].book = loan[r].book
<1>1. CASE loan'[r] = loan[r]
    BY <1>1 DEF Exists
<1>2. CASE loan'[r] # loan[r]
    <2>1. <<loan[r].status, loan'[r].status>> \in Moves
        BY <1>2, LifecycleHolds DEF LifecycleStep
    <2>2. loan'[r].status # "NONE"
        BY <2>1 DEF Moves
    <2> QED BY <1>2, <2>2, LifecycleHolds DEF LifecycleStep, Exists
<1> QED BY <1>1, <1>2

\* For every library: RETURNED is final, LOST is never reopened, and the
\* member, title and due date of a record never change.
THEOREM LifecycleIsRespected == Spec => LoanLifecycle
<1>1. TypeOK /\ [Next]_vars => [LifecycleStep]_vars
    BY LifecycleHolds
<1> QED BY <1>1, TypeCorrect, PTL DEF Spec, LoanLifecycle

-----------------------------------------------------------------------------
(***************************************************************************)
(* Fines.                                                                  *)
(***************************************************************************)
LEMMA FinesStep ==
    ASSUME TypeOK, FinesSound, [Next]_vars
    PROVE  FinesSound'
<1> DEFINE Sound(row, f) == f # NoFine => /\ row.status = "RETURNED"
                                         /\ row.returned > row.due
                                         /\ f.amount = FineAmount(row.due, row.returned)
                                         /\ f.amount > 0
<1>0. /\ \A s \in Loans : Sound(loan[s], fine[s])
      /\ FinesSound' <=> \A s \in Loans : Sound(loan'[s], fine'[s])
    BY DEF FinesSound, FineAmount
<1> SUFFICES ASSUME NEW s \in Loans PROVE Sound(loan'[s], fine'[s])
    BY <1>0
<1> HIDE DEF Sound
<1>1. ASSUME loan'[s] = loan[s], fine'[s] = fine[s] PROVE Sound(loan'[s], fine'[s])
    BY <1>0, <1>1
<1>2. ASSUME loan[s].status # "RETURNED", fine'[s] = fine[s]
      PROVE  Sound(loan'[s], fine'[s])
    BY <1>0, <1>2 DEF Sound
<1>3. ASSUME NEW m \in Members, NEW b \in Books, NEW r \in Loans, Borrow(m, b, r)
      PROVE  Sound(loan'[s], fine'[s])
    <2>1. fine' = fine /\ loan[r].status = "NONE"
        BY <1>3 DEF Borrow, NoLoan
    <2>2. s # r => loan'[s] = loan[s]
        BY <1>3 DEF Borrow, TypeOK
    <2> QED BY <1>1, <1>2, <2>1, <2>2
<1>4. ASSUME NEW r \in Loans, Return(r) PROVE Sound(loan'[s], fine'[s])
    <2>1. CASE s # r
        BY <1>1, <1>4, <2>1 DEF Return, TypeOK
    <2>2. CASE s = r
        <3>1. /\ loan'[s] = ReturnedRow(s)
              /\ fine'[s] = FineOnReturn(s, loan[s].due, day)
            BY <1>4, <2>2 DEF Return, TypeOK
        <3>2. fine[s] = NoFine
            BY <1>0, <1>4, <2>2 DEF Return, OpenStatuses, Sound
        <3>3. /\ ReturnedRow(s).status = "RETURNED"
              /\ ReturnedRow(s).returned = day /\ ReturnedRow(s).due = loan[s].due
              /\ loan[s].due \in Nat /\ day \in Nat
            BY <1>4, <2>2, SettledRow DEF Return, OpenStatuses, TypeOK, LoanRows
        <3>4. FineAmount(loan[s].due, day) > 0 => day > loan[s].due
            BY <3>3 DEF FineAmount
        <3> QED BY <3>1, <3>2, <3>3, <3>4 DEF FineOnReturn, Sound
    <2> QED BY <2>1, <2>2
<1>5. ASSUME NEW r \in Loans, MarkLost(r) PROVE Sound(loan'[s], fine'[s])
    <2>1. fine' = fine /\ loan[r].status # "RETURNED"
        BY <1>5 DEF MarkLost, OpenStatuses
    <2>2. s # r => loan'[s] = loan[s]
        BY <1>5 DEF MarkLost, TypeOK
    <2> QED BY <1>1, <1>2, <2>1, <2>2
<1>6. ASSUME NEW r \in Loans, NEW restore \in BOOLEAN, ResolveLost(r, restore)
      PROVE  Sound(loan'[s], fine'[s])
    <2>1. fine' = fine /\ loan[r].status # "RETURNED"
        BY <1>6 DEF ResolveLost
    <2>2. s # r => loan'[s] = loan[s]
        BY <1>6 DEF ResolveLost, TypeOK
    <2> QED BY <1>1, <1>2, <2>1, <2>2
<1>7. ASSUME NEW r \in Loans, PayFine(r) PROVE Sound(loan'[s], fine'[s])
    <2>1. CASE s # r
        BY <1>1, <1>7, <2>1 DEF PayFine, TypeOK
    <2>2. CASE s = r
        <3>1. fine[s] \in FineRows /\ fine[s] # NoFine
            BY <1>7, <2>2, ExistingFine DEF PayFine, NoFine
        <3>2. loan'[s] = loan[s] /\ fine'[s].amount = fine[s].amount
            BY <1>7, <2>2, <3>1 DEF PayFine, TypeOK, FineRows
        <3> QED BY <1>0, <3>1, <3>2 DEF Sound
    <2> QED BY <2>1, <2>2
<1>8. ASSUME NEW S \in SUBSET Loans, SyncOverdue(S) PROVE Sound(loan'[s], fine'[s])
    <2>1. fine' = fine /\ (s \in S => loan[s].status # "RETURNED")
        BY <1>8 DEF SyncOverdue, PastDue
    <2>2. s \notin S => loan'[s] = loan[s]
        BY <1>8 DEF SyncOverdue
    <2> QED BY <1>1, <1>2, <2>1, <2>2
<1>9. CASE loan' = loan /\ fine' = fine
    BY <1>1, <1>9
<1> QED BY <1>3, <1>4, <1>5, <1>6, <1>7, <1>8, <1>9
        DEF Next, vars, NextDay, AccountChange, CreateBook, UpdateBook, DeleteBook

\* For every library and every rate: a fine exists only for a loan that came
\* back late, and charges exactly the days it was late.
THEOREM FinesAreSound == Spec => []FinesSound
<1>1. Init => FinesSound
    BY DEF Init, FinesSound
<1>2. TypeOK /\ FinesSound /\ [Next]_vars => FinesSound'
    BY FinesStep
<1> QED BY <1>1, <1>2, TypeCorrect, PTL DEF Spec

-----------------------------------------------------------------------------
(***************************************************************************)
(* One active record of a title per member.                                *)
(***************************************************************************)

\* Only a record that becomes active, or changes its member or title, can make
\* two active records clash.
LEMMA OneActiveUntouched ==
    ASSUME TypeOK, OneActivePerTitle,
           \A s \in Loans : loan'[s].status \in ActiveStatuses =>
               /\ loan[s].status \in ActiveStatuses
               /\ loan'[s].member = loan[s].member
               /\ loan'[s].book = loan[s].book
    PROVE  OneActivePerTitle'
BY DEF OneActivePerTitle, ActiveOf

LEMMA OneActiveStep ==
    ASSUME TypeOK, OneActivePerTitle, [Next]_vars
    PROVE  OneActivePerTitle'
<1> DEFINE Quiet == \A s \in Loans : loan'[s].status \in ActiveStatuses =>
                       /\ loan[s].status \in ActiveStatuses
                       /\ loan'[s].member = loan[s].member
                       /\ loan'[s].book = loan[s].book
<1>1. CASE \E m \in Members, b \in Books, r \in Loans : Borrow(m, b, r)
    <2>1. PICK m \in Members, b \in Books, r \in Loans : Borrow(m, b, r)
        BY <1>1
    <2>2. PICK row \in LoanRows : /\ loan' = [loan EXCEPT ![r] = row]
                                 /\ row.member = m /\ row.book = b
        BY <2>1, BorrowRow
    <2>3. loan'[r] = row /\ \A s \in Loans \ {r} : loan'[s] = loan[s]
        BY <2>2 DEF TypeOK
    <2>4. \A s \in ActiveOf(b) : loan[s].member # m
        BY <2>1 DEF Borrow, BorrowChecks, HasActive
    <2>5. SUFFICES ASSUME NEW c \in Books, NEW s \in ActiveOf(c)', NEW t \in ActiveOf(c)',
                          loan'[s].member = loan'[t].member
                   PROVE  s = t
        BY DEF OneActivePerTitle
    <2>6. s \in Loans /\ t \in Loans
        BY DEF ActiveOf
    <2>7. CASE s # r /\ t # r
        BY <2>3, <2>5, <2>6, <2>7 DEF OneActivePerTitle, ActiveOf
    <2>8. CASE s = r /\ t # r
        BY <2>2, <2>3, <2>4, <2>5, <2>6, <2>8 DEF ActiveOf
    <2>9. CASE s # r /\ t = r
        BY <2>2, <2>3, <2>4, <2>5, <2>6, <2>9 DEF ActiveOf
    <2> QED BY <2>7, <2>8, <2>9
<1>2. CASE ~\E m \in Members, b \in Books, r \in Loans : Borrow(m, b, r)
    <2>1. LifecycleStep
        BY LifecycleHolds
    <2>2. \A s \in Loans : loan[s].status = "NONE" => loan'[s] = loan[s]
        BY <1>2 DEF Next, vars, NextDay, AccountChange, CreateBook, UpdateBook,
                    DeleteBook, Return, MarkLost, ResolveLost, PayFine,
                    SyncOverdue, PastDue, OpenStatuses, TypeOK
    <2>3. Quiet
        BY <2>1, <2>2 DEF LifecycleStep, Moves, Exists, ActiveStatuses
    <2> QED BY <2>3, OneActiveUntouched
<1> QED BY <1>1, <1>2

\* For every library: a member never has two unsettled records of one title,
\* so the database's unique index never refuses a borrow the service allowed.
THEOREM OneActiveHolds == Spec => []OneActivePerTitle
<1>1. Init => OneActivePerTitle
    BY DEF Init, OneActivePerTitle, ActiveOf, ActiveStatuses, NoLoan
<1>2. TypeOK /\ OneActivePerTitle /\ [Next]_vars => OneActivePerTitle'
    BY OneActiveStep
<1> QED BY <1>1, <1>2, TypeCorrect, PTL DEF Spec

-----------------------------------------------------------------------------
(***************************************************************************)
(* The desk implements Lending.tla, for every set of members and titles,   *)
(* every finite set of records and every setting; and circulation          *)
(* conserves copies.                                                       *)
(***************************************************************************)

\* The variables of Lending, read off the tables.
Copies == [b \in Books |-> Circulating(b)]
Out == [b \in Books |-> ActiveOf(b)]
Settled == {r \in Loans : loan[r].status = "RETURNED"}

-----------------------------------------------------------------------------
(***************************************************************************)
(* What each kind of service does to the number of copies in circulation   *)
(* and to the records that hold one.                                       *)
(***************************************************************************)

\* A service that changes no record and no stock.
LEMMA Quiet ==
    ASSUME loan' = loan, available' = available
    PROVE  Copies' = Copies /\ Out' = Out /\ Settled' = Settled
<1>1. \A b \in Books : ActiveOf(b)' = ActiveOf(b)
    BY DEF ActiveOf
<1>2. \A b \in Books : Circulating(b)' = Circulating(b)
    BY <1>1 DEF Circulating
<1> QED BY <1>1, <1>2 DEF Copies, Out, Settled

\* mark_borrow_lost and sync_overdue change statuses among the active ones.
LEMMA StatusOnly ==
    ASSUME available' = available,
           \A b \in Books : ActiveOf(b)' = ActiveOf(b),
           \A r \in Loans : loan'[r].status = "RETURNED" <=> loan[r].status = "RETURNED"
    PROVE  Copies' = Copies /\ Out' = Out /\ Settled' = Settled
<1>1. \A b \in Books : Circulating(b)' = Circulating(b)
    BY DEF Circulating
<1> QED BY <1>1 DEF Copies, Out, Settled

LEMMA LostIsQuiet ==
    ASSUME TypeOK, NEW r \in Loans, MarkLost(r)
    PROVE  Copies' = Copies /\ Out' = Out /\ Settled' = Settled
<1>1. PICK row \in LoanRows : /\ loan' = [loan EXCEPT ![r] = row]
                             /\ row.status = "LOST" /\ row.book = loan[r].book
    BY LostRow
<1>2. ASSUME NEW b \in Books PROVE ActiveOf(b)' = ActiveOf(b)
    <2>1. /\ ActiveOf(b) \ {r} = ActiveOf(b)' \ {r}
          /\ r \in ActiveOf(b) <=> loan[r].status \in ActiveStatuses /\ loan[r].book = b
          /\ r \in ActiveOf(b)' <=> row.status \in ActiveStatuses /\ row.book = b
        BY <1>1, OneRecordActive
    <2>2. r \in ActiveOf(b) <=> r \in ActiveOf(b)'
        BY <1>1, <2>1 DEF MarkLost, OpenStatuses, ActiveStatuses
    <2> QED BY <2>1, <2>2, ActiveFinite, OneApart
<1>3. \A s \in Loans : loan'[s].status = "RETURNED" <=> loan[s].status = "RETURNED"
    BY <1>1 DEF TypeOK, MarkLost, OpenStatuses
<1> QED BY <1>2, <1>3, StatusOnly DEF MarkLost

LEMMA SyncIsQuiet ==
    ASSUME TypeOK, NEW S \in SUBSET Loans, SyncOverdue(S)
    PROVE  Copies' = Copies /\ Out' = Out /\ Settled' = Settled
<1>1. \A r \in S : loan[r] \in LoanRows /\ loan[r].status = "BORROWED"
    BY ExistingRow DEF SyncOverdue, PastDue
<1>2. \A r \in Loans : loan'[r].status = "RETURNED" <=> loan[r].status = "RETURNED"
    BY <1>1 DEF SyncOverdue, LoanRows
<1> QED BY <1>2, SyncKeepsSets, StatusOnly DEF SyncOverdue

\* borrow_book moves a copy from the shelf to a record.
LEMMA BorrowMoves ==
    ASSUME TypeOK, NEW m \in Members, NEW b \in Books, NEW r \in Loans,
           Borrow(m, b, r)
    PROVE  /\ Copies' = Copies
           /\ Out' = [Out EXCEPT ![b] = @ \cup {r}]
           /\ Settled' = Settled
           /\ r \notin Settled
           /\ \A c \in Books : r \notin ActiveOf(c)
           /\ Cardinality(ActiveOf(b)) < Circulating(b)
<1>1. PICK row \in LoanRows : /\ loan' = [loan EXCEPT ![r] = row]
                             /\ row.status = "BORROWED" /\ row.book = b
    BY BorrowRow
<1>2. loan[r].status = "NONE"
    BY DEF Borrow, NoLoan
<1>3. ASSUME NEW c \in Books
      PROVE  /\ r \notin ActiveOf(c)
             /\ ActiveOf(c)' = IF c = b THEN ActiveOf(c) \cup {r} ELSE ActiveOf(c)
             /\ Circulating(c)' = Circulating(c)
    <2>1. /\ ActiveOf(c) \ {r} = ActiveOf(c)' \ {r}
          /\ r \notin ActiveOf(c)
          /\ r \in ActiveOf(c)' <=> b = c
        BY <1>1, <1>2, OneRecordActive DEF ActiveStatuses
    <2>2. ActiveOf(c)' = IF c = b THEN ActiveOf(c) \cup {r} ELSE ActiveOf(c)
        BY <2>1
    <2>3. /\ Cardinality(ActiveOf(c)) \in Nat
          /\ Cardinality(ActiveOf(c)') =
               IF c = b THEN Cardinality(ActiveOf(c)) + 1 ELSE Cardinality(ActiveOf(c))
        BY <2>1, ActiveFinite, OneApart
    <2>4. /\ available[c] \in Nat
          /\ available'[c] = IF c = b THEN available[c] - 1 ELSE available[c]
        BY DEF Borrow, TypeOK
    <2> QED BY <2>1, <2>2, <2>3, <2>4 DEF Circulating
<1>4. Cardinality(ActiveOf(b)) < Circulating(b)
    BY ActiveFinite DEF Borrow, BorrowChecks, TypeOK, Circulating
<1>5. \A s \in Loans : loan'[s].status = "RETURNED" <=> loan[s].status = "RETURNED"
    BY <1>1, <1>2 DEF TypeOK
<1>6. Out' = [Out EXCEPT ![b] = @ \cup {r}]
    BY <1>3 DEF Out
<1> QED BY <1>2, <1>3, <1>4, <1>5, <1>6 DEF Copies, Settled

\* A settled record gives its copy up: back to the shelf, or written off.
LEMMA SettleMoves ==
    ASSUME TypeOK, NEW r \in Loans, loan[r].status \in ActiveStatuses,
           NEW back \in BOOLEAN,
           loan' = [loan EXCEPT ![r] = ReturnedRow(r)],
           available' = IF back THEN [available EXCEPT ![loan[r].book] = @ + 1]
                        ELSE available
    PROVE  /\ loan[r].book \in Books
           /\ r \in ActiveOf(loan[r].book)
           /\ Copies' = IF back THEN Copies
                        ELSE [Copies EXCEPT ![loan[r].book] = @ - 1]
           /\ Out' = [Out EXCEPT ![loan[r].book] = @ \ {r}]
           /\ Settled' = Settled \cup {r}
<1> DEFINE b == loan[r].book
<1>1. /\ loan[r] \in LoanRows
      /\ ReturnedRow(r) \in LoanRows
      /\ ReturnedRow(r).status = "RETURNED"
    BY SettledRow DEF ActiveStatuses
<1>2. b \in Books
    BY <1>1 DEF LoanRows
<1>3. ASSUME NEW c \in Books
      PROVE  /\ r \in ActiveOf(c) <=> b = c
             /\ ActiveOf(c)' = IF c = b THEN ActiveOf(c) \ {r} ELSE ActiveOf(c)
             /\ Circulating(c)' = IF c = b /\ ~back THEN Circulating(c) - 1
                                 ELSE Circulating(c)
    <2>1. /\ ActiveOf(c) \ {r} = ActiveOf(c)' \ {r}
          /\ r \in ActiveOf(c) <=> b = c
          /\ r \notin ActiveOf(c)'
        BY <1>1, OneRecordActive DEF ActiveStatuses
    <2>2. ActiveOf(c)' = IF c = b THEN ActiveOf(c) \ {r} ELSE ActiveOf(c)
        BY <2>1
    <2>3. /\ Cardinality(ActiveOf(c)) \in Nat
          /\ Cardinality(ActiveOf(c)') =
               IF c = b THEN Cardinality(ActiveOf(c)) - 1 ELSE Cardinality(ActiveOf(c))
        BY <2>1, ActiveFinite, OneApart
    <2>4. /\ available[c] \in Nat
          /\ available'[c] = IF c = b /\ back THEN available[c] + 1 ELSE available[c]
        BY <1>2 DEF TypeOK
    <2> QED BY <2>1, <2>2, <2>3, <2>4 DEF Circulating
<1>4. /\ loan'[r].status = "RETURNED"
      /\ \A s \in Loans \ {r} : loan'[s] = loan[s]
    BY <1>1 DEF TypeOK
<1>5. Settled' = Settled \cup {r}
    BY <1>4 DEF Settled
<1>6. Copies' = IF back THEN Copies ELSE [Copies EXCEPT ![b] = @ - 1]
    BY <1>3 DEF Copies
<1>7. Out' = [Out EXCEPT ![b] = @ \ {r}]
    BY <1>3 DEF Out
<1> QED BY <1>2, <1>3, <1>5, <1>6, <1>7

LEMMA ReturnMoves ==
    ASSUME TypeOK, NEW r \in Loans, Return(r)
    PROVE  /\ loan[r].book \in Books
           /\ r \in ActiveOf(loan[r].book)
           /\ Copies' = Copies
           /\ Out' = [Out EXCEPT ![loan[r].book] = @ \ {r}]
           /\ Settled' = Settled \cup {r}
<1>1. available' = IF TRUE THEN [available EXCEPT ![loan[r].book] = @ + 1]
                   ELSE available
    BY DEF Return
<1>2. loan[r].status \in ActiveStatuses /\ loan' = [loan EXCEPT ![r] = ReturnedRow(r)]
    BY DEF Return, OpenStatuses, ActiveStatuses
<1>3. \A back \in BOOLEAN :
        available' = (IF back THEN [available EXCEPT ![loan[r].book] = @ + 1]
                      ELSE available)
        => /\ loan[r].book \in Books
           /\ r \in ActiveOf(loan[r].book)
           /\ Copies' = IF back THEN Copies
                        ELSE [Copies EXCEPT ![loan[r].book] = @ - 1]
           /\ Out' = [Out EXCEPT ![loan[r].book] = @ \ {r}]
           /\ Settled' = Settled \cup {r}
    BY <1>2, SettleMoves
<1> QED BY <1>1, <1>3

LEMMA ResolveMoves ==
    ASSUME TypeOK, NEW r \in Loans, NEW restore \in BOOLEAN, ResolveLost(r, restore)
    PROVE  /\ loan[r].book \in Books
           /\ r \in ActiveOf(loan[r].book)
           /\ Copies' = IF restore THEN Copies
                        ELSE [Copies EXCEPT ![loan[r].book] = @ - 1]
           /\ Out' = [Out EXCEPT ![loan[r].book] = @ \ {r}]
           /\ Settled' = Settled \cup {r}
<1>1. loan[r] \in LoanRows /\ loan[r].book \in Books
    BY ExistingRow DEF ResolveLost, LoanRows
<1>2. available' = IF restore THEN [available EXCEPT ![loan[r].book] = @ + 1]
                   ELSE available
    <2>1. CASE restore
        BY <2>1 DEF ResolveLost
    <2>2. CASE ~restore
        BY <1>1, <2>2 DEF ResolveLost, TypeOK
    <2> QED BY <2>1, <2>2
<1> QED BY <1>2, SettleMoves DEF ResolveLost, ActiveStatuses

\* create_book and update_book set the number of one title's copies.
LEMMA StockSet ==
    ASSUME TypeOK, TitlesKept, NEW b \in Books, NEW n \in 0..MaxCopies,
           CreateBook(b, n) \/ UpdateBook(b, n)
    PROVE  /\ Copies' = [Copies EXCEPT ![b] = n]
           /\ n \in Nat /\ n >= Cardinality(ActiveOf(b))
           /\ total'[b] = n
           /\ loan' = loan /\ Out' = Out /\ Settled' = Settled
<1>1. loan' = loan
    BY DEF CreateBook, UpdateBook
<1>2. \A c \in Books : ActiveOf(c)' = ActiveOf(c) /\ Cardinality(ActiveOf(c)) \in Nat
    BY <1>1, ActiveFinite DEF ActiveOf
<1>3. n \in Nat
    BY SettingsAssumption
<1>4. CASE CreateBook(b, n)
    <2>1. ActiveOf(b) = {}
        BY <1>4 DEF CreateBook, TitlesKept, Exists, ActiveOf, ActiveStatuses
    <2>2. Cardinality(ActiveOf(b)) = 0
        BY <2>1, FS_EmptySet
    <2>3. \A c \in Books : Circulating(c)' = IF c = b THEN n ELSE Circulating(c)
        BY <1>2, <1>3, <1>4, <2>2 DEF CreateBook, Circulating, TypeOK
    <2>4. Copies' = [Copies EXCEPT ![b] = n]
        BY <2>3 DEF Copies
    <2> QED BY <1>1, <1>2, <1>3, <1>4, <2>2, <2>4 DEF CreateBook, TypeOK, Out, Settled
<1>5. CASE UpdateBook(b, n)
    <2>1. \A c \in Books : Circulating(c)' = IF c = b THEN n ELSE Circulating(c)
        BY <1>2, <1>3, <1>5 DEF UpdateBook, Circulating, TypeOK
    <2>2. Copies' = [Copies EXCEPT ![b] = n]
        BY <2>1 DEF Copies
    <2> QED BY <1>1, <1>2, <1>3, <1>5, <2>2 DEF UpdateBook, TypeOK, Out, Settled
<1> QED BY <1>4, <1>5

-----------------------------------------------------------------------------
(***************************************************************************)
(* The refinement.                                                         *)
(***************************************************************************)
\* An instance has a copy of the operators it extends.
LEMMA SameCardinality ==
    ASSUME NEW S
    PROVE  Promise!Cardinality(S) = Cardinality(S)
BY DEF Cardinality, Promise!Cardinality

LEMMA PromiseInit == Init => Promise!Init
<1> SUFFICES ASSUME Init PROVE Promise!Init
    OBVIOUS
<1>1. \A b \in Books : ActiveOf(b) = {} /\ Circulating(b) = 0
    <2>1. \A b \in Books : ActiveOf(b) = {}
        BY DEF Init, NoLoan, ActiveOf, ActiveStatuses
    <2> QED BY <2>1, FS_EmptySet DEF Init, Circulating
<1>2. {r \in Loans : loan[r].status = "RETURNED"} = {}
    BY DEF Init, NoLoan
<1> QED BY <1>1, <1>2 DEF Promise!Init

LEMMA PromiseStep ==
    ASSUME TypeOK, TitlesKept, [Next]_vars
    PROVE  [Promise!Next]_(Promise!vars)
<1> USE DEF Copies, Out, Settled
<1>0. ASSUME Copies' = Copies /\ Out' = Out /\ Settled' = Settled
      PROVE  [Promise!Next]_(Promise!vars)
    BY <1>0 DEF Promise!vars
<1>1. CASE UNCHANGED vars
    BY <1>0, <1>1, Quiet DEF vars
<1>2. CASE NextDay
    BY <1>0, <1>2, Quiet DEF NextDay
<1>3. ASSUME NEW m \in Members, AccountChange(m) PROVE [Promise!Next]_(Promise!vars)
    BY <1>0, <1>3, Quiet DEF AccountChange
<1>4. ASSUME NEW b \in Books, NEW n \in 0..MaxCopies,
             CreateBook(b, n) \/ UpdateBook(b, n)
      PROVE  [Promise!Next]_(Promise!vars)
    <2>1. /\ Copies' = [Copies EXCEPT ![b] = n]
          /\ n \in Nat /\ n >= Cardinality(ActiveOf(b))
          /\ Out' = Out /\ Settled' = Settled
        BY <1>4, StockSet
    <2>2. Copies'[b] = n /\ Out[b] = ActiveOf(b)
        BY <2>1
    <2>3. Copies' = [Copies EXCEPT ![b] = Copies'[b]]
        BY <2>1, <2>2
    <2>4. Promise!Restock(b)
        BY <2>1, <2>2, <2>3, SameCardinality DEF Promise!Restock
    <2> QED BY <2>4 DEF Promise!Next
<1>5. ASSUME NEW b \in Books, DeleteBook(b) PROVE [Promise!Next]_(Promise!vars)
    BY <1>0, <1>5, Quiet DEF DeleteBook
<1>6. ASSUME NEW m \in Members, NEW b \in Books, NEW r \in Loans, Borrow(m, b, r)
      PROVE  [Promise!Next]_(Promise!vars)
    <2>1. /\ Copies' = Copies
          /\ Out' = [Out EXCEPT ![b] = @ \cup {r}]
          /\ Settled' = Settled
          /\ r \notin Settled
          /\ \A c \in Books : r \notin Out[c]
          /\ Cardinality(Out[b]) < Copies[b]
        BY <1>6, BorrowMoves
    <2>2. Promise!Lend(b, r)
        BY <2>1, SameCardinality DEF Promise!Lend
    <2> QED BY <2>2 DEF Promise!Next
<1>7. ASSUME NEW r \in Loans, Return(r) PROVE [Promise!Next]_(Promise!vars)
    <2>1. loan[r].book \in Books /\ Promise!Settle(loan[r].book, r, FALSE)
        BY <1>7, ReturnMoves DEF Promise!Settle
    <2> QED BY <2>1 DEF Promise!Next
<1>8. ASSUME NEW r \in Loans, MarkLost(r) PROVE [Promise!Next]_(Promise!vars)
    BY <1>0, <1>8, LostIsQuiet
<1>9. ASSUME NEW r \in Loans, NEW restore \in BOOLEAN, ResolveLost(r, restore)
      PROVE  [Promise!Next]_(Promise!vars)
    <2>1. loan[r].book \in Books /\ Promise!Settle(loan[r].book, r, ~restore)
        BY <1>9, ResolveMoves DEF Promise!Settle
    <2> QED BY <2>1 DEF Promise!Next
<1>10. ASSUME NEW r \in Loans, PayFine(r) PROVE [Promise!Next]_(Promise!vars)
    BY <1>0, <1>10, Quiet DEF PayFine
<1>11. ASSUME NEW S \in SUBSET Loans, SyncOverdue(S)
       PROVE  [Promise!Next]_(Promise!vars)
    BY <1>0, <1>11, SyncIsQuiet
<1> QED BY <1>1, <1>2, <1>3, <1>4, <1>5, <1>6, <1>7, <1>8, <1>9, <1>10, <1>11
        DEF Next

\* Every behaviour of the desk is one of a lending desk that never lends a copy
\* twice, settles a record once, and gains or loses copies only when stock is
\* set or a lost copy is written off.
THEOREM DeskKeepsPromise == Spec => KeepsPromise
<1>1. Init => Promise!Init
    BY PromiseInit
<1>2. TypeOK /\ TitlesKept /\ [Next]_vars => [Promise!Next]_(Promise!vars)
    BY PromiseStep
<1> QED BY <1>1, <1>2, TypeCorrect, TitlesAreKept, PTL
        DEF Spec, KeepsPromise, Promise!Spec

-----------------------------------------------------------------------------
(***************************************************************************)
(* Conservation of copies.                                                 *)
(***************************************************************************)
LEMMA ConservationHolds ==
    ASSUME TypeOK, TitlesKept, [Next]_vars
    PROVE  ConservationStep
<1> SUFFICES ASSUME NEW c \in Books, Circulating(c)' # Circulating(c)
             PROVE  \/ loan' = loan /\ Circulating(c)' = total'[c]
                    \/ /\ Circulating(c)' = Circulating(c) - 1
                       /\ \E r \in Loans : /\ loan[r].status = "LOST"
                                           /\ loan[r].book = c
                                           /\ loan'[r].status = "RETURNED"
    BY DEF ConservationStep
<1>0. Copies'[c] # Copies[c] /\ Copies[c] = Circulating(c) /\ Copies'[c] = Circulating(c)'
    BY DEF Copies
<1>1. ~UNCHANGED vars /\ ~NextDay
    BY <1>0, Quiet DEF vars, NextDay
<1>2. \A m \in Members : ~AccountChange(m)
    BY <1>0, Quiet DEF AccountChange
<1>3. \A b \in Books : ~DeleteBook(b)
    BY <1>0, Quiet DEF DeleteBook
<1>4. \A m \in Members, b \in Books, r \in Loans : ~Borrow(m, b, r)
    BY <1>0, BorrowMoves
<1>5. \A r \in Loans : ~Return(r) /\ ~MarkLost(r) /\ ~PayFine(r)
    BY <1>0, ReturnMoves, LostIsQuiet, Quiet DEF PayFine
<1>6. \A S \in SUBSET Loans : ~SyncOverdue(S)
    BY <1>0, SyncIsQuiet
<1>7. ASSUME NEW b \in Books, NEW n \in 0..MaxCopies,
             CreateBook(b, n) \/ UpdateBook(b, n)
      PROVE  loan' = loan /\ Circulating(c)' = total'[c]
    <2>1. /\ Copies' = [Copies EXCEPT ![b] = n]
          /\ total'[b] = n /\ loan' = loan
        BY <1>7, StockSet
    <2>2. c = b /\ Copies'[b] = n
        BY <1>0, <2>1 DEF Copies
    <2> QED BY <1>0, <2>1, <2>2
<1>8. ASSUME NEW r \in Loans, NEW restore \in BOOLEAN, ResolveLost(r, restore)
      PROVE  /\ Circulating(c)' = Circulating(c) - 1
             /\ loan[r].status = "LOST"
             /\ loan[r].book = c
             /\ loan'[r].status = "RETURNED"
    <2>1. Copies' = IF restore THEN Copies
                    ELSE [Copies EXCEPT ![loan[r].book] = @ - 1]
        BY <1>8, ResolveMoves
    <2>2. loan[r].book = c /\ Copies'[c] = Copies[c] - 1
        BY <1>0, <2>1 DEF Copies
    <2>3. loan[r].status = "LOST" /\ loan'[r] = ReturnedRow(r)
        BY <1>8 DEF ResolveLost, TypeOK
    <2>4. ReturnedRow(r).status = "RETURNED"
        BY <2>3, SettledRow
    <2> QED BY <1>0, <2>2, <2>3, <2>4
<1> QED BY <1>1, <1>2, <1>3, <1>4, <1>5, <1>6, <1>7, <1>8 DEF Next

\* Circulation neither makes nor mislays a copy: the number that circulates of
\* a title moves only when stock is set, or by one when a lost copy is written
\* off.
THEOREM CopiesAreConserved == Spec => CopiesConserved
<1>1. TypeOK /\ TitlesKept /\ [Next]_vars => [ConservationStep]_vars
    BY ConservationHolds
<1> QED BY <1>1, TypeCorrect, TitlesAreKept, PTL DEF Spec, CopiesConserved
=============================================================================
