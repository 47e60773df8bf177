---------------------------- MODULE AdminProofs ----------------------------
(***************************************************************************)
(* Theorems about AdminSite.tla, for every set of members and titles, every*)
(* finite set of records and every setting.                                *)
(***************************************************************************)
EXTENDS AdminSite, LibraryProofs

\* A page shows what a row once was; a record's keeps its member and title.
FormTyped ==
    /\ form.kind \in {"none", "new", "book", "record"}
    /\ form.kind = "none" => form = NoForm
    /\ form.kind = "book" => form.key \in Books /\ form.available \in Nat
    /\ form.kind = "record" =>
         /\ form.key \in Loans
         /\ form.row \in LoanRows
         /\ form.fine \in FineRows \cup {NoFine}
         /\ Exists(form.key)
         /\ loan[form.key].member = form.row.member
         /\ loan[form.key].book = form.row.book

StockFits == \A b \in Books : available[b] <= total[b]
FinesBelong == \A r \in Loans : fine[r] # NoFine => Exists(r)

AdminInv ==
    /\ TypeOK
    /\ TitlesKept
    /\ OneActivePerTitle
    /\ StockFits
    /\ FinesBelong
    /\ FormTyped

LEMMA AdminInitHolds == AdminInit => AdminInv
<1> SUFFICES ASSUME AdminInit PROVE AdminInv
    OBVIOUS
<1>1. TypeOK
    BY DEF AdminInit, Init, TypeOK
<1>2. TitlesKept /\ OneActivePerTitle
    BY DEF AdminInit, Init, TitlesKept, OneActivePerTitle, ActiveOf, ActiveStatuses,
           Exists, NoLoan
<1>3. StockFits /\ FinesBelong /\ FormTyped
    BY DEF AdminInit, Init, StockFits, FinesBelong, FormTyped, NoForm
<1> QED BY <1>1, <1>2, <1>3 DEF AdminInv

-----------------------------------------------------------------------------
(***************************************************************************)
(* The services, while a page may be open.                                 *)
(***************************************************************************)
LEMMA StockFitsStep ==
    ASSUME AdminInv, Next
    PROVE  StockFits'
<1> SUFFICES ASSUME NEW c \in Books PROVE available'[c] <= total'[c]
    BY DEF StockFits
<1>0. available[c] \in Nat /\ total[c] \in Nat /\ available[c] <= total[c]
    BY DEF AdminInv, TypeOK, StockFits
<1>1. ASSUME UNCHANGED <<available, total>> PROVE available'[c] <= total'[c]
    BY <1>0, <1>1
<1>2. ASSUME NEW b \in Books, NEW n \in 0..MaxCopies, CreateBook(b, n) \/ UpdateBook(b, n)
      PROVE  available'[c] <= total'[c]
    <2>1. n \in Nat /\ Cardinality(ActiveOf(b)) \in Nat
        BY SettingsAssumption, ActiveFinite
    <2> QED BY <1>0, <1>2, <2>1 DEF CreateBook, UpdateBook, AdminInv, TypeOK
<1>3. ASSUME NEW m \in Members, NEW b \in Books, NEW r \in Loans, Borrow(m, b, r)
      PROVE  available'[c] <= total'[c]
    BY <1>0, <1>3 DEF Borrow, AdminInv, TypeOK
<1>4. ASSUME NEW r \in Loans, Return(r) PROVE available'[c] <= total'[c]
    BY <1>0, <1>4 DEF Return, AdminInv, TypeOK
<1>5. ASSUME NEW r \in Loans, NEW restore \in BOOLEAN, ResolveLost(r, restore)
      PROVE  available'[c] <= total'[c]
    BY <1>0, <1>5 DEF ResolveLost, AdminInv, TypeOK
<1> QED BY <1>1, <1>2, <1>3, <1>4, <1>5
        DEF Next, NextDay, AccountChange, DeleteBook, MarkLost, PayFine, SyncOverdue

\* Fines are charged to records that exist.
LEMMA FinesBelongStep ==
    ASSUME AdminInv, Next
    PROVE  FinesBelong'
<1> SUFFICES ASSUME NEW s \in Loans, fine'[s] # NoFine PROVE Exists(s)'
    BY DEF FinesBelong
<1>1. Exists(s)
    <2>1. CASE fine'[s] = fine[s]
        BY <2>1 DEF AdminInv, FinesBelong
    <2>2. ASSUME NEW r \in Loans, Return(r), fine'[s] # fine[s] PROVE Exists(s)
        BY <2>2 DEF Return, OpenStatuses, Exists, AdminInv, TypeOK
    <2>3. ASSUME NEW r \in Loans, PayFine(r), fine'[s] # fine[s] PROVE Exists(s)
        <3>1. s = r
            BY <2>3 DEF PayFine, AdminInv, TypeOK
        <3> QED BY <2>3, <3>1 DEF PayFine, NoFine, AdminInv, FinesBelong
    <2> QED BY <2>1, <2>2, <2>3
            DEF Next, NextDay, AccountChange, CreateBook, UpdateBook, DeleteBook, Borrow,
                MarkLost, ResolveLost, SyncOverdue
<1> QED BY <1>1, RecordsStay DEF AdminInv

LEMMA ServiceStep ==
    ASSUME AdminInv, Next, form' = form
    PROVE  AdminInv'
<1>1. TypeOK' /\ TitlesKept' /\ OneActivePerTitle'
    BY TypeStep, TitlesStep, OneActiveStep DEF AdminInv
<1>2. FormTyped'
    <2>1. form.kind = "record" =>
            /\ Exists(form.key)'
            /\ loan'[form.key].member = loan[form.key].member
            /\ loan'[form.key].book = loan[form.key].book
        BY RecordsStay DEF AdminInv, FormTyped
    <2> QED BY <2>1 DEF AdminInv, FormTyped, Exists
<1> QED BY <1>1, <1>2, StockFitsStep, FinesBelongStep DEF AdminInv

-----------------------------------------------------------------------------
(***************************************************************************)
(* The pages.                                                              *)
(***************************************************************************)
LEMMA PageStep ==
    ASSUME AdminInv, UNCHANGED vars, FormTyped'
    PROVE  AdminInv'
BY DEF vars, AdminInv, TypeOK, TitlesKept, OneActivePerTitle, ActiveOf, Exists, StockFits,
       FinesBelong

LEMMA OpenStep ==
    ASSUME AdminInv,
           \/ \E b \in Books : OpenBook(b)
           \/ \E r \in Loans : OpenRecord(r)
           \/ OpenNewRecord
           \/ Close
    PROVE  AdminInv'
<1>1. ASSUME NEW b \in Books, OpenBook(b) PROVE FormTyped'
    BY <1>1 DEF OpenBook, Open, FormTyped, AdminInv, TypeOK
<1>2. ASSUME NEW r \in Loans, OpenRecord(r) PROVE FormTyped'
    <2>1. loan[r] \in LoanRows
        BY <1>2, ExistingRow DEF OpenRecord, Exists, AdminInv
    <2> QED BY <1>2, <2>1 DEF OpenRecord, Open, FormTyped, AdminInv, TypeOK, Exists, vars
<1>3. ASSUME OpenNewRecord PROVE FormTyped'
    BY <1>3 DEF OpenNewRecord, Open, FormTyped
<1>4. ASSUME Close PROVE FormTyped'
    BY <1>4 DEF Close, FormTyped, NoForm
<1>5. UNCHANGED vars
    BY DEF OpenBook, OpenRecord, OpenNewRecord, Open, Close
<1> QED BY <1>1, <1>2, <1>3, <1>4, <1>5, PageStep

LEMMA PostBookStep ==
    ASSUME AdminInv, NEW n \in 0..MaxCopies, PostBook(n)
    PROVE  AdminInv'
<1>1. n \in Nat /\ form.key \in Books /\ form.available \in Nat
    BY SettingsAssumption DEF PostBook, AdminInv, FormTyped
<1>2. TypeOK' /\ StockFits'
    BY <1>1 DEF PostBook, FitsShelf, AdminInv, TypeOK, StockFits
<1>3. FormTyped'
    BY DEF PostBook, FormTyped, NoForm
<1> QED BY <1>2, <1>3 DEF PostBook, AdminInv, TitlesKept, OneActivePerTitle, ActiveOf,
           Exists, FinesBelong

\* A record is written that clashes with no other and refers to a listed title.
LEMMA RecordWritten ==
    ASSUME AdminInv, NEW r \in Loans, NEW row \in LoanRows, UniqueActive(r, row),
           shelf[row.book] = "listed",
           loan' = [loan EXCEPT ![r] = row],
           fine' \in [Loans -> FineRows \cup {NoFine}],
           \A s \in Loans : fine'[s] # NoFine => s = r \/ fine[s] # NoFine,
           form' = NoForm,
           UNCHANGED <<day, shelf, total, available, eligible>>
    PROVE  AdminInv'
<1>1. TypeOK'
    BY DEF AdminInv, TypeOK
<1>2. /\ loan'[r] = row /\ \A s \in Loans \ {r} : loan'[s] = loan[s]
      /\ row.status # "NONE"
    BY DEF AdminInv, TypeOK, LoanRows
<1>3. TitlesKept' /\ FinesBelong'
    BY <1>2 DEF AdminInv, TitlesKept, FinesBelong, Exists
<1>4. OneActivePerTitle'
    <2> SUFFICES ASSUME NEW b \in Books, NEW s \in ActiveOf(b)', NEW t \in ActiveOf(b)',
                        loan'[s].member = loan'[t].member
                 PROVE  s = t
        BY DEF OneActivePerTitle
    <2>1. /\ ActiveOf(b)' \ {r} = ActiveOf(b) \ {r}
          /\ r \in ActiveOf(b)' => row.status \in ActiveStatuses /\ row.book = b
        BY OneRecordActive DEF AdminInv
    <2>2. /\ s # r => s \in ActiveOf(b) /\ loan'[s] = loan[s]
          /\ t # r => t \in ActiveOf(b) /\ loan'[t] = loan[t]
        BY <1>2, <2>1 DEF ActiveOf
    <2>3. CASE s # r /\ t # r
        BY <2>2, <2>3 DEF AdminInv, OneActivePerTitle
    <2>4. CASE s = r /\ t # r
        BY <1>2, <2>1, <2>2, <2>4 DEF UniqueActive
    <2>5. CASE s # r /\ t = r
        BY <1>2, <2>1, <2>2, <2>5 DEF UniqueActive
    <2> QED BY <2>3, <2>4, <2>5
<1>5. StockFits' /\ FormTyped'
    BY DEF AdminInv, StockFits, FormTyped, NoForm
<1> QED BY <1>1, <1>3, <1>4, <1>5 DEF AdminInv

LEMMA PostRecordStep ==
    ASSUME AdminInv, NEW status \in ActiveStatuses \cup {"RETURNED"}, PostRecord(status)
    PROVE  AdminInv'
<1>1. PICK r \in Loans : r = form.key
    BY DEF PostRecord, AdminInv, FormTyped
<1> DEFINE row == [form.row EXCEPT !.status = status]
<1>2. /\ form.row \in LoanRows /\ form.fine \in FineRows \cup {NoFine}
      /\ Exists(r) /\ loan[r].book = form.row.book
    BY <1>1 DEF PostRecord, AdminInv, FormTyped
<1>3. row \in LoanRows /\ row.book = loan[r].book
    BY <1>2 DEF LoanRows, ActiveStatuses
<1>4. UniqueActive(r, row) /\ loan' = [loan EXCEPT ![r] = row]
    BY <1>1 DEF PostRecord
<1>5. fine' = [fine EXCEPT ![r] = IF form.fine = NoFine \/ fine[r] = NoFine THEN fine[r]
                                  ELSE form.fine]
    BY <1>1 DEF PostRecord
<1>6. /\ fine' \in [Loans -> FineRows \cup {NoFine}]
      /\ \A s \in Loans : fine'[s] # NoFine => s = r \/ fine[s] # NoFine
    BY <1>2, <1>5 DEF AdminInv, TypeOK
<1>7. shelf[row.book] = "listed"
    BY <1>2, <1>3 DEF AdminInv, TitlesKept
<1> HIDE DEF row
<1> QED BY <1>3, <1>4, <1>6, <1>7, RecordWritten DEF PostRecord

LEMMA PostNewRecordStep ==
    ASSUME AdminInv, NEW m \in Members, NEW b \in Books, NEW r \in Loans,
           PostNewRecord(m, b, r)
    PROVE  AdminInv'
<1> DEFINE row == [status |-> "BORROWED", member |-> m, book |-> b,
                   due |-> day + LoanDays, returned |-> Never]
<1>1. row \in LoanRows /\ row.book = b
    BY SettingsAssumption DEF AdminInv, TypeOK, LoanRows
<1>2. UniqueActive(r, row) /\ loan' = [loan EXCEPT ![r] = row]
    BY DEF PostNewRecord
<1>3. /\ fine' \in [Loans -> FineRows \cup {NoFine}]
      /\ \A s \in Loans : fine'[s] # NoFine => s = r \/ fine[s] # NoFine
    BY DEF PostNewRecord, AdminInv, TypeOK
<1> HIDE DEF row
<1> QED BY <1>1, <1>2, <1>3, RecordWritten DEF PostNewRecord

LEMMA DeleteRecordsStep ==
    ASSUME AdminInv, NEW S \in SUBSET Loans, DeleteRecords(S)
    PROVE  AdminInv'
<1>1. \A r \in Loans : /\ loan'[r] = IF r \in S THEN NoLoan ELSE loan[r]
                       /\ fine'[r] = IF r \in S THEN NoFine ELSE fine[r]
    BY DEF DeleteRecords
<1>2. TypeOK'
    BY DEF DeleteRecords, AdminInv, TypeOK
<1>3. TitlesKept' /\ FinesBelong' /\ StockFits'
    BY <1>1 DEF DeleteRecords, AdminInv, TitlesKept, FinesBelong, StockFits, Exists, NoLoan
<1>4. OneActivePerTitle'
    BY <1>1, OneActiveUntouched DEF AdminInv, NoLoan, ActiveStatuses
<1>5. FormTyped'
    <2>1. CASE form' = NoForm
        BY <2>1 DEF FormTyped, NoForm
    <2>2. CASE form' = form /\ ~(form.kind = "record" /\ form.key \in S)
        BY <1>1, <2>2 DEF AdminInv, FormTyped, Exists
    <2> QED BY <2>1, <2>2 DEF DeleteRecords
<1> QED BY <1>2, <1>3, <1>4, <1>5 DEF AdminInv

-----------------------------------------------------------------------------
\* The tables fit each other whatever stale pages are posted (books/admin.py 26,
\* borrowing/admin.py).
THEOREM TablesStayTables == AdminSiteSpec => []AdminInv
<1>1. AdminInv /\ [AdminNext]_adminVars => AdminInv'
    <2> SUFFICES ASSUME AdminInv, [AdminNext]_adminVars PROVE AdminInv'
        OBVIOUS
    <2>1. CASE UNCHANGED adminVars
        <3>1. FormTyped'
            BY <2>1 DEF adminVars, vars, AdminInv, FormTyped, Exists
        <3> QED BY <2>1, <3>1, PageStep DEF adminVars
    <2> QED BY <2>1, ServiceStep, OpenStep, PostBookStep, PostRecordStep,
               PostNewRecordStep, DeleteRecordsStep DEF AdminNext
<1> QED BY <1>1, AdminInitHolds, PTL DEF AdminSiteSpec

\* In particular no shelf holds more copies than there are, and no fine outlives its
\* record (borrowing/models.py 92-96).
THEOREM AdminTyped == AdminSiteSpec => []AdminTypeOK
<1>1. AdminInv => AdminTypeOK
    BY DEF AdminInv, AdminTypeOK, StockFits, FinesBelong
<1> QED BY <1>1, TablesStayTables, PTL

\* unique_active_borrow_per_member_book holds with pages too (borrowing/models.py 55).
THEOREM OneActiveWithPages == AdminSiteSpec => []OneActivePerTitle
<1>1. AdminInv => OneActivePerTitle
    BY DEF AdminInv
<1> QED BY <1>1, TablesStayTables, PTL

-----------------------------------------------------------------------------
\* No service uncovers a title, whatever the other titles look like.
LEMMA ServicesCover ==
    ASSUME AdminInv, Next, NEW c \in Books, Covered(c)
    PROVE  Covered(c)'
<1>0. /\ Copies[c] = Circulating(c) /\ Copies'[c] = Circulating(c)'
      /\ Circulating(c) <= total[c] /\ total[c] \in Nat
    BY DEF Copies, Covered, AdminInv, TypeOK
<1>1. ASSUME Copies' = Copies, total' = total PROVE Covered(c)'
    BY <1>0, <1>1 DEF Covered
<1>2. ASSUME NEW b \in Books, NEW n \in 0..MaxCopies, CreateBook(b, n) \/ UpdateBook(b, n)
      PROVE  Covered(c)'
    <2>1. Copies' = [Copies EXCEPT ![b] = n] /\ n \in Nat /\ total'[b] = n
        BY <1>2, StockSet DEF AdminInv
    <2>2. CASE c = b
        <3>1. Copies'[b] = n
            BY <2>1 DEF Copies
        <3> QED BY <1>0, <2>1, <2>2, <3>1 DEF Covered
    <2>3. CASE c # b
        <3>1. Copies'[c] = Copies[c] /\ total'[c] = total[c]
            BY <1>2, <2>1, <2>3 DEF Copies, CreateBook, UpdateBook, AdminInv, TypeOK
        <3> QED BY <1>0, <3>1 DEF Covered
    <2> QED BY <2>2, <2>3
<1>3. ASSUME NEW m \in Members, NEW b \in Books, NEW r \in Loans, Borrow(m, b, r)
      PROVE  Covered(c)'
    BY <1>1, <1>3, BorrowMoves DEF Borrow, AdminInv
<1>4. ASSUME NEW r \in Loans, Return(r) PROVE Covered(c)'
    BY <1>1, <1>4, ReturnMoves DEF Return, AdminInv
<1>5. ASSUME NEW r \in Loans, NEW restore \in BOOLEAN, ResolveLost(r, restore)
      PROVE  Covered(c)'
    <2>1. Copies' = IF restore THEN Copies ELSE [Copies EXCEPT ![loan[r].book] = @ - 1]
        BY <1>5, ResolveMoves DEF AdminInv
    <2>2. Circulating(c) \in Nat
        BY ActiveFinite DEF Circulating, AdminInv, TypeOK
    <2>3. Copies'[c] <= Copies[c]
        BY <1>0, <2>1, <2>2 DEF Copies
    <2>4. Copies'[c] \in Int
        BY <1>0, <2>1, <2>2 DEF Copies
    <2> QED BY <1>0, <1>5, <2>2, <2>3, <2>4 DEF Covered, ResolveLost
<1>6. ASSUME NEW r \in Loans, MarkLost(r) PROVE Covered(c)'
    BY <1>1, <1>6, LostIsQuiet DEF MarkLost, AdminInv
<1>7. ASSUME NEW S \in SUBSET Loans, SyncOverdue(S) PROVE Covered(c)'
    BY <1>1, <1>7, SyncIsQuiet DEF SyncOverdue, AdminInv
<1> QED BY <1>1, <1>2, <1>3, <1>4, <1>5, <1>6, <1>7, Quiet
        DEF Next, NextDay, AccountChange, DeleteBook, PayFine

\* Every post leaves the page.
LEMMA PostsClose ==
    ASSUME \/ \E b \in Books : OpenBook(b)
           \/ \E r \in Loans : OpenRecord(r)
           \/ OpenNewRecord
           \/ Close
           \/ \E n \in 0..MaxCopies : PostBook(n)
           \/ \E status \in ActiveStatuses \cup {"RETURNED"} : PostRecord(status)
           \/ \E m \in Members, b \in Books, r \in Loans : PostNewRecord(m, b, r)
    PROVE  form' # form
<1>1. NoForm.kind = "none"
    BY DEF NoForm
<1>2. ASSUME NEW b \in Books, OpenBook(b) PROVE form'.kind = "book" /\ form = NoForm
    BY <1>2 DEF OpenBook, Open
<1>3. ASSUME NEW r \in Loans, OpenRecord(r) PROVE form'.kind = "record" /\ form = NoForm
    BY <1>3 DEF OpenRecord, Open
<1>4. OpenNewRecord => form'.kind = "new" /\ form = NoForm
    BY DEF OpenNewRecord, Open
<1>5. ASSUME NEW n \in 0..MaxCopies, PostBook(n)
      PROVE  form.kind = "book" /\ form' = NoForm
    BY <1>5 DEF PostBook
<1>6. ASSUME NEW status \in ActiveStatuses \cup {"RETURNED"}, PostRecord(status)
      PROVE  form.kind = "record" /\ form' = NoForm
    BY <1>6 DEF PostRecord
<1>7. ASSUME NEW m \in Members, NEW b \in Books, NEW r \in Loans, PostNewRecord(m, b, r)
      PROVE  form.kind = "new" /\ form' = NoForm
    BY <1>7 DEF PostNewRecord
<1> QED BY <1>1, <1>2, <1>3, <1>4, <1>5, <1>6, <1>7 DEF Close

\* Stock is upset by pages only: a title whose copies are covered stays so under every
\* service, on tables no service would have written (borrowing/services.py 108-338).
THEOREM OnlyFormsUpset == AdminSiteSpec => UpsetByFormsOnly
<1>1. AdminInv /\ [AdminNext]_adminVars => [UpsetStep]_adminVars
    <2> SUFFICES ASSUME AdminInv, AdminNext, NEW b \in Books, Covered(b), form' = form
                 PROVE  Covered(b)'
        BY DEF UpsetStep
    <2>1. ASSUME NEW S \in SUBSET Loans, DeleteRecords(S) PROVE Covered(b)'
        <3>1. ActiveOf(b)' \subseteq ActiveOf(b)
            BY <2>1 DEF DeleteRecords, ActiveOf, ActiveStatuses, NoLoan
        <3>2. /\ Cardinality(ActiveOf(b)') <= Cardinality(ActiveOf(b))
              /\ Cardinality(ActiveOf(b)') \in Nat /\ Cardinality(ActiveOf(b)) \in Nat
            BY <3>1, ActiveFinite, FS_Subset, FS_CardinalityType
        <3>3. available' = available /\ total' = total
            BY <2>1 DEF DeleteRecords
        <3> QED BY <3>2, <3>3 DEF Covered, Circulating, AdminInv, TypeOK
    <2> QED BY <2>1, ServicesCover, PostsClose DEF AdminNext
<1> QED BY <1>1, TablesStayTables, PTL DEF AdminSiteSpec, UpsetByFormsOnly

\* And a service moves a record along its life, from whatever state a page left it in.
THEOREM LifecycleBesideForms == AdminSiteSpec => ServicesKeepLifecycle
<1>1. AdminInv /\ AdminInv' /\ [AdminNext]_adminVars => [KeptStep]_adminVars
    <2> SUFFICES ASSUME AdminInv, AdminInv', AdminNext, NEW r \in Loans,
                        loan'[r] # loan[r], form' = form
                 PROVE  \/ loan'[r] = NoLoan /\ fine'[r] = NoFine
                        \/ /\ <<loan[r].status, loan'[r].status>> \in Moves
                           /\ available'[loan'[r].book] <= total'[loan'[r].book]
        BY DEF KeptStep
    <2>1. ASSUME NEW S \in SUBSET Loans, DeleteRecords(S)
          PROVE  loan'[r] = NoLoan /\ fine'[r] = NoFine
        BY <2>1 DEF DeleteRecords
    <2>2. ASSUME Next
          PROVE  /\ <<loan[r].status, loan'[r].status>> \in Moves
                 /\ available'[loan'[r].book] <= total'[loan'[r].book]
        <3>1. <<loan[r].status, loan'[r].status>> \in Moves
            BY <2>2, LifecycleHolds DEF LifecycleStep, AdminInv
        <3>2. loan'[r].status # "NONE"
            BY <3>1 DEF Moves
        <3>3. loan'[r].book \in Books
            BY <3>2 DEF AdminInv, TypeOK, NoLoan, LoanRows
        <3> QED BY <3>1, <3>3 DEF AdminInv, StockFits
    <2> QED BY <2>1, <2>2, PostsClose DEF AdminNext
<1> QED BY <1>1, TablesStayTables, PTL DEF AdminSiteSpec, ServicesKeepLifecycle
=============================================================================
