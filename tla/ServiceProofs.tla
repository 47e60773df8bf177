--------------------------- MODULE ServiceProofs ---------------------------
(***************************************************************************)
(* Theorems about LoanService.tla, for every number of workers, members,   *)
(* titles and records and every setting: the transactions implement the    *)
(* atomic services of Library.tla, and wait in a circle only where an edit *)
(* that drops a link meets the deletion of the title.                      *)
(*                                                                         *)
(* The invariant says of each transaction which request it serves (Asked), *)
(* which rows it has locked and still has to lock (Queued), that what it   *)
(* saw of the rows it holds is what they are (Current), and which tests it *)
(* has passed (Granted).                                                   *)
(***************************************************************************)
EXTENDS LoanService, LibraryProofs, SequenceTheorems

RecordRows == {RecordRow(r) : r \in Loans}
SeenRows == [eligible : BOOLEAN,
             status   : {"NONE", "BORROWED", "OVERDUE", "LOST", "RETURNED",
                         "PENDING", "PAID", "WAIVED"},
             shelf    : {"absent", "listed", "deleted"},
             stock    : Nat,
             total    : Nat,
             count    : Nat]

BorrowSteps == {"member", "fines", "limit", "title", "insert"}
RecordSteps == {"return", "lost", "resolve"}
BookSteps == {"edit", "save", "delete"}

ControlTyped ==
    /\ step \in [Procs -> Steps]
    /\ req = [p \in Procs |-> req[p]]
    /\ todo = [p \in Procs |-> todo[p]]
    /\ seen \in [Procs -> SeenRows]
    /\ held = [p \in Procs |-> held[p]]

Asked(p) ==
    /\ step[p] \in BorrowSteps => req[p].member \in Members /\ req[p].book \in Books
    /\ step[p] \in RecordSteps => req[p].record \in Loans /\ Exists(req[p].record)
    /\ step[p] = "resolve" => req[p].restore \in BOOLEAN
    /\ step[p] = "pay" => req[p].record \in Loans /\ fine[req[p].record] # NoFine
    /\ step[p] \in BookSteps => req[p].book \in Books
    /\ step[p] \in {"edit", "save"} => req[p].copies \in 0..MaxCopies
    /\ step[p] = "sync" => p = Cron

\* The rows that are waited for, in order, and those that are locked.
Locks(p, rows, locks) == todo[p] = rows /\ held[p] = locks

BorrowQueue(p, m, b) ==
    /\ step[p] = "member" => \/ Locks(p, <<UserRow(m)>>, {})
                             \/ Locks(p, << >>, {UserRow(m)})
    /\ step[p] \in {"fines", "limit"} => Locks(p, << >>, {UserRow(m)})
    /\ step[p] = "title" => \/ Locks(p, <<BookRow(b)>>, {UserRow(m)})
                            \/ Locks(p, << >>, {UserRow(m), BookRow(b)})
                            \/ Locks(p, << >>, {UserRow(m)}) /\ seen[p].shelf # "listed"
    /\ step[p] = "insert" => Locks(p, << >>, {UserRow(m), BookRow(b)})

RecordQueue(p, row, user, book) ==
    /\ step[p] = "return" => \/ Locks(p, <<row, user, book>>, {})
                             \/ Locks(p, <<user, book>>, {row})
                             \/ Locks(p, <<book>>, {row, user})
                             \/ Locks(p, << >>, {row, user, book})
    /\ step[p] \in {"lost", "resolve"} => \/ Locks(p, <<row, book>>, {})
                                          \/ Locks(p, <<book>>, {row})
                                          \/ Locks(p, << >>, {row, book})

BookQueue(p, b) ==
    /\ step[p] = "edit" =>
         \/ Locks(p, <<BookRow(b)>>, {})
         \/ Locks(p, << >>, {BookRow(b)})
         \/ Locks(p, << >>, {}) /\ seen[p].shelf # "listed"
    /\ step[p] = "save" => \/ Locks(p, <<LinksRow(b)>>, {BookRow(b)})
                           \/ Locks(p, << >>, {BookRow(b), LinksRow(b)})
                           \/ Locks(p, << >>, {BookRow(b)})
    /\ step[p] = "delete" =>
         \/ Locks(p, <<LinksRow(b), BookRow(b)>>, {})
         \/ \E links \in SUBSET {LinksRow(b)} :
              \/ Locks(p, <<BookRow(b)>>, links)
              \/ Locks(p, << >>, links \cup {BookRow(b)})
              \/ Locks(p, << >>, links) /\ seen[p].shelf # "listed"

Queued(p) ==
    /\ step[p] = "idle" => Locks(p, << >>, {})
    /\ step[p] \in BorrowSteps => BorrowQueue(p, req[p].member, req[p].book)
    /\ step[p] \in RecordSteps =>
         RecordQueue(p, RecordRow(req[p].record), UserRow(loan[req[p].record].member),
                     BookRow(loan[req[p].record].book))
    /\ step[p] = "pay" => \/ Locks(p, <<FineRow(req[p].record)>>, {})
                          \/ Locks(p, << >>, {FineRow(req[p].record)})
    /\ step[p] \in BookSteps => BookQueue(p, req[p].book)
    /\ step[p] = "sync" => todo[p] \in Seq(RecordRows) /\ held[p] \subseteq RecordRows

Current(p) ==
    /\ \A b \in Books : BookRow(b) \in held[p] =>
         /\ shelf[b] = "listed" /\ seen[p].shelf = "listed"
         /\ seen[p].stock = available[b] /\ seen[p].total = total[b]
    /\ step[p] = "member" /\ todo[p] = << >> => seen[p].eligible = eligible[req[p].member]
    /\ step[p] \in RecordSteps /\ RecordRow(req[p].record) \in held[p] =>
         seen[p].status = loan[req[p].record].status
    /\ step[p] = "pay" /\ todo[p] = << >> => seen[p].status = fine[req[p].record].status
    /\ step[p] = "sync" => \A r \in Loans : RecordRow(r) \in held[p] => PastDue(r)

Granted(p) ==
    /\ step[p] \in {"fines", "limit", "title", "insert"} => eligible[req[p].member]
    /\ step[p] \in {"limit", "title", "insert"} =>
         ~(BlockOnPendingFines /\ HasPendingFines(req[p].member))
    /\ step[p] \in {"title", "insert"} =>
         Cardinality(OpenOf(req[p].member)) < BorrowLimit[req[p].member]
    /\ step[p] = "insert" =>
         ~HasActive(req[p].member, req[p].book) /\ seen[p].stock >= 1
    /\ step[p] = "save" =>
         /\ seen[p].count = Cardinality(ActiveOf(req[p].book))
         /\ req[p].copies >= seen[p].count

Serving(p) == Asked(p) /\ Queued(p) /\ Current(p) /\ Granted(p)

ServiceInv ==
    /\ TypeOK /\ TitlesKept /\ StockCovered
    /\ ControlTyped
    /\ \A p \in Procs : Serving(p)
    /\ \A p, q \in Procs : p # q => held[p] \cap held[q] = {}

LEMMA ServiceInitHolds == ServiceInit => ServiceInv
<1> SUFFICES ASSUME ServiceInit PROVE ServiceInv
    OBVIOUS
<1>1. TypeOK /\ TitlesKept
    BY DEF ServiceInit, Init, TypeOK, TitlesKept, Exists, NoLoan
<1>2. StockCovered
    <2> SUFFICES ASSUME NEW b \in Books PROVE Circulating(b) <= total[b]
        BY DEF StockCovered
    <2>1. ActiveOf(b) = {}
        BY DEF ServiceInit, Init, ActiveOf, ActiveStatuses, NoLoan
    <2> QED BY <2>1, FS_EmptySet DEF ServiceInit, Init, Circulating
<1>3. ControlTyped
    BY DEF ServiceInit, ControlTyped, Steps, SeenRows, NoSeen
<1>4. ASSUME NEW p \in Procs PROVE Serving(p)
    <2>1. step[p] = "idle" /\ todo[p] = << >> /\ held[p] = {}
        BY DEF ServiceInit
    <2> QED BY <2>1 DEF Serving, Asked, Queued, Current, Granted, BorrowSteps, RecordSteps,
                        BookSteps, Locks
<1>5. \A p, q \in Procs : p # q => held[p] \cap held[q] = {}
    BY DEF ServiceInit
<1> QED BY <1>1, <1>2, <1>3, <1>4, <1>5 DEF ServiceInv

-----------------------------------------------------------------------------
(***************************************************************************)
(* What the step of one transaction leaves to another: the rows that are   *)
(* locked, and what was tested under their locks.                          *)
(***************************************************************************)
LEMMA RowsDiffer ==
    /\ \A m, n : UserRow(m) = UserRow(n) => m = n
    /\ \A m, n : BookRow(m) = BookRow(n) => m = n
    /\ \A m, n : LinksRow(m) = LinksRow(n) => m = n
    /\ \A m, n : RecordRow(m) = RecordRow(n) => m = n
    /\ \A m, n : FineRow(m) = FineRow(n) => m = n
    /\ \A m, n : /\ UserRow(m) # BookRow(n) /\ UserRow(m) # RecordRow(n)
                 /\ UserRow(m) # FineRow(n) /\ BookRow(m) # RecordRow(n)
                 /\ BookRow(m) # FineRow(n) /\ RecordRow(m) # FineRow(n)
    /\ \A m, n : /\ LinksRow(m) # UserRow(n) /\ LinksRow(m) # BookRow(n)
                 /\ LinksRow(m) # RecordRow(n) /\ LinksRow(m) # FineRow(n)
BY DEF UserRow, BookRow, LinksRow, RecordRow, FineRow

Spares(q) ==
    /\ \A b \in Books : BookRow(b) \in held[q] =>
         /\ shelf'[b] = shelf[b] /\ available'[b] = available[b] /\ total'[b] = total[b]
         /\ ActiveOf(b)' = ActiveOf(b)
    /\ \A m \in Members : UserRow(m) \in held[q] =>
         /\ eligible'[m] = eligible[m]
         /\ HasPendingFines(m)' => HasPendingFines(m)
         /\ Cardinality(OpenOf(m)') <= Cardinality(OpenOf(m))
         /\ \A b \in Books : HasActive(m, b)' => HasActive(m, b)
    /\ \A r \in Loans : RecordRow(r) \in held[q] => loan'[r] = loan[r]
    /\ \A r \in Loans : FineRow(r) \in held[q] /\ fine[r] # NoFine => fine'[r] = fine[r]
    /\ \A r \in Loans : fine[r] # NoFine => fine'[r] # NoFine
    /\ day' >= day

Same(q) ==
    step'[q] = step[q] /\ req'[q] = req[q] /\ todo'[q] = todo[q] /\ seen'[q] = seen[q]
    /\ held'[q] = held[q]

LEMMA AskedKept ==
    ASSUME ServiceInv, [Next]_vars, NEW q \in Procs, Spares(q), Same(q)
    PROVE  Asked(q)'
<1>1. Asked(q)
    BY DEF ServiceInv, Serving
<1>2. \A r \in Loans : Exists(r) => Exists(r)'
    BY RecordsStay DEF ServiceInv
<1>3. step[q] \in RecordSteps => loan'[req[q].record].status # "NONE"
    BY <1>1, <1>2 DEF Asked, Exists
<1> QED BY <1>3, <1>1, <1>2 DEF Asked, Spares, Same, Exists

LEMMA QueuedKept ==
    ASSUME ServiceInv, [Next]_vars, NEW q \in Procs, Same(q)
    PROVE  Queued(q)'
<1>1. Asked(q) /\ Queued(q)
    BY DEF ServiceInv, Serving
<1>2. step[q] \in RecordSteps =>
        /\ loan'[req[q].record].member = loan[req[q].record].member
        /\ loan'[req[q].record].book = loan[req[q].record].book
    BY <1>1, RecordsStay DEF ServiceInv, Asked
<1>3. CASE step[q] \in RecordSteps
    BY <1>1, <1>2, <1>3 DEF Queued, Same, RecordQueue, Locks, RecordSteps, BorrowSteps,
                            BookSteps
<1>4. CASE step[q] \notin RecordSteps
    BY <1>1, <1>4 DEF Queued, Same, BorrowQueue, BookQueue, Locks
<1> QED BY <1>3, <1>4

LEMMA CurrentKept ==
    ASSUME ServiceInv, [Next]_vars, NEW q \in Procs, Spares(q), Same(q)
    PROVE  Current(q)'
<1>1. Asked(q) /\ Queued(q) /\ Current(q)
    BY DEF ServiceInv, Serving
<1>2. \A b \in Books : BookRow(b) \in held'[q] =>
         /\ shelf'[b] = "listed" /\ seen'[q].shelf = "listed"
         /\ seen'[q].stock = available'[b] /\ seen'[q].total = total'[b]
    BY <1>1 DEF Current, Spares, Same
<1>3. step'[q] = "member" /\ todo'[q] = << >> =>
        seen'[q].eligible = eligible'[req'[q].member]
    <2> SUFFICES ASSUME step[q] = "member", todo[q] = << >>
                 PROVE  seen[q].eligible = eligible'[req[q].member]
        BY DEF Same
    <2>1. UserRow(req[q].member) \in held[q] /\ req[q].member \in Members
        BY <1>1 DEF Asked, Queued, BorrowQueue, BorrowSteps, Locks
    <2> QED BY <1>1, <2>1 DEF Current, Spares
<1>4. step'[q] \in RecordSteps /\ RecordRow(req'[q].record) \in held'[q] =>
        seen'[q].status = loan'[req'[q].record].status
    BY <1>1 DEF Asked, Current, Spares, Same
<1>5. step'[q] = "pay" /\ todo'[q] = << >> =>
        seen'[q].status = fine'[req'[q].record].status
    <2> SUFFICES ASSUME step[q] = "pay", todo[q] = << >>
                 PROVE  seen[q].status = fine'[req[q].record].status
        BY DEF Same
    <2>1. FineRow(req[q].record) \in held[q]
        BY <1>1 DEF Queued, Locks
    <2>2. req[q].record \in Loans /\ fine[req[q].record] # NoFine
        BY <1>1 DEF Asked
    <2> QED BY <1>1, <2>1, <2>2 DEF Current, Spares
<1>6. ASSUME step'[q] = "sync", NEW r \in Loans, RecordRow(r) \in held'[q]
      PROVE  PastDue(r)'
    <2>1. PastDue(r) /\ loan'[r] = loan[r]
        BY <1>1, <1>6 DEF Current, Spares, Same
    <2>2. loan[r] \in LoanRows
        BY <2>1, ExistingRow DEF ServiceInv, PastDue
    <2>3. loan[r].due \in Nat /\ day \in Nat /\ day' \in Nat /\ day' >= day
        BY <2>2, TypeStep DEF ServiceInv, TypeOK, LoanRows, Spares
    <2> QED BY <2>1, <2>3 DEF PastDue
<1> QED BY <1>2, <1>3, <1>4, <1>5, <1>6 DEF Current

LEMMA GrantedKept ==
    ASSUME ServiceInv, [Next]_vars, NEW q \in Procs, Spares(q), Same(q)
    PROVE  Granted(q)'
<1>1. Asked(q) /\ Queued(q) /\ Granted(q)
    BY DEF ServiceInv, Serving
<1>2. CASE step[q] \in {"fines", "limit", "title", "insert"}
    <2>1. PICK m \in Members, b \in Books : m = req[q].member /\ b = req[q].book
        BY <1>1, <1>2 DEF Asked, BorrowSteps
    <2>2. UserRow(m) \in held[q]
        BY <1>1, <1>2, <2>1 DEF Queued, BorrowQueue, BorrowSteps, Locks
    <2>3. /\ eligible'[m] = eligible[m]
          /\ HasPendingFines(m)' => HasPendingFines(m)
          /\ Cardinality(OpenOf(m)') <= Cardinality(OpenOf(m))
          /\ HasActive(m, b)' => HasActive(m, b)
        BY <2>2 DEF Spares
    <2>4. /\ Cardinality(OpenOf(m)) \in Nat /\ Cardinality(OpenOf(m)') \in Nat
          /\ BorrowLimit[m] \in Nat
        BY OpenFinite, SettingsAssumption, FS_CardinalityType, LoansAssumption, FS_Subset
           DEF OpenOf
    <2>5. Cardinality(OpenOf(m)) < BorrowLimit[m] => Cardinality(OpenOf(m)') < BorrowLimit[m]
        BY <2>3, <2>4
    <2> QED BY <1>1, <1>2, <2>1, <2>3, <2>5 DEF Granted, Same
<1>3. CASE step[q] = "save"
    <2>1. req[q].book \in Books /\ BookRow(req[q].book) \in held[q]
        BY <1>1, <1>3 DEF Asked, Queued, BookQueue, BookSteps, Locks
    <2>2. ActiveOf(req[q].book)' = ActiveOf(req[q].book)
        BY <1>3, <2>1 DEF Spares, Same, ActiveOf
    <2> QED BY <1>1, <1>3, <2>2 DEF Granted, Same
<1> QED BY <1>2, <1>3 DEF Granted, Same

LEMMA ServingKept ==
    ASSUME ServiceInv, [Next]_vars, NEW q \in Procs, Spares(q), Same(q)
    PROVE  Serving(q)'
BY AskedKept, QueuedKept, CurrentKept, GrantedKept DEF Serving

-----------------------------------------------------------------------------
(***************************************************************************)
(* Which locks make the services of Library.tla spare another transaction. *)
(***************************************************************************)
LEMMA HeldRecordsExist ==
    ASSUME ServiceInv, NEW q \in Procs, NEW r \in Loans, RecordRow(r) \in held[q]
    PROVE  Exists(r)
<1>1. Asked(q) /\ Queued(q) /\ Current(q)
    BY DEF ServiceInv, Serving
<1>2. step[q] \in Steps
    BY DEF ServiceInv, ControlTyped
<1>3. CASE step[q] \in RecordSteps
    <2>1. r = req[q].record
        BY <1>1, <1>3, RowsDiffer DEF Queued, RecordQueue, RecordSteps, Locks
    <2> QED BY <1>1, <1>3, <2>1 DEF Asked
<1>4. CASE step[q] = "sync"
    BY <1>1, <1>4 DEF Current, PastDue, Exists
<1>5. CASE step[q] \in BorrowSteps
    BY <1>1, <1>5, RowsDiffer DEF Queued, BorrowQueue, BorrowSteps, Locks
<1>6. CASE step[q] \in BookSteps
    BY <1>1, <1>6, RowsDiffer DEF Queued, BookQueue, BookSteps, Locks
<1>7. CASE step[q] \in {"idle", "pay"}
    BY <1>1, <1>7, RowsDiffer DEF Queued, Locks
<1> QED BY <1>2, <1>3, <1>4, <1>5, <1>6, <1>7 DEF Steps, RecordSteps, BorrowSteps, BookSteps

LEMMA QuietSpares ==
    ASSUME ServiceInv, NEW q \in Procs,
           UNCHANGED <<loan, fine, shelf, total, available>>, day' >= day,
           \A m \in Members : UserRow(m) \in held[q] => eligible'[m] = eligible[m]
    PROVE  Spares(q)
<1>1. \A b \in Books : ActiveOf(b)' = ActiveOf(b)
    BY DEF ActiveOf
<1>2. ASSUME NEW m \in Members
      PROVE  /\ HasPendingFines(m)' => HasPendingFines(m)
             /\ OpenOf(m)' = OpenOf(m)
             /\ \A b \in Books : HasActive(m, b)' => HasActive(m, b)
    BY <1>1 DEF HasPendingFines, OpenOf, HasActive, Exists
<1>3. \A m \in Members : Cardinality(OpenOf(m)') <= Cardinality(OpenOf(m))
    BY <1>2, OpenFinite
<1> QED BY <1>1, <1>2, <1>3 DEF Spares

LEMMA SameTablesSpare ==
    ASSUME ServiceInv, NEW q \in Procs, UNCHANGED vars
    PROVE  Spares(q)
BY QuietSpares DEF vars, ServiceInv, TypeOK

LEMMA CreateBookSpares ==
    ASSUME ServiceInv, NEW q \in Procs, NEW b \in Books, NEW n \in 0..MaxCopies,
           CreateBook(b, n) \/ (UpdateBook(b, n) /\ BookRow(b) \notin held[q])
    PROVE  Spares(q)
<1>1. BookRow(b) \notin held[q]
    BY DEF CreateBook, ServiceInv, Serving, Current
<1>2. \A c \in Books \ {b} :
        shelf'[c] = shelf[c] /\ available'[c] = available[c] /\ total'[c] = total[c]
    BY DEF CreateBook, UpdateBook, ServiceInv, TypeOK
<1>3. UNCHANGED <<day, eligible, loan, fine>> /\ day \in Nat
    BY DEF CreateBook, UpdateBook, ServiceInv, TypeOK
<1>4. \A c \in Books : ActiveOf(c)' = ActiveOf(c)
    BY <1>3 DEF ActiveOf
<1>5. ASSUME NEW m \in Members
      PROVE  /\ HasPendingFines(m)' => HasPendingFines(m)
             /\ Cardinality(OpenOf(m)') <= Cardinality(OpenOf(m))
             /\ \A c \in Books : HasActive(m, c)' => HasActive(m, c)
    <2>1. OpenOf(m)' = OpenOf(m)
        BY <1>3 DEF OpenOf
    <2> QED BY <1>3, <1>4, <2>1, OpenFinite DEF HasPendingFines, HasActive, Exists
<1> QED BY <1>1, <1>2, <1>3, <1>4, <1>5 DEF Spares

LEMMA DeleteBookSpares ==
    ASSUME ServiceInv, NEW q \in Procs, NEW b \in Books, DeleteBook(b),
           BookRow(b) \notin held[q]
    PROVE  Spares(q)
<1>1. /\ \A c \in Books \ {b} : shelf'[c] = shelf[c]
      /\ UNCHANGED <<day, total, available, eligible, loan, fine>> /\ day \in Nat
    BY DEF DeleteBook, ServiceInv, TypeOK
<1>2. \A c \in Books : ActiveOf(c)' = ActiveOf(c)
    BY <1>1 DEF ActiveOf
<1>3. ASSUME NEW m \in Members
      PROVE  /\ HasPendingFines(m)' => HasPendingFines(m)
             /\ Cardinality(OpenOf(m)') <= Cardinality(OpenOf(m))
             /\ \A c \in Books : HasActive(m, c)' => HasActive(m, c)
    <2>1. OpenOf(m)' = OpenOf(m)
        BY <1>1 DEF OpenOf
    <2> QED BY <1>1, <1>2, <2>1, OpenFinite DEF HasPendingFines, HasActive, Exists
<1> QED BY <1>1, <1>2, <1>3 DEF Spares

\* A record that is written, or its fine, adds to nobody's loans or debts but those
\* of its member.
LEMMA OneRecordSpares ==
    ASSUME TypeOK, NEW r \in Loans, NEW row \in LoanRows,
           loan' = [loan EXCEPT ![r] = row], NEW m \in Members,
           row.status \in OpenStatuses => row.member # m,
           row.status \in ActiveStatuses /\ row.member = m =>
             /\ loan[r].status \in ActiveStatuses
             /\ loan[r].member = m /\ loan[r].book = row.book
    PROVE  /\ Cardinality(OpenOf(m)') <= Cardinality(OpenOf(m))
           /\ \A b \in Books : HasActive(m, b)' => HasActive(m, b)
<1>1. /\ OpenOf(m) \ {r} = OpenOf(m)' \ {r}
      /\ r \notin OpenOf(m)'
    BY OneRecordOpen
<1>2. /\ Cardinality(OpenOf(m)) \in Nat /\ Cardinality(OpenOf(m)') \in Nat
      /\ r \in OpenOf(m) => Cardinality(OpenOf(m)') = Cardinality(OpenOf(m)) - 1
      /\ r \notin OpenOf(m) => OpenOf(m)' = OpenOf(m)
    BY <1>1, OpenFinite, OneApart
<1>3. Cardinality(OpenOf(m)') <= Cardinality(OpenOf(m))
    BY <1>2
<1>4. /\ loan'[r] = row
      /\ \A s \in Loans \ {r} : loan'[s] = loan[s]
    BY DEF TypeOK
<1>5. ASSUME NEW b \in Books, HasActive(m, b)' PROVE HasActive(m, b)
    <2>1. PICK s \in ActiveOf(b)' : loan'[s].member = m
        BY <1>5 DEF HasActive
    <2>2. CASE s = r
        BY <1>4, <2>1, <2>2 DEF HasActive, ActiveOf
    <2>3. CASE s # r
        BY <1>4, <2>1, <2>3 DEF HasActive, ActiveOf
    <2> QED BY <2>2, <2>3
<1> QED BY <1>3, <1>5

LEMMA OtherTitles ==
    ASSUME NEW b \in Books, NEW c \in Books \ {b}, NEW S,
           Out' = [Out EXCEPT ![b] = S]
    PROVE  ActiveOf(c)' = ActiveOf(c)
<1>1. Out'[c] = Out[c]
    BY DEF Out
<1>2. Out[c] = ActiveOf(c) /\ Out'[c] = ActiveOf(c)'
    BY DEF Out
<1> QED BY <1>1, <1>2

LEMMA BorrowSpares ==
    ASSUME ServiceInv, NEW q \in Procs,
           NEW m \in Members, NEW b \in Books, NEW r \in Loans, Borrow(m, b, r),
           UserRow(m) \notin held[q], BookRow(b) \notin held[q]
    PROVE  Spares(q)
<1>0. TypeOK /\ day \in Nat
    BY DEF ServiceInv, TypeOK
<1>1. PICK row \in LoanRows : /\ loan' = [loan EXCEPT ![r] = row]
                             /\ row.status = "BORROWED" /\ row.member = m /\ row.book = b
    BY <1>0, BorrowRow
<1>2. /\ loan'[r] = row /\ \A s \in Loans \ {r} : loan'[s] = loan[s]
      /\ ~Exists(r) /\ UNCHANGED <<day, shelf, total, eligible, fine>>
    BY <1>0, <1>1 DEF Borrow, TypeOK, NoLoan, Exists
<1>3. ASSUME NEW c \in Books \ {b}
      PROVE  available'[c] = available[c] /\ ActiveOf(c)' = ActiveOf(c)
    <2>1. Out' = [Out EXCEPT ![b] = Out[b] \cup {r}]
        BY <1>0, BorrowMoves
    <2>2. available'[c] = available[c]
        BY <1>0 DEF Borrow, TypeOK
    <2> QED BY <2>1, <2>2, OtherTitles
<1>4. ASSUME NEW k \in Members, UserRow(k) \in held[q]
      PROVE  /\ HasPendingFines(k)' => HasPendingFines(k)
             /\ Cardinality(OpenOf(k)') <= Cardinality(OpenOf(k))
             /\ \A c \in Books : HasActive(k, c)' => HasActive(k, c)
    <2>1. k # m
        BY <1>4
    <2>2. HasPendingFines(k)' => HasPendingFines(k)
        BY <1>1, <1>2, <2>1 DEF HasPendingFines, Exists
    <2> QED BY <1>0, <1>1, <2>1, <2>2, OneRecordSpares
<1>5. RecordRow(r) \notin held[q]
    BY <1>2, HeldRecordsExist
<1> QED BY <1>0, <1>2, <1>3, <1>4, <1>5 DEF Spares

\* A record that is settled, or lost.
LEMMA SettledSpares ==
    ASSUME ServiceInv, NEW q \in Procs, NEW r \in Loans, NEW row \in LoanRows,
           loan[r].status \in ActiveStatuses, loan' = [loan EXCEPT ![r] = row],
           row.status \notin OpenStatuses,
           row.member = loan[r].member, row.book = loan[r].book,
           UNCHANGED <<day, shelf, total, eligible>>,
           \A c \in Books : BookRow(c) \in held[q] =>
               available'[c] = available[c] /\ ActiveOf(c)' = ActiveOf(c),
           \A s \in Loans : fine'[s] # fine[s] =>
               /\ fine[s] = NoFine /\ fine'[s] # NoFine /\ s = r
               /\ UserRow(loan[r].member) \notin held[q],
           RecordRow(r) \notin held[q]
    PROVE  Spares(q)
<1>0. TypeOK /\ day \in Nat
    BY DEF ServiceInv, TypeOK
<1>1. /\ loan'[r] = row /\ \A s \in Loans \ {r} : loan'[s] = loan[s]
      /\ Exists(r)
    BY <1>0 DEF TypeOK, Exists, ActiveStatuses
<1>2. ASSUME NEW k \in Members, UserRow(k) \in held[q]
      PROVE  /\ HasPendingFines(k)' => HasPendingFines(k)
             /\ Cardinality(OpenOf(k)') <= Cardinality(OpenOf(k))
             /\ \A c \in Books : HasActive(k, c)' => HasActive(k, c)
    <2>1. HasPendingFines(k)' => HasPendingFines(k)
        <3> SUFFICES ASSUME NEW s \in Loans, fine'[s].status = "PENDING", Exists(s)',
                            loan'[s].member = k
                     PROVE  fine[s].status = "PENDING" /\ Exists(s) /\ loan[s].member = k
            BY DEF HasPendingFines
        <3>1. loan[s].member = k /\ Exists(s)
            BY <1>1 DEF Exists
        <3>2. fine'[s] = fine[s]
            BY <1>2, <3>1
        <3> QED BY <3>1, <3>2
    <2> QED BY <1>0, <2>1, OneRecordSpares
<1>3. \A s \in Loans : RecordRow(s) \in held[q] => loan'[s] = loan[s]
    BY <1>1
<1> QED BY <1>0, <1>2, <1>3 DEF Spares

LEMMA ReturnSpares ==
    ASSUME ServiceInv, NEW q \in Procs, NEW r \in Loans, Return(r),
           RecordRow(r) \notin held[q], UserRow(loan[r].member) \notin held[q],
           BookRow(loan[r].book) \notin held[q]
    PROVE  Spares(q)
<1>0. TypeOK
    BY DEF ServiceInv
<1>1. /\ ReturnedRow(r) \in LoanRows /\ ReturnedRow(r).status = "RETURNED"
      /\ ReturnedRow(r).member = loan[r].member /\ ReturnedRow(r).book = loan[r].book
    BY <1>0, SettledRow DEF Return, OpenStatuses
<1>2. ASSUME NEW c \in Books, BookRow(c) \in held[q]
      PROVE  available'[c] = available[c] /\ ActiveOf(c)' = ActiveOf(c)
    <2> DEFINE b == loan[r].book
    <2>1. b \in Books /\ Out' = [Out EXCEPT ![b] = Out[b] \ {r}]
        BY <1>0, ReturnMoves
    <2>2. c # b
        BY <1>2
    <2>3. available'[c] = available[c]
        BY <1>0, <2>2 DEF Return, TypeOK
    <2> HIDE DEF b
    <2> QED BY <2>1, <2>2, <2>3, OtherTitles
<1>3. \A s \in Loans : fine'[s] # fine[s] =>
        fine[s] = NoFine /\ fine'[s] # NoFine /\ s = r
    BY <1>0 DEF Return, FineOnReturn, TypeOK
<1> QED BY <1>1, <1>2, <1>3, SettledSpares DEF Return, OpenStatuses, ActiveStatuses

LEMMA LostSpares ==
    ASSUME ServiceInv, NEW q \in Procs, NEW r \in Loans, MarkLost(r),
           RecordRow(r) \notin held[q]
    PROVE  Spares(q)
<1>0. TypeOK
    BY DEF ServiceInv
<1>1. PICK row \in LoanRows : /\ loan' = [loan EXCEPT ![r] = row]
                             /\ row.status = "LOST"
                             /\ row.member = loan[r].member /\ row.book = loan[r].book
    BY <1>0, LostRow
<1>2. \A c \in Books : available'[c] = available[c] /\ ActiveOf(c)' = ActiveOf(c)
    BY <1>0, LostIsQuiet DEF MarkLost, Out
<1> QED BY <1>1, <1>2, SettledSpares DEF MarkLost, OpenStatuses, ActiveStatuses

LEMMA ResolveSpares ==
    ASSUME ServiceInv, NEW q \in Procs, NEW r \in Loans, NEW restore \in BOOLEAN,
           ResolveLost(r, restore),
           RecordRow(r) \notin held[q], BookRow(loan[r].book) \notin held[q]
    PROVE  Spares(q)
<1>0. TypeOK
    BY DEF ServiceInv
<1>1. /\ ReturnedRow(r) \in LoanRows /\ ReturnedRow(r).status = "RETURNED"
      /\ ReturnedRow(r).member = loan[r].member /\ ReturnedRow(r).book = loan[r].book
    BY <1>0, SettledRow DEF ResolveLost
<1>2. ASSUME NEW c \in Books, BookRow(c) \in held[q]
      PROVE  available'[c] = available[c] /\ ActiveOf(c)' = ActiveOf(c)
    <2> DEFINE b == loan[r].book
    <2>1. b \in Books /\ Out' = [Out EXCEPT ![b] = Out[b] \ {r}]
        BY <1>0, ResolveMoves
    <2>2. c # b
        BY <1>2
    <2>3. available'[c] = available[c]
        BY <1>0, <2>2 DEF ResolveLost, TypeOK
    <2> HIDE DEF b
    <2> QED BY <2>1, <2>2, <2>3, OtherTitles
<1> QED BY <1>1, <1>2, SettledSpares DEF ResolveLost, OpenStatuses, ActiveStatuses

LEMMA PaySpares ==
    ASSUME ServiceInv, NEW q \in Procs, NEW r \in Loans, PayFine(r),
           FineRow(r) \notin held[q]
    PROVE  Spares(q)
<1>0. TypeOK /\ day \in Nat
    BY DEF ServiceInv, TypeOK
<1>1. /\ fine'[r].status = "PAID" /\ fine'[r] # NoFine
      /\ \A s \in Loans \ {r} : fine'[s] = fine[s]
      /\ UNCHANGED <<day, shelf, total, available, eligible, loan>>
    <2>1. fine[r] \in FineRows
        BY <1>0, ExistingFine DEF PayFine
    <2> QED BY <1>0, <2>1 DEF PayFine, TypeOK, FineRows, NoFine
<1>2. \A c \in Books : ActiveOf(c)' = ActiveOf(c)
    BY <1>1 DEF ActiveOf
<1>3. ASSUME NEW m \in Members
      PROVE  /\ HasPendingFines(m)' => HasPendingFines(m)
             /\ Cardinality(OpenOf(m)') <= Cardinality(OpenOf(m))
             /\ \A c \in Books : HasActive(m, c)' => HasActive(m, c)
    <2>1. OpenOf(m)' = OpenOf(m)
        BY <1>1 DEF OpenOf
    <2> QED BY <1>1, <1>2, <2>1, OpenFinite DEF HasPendingFines, HasActive, Exists
<1> QED BY <1>0, <1>1, <1>2, <1>3 DEF Spares

LEMMA SyncSpares ==
    ASSUME ServiceInv, NEW q \in Procs, NEW S \in SUBSET Loans, SyncOverdue(S),
           \A r \in S : RecordRow(r) \notin held[q]
    PROVE  Spares(q)
<1>0. TypeOK /\ day \in Nat
    BY DEF ServiceInv, TypeOK
<1>1. /\ \A b \in Books : ActiveOf(b)' = ActiveOf(b)
      /\ \A m \in Members : OpenOf(m)' = OpenOf(m)
    BY <1>0, SyncKeepsSets
<1>2. \A r \in S : loan[r] \in LoanRows /\ loan[r].status = "BORROWED"
    BY <1>0, ExistingRow DEF SyncOverdue, PastDue
<1>3. \A r \in Loans : Exists(r)' <=> Exists(r)
    BY <1>2 DEF SyncOverdue, Exists, LoanRows
<1>4. \A r \in Loans : loan'[r].member = loan[r].member \/ ~Exists(r)
    BY <1>0, <1>2 DEF SyncOverdue, LoanRows
<1>5. \A r \in Loans : RecordRow(r) \in held[q] => loan'[r] = loan[r]
    BY DEF SyncOverdue
<1>6. ASSUME NEW m \in Members
      PROVE  /\ HasPendingFines(m)' => HasPendingFines(m)
             /\ Cardinality(OpenOf(m)') <= Cardinality(OpenOf(m))
             /\ \A c \in Books : HasActive(m, c)' => HasActive(m, c)
    <2>1. HasPendingFines(m)' => HasPendingFines(m)
        BY <1>3, <1>4 DEF HasPendingFines, SyncOverdue
    <2>2. ASSUME NEW c \in Books, HasActive(m, c)' PROVE HasActive(m, c)
        <3>1. \A r \in ActiveOf(c) : loan'[r].member = loan[r].member
            BY <1>4 DEF ActiveOf, ActiveStatuses, Exists
        <3> QED BY <1>1, <2>2, <3>1 DEF HasActive
    <2> QED BY <1>1, <2>1, <2>2, OpenFinite
<1> QED BY <1>0, <1>1, <1>5, <1>6 DEF Spares, SyncOverdue

-----------------------------------------------------------------------------
(***************************************************************************)
(* From the transaction that acts to all of them.                          *)
(***************************************************************************)
LEMMA TablesKept ==
    ASSUME ServiceInv, [Next]_vars
    PROVE  TypeOK' /\ TitlesKept' /\ StockCovered'
BY TypeStep, TitlesStep, StockStep DEF ServiceInv

LEMMA OneActs ==
    ASSUME ServiceInv, [Next]_vars, NEW p \in Procs,
           \A q \in Procs \ {p} : Same(q) /\ Spares(q) /\ held'[p] \cap held[q] = {},
           ControlTyped', Serving(p)'
    PROVE  ServiceInv'
<1>1. \A q \in Procs : Serving(q)'
    BY ServingKept
<1>2. \A q, s \in Procs : q # s => held'[q] \cap held'[s] = {}
    BY DEF ServiceInv, Same
<1> QED BY <1>1, <1>2, TablesKept DEF ServiceInv

LEMMA NobodyActs ==
    ASSUME ServiceInv, [Next]_vars, UNCHANGED control, \A q \in Procs : Spares(q)
    PROVE  ServiceInv'
<1>1. \A q \in Procs : Same(q)
    BY DEF control, Same
<1>2. \A q \in Procs : Serving(q)'
    BY <1>1, ServingKept
<1>3. ControlTyped' /\ \A q, s \in Procs : q # s => held'[q] \cap held'[s] = {}
    BY DEF ServiceInv, control, ControlTyped
<1> QED BY <1>2, <1>3, TablesKept DEF ServiceInv

\* Between two statements the tables stay.
LEMMA QuietStep ==
    ASSUME ServiceInv, UNCHANGED vars, NEW p \in Procs,
           \A q \in Procs \ {p} : Same(q) /\ held'[p] \cap held[q] = {},
           ControlTyped', Serving(p)'
    PROVE  ServiceInv'
BY OneActs, SameTablesSpare

LEMMA Ended ==
    ASSUME ServiceInv, [Next]_vars, NEW p \in Procs, End(p),
           \A q \in Procs \ {p} : Spares(q)
    PROVE  ServiceInv'
<1>0. ControlTyped
    BY DEF ServiceInv
<1>1. \A q \in Procs \ {p} : Same(q)
    BY <1>0 DEF End, ControlTyped, Same
<1>2. step'[p] = "idle" /\ todo'[p] = << >> /\ held'[p] = {}
    BY <1>0 DEF End, ControlTyped
<1>3. NoSeen \in SeenRows
    BY DEF NoSeen, SeenRows
<1>4. ControlTyped'
    BY <1>0, <1>3 DEF End, ControlTyped, Steps
<1>5. Serving(p)'
    BY <1>2 DEF Serving, Asked, Queued, Current, Granted, BorrowSteps, RecordSteps,
                BookSteps, Locks
<1> QED BY <1>1, <1>2, <1>4, <1>5, OneActs

LEMMA RolledBack ==
    ASSUME ServiceInv, NEW p \in Procs, Rollback(p)
    PROVE  ServiceInv' /\ UNCHANGED vars
BY Ended, SameTablesSpare DEF Rollback

\* A transaction begins, with no lock and its first statement's rows before it.
LEMMA Began ==
    ASSUME ServiceInv, NEW p \in Procs, NEW first \in Steps \ {"idle"},
           NEW request, NEW rows, Begin(p, first, request, rows)
    PROVE  /\ UNCHANGED vars
           /\ step'[p] = first /\ req'[p] = request /\ todo'[p] = rows /\ held'[p] = {}
           /\ seen'[p] = seen[p]
           /\ Serving(p)' => ServiceInv'
<1>0. ControlTyped
    BY DEF ServiceInv
<1>1. \A q \in Procs \ {p} : Same(q)
    BY <1>0 DEF Begin, ControlTyped, Same
<1>2. held[p] = {}
    BY DEF ServiceInv, Serving, Queued, Locks, Begin
<1>3. ControlTyped'
    BY <1>0 DEF Begin, ControlTyped
<1>4. step'[p] = first /\ req'[p] = request /\ todo'[p] = rows /\ held'[p] = {}
    BY <1>0, <1>2 DEF Begin, ControlTyped
<1>5. UNCHANGED vars /\ seen' = seen
    BY DEF Begin
<1> QED BY <1>1, <1>3, <1>4, <1>5, QuietStep DEF Locks

-----------------------------------------------------------------------------
(***************************************************************************)
(* Requests.                                                               *)
(***************************************************************************)
LEMMA BorrowStarts ==
    ASSUME ServiceInv, NEW p \in Procs, NEW m \in Members, NEW b \in Books,
           StartBorrow(p, m, b)
    PROVE  ServiceInv' /\ UNCHANGED vars
<1> DEFINE request == [service |-> "borrow", member |-> m, book |-> b]
<1>1. /\ UNCHANGED vars
      /\ step'[p] = "member" /\ req'[p] = request
      /\ todo'[p] = <<UserRow(m)>> /\ held'[p] = {}
      /\ Serving(p)' => ServiceInv'
    BY Began DEF StartBorrow, Steps
<1>2. Serving(p)'
    BY <1>1 DEF Serving, Asked, Queued, Current, Granted, BorrowQueue, Locks,
                BorrowSteps, RecordSteps, BookSteps
<1> QED BY <1>1, <1>2

LEMMA ReturnStarts ==
    ASSUME ServiceInv, NEW p \in Procs, NEW r \in Loans, StartReturn(p, r)
    PROVE  ServiceInv' /\ UNCHANGED vars
<1> DEFINE request == [service |-> "return", record |-> r]
<1>1. /\ UNCHANGED vars
      /\ step'[p] = "return" /\ req'[p] = request
      /\ todo'[p] = ReturnRows(r) /\ held'[p] = {}
      /\ Serving(p)' => ServiceInv'
    BY Began DEF StartReturn, Steps
<1>2. Exists(r)' /\ loan' = loan
    BY <1>1 DEF StartReturn, Exists, vars
<1>3. Serving(p)'
    BY <1>1, <1>2 DEF Serving, Asked, Queued, Current, Granted, RecordQueue, ReturnRows,
                      Locks, BorrowSteps, RecordSteps, BookSteps
<1> QED BY <1>1, <1>3

LEMMA LostStarts ==
    ASSUME ServiceInv, NEW p \in Procs, NEW r \in Loans,
           \/ StartLost(p, r)
           \/ \E restore \in BOOLEAN : StartResolve(p, r, restore)
    PROVE  ServiceInv' /\ UNCHANGED vars
<1>1. PICK first, request :
        /\ first \in {"lost", "resolve"}
        /\ Exists(r) /\ Begin(p, first, request, LostRows(r))
        /\ request.record = r
        /\ first = "resolve" => request.restore \in BOOLEAN
    <2>1. CASE StartLost(p, r)
        BY <2>1 DEF StartLost
    <2>2. ASSUME NEW restore \in BOOLEAN, StartResolve(p, r, restore)
          PROVE  \E first, request :
                    /\ first \in {"lost", "resolve"}
                    /\ Exists(r) /\ Begin(p, first, request, LostRows(r))
                    /\ request.record = r
                    /\ first = "resolve" => request.restore \in BOOLEAN
        <3> DEFINE given == [service |-> "resolve", record |-> r, restore |-> restore]
        <3>1. /\ Exists(r) /\ Begin(p, "resolve", given, LostRows(r))
              /\ given.record = r /\ given.restore \in BOOLEAN
            BY <2>2 DEF StartResolve
        <3> HIDE DEF given
        <3> QED BY <3>1
    <2> QED BY <2>1, <2>2
<1>2. /\ UNCHANGED vars
      /\ step'[p] = first /\ req'[p] = request /\ todo'[p] = LostRows(r) /\ held'[p] = {}
      /\ Serving(p)' => ServiceInv'
    BY <1>1, Began DEF Steps
<1>3. Exists(r)' /\ loan' = loan
    BY <1>1, <1>2 DEF Exists, vars
<1>4. Serving(p)'
    BY <1>1, <1>2, <1>3 DEF Serving, Asked, Queued, Current, Granted, RecordQueue, LostRows,
                            Locks, BorrowSteps, RecordSteps, BookSteps
<1> QED BY <1>2, <1>4

LEMMA PayStarts ==
    ASSUME ServiceInv, NEW p \in Procs, NEW r \in Loans, StartPay(p, r)
    PROVE  ServiceInv' /\ UNCHANGED vars
<1> DEFINE request == [service |-> "pay", record |-> r]
<1>0. fine[r] # NoFine /\ Begin(p, "pay", request, <<FineRow(r)>>)
    BY DEF StartPay
<1>1. /\ UNCHANGED vars
      /\ step'[p] = "pay" /\ req'[p] = request /\ todo'[p] = <<FineRow(r)>> /\ held'[p] = {}
      /\ Serving(p)' => ServiceInv'
    BY <1>0, Began DEF Steps
<1>2. fine'[r] # NoFine
    BY <1>0, <1>1 DEF vars
<1>3. Serving(p)'
    BY <1>1, <1>2 DEF Serving, Asked, Queued, Current, Granted, Locks,
                      BorrowSteps, RecordSteps, BookSteps
<1> QED BY <1>1, <1>3

LEMMA EditStarts ==
    ASSUME ServiceInv, NEW p \in Procs, NEW b \in Books, NEW n \in 0..MaxCopies,
           NEW drops \in BOOLEAN, StartEdit(p, b, n, drops)
    PROVE  ServiceInv' /\ UNCHANGED vars
<1> DEFINE request == [service |-> "edit", book |-> b, copies |-> n, drops |-> drops]
<1>1. Begin(p, "edit", request, <<BookRow(b)>>) /\ request.book = b /\ request.copies = n
    BY DEF StartEdit
<1> HIDE DEF request
<1>2. /\ UNCHANGED vars
      /\ step'[p] = "edit" /\ req'[p] = request /\ todo'[p] = <<BookRow(b)>> /\ held'[p] = {}
      /\ Serving(p)' => ServiceInv'
    BY <1>1, Began DEF Steps
<1>3. Serving(p)'
    BY <1>1, <1>2 DEF Serving, Asked, Queued, Current, Granted, BookQueue, Locks,
                      BorrowSteps, RecordSteps, BookSteps
<1> QED BY <1>2, <1>3

LEMMA DeleteStarts ==
    ASSUME ServiceInv, NEW p \in Procs, NEW b \in Books, NEW links \in BOOLEAN,
           StartDelete(p, b, links)
    PROVE  ServiceInv' /\ UNCHANGED vars
<1> DEFINE request == [service |-> "delete", book |-> b]
<1>1. PICK rows : /\ rows = <<LinksRow(b), BookRow(b)>> \/ rows = <<BookRow(b)>>
                  /\ Begin(p, "delete", request, rows)
    BY DEF StartDelete
<1>2. /\ UNCHANGED vars
      /\ step'[p] = "delete" /\ req'[p] = request /\ todo'[p] = rows /\ held'[p] = {}
      /\ Serving(p)' => ServiceInv'
    BY <1>1, Began DEF Steps
<1>3. Queued(p)'
    <2>1. \/ Locks(p, <<LinksRow(b), BookRow(b)>>, {})'
          \/ Locks(p, <<BookRow(b)>>, {})'
        BY <1>1, <1>2 DEF Locks
    <2>2. \/ Locks(p, <<LinksRow(b), BookRow(b)>>, {})'
          \/ \E linked \in SUBSET {LinksRow(b)} : Locks(p, <<BookRow(b)>>, linked)'
        BY <2>1
    <2>3. BookQueue(p, b)'
        BY <1>2, <2>2 DEF BookQueue
    <2> QED BY <1>2, <2>3 DEF Queued, BorrowSteps, RecordSteps, BookSteps
<1>4. Asked(p)' /\ Current(p)' /\ Granted(p)'
    BY <1>2 DEF Asked, Current, Granted, BorrowSteps, RecordSteps, BookSteps
<1> QED BY <1>2, <1>3, <1>4 DEF Serving

LEMMA RequestServed ==
    ASSUME ServiceInv, NEW p \in Procs, Request(p)
    PROVE  ServiceInv' /\ UNCHANGED vars
BY BorrowStarts, ReturnStarts, LostStarts, PayStarts, EditStarts, DeleteStarts DEF Request

\* However the rows are ordered, they are records.
LEMMA OrdersAreLists ==
    ASSUME NEW S \in SUBSET Loans, NEW rows \in Orders({RecordRow(r) : r \in S})
    PROVE  rows \in Seq(RecordRows)
<1> DEFINE T == {RecordRow(r) : r \in S}
           f == [r \in S |-> RecordRow(r)]
<1>1. IsFiniteSet(S)
    BY LoansAssumption, FS_Subset
<1>2. f \in Surjection(S, T)
    BY DEF Surjection
<1>3. Cardinality(T) \in Nat
    BY <1>1, <1>2, FS_Surjection, FS_CardinalityType
<1>4. rows \in [1..Cardinality(T) -> T]
    BY DEF Orders
<1>5. T \subseteq RecordRows
    BY DEF RecordRows
<1> HIDE DEF T
<1> QED BY <1>3, <1>4, <1>5, SeqDef

LEMMA SyncStarts ==
    ASSUME ServiceInv, Cron \in Procs, StartSync(Cron)
    PROVE  ServiceInv' /\ UNCHANGED vars
<1>1. PICK rows \in Seq(RecordRows) : Begin(Cron, "sync", [service |-> "sync"], rows)
    BY OrdersAreLists DEF StartSync
<1>2. /\ UNCHANGED vars
      /\ step'[Cron] = "sync" /\ todo'[Cron] = rows /\ held'[Cron] = {}
      /\ Serving(Cron)' => ServiceInv'
    BY <1>1, Began DEF Steps
<1>3. Serving(Cron)'
    BY <1>2 DEF Serving, Asked, Queued, Current, Granted, Locks,
                BorrowSteps, RecordSteps, BookSteps
<1> QED BY <1>2, <1>3

-----------------------------------------------------------------------------
(***************************************************************************)
(* Locks.  What a row shows is what it holds from then on.                 *)
(***************************************************************************)
\* What a test under a lock granted stays granted.
LEMMA SameAnswers ==
    ASSUME UNCHANGED vars
    PROVE  /\ \A m \in Members : /\ HasPendingFines(m)' = HasPendingFines(m)
                                 /\ OpenOf(m)' = OpenOf(m)
           /\ \A b \in Books : ActiveOf(b)' = ActiveOf(b)
           /\ \A m \in Members, b \in Books : HasActive(m, b)' = HasActive(m, b)
           /\ UNCHANGED <<day, shelf, total, available, eligible, loan, fine>>
<1>1. UNCHANGED <<day, shelf, total, available, eligible, loan, fine>>
    BY DEF vars
<1> QED BY <1>1 DEF HasPendingFines, Exists, OpenOf, ActiveOf, HasActive

LEMMA LockTaken ==
    ASSUME ServiceInv, NEW p \in Procs, NEW rows, NEW saw \in SeenRows,
           rows \subseteq held[p] \cup {Head(todo[p])}, Free(p, Head(todo[p])),
           UNCHANGED <<vars, step, req>>,
           todo' = [todo EXCEPT ![p] = Tail(@)],
           held' = [held EXCEPT ![p] = rows],
           seen' = [seen EXCEPT ![p] = saw]
    PROVE  /\ UNCHANGED vars
           /\ step'[p] = step[p] /\ req'[p] = req[p] /\ todo'[p] = Tail(todo[p])
           /\ held'[p] = rows /\ seen'[p] = saw
           /\ Serving(p)' => ServiceInv'
<1>0. ControlTyped
    BY DEF ServiceInv
<1>1. /\ step'[p] = step[p] /\ req'[p] = req[p] /\ todo'[p] = Tail(todo[p])
      /\ held'[p] = rows /\ seen'[p] = saw
    BY <1>0 DEF ControlTyped
<1>2. \A q \in Procs \ {p} : Same(q)
    BY <1>0 DEF ControlTyped, Same
<1>3. \A q \in Procs \ {p} : held'[p] \cap held[q] = {}
    BY <1>1 DEF ServiceInv, Free
<1>4. ControlTyped'
    BY <1>0 DEF ControlTyped
<1> QED BY <1>1, <1>2, <1>3, <1>4, QuietStep

LEMMA LockUser ==
    ASSUME ServiceInv, NEW p \in Procs, LockNext(p), NEW m \in Members,
           Head(todo[p]) = UserRow(m)
    PROVE  /\ UNCHANGED vars
           /\ step'[p] = step[p] /\ req'[p] = req[p] /\ todo'[p] = Tail(todo[p])
           /\ held'[p] = held[p] \cup {UserRow(m)}
           /\ seen'[p] = [seen[p] EXCEPT !.eligible = eligible[m]]
           /\ Serving(p)' => ServiceInv'
<1> DEFINE saw == [seen[p] EXCEPT !.eligible = eligible[m]]
<1>1. Read(p, UserRow(m)) = saw
    BY DEF Read, UserRow
<1>2. saw \in SeenRows
    BY DEF ServiceInv, TypeOK, ControlTyped, SeenRows
<1>3. held' = [held EXCEPT ![p] = held[p] \cup {UserRow(m)}]
    <2>1. UserRow(m)[1] # "book"
        BY DEF UserRow
    <2>2. held' = [held EXCEPT ![p] =
                     IF UserRow(m)[1] = "book" /\ shelf[UserRow(m)[2]] # "listed"
                     THEN held[p] ELSE held[p] \cup {UserRow(m)}]
        BY DEF LockNext
    <2> QED BY <2>1, <2>2
<1>4. seen' = [seen EXCEPT ![p] = saw]
    BY <1>1 DEF LockNext
<1> HIDE DEF saw
<1>5. /\ UNCHANGED <<vars, step, req>> /\ todo' = [todo EXCEPT ![p] = Tail(@)]
      /\ Free(p, Head(todo[p]))
    BY DEF LockNext
<1> QED BY <1>2, <1>3, <1>4, <1>5, LockTaken DEF saw

LEMMA LockBook ==
    ASSUME ServiceInv, NEW p \in Procs, LockNext(p), NEW b \in Books,
           Head(todo[p]) = BookRow(b)
    PROVE  /\ UNCHANGED vars
           /\ step'[p] = step[p] /\ req'[p] = req[p] /\ todo'[p] = Tail(todo[p])
           /\ held'[p] = IF shelf[b] = "listed" THEN held[p] \cup {BookRow(b)} ELSE held[p]
           /\ seen'[p].status = seen[p].status
           /\ seen'[p].shelf = shelf[b]
           /\ seen'[p].stock = available[b] /\ seen'[p].total = total[b]
           /\ Serving(p)' => ServiceInv'
<1> DEFINE saw == [seen[p] EXCEPT !.shelf = shelf[b], !.stock = available[b],
                                  !.total = total[b]]
           rows == IF shelf[b] = "listed" THEN held[p] \cup {BookRow(b)} ELSE held[p]
<1>1. Read(p, BookRow(b)) = saw
    BY DEF Read, BookRow
<1>2. /\ saw \in SeenRows
      /\ saw.status = seen[p].status /\ saw.shelf = shelf[b]
      /\ saw.stock = available[b] /\ saw.total = total[b]
    BY DEF ServiceInv, TypeOK, ControlTyped, SeenRows
<1>3. held' = [held EXCEPT ![p] = rows]
    <2>1. BookRow(b)[1] = "book" /\ BookRow(b)[2] = b
        BY DEF BookRow
    <2>2. held' = [held EXCEPT ![p] =
                     IF BookRow(b)[1] = "book" /\ shelf[BookRow(b)[2]] # "listed"
                     THEN held[p] ELSE held[p] \cup {BookRow(b)}]
        BY DEF LockNext
    <2> QED BY <2>1, <2>2
<1>4. seen' = [seen EXCEPT ![p] = saw]
    BY <1>1 DEF LockNext
<1>5. rows \subseteq held[p] \cup {Head(todo[p])}
    OBVIOUS
<1> HIDE DEF saw, rows
<1>6. /\ UNCHANGED <<vars, step, req>> /\ todo' = [todo EXCEPT ![p] = Tail(@)]
      /\ Free(p, Head(todo[p]))
    BY DEF LockNext
<1>7. /\ UNCHANGED vars
      /\ step'[p] = step[p] /\ req'[p] = req[p] /\ todo'[p] = Tail(todo[p])
      /\ held'[p] = rows /\ seen'[p] = saw
      /\ Serving(p)' => ServiceInv'
    BY <1>2, <1>3, <1>4, <1>5, <1>6, LockTaken
<1> QED BY <1>2, <1>7 DEF rows

LEMMA LockLinks ==
    ASSUME ServiceInv, NEW p \in Procs, LockNext(p), NEW b \in Books,
           Head(todo[p]) = LinksRow(b)
    PROVE  /\ UNCHANGED vars
           /\ step'[p] = step[p] /\ req'[p] = req[p] /\ todo'[p] = Tail(todo[p])
           /\ held'[p] = held[p] \cup {LinksRow(b)} /\ seen'[p] = seen[p]
           /\ Serving(p)' => ServiceInv'
<1>1. Read(p, LinksRow(b)) = seen[p] /\ LinksRow(b)[1] # "book"
    BY DEF Read, LinksRow
<1>2. held' = [held EXCEPT ![p] = held[p] \cup {LinksRow(b)}]
    <2>1. held' = [held EXCEPT ![p] =
                     IF LinksRow(b)[1] = "book" /\ shelf[LinksRow(b)[2]] # "listed"
                     THEN held[p] ELSE held[p] \cup {LinksRow(b)}]
        BY DEF LockNext
    <2> QED BY <1>1, <2>1
<1>3. seen' = [seen EXCEPT ![p] = seen[p]] /\ seen[p] \in SeenRows
    BY <1>1 DEF LockNext, ServiceInv, ControlTyped
<1>4. /\ UNCHANGED <<vars, step, req>> /\ todo' = [todo EXCEPT ![p] = Tail(@)]
      /\ Free(p, Head(todo[p]))
    BY DEF LockNext
<1> QED BY <1>2, <1>3, <1>4, LockTaken

\* A record or a fine.
LEMMA LockStatus ==
    ASSUME ServiceInv, NEW p \in Procs, LockNext(p), NEW r \in Loans, NEW row, NEW status,
           Head(todo[p]) = row,
           \/ row = RecordRow(r) /\ status = loan[r].status /\ Exists(r)
           \/ row = FineRow(r) /\ status = fine[r].status
    PROVE  /\ UNCHANGED vars
           /\ step'[p] = step[p] /\ req'[p] = req[p] /\ todo'[p] = Tail(todo[p])
           /\ held'[p] = held[p] \cup {row}
           /\ seen'[p].status = status
           /\ Serving(p)' => ServiceInv'
<1> DEFINE saw == [seen[p] EXCEPT !.status = status]
<1>1. Read(p, row) = saw
    BY DEF Read, RecordRow, FineRow
<1>2. saw \in SeenRows /\ saw.status = status
    <2>1. status \in {"NONE", "BORROWED", "OVERDUE", "LOST", "RETURNED",
                      "PENDING", "PAID", "WAIVED"}
        <3>1. CASE row = RecordRow(r) /\ status = loan[r].status /\ Exists(r)
            BY <3>1, ExistingRow DEF ServiceInv, Exists, LoanRows
        <3>2. CASE status = fine[r].status
            BY <3>2, ExistingFine DEF ServiceInv, FineRows
        <3> QED BY <3>1, <3>2
    <2> QED BY <2>1 DEF ServiceInv, ControlTyped, SeenRows
<1>3. held' = [held EXCEPT ![p] = held[p] \cup {row}]
    <2>1. row[1] # "book"
        BY DEF RecordRow, FineRow
    <2>2. held' = [held EXCEPT ![p] =
                     IF row[1] = "book" /\ shelf[row[2]] # "listed"
                     THEN held[p] ELSE held[p] \cup {row}]
        BY DEF LockNext
    <2> QED BY <2>1, <2>2
<1>4. seen' = [seen EXCEPT ![p] = saw]
    BY <1>1 DEF LockNext
<1> HIDE DEF saw
<1>5. /\ UNCHANGED <<vars, step, req>> /\ todo' = [todo EXCEPT ![p] = Tail(@)]
      /\ Free(p, Head(todo[p]))
    BY DEF LockNext
<1>6. /\ UNCHANGED vars
      /\ step'[p] = step[p] /\ req'[p] = req[p] /\ todo'[p] = Tail(todo[p])
      /\ held'[p] = held[p] \cup {row} /\ seen'[p] = saw
      /\ Serving(p)' => ServiceInv'
    BY <1>2, <1>3, <1>4, <1>5, LockTaken
<1> QED BY <1>2, <1>6

LEMMA MemberLocked ==
    ASSUME ServiceInv, NEW p \in Procs, LockNext(p), step[p] = "member"
    PROVE  ServiceInv' /\ UNCHANGED vars
<1> DEFINE m == req[p].member
<1>1. Asked(p) /\ Queued(p)
    BY DEF ServiceInv, Serving
<1>2. m \in Members /\ req[p].book \in Books /\ Locks(p, <<UserRow(m)>>, {})
    BY <1>1 DEF Asked, Queued, BorrowQueue, BorrowSteps, Locks, LockNext
<1>3. Head(todo[p]) = UserRow(m) /\ Tail(todo[p]) = << >>
    BY <1>2 DEF Locks
<1>4. /\ UNCHANGED vars
      /\ step'[p] = "member" /\ req'[p] = req[p] /\ todo'[p] = << >>
      /\ held'[p] = {UserRow(m)}
      /\ seen'[p] = [seen[p] EXCEPT !.eligible = eligible[m]]
      /\ Serving(p)' => ServiceInv'
    BY <1>2, <1>3, LockUser DEF Locks
<1>5. seen'[p].eligible = eligible'[m]
    BY <1>4 DEF ServiceInv, ControlTyped, SeenRows, vars
<1>6. Asked(p)' /\ Queued(p)' /\ Granted(p)'
    BY <1>2, <1>4 DEF Asked, Queued, Granted, BorrowQueue, BorrowSteps, RecordSteps,
                      BookSteps, Locks
<1>7. Current(p)'
    BY <1>4, <1>5, RowsDiffer DEF Current, RecordSteps
<1> QED BY <1>4, <1>6, <1>7 DEF Serving

LEMMA TitleLocked ==
    ASSUME ServiceInv, NEW p \in Procs, LockNext(p), step[p] \in {"title", "edit", "delete"},
           Head(todo[p]) # LinksRow(req[p].book)
    PROVE  ServiceInv' /\ UNCHANGED vars
<1> DEFINE b == req[p].book
<1>1. Asked(p) /\ Queued(p) /\ Granted(p)
    BY DEF ServiceInv, Serving
<1>2. PICK before : /\ b \in Books /\ Locks(p, <<BookRow(b)>>, before)
                    /\ step[p] = "title" => before = {UserRow(req[p].member)}
                    /\ step[p] = "edit" => before = {}
                    /\ step[p] = "delete" => before \in SUBSET {LinksRow(b)}
    BY <1>1 DEF Asked, Queued, BorrowQueue, BorrowSteps, BookQueue, BookSteps, Locks,
                LockNext
<1>3. Head(todo[p]) = BookRow(b) /\ Tail(todo[p]) = << >>
    BY <1>2 DEF Locks
<1>4. /\ UNCHANGED vars
      /\ step'[p] = step[p] /\ req'[p] = req[p] /\ todo'[p] = << >>
      /\ held'[p] = IF shelf[b] = "listed" THEN before \cup {BookRow(b)} ELSE before
      /\ seen'[p].shelf = shelf[b]
      /\ seen'[p].stock = available[b] /\ seen'[p].total = total[b]
      /\ Serving(p)' => ServiceInv'
    BY <1>2, <1>3, LockBook DEF Locks
<1>5. Asked(p)'
    BY <1>1, <1>4 DEF Asked, BorrowSteps, RecordSteps, BookSteps
<1>6. Queued(p)'
    <2>1. CASE shelf[b] = "listed"
        <3>1. held'[p] = before \cup {BookRow(b)}
            BY <1>4, <2>1
        <3> QED BY <1>2, <1>4, <3>1 DEF Queued, BorrowQueue, BorrowSteps, BookQueue, BookSteps,
                                        RecordSteps, Locks
    <2>2. CASE shelf[b] # "listed"
        <3>1. held'[p] = before /\ seen'[p].shelf # "listed"
            BY <1>4, <2>2
        <3> QED BY <1>2, <1>4, <3>1 DEF Queued, BorrowQueue, BorrowSteps, BookQueue, BookSteps,
                                        RecordSteps, Locks
    <2> QED BY <2>1, <2>2
<1>7. Current(p)'
    <2>1. \A c \in Books : BookRow(c) \in held'[p] => c = b /\ shelf[b] = "listed"
        BY <1>2, <1>4, RowsDiffer
    <2> QED BY <1>4, <2>1 DEF Current, RecordSteps, vars
<1>8. Granted(p)'
    <2>1. /\ eligible' = eligible /\ loan' = loan
          /\ HasPendingFines(req[p].member)' = HasPendingFines(req[p].member)
          /\ OpenOf(req[p].member)' = OpenOf(req[p].member)
        BY <1>4 DEF vars, HasPendingFines, Exists, OpenOf
    <2> QED BY <1>1, <1>4, <2>1 DEF Granted
<1> QED BY <1>4, <1>5, <1>6, <1>7, <1>8 DEF Serving

\* The links of the title, by an edit that has it or a deletion that has not.
LEMMA LinksLocked ==
    ASSUME ServiceInv, NEW p \in Procs, LockNext(p), step[p] \in {"save", "delete"},
           Head(todo[p]) = LinksRow(req[p].book)
    PROVE  ServiceInv' /\ UNCHANGED vars
<1> DEFINE b == req[p].book
<1>1. Asked(p) /\ Queued(p) /\ Current(p) /\ Granted(p) /\ b \in Books
    BY DEF ServiceInv, Serving, Asked, BookSteps
<1>2. \/ step[p] = "save" /\ Locks(p, <<LinksRow(b)>>, {BookRow(b)})
      \/ step[p] = "delete" /\ Locks(p, <<LinksRow(b), BookRow(b)>>, {})
    <2>1. todo[p] # << >> /\ todo[p] # <<BookRow(b)>>
        BY RowsDiffer DEF LockNext
    <2> QED BY <1>1, <2>1 DEF Queued, BookQueue, BookSteps, Locks
<1>3. /\ UNCHANGED vars
      /\ step'[p] = step[p] /\ req'[p] = req[p] /\ todo'[p] = Tail(todo[p])
      /\ held'[p] = held[p] \cup {LinksRow(b)} /\ seen'[p] = seen[p]
      /\ Serving(p)' => ServiceInv'
    BY <1>1, LockLinks
<1>4. \/ step[p] = "save" /\ Locks(p, << >>, {BookRow(b), LinksRow(b)})'
      \/ step[p] = "delete" /\ Locks(p, <<BookRow(b)>>, {LinksRow(b)})'
    <2>1. CASE step[p] = "save" /\ Locks(p, <<LinksRow(b)>>, {BookRow(b)})
        <3>1. Tail(<<LinksRow(b)>>) = << >>
            OBVIOUS
        <3> QED BY <1>3, <2>1, <3>1 DEF Locks
    <2>2. CASE step[p] = "delete" /\ Locks(p, <<LinksRow(b), BookRow(b)>>, {})
        <3>1. Tail(<<LinksRow(b), BookRow(b)>>) = <<BookRow(b)>>
            OBVIOUS
        <3> QED BY <1>3, <2>2, <3>1 DEF Locks
    <2> QED BY <1>2, <2>1, <2>2
<1>5. Queued(p)'
    BY <1>3, <1>4 DEF Queued, BookQueue, BorrowSteps, RecordSteps, BookSteps, Locks
<1>6. Asked(p)'
    BY <1>1, <1>3 DEF Asked, BorrowSteps, RecordSteps, BookSteps
<1>7. Current(p)'
    <2>1. \A c \in Books : BookRow(c) \in held'[p] => BookRow(c) \in held[p]
        BY <1>3, RowsDiffer
    <2> QED BY <1>1, <1>3, <2>1 DEF Current, RecordSteps, vars
<1>8. Granted(p)'
    BY <1>1, <1>3, SameAnswers DEF Granted
<1> QED BY <1>3, <1>5, <1>6, <1>7, <1>8 DEF Serving

LEMMA RecordServing ==
    ASSUME ServiceInv, NEW p \in Procs, step[p] \in RecordSteps, Asked(p), UNCHANGED vars,
           step'[p] = step[p], req'[p] = req[p],
           NEW r, NEW m, NEW b,
           r = req[p].record, m = loan[r].member, b = loan[r].book,
           RecordQueue(p, RecordRow(r), UserRow(m), BookRow(b))',
           RecordRow(r) \in held'[p] => seen'[p].status = loan[r].status,
           BookRow(b) \in held'[p] =>
             /\ shelf[b] = "listed" /\ seen'[p].shelf = "listed"
             /\ seen'[p].stock = available[b] /\ seen'[p].total = total[b]
    PROVE  Serving(p)'
<1>1. UNCHANGED <<day, shelf, total, available, eligible, loan, fine>>
    BY DEF vars
<1>2. Asked(p)'
    BY <1>1 DEF Asked, RecordSteps, BorrowSteps, BookSteps, Exists
<1>3. Queued(p)'
    BY <1>1 DEF Queued, RecordQueue, RecordSteps, BorrowSteps, BookSteps, Locks
<1>4. \A c : BookRow(c) \in held'[p] => c = b
    BY RowsDiffer DEF RecordQueue, RecordSteps, Locks
<1>5. Current(p)'
    BY <1>1, <1>4 DEF Current, RecordSteps
<1>6. Granted(p)'
    BY DEF Granted, RecordSteps
<1> QED BY <1>2, <1>3, <1>5, <1>6 DEF Serving

LEMMA RecordLocked ==
    ASSUME ServiceInv, NEW p \in Procs, LockNext(p), step[p] \in RecordSteps
    PROVE  ServiceInv' /\ UNCHANGED vars
<1>1. Asked(p) /\ Queued(p) /\ Current(p)
    BY DEF ServiceInv, Serving
<1>2. PICK r \in Loans : r = req[p].record /\ Exists(r)
    BY <1>1 DEF Asked
<1>3. loan[r] \in LoanRows
    BY <1>2, ExistingRow DEF ServiceInv, Exists
<1>4. PICK m \in Members, b \in Books :
        m = loan[r].member /\ b = loan[r].book /\ shelf[b] = "listed"
    BY <1>2, <1>3 DEF LoanRows, ServiceInv, TitlesKept
<1>5. RecordQueue(p, RecordRow(r), UserRow(m), BookRow(b))
    BY <1>1, <1>2, <1>4 DEF Queued
<1>6. RecordRow(r) \in held[p] => seen[p].status = loan[r].status
    BY <1>1, <1>2 DEF Current
<1>7. todo[p] # << >>
    BY DEF LockNext
<1>8. CASE Head(todo[p]) = RecordRow(r)
    <2>1. /\ UNCHANGED vars
          /\ step'[p] = step[p] /\ req'[p] = req[p] /\ todo'[p] = Tail(todo[p])
          /\ held'[p] = held[p] \cup {RecordRow(r)}
          /\ seen'[p].status = loan[r].status
          /\ Serving(p)' => ServiceInv'
        BY <1>2, <1>8, LockStatus
    <2>2. /\ held[p] = {}
          /\ step[p] = "return" => todo[p] = <<RecordRow(r), UserRow(m), BookRow(b)>>
          /\ step[p] \in {"lost", "resolve"} => todo[p] = <<RecordRow(r), BookRow(b)>>
        BY <1>5, <1>7, <1>8, RowsDiffer DEF RecordQueue, RecordSteps, Locks
    <2>3. /\ held'[p] = {RecordRow(r)}
          /\ step[p] = "return" => todo'[p] = <<UserRow(m), BookRow(b)>>
          /\ step[p] \in {"lost", "resolve"} => todo'[p] = <<BookRow(b)>>
        <3>1. CASE step[p] = "return"
            <4>1. Tail(<<RecordRow(r), UserRow(m), BookRow(b)>>) = <<UserRow(m), BookRow(b)>>
                OBVIOUS
            <4> QED BY <2>1, <2>2, <3>1, <4>1
        <3>2. CASE step[p] \in {"lost", "resolve"}
            <4>1. Tail(<<RecordRow(r), BookRow(b)>>) = <<BookRow(b)>>
                OBVIOUS
            <4> QED BY <2>1, <2>2, <3>2, <4>1
        <3> QED BY <3>1, <3>2 DEF RecordSteps
    <2>4. RecordQueue(p, RecordRow(r), UserRow(m), BookRow(b))'
        BY <2>1, <2>3 DEF RecordQueue, Locks
    <2>5. BookRow(b) \notin held'[p]
        BY <2>3, RowsDiffer
    <2>6. Serving(p)'
        BY <1>1, <1>2, <1>4, <2>1, <2>4, <2>5, RecordServing
    <2> QED BY <2>1, <2>6
<1>9. CASE Head(todo[p]) = UserRow(m)
    <2>1. /\ UNCHANGED vars
          /\ step'[p] = step[p] /\ req'[p] = req[p] /\ todo'[p] = Tail(todo[p])
          /\ held'[p] = held[p] \cup {UserRow(m)}
          /\ seen'[p] = [seen[p] EXCEPT !.eligible = eligible[m]]
          /\ Serving(p)' => ServiceInv'
        BY <1>9, LockUser
    <2>2. step[p] = "return" /\ Locks(p, <<UserRow(m), BookRow(b)>>, {RecordRow(r)})
        BY <1>5, <1>7, <1>9, RowsDiffer DEF RecordQueue, RecordSteps, Locks
    <2>3. held'[p] = {RecordRow(r), UserRow(m)} /\ todo'[p] = <<BookRow(b)>>
        BY <2>1, <2>2 DEF Locks
    <2>4. RecordQueue(p, RecordRow(r), UserRow(m), BookRow(b))'
        BY <2>1, <2>2, <2>3 DEF RecordQueue, Locks
    <2>5. seen'[p].status = loan[r].status
        BY <1>6, <2>1, <2>2 DEF Locks, ServiceInv, ControlTyped, SeenRows
    <2>6. BookRow(b) \notin held'[p]
        BY <2>3, RowsDiffer
    <2>7. Serving(p)'
        BY <1>1, <1>2, <1>4, <2>1, <2>4, <2>5, <2>6, RecordServing
    <2> QED BY <2>1, <2>7
<1>10. CASE Head(todo[p]) = BookRow(b)
    <2>1. /\ UNCHANGED vars
          /\ step'[p] = step[p] /\ req'[p] = req[p] /\ todo'[p] = Tail(todo[p])
          /\ held'[p] = held[p] \cup {BookRow(b)}
          /\ seen'[p].status = seen[p].status
          /\ seen'[p].shelf = shelf[b]
          /\ seen'[p].stock = available[b] /\ seen'[p].total = total[b]
          /\ Serving(p)' => ServiceInv'
        BY <1>4, <1>10, LockBook
    <2>2. /\ todo[p] = <<BookRow(b)>> /\ RecordRow(r) \in held[p]
          /\ step[p] = "return" => held[p] = {RecordRow(r), UserRow(m)}
          /\ step[p] \in {"lost", "resolve"} => held[p] = {RecordRow(r)}
        BY <1>5, <1>7, <1>10, RowsDiffer DEF RecordQueue, RecordSteps, Locks
    <2>3. /\ todo'[p] = << >>
          /\ step[p] = "return" => held'[p] = {RecordRow(r), UserRow(m), BookRow(b)}
          /\ step[p] \in {"lost", "resolve"} => held'[p] = {RecordRow(r), BookRow(b)}
        BY <2>1, <2>2
    <2>4. RecordQueue(p, RecordRow(r), UserRow(m), BookRow(b))'
        BY <2>1, <2>3 DEF RecordQueue, Locks
    <2>5. Serving(p)'
        BY <1>1, <1>2, <1>4, <1>6, <2>1, <2>2, <2>4, RecordServing
    <2> QED BY <2>1, <2>5
<1> QED BY <1>5, <1>7, <1>8, <1>9, <1>10 DEF RecordQueue, RecordSteps, Locks

LEMMA FineLocked ==
    ASSUME ServiceInv, NEW p \in Procs, LockNext(p), step[p] = "pay"
    PROVE  ServiceInv' /\ UNCHANGED vars
<1>1. Asked(p) /\ Queued(p)
    BY DEF ServiceInv, Serving
<1>2. PICK r \in Loans : /\ r = req[p].record /\ fine[r] # NoFine
                        /\ Locks(p, <<FineRow(r)>>, {})
    BY <1>1 DEF Asked, Queued, Locks, LockNext
<1>3. Head(todo[p]) = FineRow(r) /\ Tail(todo[p]) = << >>
    BY <1>2 DEF Locks
<1>4. /\ UNCHANGED vars
      /\ step'[p] = step[p] /\ req'[p] = req[p] /\ todo'[p] = Tail(todo[p])
      /\ held'[p] = held[p] \cup {FineRow(r)}
      /\ seen'[p].status = fine[r].status
      /\ Serving(p)' => ServiceInv'
    BY <1>3, LockStatus
<1>5. held'[p] = {FineRow(r)} /\ todo'[p] = << >>
    BY <1>2, <1>3, <1>4 DEF Locks
<1>6. Asked(p)' /\ Queued(p)' /\ Granted(p)'
    BY <1>2, <1>4, <1>5 DEF Asked, Queued, Granted, BorrowSteps, RecordSteps, BookSteps, Locks, vars
<1>7. Current(p)'
    BY <1>2, <1>4, <1>5, RowsDiffer DEF Current, RecordSteps, vars
<1> QED BY <1>4, <1>6, <1>7 DEF Serving

LEMMA RowLocked ==
    ASSUME ServiceInv, NEW p \in Procs, LockNext(p)
    PROVE  ServiceInv' /\ UNCHANGED vars
<1>1. Queued(p) /\ step[p] \in Steps
    BY DEF ServiceInv, Serving, ControlTyped
<1>2. step[p] \in {"member", "title", "edit", "save", "delete", "pay"} \cup RecordSteps
    BY <1>1 DEF LockNext, Queued, BorrowQueue, BookQueue, Locks, Steps, BorrowSteps,
                RecordSteps, BookSteps
<1>3. CASE step[p] = "save"
    <2>1. Head(todo[p]) = LinksRow(req[p].book)
        BY <1>1, <1>3 DEF LockNext, Queued, BookQueue, BookSteps, Locks
    <2> QED BY <1>3, <2>1, LinksLocked
<1>4. CASE step[p] \in {"title", "edit", "delete"}
    <2>1. CASE Head(todo[p]) = LinksRow(req[p].book) /\ step[p] = "delete"
        BY <2>1, LinksLocked
    <2>2. CASE Head(todo[p]) # LinksRow(req[p].book)
        BY <1>4, <2>2, TitleLocked
    <2>3. step[p] \in {"title", "edit"} => Head(todo[p]) # LinksRow(req[p].book)
        BY <1>1, RowsDiffer DEF LockNext, Queued, BorrowQueue, BookQueue, Locks, BorrowSteps,
                                BookSteps
    <2> QED BY <1>4, <2>1, <2>2, <2>3
<1> QED BY <1>2, <1>3, <1>4, MemberLocked, RecordLocked, FineLocked

-----------------------------------------------------------------------------
(***************************************************************************)
(* Tests between two statements.                                           *)
(***************************************************************************)
LEMMA Moved ==
    ASSUME ServiceInv, NEW p \in Procs, NEW next \in Steps, NEW rows, NEW saw \in SeenRows,
           UNCHANGED <<vars, req, held>>,
           step' = [step EXCEPT ![p] = next],
           todo' = [todo EXCEPT ![p] = rows],
           seen' = [seen EXCEPT ![p] = saw]
    PROVE  /\ UNCHANGED vars
           /\ step'[p] = next /\ req'[p] = req[p] /\ todo'[p] = rows
           /\ held'[p] = held[p] /\ seen'[p] = saw
           /\ Serving(p)' => ServiceInv'
<1>0. ControlTyped
    BY DEF ServiceInv
<1>1. /\ step'[p] = next /\ req'[p] = req[p] /\ todo'[p] = rows
      /\ held'[p] = held[p] /\ seen'[p] = saw
    BY <1>0 DEF ControlTyped
<1>2. \A q \in Procs \ {p} : Same(q)
    BY <1>0 DEF ControlTyped, Same
<1>3. \A q \in Procs \ {p} : held'[p] \cap held[q] = {}
    BY <1>1 DEF ServiceInv
<1>4. ControlTyped'
    BY <1>0 DEF ControlTyped
<1> QED BY <1>1, <1>2, <1>3, <1>4, QuietStep

LEMMA Went ==
    ASSUME ServiceInv, NEW p \in Procs, NEW next \in Steps, GoTo(p, next)
    PROVE  /\ UNCHANGED vars
           /\ step'[p] = next /\ req'[p] = req[p] /\ todo'[p] = todo[p]
           /\ held'[p] = held[p] /\ seen'[p] = seen[p]
           /\ Serving(p)' => ServiceInv'
<1>0. ControlTyped
    BY DEF ServiceInv
<1>1. seen[p] \in SeenRows
    BY <1>0 DEF ControlTyped
<1>2. /\ todo' = [todo EXCEPT ![p] = todo[p]] /\ seen' = [seen EXCEPT ![p] = seen[p]]
      /\ UNCHANGED <<vars, req, held>> /\ step' = [step EXCEPT ![p] = next]
    BY <1>0 DEF ControlTyped, GoTo
<1> QED BY <1>1, <1>2, Moved

LEMMA MemberChecked ==
    ASSUME ServiceInv, NEW p \in Procs, CheckMember(p)
    PROVE  ServiceInv' /\ UNCHANGED vars
<1>1. CASE Rollback(p)
    BY <1>1, RolledBack
<1>2. CASE GoTo(p, "fines") /\ seen[p].eligible
    <2>1. Asked(p) /\ Queued(p) /\ Current(p) /\ step[p] = "member" /\ todo[p] = << >>
        BY DEF ServiceInv, Serving, CheckMember, At
    <2>2. PICK m \in Members, b \in Books : m = req[p].member /\ b = req[p].book
        BY <2>1 DEF Asked, BorrowSteps
    <2>3. /\ UNCHANGED vars
          /\ step'[p] = "fines" /\ req'[p] = req[p] /\ todo'[p] = todo[p]
          /\ held'[p] = held[p] /\ seen'[p] = seen[p]
          /\ Serving(p)' => ServiceInv'
        BY <1>2, Went DEF Steps
    <2>4. held[p] = {UserRow(m)} /\ eligible[m]
        <3>1. held[p] = {UserRow(m)}
            BY <2>1, <2>2 DEF Queued, BorrowQueue, BorrowSteps, Locks
        <3> QED BY <1>2, <2>1, <2>2, <3>1 DEF Current
    <2>5. Asked(p)' /\ Queued(p)' /\ Granted(p)'
        BY <2>1, <2>2, <2>3, <2>4, SameAnswers
           DEF Asked, Queued, Granted, BorrowQueue, BorrowSteps, RecordSteps, BookSteps,
               Locks
    <2>6. Current(p)'
        BY <2>3, <2>4, RowsDiffer DEF Current, RecordSteps
    <2> QED BY <2>3, <2>5, <2>6 DEF Serving
<1> QED BY <1>1, <1>2 DEF CheckMember

LEMMA FinesChecked ==
    ASSUME ServiceInv, NEW p \in Procs, CheckFines(p)
    PROVE  ServiceInv' /\ UNCHANGED vars
<1>1. CASE Rollback(p)
    BY <1>1, RolledBack
<1>2. CASE GoTo(p, "limit") /\ ~(BlockOnPendingFines /\ HasPendingFines(req[p].member))
    <2>1. Asked(p) /\ Queued(p) /\ Granted(p) /\ step[p] = "fines" /\ todo[p] = << >>
        BY DEF ServiceInv, Serving, CheckFines, At
    <2>2. PICK m \in Members, b \in Books : m = req[p].member /\ b = req[p].book
        BY <2>1 DEF Asked, BorrowSteps
    <2>3. /\ UNCHANGED vars
          /\ step'[p] = "limit" /\ req'[p] = req[p] /\ todo'[p] = todo[p]
          /\ held'[p] = held[p] /\ seen'[p] = seen[p]
          /\ Serving(p)' => ServiceInv'
        BY <1>2, Went DEF Steps
    <2>4. held[p] = {UserRow(m)}
        BY <2>1, <2>2 DEF Queued, BorrowQueue, BorrowSteps, Locks
    <2>5. Asked(p)' /\ Queued(p)'
        BY <2>1, <2>2, <2>3, <2>4
           DEF Asked, Queued, BorrowQueue, BorrowSteps, RecordSteps, BookSteps, Locks
    <2>6. Granted(p)'
        BY <1>2, <2>1, <2>2, <2>3, SameAnswers DEF Granted
    <2>7. Current(p)'
        BY <2>3, <2>4, RowsDiffer DEF Current, RecordSteps
    <2> QED BY <2>3, <2>5, <2>6, <2>7 DEF Serving
<1> QED BY <1>1, <1>2 DEF CheckFines

LEMMA LimitChecked ==
    ASSUME ServiceInv, NEW p \in Procs, CheckLimit(p)
    PROVE  ServiceInv' /\ UNCHANGED vars
<1>1. CASE Rollback(p)
    BY <1>1, RolledBack
<1>2. CASE ~Rollback(p)
    <2>1. Asked(p) /\ Queued(p) /\ Granted(p) /\ step[p] = "limit" /\ todo[p] = << >>
        BY DEF ServiceInv, Serving, CheckLimit, At
    <2>2. PICK m \in Members, b \in Books : m = req[p].member /\ b = req[p].book
        BY <2>1 DEF Asked, BorrowSteps
    <2>3. /\ ~(Cardinality(OpenOf(m)) >= BorrowLimit[m])
          /\ step' = [step EXCEPT ![p] = "title"]
          /\ todo' = [todo EXCEPT ![p] = <<BookRow(b)>>]
          /\ UNCHANGED <<vars, req, seen, held>>
        BY <1>2, <2>2 DEF CheckLimit
    <2>4. seen[p] \in SeenRows /\ seen' = [seen EXCEPT ![p] = seen[p]]
        BY <2>3 DEF ServiceInv, ControlTyped
    <2>5. /\ UNCHANGED vars
          /\ step'[p] = "title" /\ req'[p] = req[p] /\ todo'[p] = <<BookRow(b)>>
          /\ held'[p] = held[p] /\ seen'[p] = seen[p]
          /\ Serving(p)' => ServiceInv'
        BY <2>3, <2>4, Moved DEF Steps
    <2>6. held[p] = {UserRow(m)}
        BY <2>1, <2>2 DEF Queued, BorrowQueue, BorrowSteps, Locks
    <2>7. Asked(p)' /\ Queued(p)'
        BY <2>1, <2>2, <2>5, <2>6
           DEF Asked, Queued, BorrowQueue, BorrowSteps, RecordSteps, BookSteps, Locks
    <2>8. Cardinality(OpenOf(m)) < BorrowLimit[m]
        BY <2>3, OpenFinite, SettingsAssumption
    <2>9. Granted(p)'
        BY <2>1, <2>2, <2>5, <2>8, SameAnswers DEF Granted
    <2>10. Current(p)'
        BY <2>5, <2>6, RowsDiffer DEF Current, RecordSteps
    <2> QED BY <2>5, <2>7, <2>9, <2>10 DEF Serving
<1> QED BY <1>1, <1>2

LEMMA TitleChecked ==
    ASSUME ServiceInv, NEW p \in Procs, CheckTitle(p)
    PROVE  ServiceInv' /\ UNCHANGED vars
<1>1. CASE Rollback(p)
    BY <1>1, RolledBack
<1>2. CASE ~Rollback(p)
    <2>1. /\ Asked(p) /\ Queued(p) /\ Current(p) /\ Granted(p)
          /\ step[p] = "title" /\ todo[p] = << >>
        BY DEF ServiceInv, Serving, CheckTitle, At
    <2>2. PICK m \in Members, b \in Books : m = req[p].member /\ b = req[p].book
        BY <2>1 DEF Asked, BorrowSteps
    <2>3. /\ seen[p].shelf = "listed" /\ seen[p].stock >= 1 /\ ~HasActive(m, b)
          /\ GoTo(p, "insert")
        BY <1>2, <2>2 DEF CheckTitle
    <2>4. /\ UNCHANGED vars
          /\ step'[p] = "insert" /\ req'[p] = req[p] /\ todo'[p] = todo[p]
          /\ held'[p] = held[p] /\ seen'[p] = seen[p]
          /\ Serving(p)' => ServiceInv'
        BY <2>3, Went DEF Steps
    <2>5. held[p] = {UserRow(m), BookRow(b)}
        BY <2>1, <2>2, <2>3 DEF Queued, BorrowQueue, BorrowSteps, Locks
    <2>6. Asked(p)' /\ Queued(p)'
        BY <2>1, <2>2, <2>4, <2>5
           DEF Asked, Queued, BorrowQueue, BorrowSteps, RecordSteps, BookSteps, Locks
    <2>7. Granted(p)'
        BY <2>1, <2>2, <2>3, <2>4, SameAnswers DEF Granted
    <2>8. Current(p)'
        BY <2>1, <2>4, SameAnswers DEF Current, RecordSteps
    <2> QED BY <2>4, <2>6, <2>7, <2>8 DEF Serving
<1> QED BY <1>1, <1>2

LEMMA ActiveCounted ==
    ASSUME ServiceInv, NEW p \in Procs, CountActive(p)
    PROVE  ServiceInv' /\ UNCHANGED vars
<1>1. CASE Rollback(p)
    BY <1>1, RolledBack
<1>2. CASE ~Rollback(p)
    <2>1. Asked(p) /\ Queued(p) /\ Current(p) /\ step[p] = "edit" /\ todo[p] = << >>
        BY DEF ServiceInv, Serving, CountActive, At
    <2>2. PICK b \in Books : b = req[p].book
        BY <2>1 DEF Asked, BookSteps
    <2> DEFINE active == Cardinality(ActiveOf(b))
               saw == [seen[p] EXCEPT !.count = active]
               rows == IF req[p].drops THEN <<LinksRow(b)>> ELSE << >>
    <2>3. /\ seen[p].shelf = "listed" /\ ~(req[p].copies < active)
          /\ step' = [step EXCEPT ![p] = "save"]
          /\ seen' = [seen EXCEPT ![p].count = active]
          /\ todo' = [todo EXCEPT ![p] = rows]
          /\ UNCHANGED <<vars, req, held>>
        BY <1>2, <2>2 DEF CountActive
    <2>4. active \in Nat /\ req[p].copies \in 0..MaxCopies
        BY <2>1, ActiveFinite DEF Asked
    <2>5. req[p].copies >= active
        BY <2>3, <2>4, SettingsAssumption
    <2>6. /\ saw \in SeenRows /\ saw.count = active /\ saw.shelf = seen[p].shelf
          /\ saw.stock = seen[p].stock /\ saw.total = seen[p].total
        BY <2>4 DEF ServiceInv, ControlTyped, SeenRows
    <2>7. /\ seen' = [seen EXCEPT ![p] = saw] /\ todo' = [todo EXCEPT ![p] = rows]
          /\ step' = [step EXCEPT ![p] = "save"] /\ UNCHANGED <<vars, req, held>>
          /\ "save" \in Steps
        BY <2>3 DEF ServiceInv, ControlTyped, Steps
    <2>8. rows \in {<< >>, <<LinksRow(b)>>}
        OBVIOUS
    <2> HIDE DEF saw, rows
    <2>9. /\ UNCHANGED vars
          /\ step'[p] = "save" /\ req'[p] = req[p] /\ todo'[p] = rows
          /\ held'[p] = held[p] /\ seen'[p] = saw
          /\ Serving(p)' => ServiceInv'
        BY <2>6, <2>7, Moved
    <2>10. held[p] = {BookRow(b)}
        BY <2>1, <2>2, <2>3 DEF Queued, BookQueue, BookSteps, Locks
    <2>11. Asked(p)' /\ Queued(p)'
        BY <2>1, <2>2, <2>8, <2>9, <2>10
           DEF Asked, Queued, BookQueue, BorrowSteps, RecordSteps, BookSteps, Locks
    <2>12. Granted(p)'
        BY <2>2, <2>5, <2>6, <2>9, SameAnswers DEF Granted
    <2>13. Current(p)'
        BY <2>1, <2>6, <2>9, SameAnswers DEF Current, RecordSteps
    <2> QED BY <2>9, <2>11, <2>12, <2>13 DEF Serving
<1> QED BY <1>1, <1>2

LEMMA SyncVisited ==
    ASSUME ServiceInv, NEW p \in Procs, SyncVisit(p)
    PROVE  ServiceInv' /\ UNCHANGED vars
<1>1. Asked(p) /\ Queued(p) /\ Current(p) /\ step[p] = "sync" /\ todo[p] # << >>
    BY DEF ServiceInv, Serving, SyncVisit
<1>2. todo[p] \in Seq(RecordRows) /\ held[p] \subseteq RecordRows
    BY <1>1 DEF Queued
<1>3. Head(todo[p]) \in RecordRows /\ Tail(todo[p]) \in Seq(RecordRows)
    BY <1>1, <1>2, HeadTailProperties
<1>4. PICK r \in Loans : Head(todo[p]) = RecordRow(r)
    BY <1>3 DEF RecordRows
<1> DEFINE rows == IF PastDue(r) THEN held[p] \cup {RecordRow(r)} ELSE held[p]
<1>5. Head(todo[p])[2] = r
    BY <1>4 DEF RecordRow
<1>6. held' = [held EXCEPT ![p] = rows]
    BY <1>4, <1>5 DEF SyncVisit
<1>7. rows \subseteq held[p] \cup {Head(todo[p])} /\ rows \subseteq RecordRows
    BY <1>2, <1>3, <1>4
<1>8. \A k \in Loans : RecordRow(k) \in rows => PastDue(k)
    BY <1>1, RowsDiffer DEF Current
<1> HIDE DEF rows
<1>9. /\ UNCHANGED <<vars, step, req>> /\ todo' = [todo EXCEPT ![p] = Tail(@)]
      /\ Free(p, Head(todo[p])) /\ seen[p] \in SeenRows
      /\ seen' = [seen EXCEPT ![p] = seen[p]]
    BY DEF SyncVisit, ServiceInv, ControlTyped
<1>10. /\ UNCHANGED vars
       /\ step'[p] = step[p] /\ req'[p] = req[p] /\ todo'[p] = Tail(todo[p])
       /\ held'[p] = rows
       /\ Serving(p)' => ServiceInv'
    BY <1>6, <1>7, <1>9, LockTaken
<1>11. Asked(p)' /\ Queued(p)' /\ Granted(p)'
    BY <1>1, <1>3, <1>7, <1>10 DEF Asked, Queued, Granted, BorrowSteps, RecordSteps, BookSteps
<1>12. \A b : BookRow(b) \notin rows
    BY <1>7, RowsDiffer DEF RecordRows
<1>13. Current(p)'
    BY <1>1, <1>8, <1>10, <1>12 DEF Current, PastDue, RecordSteps, vars
<1> QED BY <1>10, <1>11, <1>13 DEF Serving

-----------------------------------------------------------------------------
(***************************************************************************)
(* Commits.  Each is the service of Library.tla that it stands for.        *)
(***************************************************************************)
LEMMA OnlyHeldOnce ==
    ASSUME ServiceInv, NEW p \in Procs, NEW row \in held[p]
    PROVE  \A q \in Procs \ {p} : row \notin held[q]
BY DEF ServiceInv

LEMMA InsertCommits ==
    ASSUME ServiceInv, NEW p \in Procs, InsertLoan(p)
    PROVE  ServiceInv' /\ [Next]_vars
<1>1. /\ Asked(p) /\ Queued(p) /\ Current(p) /\ Granted(p)
      /\ step[p] = "insert" /\ todo[p] = << >>
    BY DEF ServiceInv, Serving, InsertLoan, At
<1>2. PICK m \in Members, b \in Books : m = req[p].member /\ b = req[p].book
    BY <1>1 DEF Asked, BorrowSteps
<1>3. held[p] = {UserRow(m), BookRow(b)}
    BY <1>1, <1>2 DEF Queued, BorrowQueue, BorrowSteps, Locks
<1>4. shelf[b] = "listed" /\ seen[p].stock = available[b]
    BY <1>1, <1>3 DEF Current
<1>5. BorrowChecks(m, b)
    BY <1>1, <1>2, <1>4 DEF Granted, BorrowChecks
<1>6. PICK r \in Unused :
        /\ loan' = [loan EXCEPT ![r] = [status   |-> "BORROWED",
                                        member   |-> m,
                                        book     |-> b,
                                        due      |-> day + LoanDays,
                                        returned |-> Never]]
        /\ available' = [available EXCEPT ![b] = seen[p].stock - 1]
        /\ End(p)
        /\ UNCHANGED <<day, shelf, total, eligible, fine>>
    BY <1>2, <1>5 DEF InsertLoan, BorrowChecks
<1>7. r \in Loans /\ Borrow(m, b, r)
    BY <1>4, <1>5, <1>6 DEF Borrow, Unused
<1>8. [Next]_vars
    BY <1>7 DEF Next
<1>9. \A q \in Procs \ {p} : UserRow(m) \notin held[q] /\ BookRow(b) \notin held[q]
    BY <1>3, OnlyHeldOnce
<1>10. \A q \in Procs \ {p} : Spares(q)
    BY <1>7, <1>9, BorrowSpares
<1> QED BY <1>6, <1>8, <1>10, Ended

LEMMA ReturnCommits ==
    ASSUME ServiceInv, NEW p \in Procs, ReturnSave(p)
    PROVE  ServiceInv' /\ [Next]_vars
<1>1. CASE Rollback(p)
    BY <1>1, RolledBack
<1>2. CASE ~Rollback(p)
    <2>1. /\ Asked(p) /\ Queued(p) /\ Current(p) /\ TypeOK /\ ControlTyped
          /\ step[p] = "return" /\ todo[p] = << >>
        BY DEF ServiceInv, Serving, ReturnSave, At
    <2>2. PICK r \in Loans : r = req[p].record /\ Exists(r)
        BY <2>1 DEF Asked, RecordSteps
    <2>3. loan[r].book \in Books /\ loan[r].member \in Members
        BY <2>1, <2>2, ExistingRow DEF Exists, LoanRows
    <2>4. held[p] = {RecordRow(r), UserRow(loan[r].member), BookRow(loan[r].book)}
        BY <2>1, <2>2 DEF Queued, RecordQueue, RecordSteps, Locks
    <2>5. /\ seen[p].status = loan[r].status
          /\ seen[p].stock = available[loan[r].book] /\ seen[p].total = total[loan[r].book]
        BY <2>1, <2>2, <2>3, <2>4 DEF Current, RecordSteps
    <2>6. /\ loan[r].status \in OpenStatuses
          /\ ~(available[loan[r].book] + 1 > total[loan[r].book])
          /\ loan' = [loan EXCEPT ![r] = ReturnedRow(r)]
          /\ available' = [available EXCEPT ![loan[r].book] = available[loan[r].book] + 1]
          /\ fine' = [fine EXCEPT ![r] = FineOnReturn(r, loan[r].due, day)]
          /\ End(p)
          /\ UNCHANGED <<day, shelf, total, eligible>>
        BY <1>2, <2>2, <2>5 DEF ReturnSave
    <2>7. available[loan[r].book] < total[loan[r].book]
        BY <2>1, <2>3, <2>6 DEF TypeOK
    <2>8. Return(r)
        BY <2>6, <2>7 DEF Return
    <2>9. \A q \in Procs \ {p} : /\ RecordRow(r) \notin held[q]
                                 /\ UserRow(loan[r].member) \notin held[q]
                                 /\ BookRow(loan[r].book) \notin held[q]
        BY <2>4, OnlyHeldOnce
    <2>10. \A q \in Procs \ {p} : Spares(q)
        BY <2>8, <2>9, ReturnSpares
    <2>11. [Next]_vars
        BY <2>8 DEF Next
    <2> QED BY <2>6, <2>10, <2>11, Ended
<1> QED BY <1>1, <1>2

LEMMA LostCommits ==
    ASSUME ServiceInv, NEW p \in Procs, LostSave(p)
    PROVE  ServiceInv' /\ [Next]_vars
<1>1. CASE Rollback(p)
    BY <1>1, RolledBack
<1>2. CASE ~Rollback(p)
    <2>1. Asked(p) /\ Queued(p) /\ Current(p) /\ step[p] = "lost" /\ todo[p] = << >>
        BY DEF ServiceInv, Serving, LostSave, At
    <2>2. PICK r \in Loans : r = req[p].record
        BY <2>1 DEF Asked, RecordSteps
    <2>3. RecordRow(r) \in held[p]
        BY <2>1, <2>2 DEF Queued, RecordQueue, RecordSteps, Locks
    <2>4. seen[p].status = loan[r].status
        BY <2>1, <2>2, <2>3 DEF Current, RecordSteps
    <2>5. MarkLost(r) /\ End(p)
        BY <1>2, <2>2, <2>4 DEF LostSave, MarkLost
    <2>6. \A q \in Procs \ {p} : Spares(q)
        BY <2>3, <2>5, OnlyHeldOnce, LostSpares
    <2>7. [Next]_vars
        BY <2>5 DEF Next
    <2> QED BY <2>5, <2>6, <2>7, Ended
<1> QED BY <1>1, <1>2

LEMMA ResolveCommits ==
    ASSUME ServiceInv, NEW p \in Procs, ResolveSave(p)
    PROVE  ServiceInv' /\ [Next]_vars
<1>1. CASE Rollback(p)
    BY <1>1, RolledBack
<1>2. CASE ~Rollback(p)
    <2>1. /\ Asked(p) /\ Queued(p) /\ Current(p) /\ TypeOK
          /\ step[p] = "resolve" /\ todo[p] = << >>
        BY DEF ServiceInv, Serving, ResolveSave, At
    <2>2. PICK r \in Loans, restore \in BOOLEAN :
            r = req[p].record /\ restore = req[p].restore /\ Exists(r)
        BY <2>1 DEF Asked, RecordSteps
    <2>3. loan[r].book \in Books
        BY <2>1, <2>2, ExistingRow DEF Exists, LoanRows
    <2>4. held[p] = {RecordRow(r), BookRow(loan[r].book)}
        BY <2>1, <2>2 DEF Queued, RecordQueue, RecordSteps, Locks
    <2>5. /\ seen[p].status = loan[r].status
          /\ seen[p].stock = available[loan[r].book] /\ seen[p].total = total[loan[r].book]
        BY <2>1, <2>2, <2>3, <2>4 DEF Current, RecordSteps
    <2> DEFINE restored == IF restore THEN 1 ELSE 0
    <2>6. /\ loan[r].status = "LOST"
          /\ ~(available[loan[r].book] + restored > total[loan[r].book])
          /\ loan' = [loan EXCEPT ![r] = ReturnedRow(r)]
          /\ available' = [available EXCEPT ![loan[r].book] =
                             available[loan[r].book] + restored]
          /\ End(p)
          /\ UNCHANGED <<day, shelf, total, eligible, fine>>
        BY <1>2, <2>2, <2>5 DEF ResolveSave
    <2>7. /\ available[loan[r].book] \in Nat /\ total[loan[r].book] \in Nat
          /\ restore => available[loan[r].book] < total[loan[r].book]
          /\ available[loan[r].book] + restored =
               IF restore THEN available[loan[r].book] + 1 ELSE available[loan[r].book]
        BY <2>1, <2>3, <2>6 DEF TypeOK
    <2>8. ResolveLost(r, restore)
        BY <2>6, <2>7 DEF ResolveLost
    <2>9. \A q \in Procs \ {p} : /\ RecordRow(r) \notin held[q]
                                 /\ BookRow(loan[r].book) \notin held[q]
        BY <2>4, OnlyHeldOnce
    <2>10. \A q \in Procs \ {p} : Spares(q)
        BY <2>8, <2>9, ResolveSpares
    <2>11. [Next]_vars
        BY <2>8 DEF Next
    <2> QED BY <2>6, <2>10, <2>11, Ended
<1> QED BY <1>1, <1>2

LEMMA PayCommits ==
    ASSUME ServiceInv, NEW p \in Procs, PaySave(p)
    PROVE  ServiceInv' /\ [Next]_vars
<1>1. CASE Rollback(p)
    BY <1>1, RolledBack
<1>2. CASE ~Rollback(p)
    <2>1. Asked(p) /\ Queued(p) /\ Current(p) /\ step[p] = "pay" /\ todo[p] = << >>
        BY DEF ServiceInv, Serving, PaySave, At
    <2>2. PICK r \in Loans : r = req[p].record
        BY <2>1 DEF Asked
    <2>3. FineRow(r) \in held[p] /\ seen[p].status = fine[r].status
        BY <2>1, <2>2 DEF Queued, Locks, Current
    <2>4. PayFine(r) /\ End(p)
        BY <1>2, <2>2, <2>3 DEF PaySave, PayFine
    <2>5. \A q \in Procs \ {p} : Spares(q)
        BY <2>3, <2>4, OnlyHeldOnce, PaySpares
    <2>6. [Next]_vars
        BY <2>4 DEF Next
    <2> QED BY <2>4, <2>5, <2>6, Ended
<1> QED BY <1>1, <1>2

LEMMA EditCommits ==
    ASSUME ServiceInv, NEW p \in Procs, EditSave(p)
    PROVE  ServiceInv' /\ [Next]_vars
<1>1. /\ Asked(p) /\ Queued(p) /\ Current(p) /\ Granted(p)
      /\ step[p] = "save" /\ todo[p] = << >>
    BY DEF ServiceInv, Serving, EditSave, At
<1>2. PICK b \in Books, n \in 0..MaxCopies : b = req[p].book /\ n = req[p].copies
    BY <1>1 DEF Asked, BookSteps
<1>3. BookRow(b) \in held[p] /\ shelf[b] = "listed"
    BY <1>1, <1>2 DEF Queued, BookQueue, BookSteps, Locks, Current
<1> DEFINE active == Cardinality(ActiveOf(b))
<1>4. seen[p].count = active /\ n >= active /\ active \in Nat /\ n \in Nat
    BY <1>1, <1>2, ActiveFinite, SettingsAssumption DEF Granted
<1>5. (IF n > active THEN n - active ELSE 0) = n - active
    BY <1>4
<1>6. /\ total' = [total EXCEPT ![b] = n]
      /\ available' = [available EXCEPT ![b] = n - active]
      /\ End(p) /\ UNCHANGED <<day, shelf, eligible, loan, fine>>
    BY <1>2, <1>4, <1>5 DEF EditSave
<1>7. UpdateBook(b, n)
    BY <1>3, <1>4, <1>6 DEF UpdateBook
<1>8. \A q \in Procs \ {p} : Spares(q)
    BY <1>3, <1>7, OnlyHeldOnce, CreateBookSpares
<1>9. [Next]_vars
    BY <1>7 DEF Next
<1> QED BY <1>6, <1>8, <1>9, Ended

LEMMA DeleteCommits ==
    ASSUME ServiceInv, NEW p \in Procs, DeleteCommit(p)
    PROVE  ServiceInv' /\ [Next]_vars
<1>1. CASE Rollback(p)
    BY <1>1, RolledBack
<1>2. CASE ~Rollback(p)
    <2>1. Asked(p) /\ Queued(p) /\ Current(p) /\ step[p] = "delete" /\ todo[p] = << >>
        BY DEF ServiceInv, Serving, DeleteCommit, At
    <2>2. PICK b \in Books : b = req[p].book
        BY <2>1 DEF Asked, BookSteps
    <2>3. /\ seen[p].shelf = "listed" /\ LoansOf(b) = {}
          /\ shelf' = [shelf EXCEPT ![b] = "deleted"]
          /\ End(p)
          /\ UNCHANGED <<day, total, available, eligible, loan, fine>>
        BY <1>2, <2>2 DEF DeleteCommit
    <2>4. BookRow(b) \in held[p]
        BY <2>1, <2>2, <2>3 DEF Queued, BookQueue, BookSteps, Locks
    <2>5. DeleteBook(b)
        BY <2>1, <2>3, <2>4 DEF DeleteBook, Current
    <2>6. \A q \in Procs \ {p} : Spares(q)
        BY <2>4, <2>5, OnlyHeldOnce, DeleteBookSpares
    <2>7. [Next]_vars
        BY <2>5 DEF Next
    <2> QED BY <2>3, <2>6, <2>7, Ended
<1> QED BY <1>1, <1>2

LEMMA SyncCommits ==
    ASSUME ServiceInv, NEW p \in Procs, SyncCommit(p)
    PROVE  ServiceInv' /\ [Next]_vars
<1> DEFINE S == {r \in Loans : RecordRow(r) \in held[p]}
<1>1. Current(p) /\ step[p] = "sync" /\ TypeOK
    BY DEF ServiceInv, Serving, SyncCommit, At
<1>2. \A r \in S : PastDue(r)
    BY <1>1 DEF Current
<1>3. /\ loan' = [r \in Loans |->
                    IF r \in S THEN [loan[r] EXCEPT !.status = "OVERDUE"] ELSE loan[r]]
      /\ UNCHANGED <<day, shelf, total, available, eligible, fine>>
      /\ End(p)
    BY DEF SyncCommit
<1>4. \A q \in Procs \ {p} : \A r \in S : RecordRow(r) \notin held[q]
    BY OnlyHeldOnce
<1> HIDE DEF S
<1>5. CASE S = {}
    <2>1. loan' = loan
        BY <1>1, <1>3, <1>5 DEF TypeOK
    <2>2. UNCHANGED vars
        BY <1>3, <2>1 DEF vars
    <2> QED BY <1>3, <2>2, SameTablesSpare, Ended
<1>6. CASE S # {}
    <2>1. S \in SUBSET Loans
        BY DEF S
    <2>2. SyncOverdue(S)
        BY <1>2, <1>3, <1>6 DEF SyncOverdue
    <2>3. \A q \in Procs \ {p} : Spares(q)
        BY <1>4, <2>1, <2>2, SyncSpares
    <2>4. [Next]_vars
        BY <2>1, <2>2 DEF Next
    <2> QED BY <1>3, <2>3, <2>4, Ended
<1> QED BY <1>5, <1>6

LEMMA WorldMoves ==
    ASSUME ServiceInv, Environment
    PROVE  ServiceInv' /\ [Next]_vars
<1>1. UNCHANGED control
    BY DEF Environment
<1>2. CASE NextDay
    <2>1. \A q \in Procs : Spares(q)
        BY <1>2, QuietSpares DEF NextDay, ServiceInv, TypeOK
    <2> QED BY <1>1, <1>2, <2>1, NobodyActs DEF Next
<1>3. ASSUME NEW m \in Members, AccountChange(m),
             \A p \in Procs : UserRow(m) \notin held[p]
      PROVE  ServiceInv' /\ [Next]_vars
    <2>1. \A k \in Members \ {m} : eligible'[k] = eligible[k]
        BY <1>3 DEF AccountChange, ServiceInv, TypeOK
    <2>2. UNCHANGED <<day, loan, fine, shelf, total, available>> /\ day' >= day
        BY <1>3 DEF AccountChange, ServiceInv, TypeOK
    <2>3. \A q \in Procs : Spares(q)
        BY <1>3, <2>1, <2>2, QuietSpares
    <2> QED BY <1>1, <1>3, <2>3, NobodyActs DEF Next
<1>4. ASSUME NEW b \in Books, NEW n \in 0..MaxCopies, CreateBook(b, n)
      PROVE  ServiceInv' /\ [Next]_vars
    <2>1. \A q \in Procs : Spares(q)
        BY <1>4, CreateBookSpares
    <2> QED BY <1>1, <1>4, <2>1, NobodyActs DEF Next
<1> QED BY <1>2, <1>3, <1>4 DEF Environment

\* Every step keeps the invariant, and is a step of Library.tla or none.
LEMMA ServiceStep ==
    ASSUME ServiceInv, [ServiceNext]_serviceVars
    PROVE  ServiceInv' /\ [Next]_vars
<1>1. CASE UNCHANGED serviceVars
    BY <1>1, SameTablesSpare, NobodyActs DEF serviceVars
<1>2. CASE Environment
    BY <1>2, WorldMoves
<1>3. ASSUME NEW p \in Workers, Request(p) PROVE ServiceInv' /\ [Next]_vars
    BY <1>3, RequestServed DEF Procs
<1>4. CASE StartSync(Cron)
    BY <1>4, SyncStarts DEF Procs
<1>5. ASSUME NEW p \in Procs, Work(p) PROVE ServiceInv' /\ [Next]_vars
    <2>1. CASE CheckMember(p) \/ CheckFines(p) \/ CheckLimit(p) \/ CheckTitle(p)
               \/ CountActive(p)
        BY <2>1, MemberChecked, FinesChecked, LimitChecked, TitleChecked, ActiveCounted
    <2>2. CASE InsertLoan(p) \/ ReturnSave(p) \/ LostSave(p) \/ ResolveSave(p)
               \/ PaySave(p) \/ EditSave(p) \/ DeleteCommit(p) \/ SyncCommit(p)
        BY <2>2, InsertCommits, ReturnCommits, LostCommits, ResolveCommits, PayCommits,
           EditCommits, DeleteCommits, SyncCommits
    <2> QED BY <1>5, <2>1, <2>2 DEF Work
<1>6. ASSUME NEW p \in Procs, Lock(p) PROVE ServiceInv' /\ [Next]_vars
    BY <1>6, RowLocked, SyncVisited DEF Lock
<1>7. ASSUME NEW p \in Procs, Abort(p) PROVE ServiceInv' /\ [Next]_vars
    BY <1>7, RolledBack DEF Abort
<1> QED BY <1>1, <1>2, <1>3, <1>4, <1>5, <1>6, <1>7 DEF ServiceNext

-----------------------------------------------------------------------------
(***************************************************************************)
(* The theorems.                                                           *)
(***************************************************************************)

\* What the services lean on at every point of every transaction: each holds the
\* locks its statements have taken, what it saw under them is still so, and the
\* tests it has passed still hold.
THEOREM LocksProtect == ServiceSpec => []ServiceInv
<1>1. ServiceInit => ServiceInv
    BY ServiceInitHolds
<1>2. ServiceInv /\ [ServiceNext]_serviceVars => ServiceInv'
    BY ServiceStep
<1> QED BY <1>1, <1>2, PTL DEF ServiceSpec

\* The transactions of borrowing/services.py and books/services.py implement the
\* atomic services: no interleaving, stale read, crash or retry shows at commit.
THEOREM TransactionsAreAtomic == ServiceSpec => ImplementsLibrary
<1>1. ServiceInit => Init
    BY DEF ServiceInit
<1>2. ServiceInv /\ [ServiceNext]_serviceVars => [Next]_vars
    BY ServiceStep
<1> QED BY <1>1, <1>2, LocksProtect, PTL DEF ServiceSpec, ImplementsLibrary, Spec

\* So whatever is proved of the atomic services holds of the transactions: stock,
\* borrow limits, the life of a record, and the promise of Lending.tla.
THEOREM TransactionsKeepPromises ==
    ServiceSpec => /\ []StockCovered /\ []LimitRespected /\ []TitlesKept
                   /\ LoanLifecycle /\ KeepsPromise
BY TransactionsAreAtomic, StockIsCovered, LimitIsRespected, TitlesAreKept,
   LifecycleIsRespected, DeskKeepsPromise, PTL DEF ImplementsLibrary

LEMMA RowsOfTables ==
    /\ \A m \in Members : UserRow(m) \in Rows
    /\ \A b \in Books : BookRow(b) \in Rows /\ LinksRow(b) \in Rows
    /\ \A r \in Loans : RecordRow(r) \in Rows /\ FineRow(r) \in Rows
BY DEF Rows, UserRow, BookRow, LinksRow, RecordRow, FineRow

LEMMA RowLists ==
    /\ << >> \in Seq(Rows)
    /\ \A x \in Rows : <<x>> \in Seq(Rows)
    /\ \A x, y \in Rows : <<x, y>> \in Seq(Rows)
    /\ \A x, y, z \in Rows : <<x, y, z>> \in Seq(Rows)
OBVIOUS

LEMMA LocksTyped ==
    ASSUME ServiceInv, NEW p \in Procs
    PROVE  todo[p] \in Seq(Rows) /\ held[p] \in SUBSET Rows
<1>1. Asked(p) /\ Queued(p) /\ step[p] \in Steps /\ TypeOK
    BY DEF ServiceInv, Serving, ControlTyped
<1>2. CASE step[p] \in BorrowSteps
    <2>1. PICK m \in Members, b \in Books : m = req[p].member /\ b = req[p].book
        BY <1>1, <1>2 DEF Asked
    <2>2. UserRow(m) \in Rows /\ BookRow(b) \in Rows
        BY RowsOfTables
    <2>3. /\ todo[p] \in {<< >>, <<UserRow(m)>>, <<BookRow(b)>>}
          /\ held[p] \subseteq {UserRow(m), BookRow(b)}
        BY <1>1, <1>2, <2>1 DEF Queued, BorrowQueue, BorrowSteps, Locks
    <2> QED BY <2>2, <2>3, RowLists
<1>3. CASE step[p] \in RecordSteps
    <2>1. PICK r \in Loans : r = req[p].record /\ Exists(r)
        BY <1>1, <1>3 DEF Asked
    <2>2. PICK m \in Members, b \in Books : m = loan[r].member /\ b = loan[r].book
        BY <1>1, <2>1, ExistingRow DEF Exists, LoanRows
    <2>3. UserRow(m) \in Rows /\ BookRow(b) \in Rows /\ RecordRow(r) \in Rows
        BY RowsOfTables
    <2>4. RecordQueue(p, RecordRow(r), UserRow(m), BookRow(b))
        BY <1>1, <1>3, <2>1, <2>2 DEF Queued
    <2>5. /\ todo[p] \in {<<RecordRow(r), UserRow(m), BookRow(b)>>,
                          <<UserRow(m), BookRow(b)>>, <<RecordRow(r), BookRow(b)>>,
                          <<BookRow(b)>>, << >>}
          /\ held[p] \subseteq {RecordRow(r), UserRow(m), BookRow(b)}
        BY <1>3, <2>4 DEF RecordQueue, RecordSteps, Locks
    <2> QED BY <2>3, <2>5, RowLists
<1>4. CASE step[p] \in BookSteps
    <2>1. PICK b \in Books : b = req[p].book
        BY <1>1, <1>4 DEF Asked
    <2>2. BookRow(b) \in Rows /\ LinksRow(b) \in Rows
        BY RowsOfTables
    <2>3. /\ todo[p] \in {<< >>, <<BookRow(b)>>, <<LinksRow(b)>>,
                          <<LinksRow(b), BookRow(b)>>}
          /\ held[p] \subseteq {BookRow(b), LinksRow(b)}
        BY <1>1, <1>4, <2>1 DEF Queued, BookQueue, BookSteps, Locks
    <2> QED BY <2>2, <2>3, RowLists
<1>5. CASE step[p] = "pay"
    <2>1. FineRow(req[p].record) \in Rows
        BY <1>1, <1>5, RowsOfTables DEF Asked
    <2>2. /\ todo[p] \in {<< >>, <<FineRow(req[p].record)>>}
          /\ held[p] \subseteq {FineRow(req[p].record)}
        BY <1>1, <1>5 DEF Queued, Locks
    <2> QED BY <2>1, <2>2, RowLists
<1>6. CASE step[p] = "sync"
    <2>1. todo[p] \in Seq(RecordRows) /\ held[p] \subseteq RecordRows
        BY <1>1, <1>6 DEF Queued
    <2>2. RecordRows \subseteq Rows
        BY RowsOfTables DEF RecordRows
    <2>3. \A i \in 1..Len(todo[p]) : todo[p][i] \in Rows
        BY <2>1, <2>2, ElementOfSeq
    <2>4. todo[p] \in Seq(Rows)
        BY <2>1, <2>3, IsASeq
    <2> QED BY <2>1, <2>2, <2>4
<1>7. CASE step[p] = "idle"
    BY <1>1, <1>7, RowLists DEF Queued, Locks
<1> QED BY <1>1, <1>2, <1>3, <1>4, <1>5, <1>6, <1>7
        DEF Steps, BorrowSteps, RecordSteps, BookSteps

\* The variables keep their types.
THEOREM ServiceTyped == ServiceSpec => []ServiceTypeOK
<1>1. ASSUME ServiceInv PROVE ServiceTypeOK
    <2>1. DOMAIN req = Procs
        BY <1>1 DEF ServiceInv, ControlTyped
    <2>2. todo \in [Procs -> Seq(Rows)] /\ held \in [Procs -> SUBSET Rows]
        BY <1>1, LocksTyped DEF ServiceInv, ControlTyped
    <2> QED BY <1>1, <2>1, <2>2 DEF ServiceInv, ControlTyped, ServiceTypeOK, SeenRows
<1> QED BY <1>1, LocksProtect, PTL

\* The guards behind the guards never fire: the unique index when a record is
\* inserted (borrowing/services.py 156), InventoryIntegrityError (215, 310), the
\* clipping of update_book (books/services.py 45).
THEOREM BackstopsStayIdle == ServiceSpec => []BackstopsIdle
<1>1. ASSUME ServiceInv, NEW p \in Procs
      PROVE  /\ At(p, "insert") => /\ ~HasActive(req[p].member, req[p].book)
                                   /\ available[req[p].book] >= 1
             /\ At(p, "save") => seen[p].count = Cardinality(ActiveOf(req[p].book))
    <2>1. Asked(p) /\ Queued(p) /\ Current(p) /\ Granted(p)
        BY <1>1 DEF ServiceInv, Serving
    <2>2. ASSUME At(p, "insert")
          PROVE  ~HasActive(req[p].member, req[p].book) /\ available[req[p].book] >= 1
        <3>1. req[p].book \in Books /\ BookRow(req[p].book) \in held[p]
            BY <2>1, <2>2 DEF At, Asked, Queued, BorrowQueue, BorrowSteps, Locks
        <3> QED BY <2>1, <2>2, <3>1 DEF At, Current, Granted
    <2>3. At(p, "save") => seen[p].count = Cardinality(ActiveOf(req[p].book))
        BY <2>1 DEF At, Granted
    <2> QED BY <2>2, <2>3
<1>2. ASSUME ServiceInv, NEW p \in Procs,
             \/ At(p, "return") /\ seen[p].status \in OpenStatuses
             \/ At(p, "resolve") /\ seen[p].status = "LOST"
      PROVE  available[loan[req[p].record].book] < total[loan[req[p].record].book]
    <2>1. Asked(p) /\ Queued(p) /\ Current(p) /\ step[p] \in RecordSteps /\ todo[p] = << >>
        BY <1>2 DEF ServiceInv, Serving, At, RecordSteps
    <2>2. req[p].record \in Loans /\ RecordRow(req[p].record) \in held[p]
        BY <1>2, <2>1 DEF At, Asked, Queued, RecordQueue, RecordSteps, Locks
    <2>3. loan[req[p].record].status \in ActiveStatuses
        BY <1>2, <2>1, <2>2 DEF Current, OpenStatuses, ActiveStatuses
    <2> QED BY <1>2, <2>2, <2>3, ReturnsAlwaysFit DEF ServiceInv
<1>3. ServiceInv => BackstopsIdle
    BY <1>1, <1>2 DEF BackstopsIdle
<1> QED BY <1>3, LocksProtect, PTL

\* Whoever still waits holds nothing that comes later in the order: records,
\* then users, then titles; a fine is locked alone.  Only an edit holds a title
\* and waits, for its links; only a deletion holds links and waits, for the title.
LEMMA LockOrder ==
    ASSUME ServiceInv, NEW p \in Procs, todo[p] # << >>
    PROVE  /\ \A b : FineRow(b) \notin held[p]
           /\ \A b : BookRow(b) \in held[p] =>
                step[p] = "save" /\ req[p].book = b /\ Head(todo[p]) = LinksRow(b)
           /\ \A b : LinksRow(b) \in held[p] =>
                step[p] = "delete" /\ req[p].book = b /\ Head(todo[p]) = BookRow(b)
           /\ (\E m : UserRow(m) \in held[p]) => \E b : Head(todo[p]) = BookRow(b)
           /\ (\E r : RecordRow(r) \in held[p]) /\ p # Cron =>
                \E x : Head(todo[p]) \in {UserRow(x), BookRow(x)}
           /\ \E x : Head(todo[p]) \in {UserRow(x), BookRow(x), LinksRow(x), RecordRow(x),
                                       FineRow(x)}
<1>1. Asked(p) /\ Queued(p) /\ step[p] \in Steps
    BY DEF ServiceInv, Serving, ControlTyped
<1>2. CASE step[p] \in BorrowSteps
    <2>1. \/ todo[p] = <<UserRow(req[p].member)>> /\ held[p] = {}
          \/ todo[p] = <<BookRow(req[p].book)>> /\ held[p] = {UserRow(req[p].member)}
        BY <1>1, <1>2 DEF Queued, BorrowQueue, BorrowSteps, Locks
    <2> QED BY <2>1, RowsDiffer
<1>3. CASE step[p] \in RecordSteps
    <2>1. PICK row, m, b : /\ row = RecordRow(req[p].record)
                          /\ RecordQueue(p, row, UserRow(m), BookRow(b))
        BY <1>1, <1>3 DEF Queued
    <2>2. \/ Head(todo[p]) = row /\ held[p] = {}
          \/ Head(todo[p]) = UserRow(m) /\ held[p] = {row}
          \/ Head(todo[p]) = BookRow(b) /\ held[p] \subseteq {row, UserRow(m)}
        BY <1>3, <2>1 DEF RecordQueue, RecordSteps, Locks
    <2> QED BY <2>1, <2>2, RowsDiffer
<1>4. CASE step[p] = "save"
    <2> DEFINE b == req[p].book
    <2>1. todo[p] = <<LinksRow(b)>> /\ held[p] = {BookRow(b)}
        BY <1>1, <1>4 DEF Queued, BookQueue, BookSteps, Locks
    <2>2. Head(todo[p]) = LinksRow(b)
        BY <2>1
    <2> QED BY <1>4, <2>1, <2>2, RowsDiffer
<1>5. CASE step[p] = "edit"
    <2>1. todo[p] = <<BookRow(req[p].book)>> /\ held[p] = {}
        BY <1>1, <1>5 DEF Queued, BookQueue, BookSteps, Locks
    <2> QED BY <2>1
<1>6. CASE step[p] = "delete"
    <2> DEFINE b == req[p].book
    <2>1. \/ todo[p] = <<LinksRow(b), BookRow(b)>> /\ held[p] = {}
          \/ todo[p] = <<BookRow(b)>> /\ held[p] \subseteq {LinksRow(b)}
        BY <1>1, <1>6 DEF Queued, BookQueue, BookSteps, Locks
    <2>2. \/ Head(todo[p]) = LinksRow(b) /\ held[p] = {}
          \/ Head(todo[p]) = BookRow(b) /\ held[p] \subseteq {LinksRow(b)}
        BY <2>1
    <2> QED BY <1>6, <2>2, RowsDiffer
<1>7. CASE step[p] = "pay"
    <2>1. todo[p] = <<FineRow(req[p].record)>> /\ held[p] = {}
        BY <1>1, <1>7 DEF Queued, Locks
    <2> QED BY <2>1
<1>8. CASE step[p] = "sync"
    <2>1. todo[p] \in Seq(RecordRows) /\ held[p] \subseteq RecordRows /\ p = Cron
        BY <1>1, <1>8 DEF Queued, Asked
    <2>2. Head(todo[p]) \in RecordRows
        BY <2>1, HeadTailProperties
    <2>3. PICK r : Head(todo[p]) = RecordRow(r)
        BY <2>2 DEF RecordRows
    <2>4. \A x : /\ BookRow(x) \notin held[p] /\ LinksRow(x) \notin held[p]
                 /\ FineRow(x) \notin held[p] /\ UserRow(x) \notin held[p]
        BY <2>1, RowsDiffer DEF RecordRows
    <2> QED BY <2>1, <2>3, <2>4
<1>9. CASE step[p] = "idle"
    BY <1>1, <1>9 DEF Queued, Locks
<1> QED BY <1>1, <1>2, <1>3, <1>4, <1>5, <1>6, <1>7, <1>8, <1>9
        DEF Steps, BorrowSteps, RecordSteps

\* Records are locked before users and users before titles everywhere
\* (return_book's joins, borrow_book 112 and 131, resolve_lost 285), and one
\* process alone locks several records.  A circle needs an edit that has the
\* title and drops a link, and a deletion of that title that has its links.
THEOREM CirclesNeedEditAndDelete == ServiceSpec => []OnlyEditMeetsDelete
<1>1. ASSUME ServiceInv, NEW S \in SUBSET Procs,
             \A p \in S : \E q \in S : WaitsFor(p, q),
             \A p, q \in S : ~EditMeetsDelete(p, q)
      PROVE  S = {}
    <2>1. \A p \in S : todo[p] # << >>
        BY <1>1 DEF WaitsFor
    <2>2. ASSUME NEW p \in S, NEW b, Head(todo[p]) = BookRow(b)
          PROVE  FALSE
        <3>1. PICK q \in S : BookRow(b) \in held[q]
            BY <1>1, <2>2 DEF WaitsFor
        <3>2. step[q] = "save" /\ req[q].book = b /\ Head(todo[q]) = LinksRow(b)
            BY <1>1, <2>1, <3>1, LockOrder
        <3>3. PICK u \in S : LinksRow(b) \in held[u]
            BY <1>1, <3>2 DEF WaitsFor
        <3>4. step[u] = "delete" /\ req[u].book = b /\ Head(todo[u]) = BookRow(b)
            BY <1>1, <2>1, <3>3, LockOrder
        <3>5. q # u
            BY <3>2, <3>4
        <3>6. WaitsFor(q, u) /\ WaitsFor(u, q)
            BY <2>1, <3>1, <3>2, <3>3, <3>4, <3>5 DEF WaitsFor
        <3>7. EditMeetsDelete(q, u)
            BY <3>2, <3>4, <3>6 DEF EditMeetsDelete
        <3> QED BY <1>1, <3>7
    <2>3. ASSUME NEW p \in S, NEW b, Head(todo[p]) \in {LinksRow(b), FineRow(b)}
          PROVE  FALSE
        <3>1. PICK q \in S : Head(todo[p]) \in held[q]
            BY <1>1 DEF WaitsFor
        <3>2. LinksRow(b) \in held[q]
            BY <1>1, <2>1, <2>3, <3>1, LockOrder
        <3>3. Head(todo[q]) = BookRow(b)
            BY <1>1, <2>1, <3>2, LockOrder
        <3> QED BY <2>2, <3>3
    <2>4. ASSUME NEW p \in S, NEW m, Head(todo[p]) = UserRow(m)
          PROVE  FALSE
        <3>1. PICK q \in S : UserRow(m) \in held[q]
            BY <1>1, <2>4 DEF WaitsFor
        <3> QED BY <1>1, <2>1, <2>2, <3>1, LockOrder
    <2>5. ASSUME NEW p \in S, NEW r, RecordRow(r) \in held[p], p # Cron
          PROVE  FALSE
        <3>1. PICK x : Head(todo[p]) \in {UserRow(x), BookRow(x)}
            BY <1>1, <2>1, <2>5, LockOrder
        <3> QED BY <2>2, <2>4, <3>1
    <2>6. ASSUME NEW p \in S PROVE FALSE
        <3>1. \A q \in S : \E r : Head(todo[q]) = RecordRow(r)
            BY <1>1, <2>1, <2>2, <2>3, <2>4, LockOrder
        <3>2. PICK q, r : q \in S /\ RecordRow(r) \in held[q]
            BY <1>1, <3>1 DEF WaitsFor
        <3>3. q = Cron
            BY <2>5, <3>2
        <3>4. PICK s, k : s \in S /\ s # Cron /\ RecordRow(k) \in held[s]
            BY <1>1, <3>1, <3>3 DEF WaitsFor
        <3> QED BY <2>5, <3>4
    <2> QED BY <2>6
<1>2. ServiceInv => OnlyEditMeetsDelete
    <2> SUFFICES ASSUME ServiceInv, NEW S \in (SUBSET Procs) \ {{}}
                 PROVE  \/ \E p \in S : \A q \in S : ~WaitsFor(p, q)
                        \/ \E p, q \in S : EditMeetsDelete(p, q)
        BY DEF OnlyEditMeetsDelete
    <2>1. /\ \A p \in S : \E q \in S : WaitsFor(p, q)
          /\ \A p, q \in S : ~EditMeetsDelete(p, q)
          => S = {}
        BY <1>1
    <2>2. S # {}
        OBVIOUS
    <2> QED BY <2>1, <2>2
<1> QED BY <1>2, LocksProtect, PTL
=============================================================================
