---------------------------- MODULE LoanService ----------------------------
(***************************************************************************)
(* The services of Library.tla as the database runs them: gunicorn workers *)
(* and the sync_overdue cron job share one PostgreSQL at READ COMMITTED.   *)
(* A service is a transaction of several statements; SELECT .. FOR UPDATE  *)
(* takes row locks one at a time and keeps them until the end; what a      *)
(* statement read may be old when it is used; a worker can die at any      *)
(* step and its transaction rolls back.                                    *)
(*                                                                         *)
(* Writes become visible at commit, so the writes of a transaction and its *)
(* commit are one step.  That step writes what the transaction has *seen*, *)
(* not what the tables hold by then: a missing lock shows as a lost update.*)
(***************************************************************************)
EXTENDS Library, Sequences

CONSTANTS
    Workers,   \* gunicorn workers
    Cron       \* the process that runs the sync_overdue command

Procs == Workers \cup {Cron}

VARIABLES
    step,  \* step[p]: the point the transaction of p has reached
    req,   \* req[p]: what the request of p asks for
    todo,  \* todo[p]: rows the running statement of p has still to lock
    seen,  \* seen[p]: column values p read from the rows it locked
    held   \* held[p]: rows p has locked

control == <<step, req, todo, seen, held>>
tables == <<shelf, total, available, eligible, loan, fine>>
serviceVars == <<vars, control>>

\* Row locks.
UserRow(m) == <<"user", m>>
BookRow(b) == <<"book", b>>
LinksRow(b) == <<"links", b>>   \* the title's links to authors and categories
RecordRow(r) == <<"record", r>>
FineRow(r) == <<"fine", r>>

Free(p, row) == \A q \in Procs \ {p} : row \notin held[q]

NoReq == [service |-> "none"]
NoSeen == [eligible |-> FALSE, status |-> "NONE", shelf |-> "absent",
           stock |-> 0, total |-> 0, count |-> 0]

ServiceInit ==
    /\ Init
    /\ step = [p \in Procs |-> "idle"]
    /\ req = [p \in Procs |-> NoReq]
    /\ todo = [p \in Procs |-> << >>]
    /\ seen = [p \in Procs |-> NoSeen]
    /\ held = [p \in Procs |-> {}]

-----------------------------------------------------------------------------
(***************************************************************************)
(* Transactions: begin, lock, end.                                         *)
(***************************************************************************)
Begin(p, first, request, rows) ==
    /\ step[p] = "idle"
    /\ step' = [step EXCEPT ![p] = first]
    /\ req' = [req EXCEPT ![p] = request]
    /\ todo' = [todo EXCEPT ![p] = rows]
    /\ UNCHANGED <<vars, seen, held>>

At(p, s) == step[p] = s /\ todo[p] = << >>

\* The transaction is over, committed or not, and its locks are gone.
End(p) ==
    /\ step' = [step EXCEPT ![p] = "idle"]
    /\ req' = [req EXCEPT ![p] = NoReq]
    /\ todo' = [todo EXCEPT ![p] = << >>]
    /\ seen' = [seen EXCEPT ![p] = NoSeen]
    /\ held' = [held EXCEPT ![p] = {}]

\* An exception leaves the atomic block: nothing is written.
Rollback(p) == End(p) /\ UNCHANGED vars

GoTo(p, s) ==
    /\ step' = [step EXCEPT ![p] = s]
    /\ UNCHANGED <<vars, req, todo, seen, held>>

\* What locking a row shows of it.
Read(p, row) ==
    CASE row[1] = "user"   -> [seen[p] EXCEPT !.eligible = eligible[row[2]]]
      [] row[1] = "book"   -> [seen[p] EXCEPT !.shelf = shelf[row[2]],
                                              !.stock = available[row[2]],
                                              !.total = total[row[2]]]
      [] row[1] = "links"  -> seen[p]
      [] row[1] = "record" -> [seen[p] EXCEPT !.status = loan[row[2]].status]
      [] row[1] = "fine"   -> [seen[p] EXCEPT !.status = fine[row[2]].status]

\* SELECT .. FOR UPDATE, or the UPDATE or DELETE of a row, reaches the next
\* row: wait for its lock, read its latest committed version.  A deleted title
\* is not found and not locked.
LockNext(p) ==
    /\ todo[p] # << >>
    /\ step[p] # "sync"
    /\ LET row == Head(todo[p]) IN
         /\ Free(p, row)
         /\ held' = [held EXCEPT ![p] =
                       IF row[1] = "book" /\ shelf[row[2]] # "listed"
                       THEN @ ELSE @ \cup {row}]
         /\ seen' = [seen EXCEPT ![p] = Read(p, row)]
    /\ todo' = [todo EXCEPT ![p] = Tail(@)]
    /\ UNCHANGED <<vars, step, req>>

\* A worker is killed (timeout, crash, lost connection) before it commits.
Abort(p) == step[p] # "idle" /\ Rollback(p)

-----------------------------------------------------------------------------
(***************************************************************************)
(* borrow_book                                                             *)
(***************************************************************************)
\* Primary keys still to be handed out.  The guard that enough are left for
\* the borrows under way bounds the history and stands for no code.
Unused == {r \in Loans : loan[r] = NoLoan}
Borrowing == {p \in Procs : req[p].service = "borrow"}

StartBorrow(p, m, b) ==
    /\ Cardinality(Borrowing) < Cardinality(Unused)
    /\ Begin(p, "member", [service |-> "borrow", member |-> m, book |-> b],
             <<UserRow(m)>>)

CheckMember(p) ==
    /\ At(p, "member")
    /\ IF seen[p].eligible THEN GoTo(p, "fines") ELSE Rollback(p)

CheckFines(p) ==
    /\ At(p, "fines")
    /\ IF BlockOnPendingFines /\ HasPendingFines(req[p].member)
       THEN Rollback(p) ELSE GoTo(p, "limit")

\* Under the limit, the statement that locks the title begins.
CheckLimit(p) ==
    /\ At(p, "limit")
    /\ IF Cardinality(OpenOf(req[p].member)) >= BorrowLimit[req[p].member]
       THEN Rollback(p)
       ELSE /\ step' = [step EXCEPT ![p] = "title"]
            /\ todo' = [todo EXCEPT ![p] = <<BookRow(req[p].book)>>]
            /\ UNCHANGED <<vars, req, seen, held>>

\* Mutation variants: the service relies on the unique index alone; it does not
\* look at the stock.
CheckTitle_NoDuplicateTest(p) ==
    /\ At(p, "title")
    /\ IF seen[p].shelf = "listed" /\ seen[p].stock >= 1
       THEN GoTo(p, "insert") ELSE Rollback(p)

CheckTitle_NoStockTest(p) ==
    /\ At(p, "title")
    /\ IF seen[p].shelf = "listed" /\ ~HasActive(req[p].member, req[p].book)
       THEN GoTo(p, "insert") ELSE Rollback(p)

CheckTitle(p) ==
    /\ At(p, "title")
    /\ IF /\ seen[p].shelf = "listed"
          /\ seen[p].stock >= 1
          /\ ~HasActive(req[p].member, req[p].book)
       THEN GoTo(p, "insert") ELSE Rollback(p)

\* The unique index may still refuse the row; otherwise it is inserted, the
\* stock seen under the lock is written back less one, and all commits.
InsertLoan(p) ==
    /\ At(p, "insert")
    /\ LET m == req[p].member
           b == req[p].book
       IN  IF HasActive(m, b) THEN Rollback(p)
           ELSE /\ \E r \in Unused :
                     loan' = [loan EXCEPT ![r] = [status   |-> "BORROWED",
                                                  member   |-> m,
                                                  book     |-> b,
                                                  due      |-> day + LoanDays,
                                                  returned |-> Never]]
                /\ available' = [available EXCEPT ![b] = seen[p].stock - 1]
                /\ End(p)
                /\ UNCHANGED <<day, shelf, total, eligible, fine>>

-----------------------------------------------------------------------------
(***************************************************************************)
(* return_book.  Its one query joins record, member and title, and FOR     *)
(* UPDATE locks the three in that order.                                   *)
(***************************************************************************)
\* Mutation variants: the member is not joined; the title is joined first.
ReturnRows_NoMember(r) == <<RecordRow(r), BookRow(loan[r].book)>>
ReturnRows_BookFirst(r) ==
    <<RecordRow(r), BookRow(loan[r].book), UserRow(loan[r].member)>>

ReturnRows(r) ==
    <<RecordRow(r), UserRow(loan[r].member), BookRow(loan[r].book)>>

StartReturn(p, r) ==
    /\ Exists(r)
    /\ Begin(p, "return", [service |-> "return", record |-> r], ReturnRows(r))

\* sync_overdue_status is overwritten before anyone can see it, and locking
\* the title a second time changes nothing.
ReturnSave(p) ==
    /\ At(p, "return")
    /\ LET r == req[p].record IN
       IF seen[p].status \notin OpenStatuses \/ seen[p].stock + 1 > seen[p].total
       THEN Rollback(p)
       ELSE /\ loan' = [loan EXCEPT ![r] = ReturnedRow(r)]
            /\ available' = [available EXCEPT ![loan[r].book] = seen[p].stock + 1]
            /\ fine' = [fine EXCEPT ![r] = FineOnReturn(r, loan[r].due, day)]
            /\ End(p)
            /\ UNCHANGED <<day, shelf, total, eligible>>

-----------------------------------------------------------------------------
(***************************************************************************)
(* mark_borrow_lost, resolve_lost: the record and the title are joined.    *)
(***************************************************************************)
LostRows(r) == <<RecordRow(r), BookRow(loan[r].book)>>

StartLost(p, r) ==
    /\ Exists(r)
    /\ Begin(p, "lost", [service |-> "lost", record |-> r], LostRows(r))

LostSave(p) ==
    /\ At(p, "lost")
    /\ LET r == req[p].record IN
       IF seen[p].status \notin OpenStatuses THEN Rollback(p)
       ELSE /\ loan' = [loan EXCEPT ![r].status = "LOST"]
            /\ End(p)
            /\ UNCHANGED <<day, shelf, total, available, eligible, fine>>

StartResolve(p, r, restore) ==
    /\ Exists(r)
    /\ Begin(p, "resolve",
             [service |-> "resolve", record |-> r, restore |-> restore],
             LostRows(r))

ResolveSave(p) ==
    /\ At(p, "resolve")
    /\ LET r == req[p].record
           restored == IF req[p].restore THEN 1 ELSE 0
       IN  IF \/ seen[p].status # "LOST"
              \/ seen[p].stock + restored > seen[p].total
           THEN Rollback(p)
           ELSE /\ loan' = [loan EXCEPT ![r] = ReturnedRow(r)]
                /\ available' = [available EXCEPT ![loan[r].book] =
                                   seen[p].stock + restored]
                /\ End(p)
                /\ UNCHANGED <<day, shelf, total, eligible, fine>>

-----------------------------------------------------------------------------
(***************************************************************************)
(* mark_fine_paid                                                          *)
(***************************************************************************)
StartPay(p, r) ==
    /\ fine[r] # NoFine
    /\ Begin(p, "pay", [service |-> "pay", record |-> r], <<FineRow(r)>>)

PaySave(p) ==
    /\ At(p, "pay")
    /\ IF seen[p].status # "PENDING" THEN Rollback(p)
       ELSE /\ fine' = [fine EXCEPT ![req[p].record].status = "PAID"]
            /\ End(p)
            /\ UNCHANGED <<day, shelf, total, available, eligible, loan>>

-----------------------------------------------------------------------------
(***************************************************************************)
(* books/services.py and the destroy of BookViewSet.  The rows that link a *)
(* title to its authors and categories are one row here, LinksRow: an edit *)
(* deletes some of them after it locked the title, DELETE deletes all of   *)
(* them before the title.  Whether there are any is left open (drops,      *)
(* links).  An author or a category that is deleted takes link rows too,   *)
(* of many titles; that is not part of this module.                        *)
(***************************************************************************)
StartEdit(p, b, n, drops) ==
    /\ shelf[b] = "listed"
    /\ Begin(p, "edit",
             [service |-> "edit", book |-> b, copies |-> n, drops |-> drops],
             <<BookRow(b)>>)

\* Count the active loans with the title locked; authors.set and categories.set
\* then delete the links the request drops.
CountActive(p) ==
    /\ At(p, "edit")
    /\ LET active == Cardinality(ActiveOf(req[p].book)) IN
       IF seen[p].shelf # "listed" \/ req[p].copies < active THEN Rollback(p)
       ELSE /\ step' = [step EXCEPT ![p] = "save"]
            /\ seen' = [seen EXCEPT ![p].count = active]
            /\ todo' = [todo EXCEPT ![p] = IF req[p].drops
                                           THEN <<LinksRow(req[p].book)>> ELSE << >>]
            /\ UNCHANGED <<vars, req, held>>

EditSave(p) ==
    /\ At(p, "save")
    /\ LET b == req[p].book IN
         /\ total' = [total EXCEPT ![b] = req[p].copies]
         /\ available' = [available EXCEPT ![b] =
                            IF req[p].copies > seen[p].count
                            THEN req[p].copies - seen[p].count ELSE 0]
    /\ End(p)
    /\ UNCHANGED <<day, shelf, eligible, loan, fine>>

\* The collector looks for protected records without a lock; only then are the
\* links deleted, and the row last.
StartDelete(p, b, links) ==
    /\ shelf[b] = "listed"
    /\ LoansOf(b) = {}
    /\ Begin(p, "delete", [service |-> "delete", book |-> b],
             IF links THEN <<LinksRow(b), BookRow(b)>> ELSE <<BookRow(b)>>)

\* The deferred foreign key of BorrowRecord.book is checked at commit.  That of
\* a link an edit added meanwhile fails there as well: Abort.
DeleteCommit(p) ==
    /\ At(p, "delete")
    /\ IF seen[p].shelf # "listed" \/ LoansOf(req[p].book) # {}
       THEN Rollback(p)
       ELSE /\ shelf' = [shelf EXCEPT ![req[p].book] = "deleted"]
            /\ End(p)
            /\ UNCHANGED <<day, total, available, eligible, loan, fine>>

-----------------------------------------------------------------------------
(***************************************************************************)
(* sync_overdue: one UPDATE.  Its snapshot picks the rows, in any order; a *)
(* row that was changed while the UPDATE waited for it is tested again.    *)
(***************************************************************************)
Orders(S) ==
    {f \in [1..Cardinality(S) -> S] : \A i, j \in DOMAIN f : f[i] = f[j] => i = j}

StartSync(p) ==
    LET due == {r \in Loans : PastDue(r)} IN
        /\ due # {}
        /\ \E rows \in Orders({RecordRow(r) : r \in due}) :
              Begin(p, "sync", [service |-> "sync"], rows)

\* Mutation variant: the row is not tested again.
SyncVisit_NoRetest(p) ==
    /\ step[p] = "sync"
    /\ todo[p] # << >>
    /\ Free(p, Head(todo[p]))
    /\ held' = [held EXCEPT ![p] = @ \cup {Head(todo[p])}]
    /\ todo' = [todo EXCEPT ![p] = Tail(@)]
    /\ UNCHANGED <<vars, step, req, seen>>

SyncVisit(p) ==
    /\ step[p] = "sync"
    /\ todo[p] # << >>
    /\ Free(p, Head(todo[p]))
    /\ held' = [held EXCEPT ![p] =
                  IF PastDue(Head(todo[p])[2]) THEN @ \cup {Head(todo[p])} ELSE @]
    /\ todo' = [todo EXCEPT ![p] = Tail(@)]
    /\ UNCHANGED <<vars, step, req, seen>>

SyncCommit(p) ==
    /\ At(p, "sync")
    /\ loan' = [r \in Loans |->
                  IF RecordRow(r) \in held[p]
                  THEN [loan[r] EXCEPT !.status = "OVERDUE"] ELSE loan[r]]
    /\ End(p)
    /\ UNCHANGED <<day, shelf, total, available, eligible, fine>>

-----------------------------------------------------------------------------
\* Time and account maintenance: an UPDATE of a user waits for its row lock.
Environment ==
    /\ \/ NextDay
       \/ \E m \in Members :
            /\ \A p \in Procs : UserRow(m) \notin held[p]
            /\ AccountChange(m)
       \/ \E b \in Books, n \in 0..MaxCopies : CreateBook(b, n)
    /\ UNCHANGED control

Request(p) ==
    \/ \E m \in Members, b \in Books : StartBorrow(p, m, b)
    \/ \E r \in Loans : StartReturn(p, r) \/ StartLost(p, r) \/ StartPay(p, r)
    \/ \E r \in Loans, restore \in BOOLEAN : StartResolve(p, r, restore)
    \/ \E b \in Books, n \in 0..MaxCopies, drops \in BOOLEAN : StartEdit(p, b, n, drops)
    \/ \E b \in Books, links \in BOOLEAN : StartDelete(p, b, links)

\* Steps that wait for nobody.
Work(p) ==
    \/ CheckMember(p) \/ CheckFines(p) \/ CheckLimit(p) \/ CheckTitle(p)
    \/ InsertLoan(p)
    \/ ReturnSave(p) \/ LostSave(p) \/ ResolveSave(p) \/ PaySave(p)
    \/ CountActive(p) \/ EditSave(p) \/ DeleteCommit(p)
    \/ SyncCommit(p)

\* Steps that wait for a row lock.
Lock(p) == LockNext(p) \/ SyncVisit(p)

ServiceNext ==
    \/ Environment
    \/ \E p \in Workers : Request(p)
    \/ StartSync(Cron)
    \/ \E p \in Procs : Work(p) \/ Lock(p) \/ Abort(p)

ServiceSpec == ServiceInit /\ [][ServiceNext]_serviceVars

WaitsFor(p, q) == todo[p] # << >> /\ p # q /\ Head(todo[p]) \in held[q]

\* The edit p has the title and waits for its links; the deletion q has the
\* links and waits for the title.
EditMeetsDelete(p, q) ==
    /\ step[p] = "save" /\ step[q] = "delete"
    /\ req[p].book = req[q].book
    /\ WaitsFor(p, q)
    /\ WaitsFor(q, p)

\* PostgreSQL's deadlock detector finds the two and ends one of them.
BreakCircle ==
    \E p, q \in Procs : EditMeetsDelete(p, q) /\ (Rollback(p) \/ Rollback(q))

\* A running transaction executes its statements, and PostgreSQL queues those
\* that wait for a row: whoever waits for a row that keeps coming free gets it.
\* After deadlock_timeout it breaks a circle.  Nothing obliges clients, the
\* calendar or the cron schedule.
Fairness ==
    /\ \A p \in Procs : WF_serviceVars(Work(p)) /\ SF_serviceVars(Lock(p))
    /\ WF_serviceVars(BreakCircle)

FairServiceSpec == ServiceSpec /\ Fairness

-----------------------------------------------------------------------------
Steps == {"idle", "member", "fines", "limit", "title", "insert", "return",
          "lost", "resolve", "pay", "edit", "save", "delete", "sync"}

Rows == ({"user"} \X Members) \cup ({"book", "links"} \X Books)
            \cup ({"record", "fine"} \X Loans)

ServiceTypeOK ==
    /\ TypeOK
    /\ step \in [Procs -> Steps]
    /\ DOMAIN req = Procs
    /\ todo \in [Procs -> Seq(Rows)]
    /\ seen \in [Procs -> [eligible : BOOLEAN,
                          status   : {"NONE", "BORROWED", "OVERDUE", "LOST",
                                      "RETURNED", "PENDING", "PAID", "WAIVED"},
                          shelf    : {"absent", "listed", "deleted"},
                          stock    : Nat,
                          total    : Nat,
                          count    : Nat]]
    /\ held \in [Procs -> SUBSET Rows]

\* The transactions keep every promise of the atomic services: no interleaving
\* of statements, stale read, crash or retry shows at commit.
ImplementsLibrary == Spec

\* Records are locked before users and users before titles everywhere
\* (return_book's joins, borrow_book 112 and 131, resolve_lost 285).  So of the
\* transactions that wait for each other in a circle two are an edit that drops
\* a link and a deletion of the same title: update_book locks title before links
\* (books/services.py 26, 51-54), DELETE the other way about.
OnlyEditMeetsDelete ==
    \A S \in (SUBSET Procs) \ {{}} :
        \/ \E p \in S : \A q \in S : ~WaitsFor(p, q)
        \/ \E p, q \in S : EditMeetsDelete(p, q)

\* Nobody ever waits in a circle, edits and deletions included.  The code does
\* not keep this.
NoWaitCycle ==
    \A S \in (SUBSET Procs) \ {{}} : \E p \in S : \A q \in S : ~WaitsFor(p, q)

\* The guards behind the guards never fire: the unique index when a record is
\* inserted (services.py 156), InventoryIntegrityError on a return (215) or a
\* restore (310), the clipping of update_book (books/services.py 45).
BackstopsIdle ==
    \A p \in Procs :
        /\ At(p, "insert") => /\ ~HasActive(req[p].member, req[p].book)
                              /\ available[req[p].book] >= 1
        /\ At(p, "return") /\ seen[p].status \in OpenStatuses
              => available[loan[req[p].record].book] < total[loan[req[p].record].book]
        /\ At(p, "resolve") /\ seen[p].status = "LOST"
              => available[loan[req[p].record].book] < total[loan[req[p].record].book]
        /\ At(p, "save") => seen[p].count = Cardinality(ActiveOf(req[p].book))

\* Every request ends, whoever it has to wait for, even if no request is ever
\* aborted but the one the detector picks when an edit meets a deletion.
Served == \A p \in Procs : step[p] # "idle" ~> step[p] = "idle"
=============================================================================
