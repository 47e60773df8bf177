--------------------------- MODULE OverdueProofs ---------------------------
(***************************************************************************)
(* Theorems about the overdue views, for every set of members, titles and  *)
(* records and every setting.                                              *)
(***************************************************************************)
EXTENDS OverdueView, LibraryProofs

\* Time does not run backwards, and a record becomes OVERDUE by promotion only.
LEMMA DaysGoForward ==
    ASSUME TypeOK, [Next]_vars
    PROVE  day \in Nat /\ day' \in Nat /\ day' >= day
BY DEF TypeOK, Next, vars, NextDay, AccountChange, CreateBook, UpdateBook,
       DeleteBook, Borrow, Return, MarkLost, ResolveLost, PayFine, SyncOverdue

LEMMA OnlyPromotion ==
    ASSUME TypeOK, [Next]_vars, NEW s \in Loans, loan'[s].status = "OVERDUE"
    PROVE  \/ loan'[s] = loan[s]
           \/ /\ PastDue(s)
              /\ day' = day
              /\ loan'[s] = [loan[s] EXCEPT !.status = "OVERDUE"]
<1>1. ASSUME NEW m \in Members, NEW b \in Books, NEW r \in Loans, Borrow(m, b, r)
      PROVE  loan'[s] = loan[s]
    BY <1>1 DEF Borrow, TypeOK
<1>2. ASSUME NEW r \in Loans, Return(r) PROVE loan'[s] = loan[s]
    <2>1. ReturnedRow(r).status = "RETURNED"
        BY <1>2, SettledRow DEF Return, OpenStatuses
    <2> QED BY <1>2, <2>1 DEF Return, TypeOK
<1>3. ASSUME NEW r \in Loans, MarkLost(r) PROVE loan'[s] = loan[s]
    <2>1. PICK row \in LoanRows : loan' = [loan EXCEPT ![r] = row] /\ row.status = "LOST"
        BY <1>3, LostRow
    <2> QED BY <2>1 DEF TypeOK
<1>4. ASSUME NEW r \in Loans, NEW restore \in BOOLEAN, ResolveLost(r, restore)
      PROVE  loan'[s] = loan[s]
    <2>1. ReturnedRow(r).status = "RETURNED"
        BY <1>4, SettledRow DEF ResolveLost
    <2> QED BY <1>4, <2>1 DEF ResolveLost, TypeOK
<1>5. ASSUME NEW S \in SUBSET Loans, SyncOverdue(S)
      PROVE  \/ loan'[s] = loan[s]
             \/ /\ PastDue(s)
                /\ day' = day
                /\ loan'[s] = [loan[s] EXCEPT !.status = "OVERDUE"]
    BY <1>5 DEF SyncOverdue
<1> QED BY <1>1, <1>2, <1>3, <1>4, <1>5
        DEF Next, vars, NextDay, AccountChange, CreateBook, UpdateBook,
            DeleteBook, PayFine

-----------------------------------------------------------------------------
LEMMA PastStep ==
    ASSUME TypeOK, OverdueIsPast, [Next]_vars
    PROVE  OverdueIsPast'
<1> SUFFICES ASSUME NEW s \in Loans, loan'[s].status = "OVERDUE"
             PROVE  loan'[s].due < day'
    BY DEF OverdueIsPast, Records, Exists
<1>1. day \in Nat /\ day' \in Nat /\ day' >= day
    BY DaysGoForward
<1>2. CASE loan'[s] = loan[s]
    <2>1. loan[s] \in LoanRows /\ loan[s].due < day
        BY <1>2, ExistingRow DEF OverdueIsPast, Records, Exists
    <2> QED BY <1>1, <1>2, <2>1 DEF LoanRows
<1>3. CASE /\ PastDue(s)
           /\ day' = day
           /\ loan'[s] = [loan[s] EXCEPT !.status = "OVERDUE"]
    <2>1. loan[s] \in LoanRows
        BY <1>3, ExistingRow DEF PastDue
    <2> QED BY <1>3, <2>1 DEF PastDue, LoanRows
<1> QED BY <1>2, <1>3, OnlyPromotion

\* A stored OVERDUE is past its due date in every reachable state.
THEOREM PromotedIsPast == Spec => []OverdueIsPast
<1>1. Init => OverdueIsPast
    BY DEF Init, OverdueIsPast, Records, Exists, NoLoan
<1>2. TypeOK /\ OverdueIsPast /\ [Next]_vars => OverdueIsPast'
    BY PastStep
<1> QED BY <1>1, <1>2, TypeCorrect, PTL DEF Spec

LEMMA AgreeWhenPast ==
    ASSUME TypeOK, OverdueIsPast
    PROVE  ViewsAgree
<1> SUFFICES ASSUME NEW r \in Records
             PROVE  /\ DisplayStatus(r) = "OVERDUE" <=> Late(r)
                    /\ IsOverdue(r) <=> Late(r)
                    /\ r \in FilterOverdue(TRUE) <=> Late(r)
                    /\ r \in FilterOverdue(FALSE) <=> ~Late(r)
    BY DEF ViewsAgree
<1>1. r \in Loans /\ loan[r] \in LoanRows
    BY ExistingRow DEF Records, Exists
<1>2. loan[r].status \in {"BORROWED", "OVERDUE", "LOST", "RETURNED"}
    BY <1>1 DEF LoanRows
<1>3. loan[r].status = "OVERDUE" => loan[r].due < day
    BY DEF OverdueIsPast
<1>4. DisplayStatus(r) = "OVERDUE" <=> Late(r)
    BY <1>2, <1>3 DEF DisplayStatus, Late, OpenStatuses
<1>5. IsOverdue(r) <=> Late(r)
    BY <1>2, <1>3 DEF IsOverdue, Late, OpenStatuses
<1>6. r \in OverdueRows <=> Late(r)
    BY <1>2, <1>3 DEF OverdueRows, Late, OpenStatuses
<1> QED BY <1>4, <1>5, <1>6 DEF FilterOverdue

\* For every library: the shown status, is_overdue and both sides of the
\* overdue filter agree on every record at every moment.
THEOREM ViewsAlwaysAgree == Spec => []ViewsAgree
<1>1. TypeOK /\ OverdueIsPast => ViewsAgree
    BY AgreeWhenPast
<1> QED BY <1>1, TypeCorrect, PromotedIsPast, PTL

-----------------------------------------------------------------------------
LEMMA FineAmountPositive ==
    ASSUME FinePerDay > 0, NEW due \in Nat, NEW on \in Nat
    PROVE  FineAmount(due, on) > 0 <=> due < on
<1>1. FinePerDay \in Nat
    BY SettingsAssumption
<1>2. CASE on > due
    <2>1. on - due \in Nat /\ on - due > 0
        BY <1>2
    <2>2. \A a, b \in Nat : a > 0 /\ b > 0 => a * b > 0
        OBVIOUS
    <2> QED BY <1>1, <1>2, <2>1, <2>2 DEF FineAmount
<1>3. CASE ~(on > due)
    BY <1>3 DEF FineAmount
<1> QED BY <1>2, <1>3

\* An open record that is settled was returned.
LEMMA OnlyReturn ==
    ASSUME TypeOK, [Next]_vars, NEW s \in Loans,
           loan[s].status \in OpenStatuses, loan'[s].status = "RETURNED"
    PROVE  Return(s)
<1>0. loan[s].status # "RETURNED" /\ loan'[s] # loan[s]
    BY DEF OpenStatuses
<1>1. ASSUME NEW m \in Members, NEW b \in Books, NEW r \in Loans, Borrow(m, b, r)
      PROVE  FALSE
    BY <1>0, <1>1 DEF Borrow, TypeOK
<1>2. ASSUME NEW r \in Loans, Return(r) PROVE r = s
    BY <1>0, <1>2 DEF Return, TypeOK
<1>3. ASSUME NEW r \in Loans, MarkLost(r) PROVE FALSE
    <2>1. PICK row \in LoanRows : loan' = [loan EXCEPT ![r] = row] /\ row.status = "LOST"
        BY <1>3, LostRow
    <2> QED BY <1>0, <2>1 DEF TypeOK
<1>4. ASSUME NEW r \in Loans, NEW restore \in BOOLEAN, ResolveLost(r, restore)
      PROVE  FALSE
    BY <1>0, <1>4 DEF ResolveLost, TypeOK, OpenStatuses
<1>5. ASSUME NEW S \in SUBSET Loans, SyncOverdue(S) PROVE FALSE
    <2>1. s \in S /\ loan'[s] = [loan[s] EXCEPT !.status = "OVERDUE"]
        BY <1>0, <1>5 DEF SyncOverdue
    <2>2. loan[s] \in LoanRows
        BY ExistingRow DEF OpenStatuses
    <2> QED BY <2>1, <2>2 DEF LoanRows
<1> QED BY <1>0, <1>1, <1>2, <1>3, <1>4, <1>5
        DEF Next, vars, NextDay, AccountChange, CreateBook, UpdateBook,
            DeleteBook, PayFine

LEMMA ChargeHolds ==
    ASSUME FinePerDay > 0, TypeOK, FinesSound, OverdueIsPast, [Next]_vars
    PROVE  ChargeStep
<1> SUFFICES ASSUME NEW s \in Loans,
                    loan[s].status \in OpenStatuses, loan'[s].status = "RETURNED"
             PROVE  fine'[s] # NoFine <=> IsOverdue(s)
    BY DEF ChargeStep
<1>1. Return(s)
    BY OnlyReturn
<1>2. loan[s] \in LoanRows /\ loan[s].due \in Nat /\ day \in Nat
    BY ExistingRow DEF OpenStatuses, LoanRows, TypeOK
<1>3. fine[s] = NoFine
    BY DEF FinesSound, OpenStatuses
<1>4. fine'[s] = FineOnReturn(s, loan[s].due, day)
    BY <1>1 DEF Return, TypeOK
<1>5. FineAmount(loan[s].due, day) > 0 <=> loan[s].due < day
    BY <1>2, FineAmountPositive
<1>6. fine'[s] # NoFine <=> loan[s].due < day
    BY <1>3, <1>4, <1>5 DEF FineOnReturn, NoFine
<1>7. loan[s].status = "OVERDUE" => loan[s].due < day
    BY DEF OverdueIsPast, Records, Exists
<1>8. IsOverdue(s) <=> loan[s].due < day
    BY <1>7 DEF IsOverdue, OpenStatuses
<1> QED BY <1>6, <1>8

\* With any positive rate: a return is charged exactly when the record was
\* shown as overdue.
THEOREM ChargedWhenShown == FinePerDay > 0 /\ Spec => ChargedIffOverdue
<1>1. FinePerDay > 0 /\ TypeOK /\ FinesSound /\ OverdueIsPast /\ [Next]_vars
        => [ChargeStep]_vars
    BY ChargeHolds
<1>2. SUFFICES ASSUME FinePerDay > 0 PROVE Spec => ChargedIffOverdue
    BY <1>2
<1>3. TypeOK /\ FinesSound /\ OverdueIsPast /\ [Next]_vars => [ChargeStep]_vars
    BY <1>1, <1>2
<1> QED BY <1>3, TypeCorrect, FinesAreSound, PromotedIsPast, PTL
        DEF Spec, ChargedIffOverdue

-----------------------------------------------------------------------------
\* A record that becomes OVERDUE was promoted by sync_overdue.
LEMMA OnlySync ==
    ASSUME TypeOK, [Next]_vars, NEW s \in Loans,
           loan[s].status = "BORROWED", loan'[s].status = "OVERDUE"
    PROVE  \E S \in SUBSET Loans : SyncOverdue(S) /\ s \in S
<1>0. loan'[s] # loan[s]
    OBVIOUS
<1>1. ASSUME NEW m \in Members, NEW b \in Books, NEW r \in Loans, Borrow(m, b, r)
      PROVE  FALSE
    BY <1>0, <1>1 DEF Borrow, TypeOK
<1>2. ASSUME NEW r \in Loans,
             Return(r) \/ \E restore \in BOOLEAN : ResolveLost(r, restore)
      PROVE  FALSE
    <2>1. loan' = [loan EXCEPT ![r] = ReturnedRow(r)] /\ loan[r].status # "NONE"
        BY <1>2 DEF Return, ResolveLost, OpenStatuses
    <2>2. ReturnedRow(r).status = "RETURNED"
        BY <2>1, SettledRow
    <2> QED BY <1>0, <2>1, <2>2 DEF TypeOK
<1>3. ASSUME NEW r \in Loans, MarkLost(r) PROVE FALSE
    <2>1. PICK row \in LoanRows : loan' = [loan EXCEPT ![r] = row] /\ row.status = "LOST"
        BY <1>3, LostRow
    <2> QED BY <1>0, <2>1 DEF TypeOK
<1>4. ASSUME NEW S \in SUBSET Loans, SyncOverdue(S) PROVE s \in S
    BY <1>0, <1>4 DEF SyncOverdue
<1> QED BY <1>0, <1>1, <1>2, <1>3, <1>4
        DEF Next, vars, NextDay, AccountChange, CreateBook, UpdateBook,
            DeleteBook, PayFine

LEMMA PromotionHolds ==
    ASSUME TypeOK, [Next]_vars
    PROVE  PromotionStep
<1> SUFFICES ASSUME NEW s \in Loans,
                    loan[s].status = "BORROWED", loan'[s].status = "OVERDUE"
             PROVE  DisplayStatus(s)' = DisplayStatus(s)
    BY DEF PromotionStep
<1>1. loan[s].due < day
    BY OnlySync DEF SyncOverdue, PastDue
<1> QED BY <1>1 DEF DisplayStatus

\* Nobody who reads records can tell whether the cron job has run.
THEOREM PromotionIsInvisible == Spec => PromotionInvisible
<1>1. TypeOK /\ [Next]_vars => [PromotionStep]_vars
    BY PromotionHolds
<1> QED BY <1>1, TypeCorrect, PTL DEF Spec, PromotionInvisible

\* The status filter is exact (borrowing/filters.py 37-41) in those states in which
\* the cron job has nothing to promote, and in no others.
THEOREM ExactWhenSynced == StatusFilterExact <=> Synced
<1>1. ASSUME StatusFilterExact, NEW r \in Loans, PastDue(r) PROVE FALSE
    <2>1. r \in FilterStatus("BORROWED")
        BY <1>1 DEF FilterStatus, Records, Exists, PastDue
    <2>2. DisplayStatus(r) = "OVERDUE"
        BY <1>1 DEF DisplayStatus, PastDue
    <2> QED BY <1>1, <2>1, <2>2 DEF StatusFilterExact
<1>2. ASSUME Synced, NEW value \in {"BORROWED", "OVERDUE", "LOST", "RETURNED"},
             NEW r \in FilterStatus(value)
      PROVE  DisplayStatus(r) = value
    <2>1. r \in Loans /\ ~PastDue(r)
        BY <1>2 DEF Synced, FilterStatus, OverdueRows, Records
    <2>2. loan[r].status = value
        BY <1>2, <2>1 DEF FilterStatus, OverdueRows, PastDue
    <2> QED BY <2>1, <2>2 DEF DisplayStatus, PastDue
<1> QED BY <1>1, <1>2 DEF Synced, StatusFilterExact
=============================================================================
