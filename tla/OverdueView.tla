---------------------------- MODULE OverdueView ----------------------------
(***************************************************************************)
(* Who is overdue?  The code answers four times: display_status and        *)
(* is_overdue in Python, overdue_q in SQL, and the stored status, which    *)
(* the sync_overdue command brings up to date now and then.  The answers   *)
(* are read off the tables of Library.tla; nothing here changes them.      *)
(***************************************************************************)
EXTENDS Library

Records == {r \in Loans : Exists(r)}

\* Mutation variant: the stored status is shown.
DisplayStatus_Stored(r) == loan[r].status

\* BorrowRecord.display_status, the status every response shows.
DisplayStatus(r) ==
    IF loan[r].status = "BORROWED" /\ loan[r].due < day
    THEN "OVERDUE" ELSE loan[r].status

\* Mutation variant: a loan is overdue on its due date.
IsOverdue_OnDueDay(r) ==
    /\ loan[r].status \notin {"RETURNED", "LOST"}
    /\ loan[r].status = "OVERDUE" \/ loan[r].due <= day

\* BorrowRecord.is_overdue
IsOverdue(r) ==
    /\ loan[r].status \notin {"RETURNED", "LOST"}
    /\ loan[r].status = "OVERDUE" \/ loan[r].due < day

\* overdue_q: what the database matches.
OverdueRows ==
    {r \in Records : \/ loan[r].status = "OVERDUE"
                     \/ loan[r].status = "BORROWED" /\ loan[r].due < day}

\* ?overdue=true and ?overdue=false
FilterOverdue(value) == IF value THEN OverdueRows ELSE Records \ OverdueRows

\* ?status=..
FilterStatus(value) ==
    IF value = "OVERDUE" THEN OverdueRows
    ELSE {r \in Records : loan[r].status = value}

-----------------------------------------------------------------------------
\* Still out, and after its due date.
Late(r) == loan[r].status \in OpenStatuses /\ loan[r].due < day

\* A stored OVERDUE is never premature, whoever wrote it and whenever: due
\* dates do not move and days do not go back (services.py 76-97).
OverdueIsPast == \A r \in Records : loan[r].status = "OVERDUE" => loan[r].due < day

\* All the answers say the same of every record, promoted or not: the shown
\* status, is_overdue, and both sides of the overdue filter (models.py 68-83,
\* services.py 100-106, filters.py 42-48).
ViewsAgree ==
    \A r \in Records :
        /\ DisplayStatus(r) = "OVERDUE" <=> Late(r)
        /\ IsOverdue(r) <=> Late(r)
        /\ r \in FilterOverdue(TRUE) <=> Late(r)
        /\ r \in FilterOverdue(FALSE) <=> ~Late(r)

\* The cron job writes what was shown already ("List/retrieve show effective
\* OVERDUE without writing", README.md 65): promoting a record never changes
\* the status a reader sees.
PromotionStep ==
    \A r \in Loans :
        loan[r].status = "BORROWED" /\ loan'[r].status = "OVERDUE"
            => DisplayStatus(r)' = DisplayStatus(r)

PromotionInvisible == [][PromotionStep]_vars

\* Who was shown as overdue is charged on return, and nobody else: the views
\* compare dates one way (<), calculate_fine_amount the other (days_late <= 0,
\* services.py 168-170).
ChargeStep ==
    \A r \in Loans :
        loan[r].status \in OpenStatuses /\ loan'[r].status = "RETURNED"
            => (fine'[r] # NoFine <=> IsOverdue(r))

ChargedIffOverdue == [][ChargeStep]_vars

\* "Treat OVERDUE as effective status (includes past-due BORROWED)",
\* filters.py 37: what a status filter lists should be shown with that status.
StatusFilterExact ==
    \A value \in {"BORROWED", "OVERDUE", "LOST", "RETURNED"} :
        \A r \in FilterStatus(value) : DisplayStatus(r) = value

\* The cron job has run since a record last became past due.
Synced == \A r \in Loans : ~PastDue(r)
=============================================================================
