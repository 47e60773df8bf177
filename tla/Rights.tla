------------------------------- MODULE Rights -------------------------------
(***************************************************************************)
(* Who may lend and return: the circulation views and services on top of   *)
(* the accounts of Accounts.tla.  The caller's role and the role of the    *)
(* member a librarian lends to are read once, without a lock, and used     *)
(* later; the member's row is then locked and read again.  Stock, limits   *)
(* and fines are Library's; a request they refuse is one that ends here.   *)
(***************************************************************************)
EXTENDS Accounts

CONSTANTS Records    \* primary keys a BorrowRecord can get

VARIABLES record     \* record[r]: whose it is, and whether it is settled

rightsVars == <<accountVars, record>>

NoRecord == [state |-> "none"]

IsStaff(role) == role \in {"ADMIN", "LIBRARIAN"}

\* get_queryset and IsStaffOrReadOwnBorrow: the records a caller finds.
Finds(a, r) ==
    /\ record[r] # NoRecord
    /\ IsStaff(user[a].role) \/ record[r].member = a

RightsInit ==
    /\ AccountsInit
    /\ record = [r \in Records |-> NoRecord]

-----------------------------------------------------------------------------
(***************************************************************************)
(* Lending.                                                                *)
(***************************************************************************)

\* Mutation variant: staff may lend to any account.
Resolves_AnyRole(a, m) ==
    IF user[a].role = "MEMBER" THEN m = a ELSE Visible(m)

\* resolve_borrow_member: a member borrows for itself, staff for a member.
Resolves(a, m) ==
    IF user[a].role = "MEMBER" THEN m = a
    ELSE Visible(m) /\ user[m].role = "MEMBER"

\* From here LockTarget waits for the member's row, as for an administrator's
\* service.
StartLend(w, a, m) ==
    /\ Authenticated(a)
    /\ Resolves(a, m)
    /\ Begin(w, "lock", [op |-> "lend", target |-> m], NoUser)
    /\ UNCHANGED record

\* borrow_book tests is_active and email_verified on the locked row, not role.
CheckBorrower(w) ==
    /\ step[w] = "check" /\ req[w].op = "lend"
    /\ IF copy[w].active /\ copy[w].verified # Unverified
       THEN /\ step' = [step EXCEPT ![w] = "save"]
            /\ UNCHANGED <<user, profiles, signedIn, req, copy>>
       ELSE Reject(w)
    /\ UNCHANGED record

InsertRecord(w) ==
    /\ step[w] = "save" /\ req[w].op = "lend"
    /\ \E r \in Records :
         /\ record[r] = NoRecord
         /\ record' = [record EXCEPT ![r] = [state  |-> "out",
                                             member |-> req[w].target]]
    /\ Reject(w)

-----------------------------------------------------------------------------
(***************************************************************************)
(* Settling.                                                               *)
(***************************************************************************)

\* POST /borrows/{id}/return/: get_object finds r, but a borrow_record_id in
\* the body, s, is the record that the service gets.
StartReturn(w, a, r, s) ==
    /\ Authenticated(a)
    /\ Finds(a, r)
    /\ Begin(w, "settle", [op |-> "return", actor |-> a, role |-> user[a].role,
                           record |-> s], NoUser)
    /\ UNCHANGED record

\* POST /borrows/return/: no object of the URL, no object permission.
StartLegacyReturn(w, a, s) ==
    /\ Authenticated(a)
    /\ Begin(w, "settle", [op |-> "return", actor |-> a, role |-> user[a].role,
                           record |-> s], NoUser)
    /\ UNCHANGED record

\* mark-lost and resolve-lost: IsAdminOrLibrarian.
StartDesk(w, a, r, op) ==
    /\ Authenticated(a)
    /\ IsStaff(user[a].role)
    /\ Finds(a, r)
    /\ Begin(w, "settle", [op |-> op, actor |-> a, role |-> user[a].role,
                           record |-> r], NoUser)
    /\ UNCHANGED record

\* Mutation variant: the service trusts the view.
Permits_ViewOnly(w) == TRUE

\* The services test the caller again: the role that authentication read, and
\* the record they have locked.
Permits(w) ==
    IF req[w].op = "return"
    THEN req[w].role = "MEMBER" => record[req[w].record].member = req[w].actor
    ELSE IsStaff(req[w].role)

\* Which records each service accepts, and what it makes of them.
Before(op) == IF op = "resolve" THEN "lost" ELSE "out"
After(op) == IF op = "lost" THEN "lost" ELSE "back"

\* return_book joins the member's row, so it waits for it; the others do not.
SettleRecord(w) ==
    LET r == req[w].record IN
    /\ step[w] = "settle"
    /\ req[w].op = "return" /\ record[r] # NoRecord => ~Locked(record[r].member)
    /\ IF /\ record[r] # NoRecord
          /\ Permits(w)
          /\ record[r].state = Before(req[w].op)
       THEN record' = [record EXCEPT ![r].state = After(req[w].op)]
       ELSE UNCHANGED record
    /\ Reject(w)

-----------------------------------------------------------------------------
DeskNext ==
    \E w \in Workers :
      \/ \E a, m \in Users : StartLend(w, a, m)
      \/ CheckBorrower(w)
      \/ InsertRecord(w)
      \/ \E a \in Users, r, s \in Records : StartReturn(w, a, r, s)
      \/ \E a \in Users, s \in Records : StartLegacyReturn(w, a, s)
      \/ \E a \in Users, r \in Records, op \in {"lost", "resolve"} :
           StartDesk(w, a, r, op)
      \/ SettleRecord(w)

\* The account services that bear on lending.  Changes of the address are left
\* to Accounts: they can only take a verification away, as deactivation takes
\* activity.
AccountNext ==
    \/ Registration
    \/ AdminNext
    \/ \E u \in Users : Login(u)
    \/ \E w \in Workers : \/ \E u \in Users : \/ StartChangePassword(w, u)
                                             \/ StartVerify(w, u)
                          \/ Write(w)

RightsNext == DeskNext \/ (AccountNext /\ UNCHANGED record)

RightsSpec == RightsInit /\ [][RightsNext]_rightsVars

-----------------------------------------------------------------------------
RightsTypeOK ==
    /\ RowsTyped
    /\ step \in [Workers -> {"idle", "lock", "check", "save", "write", "settle"}]
    /\ \A w \in Workers : req[w].op \in Ops \cup {"lend", "return", "lost", "resolve"}
    /\ record \in [Records -> {NoRecord} \cup [state  : {"out", "lost", "back"},
                                              member : Users]]

\* A title is lent only to an account that may borrow at that very moment, not
\* when it was looked up: whatever administrators, and stale copies, do to the
\* account meanwhile (services.py 112-117, the second read under the lock).
LentInGoodStanding ==
    [][\A r \in Records : record[r] = NoRecord /\ record'[r] # NoRecord =>
          LET u == record'[r].member IN
          Visible(u) /\ user[u].active /\ user[u].verified # Unverified]_rightsVars

\* Whoever has borrowed has a profile, so the limit that was applied is its own
\* and never the fallback of 5 (services.py 43), although the role is not tested
\* again under the lock (services.py 53-73, 112): a profile outlives the role.
BorrowersHaveProfile ==
    \A r \in Records : record[r] # NoRecord => record[r].member \in profiles

\* A record moves only in a request whose caller owns it or came in as staff,
\* on both routes and whatever record the body names ("You can only return your
\* own borrows.", services.py 189; ReturnBookSerializer.save prefers the body's
\* record to the one the view has tested, serializers.py 92).
MovedByRight ==
    [][\A r \in Records : record[r] # NoRecord /\ record'[r] # record[r] =>
          \E w \in Workers :
             /\ step[w] = "settle" /\ step'[w] = "idle" /\ req[w].record = r
             /\ IsStaff(req[w].role) \/ req[w].actor = record[r].member]_rightsVars

\* "limit_choices_to" MEMBER (borrowing/models.py 29): a record is made for a
\* member.
LentToMembers ==
    [][\A r \in Records : record[r] = NoRecord /\ record'[r] # NoRecord =>
          user[record'[r].member].role = "MEMBER"]_rightsVars

\* Nobody writes the role of an account, in set_user_role or with a stale copy of the
\* row, while it has been looked up as a borrower and is not locked yet.
RolesApart ==
    \A v, w \in Workers :
        /\ step[v] = "lock" /\ req[v].op = "lend"
        /\ \/ step[w] = "save" /\ req[w].op = "role"
           \/ step[w] = "write" /\ req[w].op = "whole"
        => req[w].target # req[v].target
=============================================================================
