----------------------------- MODULE Accounts -----------------------------
(***************************************************************************)
(* The account services of users/services.py, as transactions of gunicorn  *)
(* workers at READ COMMITTED.  The services differ in what they lock and   *)
(* in which columns they write back:                                       *)
(*   - those of an administrator lock the target row, test it, and save    *)
(*     the columns they change;                                            *)
(*   - those of the user (password, profile, verification) work on a copy  *)
(*     read without a lock, and some of them save that whole copy.         *)
(* A row is [role, staff, active, deleted, email, verified]; the password, *)
(* the names and the tokens' hashes are left out.  Where the code has a    *)
(* flag email_verified, verified is the address whose link was opened.     *)
(***************************************************************************)
EXTENDS Naturals, FiniteSets

CONSTANTS
    Users,     \* primary keys a User can get
    Root,      \* the administrator the installation starts with
    Emails,    \* addresses
    Workers    \* gunicorn workers

ASSUME AccountsAssumption ==
    IsFiniteSet(Users) /\ Root \in Users /\ Emails # {}

VARIABLES
    user,      \* user[u]: the User row
    profiles,  \* users that have a MemberProfile
    signedIn,  \* users that hold a token; refreshing keeps it alive
    step,      \* step[w]: idle, lock, check, save (locked services) or write
    req,       \* req[w]: the service and its arguments
    copy       \* copy[w]: the User object in memory

accountVars == <<user, profiles, signedIn, step, req, copy>>

Roles == {"ADMIN", "LIBRARIAN", "MEMBER"}
Unverified == "no"
NoUser == [role |-> "NONE", staff |-> FALSE, active |-> FALSE,
           deleted |-> FALSE, email |-> "none", verified |-> Unverified]
UserRows == {NoUser} \cup
            [role : Roles, staff : BOOLEAN, active : BOOLEAN,
             deleted : BOOLEAN, email : Emails,
             verified : Emails \cup {Unverified}]

AdminOps == {"delete", "role", "activate", "restore", "deactivate"}

NoReq == [op |-> "none"]

Registered(u) == user[u].role # "NONE"

\* Mutation variant: a primary key is used without looking for its row.
Visible_AnyKey(u) == ~user[u].deleted

\* User.objects hides soft-deleted rows; User.all_objects does not.
Visible(u) == Registered(u) /\ ~user[u].deleted

\* The bearer of an access token for u is let in.
Authenticated(u) == u \in signedIn /\ Visible(u) /\ user[u].active

\* email is unique, soft-deleted rows included.
Taken(e, u) == \E v \in Users \ {u} : user[v].email = e

Admins == {u \in Users : Visible(u) /\ user[u].role = "ADMIN"}
ActiveAdmins == {u \in Admins : user[u].active}

\* Only the administrator services hold a row across statements.
Locked(u) == \E w \in Workers : step[w] \in {"check", "save"} /\ req[w].target = u

AccountsInit ==
    /\ \E e \in Emails :
         user = [u \in Users |->
                   IF u = Root THEN [role |-> "ADMIN", staff |-> TRUE,
                                     active |-> TRUE, deleted |-> FALSE,
                                     email |-> e, verified |-> e]
                   ELSE NoUser]
    /\ profiles \in {{}, {Root}}
    /\ signedIn = {Root}
    /\ step = [w \in Workers |-> "idle"]
    /\ req = [w \in Workers |-> NoReq]
    /\ copy = [w \in Workers |-> NoUser]

-----------------------------------------------------------------------------
Begin(w, first, request, object) ==
    /\ step[w] = "idle"
    /\ step' = [step EXCEPT ![w] = first]
    /\ req' = [req EXCEPT ![w] = request]
    /\ copy' = [copy EXCEPT ![w] = object]
    /\ UNCHANGED <<user, profiles, signedIn>>

\* The transaction is over, committed or not.
End(w) ==
    /\ step' = [step EXCEPT ![w] = "idle"]
    /\ req' = [req EXCEPT ![w] = NoReq]
    /\ copy' = [copy EXCEPT ![w] = NoUser]
    /\ UNCHANGED signedIn

Reject(w) == End(w) /\ UNCHANGED <<user, profiles>>

\* A worker dies; PostgreSQL rolls its transaction back.
Abort(w) == step[w] # "idle" /\ Reject(w)

\* register_user, with the signal that makes the profile: one transaction, and
\* nothing to interleave with before it commits.
Register(u, e) ==
    /\ ~Registered(u)
    /\ ~Taken(e, u)
    /\ user' = [user EXCEPT ![u] = [role |-> "MEMBER", staff |-> FALSE,
                                    active |-> TRUE, deleted |-> FALSE,
                                    email |-> e, verified |-> Unverified]]
    /\ profiles' = profiles \cup {u}
    /\ UNCHANGED <<signedIn, step, req, copy>>

\* The login serializer wants a verified address.
Login(u) ==
    /\ u \notin signedIn
    /\ Visible(u) /\ user[u].active /\ user[u].verified # Unverified
    /\ signedIn' = signedIn \cup {u}
    /\ UNCHANGED <<user, profiles, step, req, copy>>

-----------------------------------------------------------------------------
(***************************************************************************)
(* Services of an administrator: soft_delete_user, set_user_role,          *)
(* activate_user, restore_user, deactivate_user.                           *)
(***************************************************************************)

\* The view: IsAdmin tests the caller, get_object finds the target.
StartAdmin(w, a, u, op, role) ==
    /\ Authenticated(a) /\ user[a].role = "ADMIN"
    /\ IF op = "restore" THEN Registered(u) ELSE Visible(u)
    /\ Begin(w, "lock", [op |-> op, actor |-> a, target |-> u, role |-> role], NoUser)

\* The locking read returns the latest row, or nothing.
TargetRead(w) ==
    LET u == req[w].target IN
    IF req[w].op = "restore" \/ Visible(u)
    THEN /\ step' = [step EXCEPT ![w] = "check"]
         /\ copy' = [copy EXCEPT ![w] = user[u]]
         /\ UNCHANGED <<user, profiles, signedIn, req>>
    ELSE Reject(w)

\* Mutation variant: User.objects.get(..), without select_for_update().
LockTarget_NoLock(w) == step[w] = "lock" /\ TargetRead(w)

\* User.objects.select_for_update().get(..): wait for the row.
LockTarget(w) == step[w] = "lock" /\ ~Locked(req[w].target) /\ TargetRead(w)

\* _ensure_not_last_admin asks for select_for_update().count(), but Django
\* drops FOR UPDATE from an aggregate: it counts what is committed now.
LastAdmin(w) ==
    /\ copy[w].role = "ADMIN"
    /\ Cardinality(IF req[w].op = "deactivate" THEN ActiveAdmins ELSE Admins) <= 1

\* Mutation variants: nobody counts the administrators; an administrator may
\* remove the own account.
Allowed_NoCount(w) ==
    CASE req[w].op \in {"delete", "deactivate", "activate"} ->
           req[w].actor # req[w].target
      [] req[w].op = "role" -> TRUE
      [] req[w].op = "restore" -> copy[w].deleted

Allowed_Self(w) ==
    CASE req[w].op \in {"delete", "deactivate"} -> ~LastAdmin(w)
      [] req[w].op = "role" -> req[w].role = "ADMIN" \/ ~LastAdmin(w)
      [] req[w].op = "activate" -> ~copy[w].deleted
      [] req[w].op = "restore" -> copy[w].deleted

\* Each service's own conditions.
Allowed(w) ==
    CASE req[w].op \in {"delete", "deactivate"} ->
           req[w].actor # req[w].target /\ ~LastAdmin(w)
      [] req[w].op = "role" -> req[w].role = "ADMIN" \/ ~LastAdmin(w)
      [] req[w].op = "activate" -> req[w].actor # req[w].target /\ ~copy[w].deleted
      [] req[w].op = "restore" -> copy[w].deleted

Check(w) ==
    /\ step[w] = "check" /\ req[w].op \in AdminOps
    /\ IF Allowed(w)
       THEN /\ step' = [step EXCEPT ![w] = "save"]
            /\ UNCHANGED <<user, profiles, signedIn, req, copy>>
       ELSE Reject(w)

\* Mutation variant: set_user_role saves the role alone.
Saved_RoleOnly(w, row) ==
    CASE req[w].op = "delete" -> [row EXCEPT !.deleted = TRUE, !.active = FALSE]
      [] req[w].op = "restore" -> [row EXCEPT !.deleted = FALSE, !.active = TRUE]
      [] req[w].op = "activate" -> [row EXCEPT !.active = TRUE]
      [] req[w].op = "deactivate" -> [row EXCEPT !.active = FALSE]
      [] req[w].op = "role" -> [row EXCEPT !.role = req[w].role]

\* save(update_fields=..): only the columns the service changes.
Saved(w, row) ==
    CASE req[w].op = "delete" -> [row EXCEPT !.deleted = TRUE, !.active = FALSE]
      [] req[w].op = "restore" -> [row EXCEPT !.deleted = FALSE, !.active = TRUE]
      [] req[w].op = "activate" -> [row EXCEPT !.active = TRUE]
      [] req[w].op = "deactivate" -> [row EXCEPT !.active = FALSE]
      [] req[w].op = "role" -> [row EXCEPT !.role = req[w].role,
                                           !.staff = req[w].role = "ADMIN"]

\* Mutation variant: a new member gets no profile.
ProfilesAfter_None(w) == profiles

\* ensure_member_profile, when set_user_role makes a member.
ProfilesAfter(w) ==
    IF req[w].op = "role" /\ req[w].role = "MEMBER"
    THEN profiles \cup {req[w].target} ELSE profiles

Save(w) ==
    /\ step[w] = "save" /\ req[w].op \in AdminOps
    /\ user' = [user EXCEPT ![req[w].target] = Saved(w, @)]
    /\ profiles' = ProfilesAfter(w)
    /\ End(w)

-----------------------------------------------------------------------------
(***************************************************************************)
(* Services that work on a copy read without a lock.                       *)
(***************************************************************************)

\* ChangePasswordView works on request.user, which authentication read.
StartChangePassword(w, u) ==
    /\ Authenticated(u)
    /\ Begin(w, "write", [op |-> "whole", target |-> u], user[u])

\* reset_password reads the row itself; an inactive user may reset.
StartResetPassword(w, u) ==
    /\ Visible(u)
    /\ Begin(w, "write", [op |-> "whole", target |-> u], user[u])

\* PATCH of the own profile, or by an administrator a.
Patching(a, u) ==
    Visible(u) /\ Authenticated(a) /\ (a = u \/ user[a].role = "ADMIN")

\* A PATCH of the address: the serializer looks for it among the visible rows,
\* and only the profile's own serializer excepts the row that is edited.
StartPatchEmail(w, a, u, e) ==
    /\ Patching(a, u)
    /\ \A v \in Users : Visible(v) /\ user[v].email = e => v = u /\ a = u
    /\ Begin(w, "write", [op |-> "email", target |-> u, email |-> e], user[u])

\* A PATCH with no field at all: save(update_fields=None) writes every column.
StartPatchNothing(w, a, u) ==
    /\ Patching(a, u)
    /\ Begin(w, "write", [op |-> "whole", target |-> u], user[u])

\* verify_email: the link was made for the address in the row it reads.
StartVerify(w, u) ==
    /\ Visible(u) /\ user[u].verified = Unverified
    /\ Begin(w, "write", [op |-> "verify", target |-> u], user[u])

\* Mutation variant: a changed address stays verified.
Written_KeepsVerified(w, row) ==
    CASE req[w].op = "whole" -> copy[w]
      [] req[w].op = "verify" -> [row EXCEPT !.verified = copy[w].email]
      [] req[w].op = "email" -> [row EXCEPT !.email = req[w].email]

Written(w, row) ==
    CASE req[w].op = "whole" -> copy[w]
      [] req[w].op = "verify" -> [row EXCEPT !.verified = copy[w].email]
      [] req[w].op = "email" ->
           [row EXCEPT !.email = req[w].email,
                       !.verified = IF req[w].email = copy[w].email THEN @
                                    ELSE Unverified]

\* The UPDATE waits for the row and then writes over whatever is there, unless
\* the address belongs to another row.
Write(w) ==
    LET u == req[w].target
        row == Written(w, user[u])
    IN /\ step[w] = "write"
       /\ ~Locked(u)
       /\ IF Taken(row.email, u)
          THEN Reject(w)
          ELSE /\ user' = [user EXCEPT ![u] = row]
               /\ UNCHANGED profiles
               /\ End(w)

-----------------------------------------------------------------------------
AdminNext ==
    \E w \in Workers :
      \/ \E a, u \in Users, op \in AdminOps, role \in Roles :
           /\ op # "role" => role = "MEMBER"
           /\ StartAdmin(w, a, u, op, role)
      \/ LockTarget(w)
      \/ Check(w)
      \/ Save(w)
      \/ Abort(w)

SelfNext ==
    \/ \E u \in Users : Login(u)
    \/ \E w \in Workers, u \in Users :
         \/ StartChangePassword(w, u)
         \/ StartResetPassword(w, u)
         \/ \E a \in Users : \/ \E e \in Emails : StartPatchEmail(w, a, u, e)
                             \/ StartPatchNothing(w, a, u)
         \/ StartVerify(w, u)
    \/ \E w \in Workers : Write(w)

Registration == \E u \in Users, e \in Emails : Register(u, e)

AccountsNext == Registration \/ AdminNext \/ SelfNext

AccountsSpec == AccountsInit /\ [][AccountsNext]_accountVars

\* The services that lock what they change, and nothing else.
AdminSpec == AccountsInit /\ [][Registration \/ AdminNext]_accountVars

-----------------------------------------------------------------------------
Ops == AdminOps \cup {"none", "whole", "email", "verify"}

RowsTyped ==
    /\ user \in [Users -> UserRows]
    /\ profiles \subseteq Users
    /\ signedIn \subseteq Users
    /\ copy \in [Workers -> UserRows]

AccountsTypeOK ==
    /\ RowsTyped
    /\ step \in [Workers -> {"idle", "lock", "check", "save", "write"}]
    /\ \A w \in Workers :
         /\ req[w].op \in Ops
         /\ step[w] # "idle" => req[w].target \in {u \in Users : Registered(u)}

\* A soft-deleted account is never active, whatever stale copies are saved over
\* it: soft_delete and restore write both columns (users/models.py 84-92), a
\* copy holds both of one moment, and activate_user cannot see deleted rows.
DeletedIsInactive == \A u \in Users : user[u].deleted => ~user[u].active

\* What _ensure_not_last_admin is for (users/services.py 51, "Cannot modify the
\* last admin account."): some account that is not deleted is an administrator.
AdminRemains == Admins # {}

\* The stronger reading, which its require_active argument (users/services.py
\* 255) and the tests of the last admin aim at: one that can still log in.
ActiveAdminRemains == ActiveAdmins # {}

\* A deleted account comes back by restore_user only ("Clear soft-delete and
\* reactivate (admin only, via ViewSet)", users/services.py 243).
DeletedUntilRestored ==
    [][\A u \in Users : user[u].deleted /\ ~user'[u].deleted =>
          \E w \in Workers : req[w].op = "restore" /\ req[w].target = u]_accountVars

\* Taking administrators away one by one, by deactivating or deleting them,
\* always leaves one who can log in; only a demotion can take the last
\* (_ensure_not_self, users/services.py 33, does what the count at 41 does not:
\* it counts inactive ones when an account is deleted).
RemovalLeavesAnAdmin ==
    [][ActiveAdmins # {} /\ ActiveAdmins' = {} =>
          \E w \in Workers : req[w].op = "role"]_accountVars

\* Who may enter the admin site is who is an administrator, also after stale
\* copies were saved (is_staff, users/services.py 221).
StaffIffAdmin == \A u \in Users : user[u].staff <=> user[u].role = "ADMIN"

\* Every member has a profile, however the account became a member's: borrowing
\* never falls back to the limit of 5 (borrowing/services.py 43) for a member.
MembersHaveProfile ==
    \A u \in Users : user[u].role = "MEMBER" => u \in profiles

\* The address that counts as verified is the one whose link was opened (the
\* test "email_change_clears_verification", users/tests/test_security.py 57).
AddressProven == \A u \in Users : user[u].verified \in {Unverified, user[u].email}

\* What keeps concurrent requests from breaking these: no two administrators'
\* services between their test and their save;
SavesApart ==
    \A v, w \in Workers : step[v] = "save" /\ step[w] = "save" => v = w

\* no two administrators' services at all;
AdminsApart ==
    \A v, w \in Workers :
        {step[v], step[w]} \subseteq {"lock", "check", "save"} => v = w

\* no administrator's save of a row that somebody has a copy of to write;
CopiesApart ==
    \A v, w \in Workers :
        step[v] = "save" /\ step[w] = "write" => req[v].target # req[w].target

\* no two copies of a row to write.
WritesApart ==
    \A v, w \in Workers :
        step[v] = "write" /\ step[w] = "write" /\ req[v].target = req[w].target
            => v = w
=============================================================================
