--------------------------- MODULE AccountsProofs ---------------------------
(***************************************************************************)
(* Theorems about Accounts.tla, for every set of accounts, addresses and   *)
(* workers.  The lemmas are about single actions and leave room for the    *)
(* requests that Rights.tla adds, so RightsProofs.tla uses them too.       *)
(***************************************************************************)
EXTENDS Accounts, FiniteSetTheorems, TLAPS

Steps == {"idle", "lock", "check", "save", "write", "settle"}

\* Nothing contradicts itself in a row of u, in the table or in memory.
Sound(row, u) ==
    /\ row.deleted => ~row.active
    /\ row.staff <=> row.role = "ADMIN"
    /\ row.role = "MEMBER" => u \in profiles

\* Each worker's request fits the statement that comes next.
Serving(w) ==
    /\ step[w] \in Steps
    /\ step[w] \in {"lock", "check", "save"} => req[w].op \in AdminOps \cup {"lend"}
    /\ step[w] = "write" => req[w].op \in {"whole", "email", "verify"}
    /\ step[w] \in {"lock", "check", "save", "write"} =>
         req[w].target \in Users /\ Registered(req[w].target)
    /\ req[w].op = "role" => req[w].role \in Roles
    /\ req[w].op = "email" => req[w].email \in Emails

\* A locked row is still the one that was read; a row read without a lock was
\* sound when it was read.
Holding(w) ==
    /\ step[w] \in {"check", "save"} => copy[w] = user[req[w].target]
    /\ step[w] = "save" /\ req[w].op = "activate" => ~copy[w].deleted
    /\ step[w] = "write" =>
         copy[w].role # "NONE" /\ Sound(copy[w], req[w].target)

\* No two workers hold one row.
Apart(v, w) ==
    step[v] \in {"check", "save"} /\ step[w] \in {"check", "save"}
        => req[v].target # req[w].target

AccountsInv ==
    /\ RowsTyped
    /\ step \in [Workers -> Steps]
    /\ req = [w \in Workers |-> req[w]]
    /\ \A u \in Users : Sound(user[u], u)
    /\ \A w \in Workers : Serving(w) /\ Holding(w)
    /\ \A v, w \in Workers : v # w => Apart(v, w)

LEMMA KeptByOthers ==
    ASSUME AccountsInv, NEW w \in Workers,
           RowsTyped', step' \in [Workers -> Steps],
           req' = [v \in Workers |-> req'[v]],
           \A v \in Workers \ {w} :
               step'[v] = step[v] /\ req'[v] = req[v] /\ copy'[v] = copy[v],
           profiles \subseteq profiles',
           \A u \in Users : user'[u] # user[u] =>
               /\ Sound(user[u], u)'
               /\ Registered(u)'
               /\ \A v \in Workers \ {w} : step[v] \in {"check", "save"} => req[v].target # u,
           Serving(w)', Holding(w)',
           \A v \in Workers \ {w} : Apart(v, w)'
    PROVE  AccountsInv'
<1>1. \A u \in Users : Sound(user[u], u)'
    <2> SUFFICES ASSUME NEW u \in Users PROVE Sound(user[u], u)'
        OBVIOUS
    <2>1. CASE user'[u] # user[u]
        BY <2>1
    <2>2. CASE user'[u] = user[u]
        BY <2>2 DEF AccountsInv, Sound
    <2> QED BY <2>1, <2>2
<1>2. ASSUME NEW v \in Workers \ {w} PROVE Serving(v)' /\ Holding(v)'
    <2>1. Serving(v)'
        BY <1>2 DEF AccountsInv, Serving, Registered
    <2>2. Holding(v)'
        BY <1>2 DEF AccountsInv, Serving, Holding, Sound
    <2> QED BY <2>1, <2>2
<1>3. ASSUME NEW v \in Workers \ {w}, NEW x \in Workers \ {w}, v # x
      PROVE  Apart(v, x)'
    BY <1>3 DEF AccountsInv, Apart
<1>4. \A v, x \in Workers : v # x => Apart(v, x)'
    BY <1>3 DEF Apart
<1> QED BY <1>1, <1>2, <1>4 DEF AccountsInv

\* A request that starts.  Nothing is locked or saved yet.
LEMMA BeginStep ==
    ASSUME AccountsInv, NEW w \in Workers, NEW first \in {"lock", "write", "settle"},
           NEW request, NEW object \in UserRows,
           Begin(w, first, request, object),
           first = "lock" => request.op \in AdminOps \cup {"lend"},
           first = "write" => /\ request.op \in {"whole", "email", "verify"}
                              /\ object.role # "NONE"
                              /\ Sound(object, request.target),
           first # "settle" => request.target \in Users /\ Registered(request.target),
           request.op = "role" => request.role \in Roles,
           request.op = "email" => request.email \in Emails
    PROVE  AccountsInv'
<1>1. step'[w] = first /\ req'[w] = request /\ copy'[w] = object
    BY DEF AccountsInv, RowsTyped, Begin
<1>2. user' = user /\ profiles' = profiles /\ signedIn' = signedIn
    BY DEF Begin
<1>3. RowsTyped' /\ step' \in [Workers -> Steps] /\ req' = [v \in Workers |-> req'[v]]
    BY <1>2 DEF AccountsInv, RowsTyped, Begin, Steps
<1>4. \A v \in Workers \ {w} :
         step'[v] = step[v] /\ req'[v] = req[v] /\ copy'[v] = copy[v]
    BY DEF AccountsInv, RowsTyped, Begin
<1>5. Serving(w)'
    BY <1>1, <1>2 DEF Serving, Steps, Registered
<1>6. Holding(w)'
    BY <1>1, <1>2 DEF Holding, Sound
<1>7. \A v \in Workers \ {w} : Apart(v, w)'
    BY <1>1 DEF Apart
<1> QED BY <1>2, <1>3, <1>4, <1>5, <1>6, <1>7, KeptByOthers

\* A request that is over, with or without a write.
LEMMA EndStep ==
    ASSUME AccountsInv, NEW w \in Workers, End(w),
           user' \in [Users -> UserRows], profiles' \subseteq Users,
           profiles \subseteq profiles',
           \A u \in Users : user'[u] # user[u] =>
               /\ Sound(user[u], u)'
               /\ Registered(u)'
               /\ \A v \in Workers \ {w} : step[v] \in {"check", "save"} => req[v].target # u
    PROVE  AccountsInv'
<1>1. step'[w] = "idle" /\ req'[w] = NoReq /\ copy'[w] = NoUser
    BY DEF AccountsInv, RowsTyped, End
<1>2. RowsTyped' /\ step' \in [Workers -> Steps] /\ req' = [v \in Workers |-> req'[v]]
    BY DEF AccountsInv, RowsTyped, End, Steps, UserRows
<1>3. \A v \in Workers \ {w} :
         step'[v] = step[v] /\ req'[v] = req[v] /\ copy'[v] = copy[v]
    BY DEF AccountsInv, RowsTyped, End
<1>4. Serving(w)'
    BY <1>1 DEF Serving, Steps, NoReq
<1>5. Holding(w)'
    BY <1>1 DEF Holding
<1>6. \A v \in Workers \ {w} : Apart(v, w)'
    BY <1>1 DEF Apart
<1> QED BY <1>2, <1>3, <1>4, <1>5, <1>6, KeptByOthers

LEMMA RejectStep ==
    ASSUME AccountsInv, NEW w \in Workers, Reject(w)
    PROVE  AccountsInv'
BY EndStep DEF Reject, AccountsInv, RowsTyped

\* The locking read finds the row that nobody else holds, or the request ends.
LEMMA LockStep ==
    ASSUME AccountsInv, NEW w \in Workers, LockTarget(w)
    PROVE  AccountsInv'
<1> DEFINE u == req[w].target
<1>1. CASE Reject(w)
    BY <1>1, RejectStep
<1>2. CASE /\ step' = [step EXCEPT ![w] = "check"]
           /\ copy' = [copy EXCEPT ![w] = user[u]]
           /\ UNCHANGED <<user, profiles, signedIn, req>>
    <2>1. u \in Users /\ Registered(u) /\ step[w] = "lock"
        BY DEF AccountsInv, Serving, LockTarget
    <2>2. step'[w] = "check" /\ copy'[w] = user[u] /\ req' = req /\ user' = user
          /\ profiles' = profiles /\ signedIn' = signedIn
        BY <1>2 DEF AccountsInv, RowsTyped
    <2>3. RowsTyped' /\ step' \in [Workers -> Steps] /\ req' = [v \in Workers |-> req'[v]]
        BY <1>2, <2>1, <2>2 DEF AccountsInv, RowsTyped, Steps
    <2>4. \A v \in Workers \ {w} :
             step'[v] = step[v] /\ req'[v] = req[v] /\ copy'[v] = copy[v]
        BY <1>2 DEF AccountsInv, RowsTyped
    <2>5. Serving(w)'
        BY <2>1, <2>2 DEF AccountsInv, Serving, Steps, Registered
    <2>6. Holding(w)'
        BY <2>2 DEF Holding
    <2>7. \A v \in Workers \ {w} : Apart(v, w)'
        BY <2>2, <2>4 DEF Apart, LockTarget, Locked
    <2> QED BY <2>2, <2>3, <2>4, <2>5, <2>6, <2>7, KeptByOthers
<1> QED BY <1>1, <1>2 DEF LockTarget, TargetRead

\* The conditions are met: on to the write.  A deleted account is not activated.
LEMMA PassStep ==
    ASSUME AccountsInv, NEW w \in Workers, step[w] = "check",
           step' = [step EXCEPT ![w] = "save"],
           UNCHANGED <<user, profiles, signedIn, req, copy>>,
           req[w].op = "activate" => ~copy[w].deleted
    PROVE  AccountsInv'
<1>1. step'[w] = "save" /\ RowsTyped' /\ step' \in [Workers -> Steps]
      /\ req' = [v \in Workers |-> req'[v]]
    BY DEF AccountsInv, RowsTyped, Steps
<1>2. \A v \in Workers \ {w} :
         step'[v] = step[v] /\ req'[v] = req[v] /\ copy'[v] = copy[v]
    BY DEF AccountsInv
<1>3. Serving(w)'
    BY <1>1 DEF AccountsInv, Serving, Steps, Registered
<1>4. Holding(w)'
    BY <1>1 DEF AccountsInv, Holding
<1>5. \A v \in Workers \ {w} : Apart(v, w)'
    BY <1>1 DEF AccountsInv, Apart
<1> QED BY <1>1, <1>2, <1>3, <1>4, <1>5, KeptByOthers

LEMMA CheckStep ==
    ASSUME AccountsInv, NEW w \in Workers, Check(w)
    PROVE  AccountsInv'
<1>1. CASE Reject(w)
    BY <1>1, RejectStep
<1>2. CASE Allowed(w)
    BY <1>2, PassStep DEF Check, Allowed
<1> QED BY <1>1, <1>2 DEF Check

\* What an administrator's service makes of a sound row is sound.
LEMMA SavedSound ==
    ASSUME AccountsInv, NEW w \in Workers, step[w] = "save", req[w].op \in AdminOps,
           NEW u, u = req[w].target
    PROVE  /\ Saved(w, user[u]) \in UserRows
           /\ Saved(w, user[u]).role # "NONE"
           /\ Saved(w, user[u]).deleted => ~Saved(w, user[u]).active
           /\ Saved(w, user[u]).staff <=> Saved(w, user[u]).role = "ADMIN"
           /\ Saved(w, user[u]).role = "MEMBER" => u \in ProfilesAfter(w)
<1> DEFINE row == user[u]
<1>1. u \in Users /\ row.role # "NONE"
    BY DEF AccountsInv, Serving, Registered
<1>2. row \in [role : Roles, staff : BOOLEAN, active : BOOLEAN, deleted : BOOLEAN,
               email : Emails, verified : Emails \cup {Unverified}]
    BY <1>1 DEF AccountsInv, RowsTyped, UserRows, NoUser
<1>3. req[w].op = "role" => req[w].role \in Roles
    BY DEF AccountsInv, Serving
<1>4. (row.deleted => ~row.active) /\ (row.staff <=> row.role = "ADMIN")
      /\ (row.role = "MEMBER" => u \in profiles)
    BY <1>1 DEF AccountsInv, Sound
<1>5. req[w].op = "activate" => ~row.deleted
    BY <1>1 DEF AccountsInv, Holding
<1>6. profiles \subseteq ProfilesAfter(w) /\
      (req[w].op = "role" /\ req[w].role = "MEMBER" => u \in ProfilesAfter(w))
    BY DEF ProfilesAfter
<1>7. CASE req[w].op = "delete"
    <2>1. Saved(w, row) = [row EXCEPT !.deleted = TRUE, !.active = FALSE]
        BY <1>7 DEF Saved
    <2> QED BY <2>1, <1>1, <1>2, <1>4, <1>6 DEF UserRows
<1>8. CASE req[w].op = "activate"
    <2>1. Saved(w, row) = [row EXCEPT !.active = TRUE]
        BY <1>8 DEF Saved
    <2> QED BY <2>1, <1>1, <1>2, <1>4, <1>5, <1>6, <1>8 DEF UserRows
<1>9. CASE req[w].op = "restore"
    <2>1. Saved(w, row) = [row EXCEPT !.deleted = FALSE, !.active = TRUE]
        BY <1>9 DEF Saved
    <2> QED BY <2>1, <1>1, <1>2, <1>4, <1>6 DEF UserRows
<1>10. CASE req[w].op = "deactivate"
    <2>1. Saved(w, row) = [row EXCEPT !.active = FALSE]
        BY <1>10 DEF Saved
    <2> QED BY <2>1, <1>1, <1>2, <1>4, <1>6 DEF UserRows
<1>11. CASE req[w].op = "role"
    <2>1. Saved(w, row) = [row EXCEPT !.role = req[w].role, !.staff = req[w].role = "ADMIN"]
        BY <1>11 DEF Saved
    <2> QED BY <2>1, <1>2, <1>3, <1>4, <1>6, <1>11 DEF UserRows, Roles
<1> QED BY <1>7, <1>8, <1>9, <1>10, <1>11 DEF AdminOps

LEMMA SaveStep ==
    ASSUME AccountsInv, NEW w \in Workers, Save(w)
    PROVE  AccountsInv'
<1>0. step[w] = "save" /\ req[w].op \in AdminOps /\ req[w].target \in Users
    BY DEF AccountsInv, Serving, Save
<1>1. PICK u \in Users : u = req[w].target
    BY <1>0
<1> DEFINE row == Saved(w, user[u])
<1>2. /\ row \in UserRows /\ row.role # "NONE"
      /\ row.deleted => ~row.active
      /\ row.staff <=> row.role = "ADMIN"
      /\ row.role = "MEMBER" => u \in ProfilesAfter(w)
    BY <1>0, <1>1, SavedSound
<1>3. user' = [user EXCEPT ![u] = row] /\ profiles' = ProfilesAfter(w) /\ End(w)
    BY <1>1 DEF Save
<1> HIDE DEF row
<1>4. user' \in [Users -> UserRows] /\ user'[u] = row
      /\ \A x \in Users : user'[x] # user[x] => x = u
    BY <1>1, <1>2, <1>3 DEF AccountsInv, RowsTyped
<1>5. Sound(user[u], u)' /\ Registered(u)'
    BY <1>2, <1>3, <1>4 DEF Sound, Registered
<1>6. profiles' \subseteq Users /\ profiles \subseteq profiles'
    BY <1>0, <1>3 DEF ProfilesAfter, AccountsInv, RowsTyped
<1>7. \A v \in Workers \ {w} : step[v] \in {"check", "save"} => req[v].target # u
    BY <1>0, <1>1 DEF AccountsInv, Apart
<1> QED BY <1>3, <1>4, <1>5, <1>6, <1>7, EndStep

\* What is written from a copy is sound: the copy was, and what it leaves of the
\* row was.
LEMMA WrittenSound ==
    ASSUME AccountsInv, NEW w \in Workers, step[w] = "write"
    PROVE  LET u == req[w].target IN
           /\ Written(w, user[u]) \in UserRows
           /\ Written(w, user[u]).role # "NONE"
           /\ Sound(Written(w, user[u]), u)
<1> DEFINE u == req[w].target
<1> DEFINE row == user[u]
<1> DEFINE Rows == [role : Roles, staff : BOOLEAN, active : BOOLEAN, deleted : BOOLEAN,
                    email : Emails, verified : Emails \cup {Unverified}]
<1>1. u \in Users /\ row.role # "NONE" /\ req[w].op \in {"whole", "email", "verify"}
    BY DEF AccountsInv, Serving, Registered
<1>2. row \in Rows /\ copy[w] \in Rows
    BY <1>1 DEF AccountsInv, RowsTyped, UserRows, NoUser, Holding
<1>3. Sound(row, u) /\ Sound(copy[w], u)
    BY <1>1 DEF AccountsInv, Holding
<1>4. req[w].op = "email" => req[w].email \in Emails
    BY DEF AccountsInv, Serving
<1>5. CASE req[w].op = "whole"
    BY <1>2, <1>3, <1>5 DEF Written, UserRows, Roles
<1>6. CASE req[w].op = "verify"
    BY <1>2, <1>3, <1>6 DEF Written, UserRows, Roles, Sound
<1>7. CASE req[w].op = "email"
    BY <1>2, <1>3, <1>4, <1>7 DEF Written, UserRows, Roles, Sound
<1> QED BY <1>1, <1>5, <1>6, <1>7

LEMMA WriteStep ==
    ASSUME AccountsInv, NEW w \in Workers, Write(w)
    PROVE  AccountsInv'
<1>1. step[w] = "write" /\ req[w].target \in Users
    BY DEF Write, AccountsInv, Serving
<1>2. PICK u \in Users : u = req[w].target
    BY <1>1
<1> DEFINE row == Written(w, user[u])
<1>3. CASE Reject(w)
    BY <1>3, RejectStep
<1>4. CASE user' = [user EXCEPT ![u] = row] /\ UNCHANGED profiles /\ End(w)
    <2>1. row \in UserRows /\ row.role # "NONE" /\ Sound(row, u)
        BY <1>1, <1>2, WrittenSound
    <2>2. user' \in [Users -> UserRows] /\ user'[u] = row
          /\ \A x \in Users : user'[x] # user[x] => x = u
        BY <1>4, <2>1 DEF AccountsInv, RowsTyped
    <2> HIDE DEF row
    <2>3. Sound(user[u], u)' /\ Registered(u)'
        BY <1>4, <2>1, <2>2 DEF Sound, Registered
    <2>4. \A v \in Workers \ {w} : step[v] \in {"check", "save"} => req[v].target # u
        BY <1>2 DEF Write, Locked
    <2>5. profiles' \subseteq Users /\ profiles \subseteq profiles'
        BY <1>4 DEF AccountsInv, RowsTyped
    <2> QED BY <1>4, <2>2, <2>3, <2>4, <2>5, EndStep
<1> QED BY <1>2, <1>3, <1>4 DEF Write

\* A registration or a login, which no other request is in the way of.
LEMMA RowsStep ==
    ASSUME AccountsInv, UNCHANGED <<step, req, copy>>, RowsTyped',
           profiles \subseteq profiles',
           \A u \in Users : user'[u] # user[u] =>
               ~Registered(u) /\ Registered(u)' /\ Sound(user[u], u)'
    PROVE  AccountsInv'
<1>1. \A u \in Users : Sound(user[u], u)'
    BY DEF AccountsInv, Sound
<1>2. ASSUME NEW w \in Workers PROVE Serving(w)' /\ Holding(w)'
    <2>1. Serving(w) /\ Holding(w)
        BY DEF AccountsInv
    <2>2. Serving(w)'
        BY <2>1 DEF Serving, Registered
    <2>3. step[w] \in {"check", "save"} => user'[req[w].target] = user[req[w].target]
        BY <2>1 DEF Serving
    <2>4. Holding(w)'
        BY <2>1, <2>3 DEF Holding, Sound
    <2> QED BY <2>2, <2>4
<1>3. \A v, w \in Workers : v # w => Apart(v, w)'
    BY DEF AccountsInv, Apart
<1> QED BY <1>1, <1>2, <1>3 DEF AccountsInv

LEMMA RegisterStep ==
    ASSUME AccountsInv, NEW u \in Users, NEW e \in Emails, Register(u, e)
    PROVE  AccountsInv'
<1> DEFINE row == [role |-> "MEMBER", staff |-> FALSE, active |-> TRUE,
                   deleted |-> FALSE, email |-> e, verified |-> Unverified]
<1>1. row \in UserRows /\ ~row.deleted /\ row.staff = FALSE /\ row.role = "MEMBER"
    BY DEF UserRows, Roles
<1>2. user' = [user EXCEPT ![u] = row] /\ profiles' = profiles \cup {u} /\ ~Registered(u)
      /\ UNCHANGED <<signedIn, step, req, copy>>
    BY DEF Register
<1> HIDE DEF row
<1>3. user' \in [Users -> UserRows] /\ user'[u] = row
      /\ \A x \in Users : user'[x] # user[x] => x = u
    BY <1>1, <1>2 DEF AccountsInv, RowsTyped
<1>4. Sound(user[u], u)' /\ Registered(u)'
    BY <1>1, <1>2, <1>3 DEF Sound, Registered
<1>5. RowsTyped' /\ profiles \subseteq profiles'
    BY <1>2, <1>3 DEF AccountsInv, RowsTyped
<1> QED BY <1>2, <1>3, <1>4, <1>5, RowsStep

LEMMA LoginStep ==
    ASSUME AccountsInv, NEW u \in Users, Login(u)
    PROVE  AccountsInv'
BY RowsStep DEF Login, AccountsInv, RowsTyped

\* A copy of a registered row is as sound as the row.
LEMMA CopyStep ==
    ASSUME AccountsInv, NEW w \in Workers, NEW u \in Users, Registered(u),
           NEW op \in {"whole", "verify"},
           Begin(w, "write", [op |-> op, target |-> u], user[u])
    PROVE  AccountsInv'
<1> DEFINE request == [op |-> op, target |-> u]
<1>1. user[u] \in UserRows /\ user[u].role # "NONE" /\ Sound(user[u], u)
    BY DEF AccountsInv, RowsTyped, Registered
<1>2. request.op = op /\ request.target = u
    OBVIOUS
<1> QED BY <1>1, <1>2, BeginStep

LEMMA PatchStep ==
    ASSUME AccountsInv, NEW w \in Workers, NEW u \in Users, Registered(u),
           NEW e \in Emails,
           Begin(w, "write", [op |-> "email", target |-> u, email |-> e], user[u])
    PROVE  AccountsInv'
<1> DEFINE request == [op |-> "email", target |-> u, email |-> e]
<1>1. user[u] \in UserRows /\ user[u].role # "NONE" /\ Sound(user[u], u)
    BY DEF AccountsInv, RowsTyped, Registered
<1>2. request.op = "email" /\ request.target = u /\ request.email = e
    OBVIOUS
<1> QED BY <1>1, <1>2, BeginStep

LEMMA StartAdminStep ==
    ASSUME AccountsInv, NEW w \in Workers, NEW a \in Users, NEW u \in Users,
           NEW op \in AdminOps, NEW role \in Roles, StartAdmin(w, a, u, op, role)
    PROVE  AccountsInv'
<1> DEFINE request == [op |-> op, actor |-> a, target |-> u, role |-> role]
<1>1. request.op = op /\ request.target = u /\ request.role = role
    OBVIOUS
<1>2. Registered(u) /\ Begin(w, "lock", request, NoUser)
    BY DEF StartAdmin, Visible
<1>3. NoUser \in UserRows /\ op \notin {"email"}
    BY DEF UserRows, AdminOps
<1> HIDE DEF request
<1> QED BY <1>1, <1>2, <1>3, BeginStep

\* Every step of a service, whichever specification it is a step of.
LEMMA AdminNextStep ==
    ASSUME AccountsInv, AdminNext
    PROVE  AccountsInv'
<1>1. ASSUME NEW w \in Workers, NEW a \in Users, NEW u \in Users,
             NEW op \in AdminOps, NEW role \in Roles, StartAdmin(w, a, u, op, role)
      PROVE  AccountsInv'
    BY <1>1, StartAdminStep
<1>2. ASSUME NEW w \in Workers, LockTarget(w) PROVE AccountsInv'
    BY <1>2, LockStep
<1>3. ASSUME NEW w \in Workers, Check(w) PROVE AccountsInv'
    BY <1>3, CheckStep
<1>4. ASSUME NEW w \in Workers, Save(w) PROVE AccountsInv'
    BY <1>4, SaveStep
<1>5. ASSUME NEW w \in Workers, Abort(w) PROVE AccountsInv'
    BY <1>5, RejectStep DEF Abort
<1> QED BY <1>1, <1>2, <1>3, <1>4, <1>5 DEF AdminNext

LEMMA SelfNextStep ==
    ASSUME AccountsInv, SelfNext
    PROVE  AccountsInv'
<1>1. ASSUME NEW u \in Users, Login(u) PROVE AccountsInv'
    BY <1>1, LoginStep
<1>2. ASSUME NEW w \in Workers, NEW u \in Users, StartChangePassword(w, u)
      PROVE  AccountsInv'
    BY <1>2, CopyStep DEF StartChangePassword, Authenticated, Visible
<1>3. ASSUME NEW w \in Workers, NEW u \in Users, StartResetPassword(w, u)
      PROVE  AccountsInv'
    BY <1>3, CopyStep DEF StartResetPassword, Visible
<1>4. ASSUME NEW w \in Workers, NEW u \in Users, NEW a \in Users, NEW e \in Emails,
             StartPatchEmail(w, a, u, e)
      PROVE  AccountsInv'
    BY <1>4, PatchStep DEF StartPatchEmail, Patching, Visible
<1>5. ASSUME NEW w \in Workers, NEW u \in Users, NEW a \in Users,
             StartPatchNothing(w, a, u)
      PROVE  AccountsInv'
    BY <1>5, CopyStep DEF StartPatchNothing, Patching, Visible
<1>6. ASSUME NEW w \in Workers, NEW u \in Users, StartVerify(w, u)
      PROVE  AccountsInv'
    BY <1>6, CopyStep DEF StartVerify, Visible
<1>7. ASSUME NEW w \in Workers, Write(w) PROVE AccountsInv'
    BY <1>7, WriteStep
<1> QED BY <1>1, <1>2, <1>3, <1>4, <1>5, <1>6, <1>7 DEF SelfNext

LEMMA InitHolds == AccountsInit => AccountsInv
<1> SUFFICES ASSUME AccountsInit PROVE AccountsInv
    OBVIOUS
<1>1. PICK e \in Emails :
        user = [u \in Users |->
                  IF u = Root THEN [role |-> "ADMIN", staff |-> TRUE,
                                    active |-> TRUE, deleted |-> FALSE,
                                    email |-> e, verified |-> e]
                  ELSE NoUser]
    BY DEF AccountsInit
<1>2. RowsTyped
    BY <1>1, AccountsAssumption DEF AccountsInit, RowsTyped, UserRows, Roles
<1>3. \A u \in Users : Sound(user[u], u)
    BY <1>1 DEF Sound, NoUser
<1>4. \A w \in Workers : step[w] = "idle" /\ req[w] = NoReq
    BY DEF AccountsInit
<1>5. \A w \in Workers : Serving(w) /\ Holding(w)
    BY <1>4 DEF Serving, Holding, Steps, NoReq
<1>6. \A v, w \in Workers : v # w => Apart(v, w)
    BY <1>4 DEF Apart
<1> QED BY <1>2, <1>3, <1>5, <1>6 DEF AccountsInv, AccountsInit, Steps

LEMMA UnchangedHolds == AccountsInv /\ UNCHANGED accountVars => AccountsInv'
BY DEF AccountsInv, RowsTyped, Sound, Serving, Holding, Apart, Registered, accountVars

-----------------------------------------------------------------------------
\* The rows, the copies in memory and the requests under way stay consistent
\* whatever the services do to each other (users/services.py, users/models.py).
THEOREM AccountsAreConsistent == AccountsSpec => []AccountsInv
<1>1. AccountsInv /\ [AccountsNext]_accountVars => AccountsInv'
    <2> SUFFICES ASSUME AccountsInv, AccountsNext PROVE AccountsInv'
        BY UnchangedHolds
    <2>1. CASE Registration
        BY <2>1, RegisterStep DEF Registration
    <2> QED BY <2>1, AdminNextStep, SelfNextStep DEF AccountsNext
<1> QED BY InitHolds, <1>1, PTL DEF AccountsSpec

\* A soft-deleted account is never active, whatever stale copies are saved over
\* it (users/models.py 84-92).
THEOREM DeletedAreInactive == AccountsSpec => []DeletedIsInactive
<1>1. AccountsInv => DeletedIsInactive
    BY DEF AccountsInv, DeletedIsInactive, Sound
<1> QED BY <1>1, AccountsAreConsistent, PTL

\* is_staff and the role ADMIN go together (users/services.py 221).
THEOREM StaffAreAdmins == AccountsSpec => []StaffIffAdmin
<1>1. AccountsInv => StaffIffAdmin
    BY DEF AccountsInv, StaffIffAdmin, Sound
<1> QED BY <1>1, AccountsAreConsistent, PTL

\* Every member has a profile (users/services.py 55-63, users/signals.py).
THEOREM MembersKeepProfiles == AccountsSpec => []MembersHaveProfile
<1>1. AccountsInv => MembersHaveProfile
    BY DEF AccountsInv, MembersHaveProfile, Sound
<1> QED BY <1>1, AccountsAreConsistent, PTL

\* The requests of Accounts are the only ones here.
Plain(w) == step[w] # "settle" /\ req[w].op \in Ops

LEMMA PlainStep ==
    ASSUME AccountsInv, \A w \in Workers : Plain(w), [AccountsNext]_accountVars
    PROVE  \A w \in Workers : Plain(w)'
<1> USE DEF Plain
<1>1. ASSUME NEW w \in Workers, End(w) PROVE \A v \in Workers : Plain(v)'
    BY <1>1 DEF End, AccountsInv, NoReq, Ops
<1>2. ASSUME NEW w \in Workers, NEW first \in {"lock", "write"}, NEW request, NEW object,
             request.op \in Ops, Begin(w, first, request, object)
      PROVE  \A v \in Workers : Plain(v)'
    BY <1>2 DEF Begin, AccountsInv
<1>3. ASSUME NEW w \in Workers, NEW next \in {"check", "save"}, req' = req,
             step' = [step EXCEPT ![w] = next]
      PROVE  \A v \in Workers : Plain(v)'
    BY <1>3 DEF AccountsInv
<1>4. ASSUME UNCHANGED <<step, req>> PROVE \A v \in Workers : Plain(v)'
    BY <1>4
<1>5. CASE Registration
    BY <1>4, <1>5 DEF Registration, Register
<1>6. CASE AdminNext
    <2>1. ASSUME NEW w \in Workers, NEW a \in Users, NEW u \in Users,
                 NEW op \in AdminOps, NEW role \in Roles, StartAdmin(w, a, u, op, role)
          PROVE  \A v \in Workers : Plain(v)'
        <3> DEFINE request == [op |-> op, actor |-> a, target |-> u, role |-> role]
        <3>1. request.op \in Ops /\ Begin(w, "lock", request, NoUser)
            BY <2>1 DEF StartAdmin, Ops
        <3> HIDE DEF request
        <3> QED BY <3>1, <1>2
    <2>2. ASSUME NEW w \in Workers, LockTarget(w) PROVE \A v \in Workers : Plain(v)'
        BY <2>2, <1>1, <1>3 DEF LockTarget, TargetRead, Reject
    <2>3. ASSUME NEW w \in Workers, Check(w) PROVE \A v \in Workers : Plain(v)'
        BY <2>3, <1>1, <1>3 DEF Check, Reject
    <2>4. ASSUME NEW w \in Workers, Save(w) \/ Abort(w) PROVE \A v \in Workers : Plain(v)'
        BY <2>4, <1>1 DEF Save, Abort, Reject
    <2> QED BY <1>6, <2>1, <2>2, <2>3, <2>4 DEF AdminNext
<1>7. CASE SelfNext
    <2>1. ASSUME NEW u \in Users, Login(u) PROVE \A v \in Workers : Plain(v)'
        BY <2>1, <1>4 DEF Login
    <2>2. ASSUME NEW w \in Workers, NEW u, NEW op \in {"whole", "verify"},
                 Begin(w, "write", [op |-> op, target |-> u], user[u])
          PROVE  \A v \in Workers : Plain(v)'
        BY <2>2, <1>2 DEF Ops
    <2>3. ASSUME NEW w \in Workers, NEW a \in Users, NEW u \in Users, NEW e \in Emails,
                 StartPatchEmail(w, a, u, e)
          PROVE  \A v \in Workers : Plain(v)'
        BY <2>3, <1>2 DEF StartPatchEmail, Ops
    <2>4. ASSUME NEW w \in Workers, Write(w) PROVE \A v \in Workers : Plain(v)'
        BY <2>4, <1>1 DEF Write, Reject
    <2> QED BY <1>7, <2>1, <2>2, <2>3, <2>4
            DEF SelfNext, StartChangePassword, StartResetPassword, StartPatchNothing, StartVerify
<1> QED BY <1>4, <1>5, <1>6, <1>7 DEF AccountsNext, accountVars

\* Rows, copies and requests are well typed in every reachable state, and a request
\* under way is about an account that exists.
THEOREM AccountsTyped == AccountsSpec => []AccountsTypeOK
<1> DEFINE AllPlain == \A w \in Workers : Plain(w)
<1>1. AccountsInit => AllPlain
    BY DEF AccountsInit, Plain, Ops, NoReq
<1>2. AccountsInv /\ AllPlain /\ [AccountsNext]_accountVars => AllPlain'
    BY PlainStep
<1>3. AccountsInv /\ AllPlain => AccountsTypeOK
    BY DEF AccountsInv, Plain, Serving, AccountsTypeOK, Steps
<1> HIDE DEF AllPlain
<1> QED BY <1>1, <1>2, <1>3, AccountsAreConsistent, PTL DEF AccountsSpec

-----------------------------------------------------------------------------
(***************************************************************************)
(* What is at stake when requests overlap.  Every step is a registration,  *)
(* a login, or moves one request on, and only two of these moves write.    *)
(***************************************************************************)

Others(w) == \A v \in Workers \ {w} :
                step'[v] = step[v] /\ req'[v] = req[v] /\ copy'[v] = copy[v]

\* A new account is an ordinary member's.
Joins ==
    /\ UNCHANGED <<step, req, copy>>
    /\ \A x \in Users : user'[x] = user[x] \/
         /\ ~Registered(x)
         /\ user'[x].role = "MEMBER" /\ ~user'[x].deleted
         /\ user'[x].verified = Unverified

\* The request of w starts, goes on or ends, and nothing is written.
Advances(w) ==
    /\ user' = user /\ Others(w)
    /\ \/ step'[w] = "idle"
       \/ step'[w] = "write" /\ req'[w].target \in Users /\ copy'[w] = user[req'[w].target]
       \/ step'[w] = "lock" /\ req'[w].actor \in ActiveAdmins
       \/ step[w] = "lock" /\ step'[w] = "check" /\ req'[w] = req[w]
       \/ /\ step[w] = "check" /\ step'[w] = "save" /\ req'[w] = req[w] /\ copy'[w] = copy[w]
          /\ req[w].op \in AdminOps /\ Allowed(w)

Saves(w) ==
    /\ step[w] = "save" /\ step'[w] = "idle" /\ Others(w)
    /\ req[w].op \in AdminOps
    /\ user' = [user EXCEPT ![req[w].target] = Saved(w, @)]

Writes(w) ==
    /\ step[w] = "write" /\ step'[w] = "idle" /\ Others(w)
    /\ user' = [user EXCEPT ![req[w].target] = Written(w, @)]

LEMMA EndMoves ==
    ASSUME AccountsInv, NEW w \in Workers, End(w)
    PROVE  step'[w] = "idle" /\ Others(w)
BY DEF AccountsInv, RowsTyped, End, Others

LEMMA BeginMoves ==
    ASSUME AccountsInv, NEW w \in Workers, NEW first, NEW request, NEW object,
           Begin(w, first, request, object)
    PROVE  /\ step'[w] = first /\ req'[w] = request /\ copy'[w] = object
           /\ user' = user /\ Others(w)
BY DEF AccountsInv, RowsTyped, Begin, Others

LEMMA CopyMoves ==
    ASSUME AccountsInv, NEW w \in Workers, NEW u \in Users, NEW request,
           request.target = u, Begin(w, "write", request, user[u])
    PROVE  Advances(w)
BY BeginMoves DEF Advances

LEMMA AdminMoves ==
    ASSUME AccountsInv, AdminNext
    PROVE  \E w \in Workers : Advances(w) \/ Saves(w)
<1>1. ASSUME NEW w \in Workers, NEW a \in Users, NEW u \in Users, NEW op \in AdminOps,
             NEW role \in Roles, StartAdmin(w, a, u, op, role)
      PROVE  Advances(w)
    <2> DEFINE request == [op |-> op, actor |-> a, target |-> u, role |-> role]
    <2>1. request.actor = a /\ Begin(w, "lock", request, NoUser)
        BY <1>1 DEF StartAdmin
    <2>2. a \in ActiveAdmins
        BY <1>1 DEF StartAdmin, Authenticated, ActiveAdmins, Admins
    <2> HIDE DEF request
    <2> QED BY <2>1, <2>2, BeginMoves DEF Advances
<1>2. ASSUME NEW w \in Workers, LockTarget(w) PROVE Advances(w)
    <2>1. CASE Reject(w)
        BY <2>1, EndMoves DEF Reject, Advances
    <2>2. CASE /\ step' = [step EXCEPT ![w] = "check"]
               /\ copy' = [copy EXCEPT ![w] = user[req[w].target]]
               /\ UNCHANGED <<user, profiles, signedIn, req>>
        BY <1>2, <2>2 DEF LockTarget, AccountsInv, RowsTyped, Advances, Others
    <2> QED BY <1>2, <2>1, <2>2 DEF LockTarget, TargetRead
<1>3. ASSUME NEW w \in Workers, Check(w) PROVE Advances(w)
    <2>1. CASE Reject(w)
        BY <2>1, EndMoves DEF Reject, Advances
    <2>2. CASE /\ Allowed(w) /\ step' = [step EXCEPT ![w] = "save"]
               /\ UNCHANGED <<user, profiles, signedIn, req, copy>>
        <3>1. step'[w] = "save" /\ user' = user /\ Others(w) /\ req' = req /\ copy' = copy
            BY <2>2 DEF AccountsInv, Others
        <3> QED BY <1>3, <2>2, <3>1 DEF Check, Advances
    <2> QED BY <1>3, <2>1, <2>2 DEF Check
<1>4. ASSUME NEW w \in Workers, Save(w) PROVE Saves(w)
    BY <1>4, EndMoves DEF Save, Saves
<1>5. ASSUME NEW w \in Workers, Abort(w) PROVE Advances(w)
    BY <1>5, EndMoves DEF Abort, Reject, Advances
<1> QED BY <1>1, <1>2, <1>3, <1>4, <1>5 DEF AdminNext

LEMMA SelfMoves ==
    ASSUME AccountsInv, SelfNext
    PROVE  Joins \/ \E w \in Workers : Advances(w) \/ Writes(w)
<1>1. ASSUME NEW u \in Users, Login(u) PROVE Joins
    BY <1>1 DEF Login, Joins
<1>2. ASSUME NEW w \in Workers, NEW u \in Users,
             \/ StartChangePassword(w, u) \/ StartResetPassword(w, u) \/ StartVerify(w, u)
             \/ \E a \in Users : StartPatchNothing(w, a, u)
      PROVE  Advances(w)
    <2>1. PICK op \in {"whole", "verify"} :
            Begin(w, "write", [op |-> op, target |-> u], user[u])
        BY <1>2 DEF StartChangePassword, StartResetPassword, StartVerify, StartPatchNothing
    <2>2. [op |-> op, target |-> u].target = u
        OBVIOUS
    <2> QED BY <2>1, <2>2, CopyMoves
<1>3. ASSUME NEW w \in Workers, NEW u \in Users, NEW a \in Users, NEW e \in Emails,
             StartPatchEmail(w, a, u, e)
      PROVE  Advances(w)
    <2>1. [op |-> "email", target |-> u, email |-> e].target = u
        OBVIOUS
    <2> QED BY <1>3, <2>1, CopyMoves DEF StartPatchEmail
<1>4. ASSUME NEW w \in Workers, Write(w) PROVE Advances(w) \/ Writes(w)
    <2>1. CASE Reject(w)
        BY <2>1, EndMoves DEF Reject, Advances
    <2>2. CASE user' = [user EXCEPT ![req[w].target] = Written(w, user[req[w].target])]
               /\ End(w)
        BY <1>4, <2>2, EndMoves DEF Write, Writes
    <2> QED BY <1>4, <2>1, <2>2 DEF Write
<1> QED BY <1>1, <1>2, <1>3, <1>4 DEF SelfNext

LEMMA Moves ==
    ASSUME AccountsInv, AccountsNext
    PROVE  \/ Joins
           \/ \E w \in Workers : Advances(w) \/ Saves(w) \/ Writes(w)
<1>1. ASSUME NEW u \in Users, NEW e \in Emails, Register(u, e) PROVE Joins
    BY <1>1 DEF Register, Joins, AccountsInv, RowsTyped
<1> QED BY <1>1, AdminMoves, SelfMoves DEF AccountsNext, Registration

-----------------------------------------------------------------------------
(***************************************************************************)
(* Stale copies: what a write may undo.                                    *)
(***************************************************************************)

\* A record with every column.
FullRows == [role : Roles, staff : BOOLEAN, active : BOOLEAN, deleted : BOOLEAN,
             email : Emails, verified : Emails \cup {Unverified}]

Standing(new, old) ==
    new.role = old.role /\ new.deleted = old.deleted /\ new.active = old.active

\* The copy that w is going to write still has the standing of the row.
FreshCopy(w) == step[w] = "write" => Standing(copy[w], user[req[w].target])

FreshCopies == \A w \in Workers : FreshCopy(w)

LEMMA WriteRows ==
    ASSUME AccountsInv, NEW w \in Workers, step[w] = "write"
    PROVE  /\ req[w].target \in Users /\ user[req[w].target] \in FullRows
           /\ copy[w] \in FullRows
           /\ req[w].op \in {"whole", "email", "verify"}
<1>1. req[w].target \in Users /\ user[req[w].target].role # "NONE"
      /\ req[w].op \in {"whole", "email", "verify"} /\ copy[w].role # "NONE"
    BY DEF AccountsInv, Serving, Registered, Holding
<1> QED BY <1>1 DEF AccountsInv, RowsTyped, UserRows, NoUser, FullRows

LEMMA SaveRows ==
    ASSUME AccountsInv, NEW w \in Workers, step[w] = "save"
    PROVE  /\ req[w].target \in Users /\ user[req[w].target] \in FullRows
           /\ copy[w] = user[req[w].target]
<1>1. req[w].target \in Users /\ user[req[w].target].role # "NONE"
      /\ copy[w] = user[req[w].target]
    BY DEF AccountsInv, Serving, Registered, Holding
<1> QED BY <1>1 DEF AccountsInv, RowsTyped, UserRows, NoUser, FullRows

\* Only one row changes.
LEMMA OneRow ==
    ASSUME AccountsInv, NEW w \in Workers, Saves(w) \/ Writes(w)
    PROVE  /\ Saves(w) => user'[req[w].target] = Saved(w, user[req[w].target])
           /\ Writes(w) => user'[req[w].target] = Written(w, user[req[w].target])
           /\ \A u \in Users : u # req[w].target => user'[u] = user[u]
<1>1. req[w].target \in Users
    BY WriteRows, SaveRows DEF Saves, Writes
<1>2. user \in [Users -> UserRows]
    BY DEF AccountsInv, RowsTyped
<1> QED BY <1>1, <1>2 DEF Saves, Writes

LEMMA WritesKeepStanding ==
    ASSUME AccountsInv, NEW w \in Workers, FreshCopy(w), Writes(w)
    PROVE  \A u \in Users : Standing(user'[u], user[u])
<1> DEFINE t == req[w].target
<1>1. user[t] \in FullRows /\ copy[w] \in FullRows
      /\ req[w].op \in {"whole", "email", "verify"}
    BY WriteRows DEF Writes
<1>2. Standing(copy[w], user[t])
    BY DEF FreshCopy, Writes
<1>3. Standing(Written(w, user[t]), user[t])
    BY <1>1, <1>2 DEF Written, Standing, FullRows
<1> QED BY <1>3, OneRow DEF Standing

LEMMA FreshStep ==
    ASSUME AccountsInv, FreshCopies, CopiesApart, [AccountsNext]_accountVars
    PROVE  FreshCopies'
<1> USE DEF FreshCopies
<1>1. CASE Joins
    BY <1>1 DEF Joins, AccountsInv, Serving, FreshCopy, Standing
<1>2. ASSUME NEW w \in Workers, Advances(w) PROVE FreshCopies'
    <2>1. FreshCopy(w)'
        BY <1>2 DEF Advances, FreshCopy, Standing
    <2>2. \A v \in Workers \ {w} : FreshCopy(v)'
        BY <1>2 DEF Advances, Others, FreshCopy, Standing
    <2> QED BY <2>1, <2>2
<1>3. ASSUME NEW w \in Workers, Saves(w) PROVE FreshCopies'
    <2>1. \A v \in Workers \ {w} : step[v] = "write" =>
             req[v].target \in Users /\ req[v].target # req[w].target
        BY <1>3, WriteRows DEF Saves, CopiesApart
    <2>2. \A v \in Workers \ {w} : FreshCopy(v)'
        BY <1>3, <2>1, OneRow DEF Saves, Others, FreshCopy, Standing
    <2> QED BY <1>3, <2>2 DEF Saves, FreshCopy
<1>4. ASSUME NEW w \in Workers, Writes(w) PROVE FreshCopies'
    <2>1. \A u \in Users : Standing(user'[u], user[u])
        BY <1>4, WritesKeepStanding
    <2>2. \A v \in Workers : step[v] = "write" => req[v].target \in Users
        BY WriteRows
    <2>3. \A v \in Workers \ {w} : FreshCopy(v)'
        BY <1>4, <2>1, <2>2 DEF Writes, Others, FreshCopy, Standing
    <2> QED BY <1>4, <2>3 DEF Writes, FreshCopy
<1>5. CASE UNCHANGED accountVars
    BY <1>5 DEF accountVars, FreshCopy, Standing
<1> QED BY <1>1, <1>2, <1>3, <1>4, <1>5, Moves

LEMMA FreshInit == AccountsInit => FreshCopies
BY DEF AccountsInit, FreshCopies, FreshCopy

\* A deleted account comes back by restore_user only, unless a row is saved that was
\* copied before the deletion (users/services.py 118, 149, 192, 243).
THEOREM DeletedStayDeleted == AccountsSpec /\ []CopiesApart => DeletedUntilRestored
<1> DEFINE Undeleted(u) == user[u].deleted /\ ~user'[u].deleted
<1>1. ASSUME AccountsInv, FreshCopies, [AccountsNext]_accountVars, NEW u \in Users,
             Undeleted(u)
      PROVE  \E w \in Workers : req[w].op = "restore" /\ req[w].target = u
    <2>1. CASE Joins
        BY <1>1, <2>1 DEF Joins, Registered, AccountsInv, RowsTyped, UserRows, NoUser, Roles
    <2>2. ASSUME NEW w \in Workers, Advances(w) PROVE FALSE
        BY <1>1, <2>2 DEF Advances
    <2>3. ASSUME NEW w \in Workers, Writes(w) PROVE FALSE
        BY <1>1, <2>3, WritesKeepStanding DEF FreshCopies, Standing
    <2>4. ASSUME NEW w \in Workers, Saves(w)
          PROVE  req[w].op = "restore" /\ req[w].target = u
        <3>1. u = req[w].target /\ user'[u] = Saved(w, user[u])
            BY <1>1, <2>4, OneRow
        <3>2. user[u] \in FullRows /\ req[w].op \in AdminOps
            BY <1>1, <2>4, <3>1, SaveRows DEF Saves
        <3> QED BY <1>1, <3>1, <3>2 DEF Saved, AdminOps, FullRows
    <2>5. CASE UNCHANGED accountVars
        BY <1>1, <2>5 DEF accountVars
    <2> QED BY <1>1, <2>1, <2>2, <2>3, <2>4, <2>5, Moves
<1>2. AccountsInv /\ FreshCopies /\ [AccountsNext]_accountVars =>
        [\A u \in Users : user[u].deleted /\ ~user'[u].deleted =>
            \E w \in Workers : req[w].op = "restore" /\ req[w].target = u]_accountVars
    BY <1>1
<1>3. AccountsInv /\ FreshCopies /\ CopiesApart /\ [AccountsNext]_accountVars => FreshCopies'
    BY FreshStep
<1> QED BY FreshInit, <1>2, <1>3, AccountsAreConsistent, PTL
        DEF AccountsSpec, DeletedUntilRestored

-----------------------------------------------------------------------------
(***************************************************************************)
(* Proven addresses.                                                       *)
(***************************************************************************)

\* The copy that w is going to write still has the address of the row.
FreshAddress(w) ==
    step[w] = "write" =>
        /\ copy[w].email = user[req[w].target].email
        /\ copy[w].verified = user[req[w].target].verified

AddressInv == AddressProven /\ \A w \in Workers : FreshAddress(w)

LEMMA AddressStep ==
    ASSUME AccountsInv, AddressInv, WritesApart, [AccountsNext]_accountVars
    PROVE  AddressInv'
<1> USE DEF AddressInv
<1>1. CASE Joins
    <2>1. AddressProven'
        BY <1>1 DEF Joins, AddressProven
    <2>2. \A w \in Workers : FreshAddress(w)'
        BY <1>1 DEF Joins, AccountsInv, Serving, FreshAddress
    <2> QED BY <2>1, <2>2
<1>2. ASSUME NEW w \in Workers, Advances(w) PROVE AddressInv'
    <2>1. AddressProven' /\ FreshAddress(w)'
        BY <1>2 DEF Advances, FreshAddress, AddressProven
    <2>2. \A v \in Workers \ {w} : FreshAddress(v)'
        BY <1>2 DEF Advances, Others, FreshAddress
    <2> QED BY <2>1, <2>2
<1>3. ASSUME NEW w \in Workers, Saves(w) PROVE AddressInv'
    <2> DEFINE t == req[w].target
    <2>1. user[t] \in FullRows /\ req[w].op \in AdminOps
        BY <1>3, SaveRows DEF Saves
    <2>2. Saved(w, user[t]).email = user[t].email
          /\ Saved(w, user[t]).verified = user[t].verified
        BY <2>1 DEF Saved, AdminOps, FullRows
    <2>3. \A u \in Users : user'[u].email = user[u].email /\ user'[u].verified = user[u].verified
        BY <1>3, <2>2, OneRow
    <2>4. AddressProven'
        BY <2>3 DEF AddressProven
    <2>5. \A v \in Workers : step[v] = "write" => req[v].target \in Users
        BY WriteRows
    <2>6. \A v \in Workers \ {w} : FreshAddress(v)'
        BY <1>3, <2>3, <2>5 DEF Saves, Others, FreshAddress
    <2> QED BY <1>3, <2>4, <2>6 DEF Saves, FreshAddress
<1>4. ASSUME NEW w \in Workers, Writes(w) PROVE AddressInv'
    <2> DEFINE t == req[w].target
    <2>1. t \in Users /\ user[t] \in FullRows /\ copy[w] \in FullRows
          /\ req[w].op \in {"whole", "email", "verify"}
        BY <1>4, WriteRows DEF Writes
    <2>2. copy[w].email = user[t].email /\ copy[w].verified = user[t].verified
          /\ user[t].verified \in {Unverified, user[t].email}
        BY <1>4, <2>1 DEF Writes, FreshAddress, AddressProven
    <2>3. Written(w, user[t]).verified \in {Unverified, Written(w, user[t]).email}
        BY <2>1, <2>2 DEF Written, FullRows
    <2>4. AddressProven'
        BY <1>4, <2>3, OneRow DEF AddressProven
    <2>5. \A v \in Workers \ {w} : step[v] = "write" =>
             req[v].target \in Users /\ req[v].target # t
        BY <1>4, WriteRows DEF Writes, WritesApart
    <2>6. \A v \in Workers \ {w} : FreshAddress(v)'
        BY <1>4, <2>5, OneRow DEF Writes, Others, FreshAddress
    <2> QED BY <1>4, <2>4, <2>6 DEF Writes, FreshAddress
<1>5. CASE UNCHANGED accountVars
    BY <1>5 DEF accountVars, FreshAddress, AddressProven
<1> QED BY <1>1, <1>2, <1>3, <1>4, <1>5, Moves

\* What counts as verified is the address whose link was opened, unless two requests
\* write one account from copies that overlap (users/services.py 101-105, 186-192).
THEOREM AddressesAreProven == AccountsSpec /\ []WritesApart => []AddressProven
<1>1. AccountsInit => AddressInv
    <2> SUFFICES ASSUME AccountsInit PROVE AddressInv
        OBVIOUS
    <2>1. AddressProven
        BY DEF AccountsInit, AddressProven, NoUser
    <2> QED BY <2>1 DEF AccountsInit, AddressInv, FreshAddress
<1>2. AccountsInv /\ AddressInv /\ WritesApart /\ [AccountsNext]_accountVars => AddressInv'
    BY AddressStep
<1>3. AddressInv => AddressProven
    BY DEF AddressInv
<1> QED BY <1>1, <1>2, <1>3, AccountsAreConsistent, PTL DEF AccountsSpec

-----------------------------------------------------------------------------
(***************************************************************************)
(* Counted administrators.                                                 *)
(***************************************************************************)

\* Whoever is about to save has passed the tests, and would pass them again.
Passed(w) == step[w] = "save" /\ req[w].op \in AdminOps => Allowed(w)

CountInv == FreshCopies /\ \A w \in Workers : Passed(w)

\* Registrations and writes from fresh copies make and unmake no administrator.
LEMMA AdminsKept ==
    ASSUME AccountsInv, RowsTyped',
           Joins \/ \A u \in Users : Standing(user'[u], user[u])
    PROVE  Admins' = Admins /\ ActiveAdmins' = ActiveAdmins
<1>1. ASSUME NEW u \in Users
      PROVE  /\ u \in Admins' <=> u \in Admins
             /\ u \in ActiveAdmins' <=> u \in ActiveAdmins
    <2>1. CASE Standing(user'[u], user[u])
        BY <2>1 DEF Standing, Admins, ActiveAdmins, Visible, Registered
    <2>2. CASE user'[u].role = "MEMBER" /\ ~Registered(u)
        BY <2>2 DEF Admins, ActiveAdmins, Visible, Registered
    <2>3. CASE user'[u] = user[u]
        BY <2>3 DEF Admins, ActiveAdmins, Visible, Registered
    <2> QED BY <2>1, <2>2, <2>3 DEF Joins
<1> QED BY <1>1 DEF Admins, ActiveAdmins

LEMMA StillAllowed ==
    ASSUME NEW w \in Workers, req[w].op \in AdminOps, Allowed(w),
           req'[w] = req[w], copy'[w] = copy[w],
           Admins' = Admins, ActiveAdmins' = ActiveAdmins
    PROVE  Allowed(w)'
<1>1. LastAdmin(w)' <=> LastAdmin(w)
    BY DEF LastAdmin
<1>2. CASE req[w].op \in {"delete", "deactivate"}
    BY <1>1, <1>2 DEF Allowed
<1>3. CASE req[w].op = "role"
    BY <1>1, <1>3 DEF Allowed
<1>4. CASE req[w].op \in {"activate", "restore"}
    BY <1>4 DEF Allowed
<1> QED BY <1>2, <1>3, <1>4 DEF AdminOps

\* The worker that moves is allowed what it is about to save, and the others still
\* are, as the administrators stay the same.
LEMMA PassedKept ==
    ASSUME AccountsInv, CountInv, NEW w \in Workers, Others(w), Passed(w)',
           Admins' = Admins, ActiveAdmins' = ActiveAdmins
    PROVE  \A v \in Workers : Passed(v)'
<1>1. ASSUME NEW v \in Workers \ {w} PROVE Passed(v)'
    BY <1>1, StillAllowed DEF CountInv, Passed, Others
<1> QED BY <1>1

LEMMA CountStep ==
    ASSUME AccountsInv, AccountsInv', CountInv, SavesApart, CopiesApart,
           [AccountsNext]_accountVars
    PROVE  CountInv'
<1>1. FreshCopies'
    BY FreshStep DEF CountInv
<1>2. ASSUME \A u \in Users : Standing(user'[u], user[u])
      PROVE  Admins' = Admins /\ ActiveAdmins' = ActiveAdmins
    BY <1>2, AdminsKept DEF AccountsInv
<1>3. CASE Joins
    <2>1. Admins' = Admins /\ ActiveAdmins' = ActiveAdmins
        BY <1>3, AdminsKept DEF AccountsInv
    <2>2. \A v \in Workers : Passed(v)'
        BY <1>3, <2>1, StillAllowed DEF CountInv, Passed, Joins
    <2> QED BY <1>1, <2>2 DEF CountInv
<1>4. ASSUME NEW w \in Workers, Advances(w) PROVE CountInv'
    <2>1. Admins' = Admins /\ ActiveAdmins' = ActiveAdmins
        BY <1>2, <1>4 DEF Advances, Standing
    <2>2. Passed(w)'
        BY <1>4, <2>1, StillAllowed DEF Advances, Passed
    <2> QED BY <1>1, <1>4, <2>1, <2>2, PassedKept DEF Advances, CountInv
<1>5. ASSUME NEW w \in Workers, Saves(w) PROVE CountInv'
    <2>1. \A v \in Workers : step'[v] # "save"
        BY <1>5 DEF Saves, Others, SavesApart
    <2> QED BY <1>1, <2>1 DEF CountInv, Passed
<1>6. ASSUME NEW w \in Workers, Writes(w) PROVE CountInv'
    <2>1. Admins' = Admins /\ ActiveAdmins' = ActiveAdmins
        BY <1>2, <1>6, WritesKeepStanding DEF CountInv, FreshCopies
    <2>2. Passed(w)'
        BY <1>6 DEF Writes, Passed
    <2> QED BY <1>1, <1>6, <2>1, <2>2, PassedKept DEF Writes, CountInv
<1>7. CASE UNCHANGED accountVars
    <2>1. Admins' = Admins /\ ActiveAdmins' = ActiveAdmins
        BY <1>2, <1>7 DEF accountVars, Standing
    <2>2. \A v \in Workers : Passed(v)'
        BY <1>7, <2>1, StillAllowed DEF accountVars, CountInv, Passed
    <2> QED BY <1>1, <2>2 DEF CountInv
<1> QED BY <1>3, <1>4, <1>5, <1>6, <1>7, Moves

LEMMA CountInit == AccountsInit => CountInv
BY FreshInit DEF AccountsInit, CountInv, Passed

\* Of a set that counts more than one, one is left beside any element.
LEMMA OneIsLeft ==
    ASSUME NEW S, IsFiniteSet(S), ~(Cardinality(S) <= 1), NEW x
    PROVE  \E y \in S : y # x
<1> SUFFICES ASSUME S \subseteq {x} PROVE FALSE
    OBVIOUS
<1>1. IsFiniteSet({x}) /\ Cardinality({x}) = 1
    BY FS_Singleton
<1> QED BY <1>1, FS_Subset

LEMMA AdminsFinite == IsFiniteSet(Admins) /\ IsFiniteSet(ActiveAdmins)
BY AccountsAssumption, FS_Subset DEF Admins, ActiveAdmins

LEMMA SaveLeavesAdmin ==
    ASSUME AccountsInv, NEW w \in Workers, Saves(w), Passed(w), Admins # {}
    PROVE  Admins' # {}
<1> DEFINE t == req[w].target
<1>1. t \in Users /\ user[t] \in FullRows /\ copy[w] = user[t] /\ req[w].op \in AdminOps
    BY SaveRows DEF Saves
<1>2. user'[t] = Saved(w, user[t]) /\ \A u \in Users : u # t => user'[u] = user[u]
    BY OneRow
<1>3. \A u \in Admins : u # t => u \in Admins'
    BY <1>2 DEF Admins, Visible, Registered
<1>4. Allowed(w)
    BY <1>1 DEF Passed, Saves
<1>5. CASE req[w].op = "delete" \/ (req[w].op = "role" /\ req[w].role # "ADMIN")
    <2>1. ~LastAdmin(w)
        BY <1>4, <1>5 DEF Allowed
    <2>2. t \in Admins => ~(Cardinality(Admins) <= 1)
        BY <1>1, <1>5, <2>1 DEF LastAdmin, Admins
    <2>3. \E u \in Admins : u # t
        BY <2>2, AdminsFinite, OneIsLeft
    <2> QED BY <1>3, <2>3
<1>6. CASE req[w].op \in {"deactivate", "activate", "restore"}
           \/ (req[w].op = "role" /\ req[w].role = "ADMIN")
    <2>1. t \in Admins => user'[t].role = "ADMIN" /\ ~user'[t].deleted
        BY <1>1, <1>2, <1>6 DEF Saved, FullRows, Admins, Visible
    <2>2. t \in Admins => t \in Admins'
        BY <1>1, <2>1 DEF Admins, Visible, Registered
    <2> QED BY <1>3, <2>2
<1> QED BY <1>1, <1>5, <1>6 DEF AdminOps

\* An administrator remains (users/services.py 41-52), unless two services are both
\* between the count and the save, or a row is saved from a copy that is older than
\* such a save.
THEOREM AdministratorRemains ==
    AccountsSpec /\ []SavesApart /\ []CopiesApart => []AdminRemains
<1>1. AccountsInit => AdminRemains
    BY AccountsAssumption
       DEF AccountsInit, AdminRemains, Admins, Visible, Registered
<1>2. ASSUME AccountsInv, AccountsInv', CountInv, AdminRemains, [AccountsNext]_accountVars
      PROVE  AdminRemains'
    <2>1. CASE Joins \/ \A u \in Users : Standing(user'[u], user[u])
        BY <1>2, <2>1, AdminsKept DEF AccountsInv, AdminRemains
    <2>2. ASSUME NEW w \in Workers, Advances(w) PROVE AdminRemains'
        BY <2>1, <2>2 DEF Advances, Standing
    <2>3. ASSUME NEW w \in Workers, Saves(w) PROVE AdminRemains'
        BY <1>2, <2>3, SaveLeavesAdmin DEF CountInv, AdminRemains
    <2>4. ASSUME NEW w \in Workers, Writes(w) PROVE AdminRemains'
        BY <1>2, <2>1, <2>4, WritesKeepStanding DEF CountInv, FreshCopies
    <2>5. CASE UNCHANGED accountVars
        BY <2>1, <2>5 DEF accountVars, Standing
    <2> QED BY <1>2, <2>1, <2>2, <2>3, <2>4, <2>5, Moves
<1>3. AccountsInv /\ AccountsInv' /\ CountInv /\ SavesApart /\ CopiesApart
        /\ [AccountsNext]_accountVars => CountInv'
    BY CountStep
<1> QED BY CountInit, <1>1, <1>2, <1>3, AccountsAreConsistent, PTL DEF AccountsSpec

\* The services that lock their target write from no stale copy: without the users'
\* own services, two services between the count and the save are all that can take
\* the last administrator (the query at users/services.py 46 that locks nothing).
THEOREM CountIsAllThatFails == AdminSpec /\ []SavesApart => []AdminRemains
<1> DEFINE NoCopies == \A w \in Workers : step[w] # "write"
<1>1. AccountsInit => NoCopies
    BY DEF AccountsInit
<1>2. AccountsInv /\ NoCopies /\ [Registration \/ AdminNext]_accountVars => NoCopies'
    <2>1. ASSUME NoCopies, NEW w \in Workers, Others(w), step'[w] # "write" PROVE NoCopies'
        BY <2>1 DEF Others
    <2>2. ASSUME NoCopies, AccountsInv, AdminNext PROVE NoCopies'
        <3>1. ASSUME NEW w \in Workers, NEW a \in Users, NEW u \in Users, NEW op \in AdminOps,
                     NEW role \in Roles, StartAdmin(w, a, u, op, role)
              PROVE  NoCopies'
            BY <2>1, <2>2, <3>1, BeginMoves DEF StartAdmin
        <3>2. ASSUME NEW w \in Workers, End(w) PROVE NoCopies'
            BY <2>1, <2>2, <3>2, EndMoves
        <3>3. ASSUME NEW w \in Workers, NEW next \in {"check", "save"},
                     step' = [step EXCEPT ![w] = next]
              PROVE  NoCopies'
            BY <2>2, <3>3 DEF AccountsInv
        <3> QED BY <2>2, <3>1, <3>2, <3>3
                DEF AdminNext, LockTarget, TargetRead, Check, Save, Abort, Reject
    <2>3. ASSUME NoCopies, Registration PROVE NoCopies'
        BY <2>3 DEF Registration, Register
    <2> QED BY <2>2, <2>3 DEF accountVars
<1>3. NoCopies => CopiesApart
    BY DEF CopiesApart
<1>4. [Registration \/ AdminNext]_accountVars => [AccountsNext]_accountVars
    BY DEF AccountsNext
<1> HIDE DEF NoCopies
<1> QED BY <1>1, <1>2, <1>3, <1>4, AdministratorRemains, AccountsAreConsistent, PTL
        DEF AdminSpec, AccountsSpec

-----------------------------------------------------------------------------
(***************************************************************************)
(* Removed administrators.                                                 *)
(***************************************************************************)

\* Who removes or deactivates an account can log in as an administrator, to the end.
Acting(w) ==
    step[w] \in {"lock", "check", "save"} /\ req[w].op \in {"delete", "deactivate"}
        => req[w].actor \in ActiveAdmins

ActingInv == \A w \in Workers : Acting(w)

LEMMA ActingStep ==
    ASSUME AccountsInv, AccountsInv', CountInv, ActingInv, AdminsApart,
           [AccountsNext]_accountVars
    PROVE  ActingInv'
<1> USE DEF ActingInv
<1>1. ASSUME NEW w \in Workers, Others(w), Acting(w)', ActiveAdmins' = ActiveAdmins
      PROVE  ActingInv'
    BY <1>1 DEF Acting, Others
<1>2. ASSUME \A u \in Users : Standing(user'[u], user[u])
      PROVE  ActiveAdmins' = ActiveAdmins
    BY <1>2, AdminsKept DEF AccountsInv
<1>3. CASE Joins
    <2>1. ActiveAdmins' = ActiveAdmins
        BY <1>3, AdminsKept DEF AccountsInv
    <2> QED BY <1>3, <2>1 DEF Joins, Acting
<1>4. ASSUME NEW w \in Workers, Advances(w) PROVE ActingInv'
    <2>1. ActiveAdmins' = ActiveAdmins
        BY <1>2, <1>4 DEF Advances, Standing
    <2>2. Acting(w)'
        BY <1>4, <2>1 DEF Advances, Acting
    <2> QED BY <1>1, <1>4, <2>1, <2>2 DEF Advances
<1>5. ASSUME NEW w \in Workers, Saves(w) PROVE ActingInv'
    <2>1. \A v \in Workers : step'[v] \notin {"lock", "check", "save"}
        BY <1>5 DEF Saves, Others, AdminsApart
    <2> QED BY <2>1 DEF Acting
<1>6. ASSUME NEW w \in Workers, Writes(w) PROVE ActingInv'
    <2>1. ActiveAdmins' = ActiveAdmins
        BY <1>2, <1>6, WritesKeepStanding DEF CountInv, FreshCopies
    <2> QED BY <1>1, <1>6, <2>1 DEF Writes, Acting
<1>7. CASE UNCHANGED accountVars
    <2>1. ActiveAdmins' = ActiveAdmins
        BY <1>2, <1>7 DEF accountVars, Standing
    <2> QED BY <1>7, <2>1 DEF accountVars, Acting
<1> QED BY <1>3, <1>4, <1>5, <1>6, <1>7, Moves

\* A removal leaves the one who asks for it; an activation or a restoration leaves all.
LEMMA SaveLeavesActive ==
    ASSUME AccountsInv, NEW w \in Workers, Saves(w), Passed(w), Acting(w),
           ActiveAdmins # {}, req[w].op # "role"
    PROVE  ActiveAdmins' # {}
<1> DEFINE t == req[w].target
<1>1. t \in Users /\ user[t] \in FullRows /\ req[w].op \in AdminOps
    BY SaveRows DEF Saves
<1>2. user'[t] = Saved(w, user[t]) /\ \A u \in Users : u # t => user'[u] = user[u]
    BY OneRow
<1>3. \A u \in ActiveAdmins : u # t => u \in ActiveAdmins'
    BY <1>2 DEF ActiveAdmins, Admins, Visible, Registered
<1>4. Allowed(w)
    BY <1>1 DEF Passed, Saves
<1>5. CASE req[w].op \in {"delete", "deactivate"}
    <2>1. req[w].actor \in ActiveAdmins /\ req[w].actor # t
        BY <1>4, <1>5 DEF Allowed, Acting, Saves
    <2> QED BY <1>3, <2>1
<1>6. CASE req[w].op \in {"activate", "restore"}
    <2>1. t \in ActiveAdmins =>
             user'[t].role = "ADMIN" /\ ~user'[t].deleted /\ user'[t].active
        BY <1>1, <1>2, <1>6 DEF Saved, FullRows, ActiveAdmins, Admins, Visible
    <2>2. t \in ActiveAdmins => t \in ActiveAdmins'
        BY <1>1, <2>1 DEF ActiveAdmins, Admins, Visible, Registered
    <2> QED BY <1>3, <2>2
<1> QED BY <1>1, <1>5, <1>6 DEF AdminOps

\* Deactivating and deleting administrators always leaves one who can log in
\* (users/services.py 33-52): whoever asks is one and may not name the own account.
\* It takes that administrators' services do not overlap: the one who asks may lose
\* the role before the request is through.
THEOREM RemovalsLeaveAnAdmin ==
    AccountsSpec /\ []AdminsApart /\ []CopiesApart => RemovalLeavesAnAdmin
<1>1. AccountsInit => ActingInv
    BY DEF AccountsInit, ActingInv, Acting
<1>2. AdminsApart => SavesApart
    BY DEF AdminsApart, SavesApart
<1>3. AccountsInv /\ AccountsInv' /\ CountInv /\ SavesApart /\ CopiesApart
        /\ [AccountsNext]_accountVars => CountInv'
    BY CountStep
<1>4. AccountsInv /\ AccountsInv' /\ CountInv /\ ActingInv /\ AdminsApart
        /\ [AccountsNext]_accountVars => ActingInv'
    BY ActingStep
<1>5. ASSUME AccountsInv, AccountsInv', CountInv, ActingInv, [AccountsNext]_accountVars,
             ActiveAdmins # {}, ActiveAdmins' = {}
      PROVE  \E w \in Workers : req[w].op = "role"
    <2>1. ~(Joins \/ \A u \in Users : Standing(user'[u], user[u]))
        BY <1>5, AdminsKept DEF AccountsInv
    <2>2. ASSUME NEW w \in Workers, Advances(w) PROVE FALSE
        BY <2>1, <2>2 DEF Advances, Standing
    <2>3. ASSUME NEW w \in Workers, Writes(w) PROVE FALSE
        BY <1>5, <2>1, <2>3, WritesKeepStanding DEF CountInv, FreshCopies
    <2>4. ASSUME NEW w \in Workers, Saves(w) PROVE req[w].op = "role"
        BY <1>5, <2>4, SaveLeavesActive DEF CountInv, ActingInv
    <2>5. ~UNCHANGED accountVars
        BY <2>1 DEF accountVars, Standing
    <2> QED BY <1>5, <2>1, <2>2, <2>3, <2>4, <2>5, Moves
<1>6. AccountsInv /\ AccountsInv' /\ CountInv /\ ActingInv /\ [AccountsNext]_accountVars =>
        [ActiveAdmins # {} /\ ActiveAdmins' = {} =>
            \E w \in Workers : req[w].op = "role"]_accountVars
    BY <1>5
<1> QED BY CountInit, <1>1, <1>2, <1>3, <1>4, <1>6, AccountsAreConsistent, PTL
        DEF AccountsSpec, RemovalLeavesAnAdmin

\* With one worker nothing overlaps, and all of it holds.
THEOREM OneByOne ==
    ASSUME \A v, w \in Workers : v = w
    PROVE  AccountsSpec => /\ []AdminRemains /\ []AddressProven
                           /\ DeletedUntilRestored /\ RemovalLeavesAnAdmin
<1>1. SavesApart /\ AdminsApart /\ WritesApart
    BY DEF SavesApart, AdminsApart, WritesApart
<1>2. CopiesApart
    BY DEF CopiesApart
<1> QED BY <1>1, <1>2, AdministratorRemains, AddressesAreProven, DeletedStayDeleted,
           RemovalsLeaveAnAdmin, PTL
=============================================================================
