---------------------------- MODULE RightsProofs ----------------------------
(***************************************************************************)
(* Theorems about Rights.tla: AccountsInv holds here too, and with it what *)
(* a lending or settling request may rely on.                              *)
(***************************************************************************)
EXTENDS Rights, AccountsProofs

DeskOps == {"lend", "return", "lost", "resolve"}

\* What the request of w has been granted so far: a borrower with a profile, whose
\* row was in good standing when it was locked; a caller with a role.
Granted(w) ==
    /\ req[w].op \in Ops \cup DeskOps
    /\ step[w] \in {"lock", "check", "save"} /\ req[w].op = "lend"
         => req[w].target \in profiles
    /\ step[w] = "save" /\ req[w].op = "lend"
         => copy[w].active /\ copy[w].verified # Unverified
    /\ step[w] = "settle"
         => req[w].record \in Records /\ req[w].role \in Roles

RecordsTyped ==
    record \in [Records -> {NoRecord} \cup [state  : {"out", "lost", "back"},
                                            member : Users]]

RightsInv ==
    /\ AccountsInv
    /\ \A w \in Workers : Granted(w)
    /\ RecordsTyped
    /\ BorrowersHaveProfile

LEMMA RightsInitHolds == RightsInit => RightsInv
<1> SUFFICES ASSUME RightsInit PROVE RightsInv
    OBVIOUS
<1>1. AccountsInv
    BY InitHolds DEF RightsInit
<1>2. \A w \in Workers : Granted(w)
    BY DEF RightsInit, AccountsInit, Granted, NoReq, Ops
<1>3. RecordsTyped /\ BorrowersHaveProfile
    BY DEF RightsInit, RecordsTyped, BorrowersHaveProfile
<1> QED BY <1>1, <1>2, <1>3 DEF RightsInv

-----------------------------------------------------------------------------
\* Workers that do nothing keep what they were granted.
LEMMA GrantedByOthers ==
    ASSUME RightsInv, NEW w \in Workers, profiles \subseteq profiles',
           \A v \in Workers \ {w} :
               step'[v] = step[v] /\ req'[v] = req[v] /\ copy'[v] = copy[v],
           Granted(w)'
    PROVE  \A v \in Workers : Granted(v)'
BY DEF RightsInv, Granted

LEMMA GrantedAtEnd ==
    ASSUME RightsInv, NEW w \in Workers, End(w), profiles \subseteq profiles'
    PROVE  \A v \in Workers : Granted(v)'
<1>1. step'[w] = "idle" /\ req'[w] = NoReq
    BY DEF RightsInv, AccountsInv, End
<1>2. Granted(w)'
    BY <1>1 DEF Granted, NoReq, Ops
<1>3. \A v \in Workers \ {w} :
         step'[v] = step[v] /\ req'[v] = req[v] /\ copy'[v] = copy[v]
    BY DEF RightsInv, AccountsInv, RowsTyped, End
<1> QED BY <1>2, <1>3, GrantedByOthers

LEMMA GrantedAtBegin ==
    ASSUME RightsInv, NEW w \in Workers, NEW first \in {"lock", "write", "settle"},
           NEW request, NEW object,
           Begin(w, first, request, object),
           request.op \in Ops \cup DeskOps,
           first = "lock" /\ request.op = "lend" => request.target \in profiles,
           first = "settle" => request.record \in Records /\ request.role \in Roles
    PROVE  \A v \in Workers : Granted(v)'
<1>1. step'[w] = first /\ req'[w] = request /\ profiles' = profiles
    BY DEF RightsInv, AccountsInv, Begin
<1>2. Granted(w)'
    BY <1>1 DEF Granted
<1>3. \A v \in Workers \ {w} :
         step'[v] = step[v] /\ req'[v] = req[v] /\ copy'[v] = copy[v]
    BY DEF RightsInv, AccountsInv, RowsTyped, Begin
<1> QED BY <1>1, <1>2, <1>3, GrantedByOthers

LEMMA GrantedAtLock ==
    ASSUME RightsInv, NEW w \in Workers, LockTarget(w)
    PROVE  \A v \in Workers : Granted(v)'
<1>1. CASE Reject(w)
    BY <1>1, GrantedAtEnd DEF Reject
<1>2. CASE /\ step' = [step EXCEPT ![w] = "check"]
           /\ copy' = [copy EXCEPT ![w] = user[req[w].target]]
           /\ UNCHANGED <<user, profiles, signedIn, req>>
    <2>1. step[w] = "lock" /\ step'[w] = "check" /\ req' = req /\ profiles' = profiles
        BY <1>2 DEF LockTarget, RightsInv, AccountsInv
    <2>2. Granted(w)'
        BY <2>1 DEF RightsInv, Granted
    <2>3. \A v \in Workers \ {w} :
             step'[v] = step[v] /\ req'[v] = req[v] /\ copy'[v] = copy[v]
        BY <1>2 DEF RightsInv, AccountsInv, RowsTyped
    <2> QED BY <2>1, <2>2, <2>3, GrantedByOthers
<1> QED BY <1>1, <1>2 DEF LockTarget, TargetRead

\* The tests are passed, for an administrator's service or for a borrower in good
\* standing.
LEMMA GrantedAtPass ==
    ASSUME RightsInv, NEW w \in Workers, step[w] = "check",
           step' = [step EXCEPT ![w] = "save"],
           UNCHANGED <<user, profiles, signedIn, req, copy>>,
           req[w].op = "lend" => copy[w].active /\ copy[w].verified # Unverified
    PROVE  \A v \in Workers : Granted(v)'
<1>1. step'[w] = "save"
    BY DEF RightsInv, AccountsInv
<1>2. Granted(w)'
    BY <1>1 DEF RightsInv, Granted
<1>3. \A v \in Workers \ {w} :
         step'[v] = step[v] /\ req'[v] = req[v] /\ copy'[v] = copy[v]
    BY DEF RightsInv, AccountsInv
<1> QED BY <1>2, <1>3, GrantedByOthers

\* Profiles only grow, so whoever has borrowed keeps one.
LEMMA RecordsKept ==
    ASSUME RightsInv, UNCHANGED record, profiles \subseteq profiles'
    PROVE  RecordsTyped' /\ BorrowersHaveProfile'
BY DEF RightsInv, RecordsTyped, BorrowersHaveProfile

-----------------------------------------------------------------------------
\* The account services keep AccountsInv, and what was granted.
LEMMA AccountStep ==
    ASSUME RightsInv, AccountNext
    PROVE  AccountsInv' /\ (\A v \in Workers : Granted(v)') /\ profiles \subseteq profiles'
<1>1. AccountsInv
    BY DEF RightsInv
<1>2. CASE Registration
    <2>1. PICK u \in Users, e \in Emails : Register(u, e)
        BY <1>2 DEF Registration
    <2>2. AccountsInv'
        BY <1>1, <2>1, RegisterStep
    <2> QED BY <2>1, <2>2 DEF Register, RightsInv, Granted
<1>3. ASSUME NEW u \in Users, Login(u)
      PROVE  AccountsInv' /\ (\A v \in Workers : Granted(v)') /\ profiles \subseteq profiles'
    <2>1. AccountsInv'
        BY <1>1, <1>3, LoginStep
    <2> QED BY <1>3, <2>1 DEF Login, RightsInv, Granted
<1>4. ASSUME NEW w \in Workers, Write(w)
      PROVE  AccountsInv' /\ (\A v \in Workers : Granted(v)') /\ profiles \subseteq profiles'
    <2>1. AccountsInv'
        BY <1>1, <1>4, WriteStep
    <2>2. End(w) /\ profiles' = profiles
        BY <1>4 DEF Write, Reject
    <2> QED BY <2>1, <2>2, GrantedAtEnd
<1>5. ASSUME NEW w \in Workers, NEW u \in Users, NEW op \in {"whole", "verify"},
             Registered(u), Begin(w, "write", [op |-> op, target |-> u], user[u])
      PROVE  AccountsInv' /\ (\A v \in Workers : Granted(v)') /\ profiles \subseteq profiles'
    <2> DEFINE request == [op |-> op, target |-> u]
    <2>1. AccountsInv'
        BY <1>1, <1>5, CopyStep
    <2>2. request.op \in Ops
        BY DEF Ops
    <2>3. profiles' = profiles /\ Begin(w, "write", request, user[u])
        BY <1>5 DEF Begin
    <2> HIDE DEF request
    <2> QED BY <2>1, <2>2, <2>3, GrantedAtBegin
<1>6. ASSUME NEW w \in Workers, NEW a \in Users, NEW u \in Users, NEW op \in AdminOps,
             NEW role \in Roles, StartAdmin(w, a, u, op, role)
      PROVE  AccountsInv' /\ (\A v \in Workers : Granted(v)') /\ profiles \subseteq profiles'
    <2> DEFINE request == [op |-> op, actor |-> a, target |-> u, role |-> role]
    <2>1. AccountsInv'
        BY <1>1, <1>6, StartAdminStep
    <2>2. request.op \in Ops /\ request.op # "lend"
        BY DEF Ops, AdminOps
    <2>3. profiles' = profiles /\ Begin(w, "lock", request, NoUser)
        BY <1>6 DEF StartAdmin, Begin
    <2> HIDE DEF request
    <2> QED BY <2>1, <2>2, <2>3, GrantedAtBegin
<1>7. ASSUME NEW w \in Workers, LockTarget(w)
      PROVE  AccountsInv' /\ (\A v \in Workers : Granted(v)') /\ profiles \subseteq profiles'
    <2>1. AccountsInv'
        BY <1>1, <1>7, LockStep
    <2>2. profiles' = profiles
        BY <1>7 DEF LockTarget, TargetRead, Reject
    <2> QED BY <1>7, <2>1, <2>2, GrantedAtLock
<1>8. ASSUME NEW w \in Workers, Check(w)
      PROVE  AccountsInv' /\ (\A v \in Workers : Granted(v)') /\ profiles \subseteq profiles'
    <2>1. AccountsInv' /\ profiles' = profiles
        BY <1>1, <1>8, CheckStep DEF Check, Reject
    <2>2. CASE Reject(w)
        BY <2>1, <2>2, GrantedAtEnd DEF Reject
    <2>3. CASE /\ step' = [step EXCEPT ![w] = "save"]
               /\ UNCHANGED <<user, profiles, signedIn, req, copy>>
        BY <1>8, <2>1, <2>3, GrantedAtPass DEF Check, AdminOps
    <2> QED BY <1>8, <2>1, <2>2, <2>3 DEF Check
<1>9. ASSUME NEW w \in Workers, Save(w)
      PROVE  AccountsInv' /\ (\A v \in Workers : Granted(v)') /\ profiles \subseteq profiles'
    <2>1. AccountsInv'
        BY <1>1, <1>9, SaveStep
    <2>2. End(w) /\ profiles \subseteq profiles'
        BY <1>9 DEF Save, ProfilesAfter
    <2> QED BY <2>1, <2>2, GrantedAtEnd
<1>10. ASSUME NEW w \in Workers, Abort(w)
      PROVE  AccountsInv' /\ (\A v \in Workers : Granted(v)') /\ profiles \subseteq profiles'
    <2>1. Reject(w)
        BY <1>10 DEF Abort
    <2> QED BY <1>1, <2>1, RejectStep, GrantedAtEnd DEF Reject
<1>11. CASE AdminNext
    BY <1>6, <1>7, <1>8, <1>9, <1>10, <1>11 DEF AdminNext
<1> QED BY <1>2, <1>3, <1>4, <1>5, <1>11
        DEF AccountNext, StartChangePassword, StartVerify, Authenticated, Visible

\* A borrower exists and has a profile: a member borrows for itself, and whoever
\* staff lends to was a member when it was looked up.
LEMMA LendStep ==
    ASSUME RightsInv, NEW w \in Workers, NEW a \in Users, NEW m \in Users,
           StartLend(w, a, m)
    PROVE  RightsInv'
<1> DEFINE request == [op |-> "lend", target |-> m]
<1>1. Registered(m) /\ user[m].role = "MEMBER"
    BY DEF StartLend, Authenticated, Resolves, Visible
<1>2. m \in profiles
    BY <1>1 DEF RightsInv, AccountsInv, Sound
<1>3. request.op = "lend" /\ request.target = m
    OBVIOUS
<1>4. Begin(w, "lock", request, NoUser) /\ UNCHANGED record /\ profiles' = profiles
      /\ AccountsInv /\ NoUser \in UserRows
    BY DEF StartLend, Begin, RightsInv, UserRows
<1> HIDE DEF request
<1>5. AccountsInv'
    BY <1>1, <1>3, <1>4, BeginStep
<1>6. \A v \in Workers : Granted(v)'
    BY <1>2, <1>3, <1>4, GrantedAtBegin DEF DeskOps
<1> QED BY <1>4, <1>5, <1>6, RecordsKept DEF RightsInv

LEMMA BorrowerStep ==
    ASSUME RightsInv, NEW w \in Workers, CheckBorrower(w)
    PROVE  RightsInv'
<1>1. AccountsInv /\ UNCHANGED record /\ profiles' = profiles
    BY DEF RightsInv, CheckBorrower, Reject
<1>2. CASE Reject(w)
    BY <1>1, <1>2, RejectStep, GrantedAtEnd, RecordsKept DEF Reject, RightsInv
<1>3. CASE /\ copy[w].active /\ copy[w].verified # Unverified
           /\ step' = [step EXCEPT ![w] = "save"]
           /\ UNCHANGED <<user, profiles, signedIn, req, copy>>
    <2>1. AccountsInv'
        BY <1>1, <1>3, PassStep DEF CheckBorrower
    <2>2. \A v \in Workers : Granted(v)'
        BY <1>3, GrantedAtPass DEF CheckBorrower
    <2> QED BY <1>1, <2>1, <2>2, RecordsKept DEF RightsInv
<1> QED BY <1>2, <1>3 DEF CheckBorrower

\* What InsertRecord adds, and that nothing stands in its way.
LEMMA InsertStep ==
    ASSUME RightsInv, NEW w \in Workers, InsertRecord(w)
    PROVE  RightsInv'
<1>1. step[w] = "save" /\ req[w].op = "lend" /\ Reject(w) /\ AccountsInv
      /\ profiles' = profiles
    BY DEF InsertRecord, RightsInv, Reject
<1>2. AccountsInv' /\ \A v \in Workers : Granted(v)'
    BY <1>1, RejectStep, GrantedAtEnd DEF Reject
<1>3. req[w].target \in Users /\ req[w].target \in profiles
    BY <1>1 DEF RightsInv, AccountsInv, Serving, Granted
<1>4. PICK r \in Records :
        record' = [record EXCEPT ![r] = [state |-> "out", member |-> req[w].target]]
    BY DEF InsertRecord
<1>5. RecordsTyped'
    BY <1>3, <1>4 DEF RightsInv, RecordsTyped
<1>6. BorrowersHaveProfile'
    BY <1>1, <1>3, <1>4 DEF RightsInv, RecordsTyped, BorrowersHaveProfile
<1> QED BY <1>2, <1>5, <1>6 DEF RightsInv

\* A request to settle a record starts with the caller's role of that moment.
LEMMA SettleBegins ==
    ASSUME RightsInv, NEW w \in Workers, NEW a \in Users, NEW s \in Records,
           NEW op \in DeskOps, Authenticated(a), UNCHANGED record,
           Begin(w, "settle", [op |-> op, actor |-> a, role |-> user[a].role,
                               record |-> s], NoUser)
    PROVE  RightsInv'
<1> DEFINE request == [op |-> op, actor |-> a, role |-> user[a].role, record |-> s]
<1>1. user[a].role \in Roles
    BY DEF Authenticated, Visible, Registered, RightsInv, AccountsInv, RowsTyped,
           UserRows, NoUser
<1>2. request.op = op /\ request.role = user[a].role /\ request.record = s
      /\ request.op \notin {"email"}
    BY DEF DeskOps
<1>3. Begin(w, "settle", request, NoUser) /\ profiles' = profiles /\ AccountsInv
      /\ NoUser \in UserRows
    BY DEF Begin, RightsInv, UserRows
<1> HIDE DEF request
<1>4. AccountsInv'
    BY <1>1, <1>2, <1>3, BeginStep
<1>5. \A v \in Workers : Granted(v)'
    BY <1>1, <1>2, <1>3, GrantedAtBegin
<1> QED BY <1>3, <1>4, <1>5, RecordsKept DEF RightsInv

LEMMA SettleStep ==
    ASSUME RightsInv, NEW w \in Workers, SettleRecord(w)
    PROVE  RightsInv'
<1>1. Reject(w) /\ AccountsInv /\ profiles' = profiles /\ step[w] = "settle"
    BY DEF SettleRecord, RightsInv, Reject
<1>2. AccountsInv' /\ \A v \in Workers : Granted(v)'
    BY <1>1, RejectStep, GrantedAtEnd DEF Reject
<1>3. req[w].record \in Records
    BY <1>1 DEF RightsInv, Granted
<1>4. CASE UNCHANGED record
    BY <1>1, <1>2, <1>4, RecordsKept DEF RightsInv
<1>5. CASE /\ record[req[w].record] # NoRecord
           /\ record' = [record EXCEPT ![req[w].record].state = After(req[w].op)]
    <2>1. RecordsTyped'
        BY <1>3, <1>5 DEF RightsInv, RecordsTyped, After
    <2>2. BorrowersHaveProfile'
        BY <1>1, <1>3, <1>5 DEF RightsInv, RecordsTyped, BorrowersHaveProfile
    <2> QED BY <1>2, <2>1, <2>2 DEF RightsInv
<1> QED BY <1>4, <1>5 DEF SettleRecord

LEMMA RightsStep ==
    ASSUME RightsInv, [RightsNext]_rightsVars
    PROVE  RightsInv'
<1>1. CASE UNCHANGED rightsVars
    BY <1>1, UnchangedHolds
       DEF rightsVars, accountVars, RightsInv, Granted, RecordsTyped, BorrowersHaveProfile
<1>2. CASE AccountNext /\ UNCHANGED record
    BY <1>2, AccountStep, RecordsKept DEF RightsInv
<1>3. CASE DeskNext
    <2>1. ASSUME NEW w \in Workers, NEW a \in Users, NEW r \in Records, NEW s \in Records,
                 StartReturn(w, a, r, s) \/ StartLegacyReturn(w, a, s)
          PROVE  RightsInv'
        BY <2>1, SettleBegins DEF StartReturn, StartLegacyReturn, DeskOps
    <2>2. ASSUME NEW w \in Workers, NEW a \in Users, NEW r \in Records,
                 NEW op \in {"lost", "resolve"}, StartDesk(w, a, r, op)
          PROVE  RightsInv'
        BY <2>2, SettleBegins DEF StartDesk, DeskOps
    <2> QED BY <1>3, <2>1, <2>2, LendStep, BorrowerStep, InsertStep, SettleStep DEF DeskNext
<1> QED BY <1>1, <1>2, <1>3 DEF RightsNext

-----------------------------------------------------------------------------
\* Accounts, requests and records stay consistent when account services and
\* circulation overlap.
THEOREM RightsAreConsistent == RightsSpec => []RightsInv
BY RightsInitHolds, RightsStep, PTL DEF RightsSpec

\* Every record was lent to an account with a profile (borrowing/services.py 43).
THEOREM BorrowersKeepProfiles == RightsSpec => []BorrowersHaveProfile
<1>1. RightsInv => BorrowersHaveProfile
    BY DEF RightsInv
<1> QED BY <1>1, RightsAreConsistent, PTL

\* Rows, copies, requests and records are well typed in every reachable state.
THEOREM RightsTyped == RightsSpec => []RightsTypeOK
<1>1. RightsInv => RightsTypeOK
    BY DEF RightsInv, AccountsInv, Granted, RecordsTyped, RightsTypeOK, Steps, DeskOps
<1> QED BY <1>1, RightsAreConsistent, PTL

\* What Accounts promises of its rows holds with circulation beside it: no deleted
\* account is active, staff are the administrators, members have profiles.
THEOREM RowsStayConsistent ==
    RightsSpec => [](DeletedIsInactive /\ StaffIffAdmin /\ MembersHaveProfile)
<1>1. RightsInv => DeletedIsInactive /\ StaffIffAdmin /\ MembersHaveProfile
    BY DEF RightsInv, AccountsInv, Sound, DeletedIsInactive, StaffIffAdmin,
           MembersHaveProfile
<1> QED BY <1>1, RightsAreConsistent, PTL

\* Only InsertRecord makes a record.
LEMMA OnlyInsert ==
    ASSUME RightsInv, RightsNext, NEW r \in Records,
           record[r] = NoRecord, record'[r] # NoRecord
    PROVE  \E w \in Workers : /\ step[w] = "save" /\ req[w].op = "lend"
                              /\ record'[r].member = req[w].target
<1>1. record'[r] # record[r] /\ record \in [Records -> {NoRecord} \cup
         [state : {"out", "lost", "back"}, member : Users]]
    BY DEF RightsInv, RecordsTyped
<1>2. ~(UNCHANGED record)
    BY <1>1
<1>3. ASSUME NEW w \in Workers, SettleRecord(w) PROVE FALSE
    BY <1>1, <1>2, <1>3 DEF SettleRecord
<1>4. \E w \in Workers : InsertRecord(w)
    BY <1>2, <1>3
       DEF RightsNext, DeskNext, StartLend, CheckBorrower, StartReturn,
           StartLegacyReturn, StartDesk
<1>5. PICK w \in Workers : InsertRecord(w)
    BY <1>4
<1>6. PICK s \in Records :
        record' = [record EXCEPT ![s] = [state |-> "out", member |-> req[w].target]]
    BY <1>5 DEF InsertRecord
<1>7. s = r /\ record'[r].member = req[w].target
    BY <1>1, <1>6
<1> QED BY <1>5, <1>7 DEF InsertRecord

\* A title is lent only to an account that may borrow at that very moment
\* (borrowing/services.py 112-117).
THEOREM LentWhenInGoodStanding == RightsSpec => LentInGoodStanding
<1> DEFINE LentStep ==
      \A r \in Records : record[r] = NoRecord /\ record'[r] # NoRecord =>
          LET u == record'[r].member IN
          Visible(u) /\ user[u].active /\ user[u].verified # Unverified
<1>1. RightsInv /\ [RightsNext]_rightsVars => [LentStep]_rightsVars
    <2> SUFFICES ASSUME RightsInv, RightsNext, NEW r \in Records,
                        record[r] = NoRecord, record'[r] # NoRecord
                 PROVE  LET u == record'[r].member IN
                        Visible(u) /\ user[u].active /\ user[u].verified # Unverified
        OBVIOUS
    <2>1. PICK w \in Workers : /\ step[w] = "save" /\ req[w].op = "lend"
                               /\ record'[r].member = req[w].target
        BY OnlyInsert
    <2>2. PICK u \in Users : u = req[w].target
        BY <2>1 DEF RightsInv, AccountsInv, Serving
    <2>3. Registered(u) /\ copy[w] = user[u]
        BY <2>1, <2>2 DEF RightsInv, AccountsInv, Serving, Holding
    <2>4. user[u].active /\ user[u].verified # Unverified
        BY <2>1, <2>3 DEF RightsInv, Granted
    <2>5. ~user[u].deleted
        BY <2>4 DEF RightsInv, AccountsInv, Sound
    <2> QED BY <2>1, <2>2, <2>3, <2>4, <2>5 DEF Visible
<1> QED BY <1>1, RightsAreConsistent, PTL DEF RightsSpec, LentInGoodStanding

\* A record is moved in a request of its owner or of staff (borrowing/services.py
\* 188, borrowing/permissions.py).
THEOREM RecordsMoveByRight == RightsSpec => MovedByRight
<1> DEFINE MovedStep ==
      \A r \in Records : record[r] # NoRecord /\ record'[r] # record[r] =>
          \E w \in Workers :
             /\ step[w] = "settle" /\ step'[w] = "idle" /\ req[w].record = r
             /\ IsStaff(req[w].role) \/ req[w].actor = record[r].member
<1>1. RightsInv /\ [RightsNext]_rightsVars => [MovedStep]_rightsVars
    <2> SUFFICES ASSUME RightsInv, RightsNext, NEW r \in Records,
                        record[r] # NoRecord, record'[r] # record[r]
                 PROVE  \E w \in Workers :
                          /\ step[w] = "settle" /\ step'[w] = "idle"
                          /\ req[w].record = r
                          /\ IsStaff(req[w].role) \/ req[w].actor = record[r].member
        OBVIOUS
    <2>1. ASSUME NEW w \in Workers, InsertRecord(w) PROVE FALSE
        BY <2>1 DEF InsertRecord, RightsInv, RecordsTyped
    <2>2. PICK w \in Workers : SettleRecord(w)
        BY <2>1 DEF RightsNext, DeskNext, StartLend, CheckBorrower, StartReturn,
                    StartLegacyReturn, StartDesk
    <2>3. step[w] = "settle" /\ Reject(w) /\ req[w].record \in Records /\ req[w].role \in Roles
        BY <2>2 DEF SettleRecord, RightsInv, Granted
    <2>4. step'[w] = "idle"
        BY <2>3 DEF Reject, End, RightsInv, AccountsInv
    <2>5. req[w].record = r /\ Permits(w)
        BY <2>2, <2>3 DEF SettleRecord, RightsInv, RecordsTyped
    <2>6. IsStaff(req[w].role) \/ req[w].actor = record[r].member
        BY <2>3, <2>5 DEF Permits, IsStaff, Roles
    <2> QED BY <2>3, <2>4, <2>5, <2>6
<1> QED BY <1>1, RightsAreConsistent, PTL DEF RightsSpec, MovedByRight

-----------------------------------------------------------------------------
(***************************************************************************)
(* The role that is tested once.                                           *)
(***************************************************************************)

Lending(w) == step[w] \in {"lock", "check", "save"} /\ req[w].op = "lend"

\* The borrower of every lend under way is a member still.
LendingInv == \A w \in Workers : Lending(w) => user[req[w].target].role = "MEMBER"

\* A role is written by set_user_role, which holds the row, or with a whole copy,
\* which waits for whoever does.
LEMMA RoleWritten ==
    ASSUME RightsInv, RightsNext, NEW u \in Users, Registered(u),
           user'[u].role # user[u].role
    PROVE  \E v \in Workers :
             /\ req[v].target = u
             /\ \/ step[v] = "save" /\ req[v].op = "role"
                \/ step[v] = "write" /\ req[v].op = "whole" /\ ~Locked(u)
<1>1. user' # user
    OBVIOUS
<1>2. user \in [Users -> UserRows]
    BY DEF RightsInv, AccountsInv, RowsTyped
<1>3. ~DeskNext
    BY <1>1 DEF DeskNext, StartLend, CheckBorrower, InsertRecord, StartReturn,
           StartLegacyReturn, StartDesk, SettleRecord, Begin, Reject
<1>4. ASSUME NEW x \in Users, NEW e \in Emails, Register(x, e) PROVE FALSE
    BY <1>2, <1>4 DEF Register, Registered
<1>5. PICK v \in Workers : Save(v) \/ Write(v)
    BY <1>1, <1>3, <1>4
       DEF RightsNext, AccountNext, Registration, AdminNext, Login, StartChangePassword,
           StartVerify, StartAdmin, LockTarget, TargetRead, Check, Abort, Begin, Reject
<1>6. CASE Save(v)
    <2>1. req[v].target = u /\ user'[u] = Saved(v, user[u]) /\ req[v].op \in AdminOps
        BY <1>2, <1>6 DEF Save
    <2>2. user[u] \in FullRows
        BY <1>2 DEF Registered, UserRows, NoUser, FullRows
    <2>3. req[v].op = "role"
        BY <2>1, <2>2 DEF Saved, AdminOps, FullRows
    <2> QED BY <1>6, <2>1, <2>3 DEF Save
<1>7. CASE Write(v)
    <2>1. req[v].target = u /\ user'[u] = Written(v, user[u]) /\ step[v] = "write" /\ ~Locked(u)
        BY <1>1, <1>2, <1>7 DEF Write, Reject
    <2>2. user[u] \in FullRows
        BY <1>2 DEF Registered, UserRows, NoUser, FullRows
    <2>3. req[v].op \in {"whole", "email", "verify"}
        BY <2>1 DEF RightsInv, AccountsInv, Serving
    <2>4. req[v].op = "whole"
        BY <2>1, <2>2, <2>3 DEF Written, FullRows
    <2> QED BY <2>1, <2>4
<1> QED BY <1>5, <1>6, <1>7

\* A lend starts with a member, or goes on with the same request.
LEMMA LendGoesOn ==
    ASSUME RightsInv, RightsNext, NEW w \in Workers, Lending(w)'
    PROVE  \/ Lending(w) /\ req'[w] = req[w]
           \/ user' = user /\ user[req'[w].target].role = "MEMBER"
<1>0. /\ step \in [Workers -> Steps]
      /\ req = [v \in Workers |-> req[v]]
      /\ step'[w] \in {"lock", "check", "save"} /\ req'[w].op = "lend"
    BY DEF RightsInv, AccountsInv, Lending
<1>1. ASSUME NEW v \in Workers, End(v) PROVE step'[w] = step[w] /\ req'[w] = req[w]
    BY <1>0, <1>1 DEF End, NoReq
<1>2. ASSUME NEW v \in Workers, NEW first \in {"lock", "write", "settle"}, NEW request,
             NEW object, Begin(v, first, request, object),
             first # "lock" \/ request.op # "lend"
      PROVE  step'[w] = step[w] /\ req'[w] = req[w]
    BY <1>0, <1>2 DEF Begin
<1>3. CASE UNCHANGED <<step, req>>
    BY <1>3 DEF Lending
<1>4. ASSUME NEW v \in Workers, LockTarget(v) \/ Check(v) \/ CheckBorrower(v)
      PROVE  Lending(w) /\ req'[w] = req[w]
    <2>1. CASE Reject(v)
        BY <1>0, <1>1, <2>1 DEF Reject, Lending
    <2>2. CASE ~Reject(v)
        <3>1. /\ req' = req /\ step[v] \in {"lock", "check"}
              /\ \E next \in {"check", "save"} : step' = [step EXCEPT ![v] = next]
            BY <1>4, <2>2 DEF LockTarget, TargetRead, Check, CheckBorrower
        <3> QED BY <1>0, <3>1 DEF Lending
    <2> QED BY <2>1, <2>2
<1>5. ASSUME NEW v \in Workers, NEW a \in Users, NEW m \in Users, StartLend(v, a, m)
      PROVE  \/ Lending(w) /\ req'[w] = req[w]
             \/ user' = user /\ user[req'[w].target].role = "MEMBER"
    <2>1. user[m].role = "MEMBER"
        BY <1>5 DEF StartLend, Resolves
    <2>2. user' = user
        BY <1>5 DEF StartLend, Begin
    <2>3. CASE v = w
        BY <1>0, <1>5, <2>1, <2>2, <2>3 DEF StartLend, Begin
    <2>4. CASE v # w
        BY <1>0, <1>5, <2>4 DEF StartLend, Begin, Lending
    <2> QED BY <2>3, <2>4
<1>6. ASSUME NEW v \in Workers, InsertRecord(v) \/ SettleRecord(v) \/ Save(v) \/ Write(v) \/ Abort(v)
      PROVE  step'[w] = step[w] /\ req'[w] = req[w]
    <2>1. End(v)
        BY <1>6 DEF InsertRecord, SettleRecord, Save, Write, Abort, Reject
    <2> QED BY <2>1, <1>1
<1>7. ASSUME NEW v \in Workers, NEW a \in Users, NEW r \in Records, NEW s \in Records,
             NEW op \in {"lost", "resolve"},
             StartReturn(v, a, r, s) \/ StartLegacyReturn(v, a, s) \/ StartDesk(v, a, r, op)
      PROVE  step'[w] = step[w] /\ req'[w] = req[w]
    BY <1>2, <1>7 DEF StartReturn, StartLegacyReturn, StartDesk
<1>8. ASSUME NEW v \in Workers, NEW u \in Users, StartChangePassword(v, u) \/ StartVerify(v, u)
      PROVE  step'[w] = step[w] /\ req'[w] = req[w]
    BY <1>2, <1>8 DEF StartChangePassword, StartVerify
<1>9. ASSUME NEW v \in Workers, NEW a \in Users, NEW u \in Users, NEW op \in AdminOps,
             NEW role \in Roles, StartAdmin(v, a, u, op, role)
      PROVE  step'[w] = step[w] /\ req'[w] = req[w]
    <2> DEFINE request == [op |-> op, actor |-> a, target |-> u, role |-> role]
    <2>1. Begin(v, "lock", request, NoUser) /\ request.op # "lend"
        BY <1>9 DEF StartAdmin, AdminOps
    <2> HIDE DEF request
    <2> QED BY <2>1, <1>2
<1>10. CASE DeskNext
    BY <1>10, <1>4, <1>5, <1>6, <1>7 DEF DeskNext, Lending
<1>11. CASE AccountNext
    <2>1. CASE Registration \/ \E u \in Users : Login(u)
        BY <2>1, <1>3 DEF Registration, Register, Login
    <2>2. CASE AdminNext
        BY <2>2, <1>4, <1>6, <1>9 DEF AdminNext, Lending
    <2>3. ASSUME NEW v \in Workers,
                 Write(v) \/ \E u \in Users : StartChangePassword(v, u) \/ StartVerify(v, u)
          PROVE  Lending(w) /\ req'[w] = req[w]
        BY <2>3, <1>6, <1>8 DEF Lending
    <2> QED BY <1>11, <2>1, <2>2, <2>3 DEF AccountNext
<1> QED BY <1>10, <1>11 DEF RightsNext

LEMMA LendingStep ==
    ASSUME RightsInv, LendingInv, RolesApart, [RightsNext]_rightsVars
    PROVE  LendingInv'
<1>1. CASE UNCHANGED rightsVars
    BY <1>1 DEF rightsVars, accountVars, LendingInv, Lending
<1>2. CASE RightsNext
    <2> SUFFICES ASSUME NEW w \in Workers, Lending(w)'
                 PROVE  user'[req'[w].target].role = "MEMBER"
        BY DEF LendingInv
    <2>1. CASE user' = user /\ user[req'[w].target].role = "MEMBER"
        BY <2>1
    <2>2. CASE Lending(w) /\ req'[w] = req[w]
        <3>1. PICK u \in Users : u = req[w].target /\ Registered(u) /\ user[u].role = "MEMBER"
            BY <2>2 DEF Lending, LendingInv, RightsInv, AccountsInv, Serving
        <3>2. SUFFICES ASSUME user'[u].role # user[u].role PROVE FALSE
            BY <2>2, <3>1
        <3>3. PICK v \in Workers :
                 /\ req[v].target = u
                 /\ \/ step[v] = "save" /\ req[v].op = "role"
                    \/ step[v] = "write" /\ req[v].op = "whole" /\ ~Locked(u)
            BY <1>2, <3>1, <3>2, RoleWritten
        <3>4. CASE step[w] = "lock"
            BY <2>2, <3>1, <3>3, <3>4 DEF RolesApart, Lending
        <3>5. CASE step[w] \in {"check", "save"}
            <4>1. Locked(u) /\ v # w
                BY <2>2, <3>1, <3>3, <3>5 DEF Locked, Lending
            <4>2. step[v] # "save"
                BY <3>1, <3>3, <3>5, <4>1 DEF RightsInv, AccountsInv, Apart
            <4> QED BY <3>3, <4>1, <4>2
        <3> QED BY <2>2, <3>4, <3>5 DEF Lending
    <2> QED BY <1>2, <2>1, <2>2, LendGoesOn
<1> QED BY <1>1, <1>2

\* A title is lent to a member (borrowing/models.py 29), unless the role is written
\* between the look at it and the lock of the row (borrowing/services.py 53-73, 112).
THEOREM MembersAreLentTo == RightsSpec /\ []RolesApart => LentToMembers
<1> DEFINE LentStep ==
      \A r \in Records : record[r] = NoRecord /\ record'[r] # NoRecord =>
          user[record'[r].member].role = "MEMBER"
<1>1. RightsInit => LendingInv
    BY DEF RightsInit, AccountsInit, LendingInv, Lending
<1>2. RightsInv /\ LendingInv /\ RolesApart /\ [RightsNext]_rightsVars => LendingInv'
    BY LendingStep
<1>3. RightsInv /\ LendingInv /\ [RightsNext]_rightsVars => [LentStep]_rightsVars
    <2> SUFFICES ASSUME RightsInv, LendingInv, RightsNext, NEW r \in Records,
                        record[r] = NoRecord, record'[r] # NoRecord
                 PROVE  user[record'[r].member].role = "MEMBER"
        OBVIOUS
    <2> QED BY OnlyInsert DEF LendingInv, Lending
<1> QED BY <1>1, <1>2, <1>3, RightsAreConsistent, PTL DEF RightsSpec, LentToMembers
=============================================================================
