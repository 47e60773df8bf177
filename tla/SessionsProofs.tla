--------------------------- MODULE SessionsProofs ---------------------------
(***************************************************************************)
(* Theorems about Sessions.tla, for every set of workers and tokens and    *)
(* every number of password changes and of links that are sent.            *)
(***************************************************************************)
EXTENDS Sessions, TLAPS

TokenRows == {NoToken} \cup [state    : {"live", "blacklisted"},
                             password : 0..MaxChanges]

SaveRequests ==
    [op : {"change", "reset"}, copy : Account, tokens : SUBSET Tokens]
        \cup [op : {"deactivate"}, tokens : SUBSET Tokens]

WriteRequests ==
    [op : {"verify"}]
        \cup [op : {"email"}, email : Emails, changed : BOOLEAN]
        \cup [op : {"whole"}, copy : Account]

\* Each worker's request fits the statement that comes next, and a new password
\* that waits to be committed has a number.
Asked(w) ==
    /\ step[w] \in {"rotate", "issue"} => req[w].password \in 0..MaxChanges
    /\ step[w] = "rotate" => req[w].token \in Tokens
    /\ step[w] \in {"save", "walk", "commit"} => req[w] \in SaveRequests
    /\ step[w] \in {"walk", "commit"} /\ req[w].op # "deactivate" => changes < MaxChanges
    /\ step[w] = "write" => req[w] \in WriteRequests

\* The row of the account is locked once.
OneHolder == \A v, w \in Workers : HoldsRow(v) /\ HoldsRow(w) => v = w

SessionInv ==
    /\ SessionTypeOK
    /\ \A w \in Workers : Asked(w)
    /\ OneHolder

-----------------------------------------------------------------------------
(***************************************************************************)
(* What a step of one worker, or of none, has to respect.                  *)
(***************************************************************************)

\* The worker that moves sets a password only while it holds the row, and takes the
\* row only when it is free.
LEMMA WorkerMoves ==
    ASSUME SessionInv, NEW w \in Workers, SessionTypeOK',
           \A v \in Workers \ {w} : step'[v] = step[v] /\ req'[v] = req[v],
           changes' = changes \/ HoldsRow(w),
           Asked(w)',
           HoldsRow(w)' => HoldsRow(w) \/ \A v \in Workers : ~HoldsRow(v)
    PROVE  SessionInv'
<1>1. ASSUME NEW v \in Workers \ {w} PROVE HoldsRow(v)' <=> HoldsRow(v)
    BY DEF HoldsRow
<1>2. ASSUME NEW v \in Workers \ {w} PROVE Asked(v)'
    <2>1. Asked(v) /\ step'[v] = step[v] /\ req'[v] = req[v]
        BY DEF SessionInv
    <2>2. step[v] \in {"walk", "commit"} => changes' = changes
        BY DEF SessionInv, OneHolder, HoldsRow
    <2> QED BY <2>1, <2>2 DEF Asked
<1>3. OneHolder'
    BY <1>1 DEF SessionInv, OneHolder
<1> QED BY <1>2, <1>3 DEF SessionInv

\* A request that nobody waits for.
LEMMA NobodyMoves ==
    ASSUME SessionInv, SessionTypeOK', UNCHANGED <<step, req, changes>>
    PROVE  SessionInv'
BY DEF SessionInv, Asked, OneHolder, HoldsRow

LEMMA FinishStep ==
    ASSUME SessionInv, NEW w \in Workers, Finish(w), SessionTypeOK',
           changes' = changes \/ HoldsRow(w)
    PROVE  SessionInv'
<1>1. step'[w] = "idle" /\ req'[w] = NoReq
      /\ \A v \in Workers \ {w} : step'[v] = step[v] /\ req'[v] = req[v]
    BY DEF SessionInv, SessionTypeOK, Finish
<1>2. Asked(w)' /\ ~HoldsRow(w)'
    BY <1>1 DEF Asked, HoldsRow
<1> QED BY <1>1, <1>2, WorkerMoves

LEMMA FinishTypes ==
    ASSUME SessionInv, NEW w \in Workers, Finish(w)
    PROVE  /\ step' \in [Workers -> {"idle", "mail", "rotate", "issue", "save", "walk",
                                     "commit", "write"}]
           /\ DOMAIN req' = Workers
BY DEF SessionInv, SessionTypeOK, Finish

LEMMA StartStep ==
    ASSUME SessionInv, NEW w \in Workers,
           NEW first \in {"rotate", "issue", "save", "write"},
           NEW request, Start(w, first, request),
           first \in {"rotate", "issue"} => request.password \in 0..MaxChanges,
           first = "rotate" => request.token \in Tokens,
           first = "save" => /\ request \in SaveRequests
                             /\ request.op = "deactivate" => RowFree,
           first = "write" => request \in WriteRequests
    PROVE  SessionInv'
<1>1. step'[w] = first /\ req'[w] = request /\ changes' = changes
      /\ \A v \in Workers \ {w} : step'[v] = step[v] /\ req'[v] = req[v]
    BY DEF SessionInv, SessionTypeOK, Start
<1>2. SessionTypeOK'
    BY DEF SessionInv, SessionTypeOK, Start
<1>3. Asked(w)'
    BY <1>1 DEF Asked
<1>4. HoldsRow(w)' => \A v \in Workers : ~HoldsRow(v)
    BY <1>1 DEF HoldsRow, RowFree
<1> QED BY <1>1, <1>2, <1>3, <1>4, WorkerMoves

-----------------------------------------------------------------------------
(***************************************************************************)
(* The statements of a worker, one by one.                                 *)
(***************************************************************************)

LEMMA BlacklistingTyped ==
    ASSUME SessionInv
    PROVE  /\ \A t \in Tokens : [token EXCEPT ![t].state = "blacklisted"] \in [Tokens -> TokenRows]
           /\ \A S : Blacklisted(S) \in [Tokens -> TokenRows]
<1>1. token \in [Tokens -> TokenRows]
    BY DEF SessionInv, SessionTypeOK, TokenRows
<1>2. 0 \in 0..MaxChanges
    BY SessionsAssumption
<1>3. \A t \in Tokens : [token[t] EXCEPT !.state = "blacklisted"] \in TokenRows
    BY <1>1, <1>2 DEF TokenRows, NoToken
<1>4. ASSUME NEW t \in Tokens
      PROVE  [token EXCEPT ![t].state = "blacklisted"] \in [Tokens -> TokenRows]
    BY <1>1, <1>3
<1>5. \A S : Blacklisted(S) \in [Tokens -> TokenRows]
    BY <1>1, <1>3 DEF Blacklisted
<1> QED BY <1>4, <1>5

\* What the links of a row hash.
LEMMA LinksTyped ==
    ASSUME NEW a \in Account
    PROVE  /\ VerifyLink(a) \in [password : 0..MaxChanges, email : Emails, verified : BOOLEAN]
           /\ ResetLink(a) \in [password : 0..MaxChanges, email : Emails, login : 0..MaxLogins]
BY DEF Account, VerifyLink, ResetLink

LEMMA MailStep ==
    ASSUME SessionInv, NEW w \in Workers, SendVerification(w) \/ Crash(w)
    PROVE  SessionInv'
<1>1. mailed' \subseteq [password : 0..MaxChanges, email : Emails, verified : BOOLEAN]
    BY LinksTyped DEF SendVerification, Crash, SessionInv, SessionTypeOK
<1>2. Finish(w) /\ UNCHANGED <<account, changes, used, token>>
    BY DEF SendVerification, Crash
<1>3. SessionTypeOK'
    BY <1>1, <1>2, FinishTypes DEF SessionInv, SessionTypeOK
<1> QED BY <1>2, <1>3, FinishStep

LEMMA IssueStep ==
    ASSUME SessionInv, NEW w \in Workers, IssueToken(w)
    PROVE  SessionInv'
<1>1. PICK t \in Tokens :
        token' = [token EXCEPT ![t] = [state |-> "live", password |-> req[w].password]]
    BY DEF IssueToken
<1>2. req[w].password \in 0..MaxChanges
    BY DEF SessionInv, Asked, IssueToken
<1>3. token' \in [Tokens -> TokenRows]
    BY <1>1, <1>2 DEF SessionInv, SessionTypeOK, TokenRows
<1>4. Finish(w) /\ UNCHANGED <<account, changes, mailed, used>>
    BY DEF IssueToken
<1>5. SessionTypeOK'
    BY <1>3, <1>4, FinishTypes DEF SessionInv, SessionTypeOK, TokenRows
<1> QED BY <1>4, <1>5, FinishStep

LEMMA RotateStep ==
    ASSUME SessionInv, NEW w \in Workers, Rotate(w)
    PROVE  SessionInv'
<1>1. req[w].token \in Tokens /\ req[w].password \in 0..MaxChanges
    BY DEF SessionInv, Asked, Rotate
<1>2. token' \in [Tokens -> TokenRows]
    BY <1>1, BlacklistingTyped DEF Rotate
<1>3. step'[w] = "issue" /\ req' = req /\ account' = account /\ changes' = changes
      /\ \A v \in Workers \ {w} : step'[v] = step[v]
    BY DEF SessionInv, SessionTypeOK, Rotate
<1>4. SessionTypeOK'
    BY <1>2, <1>3 DEF SessionInv, SessionTypeOK, Rotate, TokenRows
<1>5. Asked(w)' /\ ~HoldsRow(w)'
    BY <1>1, <1>3 DEF Asked, HoldsRow
<1> QED BY <1>3, <1>4, <1>5, WorkerMoves

LEMMA SaveStep ==
    ASSUME SessionInv, NEW w \in Workers, SaveAccount(w)
    PROVE  SessionInv'
<1>1. step'[w] = "walk" /\ req' = req /\ changes' = changes
      /\ \A v \in Workers \ {w} : step'[v] = step[v]
    BY DEF SessionInv, SessionTypeOK, SaveAccount
<1>2. SessionTypeOK'
    BY DEF SessionInv, SessionTypeOK, SaveAccount
<1>3. Asked(w)'
    BY <1>1 DEF SessionInv, Asked, SaveAccount
<1>4. HoldsRow(w) \/ \A v \in Workers : ~HoldsRow(v)
    BY DEF SaveAccount, RowFreeFor
<1> QED BY <1>1, <1>2, <1>3, <1>4, WorkerMoves

\* The walk leaves the rest of the request alone.
LEMMA WalkKeeps ==
    ASSUME SessionInv, NEW w \in Workers, Walk(w)
    PROVE  /\ step'[w] = "commit" /\ req'[w] \in SaveRequests
           /\ req'[w].op = req[w].op /\ req'[w].tokens = Live
           /\ req[w].op # "deactivate" => req'[w].copy = req[w].copy
           /\ \A v \in Workers \ {w} : step'[v] = step[v] /\ req'[v] = req[v]
<1>1. req[w] \in SaveRequests
    BY DEF SessionInv, Asked, Walk
<1>2. req'[w] = [req[w] EXCEPT !.tokens = Live] /\ Live \in SUBSET Tokens
    BY DEF SessionInv, SessionTypeOK, Walk, Live
<1>3. CASE req[w] \in [op : {"change", "reset"}, copy : Account, tokens : SUBSET Tokens]
    <2>1. req'[w] \in [op : {"change", "reset"}, copy : Account, tokens : SUBSET Tokens]
          /\ req'[w].op = req[w].op /\ req'[w].copy = req[w].copy /\ req'[w].tokens = Live
        BY <1>2, <1>3
    <2> QED BY <2>1 DEF SessionInv, SessionTypeOK, Walk, SaveRequests
<1>4. CASE req[w] \in [op : {"deactivate"}, tokens : SUBSET Tokens]
    <2>1. req'[w] \in [op : {"deactivate"}, tokens : SUBSET Tokens]
          /\ req'[w].op = req[w].op /\ req'[w].tokens = Live /\ req[w].op = "deactivate"
        BY <1>2, <1>4
    <2> QED BY <2>1 DEF SessionInv, SessionTypeOK, Walk, SaveRequests
<1> QED BY <1>1, <1>3, <1>4 DEF SaveRequests

LEMMA WalkStep ==
    ASSUME SessionInv, NEW w \in Workers, Walk(w)
    PROVE  SessionInv'
<1>1. SessionTypeOK' /\ changes' = changes
    BY DEF SessionInv, SessionTypeOK, Walk
<1>2. Asked(w)' /\ HoldsRow(w)
    BY WalkKeeps DEF SessionInv, Asked, Walk, HoldsRow
<1> QED BY <1>1, <1>2, WalkKeeps, WorkerMoves

LEMMA CommitStep ==
    ASSUME SessionInv, NEW w \in Workers, Commit(w)
    PROVE  SessionInv'
<1>1. token' \in [Tokens -> TokenRows]
    BY BlacklistingTyped DEF Commit
<1>2. account \in Account /\ changes \in 0..MaxChanges
    BY DEF SessionInv, SessionTypeOK
<1>3. req[w] \in SaveRequests /\ (req[w].op # "deactivate" => changes < MaxChanges)
    BY DEF SessionInv, Asked, Commit
<1>4. req[w].op # "deactivate" =>
        req[w].copy \in Account /\ changes + 1 \in 0..MaxChanges
    BY <1>2, <1>3, SessionsAssumption DEF SaveRequests
<1>5. account' \in Account /\ changes' \in 0..MaxChanges
    BY <1>2, <1>4 DEF Commit, SavedAccount, Account
<1>6. used' \subseteq [password : 0..MaxChanges, email : Emails, login : 0..MaxLogins]
    BY <1>4, LinksTyped DEF Commit, SessionInv, SessionTypeOK
<1>7. Finish(w) /\ mailed' = mailed /\ HoldsRow(w)
    BY DEF Commit, HoldsRow
<1>8. SessionTypeOK'
    BY <1>1, <1>5, <1>6, <1>7, FinishTypes DEF SessionInv, SessionTypeOK, TokenRows
<1> QED BY <1>7, <1>8, FinishStep

\* What a service writes that does not set a password is a row.
LEMMA WrittenTyped ==
    ASSUME SessionInv, NEW w \in Workers, step[w] = "write"
    PROVE  /\ WrittenAccount(w) \in Account
           /\ req[w].op = "verify" => WrittenAccount(w) = [account EXCEPT !.verified = TRUE]
           /\ req[w].op = "email" =>
                WrittenAccount(w) = [account EXCEPT !.email = req[w].email,
                                                    !.verified = @ /\ ~req[w].changed]
           /\ req[w].op = "whole" => WrittenAccount(w) = req[w].copy
           /\ req[w].op \in {"verify", "email", "whole"}
<1>1. account \in Account /\ req[w] \in WriteRequests
    BY DEF SessionInv, SessionTypeOK, Asked
<1>2. CASE req[w] \in [op : {"verify"}]
    BY <1>1, <1>2 DEF WrittenAccount, Account
<1>3. CASE req[w] \in [op : {"whole"}, copy : Account]
    BY <1>3 DEF WrittenAccount
<1>4. CASE req[w] \in [op : {"email"}, email : Emails, changed : BOOLEAN]
    <2>1. req[w].op = "email" /\ req[w].email \in Emails
        BY <1>4
    <2>2. WrittenAccount(w) = [account EXCEPT !.email = req[w].email,
                                              !.verified = @ /\ ~req[w].changed]
        BY <2>1 DEF WrittenAccount, NewAddress
    <2>3. [account EXCEPT !.email = req[w].email, !.verified = @ /\ ~req[w].changed] \in Account
        BY <1>1, <2>1 DEF Account
    <2> QED BY <2>1, <2>2, <2>3
<1> QED BY <1>1, <1>2, <1>3, <1>4 DEF WriteRequests

LEMMA WriteStep ==
    ASSUME SessionInv, NEW w \in Workers, Write(w)
    PROVE  SessionInv'
<1>1. account' \in Account
    BY WrittenTyped DEF Write
<1>2. step'[w] \in {"mail", "idle"} /\ changes' = changes
      /\ \A v \in Workers \ {w} : step'[v] = step[v] /\ req'[v] = req[v]
    BY DEF SessionInv, SessionTypeOK, Write
<1>3. SessionTypeOK'
    BY <1>1 DEF SessionInv, SessionTypeOK, Write
<1>4. Asked(w)' /\ ~HoldsRow(w)'
    BY <1>2 DEF Asked, HoldsRow
<1> QED BY <1>2, <1>3, <1>4, WorkerMoves

\* A request that starts, whichever it is.
Starts(w) ==
    \/ StartLogin(w) \/ StartChange(w) \/ StartReset(w) \/ StartDeactivate(w)
    \/ StartVerify(w) \/ StartPatchNothing(w)
    \/ \E e \in Emails : StartPatchEmail(w, e)
    \/ \E t \in Tokens : StartRefresh(w, t)

LEMMA RequestStarts ==
    ASSUME SessionInv, NEW w \in Workers, Starts(w)
    PROVE  SessionInv'
<1>0. account \in Account /\ account.password \in 0..MaxChanges /\ account.email \in Emails
      /\ token \in [Tokens -> TokenRows]
    BY DEF SessionInv, SessionTypeOK, Account, TokenRows
<1>1. CASE StartLogin(w)
    BY <1>0, <1>1, StartStep DEF StartLogin
<1>2. CASE StartChange(w) \/ StartReset(w) \/ StartDeactivate(w)
    <2>1. \A o \in {"change", "reset"} :
            [op |-> o, copy |-> account, tokens |-> {}] \in SaveRequests
        BY <1>0 DEF SaveRequests
    <2>2. [op |-> "deactivate", tokens |-> {}] \in SaveRequests
        BY DEF SaveRequests
    <2> QED BY <1>2, <2>1, <2>2, StartStep DEF StartChange, StartReset, StartDeactivate
<1>3. CASE StartVerify(w) \/ StartPatchNothing(w)
    <2>1. [op |-> "verify"] \in WriteRequests
          /\ [op |-> "whole", copy |-> account] \in WriteRequests
        BY <1>0 DEF WriteRequests
    <2> QED BY <1>3, <2>1, StartStep DEF StartVerify, StartPatchNothing
<1>4. ASSUME NEW e \in Emails, StartPatchEmail(w, e) PROVE SessionInv'
    <2>1. [op |-> "email", email |-> e, changed |-> e # account.email] \in WriteRequests
        BY DEF WriteRequests
    <2> QED BY <1>4, <2>1, StartStep DEF StartPatchEmail
<1>5. ASSUME NEW t \in Tokens, StartRefresh(w, t) PROVE SessionInv'
    <2>1. token[t].password \in 0..MaxChanges
        BY <1>0, <1>5 DEF StartRefresh, Live, TokenRows, NoToken
    <2> QED BY <1>5, <2>1, StartStep DEF StartRefresh
<1> QED BY <1>1, <1>2, <1>3, <1>4, <1>5 DEF Starts

LEMMA SessionNextStep ==
    ASSUME SessionInv, SessionNext
    PROVE  SessionInv'
<1>1. CASE EnterAdminSite \/ Activate
    <2>0. account \in Account
        BY DEF SessionInv, SessionTypeOK
    <2>1. account' \in Account
        <3>1. CASE Activate
            BY <2>0, <3>1 DEF Activate, Account
        <3>2. CASE EnterAdminSite
            <4>1. account.login + 1 \in 0..MaxLogins
                BY <2>0, <3>2, SessionsAssumption DEF EnterAdminSite, Account
            <4>2. account' = [account EXCEPT !.login = account.login + 1]
                BY <3>2 DEF EnterAdminSite
            <4> QED BY <2>0, <4>1, <4>2 DEF Account
        <3> QED BY <1>1, <3>1, <3>2
    <2>2. SessionTypeOK' /\ UNCHANGED <<step, req, changes>>
        BY <1>1, <2>1 DEF EnterAdminSite, Activate, SessionInv, SessionTypeOK
    <2> QED BY <2>2, NobodyMoves
<1>2. ASSUME NEW t \in Tokens, Logout(t) PROVE SessionInv'
    <2>1. token' \in [Tokens -> TokenRows]
        BY <1>2, BlacklistingTyped DEF Logout
    <2>2. SessionTypeOK'
        BY <1>2, <2>1 DEF SessionInv, SessionTypeOK, Logout, TokenRows
    <2> QED BY <1>2, <2>2, NobodyMoves DEF Logout
<1> QED BY <1>1, <1>2, RequestStarts, MailStep, IssueStep, RotateStep, SaveStep,
           WalkStep, CommitStep, WriteStep DEF SessionNext, Starts

LEMMA InitTyped == SessionInit => SessionInv
<1> SUFFICES ASSUME SessionInit PROVE SessionInv
    OBVIOUS
<1>1. PICK w \in Workers : step = [v \in Workers |-> IF v = w THEN "mail" ELSE "idle"]
    BY DEF SessionInit
<1>2. SessionTypeOK
    BY <1>1, SessionsAssumption DEF SessionInit, SessionTypeOK, Account, NoToken
<1>3. \A v \in Workers : Asked(v) /\ ~HoldsRow(v)
    BY <1>1 DEF Asked, HoldsRow
<1> QED BY <1>2, <1>3 DEF SessionInv, OneHolder

LEMMA StutterTyped == SessionInv /\ UNCHANGED sessionVars => SessionInv'
BY DEF SessionInv, SessionTypeOK, Asked, OneHolder, HoldsRow, sessionVars

\* Rows, tokens and requests stay consistent whatever overlaps, and the account's
\* row is locked by one worker at a time (users/services.py 109-198, 251-266).
THEOREM SessionsAreConsistent == SessionSpec => []SessionInv
<1>1. SessionInv /\ [SessionNext]_sessionVars => SessionInv'
    BY SessionNextStep, StutterTyped
<1> QED BY InitTyped, <1>1, PTL DEF SessionSpec

\* The account is a row, every token has a state and the number of a password that
\* existed, and links hash what an account can be.
THEOREM SessionsTyped == SessionSpec => []SessionTypeOK
BY SessionsAreConsistent, PTL DEF SessionInv

-----------------------------------------------------------------------------
(***************************************************************************)
(* What ends old sessions, and what keeps them.                            *)
(***************************************************************************)

\* Whoever is to get a token was tested against the present password, and whoever is
\* about to commit has found every token that lives.
Fresh(w) ==
    step[w] \in {"rotate", "issue"} =>
        req[w].password = account.password /\ account.active

Found(w) == step[w] = "commit" => Live \subseteq req[w].tokens

EndInv ==
    /\ OldSessionsEnd
    /\ \A w \in Workers : Fresh(w) /\ Found(w)

\* No token comes to life and the account keeps its password and its activity: then
\* only the worker that moves has something to show.
LEMMA EndKept ==
    ASSUME EndInv, NEW w \in Workers,
           \A v \in Workers \ {w} : step'[v] = step[v] /\ req'[v] = req[v],
           \A t \in Live' : t \in Live /\ token'[t].password = token[t].password,
           account'.password = account.password,
           account.active => account'.active,
           Fresh(w)', Found(w)'
    PROVE  EndInv'
<1>1. OldSessionsEnd'
    BY DEF EndInv, OldSessionsEnd
<1>2. \A v \in Workers \ {w} : Fresh(v)' /\ Found(v)'
    BY DEF EndInv, Fresh, Found
<1> QED BY <1>1, <1>2 DEF EndInv

LEMMA EndKeptByNobody ==
    ASSUME EndInv, UNCHANGED <<step, req>>,
           \A t \in Live' : t \in Live /\ token'[t].password = token[t].password,
           account'.password = account.password,
           account.active => account'.active
    PROVE  EndInv'
BY DEF EndInv, OldSessionsEnd, Fresh, Found

\* Blacklisting ends the sessions it names and touches nothing else.
LEMMA BlacklistingEnds ==
    ASSUME SessionInv
    PROVE  /\ \A t \in Tokens : token' = [token EXCEPT ![t].state = "blacklisted"] =>
                \A s \in Live' : s \in Live /\ token'[s].password = token[s].password
           /\ \A S : token' = Blacklisted(S) => Live' = Live \ S
<1>1. token \in [Tokens -> TokenRows]
    BY DEF SessionInv, SessionTypeOK, TokenRows
<1>2. \A t \in Tokens : token[t].state = "blacklisted" \/ token[t].state # "blacklisted"
    OBVIOUS
<1>3. \A t \in Tokens : [token[t] EXCEPT !.state = "blacklisted"].state = "blacklisted"
    BY <1>1 DEF TokenRows, NoToken
<1>4. ASSUME NEW t \in Tokens, token' = [token EXCEPT ![t].state = "blacklisted"]
      PROVE  \A s \in Live' : s \in Live /\ token'[s].password = token[s].password
    <2>1. token'[t].state = "blacklisted" /\ \A s \in Tokens \ {t} : token'[s] = token[s]
        BY <1>1, <1>3, <1>4
    <2> QED BY <2>1 DEF Live
<1>5. ASSUME NEW S, token' = Blacklisted(S) PROVE Live' = Live \ S
    BY <1>1, <1>3, <1>5 DEF Live, Blacklisted
<1> QED BY <1>4, <1>5

LEMMA EndIssue ==
    ASSUME SessionInv, EndInv, LoginsApart, NEW w \in Workers, IssueToken(w)
    PROVE  EndInv'
<1>1. PICK t \in Tokens :
        token' = [token EXCEPT ![t] = [state |-> "live", password |-> req[w].password]]
    BY DEF IssueToken
<1>2. \A s \in Tokens \ {t} : token'[s] = token[s]
    BY <1>1 DEF SessionInv, SessionTypeOK
<1>3. token'[t].password = account.password /\ account.active /\ account' = account
    BY <1>1 DEF SessionInv, SessionTypeOK, EndInv, Fresh, IssueToken
<1>4. OldSessionsEnd'
    BY <1>2, <1>3 DEF EndInv, OldSessionsEnd, Live
<1>5. step'[w] = "idle"
      /\ \A v \in Workers \ {w} : step'[v] = step[v] /\ req'[v] = req[v]
    BY DEF SessionInv, SessionTypeOK, IssueToken, Finish
<1>6. \A v \in Workers : step[v] # "commit"
    BY DEF LoginsApart, IssueToken
<1>7. \A v \in Workers : Fresh(v)' /\ Found(v)'
    BY <1>3, <1>5, <1>6 DEF EndInv, Fresh, Found
<1> QED BY <1>4, <1>7 DEF EndInv

LEMMA EndCommit ==
    ASSUME SessionInv, EndInv, LoginsApart, NEW w \in Workers, Commit(w)
    PROVE  EndInv'
<1>1. Live' = {}
    BY BlacklistingEnds DEF Commit, EndInv, Found
<1>2. step'[w] = "idle"
      /\ \A v \in Workers \ {w} : step'[v] = step[v] /\ req'[v] = req[v]
    BY DEF SessionInv, SessionTypeOK, Commit, Finish
<1>3. \A v \in Workers : step[v] \notin {"rotate", "issue"}
    BY DEF LoginsApart, Commit
<1>4. \A v \in Workers : Fresh(v)' /\ Found(v)'
    BY <1>1, <1>2, <1>3 DEF Fresh, Found
<1> QED BY <1>1, <1>4 DEF EndInv, OldSessionsEnd

\* A request that starts is fresh: a login is tested against the account, and a token
\* that is alive belongs to its present password.
LEMMA EndStarts ==
    ASSUME SessionInv, EndInv, NEW w \in Workers, Starts(w)
    PROVE  EndInv'
<1>1. ASSUME NEW first \in {"rotate", "issue", "save", "write"}, NEW request,
             Start(w, first, request),
             first \in {"rotate", "issue"} =>
                 request.password = account.password /\ account.active
      PROVE  EndInv'
    <2>1. step'[w] = first /\ req'[w] = request
          /\ \A v \in Workers \ {w} : step'[v] = step[v] /\ req'[v] = req[v]
        BY <1>1 DEF SessionInv, SessionTypeOK, Start
    <2>2. account' = account /\ token' = token
        BY <1>1 DEF Start
    <2>3. Fresh(w)' /\ Found(w)'
        BY <1>1, <2>1, <2>2 DEF Fresh, Found
    <2> QED BY <2>1, <2>2, <2>3, EndKept DEF Live
<1>2. CASE StartLogin(w)
    BY <1>1, <1>2 DEF StartLogin, MayLogIn
<1>3. CASE StartChange(w) \/ StartReset(w) \/ StartDeactivate(w)
    BY <1>1, <1>3 DEF StartChange, StartReset, StartDeactivate
<1>4. CASE StartVerify(w) \/ StartPatchNothing(w) \/ \E e \in Emails : StartPatchEmail(w, e)
    BY <1>1, <1>4 DEF StartVerify, StartPatchNothing, StartPatchEmail
<1>5. ASSUME NEW t \in Tokens, StartRefresh(w, t) PROVE EndInv'
    <2>1. token[t].password = account.password /\ account.active
        BY <1>5 DEF EndInv, OldSessionsEnd, StartRefresh
    <2> QED BY <1>1, <1>5, <2>1 DEF StartRefresh
<1> QED BY <1>2, <1>3, <1>4, <1>5 DEF Starts

LEMMA EndRotate ==
    ASSUME SessionInv, EndInv, NEW w \in Workers, Rotate(w)
    PROVE  EndInv'
<1>1. req[w].token \in Tokens
    BY DEF SessionInv, Asked, Rotate
<1>2. \A s \in Live' : s \in Live /\ token'[s].password = token[s].password
    BY <1>1, BlacklistingEnds DEF Rotate
<1>3. step'[w] = "issue" /\ req' = req /\ account' = account
      /\ \A v \in Workers \ {w} : step'[v] = step[v]
    BY DEF SessionInv, SessionTypeOK, Rotate
<1>4. Fresh(w)' /\ Found(w)'
    BY <1>3 DEF EndInv, Fresh, Found, Rotate
<1> QED BY <1>2, <1>3, <1>4, EndKept

\* Steps that neither issue a token nor change what a session rests on.
LEMMA EndOthers ==
    ASSUME SessionInv, EndInv, NEW w \in Workers,
           SendVerification(w) \/ Crash(w) \/ SaveAccount(w) \/ Walk(w)
    PROVE  EndInv'
<1>1. account' = account /\ token' = token
    BY DEF SendVerification, Crash, SaveAccount, Walk
<1>2. CASE Walk(w)
    <2>1. Fresh(w)' /\ Found(w)'
        BY <1>1, <1>2, WalkKeeps DEF Fresh, Found, Live
    <2> QED BY <1>1, <1>2, <2>1, WalkKeeps, EndKept DEF Live
<1>3. CASE SendVerification(w) \/ Crash(w) \/ SaveAccount(w)
    <2>1. \A v \in Workers \ {w} : step'[v] = step[v] /\ req'[v] = req[v]
        BY <1>3 DEF SessionInv, SessionTypeOK, SendVerification, Crash, SaveAccount, Finish
    <2>2. step'[w] \in {"idle", "walk"}
        BY <1>3 DEF SessionInv, SessionTypeOK, SendVerification, Crash, SaveAccount, Finish
    <2>3. Fresh(w)' /\ Found(w)'
        BY <2>2 DEF Fresh, Found
    <2> QED BY <1>1, <2>1, <2>3, EndKept DEF Live
<1> QED BY <1>2, <1>3

\* An edit that names its columns, or saves a fresh copy, keeps the password and the
\* activity.
LEMMA WriteKeeps ==
    ASSUME SessionInv, CopiesFresh, NEW w \in Workers, Write(w)
    PROVE  account'.password = account.password /\ account'.active = account.active
<1>1. account \in Account /\ step[w] = "write" /\ account' = WrittenAccount(w)
    BY DEF SessionInv, SessionTypeOK, Write
<1>2. req[w].op = "verify" \/ req[w].op = "email" \/ req[w].op = "whole"
    BY <1>1, WrittenTyped
<1>3. CASE req[w].op = "verify"
    <2>1. account' = [account EXCEPT !.verified = TRUE]
        BY <1>1, <1>3, WrittenTyped
    <2> QED BY <1>1, <2>1 DEF Account
<1>4. CASE req[w].op = "email"
    <2>1. account' = [account EXCEPT !.email = req[w].email,
                                     !.verified = @ /\ ~req[w].changed]
        BY <1>1, <1>4, WrittenTyped
    <2> QED BY <1>1, <2>1 DEF Account
<1>5. CASE req[w].op = "whole"
    <2>1. account' = account
        BY <1>1, <1>5, WrittenTyped DEF CopiesFresh
    <2> QED BY <2>1
<1> QED BY <1>2, <1>3, <1>4, <1>5

LEMMA EndWrite ==
    ASSUME SessionInv, EndInv, CopiesFresh, NEW w \in Workers, Write(w)
    PROVE  EndInv'
<1>1. token' = token
    BY DEF Write
<1>2. account'.password = account.password /\ account'.active = account.active
    BY WriteKeeps
<1>3. step'[w] \in {"mail", "idle"}
      /\ \A v \in Workers \ {w} : step'[v] = step[v] /\ req'[v] = req[v]
    BY DEF SessionInv, SessionTypeOK, Write
<1>4. Fresh(w)' /\ Found(w)'
    BY <1>3 DEF Fresh, Found
<1> QED BY <1>1, <1>2, <1>3, <1>4, EndKept DEF Live

LEMMA EndNextStep ==
    ASSUME SessionInv, EndInv, LoginsApart, CopiesFresh, SessionNext
    PROVE  EndInv'
<1>1. CASE EnterAdminSite \/ Activate
    <2>1. token' = token /\ UNCHANGED <<step, req>>
        BY <1>1 DEF EnterAdminSite, Activate
    <2>2. account'.password = account.password /\ (account.active => account'.active)
        BY <1>1 DEF EnterAdminSite, Activate, SessionInv, SessionTypeOK, Account
    <2> QED BY <2>1, <2>2, EndKeptByNobody DEF Live
<1>2. ASSUME NEW t \in Tokens, Logout(t) PROVE EndInv'
    <2>1. \A s \in Live' : s \in Live /\ token'[s].password = token[s].password
        BY <1>2, BlacklistingEnds DEF Logout
    <2> QED BY <1>2, <2>1, EndKeptByNobody DEF Logout
<1> QED BY <1>1, <1>2, EndStarts, EndIssue, EndRotate, EndOthers, EndCommit, EndWrite
        DEF SessionNext, Starts

LEMMA EndInit == SessionInit => EndInv
<1> SUFFICES ASSUME SessionInit PROVE EndInv
    OBVIOUS
<1>1. \A w \in Workers : step[w] \in {"idle", "mail"}
    BY DEF SessionInit
<1>2. Live = {}
    BY DEF SessionInit, Live, NoToken
<1> QED BY <1>1, <1>2 DEF EndInv, OldSessionsEnd, Fresh, Found

\* A login or a rotation that overlaps with the commit, and an edit without fields
\* that saves an old copy, are all that can leave an old session (users/services.py
\* 27-30, 117, 147, 192, 257): password changes, resets, deactivations, activations,
\* the other edits and verifications may overlap with each other as they like.
THEOREM OldSessionsAreEnded == SessionSpec => OldSessionsEndApart
<1>1. SessionInv /\ EndInv /\ LoginsApart /\ CopiesFresh /\ [SessionNext]_sessionVars => EndInv'
    <2>1. EndInv /\ UNCHANGED sessionVars => EndInv'
        BY EndKeptByNobody DEF sessionVars, Live
    <2> QED BY <2>1, EndNextStep
<1>2. EndInv => OldSessionsEnd
    BY DEF EndInv
<1> QED BY EndInit, <1>1, <1>2, SessionsAreConsistent, PTL
        DEF SessionSpec, OldSessionsEndApart

-----------------------------------------------------------------------------
(***************************************************************************)
(* What a reset link is good for.                                          *)
(***************************************************************************)

\* A reset under way will replace the password its link was made under.
Due(w) ==
    step[w] \in {"save", "walk", "commit"} /\ req[w].op = "reset"
        => req[w].copy.password = account.password

\* The password is the one that was set last, and the links that have set one are of
\* earlier ones.
DueInv ==
    /\ \A w \in Workers : Due(w)
    /\ account.password = changes
    /\ \A l \in used : l.password < changes

LEMMA DueKept ==
    ASSUME DueInv, NEW w \in Workers, account'.password = account.password,
           UNCHANGED <<changes, used>>,
           \A v \in Workers \ {w} : step'[v] = step[v] /\ req'[v] = req[v],
           Due(w)'
    PROVE  DueInv'
BY DEF DueInv, Due

LEMMA DueKeptByNobody ==
    ASSUME DueInv, UNCHANGED <<step, req, changes, used>>,
           account'.password = account.password
    PROVE  DueInv'
BY DEF DueInv, Due

LEMMA DueStarts ==
    ASSUME SessionInv, DueInv, NEW w \in Workers, Starts(w)
    PROVE  DueInv'
<1>1. ASSUME NEW first, NEW request, Start(w, first, request),
             first = "save" /\ request.op = "reset" => request.copy.password = account.password,
             first \notin {"walk", "commit"}
      PROVE  DueInv'
    <2>1. step'[w] = first /\ req'[w] = request
          /\ \A v \in Workers \ {w} : step'[v] = step[v] /\ req'[v] = req[v]
        BY <1>1 DEF SessionInv, SessionTypeOK, Start
    <2>2. UNCHANGED <<account, changes, used>>
        BY <1>1 DEF Start
    <2>3. Due(w)'
        BY <1>1, <2>1, <2>2 DEF Due
    <2> QED BY <2>1, <2>2, <2>3, DueKept
<1>2. CASE StartLogin(w)
    BY <1>1, <1>2 DEF StartLogin
<1>3. CASE StartChange(w) \/ StartReset(w) \/ StartDeactivate(w)
    BY <1>1, <1>3 DEF StartChange, StartReset, StartDeactivate
<1>4. CASE StartVerify(w) \/ StartPatchNothing(w)
    BY <1>1, <1>4 DEF StartVerify, StartPatchNothing
<1>5. CASE \E e \in Emails : StartPatchEmail(w, e)
    BY <1>1, <1>5 DEF StartPatchEmail
<1>6. CASE \E t \in Tokens : StartRefresh(w, t)
    BY <1>1, <1>6 DEF StartRefresh
<1> QED BY <1>2, <1>3, <1>4, <1>5, <1>6 DEF Starts

\* The next number is given, and the link joins the earlier ones.
LEMMA DueCommit ==
    ASSUME SessionInv, DueInv, ResetsApart, NEW w \in Workers, Commit(w)
    PROVE  DueInv'
<1>0. account \in Account /\ changes \in Nat /\ req[w] \in SaveRequests
    BY SessionsAssumption DEF SessionInv, SessionTypeOK, Asked, Commit
<1>1. step'[w] = "idle"
      /\ \A v \in Workers \ {w} : step'[v] = step[v] /\ req'[v] = req[v]
    BY DEF SessionInv, SessionTypeOK, Commit, Finish
<1>2. CASE req[w].op = "deactivate"
    <2>1. account'.password = account.password /\ UNCHANGED <<changes, used>>
        BY <1>0, <1>2 DEF Commit, SavedAccount, Account
    <2> QED BY <1>1, <2>1, DueKept DEF Due
<1>3. CASE req[w].op # "deactivate"
    <2>1. \A v \in Workers \ {w} : step[v] \notin {"walk", "commit"}
        BY DEF SessionInv, OneHolder, HoldsRow, Commit
    <2>2. \A v \in Workers \ {w} : step[v] = "save" => req[v].op # "reset"
        BY <1>3 DEF ResetsApart, Commit
    <2>3. \A v \in Workers : Due(v)'
        BY <1>1, <2>1, <2>2 DEF Due
    <2>4. req[w].copy \in Account
        BY <1>0, <1>3 DEF SaveRequests
    <2>5. account'.password = changes + 1 /\ changes' = changes + 1
        BY <1>0, <1>3, <2>4 DEF Commit, SavedAccount, Account
    <2>6. req[w].op = "reset" => ResetLink(req[w].copy).password = changes
        BY DEF DueInv, Due, Commit, ResetLink
    <2>7. \A l \in used' : l.password \in Nat /\ l.password < changes + 1
        <3>1. \A l \in used : l.password \in Nat /\ l.password < changes
            BY SessionsAssumption DEF DueInv, SessionInv, SessionTypeOK
        <3> QED BY <1>0, <2>6, <3>1 DEF Commit
    <2> QED BY <2>3, <2>5, <2>7 DEF DueInv
<1> QED BY <1>2, <1>3

LEMMA DueStep ==
    ASSUME SessionInv, DueInv, ResetsApart, CopiesFresh, [SessionNext]_sessionVars
    PROVE  DueInv'
<1>0. account \in Account
    BY DEF SessionInv, SessionTypeOK
<1>1. CASE EnterAdminSite \/ Activate \/ \E t \in Tokens : Logout(t)
    BY <1>0, <1>1, DueKeptByNobody DEF EnterAdminSite, Activate, Logout, Account
<1>2. ASSUME NEW w \in Workers, SendVerification(w) \/ IssueToken(w) \/ Crash(w)
      PROVE  DueInv'
    <2>1. Finish(w) /\ UNCHANGED <<account, changes, used>>
        BY <1>2 DEF SendVerification, IssueToken, Crash
    <2>2. step'[w] = "idle"
          /\ \A v \in Workers \ {w} : step'[v] = step[v] /\ req'[v] = req[v]
        BY <2>1 DEF SessionInv, SessionTypeOK, Finish
    <2> QED BY <2>1, <2>2, DueKept DEF Due
<1>3. ASSUME NEW w \in Workers, Rotate(w) \/ SaveAccount(w) PROVE DueInv'
    <2>1. UNCHANGED <<account, changes, used, req>>
          /\ \A v \in Workers \ {w} : step'[v] = step[v]
        BY <1>3 DEF SessionInv, SessionTypeOK, Rotate, SaveAccount
    <2>2. Due(w)'
        BY <1>3, <2>1 DEF SessionInv, SessionTypeOK, Rotate, SaveAccount, Due, DueInv
    <2> QED BY <2>1, <2>2, DueKept
<1>4. ASSUME NEW w \in Workers, Walk(w) PROVE DueInv'
    <2>1. UNCHANGED <<account, changes, used>>
        BY <1>4 DEF Walk
    <2>2. Due(w)'
        BY <1>4, <2>1, WalkKeeps DEF Walk, Due, DueInv
    <2> QED BY <1>4, <2>1, <2>2, WalkKeeps, DueKept
<1>5. ASSUME NEW w \in Workers, Write(w) PROVE DueInv'
    <2>1. account'.password = account.password
        BY <1>5, WriteKeeps
    <2>2. step'[w] \in {"mail", "idle"} /\ UNCHANGED <<changes, used>>
          /\ \A v \in Workers \ {w} : step'[v] = step[v] /\ req'[v] = req[v]
        BY <1>5 DEF SessionInv, SessionTypeOK, Write
    <2> QED BY <2>1, <2>2, DueKept DEF Due
<1>6. CASE UNCHANGED sessionVars
    BY <1>6, DueKeptByNobody DEF sessionVars
<1> QED BY <1>1, <1>2, <1>3, <1>4, <1>5, <1>6, DueStarts, DueCommit DEF SessionNext, Starts

\* A link sets one password, and the one that replaces the password it was made
\* under, unless a reset with it was tested before another new password was
\* committed and saves afterwards (users/services.py 144-150), or an edit without
\* fields brings an old password back (192).
THEOREM LinksResetOnce == SessionSpec => LinkResetsOnceApart
<1>1. SessionInit => DueInv
    BY DEF SessionInit, DueInv, Due
<1>2. SessionInv /\ DueInv /\ ResetsApart /\ CopiesFresh /\ [SessionNext]_sessionVars => DueInv'
    BY DueStep
<1>3. SessionInv /\ DueInv => LinkResetsOnce
    <2> SUFFICES ASSUME SessionInv, DueInv, NEW w \in Workers,
                        step[w] = "commit", req[w].op = "reset"
                 PROVE  req[w].copy.password = account.password
                        /\ ResetLink(req[w].copy) \notin used
        BY DEF LinkResetsOnce
    <2>1. ResetLink(req[w].copy).password = changes /\ changes \in Nat
        BY SessionsAssumption DEF DueInv, Due, ResetLink, SessionInv, SessionTypeOK
    <2>2. req[w].copy.password = account.password
        BY DEF DueInv, Due
    <2> QED BY <2>1, <2>2 DEF DueInv
<1> QED BY <1>1, <1>2, <1>3, SessionsAreConsistent, PTL DEF SessionSpec, LinkResetsOnceApart

-----------------------------------------------------------------------------
(***************************************************************************)
(* How long a verification link stays good.                                *)
(***************************************************************************)

\* What can only be under way for an account that was verified before: a login, a
\* rotation, a change of the password, and a walk that found tokens.  An edit that
\* was told to keep the address was told no new one.
Known(w) ==
    /\ step[w] \in {"rotate", "issue"} => account.verified
    /\ step[w] \in {"save", "walk", "commit"} /\ req[w].op = "change" =>
         req[w].copy.verified
    /\ step[w] = "commit" /\ req[w].tokens # {} => account.verified
    /\ step[w] = "write" /\ req[w].op = "email" /\ req[w].changed =>
         req[w].email # Registered

KnownInv ==
    /\ \A w \in Workers : Known(w)
    /\ \A t \in Tokens : token[t] # NoToken => account.verified
    /\ LinkStaysGood

LEMMA KnownInit == SessionInit => KnownInv
BY DEF SessionInit, KnownInv, Known, LinkStaysGood

\* The account is not verified any less, and its link stays the same until it is.
LEMMA KnownMoves ==
    ASSUME KnownInv, NEW w \in Workers,
           account'.verified \/ VerifyLink(account)' = VerifyLink(account),
           account.verified => account'.verified,
           \A v \in Workers \ {w} : step'[v] = step[v] /\ req'[v] = req[v],
           Known(w)',
           \A t \in Tokens : token'[t] # NoToken => token[t] # NoToken \/ account'.verified,
           mailed' = mailed \/ mailed' = mailed \cup {VerifyLink(account)}
    PROVE  KnownInv'
<1>1. \A v \in Workers : Known(v)'
    BY DEF KnownInv, Known
<1>2. LinkStaysGood'
    <2>1. CASE account'.verified
        BY <2>1 DEF LinkStaysGood
    <2>2. CASE ~account'.verified
        <3>1. VerifyLink(account)' = VerifyLink(account) /\ ~account.verified
            BY <2>2
        <3> QED BY <3>1 DEF KnownInv, LinkStaysGood
    <2> QED BY <2>1, <2>2
<1> QED BY <1>1, <1>2 DEF KnownInv

LEMMA KnownByNobody ==
    ASSUME KnownInv, UNCHANGED <<step, req, mailed>>,
           VerifyLink(account)' = VerifyLink(account),
           account'.verified = account.verified,
           \A t \in Tokens : token'[t] # NoToken => token[t] # NoToken \/ account'.verified
    PROVE  KnownInv'
<1>1. \A v \in Workers : Known(v)'
    BY DEF KnownInv, Known
<1>2. LinkStaysGood'
    BY DEF KnownInv, LinkStaysGood
<1> QED BY <1>1, <1>2 DEF KnownInv

LEMMA KnownStarts ==
    ASSUME SessionInv, KnownInv, AddressKept, NEW w \in Workers, Starts(w)
    PROVE  KnownInv'
<1>1. ASSUME NEW first \in {"rotate", "issue", "save", "write"}, NEW request,
             Start(w, first, request),
             first \in {"rotate", "issue"} => account.verified,
             first = "save" /\ request.op = "change" => request.copy.verified,
             first = "write" /\ request.op = "email" /\ request.changed =>
                 request.email # Registered
      PROVE  KnownInv'
    <2>1. step'[w] = first /\ req'[w] = request
          /\ \A v \in Workers \ {w} : step'[v] = step[v] /\ req'[v] = req[v]
        BY <1>1 DEF SessionInv, SessionTypeOK, Start
    <2>2. UNCHANGED <<account, mailed, token>>
        BY <1>1 DEF Start
    <2>3. Known(w)'
        BY <1>1, <2>1, <2>2 DEF Known
    <2> QED BY <2>1, <2>2, <2>3, KnownMoves
<1>2. CASE StartLogin(w)
    BY <1>1, <1>2 DEF StartLogin, MayLogIn
<1>3. CASE StartChange(w)
    <2>1. account.verified
        BY <1>3 DEF StartChange, HasAccess, KnownInv
    <2> QED BY <1>1, <1>3, <2>1 DEF StartChange
<1>4. CASE StartReset(w) \/ StartDeactivate(w)
    BY <1>1, <1>4 DEF StartReset, StartDeactivate
<1>5. CASE StartVerify(w) \/ StartPatchNothing(w)
    BY <1>1, <1>5 DEF StartVerify, StartPatchNothing
<1>6. ASSUME NEW e \in Emails, StartPatchEmail(w, e) PROVE KnownInv'
    BY <1>1, <1>6 DEF StartPatchEmail, AddressKept
<1>7. ASSUME NEW t \in Tokens, StartRefresh(w, t) PROVE KnownInv'
    <2>1. account.verified
        BY <1>7 DEF StartRefresh, Live, NoToken, KnownInv
    <2> QED BY <1>1, <1>7, <2>1 DEF StartRefresh
<1> QED BY <1>2, <1>3, <1>4, <1>5, <1>6, <1>7 DEF Starts

LEMMA KnownAtCommit ==
    ASSUME SessionInv, KnownInv, ResetsVerified, NEW w \in Workers, Commit(w)
    PROVE  KnownInv'
<1>1. account \in Account /\ req[w] \in SaveRequests /\ Known(w)
    BY DEF SessionInv, SessionTypeOK, Asked, KnownInv, Commit
<1>2. \A v \in Workers \ {w} : step'[v] = step[v] /\ req'[v] = req[v]
    BY DEF SessionInv, SessionTypeOK, Finish, Commit
<1>3. step'[w] = "idle" /\ mailed' = mailed
    BY DEF SessionInv, SessionTypeOK, Finish, Commit
<1>4. CASE req[w].op = "deactivate"
    <2>1. account'.verified = account.verified /\ VerifyLink(account)' = VerifyLink(account)
        BY <1>1, <1>4 DEF Commit, SavedAccount, Account, VerifyLink
    <2>2. \A t \in Tokens : token'[t] # NoToken => token[t] # NoToken \/ account'.verified
        BY <1>1, <2>1 DEF Commit, Blacklisted, Known
    <2> QED BY <1>2, <1>3, <2>1, <2>2, KnownMoves DEF Known
<1>5. CASE req[w].op # "deactivate"
    <2>1. req[w].copy \in Account /\ req[w].copy.verified
        BY <1>1, <1>5 DEF SaveRequests, Known, Commit, ResetsVerified
    <2>2. account'.verified
        BY <1>5, <2>1 DEF Commit, SavedAccount, Account
    <2> QED BY <1>2, <1>3, <2>2, KnownMoves DEF Known
<1> QED BY <1>4, <1>5

\* An edit of an account that keeps its address keeps the flag as well.
LEMMA KnownAtWrite ==
    ASSUME SessionInv, KnownInv, AddressKept, AddressKept', CopiesFresh,
           NEW w \in Workers, Write(w)
    PROVE  KnownInv'
<1>1. account \in Account /\ step[w] = "write" /\ account' = WrittenAccount(w)
      /\ mailed' = mailed /\ token' = token /\ Known(w)
    BY DEF SessionInv, SessionTypeOK, Write, KnownInv
<1>2. account'.verified \/ account' = account
    <2>0. req[w].op = "verify" \/ req[w].op = "email" \/ req[w].op = "whole"
        BY <1>1, WrittenTyped
    <2>1. CASE req[w].op = "verify"
        BY <1>1, <2>1, WrittenTyped DEF Account
    <2>2. CASE req[w].op = "email"
        <3>1. account' = [account EXCEPT !.email = req[w].email,
                                         !.verified = @ /\ ~req[w].changed]
            BY <1>1, <2>2, WrittenTyped
        <3>2. req[w].email = Registered
            BY <1>1, <3>1 DEF AddressKept, Account
        <3>3. ~req[w].changed
            BY <1>1, <2>2, <3>2 DEF Known
        <3>4. account'.verified = account.verified /\ account'.email = account.email
              /\ account'.password = account.password
            BY <1>1, <3>1, <3>2, <3>3 DEF AddressKept, Account
        <3>5. account'.login = account.login /\ account'.active = account.active
            BY <1>1, <3>1 DEF Account
        <3>6. account' \in Account
            BY <1>1, WrittenTyped
        <3> QED BY <1>1, <3>4, <3>5, <3>6 DEF Account
    <2>3. CASE req[w].op = "whole"
        BY <1>1, <2>3, WrittenTyped DEF CopiesFresh
    <2> QED BY <2>0, <2>1, <2>2, <2>3
<1>3. step'[w] \in {"mail", "idle"}
      /\ \A v \in Workers \ {w} : step'[v] = step[v] /\ req'[v] = req[v]
    BY DEF SessionInv, SessionTypeOK, Write
<1>4. Known(w)'
    BY <1>3 DEF Known
<1> QED BY <1>1, <1>2, <1>3, <1>4, KnownMoves

LEMMA KnownStep ==
    ASSUME SessionInv, KnownInv, ResetsVerified, AddressKept, AddressKept', CopiesFresh,
           [SessionNext]_sessionVars
    PROVE  KnownInv'
<1>0. account \in Account
    BY DEF SessionInv, SessionTypeOK
<1>1. CASE EnterAdminSite \/ Activate \/ UNCHANGED sessionVars
    <2>1. account'.verified = account.verified /\ VerifyLink(account)' = VerifyLink(account)
        BY <1>0, <1>1 DEF EnterAdminSite, Activate, sessionVars, Account, VerifyLink
    <2>2. UNCHANGED <<step, req, mailed, token>>
        BY <1>1 DEF EnterAdminSite, Activate, sessionVars
    <2> QED BY <2>1, <2>2, KnownByNobody
<1>2. ASSUME NEW t \in Tokens, Logout(t) PROVE KnownInv'
    <2>1. account.verified
        BY <1>2 DEF Logout, Live, NoToken, KnownInv
    <2>2. account' = account /\ UNCHANGED <<step, req, mailed>>
        BY <1>2 DEF Logout
    <2> QED BY <2>1, <2>2, KnownByNobody
<1>3. ASSUME NEW w \in Workers, SendVerification(w) \/ IssueToken(w) \/ Crash(w)
      PROVE  KnownInv'
    <2>1. Finish(w) /\ account' = account
          /\ (mailed' = mailed \/ mailed' = mailed \cup {VerifyLink(account)})
        BY <1>3 DEF SendVerification, IssueToken, Crash
    <2>2. step'[w] = "idle"
          /\ \A v \in Workers \ {w} : step'[v] = step[v] /\ req'[v] = req[v]
        BY <2>1 DEF SessionInv, SessionTypeOK, Finish
    <2>3. token' = token \/ account.verified
        BY <1>3 DEF SendVerification, IssueToken, Crash, KnownInv, Known
    <2>4. Known(w)'
        BY <2>2 DEF Known
    <2> QED BY <2>1, <2>2, <2>3, <2>4, KnownMoves
<1>4. ASSUME NEW w \in Workers, Rotate(w) \/ SaveAccount(w) PROVE KnownInv'
    <2>1. UNCHANGED <<account, mailed, req>>
          /\ \A v \in Workers \ {w} : step'[v] = step[v]
        BY <1>4 DEF SessionInv, SessionTypeOK, Rotate, SaveAccount
    <2>2. Known(w)'
        BY <1>4, <2>1 DEF SessionInv, SessionTypeOK, Rotate, SaveAccount, Known, KnownInv
    <2>3. token' = token \/ account.verified
        BY <1>4 DEF Rotate, SaveAccount, KnownInv, Known
    <2> QED BY <2>1, <2>2, <2>3, KnownMoves
<1>5. ASSUME NEW w \in Workers, Walk(w) PROVE KnownInv'
    <2>1. UNCHANGED <<account, mailed, token>>
        BY <1>5 DEF Walk
    <2>2. Live # {} => account.verified
        BY DEF Live, NoToken, KnownInv
    <2>3. Known(w)'
        BY <1>5, <2>1, <2>2, WalkKeeps DEF Walk, Known, KnownInv
    <2> QED BY <1>5, <2>1, <2>3, WalkKeeps, KnownMoves
<1> QED BY <1>1, <1>2, <1>3, <1>4, <1>5, KnownStarts, KnownAtCommit, KnownAtWrite
        DEF SessionNext, Starts

\* The link that was mailed opens the account until it is verified, as long as the
\* account keeps its address, no password is reset before it is verified and no edit
\* without fields saves an old copy (users/tokens.py 10): whoever else can change the
\* password has been verified.
THEOREM LinksStayGood == SessionSpec => LinkGoodUntilReset
<1>1. KnownInv => LinkStaysGood
    BY DEF KnownInv
<1>2. SessionInv /\ KnownInv /\ ResetsVerified /\ AddressKept /\ AddressKept' /\ CopiesFresh
        /\ [SessionNext]_sessionVars => KnownInv'
    BY KnownStep
<1> QED BY KnownInit, <1>1, <1>2, SessionsAreConsistent, PTL DEF SessionSpec, LinkGoodUntilReset
=============================================================================
