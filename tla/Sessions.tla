----------------------------- MODULE Sessions -----------------------------
(***************************************************************************)
(* The sessions of one account: the refresh tokens that login and rotation *)
(* hand out, the services that end them (logout, change_password,          *)
(* reset_password, deactivate_user), the edits of the account              *)
(* (update_user) and the mailed links that open it or reset its password.  *)
(*                                                                         *)
(* Passwords are numbered in the order in which they were set.  Tokens are *)
(* rows of simplejwt's outstanding and blacklist tables; each statement of *)
(* a login or a rotation commits by itself, a service of users/services.py *)
(* commits at its end.                                                     *)
(***************************************************************************)
EXTENDS Naturals, FiniteSets

CONSTANTS
    Workers,    \* gunicorn workers
    MaxTokens,  \* bound: refresh tokens that are handed out
    Emails,     \* addresses the account may be given
    Registered, \* the address it was registered with
    MaxChanges, \* bound: password changes
    MaxLogins,  \* bound: logins to the admin site
    MaxLinks    \* bound: verification links that are sent

ASSUME SessionsAssumption ==
    /\ MaxTokens \in Nat
    /\ Registered \in Emails
    /\ MaxChanges \in Nat
    /\ MaxLogins \in Nat

Tokens == 1..MaxTokens  \* primary keys

VARIABLES
    account,  \* the User row
    changes,  \* how many passwords have been set
    mailed,   \* what the verification links that were sent hash
    used,     \* history: what the reset links hash that set a password
    token,    \* token[t]: state, and the password its login was checked against
    step,     \* step[w]: idle, mail, rotate, issue, save, walk, commit or write
    req       \* req[w]: the service and what it has read

sessionVars == <<account, changes, mailed, used, token, step, req>>

\* login counts the logins to the admin site, the only ones that set last_login.
Account == [password : 0..MaxChanges, login : 0..MaxLogins, email : Emails,
            active : BOOLEAN, verified : BOOLEAN]

\* What the two links hash.
VerifyLink(a) == [password |-> a.password, email |-> a.email, verified |-> a.verified]
ResetLink(a) == [password |-> a.password, email |-> a.email, login |-> a.login]

NoToken == [state |-> "none", password |-> 0]
NoReq == [op |-> "none"]

Live == {t \in Tokens : token[t].state = "live"}

\* Mutation variant: an address that is not verified will do.
MayLogIn_AnyAddress == account.active

MayLogIn == account.active /\ account.verified

\* A bearer of an access token: some login has happened.  Blacklisting does not
\* touch access tokens.
HasAccess == account.active /\ \E t \in Tokens : token[t] # NoToken

\* Who holds the row of the account: FOR UPDATE while it is deactivated, the
\* lock of the UPDATE once a password is saved.
HoldsRow(w) ==
    \/ step[w] \in {"walk", "commit"}
    \/ step[w] = "save" /\ req[w].op = "deactivate"

RowFreeFor(w) == \A v \in Workers \ {w} : ~HoldsRow(v)
RowFree == \A v \in Workers : ~HoldsRow(v)

\* register_user has committed; its worker sends the link next.
SessionInit ==
    /\ account = [password |-> 0, login |-> 0, email |-> Registered,
                  active |-> TRUE, verified |-> FALSE]
    /\ changes = 0
    /\ mailed = {}
    /\ used = {}
    /\ token = [t \in Tokens |-> NoToken]
    /\ req = [w \in Workers |-> NoReq]
    /\ \E w \in Workers : step = [v \in Workers |-> IF v = w THEN "mail" ELSE "idle"]

-----------------------------------------------------------------------------
Start(w, first, request) ==
    /\ step[w] = "idle"
    /\ step' = [step EXCEPT ![w] = first]
    /\ req' = [req EXCEPT ![w] = request]
    /\ UNCHANGED <<account, changes, mailed, used, token>>

Finish(w) ==
    /\ step' = [step EXCEPT ![w] = "idle"]
    /\ req' = [req EXCEPT ![w] = NoReq]

\* A worker dies; what it has committed stays.
Crash(w) ==
    /\ step[w] # "idle"
    /\ Finish(w)
    /\ UNCHANGED <<account, changes, mailed, used, token>>

\* After the commit of register_user, or of an edit that gives another address: the
\* row is read again and send_mail succeeds, or its failure is logged and the
\* request answered all the same.
SendVerification(w) ==
    /\ step[w] = "mail"
    /\ \/ mailed' = mailed
       \/ /\ Cardinality(mailed) < MaxLinks
          /\ mailed' = mailed \cup {VerifyLink(account)}
    /\ Finish(w)
    /\ UNCHANGED <<account, changes, used, token>>

\* A login to the admin site notes its time in last_login.
EnterAdminSite ==
    /\ account.active /\ RowFree
    /\ account.login < MaxLogins
    /\ account' = [account EXCEPT !.login = @ + 1]
    /\ UNCHANGED <<changes, mailed, used, token, step, req>>

-----------------------------------------------------------------------------
\* The login serializer reads the account once; password, is_active and
\* email_verified are tested on that copy and the token's row is inserted.  (For
\* an account that is not verified too, but then nobody is handed the token.)
StartLogin(w) ==
    /\ MayLogIn
    /\ Start(w, "issue", [op |-> "login", password |-> account.password])

\* The foreign key of the row wants a key lock of the account, which FOR UPDATE
\* refuses, and an UPDATE only when it changes a unique column, the address.
KeyLocked(w) ==
    HoldsRow(w) /\ (req[w].op = "deactivate" \/ req[w].copy.email # account.email)

IssueToken(w) ==
    /\ step[w] = "issue"
    /\ \A v \in Workers : ~KeyLocked(v)
    /\ \E t \in Tokens :
         /\ token[t] = NoToken /\ \A s \in 1..(t - 1) : token[s] # NoToken
         /\ token' = [token EXCEPT ![t] = [state    |-> "live",
                                           password |-> req[w].password]]
    /\ Finish(w)
    /\ UNCHANGED <<account, changes, mailed, used>>

\* ROTATE_REFRESH_TOKENS, BLACKLIST_AFTER_ROTATION: the old token is
\* blacklisted, then its successor is issued.
StartRefresh(w, t) ==
    /\ t \in Live /\ account.active
    /\ Start(w, "rotate", [op |-> "refresh", token |-> t,
                           password |-> token[t].password])

\* Mutation variant: the row of the old token is removed.
Rotate_Removes(w) ==
    /\ step[w] = "rotate"
    /\ token' = [token EXCEPT ![req[w].token].state = "none"]
    /\ step' = [step EXCEPT ![w] = "issue"]
    /\ UNCHANGED <<account, changes, mailed, used, req>>

Rotate(w) ==
    /\ step[w] = "rotate"
    /\ token' = [token EXCEPT ![req[w].token].state = "blacklisted"]
    /\ step' = [step EXCEPT ![w] = "issue"]
    /\ UNCHANGED <<account, changes, mailed, used, req>>

Logout(t) ==
    /\ t \in Live /\ account.active
    /\ token' = [token EXCEPT ![t].state = "blacklisted"]
    /\ UNCHANGED <<account, changes, mailed, used, step, req>>

-----------------------------------------------------------------------------
(***************************************************************************)
(* change_password, reset_password, deactivate_user                        *)
(***************************************************************************)

\* The old password is tested against request.user, which authentication read.
StartChange(w) ==
    /\ HasAccess
    /\ Start(w, "save", [op |-> "change", copy |-> account, tokens |-> {}])

\* A link that fits the row as it is read; whoever knows the address can ask for one
\* at any time.
StartReset(w) == Start(w, "save", [op |-> "reset", copy |-> account, tokens |-> {}])

\* select_for_update() on the account.  The tests of deactivate_user are about
\* other accounts.
StartDeactivate(w) ==
    /\ RowFree
    /\ Start(w, "save", [op |-> "deactivate", tokens |-> {}])

\* Mutation variant: each statement of the service commits by itself, so the row is
\* free again.  (Two passwords may be on their way: the bound leaves room for both.)
SaveAccount_NoWait(w) ==
    /\ step[w] = "save"
    /\ changes + 1 < MaxChanges \/ req[w].op = "deactivate"
    /\ step' = [step EXCEPT ![w] = "walk"]
    /\ UNCHANGED <<account, changes, mailed, used, token, req>>

\* The UPDATE of the account waits for its row.
SaveAccount(w) ==
    /\ step[w] = "save"
    /\ RowFreeFor(w)
    /\ changes < MaxChanges \/ req[w].op = "deactivate"
    /\ step' = [step EXCEPT ![w] = "walk"]
    /\ UNCHANGED <<account, changes, mailed, used, token, req>>

\* blacklist_user_tokens: the tokens that are outstanding when it looks.
Walk(w) ==
    /\ step[w] = "walk"
    /\ step' = [step EXCEPT ![w] = "commit"]
    /\ req' = [req EXCEPT ![w].tokens = Live]
    /\ UNCHANGED <<account, changes, mailed, used, token>>

\* Mutation variant: the tokens are left alone.
Blacklisted_None(S) == token

Blacklisted(S) ==
    [t \in Tokens |-> IF t \in S THEN [token[t] EXCEPT !.state = "blacklisted"]
                      ELSE token[t]]

\* What the service has saved: is_active alone, or a new password together with
\* every other column of the copy.
SavedAccount(w) ==
    IF req[w].op = "deactivate" THEN [account EXCEPT !.active = FALSE]
    ELSE [req[w].copy EXCEPT !.password = changes + 1]

Commit(w) ==
    /\ step[w] = "commit"
    /\ account' = SavedAccount(w)
    /\ changes' = IF req[w].op = "deactivate" THEN changes ELSE changes + 1
    /\ used' = IF req[w].op = "reset" THEN used \cup {ResetLink(req[w].copy)} ELSE used
    /\ token' = Blacklisted(req[w].tokens)
    /\ Finish(w)
    /\ UNCHANGED mailed

Activate ==
    /\ RowFree
    /\ ~account.active
    /\ account' = [account EXCEPT !.active = TRUE]
    /\ UNCHANGED <<changes, mailed, used, token, step, req>>

-----------------------------------------------------------------------------
(***************************************************************************)
(* verify_email, update_user: the row is read, and written later.          *)
(***************************************************************************)

StartVerify(w) ==
    /\ VerifyLink(account) \in mailed
    /\ Start(w, "write", [op |-> "verify"])

\* By the owner or by an administrator; the row is the one of authentication or of
\* get_object.
StartPatchEmail(w, e) ==
    Start(w, "write", [op |-> "email", email |-> e, changed |-> e # account.email])

\* No field sent: save() without update_fields.
StartPatchNothing(w) ==
    Start(w, "write", [op |-> "whole", copy |-> account])

\* The address sent is not the one that was read.
NewAddress(w) == req[w].op = "email" /\ req[w].changed

\* The columns that are named, or all of the copy.
WrittenAccount(w) ==
    CASE req[w].op = "verify" -> [account EXCEPT !.verified = TRUE]
      [] req[w].op = "email"  -> [account EXCEPT !.email = req[w].email,
                                                 !.verified = @ /\ ~NewAddress(w)]
      [] req[w].op = "whole"  -> req[w].copy

\* The UPDATE and its commit; a new address is sent its link afterwards.
Write(w) ==
    /\ step[w] = "write"
    /\ RowFreeFor(w)
    /\ account' = WrittenAccount(w)
    /\ step' = [step EXCEPT ![w] = IF NewAddress(w) THEN "mail" ELSE "idle"]
    /\ req' = [req EXCEPT ![w] = NoReq]
    /\ UNCHANGED <<changes, mailed, used, token>>

SessionNext ==
    \/ EnterAdminSite \/ Activate
    \/ \E t \in Tokens : Logout(t)
    \/ \E w \in Workers :
         \/ SendVerification(w) \/ StartLogin(w) \/ IssueToken(w) \/ Rotate(w)
         \/ \E t \in Tokens : StartRefresh(w, t)
         \/ StartChange(w) \/ StartReset(w) \/ StartDeactivate(w)
         \/ SaveAccount(w) \/ Walk(w) \/ Commit(w)
         \/ StartVerify(w) \/ StartPatchNothing(w) \/ Write(w)
         \/ \E e \in Emails : StartPatchEmail(w, e)
         \/ Crash(w)

SessionSpec == SessionInit /\ [][SessionNext]_sessionVars

-----------------------------------------------------------------------------
SessionTypeOK ==
    /\ account \in Account
    /\ changes \in 0..MaxChanges
    /\ mailed \subseteq [password : 0..MaxChanges, email : Emails, verified : BOOLEAN]
    /\ used \subseteq [password : 0..MaxChanges, email : Emails, login : 0..MaxLogins]
    /\ token \in [Tokens -> {NoToken} \cup
                            [state    : {"live", "blacklisted"},
                             password : 0..MaxChanges]]
    /\ step \in [Workers -> {"idle", "mail", "rotate", "issue", "save", "walk",
                             "commit", "write"}]
    /\ DOMAIN req = Workers

\* "Invalidate all outstanding refresh tokens for a user" (services.py 28):
\* once a password has changed, or the account is deactivated, no session that
\* began before is left.
OldSessionsEnd ==
    \A t \in Live : token[t].password = account.password /\ account.active

\* A link resets a password once, and the one it was made under (services.py 144,
\* tokens.py 15-28): it is not good again later, and the password it replaces is
\* still that one.
LinkResetsOnce ==
    \A w \in Workers :
        step[w] = "commit" /\ req[w].op = "reset" =>
            /\ req[w].copy.password = account.password
            /\ ResetLink(req[w].copy) \notin used

\* Nobody is between the test of a login or a rotation and the insert of its
\* token while a service has looked for the tokens and not committed yet.
LoginsApart ==
    \A v, w \in Workers : step[v] = "commit" => step[w] \notin {"rotate", "issue"}

\* Nobody has tested a reset link and not saved yet while a new password waits to
\* be committed.
ResetsApart ==
    \A v, w \in Workers :
        step[v] = "commit" /\ req[v].op # "deactivate"
            => ~(step[w] = "save" /\ req[w].op = "reset")

\* The edit that names no field saves the account as it still is (services.py 192);
\* otherwise it brings back what others have overwritten since, the password too.
CopiesFresh ==
    \A w \in Workers : step[w] = "write" /\ req[w].op = "whole" => req[w].copy = account

\* Old sessions are ended, unless a login or a rotation overlaps with the commit or
\* an edit without fields saves an old copy: nothing else leaves one alive, however
\* the services, the other edits and the crashes overlap.
OldSessionsEndApart == []LoginsApart /\ []CopiesFresh => []OldSessionsEnd

\* And a link is used up, unless it was tested before another new password is
\* committed and saves afterwards (whoever has saved first keeps the others
\* waiting), or such an edit brings the password back that it was made under.
LinkResetsOnceApart == []ResetsApart /\ []CopiesFresh => []LinkResetsOnce

\* "POST /api/auth/register/ -> verification email" (README.md 73), the only way
\* into a new account: when register_user's request is over the link was sent.
LinkArrives ==
    mailed # {} \/ account.verified \/ \E w \in Workers : step[w] = "mail"

\* "GET /api/auth/verify-email/<uid>/<token>/" (README.md 74), the next step of
\* the flow: a link that was sent opens the account until it is verified.
LinkStaysGood ==
    mailed # {} => account.verified \/ VerifyLink(account) \in mailed

\* No password is reset from a copy of the account that is not verified.
ResetsVerified ==
    \A w \in Workers :
        step[w] = "commit" /\ req[w].op = "reset" => req[w].copy.verified

\* The account keeps the address it was registered with.
AddressKept == account.email = Registered

\* Of an account that keeps its address only a reset makes the link useless, or an
\* edit without fields that saves an old copy: every other way to a new password
\* needs a session, which only a verified account has had.  (A new address takes
\* the verification away from an account that has sessions, and the password can
\* be changed in one before the new link is opened.)
LinkGoodUntilReset ==
    []ResetsVerified /\ []AddressKept /\ []CopiesFresh => []LinkStaysGood
=============================================================================
