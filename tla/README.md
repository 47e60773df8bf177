# LibraryHub: a TLA+ verification project

LibraryHub is a Django REST service for a lending library: a catalogue with
counted copies, members who borrow and return, fines, and accounts with three
roles. It runs as three gunicorn workers and a cron job on one PostgreSQL
database at the default isolation level, READ COMMITTED. The rules are short;
what makes them hard is that every service is several SQL statements, and
statements of different requests interleave.

This project models the circulation core, what clients are told is overdue, the
accounts, their sessions and rights, the catalogue and the admin site, checks
the models with TLC on small instances and proves with TLAPS, for every value of
the constants, each safety property that a run finds to hold: of the circulation
core, from its transactions up to the abstract specification it implements, and
of the accounts, the sessions, the rights to borrow, the catalogue and the admin
site. Where the code breaks a property when requests overlap, a run or a
configuration shows it, and a theorem says that it holds once that overlap is
ruled out.

## 1. Inventory

| Part | State | Operations | Where |
| --- | --- | --- | --- |
| Circulation | `BorrowRecord` (status, member, title, due and return dates), `Fine` | borrow, return, mark lost, resolve lost, pay, `sync_overdue` | `borrowing/` |
| Stock | `Book.total_copies`, `Book.available_copies` | create, update, delete a title; every circulation service | `books/services.py`, `books/models.py` |
| Overdue views | none (derived) | `display_status`, `is_overdue`, `overdue_q`, the list filters | `borrowing/models.py`, `borrowing/filters.py` |
| Accounts | `User` (role, is_active, deleted_at, email, email_verified, password), `MemberProfile` | register, verify, profile update, role, activate, deactivate, soft delete, restore | `users/` |
| Sessions and tokens | outstanding and blacklisted refresh tokens; verification and reset tokens derived from the user row | login, refresh, logout, change and reset password | `users/services.py`, `users/tokens.py`, simplejwt |
| Borrowing permissions | none of its own: roles and activity of `User`, owner of a `BorrowRecord` | who finds, borrows, returns, settles | `borrowing/permissions.py`, `borrowing/views.py` |
| Catalogue data | `Category` (name, slug, parent), `Publisher`, `Author`, a book's references to them | CRUD; `create_book`, `update_book` | `books/` |
| Admin site | every table, by whole-row forms | add, change, delete | `*/admin.py` |
| Configuration and plumbing | settings, URL maps, pagination, throttles, image checks, e-mail text, tests | - | `config/`, `common/` |

How they interact: views authenticate the request (one unlocked read of the
user), serializers call the services, services open a transaction and lock rows
with `SELECT .. FOR UPDATE`. The parts share state only through the tables:
borrowing reads the accounts (is the member active and verified) and writes the
stock; `update_book` reads the loans and rewrites the stock; the cron job
rewrites the loans; borrowing reads roles, activity and verification of an
account while its administrators change them; the admin site writes any table
past the services. Signals only log, or create a member profile. E-mail is sent
after commit.

What is hard here: check-then-act across statements, row locks taken in
different orders, a bulk `UPDATE` that meets single-row services, workers killed
between two statements, requests sent twice, whole-row saves of objects read
earlier, and checks that look locked but are not. `PROJECT.json` lists each
place as a hazard, with the properties aimed at it.

What makes each part correct:

- Stock: shelf copies and unsettled records never exceed `total_copies`, and
  circulation neither makes nor mislays copies.
- Loans: limit respected, one unsettled record per member and title, RETURNED is
  final, LOST never reopens.
- Fines: exactly for late returns, exactly the days; debtors cannot borrow.
- Concurrency: every transaction commits what the atomic service would have
  done; every request ends; who may wait in a circle is known.
- Accounts: an administrator always remains; a deleted account stays deleted
  until it is restored; a deleted account is never active.
- Overdue views: every answer to "is it overdue" agrees with every other, before
  and after the cron job, and with the fine.
- Sessions: a password change or a deactivation ends every session that began
  before; the links that are mailed arrive, stay good and reset one password.
- Rights: a title is lent to an account in good standing at that moment, and a
  record is moved by its owner or by staff, whatever changes between the test and
  the write.
- Catalogue: no reference dangles, a slug stays the address of one category, an
  edit of a book changes what it sends.
- Admin site: the tables stay tables, and no service makes worse what a form has
  left.

## 2. Modules

| Module | Models | Role |
| --- | --- | --- |
| `Lending` | a lending desk: copies circulate, a record holds one until it is settled, once | the abstract specification, four sentences long |
| `Library` | the services of `borrowing/services.py` and `books/services.py`, each as one atomic action | implements `Lending`; states the rules |
| `LoanService` | the same services as transactions: statements, row locks, values read under lock, commits, aborts | implements `Library` |
| `OverdueView` | `display_status`, `is_overdue`, `overdue_q` and the list filters, as operators over `Library`'s tables and day | the derived statuses, compared |
| `AdminSite` | the forms of books, records and fines beside `Library`'s services | stale whole-row saves |
| `Accounts` | the account services of `users/services.py` as transactions | roles, activation, soft delete, verification, profiles, stale saves |
| `Rights` | the circulation views on top of `Accounts` | who lends and returns while roles change |
| `Sessions` | login, refresh, logout, the services that end sessions, edits of the account, the mailed links | sessions of one account |
| `Catalog` | categories, publishers, authors and what books refer to | plain views without locks, `update_book` with |
| `ServiceProofs` | - | theorems about `LoanService`: it implements `Library`, and what a circle of waiting transactions needs |
| `LibraryProofs`, `OverdueProofs` | - | theorems about `Library`, its refinement of `Lending`, and `OverdueView` |
| `AccountsProofs`, `RightsProofs`, `SessionsProofs` | - | theorems about `Accounts`, `Rights` and `Sessions`, with overlapping requests |
| `CatalogProofs`, `AdminProofs` | - | theorems about `Catalog` and `AdminSite` |
| `MC...` | - | values and symmetry for TLC |

Composition: `Library` instantiates `Lending`; `LoanService`, `OverdueView` and
`AdminSite` extend `Library` and share its variables; `Rights` extends
`Accounts`. `Sessions` and `Catalog` stand alone: what they share with the
others is an account's activity and a book's existence.

### Lending

Three variables: `copies[b]` that are lent or can be lent, `out[b]` the records
that hold one, `settled` the records that are closed. A copy is lent to one
record at a time, a record is settled once, and copies may be bought or weeded
out as long as each record out keeps one. `Library!Promise` maps
shelf stock plus unsettled records (LOST ones included) to `copies`, the
unsettled records to `out` and the RETURNED ones to `settled`; `sync_overdue`,
`mark_borrow_lost`, fines and account changes are stutters.

### Library

One variable per column the rules depend on: `day` is `timezone.localdate()`,
`shelf`, `total` and `available` are the `Book` rows, `loan` and `fine` the
`BorrowRecord` and `Fine` rows, and `eligible[m]` collapses "active, verified
and not deleted", which is all that borrowing asks of an account. A primary key
is used once: `NoLoan` marks a record that was never inserted, and a deleted
title stays `"deleted"`.

Each action is one service with its guards and effects. Rejected requests change
nothing and are not steps. Who may call a service (staff or the member) is
`Rights`' subject. Money is in cents, dates are day numbers.
`update_book` without `total_copies` leaves these columns alone and is a
stutter.

### LoanService

A transaction of process `p` has a point it has reached (`step`), its request
(`req`), the rows its running statement still has to lock (`todo`), the values
it read from locked rows (`seen`) and the locks it holds (`held`).

- `LockNext` is `SELECT .. FOR UPDATE` on the next row: it waits until nobody
  else holds the row and reads its latest committed version (PostgreSQL
  re-evaluates a row it had to wait for). `return_book` joins record, member and
  title, so its statement locks the three in that order: `ReturnRows`.
- Tests that the code makes without a lock (`CheckFines`, `CheckLimit`,
  `CheckTitle`, `CountActive`, the collector's look for protected records in
  `StartDelete`) are steps of their own that read the tables as they are.
- A transaction's writes become visible at commit; the writes and the commit are
  one step. It writes what the transaction has *seen* (`seen[p].stock - 1`), so a
  missing lock would show as a lost update.
- The rows that link a title to its authors and categories are one more row,
  `LinksRow`. `update_book` locks the title and then deletes the links the request
  drops (`authors.set`, `categories.set`: `CountActive`); `DELETE` of the title
  deletes its links first and the title last (`StartDelete`). Whether an edit drops
  a link, and whether the title has any, is left open. These two wait for each
  other if they meet (`EditMeetsDelete`); PostgreSQL's deadlock detector then ends
  one of them (`BreakCircle`). The link rows that go with a deleted author or
  category, of many titles, are not part of the module, nor is their place in the
  order of locks.
- `StartSync`, `SyncVisit`, `SyncCommit` are one bulk `UPDATE`: the snapshot
  picks rows, rows are visited in any order, a row that changed while the
  statement waited is tested again.
- `Abort` is a crash, the gunicorn timeout or a lost connection at any step.
- A request may arrive again at any time, after an abort or after a commit whose
  answer was lost: nothing distinguishes a retry.

The refinement mapping is the identity: `LoanService` extends `Library`, keeps
its variables, and `ImplementsLibrary` is `Library`'s `Spec`. A commit must be
one `Library` action, every other step a stutter.

### Accounts

`user[u]` is the row (role, is_staff, is_active, deleted_at, e-mail, and the
address that was verified: the code keeps a flag, the model keeps whose link set
it), `profiles` the users with a `MemberProfile`, `signedIn` the users that hold
a token, `copy[w]` the `User` object in the memory of worker `w`. `Root` is the
first administrator, as it is once the superuser of `README.md:49` has been given
its role and a verified address in the admin site.

- An administrator's service is authentication and `get_object` (`StartAdmin`),
  the locking read (`LockTarget`), the service's conditions (`Check`) and
  `save(update_fields=..)` with the commit (`Save`), which writes the columns it
  names over the current row.
- A user's own service reads a copy without a lock (`StartChangePassword`,
  `StartResetPassword`, `StartPatchEmail`, `StartPatchNothing`, `StartVerify`)
  and writes later (`Write`): all columns of the copy, or those it names.
- `_ensure_not_last_admin` asks for `select_for_update().count()`; Django drops
  FOR UPDATE from an aggregate, so `LastAdmin` counts what is committed.
- The unique e-mail column refuses a write (`Taken`), whichever statement
  attempts it, soft-deleted rows included.

Left out: passwords (a token or password is assumed right; wrong ones are
rejected requests), expiry and revocation of tokens (`signedIn` only grows: a
refresh token keeps a session alive), names, phone numbers and pictures.

### Rights

`Rights` adds `record[r]` (its owner and whether it is out, lost or back) and the
requests of the circulation views to the account services. A caller's role is
read at authentication, the role of the member a librarian lends to in
`resolve_borrow_member`; both are used later. `borrow_book` then locks the
member's row with the same locking read as an administrator's service
(`LockTarget`) and tests activity and verification on it (`CheckBorrower`).
`StartReturn` has two records: the one of the URL, which the view tests, and the
one the body may name instead, which the service gets. Stock, limits and fines
are `Library`'s; a request they refuse is one that ends here. Changes of address
are left to `Accounts`, as they only ever take a verification away.

### OverdueView

Nothing is added to `Library`'s state: a record's shown status is a function of
its row and the day. The module states in one place the five answers the code
gives to "is it overdue": the stored column, `display_status`, `is_overdue`, the
query `overdue_q` behind the filters, and the fine on return.

- `ViewsAgree`: the first three derived answers and the filter's two sides are
  the same set in every state.
- `PromotionInvisible`: the cron job changes no status a client is shown (an action
  property).
- `ChargedIffOverdue`: a return is charged if and only if the record was shown
  as overdue just before it.

### Sessions

One account; `account` is its row: password, `last_login`, address, `is_active`,
`email_verified`. Passwords are numbered in the order in which they were set
(`changes` counts them), logins to the admin site, the only ones that set
`last_login`, likewise. `token[t]` is a row of simplejwt's outstanding table with
its blacklist entry, and the password the login was checked against; keys are
handed out in order. Login and rotation run in autocommit, so their test and their
insert are two steps (`StartLogin`, `IssueToken`; `StartRefresh`, `Rotate`,
`IssueToken`). The services that end sessions are one transaction of three: save
the account, look for the outstanding tokens (`Walk`), blacklist and commit
(`Commit`). Each works with what it read: a password service writes every column
of its copy of the account. A row locked `FOR UPDATE` (`deactivate_user`) keeps a
token's insert waiting through its foreign key (`KeyLocked`); the row lock of a
plain `UPDATE` (the password services) does so only if it changes the unique
address.

`update_user` is `StartPatchEmail` and `StartPatchNothing`, `verify_email` is
`StartVerify`; all three read the row, wait for its lock and write (`Write`). A new
address takes the verification away and is sent a link after the commit; an edit
without fields saves every column of its copy, the password and `is_active`
included.

A link is what it hashes of the account (`users/tokens.py:7-12, 18-28`):
`VerifyLink` the password, the address and whether it is verified, `ResetLink` the
password, the address and `last_login`. `mailed` are the verification links that
were sent (`SendVerification` may fail: the code logs it and answers), `used` the
reset links that have set a password. Anybody who knows the address can ask for a
reset link at any time, so `StartReset` takes one that fits the row it reads.

`OldSessionsEnd`, `LinkResetsOnce` and `LinkStaysGood` are what the code means to
promise. It breaks each of them. `OldSessionsEndApart`, `LinkResetsOnceApart` and
`LinkGoodUntilReset` say that they hold on conditions on what overlaps:

| Property | Holds as long as |
| --- | --- |
| `OldSessionsEnd` | no login or rotation is between test and insert when a service commits (`LoginsApart`), and `CopiesFresh` |
| `LinkResetsOnce` | no reset is between its test and its save when a new password commits (`ResetsApart`), and `CopiesFresh` |
| `LinkStaysGood` | no password is reset from an unverified copy (`ResetsVerified`), the account keeps its address (`AddressKept`), and `CopiesFresh` |

`CopiesFresh` is the same in all three: an edit without fields saves the account as
it still is. If it saves an older copy, the former password is back, or a
deactivated account active: newer sessions are left under a password that is no
longer the account's, and a used link fits again.

Left out: the expiry of tokens and links, soft deletion (it walks the tokens like
`deactivate_user`), roles, columns that no link hashes and no login tests, whether
an address is another account's (`Accounts` has that), who asks for an edit, and
access tokens beyond the fact that somebody has one: blacklisting does not reach
them, they run out after 30 minutes.

### Catalog

`category[c]` is the row, or the key is unused or deleted (a key is not used
twice, but an edit under way brings a deleted row back: `Model.save` inserts when
its UPDATE finds nothing, `UpdateCategory`). `ModelViewSet` has no transaction:
validation, `Category.save` and its statement are separate moments (`StartCreate-`
and `StartEditCategory`, `InsertCategory`, `UpdateCategory`), and every column of
the copy is written. Deletions cascade as `on_delete` says: SET_NULL for
children, PROTECT for publishers, link rows with what they link. `update_book`
locks the book, saves the row and sets the links it was sent (`LockBook`,
`SaveBook`); `create_book` inserts what the serializer found some moments before
(`StartCreateBook`, `CreateBook`), and nothing if a link of it is gone. `firstSlug`
is history: the slug a key was inserted with, which `SlugIsAddress` compares the
present one with, also after a deletion that an edit under way has reversed. What
an edit changes is promised of books only (`OnlyAskedChanges`): a PATCH of a
category, a publisher or an author writes the whole row it read. The publisher stands for every column of a book's row. A name is
compared by `Fold` (`name__iexact`) and slugified by `SlugOf`.

### AdminSite

A page remembers what it showed (`form`) and writes every column of it when it
is posted, tested by the constraints of the tables alone (`FitsShelf`,
`UniqueActive`). Between opening and posting any service of `Library` may run.
An officer edits `total_copies` of a book, the status of a record, adds a
record, or deletes records with their fines. One page is open at a time.

## 3. Runs

| Run | Question | Instance |
| --- | --- | --- |
| `desk` | do the atomic services implement `Lending` and keep every rule, and do all answers to "is it overdue" agree? | 2 members, 2 titles, 3 records, 3 days with a loan period of 0, up to 2 copies, limit 1 |
| `write_off` | does a write-off survive an edit? (no: finding) | 2 members, 1 title, 2 records |
| `rivals` | do competing members' transactions implement `Library`, and who can wait in a circle? | 2 workers + cron, 2 members, 1 title, 2 records, 2 copies |
| `served` | does every transaction end, if PostgreSQL breaks the one circle there is? | 2 workers + cron, 1 member, 1 title, 2 records |
| `accounts_alone` | does an administrator always remain, and is what counts as verified proven, if requests come one by one? | 1 worker, 3 accounts, 3 addresses |
| `rights` | do rows, loans and permissions stay right when account services and circulation overlap? | 2 workers, 2 accounts, 2 addresses, 1 record |
| `last_admin` | does an administrator remain if two administrator requests overlap? (no: finding) | 2 workers, 2 accounts |
| `sessions_apart` | do old sessions end, and does a reset link set one password, on their conditions? | 2 workers, 2 tokens, 2 password changes, 1 login to the admin site, 2 links |
| `links_apart` | does a verification link stay good until it is used, on its conditions, with edits of the address about? | 2 workers, 1 token, 2 addresses, 1 password change, 2 links |
| `old_sessions` | and if a login overlaps? (no: finding) | 2 workers, 2 tokens |
| `catalog` | do references, slugs and edits stay right when edits and deletions overlap? | 2 workers, 2 categories, 2 names, 1 publisher, 1 author, 1 book |
| `admin_site` | what do the services keep when stale pages are posted? | 2 members, 1 title of up to 2 copies, 2 records, 2 days |

What the properties mean is said above each of them in the modules.

More configurations are kept beside the runs, to be run by hand and taken in when
the code changes; for example `tlc -config MCUndelete.cfg MCAccounts`. Two pass:
`MCAccounts` has the whole of `Accounts` on two workers, and `MCParallel` (module
`MCLoanService`) one member's requests for two titles, whose limit and pending
fines are contested (`ImplementsLibrary`; the theorem `TransactionsAreAtomic` covers
it). The others refute a property each:

| Configuration | Module | Refutes |
| --- | --- | --- |
| `MCActiveAdmin` | `MCAccounts` | `ActiveAdminRemains` |
| `MCUndelete` | `MCAccounts` | `DeletedUntilRestored` |
| `MCVerified` | `MCAccounts` | `AddressProven`, once two requests overlap |
| `MCPromoted` | `MCRights` | `LentToMembers` |
| `MCLostMail` | `MCSessions` | `LinkArrives` |
| `MCDeadLink` | `MCSessions` | `LinkStaysGood` |
| `MCSpentLink` | `MCSessions` | `LinkResetsOnce` |
| `MCStatusFilter` | `MCLibrary` | `StatusFilterExact` |
| `MCSameName` | `MCCatalog` | `NamesDistinct` |
| `MCTakenSlug` | `MCCatalog` | `AcceptedIsStored` |
| `MCStaleForm` | `MCAdminSite` | `StockCovered` |
| `MCEditDelete` | `MCLoanService` | `NoWaitCycle` |

Bounds, all constants: `MaxDay` ends the calendar, `MaxCopies` limits what a
client sends, `Loans` is the set of primary keys (so the history is finite; a
guard of `StartBorrow` keeps enough keys for the borrows under way). They are
enough for the cases that matter: a limit of 1 binds with two titles and with a
lost copy; two copies and two members make the last copy contested; with a loan
period of 0 a record falls due on the day it is lent, is past due on the next, is
promoted, and comes back one or two days late, so the boundary day is met in
three days; every lock order conflict needs two or three transactions, and there
are that many (the cron job is the third).

The `Accounts` and `Rights` runs switch the deadlock check off: once every
account is deleted or inactive the system really stops, since nobody can
authenticate to change it and (with a finite set of keys) nobody can register.
Two accounts and two workers are enough for every pair of services to meet on
one row, or on two administrators; a third account lets the count be above its
threshold. Three addresses leave one free for a change when two accounts exist;
`rights` needs two only, as it changes none. One record is enough there: its two
roles in `StartReturn`, the record of the URL and of the body, may be the same,
and a return of somebody else's record goes through `StartLegacyReturn` as well.

The `Sessions` runs switch it off as well: tokens, password changes, logins to the
admin site and links are finite (`MaxTokens`, `MaxChanges`, `MaxLogins`,
`MaxLinks`), so a history ends when all are used. Two tokens are two logins, or a
login and its rotation, with a password change before, between or after. Edits
of the address that change it are the subject of `links_apart`: of the histories
that keep the address, which its property is about, one token is enough, as it
is a session at all that opens the way to a new password. In `sessions_apart` an
edit sends the address the account has; `SessionsProofs` has no such bound.

In `Catalog` two categories give a parent and a child, or two of one name; a key is
never handed out twice, but deleted and brought back. `Requests` bounds what an
edit of the book sends to its publisher or its categories, so that authors survive
every edit, and the publisher and the categories the edits of each other; an edit
of a category sends a name or a parent, not both. Names that differ by their case only
matter to `NamesDistinct` and are in the instances of `MCSameName` and
`MCTakenSlug`.

The run `served` sets the daily rate to 0, so no fines arise in it: a fine's row
is locked alone and waits for nobody, and the state space stays small enough for
the liveness check.

The properties of `sessions_apart` and `links_apart` have the form
`[]Apart => []P`: of the behaviours in which a certain overlap never occurs, they
say that `P` never fails.
A behaviour with the overlap is not looked at any further, one without it is
followed to its end, and no fairness is needed, as a violation is a finite
history. The other behaviours are many: the hypotheses forbid a step, not
concurrency.

Members, titles, records, workers, categories, accounts other than the first and
addresses (but for `Registered`) are interchangeable (symmetry sets); the runs with
temporal formulas that TLC checks on the graph of states (`served`,
`sessions_apart`, `links_apart`) use no symmetry.

Fairness (`FairServiceSpec`): a running transaction executes its next statement
(weak fairness), and whoever waits for a row that comes free again and again
gets it (strong fairness: PostgreSQL queues waiters for a row). When an edit that
drops a link and a deletion of its title wait for each other, the deadlock
detector ends one of them after `deadlock_timeout` (weak fairness of
`BreakCircle`). Clients, the calendar, the cron schedule and crashes are under no
obligation: `Served` relies on no abort but that one, and `OnlyEditMeetsDelete`
says that no other is needed.

## 4. Proofs

`LibraryProofs` proves about `Spec` of `Library`, for every set of members and
titles, every finite set of records and every setting (`LoansAssumption`,
`SettingsAssumption`):

- `TypeCorrect`: `TypeOK` is inductive by itself.
- `TitlesAreKept`: `TypeOK /\ TitlesKept` is inductive.
- `StockIsCovered`: needs `TypeOK /\ TitlesKept /\ StockCovered`: when a title is
  created nothing may refer to it yet, which `TitlesKept` gives.
- `ReturnsAlwaysFit`: from `StockCovered`, the guard that raises
  `InventoryIntegrityError` can never be met.
- `LimitIsRespected`, `OneActiveHolds`, `FinesAreSound`: each inductive with
  `TypeOK`.
- `LifecycleIsRespected`: the action property, from `TypeOK`.

The counting lemmas all rest on `OneApart`: two finite sets that agree outside
one element differ by at most one in cardinality; every service but
`sync_overdue` changes one record (`OneRecordActive`, `OneRecordOpen`), and
`SyncKeepsSets` covers the bulk update.

`OverdueProofs` proves about the same `Spec`, with `LibraryProofs`:

- `PromotedIsPast`: a record stored as OVERDUE is past its due day
  (`OverdueIsPast`). It is the strengthening the next two need: `is_overdue`
  trusts the stored status, the others compare dates.
- `ViewsAlwaysAgree`: `ViewsAgree` follows from `TypeOK` and `OverdueIsPast`.
- `ChargedWhenShown`: the action property `ChargedIffOverdue`, for every positive
  rate (at rate 0 a late return is never charged).
- `PromotionIsInvisible`: `PromotionInvisible`; only `sync_overdue` turns BORROWED
  into OVERDUE, and only for records that are past due, which were shown as
  OVERDUE already.
- `ExactWhenSynced`: the status filter lists what is shown (`StatusFilterExact`) in
  those states in which the cron job has nothing to promote (`Synced`), and in no
  others: what `MCStatusFilter` finds, for every table.

`LibraryProofs` also proves the refinement:

- `DeskKeepsPromise`: `Spec => KeepsPromise`, that is `Promise!Spec`. The initial
  tables map to an empty desk, and under `TypeOK` and `TitlesKept` every action
  maps to `Lend`, `Settle`, `Restock` or a stutter. `Quiet` covers the actions
  that move no copy; `BorrowMoves` and `SettleMoves` count the sets that change
  by one record; `TitlesKept` is needed where a title is created, since nothing
  may be out on it.
- `CopiesAreConserved`: the action property `CopiesConserved`, from the same
  lemmas. It says more than the refinement of how copies may leave:
  `Lending` lets any settlement write its copy off, `CopiesConserved` only that
  of a LOST record.

So each property of the run `desk` is proved for every value of the constants.

`ServiceProofs` proves about `ServiceSpec`, for every number of workers, with the
lemmas of `LibraryProofs`:

- `LocksProtect`: `ServiceInv` is inductive. It says of each transaction what it
  was asked (`Asked`), which rows it holds and which it still has to lock, in
  which order, at each statement (`Queued`), that what it saw of the rows it holds
  is what the tables say (`Current`), and which tests it has passed (`Granted`);
  that no row is held twice; and of the tables `TypeOK`, `TitlesKept` and
  `StockCovered`. `Granted` is the heart: the tests for fines, the limit and a
  second loan are made without locking what they read, and still hold at the
  insert, since only a transaction that holds the member's row can give that member
  a loan or a fine.
- `Spares` says what the step of one transaction must leave alone for another:
  the rows it holds and the answers that hang on them. There is a lemma per service
  (`BorrowSpares`, `ReturnSpares` ...) that the service spares whoever does not
  hold the rows it locks; `ServingKept` draws the conclusion for the other
  transaction, and `OneActs` for all of them.
- `TransactionsAreAtomic`: `ServiceSpec => ImplementsLibrary`. Each commit is the
  action of `Library` with the values seen (`InsertCommits`, `ReturnCommits` ...);
  every other step stutters.
- `TransactionsKeepPromises`: so stock, limits, titles, the life of a record and
  `Lending`'s promise hold of the transactions.
- `CirclesNeedEditAndDelete`: `OnlyEditMeetsDelete`. Records are locked before
  users and users before titles, and only `Cron` holds several records. Link rows
  come after the title in an edit and before it in a deletion, so a circle has
  one of each, of the same title; `MCEditDelete` shows that there is one.
- `BackstopsStayIdle`, `ServiceTyped`: the other two invariants of `rivals`.

`AccountsProofs` proves about `AccountsSpec` (two and more workers included), for
every set of accounts, addresses and workers (`AccountsAssumption`):

- `AccountsAreConsistent`: `AccountsInv` is inductive. The properties alone are
  not: a service writes a copy of the row it read some statements ago, so the
  invariant has to speak of what is in memory. It says that every row in the table
  is sound (deleted means inactive, staff means ADMIN, a MEMBER has a profile);
  that each request fits the statement it is at (`Serving`); that a locked row is
  still the one that was read, and a row that was read without a lock was sound
  when it was read (`Holding`); and that no two workers hold one row (`Apart`).
  Soundness of a stale copy is enough because profiles are never removed and a
  whole-row save puts back all columns together.
- `DeletedAreInactive`, `StaffAreAdmins`, `MembersKeepProfiles`, `AccountsTyped`
  read off `DeletedIsInactive`, `StaffIffAdmin`, `MembersHaveProfile` and
  `AccountsTypeOK`.

The other properties of the accounts hold on a condition, which the theorem
states as `[]` of a predicate on where the workers are. `Moves` first sorts the
steps into four kinds: somebody joins, a request advances, an administrator's
service saves, a copy is written.

| Theorem | Property | As long as no two | Refuted without it by |
| --- | --- | --- | --- |
| `DeletedStayDeleted` | `DeletedUntilRestored` | save and copy of one row overlap (`CopiesApart`) | `MCUndelete` |
| `AddressesAreProven` | `AddressProven` | copies of one row overlap (`WritesApart`) | `MCVerified` |
| `AdministratorRemains` | `AdminRemains` | services are both between count and save (`SavesApart`), and `CopiesApart` | `last_admin` |
| `CountIsAllThatFails` | `AdminRemains`, of `AdminSpec` | (`SavesApart` alone) | `last_admin` |
| `RemovalsLeaveAnAdmin` | `RemovalLeavesAnAdmin` | administrators' services overlap (`AdminsApart`), and `CopiesApart` | the instance of `last_admin`, asked for it |

- The invariants say what a request may still rely on when it writes: `FreshCopies`
  that a copy to be written has the role, activity and deletion of the row,
  `AddressInv` that it has its address, `CountInv` that a service about to save
  would pass its tests again (`Passed`), `ActingInv` that whoever deactivates or
  deletes is an active administrator still.
- `OneByOne`: with one worker no condition can fail, so all four properties hold;
  that is what the run `accounts_alone` shows for three accounts.

`RightsProofs` proves about `RightsSpec`, with the same lemmas (each is about one
action and leaves room for the requests that `Rights` adds):

- `RightsAreConsistent`: `RightsInv`, which is `AccountsInv`, `BorrowersHaveProfile`
  and what each request has been granted so far (`Granted`): a borrower has a
  profile; at the insert, the locked row is in good standing; whoever settles has a
  role. TLC checked it on the instance of `rights` before it was proved.
- `BorrowersKeepProfiles`, `RightsTyped`, `RowsStayConsistent`: the invariants of
  the run `rights`.
- `LentWhenInGoodStanding`, `RecordsMoveByRight`: its action properties
  `LentInGoodStanding` and `MovedByRight`.
- `MembersAreLentTo`: a title is lent to a MEMBER only (`LentToMembers`), unless the
  borrower's role is written between the look at it and the lock (`RolesApart`).
  `LendingInv` carries the role that was looked at to the insert: once the row is
  locked nobody can write it (`RoleWritten`).

So each property of the run `rights` is proved as well.

`SessionsProofs` proves about `SessionSpec`, for every set of workers and tokens and
every number of password changes:

- `SessionsAreConsistent`: `SessionInv`: the types, what each request carries at
  each statement (`Asked`), and that the account's row is locked once
  (`OneHolder`). `SessionsTyped` reads off `SessionTypeOK`.
- `OldSessionsAreEnded`: `OldSessionsEndApart`. `OldSessionsEnd` alone says nothing
  of a token that is about to be inserted or of a walk that has been made;
  `EndInv` adds that whoever is to get a token was tested against the present
  password (`Fresh`) and that whoever is about to commit has found every token
  that lives (`Found`).
- `LinksResetOnce`: `LinkResetsOnceApart`. By `DueInv` the account has the password
  that was set last, no used link hashes a later one, and a reset under way
  replaces the password its link was made under.
- `LinksStayGood`: `LinkGoodUntilReset`. `KnownInv` says that logins, rotations,
  password changes and walks that found a token exist only for an account that is
  verified, as long as it keeps its address, so a reset is the only way to a new
  password before the link is used.

The assumption is `SessionsAssumption`: the bounds are naturals and the registered
address is one. So each property of the runs `sessions_apart` and `links_apart` is
proved for every value of the bounds. `old_sessions`, `MCSpentLink` and
`MCDeadLink` refute the three without their conditions.

`CatalogProofs` proves about `CatalogSpec`, for every set of rows, names and
workers and whatever `Fold` and `SlugOf` are (`KeysAssumption`: the null key is no
category):

- `CatalogIsConsistent`: `CatalogInv`, which adds to sound tables what each request
  may rely on (`Under`) and that no two hold one book (`Agree`). The copy of a category that is being edited has the slug
  the category was inserted with, whether it is still listed or gone, so a save
  that brings it back gives it no other. The book of an edit
  that holds the lock is listed and still has the publisher that was read.
- `ReferencesAreKept`, `SlugStaysAddress`, `EditsChangeWhatTheySend`: the three
  properties of the run `catalog`.
- `NamesStayDistinct`: names differ in whatever case (`NamesDistinct`) unless two
  requests carry one name at a time (`NamesApart`), which `MCSameName` shows is
  needed. `NamesInv` adds that what `validate_name` found still holds for every
  request that has not stored its name (`NameFree`), edits that bring a deleted
  category back included. TLC checked it with three categories.
  `OneByOneNamesDiffer` is the case of one worker.

`AdminProofs` proves about `AdminSiteSpec`, with the lemmas of `LibraryProofs`:

- `TablesStayTables`: `AdminInv`: `TypeOK`, `TitlesKept`, `OneActivePerTitle`, no
  shelf fuller than its title, no fine without a record, and an open page of a
  record has the member and the title that the record still has (services never
  rewrite them, and a deletion closes the page). `StockCovered` is not part of it,
  as pages break it.
- `OnlyFormsUpset` counts one title at a time, with the others in any state:
  `BorrowMoves`, `SettleMoves` and `StockSet` need no `StockCovered`.
- `AdminTyped`, `OneActiveWithPages`, `LifecycleBesideForms`: the rest of the run
  `admin_site`.

No condition above is a fact about the deployment: three workers do overlap. The
theorems say where a lock or a second test would have to be added, and that for
the property in question nothing else would. The conditions leave much overlap:
within those of `sessions_apart` and `links_apart` TLC still reaches what a mutant
of the code would break, such as a password that is saved without waiting for the
row or a login to an address that is not verified.

Only model-checked: liveness (`Served`, with the fairness of section 3), which is
out of the prover's reach, as is `ENABLED`. Only refuted, with nothing to prove:
`WriteOffStaysReduced`, `ActiveAdminRemains`, `LinkArrives`, `AcceptedIsStored`
(they break without any overlap) and `StockCovered` beside pages.

## 5. Findings

Shown by runs:

- `write_off`: `resolve_lost` promises "write-off - stock stays reduced"
  (`borrowing/services.py:279`). `update_book` (`books/services.py:45`)
  recomputes `available_copies` from `total_copies` and the unsettled records, so
  the next edit that carries `total_copies`, changed or not, brings the copy
  back. The counterexample is borrow, lose, write off, edit.
- `last_admin`: `_ensure_not_last_admin` (`users/services.py:46`) means to lock
  the administrators, but `select_for_update().count()` locks nothing. Two
  demotions of different administrators both count two and both commit. The run
  uses `AdminSpec`, the services that lock their target, so nothing else is to
  blame, and `CountIsAllThatFails` says so for any number of accounts.
- `old_sessions`: `blacklist_user_tokens` (`users/services.py:29`) sees the
  tokens that exist when it looks. A login that was tested before a deactivation
  or a password change inserts its token afterwards, and the session stays
  alive; so does the successor of a token in rotation. The one other way to leave
  an old session alive is an edit without fields that saves an old copy of the
  account (`OldSessionsAreEnded`; see `MCUndelete`).

Shown by the further configurations:

- `MCActiveAdmin`: without any concurrency: deactivate the second administrator,
  then demote yourself. `set_user_role` counts the inactive one
  (`users/services.py:218`); only `deactivate_user` passes `require_active`.
- `MCUndelete`: `reset_password`, `change_password` and an empty PATCH save every
  column of a copy that was read without a lock (`users/services.py:118, 149,
  192`), so a soft delete that commits in between is undone.
- `MCVerified`: `verify_email` tests the token against one read of the row and
  writes `email_verified` alone (`users/services.py:101-105`). If the address
  changes in between, the new one counts as verified. One request at a time it
  cannot happen (`accounts_alone`).
- `MCPromoted`: `resolve_borrow_member` tests that the borrower is a MEMBER before
  `borrow_book` locks the row, and the role is not tested again, so a member who
  is promoted in between is lent to as staff, against `limit_choices_to`
  (`borrowing/models.py:29`). The profile outlives the role, so the limit applied
  is still the account's own (`BorrowersHaveProfile`).
- `MCStatusFilter`: `filter_status` (`borrowing/filters.py:40`) compares the
  stored column for every value but OVERDUE, so until the cron job runs
  `?status=BORROWED` also lists records whose response says OVERDUE.
- `MCLostMail`: the verification link is sent after commit; a failure is logged,
  the registration is answered with 201 and nothing sends the link again.
- `MCEditDelete`: an edit that drops an author or a category of a title, and the
  deletion of the title, wait for each other: `update_book` holds the title
  (`books/services.py:26`) and wants the link rows (`51-54`), `DELETE` holds the
  link rows and wants the title. PostgreSQL aborts one of the two and its client
  is answered with an error. It is the only such circle
  (`CirclesNeedEditAndDelete`), and no document of the repository says anything of
  deadlocks.
- `MCDeadLink`: the link hashes the password and the address
  (`users/tokens.py:8-12`), and none is sent but at registration and after an edit
  that gives another address (`users/services.py:194-197`). Registering, resetting
  the password and only then opening the link leaves an account that cannot be
  verified. A member who edits the address and changes the password before opening
  the new link gets there as well.
- `MCSpentLink`: `reset_password` tests the link against a row it does not lock
  (`users/services.py:144`), so two requests with one link both pass and both set
  a password; the later one wins. An edit without fields that was under way brings
  the former password back, and with it the used link.
- `MCSameName`: `validate_name` (`books/serializers.py:58`) ignores case, the
  unique column does not: a creation and a rename that overlap leave "Art" and
  "ART". With one worker it cannot happen (`OneByOneNamesDiffer`).
- `MCTakenSlug`: without any concurrency: a category is renamed and keeps its
  slug, and a new one of the former name passes validation and violates the
  unique slug, which no handler turns into an answer.
- `MCStaleForm`: a book's page that was opened before a borrow and posted after
  it restores `available_copies`, so a copy is counted twice
  (`books/admin.py:26`); through the API the column is read-only
  (`books/tests/test_api.py:96`).

## 6. Not modelled

- The admin pages of users, profiles, authors, publishers and categories, and the
  page of a fine by itself (it is on the page of its record). The models of the
  accounts assume these pages are not used while the API runs.
- `MemberProfile.max_borrow_limit` is constant: only the admin site edits it.
- Midnight inside a transaction: a service reads the day in the step that writes, so
  two readings of one transaction cannot differ.
- What `LoanService` leaves out of the order of locks: the link rows that the
  deletion of an author or a category takes, and the key locks of foreign keys
  (inserts of records and links).
- Descriptive columns of accounts, and soft deletion and roles in `Sessions`.
- The expiry of tokens and links, throttling, settings, e-mail text, images,
  pagination, search and ordering, and the descriptive columns of the catalogue:
  no rule of the parts above depends on them.

## 7. Plan

1. Done: every module above, and the proofs of section 4.
2. The admin pages of users, and a changing `max_borrow_limit`.
3. The expiry of tokens and links, and soft deletion in `Sessions`.
