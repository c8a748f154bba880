# Verification of template_golang_web

The repository is the back end of an administration site (Go: gin, PostgreSQL
through sqlc, Redis, asynq) with a Vue client. This directory holds TLA+ models
of its core logic, TLC configurations that check them on small instances, and
TLAPS proofs that hold for every instance. Everything is translated from the
source; file and line of each definition are in `PROJECT.json` under `map`.

## 1. Inventory

Requests are served concurrently, by one or more instances of the process. They
share two stores and nothing else: PostgreSQL (several statements per
transaction, READ COMMITTED) and Redis (single commands, no transactions or
scripts). So a handler is a sequence of atomic calls, other requests run between
any two of them, each call may fail with or without having taken effect, and the
request's deadline may pass in between.

| Component | State | Operations | Interacts through | What is hard |
|---|---|---|---|---|
| Login throttle (`api/auth.go`, `cache`) | `login_fail:<name>` with expiry | read, INCR+EXPIRE, DEL | Redis, concurrent logins | check-then-act, two-command Incr |
| Admin sessions (`api/auth.go`, `api/middleware.go`) | `session:<token>`, `admin_session:<user>` | login, authMiddleware, logout, changePassword, kickAdminSession | Redis, next to database calls | two keys kept in step by separate commands, tokens read early and used late |
| Admin accounts, RBAC (`api/admin_user.go`) | `admin_users`, `admin_user_roles` | create, delete, restore, replace roles | ends sessions; permissions copied into sessions | stale snapshots, names reused after deletion |
| Wallets and ledger (`api/wallet.go`, `db/sqlc/tx_adjust_wallet.go`, `store.go`) | `wallets`, `wallet_entries` | adjust | row locks, connection pool, deadline | lost updates, partial failure, commit against deadline |
| Front-end users (`api/user.go`) | `users` | register, delete, restore | creates the wallet | partial unique indexes |
| Request pipeline, audit (`api/server.go`, `middleware.go`, `audit.go`, `response.go`) | `operation_logs` | middleware order, recovery, audit entry | wraps every handler | panics, deadlines, clients that leave, error-to-status mapping |
| Log cleanup (`scheduler`) | asynq queue in Redis | enqueue, run, retry | deletes `operation_logs` | several instances, uniqueness lock, retries, month lengths |
| Start and shutdown (`main.go`, `scheduler.go`) | process state | start, signal, drain, forced end | requests in progress, the worker's task | order of the parts, drain against request deadline |
| Listings, dashboard (`api/*.go`) | none | queries | tables that change meanwhile | int32 page arithmetic, page and total from two queries |
| Web client (`web/src`) | token in localStorage, user per tab | login, sync, logout | tabs share storage | late answers, storage events |

What makes each of them correct is stated below. `PROJECT.json` lists the hazards with the
line where each bites, and the property that watches it.

## 2. Modules

| Module | What it is |
|---|---|
| `LoginThrottle` | the failed-login counter of one username |
| `AdminSession` | sessions, authentication, and the account operations that end sessions |
| `Ledger` | abstract: what the wallet tables promise |
| `WalletLedger` | adjustWallet, AdjustWalletTx, execTx statement by statement |
| `AccountRegistry` | abstract: what the account tables promise |
| `Accounts` | the handlers that create, delete and restore front-end and admin users and replace roles, statement by statement |
| `RequestPipeline` | the middlewares around every handler, and the operation log |
| `Service` | the life of the process around the requests (extends `RequestPipeline`) |
| `LogCleanup` | the daily cleanup of the operation log by several instances |
| `Listings` | the handlers that only read, next to writers |
| `WebSession` | the session in the tabs of a browser |
| `MC...` | symmetry sets and constants for TLC |
| `...Proofs` | theorems and their proofs about the module of that name |

Each model keeps the control of the code (every call in its order, every early
return and error path) and abstracts the data. Definitions called *fault
variants* in their comment are not part of any specification: each is the
definition below it with a plausible bug, and shows that a property would
notice.

### LoginThrottle

State: the value of the key (0 when it does not exist), its remaining time (0
when it has no expiry), and where each request is. `Slots` are requests in
progress; a slot that has been answered takes the next request, so the number
of attempts is unbounded. `Admit`, `TooManyLoginFails` and `CountUnreadable`
are the read at the top of `login`; `WrongCredentials`, `RightCredentials` and
`UserUnreadable` the check of the credentials; `Incr`/`Expire` the two commands
of `cache.Incr`; `ClearFailCount` the DEL. Redis expiry is `Tick`.
`IncrFails`, `ExpireFails` and `ClearFails` are one failed attempt of a command,
executed by Redis or not. cache.go:33 leaves the client's `MaxRetries` unset, so
the client sends the command again (`Resend`, 3 times by default) before it
returns an error; one failed login may therefore count `1 + MaxRetries` times,
and an INCR that created the key and is sent again answers 2, so that
`cache.Incr` returns without EXPIRE and without an error. A command that has not
been executed when the client gives up on the attempt is assumed not to be
executed later. `lost` is not in the code: it remembers that the key got no
expiry because the answer of the INCR that created it was lost, on the wire and
whatever the client did next, or because its EXPIRE failed. These are the only
ways in which a lock stays for ever.

### AdminSession

State: per account whether it is deleted, holds `admin_user:write`, and the
version of its password; the two kinds of Redis key with their remaining time;
and per request what it is, what it knows and its next call (`req[r].pc`).
A token is identified with the login request that made it, so the payload of
`session:<token>` is read from that request's record. `OnError` gives, for each
call, where the code goes on when the call returns an error; `Written` lets a
write take effect and its answer be lost; `Executed` is a write to Redis, which
the client may also send again after its answer was lost, any number of times;
`CallFails` is a call that fails without effect. 500 stands for failInternal's
504 as well. `KickHitsOnlyTarget` is about steps, and names
the request that takes them. `Handle` is permMiddleware plus the checks that come before a
handler's first call. `UpdateAdminUserRolesTx` is one step here, with the
outcomes that `Accounts` shows it to have.

`Isolated`, `ClockRuns` and `Faults` select the environment: the same
specification is checked one request at a time and fully concurrent, because
the documentation's rules hold in the first case and not all in the second. The
rules of the first case therefore guard against the sequences of requests that
an operator and a user may send (one hazard of `PROJECT.json`); the hazards of
overlap, failing calls and the clock that break them carry no property.

Left out: how accounts are created (in `Accounts`), the content of permissions
other than `admin_user:write`, and requests with a token that was never issued (authMiddleware answers 401 without any effect).

### Ledger and WalletLedger

`WalletLedger` follows POST /wallets/:id/adjust. The conditional UPDATE is two
steps, because PostgreSQL at READ COMMITTED first evaluates the WHERE clause on
the statement's snapshot (`UpdateScan`) and, after waiting for the row lock,
again on the current row (`UpdateRow`). The lock is held until the transaction
ends, also when the second evaluation fails. `pending` is the uncommitted
balance; `Publish` makes balance and entry visible together. A passed deadline
(`expired`) makes statements fail, makes Commit return without sending
anything, and lets database/sql's goroutine roll the transaction back
(`AwaitDone`). `StatusOf` is the mapping of errors to answers by adjustWallet
and failInternal; when the rollback fails, execTx's `%v` leaves only 500.

`Ledger` has two actions, `Open` and `Post`. `ImplementsLedger` says that the
committed tables of `WalletLedger` behave like it (identity mapping of the three
table variables).

### AccountRegistry and Accounts

`Accounts` follows POST /users, POST /admin-users, PUT /admin-users/:id/roles,
and DELETE and restore of both kinds of account. State: the committed rows
(`live` and `deleted` accounts, `bound` rows of `wallets` and
`admin_user_roles`), what each request has written and not committed, and its
next call. An account is identified with the request that creates it.

What PostgreSQL does between a handler's calls decides the outcome, so it is
modelled at the grain at which transactions meet:

* the INSERT of a user writes its entry in the username index (`WriteName`) and
  then in the email index (`WriteEmail`); an entry of a transaction in progress
  makes it wait (`Blockers`), a committed one is a unique_violation. A
  restoration is an UPDATE that does the same (`RestoreLock` to
  `RestorePublish`), since the indexes only hold rows with `deleted_at` NULL;
* `DELETE FROM admin_user_roles` takes a snapshot (`DeleteScan`) and removes its
  rows one at a time (`DeleteRow`), waiting for others that remove them and
  never seeing rows committed after it began;
* a cycle of waiting transactions is broken by aborting one (`DeadlockAbort`).

`Fail`, `Rollback`, `Commit` and `StatusOfTx` are execTx and the handlers'
mapping of errors: createAdminUser answers 409 to a unique_violation, also when
it is a role listed twice; updateAdminUserRoles answers that with 500.

`AccountRegistry` has `Register`, `Delete`, `Restore` and `Rebind`;
`ImplementsRegistry` says that the committed tables behave like it. `Rebind` is
deliberately weak (the rows of one account are exchanged for others, none
twice): the stronger promise, that the list is replaced as a whole, does not
hold (`roles_merge`).

### RequestPipeline and Service

`RequestPipeline` is the onion of `setupRouter`: each request has a label, the
middleware it is in on its way in (`cors`, `auth`, `perm`, `handle`) or out
(`audit`, `finish`), and each early return of the code is a jump to the way out.
The handler itself takes effect or not, refuses, fails or panics; what it does
to the stores is in the other modules. `left` is the request's deadline,
`ctxErr` why its context is done: the deadline, or the client that left. Which
error becomes 500, 504 or nothing is `failInternal` and authMiddleware's own
mapping; failInternal tests the error and not the clock, so after the deadline
both are possible (`StatusesOfError`: a statement the database canceled or a
transaction that database/sql has ended are errors of their own). A handler that
makes no call (`CallsNothing`) answers as usual in a context that is done. The audit entry is written in a context without deadline
(`WriteAudit`), and not at all when a panic unwinds past it (`Recover`). What a
client sees is decided in `Finish`. `Routes` is the table of routes with the
permission each asks for; /swagger is one of them only in `Development`. Bodies are told apart by what masking and cutting do
to them.

`Service` adds main.go: the checks of the stores, start of worker and scheduler,
the goroutine that listens (`Listen` next to `Notify`), the signal, `Shutdown`
of net/http with its deadline, and the shutdown of the scheduler; `Killed` at
any time. What net/http does with connections that are open at the signal but
have not sent a request yet is the grace period `NewConnGrace`. A cleanup in
the worker's hands is only `task` here.

### LogCleanup

Time is counted in days and a row is its age. Every instance's cron fires after
midnight (`Enqueue`, or `NotEnqueued` when another holds the lock or Redis does
not answer); a worker computes the cutoff when it takes the task (`Take`) and
deletes later (`RunDelete`, `DeleteFails`). The lock expires within the day,
retries may go on for days, an instance may crash anywhere (`Crash`) or stop in
order (`ShutDown`), and may be down at midnight. `CutoffAge` and `KeepAge` are
the arithmetic of `AddDate` and what the configuration's wording says. The
calendar is a constant: `MonthStarts` gives the day of the year on which each
month begins; the leap day is left out, a year is like the next. `DaysBack` is
the distance between the firsts of two months, `Overflow` how far AddDate can
run over. asynq is external.

### Listings

A behaviour follows one listing, its reader and the writers of its table. A
page is one step and its total another, because they are two statements; the
roles shown with admin users are a third. Offsets are computed in
an integer type whose largest value is `MaxInt32`, and wrap at both of its
ends. The dashboard reads up to three numbers one after the other,
depending on the permissions in the session. `walk`, `seen` and `stay` are not
in the code: they record what a reader who turns the pages has seen, and which
rows were there all the time. The purge removes rows in the order of ids;
`created_at` of rows that were inserted at nearly the same moment may differ
from that order.

### WebSession

The token in localStorage is shared by `Tabs`; each tab has its view, the user
it shows, its calls in progress and the storage events on their way to it.
`SyncUser`, `OnStorageChange`, `LoginDone`, `SessionLeft` are the functions of
AppShell, LoginView and ChangePasswordView; `PushLogin` and `Mount` what the
router does to AppShell, `Leave` the way back to /login through the browser's
history, which the router's guard lets pass. A LoginView that is shown anew has
an empty form and may send a login while one of an earlier LoginView is still on
its way. A call whose component is gone still returns
(`live = FALSE`) and still clears the session when it fails. Of the back end
only the tokens it accepts are kept; since a token that was refused stays
refused, whether a call can succeed is settled when it is sent. `current` and
`shown` are not in the code: they let the property say which /me came last.

## 3. Runs

Passing runs:

| Run | Instance | Shows |
|---|---|---|
| `throttle` | 4 requests, limit 5 as in the code, failing calls, each sent again once | types; the counter stays at or below limit − 1 plus one for each request in progress and each time its INCR may be executed; a counter without expiry has somebody about to set it, or its EXPIRE or the answer of the INCR that created it was lost; every other lock ends |
| `wallet` | 3 requests, 2 wallets (one appears later), amounts -1, 0, 1, largest balance 1, 2 connections, deadlines and failures | types, no overdraft, balance = sum of entries, answers true, refinement of `Ledger` |
| `wallet_live` | 3 requests, 1 wallet, 2 connections, deadlines | every request is answered, every transaction ends |
| `session_sequential` | 5 requests: login, me, logout, changePassword, delete, restore, one at a time, clock between requests | one session per user, every session indexed, deleted accounts and changed passwords leave none, an operator remains |
| `session_concurrent` | 3 requests of all kinds, interleaved, failing, clock running | types; only the right sessions are ended; ended sessions stay ended |
| `accounts` | one account and three overlapping requests on one table, equal and different names, emails and role lists, unknown and repeated roles, failing calls | types; unique indexes hold; no account without its wallet, no row without its account; answers true; only role replacements deadlock; everybody is answered; refinement of `AccountRegistry` |
| `service` | 1 request of each kind the middlewares tell apart (preflight, refused origin, unknown route, open, logged in, guarded; with and without permission; bodies with a password, too long; handlers that call nothing; the development route) next to a probe; request deadline 3 ticks, drain 3, probe 1 | types; refused means untouched; answered means logged, and the log is true; nobody is served without the scheduler; a graceful end loses nothing, a forced one cuts only requests that had their time; after the signal the process ends |
| `cleanup` | 2 instances, 2 tasks at a time, 1 retry, a year of months with 1 and 3 days, retention of 1 month | types; at most one unfinished cleanup of a day; nothing within the retention is deleted; what is overdue goes in the end |
| `listings` | tables of up to 3 rows, pages of 2 (page numbers 0 to 5, sizes 1 to 3), offsets of 3 bits, failing queries | types; pages hold the right rows or the request is refused; paging to the end skips nothing in listings whose rows stay; total covers page; roles and dashboard numbers are right |
| `web` | 2 tabs, 2 users, 2 logins | types; once everything has arrived a tab shows the owner of the stored token; nobody stays in the shell after the session was left in another tab |

Each of the four newer modules checks its type invariant and its plainer
invariants as one (`LifeInv`, `CleanupInv`, `PagesInv`, `TabsInv`, each a
conjunction of named parts); `AnswersRight` likewise joins the action properties
of `Listings`.

Runs that end in a violation, each a disagreement between the code and what the
repository says of it (quotes in `PROJECT.json`, `findings`):

| Run | Counterexample |
|---|---|
| `throttle_lock_forever` | the INCR that creates the counter loses its answer, or the EXPIRE after it fails: the lock never ends, also when the client's second attempt succeeds and no error is reported |
| `roles_merge` | two overlapping replacements of one account's roles leave the union of both lists |

Smaller disagreements are visible in the models without a run of their own.

* Throttle: the lock is counted from the first failure and not from the last
  (`Incr` keeps the expiry); a failed login whose INCR is sent again counts more
  than once (`IncrFails`, against NOTES.md:33, five failures).
* Wallet: a probe that fails turns an insufficient balance into 404
  (`ProbeFails`); a wallet created between UPDATE and probe makes a credit
  "insufficient"; when the rollback fails after a timeout, execTx's `%v` makes
  the answer 500, where NOTES.md:197 promises 504 (`StatusOf`).
* Sessions, all with `Isolated = FALSE`: an account deleted during its user's
  login keeps a session (`DeletedHasNoSession`, against admin_user.go:244);
  two operators delete each other (`SomeOperatorRemains`, against
  admin_user.go:245); two logins that both read the index before either writes
  it leave two sessions (`OneSessionPerUser`). Further: failing calls of a login
  leave a session without index; the index can expire between the two EXPIREs
  of authMiddleware (`SessionIndexed` with `ClockRuns = TRUE`); nothing keeps
  the last operator from dropping the role (`ReplaceRoles`).
* Pipeline: a handler that panics leaves no audit entry, also when it has
  changed something (`Recover`, against audit.go:20, every write is recorded);
  a body longer than the limit is cut before it is masked, is then no longer
  JSON, and is logged with its password (`LoggedBody`, against audit.go:89);
  a deadline that passes in authMiddleware is answered 500 (`SessionUnreadable`).
* Cleanup: with the lock gone after a minute or released by completion, an
  instance whose clock is behind runs the cleanup once more (`Ack`, against
  scheduler.go:10, executed once); at the end of a month that is longer than the
  one it goes back to, AddDate runs over into the next one and rows go up to
  two days before their time (`Overflow`).
* Listings: offsets of `2^32` and more wrap to a page that is answered with
  other rows (`Exact`); rows of a listing of live rows move up when one is
  deleted between two pages, and a reader misses one (`Steady`).
* Client: a late failure of /me that was asked with an old token clears the new
  session; an overtaken answer to /me leaves the earlier user on show
  (`shown # current`, against AppShell.vue:39); a login that completes after the
  tab went back to the shell does not ask for the user again.

Bounds. Three requests are enough for a reader, a writer and a third party
between their steps; the account-deletion hazards need login, login and delete,
and the sequential run has five, so that an account can be deleted, restored,
log in again and delete in turn.
`MaxInt64 = 1` makes one credit the largest balance, so that underflow and
overflow are both one step away. A pool of two for three requests makes them
wait for connections while others wait for the row. `TokenDuration` and
`LoginFailTTL` of 2 or 3 ticks let a key be renewed, be partly used up and run
out. `MaxRetries = 1` (the client's default is 3) is enough for a command to be
executed, lose its answer and be executed again; the theorems are for any
number. The password version grows by at most one per request.

In `Accounts` the fourth request is the founder, whose account exists at first;
three others allow a deletion, a registration of the freed name and a
restoration, or two registrations that each hold what the other or a third one
wants. `Representative` picks one order of requests that are alike and keeps
each behaviour to one table, since `users` and `admin_users` share nothing.

`service` has one request of every kind and a probe because requests meet only
in the end of the process, which has to wait for both. Ticks are few, but the
request's deadline, the drain and the grace period can pass in every order.
`cleanup`: a month shorter than the one after it (a year of one day and three)
is all the calendar's irregularity there is, and the proof is for any calendar; the row that is followed stands for all of its age, and
two tasks let an old one's retries meet the next day's. `listings`: three rows
make two pages; with three bits every page number asked for that is above 2
overflows in its own way. `web`: two tabs and two logins let each tab hold an
answer or an event from before the other's login; a tab sends a form only when
nothing else of it is under way, except that a login may follow one of a
LoginView that is gone; /me calls of storage events and visits overlap. Symmetric tabs and users are safe, for the run has only invariants.

In `AdminSession` and `Service` deadlock is not checked: each request is sent
once, and when all are answered and all keys have expired, or the process has
ended, nothing is left to do.

Fairness. `LoginThrottle`: time passes, and a request that was let in makes its
next call (each returns at the latest at the deadline set by timeoutMiddleware);
nobody has to log in. `WalletLedger`: weak fairness of each handler's steps and
of `AwaitDone`, both goroutines that Go runs; none for deadlines or new wallets.
With weak fairness only, a request could in theory wait for ever for a
connection or a lock that others keep taking; with finitely many requests that
does not happen, and this is what the run checks. `Accounts`: weak fairness of
`Handle`, a handler's next step, PostgreSQL's deadlock detection included;
`CallFails` is outside, so nobody is freed by a lucky failure. `Service`: time
passes and the main goroutine goes on once it can; requests get none, since
the INSERT of the audit log has no deadline, and still the process ends.
`LogCleanup`: timers, asynq's housekeeping, and strong fairness of what needs a
running instance, of midnight and of a DELETE that succeeds now and then: an
instance may crash again and again, but neither all instances always at
midnight, nor every attempt of every day. `AdminSession`, `Listings` and
`WebSession` state no liveness.

## 4. Proofs

Every theorem holds for all values of the constants that satisfy the named
assumptions of the module: sets of requests, users, tabs, instances and tasks
of any size, any amounts, limits and timeouts. Each rests on an inductive
invariant, which TLC checked before it was proved.

`LoginThrottleProofs`. `TypeCorrect`. `UntimedCounter` is inductive with the
types; it holds with failing calls, `lost` naming the two that matter.
`Overshoot` is not: the proof uses `Budget`, which bounds the counter plus the
executions of INCR that the requests past the check may still cause (`Pending`,
which falls with every attempt). Assumes a finite set of requests, a positive
limit and lifetime, and any number of retries.

`WalletLedgerProofs`. The inductive invariant adds to the types: which
transaction may be at which statement, that two holders of row locks have
different wallets, that a transaction with a pending balance holds the lock and
its pending balance is the committed one plus its amount, within range, and
that a request has an entry only after a commit. From it follow `NoOverdraft`,
`AnswersTrue` and, step by step, `Refinement` to `Ledger`. `BalanceIsLedger`
then is an invariant of the ledger, carried over by the refinement: a posting
adds one entry, new because its request has none, and the same amount to the
balance. What is needed for it are lemmas on `MapThenSumSet`, a recursive
function on sets: that it exists on a finite set, is unique, and does not depend
on the order in which elements are taken (`SumStep`). They are proved by minimal
counterexample, from the library's facts that inclusion is well-founded on the
subsets of a finite set (`FS_StrictSubsetOrderingWellFounded`) and that a set
that is not empty then has a minimal member (`WFMin`); these speak of sets and
not of operators, so the provers can use them.

`AdminSessionProofs`. The inductive invariant says what a request knows at each
step: the token in its header and the token it found in the index were issued
to the user it takes them for, and every index entry names a token of its user.
It is needed because the tokens are read several calls before they are used.
`TypeCorrect`, `KickOnlyTarget` and `EndedForGood` follow for any users and
requests, with concurrency, failures and a running clock.

The second half of that module is about NOTES.md's rules on sessions, under the
hypothesis `Sequential`: requests are served one after the other (`Isolated`),
the clock ticks between them only, and no call fails. All of it is needed: with
any one of the three dropped, TLC finds each of the first four rules violated
(section 3 lists how). The inductive invariant `InTurn` says that what the
request under way has read is still so (`Current`), that the two keys of a
session agree down to the time they have left unless it stands between them
(`Paired`), and that the user is neither deleted nor has another password by
now, unless it is about to end the session (`Entitled`). `EverySessionIndexed`,
`OneSession`, `NoSessionOfDeleted` and `CurrentPasswords` follow.
`OperatorRemains` also assumes `OnlyGrants`: no request takes away a role
(updateAdminUserRoles lets the last operator drop it, see section 3) and there
is an operator at first; a session's copy of the permission then is never stale.

`AccountsProofs`. `UniqueIndexesHold` is not inductive: two registrations of
one name are fine only because an entry in an index is claimed before the
account appears. The inductive invariant adds who may hold which claim:
`NameClaims` and `EmailClaims` (a transaction past an index holds its entry, no
two entries clash with each other or with a live account), `RowClaims` (rows
inserted in progress clash with no committed row that its transaction has not
removed, and no two transactions remove the same row), `Phases` and
`Progress` (what has been inserted and what is still to do make up the
request's list, so a commit publishes all of it) and `Registered` (which
requests can have an account). It gives
`IndexesHold`, `Complete`, `AnswersTrue` and, action by action, `Refinement`:
only commits, deletions and the last step of a restoration are visible, and
each is one operation of the registry. `Deadlocks` is by an order on what is
waited for: whoever waits and does not replace roles waits for somebody further
on (row lock, username, email, done) who does not replace roles either
(`WaitsForLater`), so a set of transactions each of which waits for another of
them has one that replaces roles, however long the cycle.

`RolesWhole` is the other half of the `roles_merge` finding: under `InSequence`,
that no two replacements of one account's roles overlap, `RolesReplacedAsWhole`
holds, whatever fails and whatever creations, deletions and replacements for
other accounts go on meanwhile. The overlap is thus the only reason for the
violation. `Whole` adds what a replacement has done at each step (`Replacing`):
no row of its account is outside of what its DELETE has still to visit or has
removed, and the inserted and the pending items together are its list.

`ServiceProofs`. The properties speak of requests that are over; the inductive
invariant says what is known of a request at each label of the pipeline
(`OnTheWayIn`, `Handler`, `Panic`, `Audit`, `Closed`), and which parts of the
process run in which phase (`Parts`). `Refused`, `Answered` and
`TruthfulEntries` follow from the former, `Lifetime` from the latter. For
`ForcedEnd`, `Drain` relates the time a request has been served to the time the
drain has lasted: neither knows of the other, but both count the same ticks.

`LogCleanupProofs`. `OneCleanupPerDay` needs `FreshLocked`: as long as an
instance has yet to fire, the task that was enqueued today holds the lock. It
holds because only the task that holds the lock releases it, when it completes,
and it expires only when all have fired. `OnlyOverdue` needs `CutsKept`, since the
cutoff is computed when the task is taken and used at most one midnight later,
and arithmetic on the calendar, which is any increasing sequence of month
starts: the distance to the month to go back to grows, from one month to the
next, by the difference of the lengths of two months (`DaysBackShift`).

`WebSessionProofs`. One sentence about each tab of the shell is inductive
(`Informed`): it has asked /me for the token that is stored, or stored it
itself, or the last event on its way to it carries that token. With `Shows`
(what is shown is the owner of the token that was asked with) it gives
`OwnerShown`, and `NobodyLeftBehind` for the token that is gone.

`ListingsProofs`. First what `ORDER BY`, `LIMIT` and `OFFSET` do to any finite
set of ids, which no library fact says: a set can be sorted (`Sortable`, by
putting each row one after as many as come before it, an injection between finite
sets of the same size and so onto), a sorted sequence lists each row at its rank
(`SortedRows`), and a page is the rows whose ranks it covers (`PageRows`). Then
the arithmetic: an offset that fits into an int32 is exact, and one beyond it is
negative until it wraps a second time (`Overflow`), so that whoever turns the
pages one by one is refused before being shown wrong rows (`NextOffset`). It
needs that a page is not longer than the positive half of the type, which is
named in `BoundsAssumption` (50 rows and 2^31 in the code). The heart of the
invariant is `Walked`: of the rows that were there all the time, those whose
rank lies before the end of the pages read have been seen, now, whatever was
written since; ranks only grow, because rows of these listings are added
anywhere and removed at the end of the journal only. `NothingMissed` follows when
the total, read later than the page, is reached, and `Pages` from `Counted`,
which says before the total is read what it is going to cover. `Answers` is
about single steps: the page of any listing, steady or not, the roles put
together in memory (`RolesAnswered`), and the dashboard. That its sum is the sum
of the balances in whichever order they are added up (`Sums`) is again by
minimal counterexample, since both folds are recursive functions.

Only model-checked is everything that must happen in the end (`LockEnds`,
`EveryRequestAnswered`, `TransactionsEnd`, `SignalEnds`, `OverdueGo`), because
the prover has no fairness. Every safety property of a passing run is stated by
a theorem, those of the sequential run of `AdminSession` under the hypotheses
named above.

## 5. What the checks show

The money is right: no interleaving, failure or deadline overdraws a wallet,
loses an update or separates balance from ledger, and every answer but 500 can
be relied on. Sessions are right one request at a time; under concurrency the
two-key design keeps the weaker properties proved above, and section 3 lists
which of the documented rules it does not keep. The login lock is bounded from
above, but ends only if the EXPIRE does not fail and the answer of the INCR that
created the counter is not lost. The account tables are right whatever
overlaps, with the one exception that concurrent role replacements may merge:
a revoked role can come back from a list written at the same time, and, as
`RolesWhole` shows, in no other way.

What is answered is logged, and truly, whatever deadlines pass and clients
leave; the gaps are panics and failing INSERTs. A drain as long as the request
deadline cuts nobody short but a request that came in after the signal, by the
grace period at most. The cleanup keeps its promise through any sequence of
crashes and retries, and its lock is, as its comment says, only there to save
work. Readers who page through growing tables miss nothing.

## 6. Not modelled

Wording and layout of answers, logging, what Swagger serves, bcrypt, configuration, error
texts, generated mocks, packaging. Of the web client, hasPerm and the views that
only show data (what they hide is enforced by permMiddleware, which is
modelled). PostgreSQL, Redis, database/sql, net/http, asynq and the browser are
modelled only as far as the code relies on them (marked `external` in the map).

## 7. Plan

Done: `LoginThrottle`, `AdminSession`, `WalletLedger` with `Ledger`, `Accounts`
with `AccountRegistry`, `RequestPipeline` with `Service`, `LogCleanup`,
`Listings`, `WebSession`, and the safety properties of each as theorems. What is
left is composition: `LoginThrottle` with the login of `AdminSession`, and
`AdminSession` with the roles of `Accounts`.

A run is one question. When a new component brings one, the least telling of the
violations above gives way and stays in the list of smaller disagreements.
