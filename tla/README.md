# TrailSocial: TLA+ models and proofs

TrailSocial is the back end of a social network for hikers: a FastAPI application over
PostgreSQL and Redis (`src/app/`). It keeps routes, likes, comments, follows, notifications
pushed over WebSockets, paid subscriptions settled by YooKassa, and JWT sessions.

It also has a language model draw up routes in background tasks, and a script that imports routes
from OpenStreetMap.

This directory models the parts of it whose correctness depends on the order of things: requests
that overlap, a provider whose answer is lost, an entry that is deleted in time or too early, a
list that changes while it is walked, a row that is asked for and then written, rows that are
locked one after the other.

| File | What it is |
| --- | --- |
| `Payments.tla`, `PaymentLedger.tla` | subscriptions and payments; the ledger they implement |
| `AuthTokens.tla`, `Sessions.tla` | refresh rotation, logout, blacklist, revocation; the chains of tokens they implement |
| `Notifications.tla` | WebSocket connections of a user, and the push of notifications |
| `Counters.tla` | relation rows and the counter their parent carries |
| `Routes.tla` | the life of a route, its announcement to followers, and the cached lists that show it |
| `Generation.tla`, `AiTask.tla` | the generation of a route by a background task; the task a client polls, which it implements |
| `RowLocks.tla` | the row locks of the requests on follows, likes, saves, comments, routes, accounts and settings, and their deadlocks |
| `Uniqueness.tla` | accounts, reports and imported routes: rows that should be there once |
| `*Proofs.tla` | theorems about the module they extend, with their proofs |
| `MC*.tla`, `*.cfg` | symmetry sets and inputs, and the instances TLC checks |
| `PROJECT.json` | the correspondence with the source, line by line; runs, mutants, hazards, findings |

`tlc -config <run>.cfg <module>.tla` repeats a run (the module of each is in the tables below),
`tlapm <name>Proofs.tla` a proof.

---

## 1. The system

### 1.1 What a request is

One process, one event loop. Every HTTP handler runs in the session that `get_db`
(`src/app/dependencies.py:15`) opens: **one transaction, committed after the handler has
returned, rolled back if it raised**, before the response is sent. Three settings decide what
the models look like:

- The isolation level is PostgreSQL's default, READ COMMITTED. Each statement sees what was
  committed when it began; nothing holds a value that was read a statement ago. There is no
  `SELECT ... FOR UPDATE` in the repository; the only locks are those of `UPDATE`, `INSERT` and
  `DELETE`, held to the end of the transaction.
- `autoflush=False` (`src/app/core/database.py:17`). `db.add` and `db.delete` become statements
  at the next explicit `flush` or at the commit, after the `db.execute(update(...))` that
  follows them in the text. (The tests use a session with autoflush, so they see another order.)
- Several requests are open at once: every `await` is a place where another one runs.

So the unit of interleaving in the models is not the request but the statement: a step ends
where another request can observe or change what this one goes on to use. Statements nobody can
interfere with (a row just locked, a write followed by the commit) are merged with the next.

### 1.2 Components

| Component | State | Operations | Hard part | Status |
| --- | --- | --- | --- | --- |
| Payments and subscriptions (`services/payment_service.py`, `services/subscription_service.py`) | plans, payments, creator_subscriptions; YooKassa's charges and webhooks | plan upsert/patch, checkout, verify, webhook, activate, cancel | the provider call between a read and a write; a webhook and the client report the same payment; a charge whose row was rolled back | modelled |
| Authentication (`services/auth_service.py`, `core/security.py`) | users.status, users.token_version, token_blacklist, tokens in the hands of clients | signup, login, refresh, logout, hourly cleanup | two refreshes or a refresh and a logout of one token; cleanup against expiry; a token made from an old row | modelled |
| Notifications (`services/notification_service.py`, `core/ws_manager.py`, `routers/ws.py`) | notifications rows; the dict of connection lists | create and push, fan-out to followers, mark read; connect, authenticate, disconnect | the list changes while a push awaits on it; the push precedes the commit | modelled but for paging |
| Counted relations (`services/route_service.py`, `comment_service.py`, `user_service.py`, `admin_service.py`) | likes, saves, comment likes, follows, comments, routes; seven counters | make, remove, cascade | check in one statement, write in another; cascades bypass the counters; rows locked in different orders | modelled |
| Routes (`services/route_service.py`) | status, geometry, paid flag | create, update, delete, get | publishing twice; the cache is cleared before the commit | modelled but for geometry and plain fields |
| Feed and cache (`services/feed_service.py`, `core/redis.py`) | Redis keys with a time to live | cached recommendations and regions; the photo a region lacks | a reader refills from the old snapshot; Redis fails and nobody is told | cached lists modelled; ranking and search not |
| AI generation (`services/ai_service.py`) | a task per request in Redis; waypoints | start, progress, result; gap repair, outlier removal | a task lives in the process that accepted it; the repair loops, their attempts and retries | modelled |
| Reports, administration (`services/report_service.py`, `admin_service.py`) | reports, users | report, resolve, ban, unban, delete | a check with no constraint behind it | modelled but for the status of a report |
| Accounts (`services/user_service.py`) | users | profile, password, deletion | uniqueness; what a deletion takes with it | modelled but for plain fields |
| OSM import (`scripts/import_osm_routes.py`) | routes | batch import | duplicates inside one batch; an author who is created, or deleted, meanwhile | modelled |
| Migrations (`alembic/versions`) | the schema | constraints, indexes and their order | what a flush may refuse, and in which order it asks | what the models rely on |
| Upload, configuration, logging, limiter | files, none | | no state the service reads again | not modelled |

The components meet in three places. *Calls*: an activation, a like, a comment or a follow
creates a notification in its own transaction, and the push is awaited there. *Shared rows*: the
users row carries the token version, the ban and three counters. *Time*: subscriptions, tokens
and blacklist entries expire on clocks that are not the same clock.

### 1.3 What would make each of them correct

- **Payments.** The record never contradicts the provider; a payment is completed exactly when a
  subscription was activated for it; it buys one period; a subscriber has one active row; a
  renewal adds to what is left; a cancelled row stays cancelled; what was paid is delivered.
- **Tokens.** A refresh token is good for one refresh, and a spent one stays spent when its entry
  is cleaned up; a login has one live token; logout ends the session; a ban or password change ends
  every access token, for good.
- **Notifications.** Every connection of a user gets each notification once; the list holds the
  live connections and no others; a push never wedges the request it is part of.
- **Counters.** A counter equals the number of its rows, or differs only in a known direction for
  a known reason; what can be liked can be unliked.
- **Routes and their lists.** Followers hear of a route when it becomes readable, and once each
  time; a cached list is never wrong for longer than it may live; a route the author hid, priced
  or deleted disappears from it; the author's photos stay the author's.
- **AI generation.** A repaired route has no gap, its waypoints are in their order and on its line;
  the attempts come to an end whatever the services answer; the client is told one verdict, after
  which it is told nothing else (but, when the entry is gone or Redis fails, that there is none), and
  does not see "pending" for ever.
- **Rows that should be there once.** No two accounts with the same name or e-mail; duplicates of
  reports and imported routes only where requests overlapped or a batch repeated itself; the
  importer's counter agrees with its routes.
- **Locks.** Requests that only touch the same route or comment never deadlock, nor do requests that
  insert accounts; the few combinations that can are known.

`PROJECT.json` lists under `hazards` each line where one of these can go wrong.

---

## 2. Modules and their correspondence with the code

### 2.1 Payments

Follows the rows of one (subscriber, creator) pair: all statements select by that pair or by a
payment id, so pairs do not interact.

| Model | Code |
| --- | --- |
| `plan`, `payments`, `subs` | committed rows of `models/subscription.py` |
| `req` | the open transactions, with what each has read (`sub`, `exp`) |
| `charge`, `notices` | YooKassa: what happened to the card, and final webhooks not yet answered 200 |
| `CheckoutBegin`, `Charged`, `HoldPayment` | `create_checkout`: insert (invisible), charge, commit as pending |
| `VerifyBegin`, `VerifyFetch` | `verify_payment`: read the row, ask the provider |
| `WebhookBegin`, `WebhookDrop`, `VoidPayment` | `handle_webhook` |
| `MarkCompleted`, `Activate` | `UPDATE payments` with its row lock, then `activate_subscription` and the commit |
| `CancelBegin`, `CancelWrite` | `cancel_subscription` |
| `Abort` | an exception, a lost database connection or a crash |

Two details the code hides. Both error branches of `verify_payment` write a status and then
raise, so `get_db` rolls the write back; no committed payment is ever `failed`
(`TypeOK` says so, and is proved). And `scalar_one_or_none` raises when there are two
rows, so a second active row is not only wrong but disables the pair: `SelectRow` ends the
request when it meets it, and so does `CancelBegin`.

`credits`, `by`, `terms` and `raced` are observations: no guard reads them. `raced` records the
overlaps the code does not rule out, each where it takes effect: a payment is in it once an activation
of it commits while another request has already read it as one to complete (`PastCheck`); a
subscription row once a request writes it while another one that selected it is about to (`AtRow`);
and `NoSub`, which stands for the absence of a row, once two requests found none.

`PaymentLedger` is the abstract specification: per payment, a status that moves forward only and
only as far as the charge allows. `Payments` implements it under the mapping `status[p] <-
payments[p].status`, `charge <- charge`; requests, locks, subscriptions and time disappear.

### 2.2 AuthTokens

One account. Tokens are identified by their jti. `user` is the users row (status, token_version),
`expires` the `exp` claim of each refresh token, `blacklist` the `expires_at` of each
`token_blacklist` row (0: no row), `access` the access tokens ever issued (expiry of one only
means it is not used again, which every behaviour allows).

| Model | Code |
| --- | --- |
| `LoginBegin`, `LoginReturn` | `login`: read the row; make the pair |
| `RefreshBegin`, `RefreshUser`, `RefreshCommit` | `refresh_tokens`: blacklist check; users row; insert of the old jti and commit |
| `Logout` | `logout`, with its `except IntegrityError` |
| `Cleanup` | `cleanup_expired_tokens`, run hourly by `main.py` |
| `BanBegin`/`OwnerBegin`, `Revoke` | `ban_user`, `change_password`: read, then `token_version + 1` in SQL |
| `UnbanBegin`, `UnbanCommit`, `DeleteCommit` | `unban_user`, `delete_account` |
| `Accepts` | `get_current_user` |

The clock is discrete, with `TicksPerSecond` ticks to a second: the `exp` claim and the clock it
is compared with are cut to whole seconds (`Seconds`), database times are not. `session`,
`uses`, `hasty`, `ended` and `revocations` are observations.

The two grains of time meet in the blacklist. The token's `exp` is its issue plus the lifetime, in
whole seconds, and still counts during the second it names; the entry's `expires_at` is the time it
was *spent* plus the lifetime, to the microsecond (`auth_service.py:29`). So an entry outlives its
token by as much as the token was old when it was spent, unless it was spent in the very second of its
issue: such a token is `hasty`. Its entry can be cleaned up in the last second of its claim, and it can
then be used once more. The properties say exactly that and no more: every clause but one speaks of
tokens that are not hasty.

`Sessions` is the abstract specification: a token is held, then spent, once, for one successor in its
session or for the session's end; a token that was spent too soon ("hasty") may be used a second time,
and never a third. `AuthTokens` implements it under the mapping `state[t] <- TokenState(t)`; requests,
the blacklist and its cleanup, revocations and the clock disappear.

### 2.3 Notifications

One user. `conns` is `_connections[user]`; `push[n].idx` is the position of the list iterator of
`send_to_user`, which survives removals in front of it, as Python's does. Removing the last
connection drops the list from the dict while a push may still be walking it (`orphan`); the next
connection starts another list. Each notification is a request of its own: flushed, pushed,
then committed or rolled back.

### 2.4 Counters

One parent row of one of seven kinds (table at the top of the module): the kinds differ in how a
row is keyed and who may remove it, and `kind` is chosen at the start. A request first looks for
the row (`AddByUser`, `AddById`, `Remove`), later changes counter and row in one locked step
(`Insert`, `Delete`): the `UPDATE` of the counter locks the parent row, and the flush of the
relation row comes after it. What the database refuses is a guard there: the primary key, the
foreign keys, and the CHECK constraints of migration `d4e5f6a7b8c9`. A `DELETE` that finds no row
is a warning of SQLAlchemy, not an error, and the counter has gone down already.

### 2.5 Routes

One row of `trail_routes`, and one cached list it may appear in: `list` says which, the
recommendations of anonymous readers or the regions. `Shown` is what the list says of the row:
nothing, that it counts, its teaser (a paid route) or all of it. The two lists never look at each
other, so a behaviour follows one.

| Model | Code |
| --- | --- |
| `route` | committed row: status, `is_paid`, whose photos |
| `cache` | the key in Redis: what it shows, when it expires; `read` is an observation |
| `CreateRoute`, `Commit` | `create_route`: the row is inserted, the lists deleted if it is published, then the commit |
| `UpdateBegin`, `Write`, `Commit` | `update_route`: read the row; `UPDATE` (locks it), announce, delete the lists; commit |
| `DeleteBegin`, `Write`, `Commit` | `delete_route` of the author; of an administrator or the cascade of a deleted account, which leave the lists alone |
| `Invalidate` | `cache_delete_pattern`, whose errors are logged and swallowed |
| `Read`, `PhotoWrite`, `PhotoSkip`, `Fill` | `get_recommended`, `get_regions`: miss, snapshot, photo from Wikimedia (an `UPDATE` by id, committed at once), `cache_set` |
| `Tick` | the clock, and the expiry of keys in Redis |
| `Abort` | an error before the commit: the row stays, the deleted list stays deleted |

What the code does that is easy to miss: `exclude_none` means an absent field is not written, so
`Apply` changes the row **as it is at the UPDATE**, while the announcement is decided on the
status that was read **at the start** (`Announces`); and the lists are deleted **before** the
commit, when a reader still sees the old row.

`publications`, `overlapped`, `changedAt`, `raced` and `late` are observations.

### 2.6 Generation

One task, from the request to its verdict. A step ends at each call that the task awaits; what the
language model, the geocoder, OSRM, Wikimedia and Redis answer is nondeterministic, and so is every
failure the code distinguishes.

| Model | Code (`services/ai_service.py`) |
| --- | --- |
| `store` | the task's entry in Redis |
| `Poll`, `answer` | `GET /ai/tasks/{id}` (`routers/ai.py`, `_load_task`): the entry, or a 404 if there is none **or the read failed**, for `cache_get` logs an error and returns nothing (`redis.py:40`) |
| `CreateTask`, `FirstSave`, `LastSave`, `Expire` | `create_task`; the two `_save_task` of `_run_generation`, which may be lost; `_TASK_TTL` |
| `Lose` | the process stops, or the task, to which only the event loop refers, is collected |
| `AskForRoute`, `Raise` | the first call of the language model; every exception that ends the task |
| `Retry` | `_with_retry`: a network error, fewer than `_RETRY_ATTEMPTS` calls so far |
| `Geocode`, `Geocoded` | `_geocode_waypoints` up to the median centre |
| `KeepCentral`, `MoveOutlier`, `OutliersDone` | the loops of `_fix_outlier_waypoints` |
| `KeepClose`, `CloseGap`, `GapsDone` | the loops of `_fix_consecutive_gaps` |
| `BuildLine`, `TakePhoto`, `NextPhotos`, `Build` | OSRM and `_snap_waypoints_to_geometry`; the photos; `GeneratedRoute(...)` |

A waypoint is a place and the position it had in the language model's list (`src`, 0 for an
inserted point). A place is a pair of integers and a distance the square of the Euclidean one: the
passes only compare distances with a limit. `MedianCenter` takes the median of each coordinate, so
the centre need not be a place. `GeneratedRoute(...)` may still fail on a missing field: `Raise` at
`build`.

`AiTask` is what a client that polls may rely on. The entry is "pending" at most once and first, one
verdict at most and last, and otherwise only ever forgotten; a poll is answered with the entry or with
a 404. So a client may be told "pending", 404 and "pending" again, or 404 before the verdict; but after
a verdict it is told that verdict or a 404, never "pending" and never the other one (`OneVerdict`, a
theorem). `Generation` implements it with `status <- store`, `phase <- Phase` and `answer <- answer`.

### 2.7 RowLocks

Users, one route and one comment. Each of thirteen kinds of requests is the sequence of row locks
that its statements take (`FollowLocks` .. `DeleteAccountLocks`), in the order in which they reach
the database, which with `autoflush` off is not the order of the text: `db.delete(route)` comes
before the `UPDATE` of the author's counter and is sent after it. The modes and their conflicts,
the wait and the deadlock detector are PostgreSQL's. A request begins only if its `SELECT`s find
their rows, but takes its locks later, when they may be gone. Left out are `mark_all_as_read` (which
locks the reader's notifications in no stated order), the payments (their one lock that is waited for
is in `Payments`) and the importer (in `Uniqueness`).

### 2.8 Uniqueness

Three times the same pattern, a question and a write, with and without an index to decide it.

| Model | Code |
| --- | --- |
| `SignupBegin`, `SignupCheckEmail` | `signup`: the two questions |
| `InsertEmail`, `InsertName` | the `INSERT` at the flush of `signup` and `get_or_create_system_user`: one unique index after the other |
| `ChangeEmailBegin`, `ChangeEmailLock`, `ChangeEmailWrite` | `change_email`: the question, then the `UPDATE`: its row, then the index of the new e-mail |
| `DeleteAccountBegin`, `DeleteAccountWrite` | `delete_account` and its cascade to reports and routes |
| `CommitAccount`, `Abort` | `get_db` |
| `ReportBegin`, `ReportCommit` | `create_report` on one target |
| `ImportBegin` | `get_or_create_system_user`, in the transaction of `import_routes` |
| `ImportCheck`, `ImportCount`, `ImportCommit` | one title of the batch; the `UPDATE` of `routes_count`; the inserts and the commit |
| `CreateRoute`, `DeleteRoute` | users write and delete routes of the same titles meanwhile |
| `Held`, `LockedRows` | PostgreSQL: the index entries and the rows an open transaction has |
| `NextKeys`, `NextRows`, `Blocks`, `Clear` | what its next statement asks for, and who keeps it waiting |
| `Taken` | a unique index refuses a key that another account has by then |

The order matters for who can wait for whom, so the indexes are filled one at a time, in the order in
which the first migration creates them (`2718d95a2c5b_initial.py:39`): e-mail, then name. A
transaction that waits for the name therefore holds its e-mail, and a change of e-mail that waits for
the new one holds its row with both old keys.

Two things follow from `scalar_one_or_none`, which raises when it finds more than one row. A user
with two reports on a target gets an error at every later attempt instead of the 409. And a title
that is stored twice makes **every later import** that meets it fail as a whole (`ImportCheck`).

`excused` is an observation. A title here is a title together with its region. The target of a
report, and the letter case of e-mails (`change_email` lower-cases, `signup` lower-cases the domain
only), are left out.

---

## 3. What is checked

Every run is exhaustive for its instance. `CHECK_DEADLOCK FALSE` is set where the system may come to
an end: `counters` (once the parent row is gone there may be nothing left to do), `generation` (one
task, which ends) and `rowlocks` (everything may be deleted). In `rowlocks` the deadlocks of interest
are those of PostgreSQL, which are states with a step: `AbortVictim`.

| Run | Module | Instance | Properties |
| --- | --- | --- | --- |
| `payments_concurrent` | MCPayments | 2 payments, 4 rows, 2 requests, clock 0..3, period 2 | `RowsAgreeWithCharges`, `CompletedIffActivated`, `ActiveRowsFromDistinctPayments`, `LedgerSpec`, `CreditsBounded`, `ActiveRowsBounded`, `EveryTermCounts`, `CompletionGivesAccess` |
| `payments_completion` | Payments | 2 payments, 2 rows, 1 request, clock 0..3, period 2, fair | `RecordedPaymentCompletes` |
| `auth` | MCAuthTokens | 3 tokens, 2 requests, two ticks to a second, lifetime 2 ticks, patience 1, clock 2..5 | `SpentOnce`, `RevivedOnlyAtTheEnd`, `OneLiveTokenPerSession`, `LogoutEndsSession`, `AcceptedTokensAreCurrent`, `RotationSpec` |
| `notifications` | Notifications | 2 notifications, 2 connections, fair | `QuietPushReachesAll`, `PushedAtMostOnce`, `ListIsExact`, `PushesEnd` |
| `counters` | MCCounters | 3 keys, 3 requests, 7 kinds | `NeverTooHigh`, `NeverTooLow` |
| `routes` | MCRoutes | 2 requests, 2 lists, 8 changes, time to live 1, patience 1, clock 0..3, 2 publications | `PublishedIsAnnounced`, `AnnouncedPerPublication`, `StaleBounded`, `FreshUnlessRaced`, `AuthorPhotosKept` |
| `generation` | MCGeneration | 4 places, 3 waypoints, 2 attempts of each kind, 2 calls, lines of 2, 3 photos with limits 1 and 2, fair | `GapsClosed`, `InOrder`, `RouteDrawable`, `PhotosBounded`, `TaskSpec`, `GenerationEnds`, `PendingEnds` |
| `rowlocks` | RowLocks | 3 users (author, commenter, another), 2 requests, 13 kinds | `DeadlocksAreKnown` |
| `uniqueness` | Uniqueness | 2 account ids, 2 names, 2 e-mails, 2 requests, batches of 2, 1 title, fair | `AccountsDistinct`, `DuplicatesBounded`, `ImportCountsAgree`, `StoredOnce`, `CirclesHaveAnEmailChange`, `RequestsEnd` |

The type invariants are left to TLAPS (section 4), like `RemovalPossible`, which is proved beside the
properties it serves.

**What they show.** *Payments*: whatever overlaps, aborts or is lost, the records agree with the
provider, completion and activation come together, and the history of each payment is one the
ledger allows. What the documentation promises about the *subscription* (one period per payment,
one row, no lost period, access on success) each has one overlap that breaks it, and nothing else
does: not repeated reports, aborts, cancellations at another moment, or the clock. A second credit
needs a request that had read the payment before the first one committed; a second row needs two
activations that had both found none; a lost period two requests that had read the same row; a
completed payment without access a cancellation between the `SELECT` and the `UPDATE`. Credits and
rows never exceed the number of requests open at a time.
*Tokens*: rotation is sound but for the hasty tokens of section 2.2: only the primary key on the jti
stands between two refreshes of one token, and it is enough, the cleanup included: each token is good
for one thing once. *Notifications*: the
list is exact whatever connects and leaves; a push that nobody disturbs reaches everyone.
*Counters*: likes, retries, aborts and duplicates keep the counter exact; it is too high only
after a deleted account and too low only after two overlapping removals of the same row.
*Routes*: a readable route was always announced, and once per publication unless two updates
overlapped; a cached list is right unless a reader and a writer were at it together, its deletion
failed, or an administrator's was never made, and even then it is wrong for at most the time to
live and the time its reader took. *Generation*: what the repairs leave is a route, though not
always the best they could (section 3.3), every task that is not lost ends, and a client that polls
is never left with "pending" for longer than the entry lives. *Locks*: only follows in a ring and
the deletion of an account deadlock; likes, comments, edits and deletions of the same route do not,
in any combination. *Uniqueness*: with an index behind it the pattern is safe and its loser gets a
500; without one, duplicates are bounded by what overlaps, or by what a batch repeats. Signups, imports,
reports and deletions wait for each other's keys and rows, but never in a circle; a change of e-mail
can close one.

**Bounds.** *Payments*: every hazard found needs at most two requests and two payments; two rows are
enough in the run with one request, a row for each payment, and in the concurrent one four let two
payments that were each credited twice insert their own. `payments_completion` has one request,
because its question is what repetition achieves, not overlap; a request there still meets every
abort. A clock of 3 with a period of 2 lets a row be renewed before and after its expiry. *Auth*:
three tokens are a login, its successor and a second session or third generation; lifetime 2 and
patience 1 are the smallest that satisfy the assumption of section 3.1, two ticks to a second the
fewest that tell the two grains of time apart (a token can be spent in the second of its issue or in
the next, and can be in its last second before or after its entry has gone), and the clock goes past
the expiry of the first tokens, so cleanup and expiry meet open requests. `MaxVersion` = 1 caps when
a revocation may *start*; two that started together both commit. *Notifications*: two pushes and two
connections give a push that starts on one list and ends on its successor; the skipped connection
needs no more. *Counters*: three requests and keys are one more than any violation needs. *Routes*:
two requests are a writer and a reader, two writers, or two readers; the clock lets a list be filled
late, outlive its change and expire; a third publication would repeat the second (`MaxPublications`
is a bound on the start of updates). The changes are those of one field, and the publication that
sets the price too. *Generation*: the four places are two near each other, one within reach of the
second only, and one far from all, so each pass meets waypoints it keeps, moves and drops, and a
repair that undoes another; three waypoints are two and one between them; each limit is the smallest
that can be both reached and missed. *RowLocks*: two requests show every pair; rings of three are
left to the theorem. *Uniqueness*: two of each are a holder and a rival; a batch of two can repeat
its title. That nothing depends on these bounds is what the proofs are for.

**Symmetry** is used over payments, rows, requests, tokens and keys in the safety runs; the runs
with liveness use none.

### 3.1 Assumptions

- YooKassa charges once per payment id, settles a 3DS payment once, and repeats the final webhook
  until it is answered 200. A payment id is used by one checkout.
- `AuthAssumption`: no request stays open longer than `Patience`, and a refresh token lives at
  least twice that (the code: 30 days). Without a bound on open requests no blacklist entry with
  an expiry could protect a request that passed its check long ago. `Tick` enforces it.
- A reader of a list needs at most `Patience` from its snapshot to `cache_set`. The code bounds
  the fetch of one photo (15 s for the search, 10 s for the download); `CACHE_TTL_SECONDS` is 300.
  `StaleBounded` states the sum of both.
- A send on a connection whose client is still there does not raise.

### 3.2 Fairness

`Payments!FairSpec`. A request that is scheduled goes on or aborts: the calls to YooKassa have a
timeout (`ServerFairness`). Somebody keeps reporting each recorded payment: its client, through
`POST /payments/verify/{id}`, or YooKassa, which repeats a webhook that is not answered 200; an
attempt may abort, but not every attempt on a payment does (`ReportFairness`, strong, because an
aborted attempt is made anew). The provider and the payer are not assumed to act: a payment may
wait for 3DS for ever. `Notifications!FairSpec`: a send returns or raises, and a handler whose
client has gone gets its `WebSocketDisconnect`. `Generation!FairSpec`: the event loop runs the task
(weak, over all its steps together: which answer comes is left open, so the services may fail for
ever), and Redis expires entries. `Uniqueness!FairSpec`: a request goes on, and PostgreSQL grants a
row or a key in the order it was asked for, so that a wait which ends again and again is not passed
over (strong, per request). It is not assumed that the deadlock detector runs: `RequestsEnd` leaves out
the requests that wait when a circle with a change of e-mail has formed.

### 3.3 Where code and documentation part

Each of these runs has one property, taken from a docstring, and TLC shows how the code breaks it
(`findings` quotes the line).

| Run | Property | What happens |
| --- | --- | --- |
| `payments_double_credit` | `CreditedOnce` | webhook and verify (or two verifies) both read `pending`; the one payment buys two periods |
| `notifications_skipped` | `PushReachesAll` | a removal at or before the iterator's position makes it skip a connection |
| `generation_dropped` | `DroppedOnlyAfterAllAttempts` | a point inserted to bridge a gap takes the place of the waypoint behind the gap, which is dropped at once and not checked again |

More of the kind, seen by changing a value of an instance or leaving out a clause of a property:

- `ActiveRowsBounded` without its `raced`: two activations, of two payments, both find no active row
  and both insert one (`subscription_service.py:129`); from then on every activation, cancellation and check
  of the pair raises, though `models/subscription.py:62` speaks of the active subscription of a user.
- `RecordedPaymentCompletes` speaks of *recorded* payments: a charge whose answer is lost or whose
  commit fails leaves no row at all (`payment_service.py:189`), and neither the webhook nor verify
  finds anything to complete.
- `LogoutEndsSession` speaks of logouts that *wrote their entry*: one that meets a refresh of its
  token takes the refresh for another logout ("concurrent logout, игнорируем",
  `auth_service.py:131`), is answered 204, and the session goes on.
- `DeadlocksAreKnown` without its exceptions: two users who follow each other in the same moment
  (`user_service.py:126`), and an account deleted while somebody likes its route; PostgreSQL aborts
  one, which is answered 500.
- `StoredOnce` without `excused`, `DuplicatesBounded` with 1 for the number of requests: a batch
  with the same name twice in one region, and two reports sent at once; each blocks what comes
  after it (section 2.8).
- `EveryTermCounts` without its `raced`: two renewals read the same old expiry, and one period is lost
  (`subscription_service.py:140`).
- `CompletionGivesAccess` without its `raced`: a cancellation between SELECT and UPDATE of a renewal;
  the period is written to a cancelled row (`subscription_service.py:142`).
- `RecordedPaymentCompletes` with reports by webhook only: one that arrives before checkout commits
  finds no row, is answered 200 and never repeated (`payment_service.py:319`).
- `RevivedOnlyAtTheEnd`, `SpentOnce` and `RotationSpec` without `hasty`: a token that was refreshed or
  logged out in the second of its issue is taken once more in the last second of its claim, after the
  cleanup has removed its entry (`auth_service.py:139`). `models/token_blacklist.py:10` says that the
  table keeps the jti of a revoked refresh token until the token's expiry.
- `CirclesHaveAnEmailChange` without its exception: an account is created while somebody else's signup,
  which has looked for that name before, goes on; that signup enters the e-mail to which the account is
  just being changed. It waits for the name and the change waits for the e-mail (`user_service.py:226`);
  PostgreSQL aborts one, which is answered 500.
- `TaskSpec` without the 404 of a failed read: a client may be told that a task it saw pending is not
  there, and see it pending, or completed, at its next poll (`redis.py:40`).
- `NeverTooLow` without its `raced`: two removals of one row both decrement.
- `AnnouncedPerPublication` without its `overlapped`: two updates that publish the same draft both
  notify every follower; one that read `published` before a withdrawal announces nothing when it
  publishes again (`route_service.py:232`, where the comment says "Notify followers when status
  changes to published").
- `FreshUnlessRaced` without its `raced`: a list filled between the deletion and the commit shows
  a route that has become private, which `models/route.py:21` says only its author sees, for up
  to five minutes; so does the list an administrator's deletion left behind (`admin_service.py:106`).
- `AuthorPhotosKept` without its `late`: the photo found for a region overwrites those the author
  set while it was being downloaded (`feed_service.py:253`).

---

## 4. What is proved

TLAPS checks the following for every value of the constants: any number of payments, requests,
tokens, keys, changes, users, waypoints and places, any period, lifetime, patience, limit and number
of attempts.

| Theorem | Says | Assumes |
| --- | --- | --- |
| `PaymentsProofs!TypeCorrect` | `Spec => []TypeOK` | `PaymentsAssumption` |
| `PaymentsProofs!RecordsAgree` | `[]RowsAgreeWithCharges` | |
| `PaymentsProofs!CompletionIsActivation` | `[]CompletedIffActivated` | |
| `PaymentsProofs!DistinctPayments` | `[]ActiveRowsFromDistinctPayments` | |
| `PaymentsProofs!ImplementsLedger` | `Spec => LedgerSpec` | |
| `PaymentsProofs!CreditsStayBounded`, `RowsStayBounded`, `TermsCount`, `AccessGiven` | `[]CreditsBounded`, `[]ActiveRowsBounded`, `[]EveryTermCounts`, `CompletionGivesAccess` | |
| `AuthTokensProofs!TypeCorrect`, `AcceptedCurrent` | `[]TypeOK`, `[]AcceptedTokensAreCurrent` | `AuthAssumption` |
| `AuthTokensProofs!UsedOnce`, `RevivedLate`, `OneLiveToken`, `LogoutEnds` | `[]SpentOnce`, `[]RevivedOnlyAtTheEnd`, `[]OneLiveTokenPerSession`, `[]LogoutEndsSession` | |
| `AuthTokensProofs!ImplementsRotation` | `Spec => RotationSpec` | |
| `NotificationsProofs!TypeCorrect`, `ListExact`, `PushedOnce`, `QuietReachesAll` | `[]TypeOK` and all the invariants of the run `notifications` | nothing |
| `CountersProofs!TypeCorrect`, `NotInflated`, `NotDeflated`, `RemovalsGoThrough` | `[]TypeOK`, `[]NeverTooHigh`, `[]NeverTooLow`, `[]RemovalPossible` | `CountersAssumption`: `Keys` is finite |
| `RoutesProofs!TypeCorrect`, `Announced`, `OnePerPublication`, `StaleForALimitedTime`, `FreshWithoutRace`, `PhotosKept` | `[]TypeOK` and all the properties of the run `routes` | `RoutesAssumption` |
| `GenerationProofs!TypeCorrect`, `NoGapsLeft`, `OrderKept`, `CompletedIsDrawable`, `PhotosStayBounded` | `[]TypeOK` and all the invariants of the run `generation` | `GenerationAssumption` |
| `GenerationProofs!ImplementsTask` | `Spec => TaskSpec` | |
| `GenerationProofs!OneVerdict` | once a poll was answered with a verdict, every later one is answered with it or with a 404 | |
| `GenerationProofs!WorkIsBounded`, `TasksMoveOn` | every step leaves a task less to do, in a well-founded order (`WorkShrinks`) | |
| `RowLocksProofs!TypeCorrect`, `OnlyKnownDeadlocks` | `[]TypeOK`, `[]DeadlocksAreKnown` | `RowLocksAssumption` |
| `UniquenessProofs!TypeCorrect`, `AccountsStayDistinct`, `ReportsBounded`, `ImportCountStaysExact`, `TitlesStoredOnce`, `OnlyEmailChangesDeadlock`, `RequestsMoveOn` | `[]TypeOK`, all the invariants of the run `uniqueness`, and that a request has a bounded number of steps before it (`RanksFall`) | `UniquenessAssumption`: accounts, titles and requests are finite in number |

**Payments.** None of the properties is inductive: a request acts on what it read earlier. The
invariant says what each open request still *knows* at its step (`Knows`: at `pay` and `sub` the
charge has succeeded, which nothing can undo; `RowKnown`: the row it selected exists, and if it
found none, its own payment has no active row) and who *owns* a payment (`Owns`: before its row is
committed, the checkout alone; `OneHolder`: after its UPDATE, the transaction that locks it). With
`OneHolder`, two activations of one payment are ordered and the second sees the row of the first.
`ImplementsLedger` needs the same facts: each step that changes a status finds charge and old
status as the ledger's guard wants them.

The last four theorems hold for any number of requests. `OverlapInv` says that what an open request
read is still so *or is recorded in `raced`*, which is what makes them inductive. `CreditInv`: a payment
that has bought something and that an open request may still activate is in `raced`; and the
activations committed and the requests that may commit another (`Upcoming`) are together no more than
there are requests, so each commit takes from the second number what it adds to the first. `RowInv` is
the same of active rows and of the activations that found none (`Inserting`). `TermInv`: the row an
activation selected, if it is not in `raced`, is active still and the expiry that was computed adds a
period to the one it has now; an activation that writes it puts it in `raced` for every other request
that selected it. `AccessGiven` reads off the same fact.

**Notifications.** Taking connections out of a list moves the others up. `Ranks` is the fact behind
it: the positions that stay, counted from the front, are as many as there are, in their order, and
none is counted further back than it was. So nothing moves from before the iterator of a push to
behind it, and what is appended was never in the list. `OnceInv`: what waits behind the iterator has
not been sent the notification, nor is the connection it is being sent to among it. `QuietInv`: as
long as no connection leaves the list during the push, the connections of its start keep their places,
and those before the iterator have been served. A step of another push or connection keeps both
(`SteadyNote`); a step of the push itself goes to the next place (`ToNextStep`) or past the end
(`EndLoopStep`).

**AuthTokens.** `Inv` carries the types and the fact that the version in a request or token is the
number of revocations at its read. `TokenInv` adds the life of a refresh token. A token is *spent*
once a refresh or a logout wrote its entry. `SpentInv` is the core. For a token that was not hasty the
entry outlives the token **and every open request that holds it** (`Outlives`, `MayHold`: `since +
Patience <= blacklist[t]`), so the cleanup cannot reopen the door for a request that passed the check
before. The entry of a hasty one may go in the token's last second (`RanOut`), and a request that
begins after that finds none; but the time is then a whole lifetime after the token's issue, so the
second entry it writes is no longer written in the second of the issue and outlives the token like any
other: there is no third use. Then a request that finds no entry at its commit holds a token it may
use (`HeldUnspent`); `SessionInv` follows: of two issued tokens of a session without a hasty one, one
is spent. The four theorems read off it, and so does `ImplementsRotation`: a refresh that commits and
a logout that writes find their token held or hasty, and no other step but a login changes what
`Sessions` sees (`StepUnseen`). Nothing is assumed of the number of ticks in a second: what is needed
of `Seconds` is that it does not run backwards and that times a second apart differ in it
(`SecondsGrow`).

**Counters.** `NeverTooHigh` is inductive with the types. `NeverTooLow` is not: a `Delete` takes one
from the counter even if its row is gone. `LowInv` keeps the invariant that without overlapping
removals each key has at most one removal in progress, and the counter covers the rows and the
pending removals together.

**Routes.** Each property has a small invariant beside the types. `RowInv`: one request at most has
the row locked, nobody creates a row that exists or writes one that does not. On it rest
`AnnounceInv` (whoever reads `published`, now or as an old status, comes after an announcement) and
`OldInv` (without overlap the old status an update holds is the row's, so the decision to announce
is the transition). `AgeInv` says of each open reader's snapshot, and of the list made from it, that
it is the present one or not younger than the last change; with the bound on readers it gives the
bound on staleness. `FreshInv` adds that there is no list while a request that deleted it waits for
its commit. Three lemmas (`QuietSteps`, `CalmSteps`, `StillSteps`) set aside the steps that do not
matter to the invariant at hand.

**Generation.** `GapsInv` adds to `GapsClosed` that the last pass keeps its first waypoint, so that
there is always a neighbour to measure from. `OrderInv` says where the passes are: everything kept
comes from before the waypoint the pass is at (`Ahead`), everything geocoded from before the one it
asks for (`Collected`). `DrawnInv` follows the points of the answer from `BuildLine`, where
`SnapFacts` puts them on the line, to the verdict; `NearestIsOnLine` needs that a non-empty line has
a nearest coordinate, by the least-number principle on its squared distances (`NatMin`). `PhotosInv`
adds that the photos are below the total while they are being taken. The refinement rests on
`HasVerdict`: at `verdict` the outcome is one. `OneVerdict` is proved of `AiTask` (`VerdictsAreLast`:
a verdict is written when the task is closed, and then neither the entry nor an answer can become
another) and holds of `Generation` by the refinement. `TasksMoveOn` is the safety half of
`GenerationEnds`: what is left to a task is counted in stages, waypoints, attempts and retries, and
each step lowers the first of the four that it changes, while `WorkIsBounded` keeps all four natural
(`PassInv`: a pass is one waypoint past its last at most).

**RowLocks.** Only the types are inductive; the rest is about one state. `LocksAre` goes through the
kinds of requests and shows the order of their locks (`Pair`): what is written is a user's row, then
the route, then the comment, and two users' rows only by a follow; foreign key checks come where
they like, but wait only for a users row locked "for update", which nobody takes but the deletion of
an account and `change_email`, and that one locks nothing else. In a cycle of waits everybody also
blocks somebody (`EveryoneBlocks`). So in a cycle without a deletion nobody waits with a foreign key
check, then nobody for the comment, then nobody for the route (`DeadlockIs`): what is left waits for
a user's row and has another one, and is a follow.

**Uniqueness.** `AccountsDistinct` is not inductive: a request that passed the index commits later.
`AccountsInv` says it key by key: a key that an open request has entered is no live account's, but of
the account it rewrites, and no other request's (`KeysHeld`); two requests never rewrite the same row
(`RowsHeld`); new ids are new (`IdsFresh`); and a change of e-mail leaves the name (`NameKept`), so the
name that it does not enter again is its own. What keeps `KeysHeld` is `Clear`: a request enters a key
only when nobody holds it (`ClearKeys`), and `Held` includes the keys of a row that is being replaced.
The lemmas follow what a step does to these facts: it gives the request a key or a row (`HoldStep`),
nothing (`QuietStep`, `SameStep`), or takes all it has (`FinishStep`, `CommitStep`); one lemma per
action says which it is. `ReportsInv` counts the reports a user has together with those under way:
never more than there are requests.

Two of the invariants speak of a sum over a set (`SumFunction`, a fold). The library's induction
theorems take an operator and cannot be used, but well-foundedness of `<` is a statement about sets:
`NatMin` (a least element) gives `SubsetInduction`, induction over the subsets of a finite set for a
*set* `F` of those where the fact holds. With it `SumDefined` shows that the recursion inside the fold
has a solution and `SumOfRemove` that any member can be taken out first, so the order that `CHOOSE`
happens to take does not matter; `SumExcept`, `SumPlus`, `SumZero` and `SumBounds` are what the actions
need. `CountInv` says that `routes_count` is the sum over the routes of the account, and the number an
import will add to it the sum over what it will insert; hence a counter that is taken from is positive,
which makes `TypeOK` hold. `OnceInv` is what `StoredOnce` needs of a title that is not excused: it is
stored once at most, one import at most is in progress, and that one inserts it once at most and only
if it is not stored.

Two theorems are what `RequestsEnd` rests on besides fairness. `OnlyEmailChangesDeadlock`: in a circle
of waits each request also blocks one. If none changes an e-mail, a request that blocks while it waits
is at its second index: it has its e-mail entered and asks for its name (`BlockedHolder`; an import
that has inserted its account waits for the row of that account only, which nobody else can have, by
`IdsFresh`). So what it is waited for is its e-mail, and each of them asks for a name that nobody in
the circle holds. A change of e-mail holds a name and asks for an e-mail, and closes the circle.
`RequestsMoveOn`: every step of a request in progress lowers its `Rank`, one for each title of its
batch and five, and no other request changes it.

**Only model-checked.** Liveness (`RecordedPaymentCompletes`, `PushesEnd`, `GenerationEnds`,
`PendingEnds`, `RequestsEnd`): fairness and ENABLED are beyond the prover.
For `GenerationEnds` and `RequestsEnd` the step that does not need them is proved:
there is no infinite run of steps of a task or a request.

---

## 5. What is not modelled, and why

- Queries that only read: listings, search, ranking, enrichment of responses, pagination.
- Passwords, signatures, rate limits, CORS, uploads: no state these models look at, or libraries.
- Amounts and the marketplace split: computed once, compared with nothing.
- Prompts, the parsing of answers, and the descriptive fields of a generated or imported route: no
  decision depends on them but the success of the step, which is nondeterministic.
- The status of a report and the plain fields of a profile: one unconditional `UPDATE` each.
- Expiry of access tokens: a token no one uses any more is among the behaviours.
- Several server processes. The database models do not care; the WebSocket registry is one
  process's memory, and with more processes a push reaches only its own connections.
- Migrations, but for what the models rely on: primary keys, unique indexes, CHECKs and cascades, which
  are guards of the actions, and the order of the unique indexes of users (`Uniqueness`).

## 6. Where it can be extended

1. One model of a user with several pairs and several connections, to see the notification of an
   activation inside its transaction (`Payments` and `Notifications` share no state today).
