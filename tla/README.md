# Ford Radar Competitivo: specifications, model checking and proofs

This directory holds TLA+ specifications of the backend in `src/app/`: a FastAPI
service that receives competitor spreadsheets from n8n, keeps users and JWT
sessions, limits request rates and writes a hash-chained audit trail. What is
worth specifying here is not what one request does alone, which the tests in
`src/tests/` cover, but what requests do to one another: every `await` in a
handler lets another request of the same worker run, every uvicorn worker is a
process of its own over one database, and any statement or commit may fail.

Contents: [the system](#1-the-system), [modules and code](#2-modules-and-code),
[abstractions](#3-abstractions), [runs](#4-runs), [fairness](#5-fairness),
[proofs](#6-proofs), [disagreements between code and docs](#7-disagreements-between-code-and-docs),
[what is not modelled](#8-what-is-not-modelled), [plan](#9-plan).

## 1. The system

| Component | State | Operations | Correct when |
|---|---|---|---|
| Audit trail, writing (`audit/service.py`: `write_audit`, `_last_hash`, `_hash_body`) | table `audit_logs`; `_chain_lock` of the process | SELECT the last hash and INSERT a row inside the lock; the caller commits | every row continues an earlier committed row; an answered request has its row; the lock is never left taken; the trail is one chain |
| Audit trail, verification (`verify_chain`) | none | one pass over the rows by id | it finds the first row that does not fit, wherever the table was changed; which changes leave no such row is known |
| Sessions (`routes/auth.py`, `auth/service.py`, `auth/deps.py`) | table `revoked_tokens`; `users.is_active` and `users.role`; the tokens clients hold | login, refresh with rotation, logout, guard of every other route, `require_role` of the admin routes | a session never forks; logout is final; a void token, or one whose role is no longer true, is refused |
| Account lockout (`authenticate`) | `users.failed_login_count`, `users.locked_until` | load, compare with the clock, count or reset, commit | `MAX_FAILED` failures lock; the lock is respected and temporary; no lock without failures |
| Rate limiter (`middleware/rate_limit.py`) | `_hits`: a deque per bucket and client | hit: prune, refuse or append | at most `limit` requests in any window; nobody refused without cause |
| Ingestion (`routes/ingest.py`, `security/hmac_sign.py`) | `spreadsheet_ingests`, `competitors`, an audit row | verify the signature, look up the sha256, insert all, commit once | a sheet is stored once and whole; what an answer lets n8n conclude is true |
| User administration (`routes/admin.py`, `create_user`, `scripts/bootstrap_admin.py`) | `users`, an audit row | look up the pseudonym, insert, commit, audit, commit | one account per email; the trail shows every creation |
| Configuration and encryption (`config.py`, `security/crypto.py`, `models/base.py`) | the environment; the answer `get_settings` keeps in each process | validate and start, stop, rotate a secret | all processes compute with the same secrets; what one encrypts the others read |
| Request size limit (`middleware/request_size.py`) | bytes counted per request | check Content-Length; count the chunks a route reads | no route gets more than the limit |
| Suspicious events (`record_suspicious_event`) | `suspicious_events`; background tasks | insert from a task that a refusal starts | best effort: one per refusal, never without one |
| Redirect to https, CORS | none | answer a request before anything counts it | part of FrontDoor |
| Request id, headers of answers, logging, permission table, schemas | none that lasts | | see [section 8](#8-what-is-not-modelled) |

How they interact. Login, logout, ingestion and user creation call `write_audit`
inside their own database session, and the audit row is committed with whatever
else that session holds: with the spreadsheet in ingestion, alone in user
creation (the user has been committed before). Login runs `authenticate` (which
commits the lockout counters), then the audit row. `get_current_user` guards all
other routes and reads the table that refresh and logout write. The middlewares
run before any route; the rate limiter is the only one with state. All shared
state is in the database, except `_chain_lock`, the limiter and the settings, which every
worker has for itself and loses when it dies. A refusal of the limiter starts a task that writes a
suspicious event in a session of its own.

What is hard here:

* a read before an `await` and a write after it (the last hash, the revocation
  list, the failure counter, the sha256, the pseudonym);
* a `threading.Lock` held across awaits on an event loop;
* the distance between a flush, which makes an id, and a commit, which makes the
  row visible: ids and commits come in different orders, and roll-backs leave gaps;
* commits whose answer is lost: the caller sees an error and the row may be there,
  or appear later;
* two commits in one handler (logout, user creation) with a failure in between;
* a transaction that holds a unique value while its request waits for a lock in
  another layer;
* processes of one deployment that started before and after a secret was rotated;
* deliveries repeated by n8n, answers repeated by clients;
* wall clocks that are set back, and datetimes that lose their timezone.

`PROJECT.json` lists these at the line where they bite, with the properties that
speak of them.

## 2. Modules and code

Every variable and action carries a comment that names what it stands for;
`PROJECT.json` ("map") gives the lines.

**HashChain** is the vocabulary of the trail: rows, digests, `LastHash`
(`_last_hash`), and what it means for a row to be `Broken` and for a table to be
a chain. **AuditForest** is the abstract specification of the trail: rows are
added one at a time under fresh ids, each on top of an earlier row or of nothing.

**AuditChain** models concurrent `write_audit` calls with the commit of their
handlers. `pc[t]` is the await at which request `t` stands: `select` and
`insert` inside `with _chain_lock`, `commit` after it. `Acquire`, `ReadLast`,
`Flush`, `Commit` and `Respond` are the pieces of code between awaits; `Block`
is the plain `with` that finds the lock held and stops the thread, and with it
every action of that worker that needs the thread (`Runs`). `Fail` is the
roll-back of `get_session` together with the release by `with`; `LateCommit` a commit whose
outcome the handler never learned; `Crash` the death and restart of a worker.

**AuditVerify** writes a trail one row at a time and then lets anybody change it
behind the program's back: an UPDATE of any column (`EditBody`, `EditHash`, `EditPrev`,
and of what no digest covers `EditId` and `EditStamp`), a `Delete`, an `Insert` of any row
under any free id. `stamps` are the columns `created_at` and `updated_at`, which `audit_logs`
inherits from `Base`; only this module needs them, so they are not in the rows of HashChain.
`verify_chain` is the loop with its early return: `Walk` is a recursive function on the parts
of the table that takes the row with the largest id last, `Step` one turn of the loop.

**Sessions** follows each request through the awaits of its handler. A token is
its pair, its type, and whether it is expired; `revoked` is the table, whose
primary key makes a second insert fail with a 500 (`Revoke`). A token carries the
role its user had at login; `Entitled` is what `get_current_user` and `require_role`
find in the row of the user instead, and `Deactivate` and `Demote` change that row
(nothing in `src/` does; an operator can). A login that is refused still writes its audit row
before the 401 (`Deny`), and may fail there with a 500. `SkipRevoked`
and the like, here and in the other modules, are the mutants against which the
properties are tried (`PROJECT.json`, "mutants"). **SessionPhases** is the
abstract life of a session: none, held, moving, over.

**Lockout** is `authenticate` for one account: `Load` is the SELECT and the
decision on what it returned, `Commit` the UPDATE of the columns that differ
from the loaded ones (`Merge`: what SQLAlchemy's unit of work sends). Slots are
attempts in progress; a slot whose attempt is over takes the next one.

**RateLimiter** is `hit()` and the decision of the middleware. `hit()` holds its lock
and never awaits, so it is one step. The clock is the wall clock: `SetBack`.

**FrontDoor** composes what stands before a route, in the order of `create_app`:
`Arrive` (the redirect and CORS, which may answer, then the size middleware's look
at the header), `Exempt`, `Choke`, `Admit` and `TurnAway` (the rate limit middleware
around `Pass` and `Refuse` of RateLimiter; `Choke` is `_parse_rate` raising on
a unit that the validator of Settings had let through), `Receive`
(`counting_receive`, through which the route reads), `Serve` and `Disconnect`, and the
tasks that record suspicious events (`Record`, `Lose`). There are several workers,
each with a limiter of its own: FrontDoor extends RateLimiter, and a key belongs to
one worker (`CountedBy`). Its initial predicate, next-state relation and specification
are `DoorInit`, `DoorNext` and `DoorSpec`. `Restart` ends a worker: its part of the limiter, its tasks and its
requests in progress are gone, the table and the other workers stay. `events` counts
the rows each request has in `suspicious_events`.

**Ingest** is the ingestion handler under several deliveries of the same sheets.
`open[d]` is the transaction of delivery `d`, invisible until `Publish`; the
unique sha256 makes an insert wait for another open one (`Waits`). `Interrupt` ends
deliveries, because a statement raised (`Fail`) or their worker died (`Vanish`); a COMMIT that
was on its way may still be carried out (`Settle`). `Reply` is what n8n is told: an exception
of a COMMIT, of an INSERT that meets the sheet of another delivery and of any other statement
are one and the same 500.

**Webhook** composes Ingest with an instance of AuditChain: the deliveries are the
requests of AuditChain, `write_audit` runs inside the transaction that holds
the sheet, and one COMMIT publishes both. The composition says which steps
of the two are one step (`Record` is `Ingest!Audit` and `AuditChain!Flush`; `CommitAll`,
`Raise`, `Resolve` and `Die` likewise), and which need the thread of the worker: an
INSERT that waits in the database takes effect there even if the loop that sent it
is blocked. It takes the place of a run of Ingest alone.

**Deployment** is the settings of the processes of one deployment: `Boot` is the
first call of `get_settings` with the validators (`Accepts`) and the secrets that
are made up when they are missing (`Secret`), `Edit` a change of the environment, `Stop`
the end of a process. Only a restarted process sees an edit.

**Users** extends Deployment with user creation by requests and by the bootstrap script
(a process of its own), all for one email: two commits, `Commit` in `create_user` and
`Publish` in the handler. `under[c]` is the settings `c` computes with: two rows
have the same pseudonym if they were made with the same salt (`Alike`), and a SELECT
that meets a row sealed with another key raises `CryptoError` (`Lookup`).

**MC*** modules give the constants their values. **HashChainTheorems** and the
ones that end in **Proofs** hold the proofs of [section 6](#6-proofs).

## 3. Abstractions

* SHA-256 does not collide. A digest is then as good as the text that was hashed,
  and since that text begins with the previous digest, a digest is the sequence of
  bodies on the path to it. Bodies are model values.
* The database is PostgreSQL under READ COMMITTED, the production setting: a
  SELECT sees what was committed before it, an INSERT waits for an uncommitted
  row with the same unique value. SQLite serialises writers; what it does
  with rows is included. What it does to datetimes is not, and is
  the constant `NaiveDates` of Lockout.
* Each `await` is one step and so is each stretch of code between two of them.
  Where a module is not about `write_audit` its awaits are one or two steps that
  may fail.
* Any statement may fail at any time, without a cause. A failed COMMIT may have
  been carried out, not carried out, or be carried out later.
* The sha256 of a sheet is the one its delivery declares; the code checks its form
  (`schemas/spreadsheet.py:18`) and never computes it. A sheet of Ingest is such a value.
* Of the ids that rows are given outside the program only the order matters; they are
  natural numbers.
* A jti is the pair and the type; uuid4 does not repeat. Expiry is a set that
  grows. Salt and email determine the pseudonym (one email in Users), the account is
  fixed in Lockout, the process in RateLimiter. A secret is its version, or the start
  of the process that made it up; made-up secrets do not repeat. What `PayloadTooLarge` becomes on its way through FastAPI and anyio
  is nondeterministic: 413, 400 or 500.
* The verdict on a signature, and on a body by its schema, is nondeterministic.
* History variables (`late`, `wrongs`, `streak`, `lastWrong`, `clean`, `log`,
  `answer`, `steady`, `written`, `edits`, `change`, `cut`, `entered`, `given`, `lost`, `edited`,
  `used`) record the past for the properties.
  `edits` is the exception that is also read by guards: the program writes the trail only
  until somebody else has changed it. What it writes afterwards continues the digest of the
  newest row it finds (`LastHash`, in AuditChain), and does not mend or hide an earlier change.

## 4. Runs

Twelve runs: eight pass, four show a claim of the docs that the code does not keep.
`CHECK_DEADLOCK FALSE` is set everywhere because every model comes to an end:
its requests are finitely many, its clock is bounded.

| Run | Instance and bounds | Shows |
|---|---|---|
| `audit` | 3 requests, 2 workers (one serves two), any failures and crashes | `TypeOK`; `LockMatchesHolder`: no path leaves the lock taken; `LinksPointBack`: no row continues one that was rolled back; `AnsweredIsAudited`; `BreaksOnlyByStaleRead`: the chain breaks only when a row is committed whose `prev_hash` has been overtaken; `HangsOnlyByCollision` (liveness): the lock collision is the only way to hang; `ForestSpec`: refinement of AuditForest |
| `audit_shared_prev` | 1 worker, 2 requests, **violation** | two rows with one `prev_hash` within one process |
| `audit_hang` | 1 worker, 2 requests, fair, **violation** | the event loop blocks for good and no row is written |
| `audit_verify` | trails of up to `MaxRows` = 2 rows with gaps in the ids, ids up to `MaxId` = 4, `MaxEdits` = 3 changed columns (a new row counts three), 2 bodies, 2 timestamps | `LoopFindsFirstBroken`: loop and definition agree on every table; `SingleChangeShows`: what verification says of each kind of single change, including those it accepts; `HeadPinsHistory`: verification and the newest digest together fix the number of rows, their content, digests, links and order (not their ids and timestamps) |
| `sessions` | 1 login (which may be denied), 2 refreshes, 1 logout, 1 request for an admin route; `MaxExpired` = 2 expiries, deactivation, demotion | `OneLivePerFamily`, `LogoutEndsFamily`, `VoidIsRefused`: neither a revoked token nor an outdated role claim gets through; `PhasesSpec`: refinement of SessionPhases |
| `lockout` | 2 attempts at a time, `MaxFailed` = 3, `LockFor` = 2, `MaxClock` = 4 | `FailuresAreCounted`: without overlap the counter is exact; `NoLockWithoutFailures` and `LockIsTemporary` with any overlap; `LockHolds`: only an attempt that loaded the row before the lock gets past it |
| `lockout_lost_update` | the same, `MaxClock` = 3, **violation** | a lost increment: 3 failures in a row and no lock |
| `lockout_sqlite` | `NaiveDates` = TRUE, **violation** | a lock that never ends |
| `rate_limit` | 2 clients, limits 2 and 1, windows 2 and 1, `MaxClock` = 5, `MaxHits` = 4 per client | `LimitHolds` in every window, wherever it starts; `RefusedOnlyWhenFull`; `RefusedOnlyAfterHit` even when the clock was set back |
| `ingest` | Webhook: 2 deliveries of one sheet to 2 workers, 1 of another sheet, one row in common, any failures and crashes, fair | `StoredOnce`, `SheetsArriveWhole`; `AnswersAreTrue`: what n8n may conclude from each answer, and that a 500 leaves open whether the sheet is there only if a COMMIT raised or another delivery stored it; `TrailTellsSheets`: a sheet is stored exactly when its delivery is in the trail; `HangsSpreadBySheet` (liveness): a delivery is answered unless its worker hangs on the audit lock, or a worker that hangs holds its sheet |
| `users` | 2 requests in a worker and the script; `MaxBoots` = 2 starts of each process, `MaxEdits` = 1 rotation, production or not | `OneAccount`, `AnswersAreTrue`, `TrailFollowsUsers`; `OneSecret`: unless rotated or made up, a secret is the same in all processes that ever ran; `AccountsAreReachable`: while salt and key are settled every process finds and decrypts the account |
| `front_door` | 3 requests of one client to 2 workers (one sends a body), a health check and a request whose rate has an unknown unit; `SizeLimit` = 1, chunks of up to `MaxChunk` = 2 bytes, 1 request per window of 1, `MaxClock` = 2 | `RoutesAreLimited`: what the limiter promises holds in each worker for the requests that reach a route, and nothing is let through under a rate that cannot be read; `BodiesAreBounded`: with or without Content-Length and for any chunks; `EventsAreRefusals`: every suspicious event is a 429, no request has two, and none is missing unless its task is under way, failed or died; across failures and restarts |

The largest runs are `sessions` (1 492 848 distinct states), `front_door`
(1 360 212), `rate_limit` (881 322), `users` (814 856) and `audit_verify` (81 290);
with two TLC workers each ends within three minutes.

Why the bounds are enough. The hazards need two actors that overlap and a third
that comes after or from another worker: three requests and two workers give
all of that. A chain breaks at a row and its successor. In two rows, three changed columns are
as many as it takes to rewrite a row and its digest and then the link of the next, up to
the newest digest, which is where covering one's tracks ends; to let two rows change places;
or to put a complete row before, between or after them. In Sessions the races are between the old token, the
new one and the logout: two refreshes and a logout. `MaxFailed` = 3 lets an
increment be lost before the last one; `LockFor` = 2 and four ticks let a lock run
out and another one begin. In RateLimiter `MaxHits` exceeds every limit and
`MaxClock` covers two windows. In Webhook two deliveries of a sheet overlap, or come one after
the other when the answer to the first was lost, on workers that can hang apart; the third one,
of another sheet, does not wait for theirs but for the lock of the worker it shares with one
of them. No property relates more than two deliveries of a sheet. In Users two starts and one edit let
a process that has the old secret work beside, before and after one that has the new. In
FrontDoor a chunk can be larger than the limit, so a body can cross it from any count
below it; the second worker and a restart show that the limit is one per worker and life. For
most safety properties the proofs remove the bounds (section 6 says which are left).

Each property of a passing run has a mutant: a variant of a definition of the model,
the way a plausible mistake in the code would change it, for which TLC finds the
property violated.

## 5. Fairness

AuditChain states weak fairness of `Progress(t)` for each request,
that is of the steps its coroutine takes when it is ready and the database's answers
to it. asyncio runs every ready coroutine and PostgreSQL answers every statement
or breaks the connection, in which case `Fail` takes the place of the step.
Nothing is assumed about `Fail`, `Crash` and `LateCommit`: nothing has to
fail, and nobody restarts a worker that hangs (its health route hangs too). A blocked
thread disables `Progress` for all its requests, so fairness does not help a
worker out of the collision: this is what `audit_hang` shows.

Webhook states the same of `Advance(d)`, the steps of a delivery and the database's
answers to it, and of `Resolve(d)`, the database's settling of a COMMIT that
nobody waits for any more: without it a transaction in doubt could hold its sheet
for ever. `Raise` and `Die` are again not fair.

The other modules claim no termination: login, logout and user creation await
`write_audit`, which may hang.

## 6. Proofs

All theorems hold for every value of the constants that satisfies the named
assumptions (`WorkerOfType`, `OpOfType`, `LimitsArePositive` and so on: types of
the parameters, and that requests differ from "nobody"). None is about
fairness.

* **HashChainTheorems.** In a table with ids for keys the newest row exists and
  is unique (`NewestRow`); along an unbroken chain digests grow strictly
  (`DigestsGrow`), so none occurs twice (`LastDigestIsFresh`); a row that takes up the last digest under
  a larger id keeps a chain unbroken (`ExtendsChain`).
* **AuditChainProofs.** `TypeCorrect`, `LockIsFaithful`, `LinksAlwaysPointBack`,
  `AnswersAreAudited`, `OnlyStaleReadsBreak`, and `ImplementsForest`
  (every step adds a rooted row or leaves the table alone). `LinksPointBack` is not inductive: that
  a parent is there when the row is committed depends on
  what happened between read and commit. `ChainInv` adds `ParentsCommitted` (the
  digest read is that of a committed row with a smaller id than the one to come),
  `IdsBelowNext`, `IdsAreOwn` (no two requests share an id, a row in flight
  is not in the table) and `IdsAreKeys`.
* **SessionsProofs.** `TypeCorrect`, `RotationNeverForks`, `LogoutIsComplete`,
  `VoidTokensRefused` and `ImplementsPhases`. That two refreshes with one token do
  not both succeed rests on the primary key of `revoked_tokens`, not on the SELECT
  before it: `OneHolder` says that the live refresh token of a family or the one
  rotation between commit and answer is unique; `LogoutLeavesNone` that after a logout
  nobody is either; `Descends` and `OnPath` tie requests to pairs that were
  issued; `LateIsVoid` that what made a request void does not go away.
* **LockoutProofs.** `TypeCorrect`, `CountIsExact`, `LocksAreEarned`,
  `LocksAreRespected`, and `LocksExpire`, which assumes `NaiveDates = FALSE`. The
  invariant says of every row, the stored one and those in the hands of
  attempts, that its counter is at most the number of failures so far and that a lock in
  it has its failures and its cause (`Earned`), that an attempt on its way to the
  commit found no lock in force (`Unlocked`), and why one was turned away (`TurnedAway`).
* **IngestProofs.** `TypeCorrect`, `SheetsAreStoredOnce`, `AnswersStayTrue`,
  `SheetsAreAtomic`. That an answer stays true is a matter of what comes after it: deliveries
of the same sheet that are still under way, and COMMITs that nobody waits for any more. `IngestInv` ties the contents of a transaction to where
  its delivery stands (`OpenAgrees`), stored rows to their deliveries (`StoredAgrees`)
  and says that a sheet is in one transaction or in the table, once (`OnePlace`). The failures
  that end deliveries have one step in common (`CutOff`), so each part of the invariant meets
  them once. Of the composition, `ImplementsIngest` (Webhook implements Ingest, so
  that the four theorems hold in company of `write_audit`) and `TrailIsComplete`.
* **UsersProofs.** `TypeCorrect`, `SecretsAreShared`, `AccountsAreUnique`, `AnswersStayTrue`,
  `TrailIsFaithful`, `AccountsStayReachable`. `DeploymentInv` is inductive by itself: a
  process has only secrets that are in `used`, and for a settled kind that is one. On top of it
  `PathsAgree` ties what is stored to where its creator stands and `OneOwner` says
  that a pseudonym belongs to one account or one open transaction, whatever the salts.
* **AuditVerifyProofs.** `LoopIsExact`, `ChangesShow` and `HeadPinsTrail`, for trails
  of any length under any number of changes, new ids and inserted rows included. The first is about every table: `BrokenBelowTop`
  says what the row with the largest id adds to the broken ones, and `LoopOutcome` that the loop
  keeps account of it. The prover cannot use an induction principle, so each induction here takes a
  smallest part of the table for which the claim fails (`SmallestPart`) and takes its top row away;
  that the recursive function exists is proved the same way (`WalkExists`). The second
  needs to know what a single change did: `TrailInv` says that the rows written are an unbroken
  trail and how the table differs from them after one change (`Changed`). Then there is a lemma for
  each kind of change: `AlteredRowFound`, `DeletedRowFound`, `InsertedRowFound`, and for a new id
  `MovedDownFound`, `MovedUpFound` and `SamePlaceUnseen`. They rest on `NextOfGone` (a row that lost
  the one before it cannot fit, since digests on a path only grow) and `StopsAfter` (when the rows up to
  some id fit and the next one does not, the loop stops at that one). For the third, the digest of an unbroken trail is as
  long as the trail (`LengthCounts`), so two unbroken trails with one last digest have as
  many rows; one row after the other from the top holds the same (`DigestPinsRows`), in
  the same order (`DigestsOrder`).
* **FrontDoorProofs**, on RateLimiter: `LimiterTypesAreKept`, `WindowsAreLimited`, `RefusalsAreDue`,
  `RefusalsFollowHits`, for any clients, rates, clocks and numbers of hits. That no window sees too many
  requests is not inductive, since the deque alone decides and the log is what is counted. `KeyInv`
  relates them: the deque is the end of the log and, while the clock is steady, what was forgotten is
  older than the window (`Kept`); the log is in order (`InOrder`), and a request and the one
  that comes `Limit` later are further apart than the window (`Spread`), from which
  `LimitHolds` follows by counting (`SpreadLimits`). `PruneDrops` says what `popleft()` leaves. With a
  clock that goes back only the first half of `Kept` is left, and it is enough for
  `RefusalsFollowHits`.
* **FrontDoorProofs**, on FrontDoor: `RoutesKeepToTheRate`, `TypesAreKept`, `SizesAreEnforced` and
  `EventsAreFaithful`, for any workers. The first keeps the invariant of RateLimiter
  through all steps, restarts included, and adds `CountsAgree`: the requests that got in during the life of
  their worker are no more than the hits in its log, for every period. It rests on
  `EachCountsItsOwn`: a request is counted by the limiter of its own worker, which is why a
  restart may forget both. `DoorInv` says that a route that may still answer has been given all that was
  counted (`BodiesAgree`), and that a task is there for a 429 that has no event yet (`TasksAgree`). The run has no type invariant of its own: the theorem says it.

Only model-checked: the liveness properties `HangsOnlyByCollision` and `HangsSpreadBySheet`
(temporal reasoning under fairness is beyond the prover). Every other property of a passing
run is a theorem.

## 7. Disagreements between code and docs

Four runs refute something the repository says (`PROJECT.json`, "findings"):

1. `audit_shared_prev`: the docstring of `write_audit` says the lock prevents two rows
   with one `prev_hash`; the lock ends before the commit and does not.
2. `audit_hang`: the module says every critical action gets its row; the
   `threading.Lock` in a coroutine can block the worker before it does.
3. `lockout_lost_update`: SECURITY.md promises a lock after five failures; lost
   updates of the counter put it off.
4. `lockout_sqlite`: the lock is called temporary; with the default SQLite
   database the comparison of naive and aware datetimes raises from then on.

Seen while modelling, without a run of their own: `rate_limit.py` calls its window fixed
("janela fixa") and implements a sliding one; `models/token.py` speaks of
purging revoked tokens and nothing does; the validator of rates in `config.py`
accepts units that `_parse_rate` rejects, so that a service can start whose every
limited request is a 500 (`Choke`); SECURITY.md (line 85) says that `ENCRYPTION_KEY`
accepts rotation, and an account sealed with the old key makes every query that loads
it fail (`Lookup`; `AccountsAreReachable` asks for a settled key); a worker that hangs on its
audit lock while it holds a sheet also stops the deliveries of that sheet to
other workers (`HangsSpreadBySheet`); the size limit for uploads applies
to a prefix (`/v1/spreadsheets`) that no route has; `PayloadTooLarge` raised while
FastAPI parses a body is answered 400 and not 413 (a test allows both); a failure between
the two commits of user creation leaves an account that the trail does not
show (`TrailFollowsUsers` says exactly when).

Four more claims of the docs go further than the code. The properties say what the code does
instead, and hold:

* `audit/service.py:9-10` says that a changed value makes the hash disagree, and
  `models/audit.py:5-6` that an altered row makes all later hashes inconsistent. Both are true
  of the columns that are hashed. An edit of `created_at` or `updated_at`, new ids that keep the order,
  the deletion of the newest rows and the insertion of a row that fits at the end pass `verify_chain`
  (`SingleChangeShows`); the docstring of `write_audit` (`service.py:65`) says it of `created_at`. Only
  who has kept the newest digest learns of a deletion or insertion at the end (`HeadPinsHistory`), and
  nobody of new timestamps.
* `routes/ingest.py:10` says that a sheet which exists is answered with 409. A delivery whose SELECT
  came before the other one's commit meets the unique sha256 at its INSERT instead and is answered 500
  (`Insert`; `AnswersAreTrue` allows for it).
* An error is answered 500 even if it is the COMMIT that raised, and the sheet may then be stored
  or be stored later (`error_handler.py:111-121`): the same delivery sent again gets a 409 for
  its own sheet. `AnswersAreTrue` says that this is the only 500 after which the delivery may have
  stored anything.
* SECURITY.md:66 ("falhas em massa"), `models/audit.py:39` and `tests/test_rubric_5_logs_audit.py:5`
  ("failed login burst") say that bursts of failed logins are recorded as suspicious events. Nothing
  records them: the only caller of `record_suspicious_event_sync_safe` is the rate limiter
  (`rate_limit.py:103`), and a failed login leaves a row in `audit_logs`. `EventsAreRefusals`
  says what is in the table: refusals of the limiter and nothing else.

## 8. What is not modelled

* Request ids, the headers put on answers, logging: decoration without state.
* The permission table of `rbac/policy.py`: constant, and no route uses
  `require_permission_dep`. The role check of the admin routes is in Sessions.
* Schemas, migrations, the order of `create_app` beyond the middlewares: declarations; unique
  columns and limits appear in the modules that depend on them.
* Encryption, password hashing, pseudonyms, the cryptography of JWT and HMAC: pure
  functions of libraries. Which key and which salt a process has is in Deployment.
* Listings of alerts, competitors and users: they read only; as guarded routes
  they are the operations "read" and "admin" of Sessions.
* The choice of bucket and client key in the rate limiter: constants. The growth of `_hits`
  with the number of clients: the code states no bound that it could break.
* The timestamp window of a signed delivery: `Receive` accepts or refuses any delivery, replays
  included, and `StoredOnce` does not depend on it.
* The audit rows of login and logout: Sessions has them as awaits that may fail (`Deny` among
  them), not as rows, so that a logout which fails before its row leaves none is not shown.
* A purge of `revoked_tokens`: `models/token.py` announces one and the repository has none.

## 9. Plan

Done, in this order: the audit trail (writing, then verification), sessions,
lockout, rate limiter, ingestion, users, the middleware stack; then the composition of
ingestion with `write_audit`, settings and rotation under user creation, several workers
behind the front door, roles in sessions; and proofs of every safety property.

Next, proofs: what the theorems assume of constants, made weaker where the code allows it.

Next, modelling: login as a composition of Lockout, Sessions and the audit row; an AuditVerify
whose program goes on writing after the table was changed.
