# codebuddy2api: specifications, model checking and proofs

TLA+ models of the parts of codebuddy2api where the order of steps decides whether
the program is right: the credentials, what refreshes them, what is cached about
them, the daily check-in, the OAuth login from the browser's dialog to the stored
credential, a chat request from its body to its line in the statistics, the
statistics beside their retention and upgrade, and the updater that replaces a
release in place.  TLC checks each model on small instances; TLAPS proves all invariants, the
action properties and two refinements for every value of the constants.

The service is one asyncio event loop: code between two awaits is atomic, and
every await is a place where anything else may happen.  The models follow that
rule.  An action is what one coroutine does between two awaits, an upstream
answer is a choice among its outcomes, and an exception is one of them.  The
database adds transactions, which are single steps; the updater adds processes that
are killed between two calls of the file system.

## The system

| Component | State | Operations and interactions | What is hard | What makes it correct |
|---|---|---|---|---|
| Token manager, rotation, store (`codebuddy_token_manager.py`, `credential_rotation.py`, `credential_store.py`) | directory of credential files, `manager_state.json`, list in memory, rotation index and usage count, two generations per file name | add, delete, replace with compare-and-swap, select, fix, toggle; used by every other part | an index into a list that is re-read and re-sorted; names used again; writes that fail half-way; restarts | no lost update, memory agrees with the directory, the fixed credential stays, usage goes to the account that spent it, no starvation |
| Credential refresh (`credential_refresh.py`) | `_inflight`, `_stopping`, retry state | hourly scan, shielded joined jobs, account switch, shutdown; writes through the token manager | snapshots taken long before they are used, joined tasks, finished tasks that are still registered, retries, displaced entries, crash between two calls | one task per credential, inflight says who runs or has just ended, a crash loses no pending mark, nothing but a displaced task outlives shutdown |
| Model lists (`models_manager.py`) | cache, expiry, `_inflight` | lookup, fetch, eviction by admin and refresh | an answer that arrives after its credential changed | the list kept is the present credential's; every waiter is answered |
| Quota (`credential_quota.py`, `background_request_pacer.py`) | cache, usage totals, invalidation counters, three sets of tasks, pacer | scan, probe, event probe, charge usage, invalidate, shutdown | usage charged while a probe runs, invalidation of a running probe, shutdown | no quota of another account, no usage forgotten, nothing known outlives shutdown |
| Check-in (`credential_checkin.py`) | a gate per account, records, the daily task | request, daily cycle, shutdown; triggers quota probes | two sources and several credentials of one account, waiting, cancellation while waiting | one check-in of an account at a time and none after success, no lost wake-up, shutdown returns |
| OAuth login (`codebuddy_oauth.py`, `codebuddy_auth_router.py`, `useOAuthPolling.ts`) | reservations, owners, progress, attempts; the dialog's phase, timer and abort controller | start, poll, cancel, expiry; a saved login is an addition to the token manager | concurrent polls, lost answers, expiry between calls, answers to a former login of the tab | a login ends once, in a credential of its owner or in none; limits hold; one poll at a time |
| Streaming (`stream_service.py`, `chat_execution.py`, `codebuddy_events.py`, `sse.py`) | an upstream stream per request | connect with retry, first chunk, relay, disconnect | race of chunk, end and disconnect; retry; cancellation during clean-up | upstream asked once, one outcome, one close |
| Protocol layers (`anthropic_*`, `openai_*`, `request_processor.py`) | block state of one response | conversion of requests and streamed events | two encoders of one message, order of blocks and tool calls | a well-formed sequence that tells what the collected answer tells |
| Usage statistics (`usage_stats_*`, `sqlite_database.py`, `stats_router.py`) | SQLite tables, per-request context | complete once, record, retention, reports, upgrade of the schema | several completions, batches of the clean-up beside readers, hours cut by midnights | one event a request; totals kept for ever; exact reports exact; pages of one snapshot |
| Sign-in and settings (`login_security.py`, `session_store.py`, `auth_router.py`, `config.py`, stores) | rate windows, active count, sessions, rows | login, sessions, keys, settings | cancelled checks, windows | limits hold and are released |
| Web application (`web.py`, `admin_router.py`) | managers of the process | start-up, shutdown, admin endpoints | order of shutdown | managers stop in dependency order |
| Release tooling (`scripts/update_release.py`, `release_runtime_lock.py`) | project tree, `.update-backups` slots, lock | update, rollback | failures and kills between any two renames | a whole release is left, all or nothing, no service on mixed files |
| Frontend (`frontend/src`) | views, OAuth polling, chunk recovery | | stale polls, reload loops | one poll, at most one reload |

`PROJECT.json` lists the hazards line by line with the property that covers each.

## Modules

`TokenManager` models one user's token manager.  A file name is its rank in the
sorted listing, so that the code's index and the model's file determine each
other.  The content of a file is a token; `AccountOf` gives its account.
`AddCredential`, `DeleteCredential`, `TakeSnapshot`, `ReplaceCredential`,
`SelectNextCredential`, `SetCurrentCredential`, `ToggleAutoRotation` and `Restart`
are the methods of those names, each with the reload or save the method ends in;
`AddCredentialFails`, `ReplaceRefused` and `ReplaceFailsAfterRename` are their error
paths.  `UpdateSettings` is the settings page, which writes the switch of the rotation and
its count past the manager; a selection reads both anew, so that `usage_count` may be
above the present count.  `SetCurrentCredential` saves the state once where the code saves it
twice in a row with the same content.  `pin`, `lapsed` and `torn` are history variables.

`CredentialRefresh` EXTENDS it with the coroutines of `CredentialRefreshManager` and of
the probe-mode endpoint.  `stage` says at which await a coroutine is suspended:
`queued` behind the semaphore, `joined` to another job, `retry` between attempts,
`post` and `accounts` in the two requests of a refresh, `waiting` and `woken` for a
switch that waits for a task in flight, `switch`, `probe`.  A task that is over is `done` or
`failed` and still registered: `Drop` is the `finally` of the coroutine that registered it,
which runs a turn of the event loop later and removes the entry if it is still its own.
Until then a job of the scan or a switch that finds the finished task has its outcome at
once (`JoinJob`, `StartSwitch`).  Those who waited for the task were put into the
loop's queue by the same end of the task, before anything that comes later: `Drop` wakes
them, and the woken switches are next (`Waking`).  All writes are the actions of
`TokenManager`, so that the module refines it (`Spec` is a property of a run).

`ModelsCache` models `ModelsManager` beside credentials that are added, deleted,
replaced and expire.  A cached list is the token it was fetched with.

`CheckinGate` models `CredentialCheckinManager`: the condition variable of each
account, requests (`Manuals`) and jobs of the daily cycle (`Jobs`), the pacer's turn,
the quota barrier and shutdown.  `ForwardsWakeup` is the one behaviour of the Python
library it depends on: from 3.13 on a cancelled `Condition.wait` passes its
notification on.

`CredentialQuota` models `CredentialQuotaManager`, the pacer's lock and the endpoints that
use them.  `at` says at which await a coroutine is suspended: `asked`
(a task of `schedule_probe` that has not begun), `created` (a probe that has not begun),
`waiting` and `pacing` (a background probe before and in its turn), `fetching`, `done`
(ended, its callback still to run), `candidate` (the probe-mode endpoint) and `selected`
(an account switch is committed, its handler has not resumed).  Amounts are abstracted to
sets of requests: an entry is the meter it was read from (a probe mode or an account) and
the requests its remainder leaves out.  A request is charged upstream before its usage is
reported.  A request deducted twice and one deducted once are the same set, so that what
is shown may be too little, but not, by `UsageDeducted`, what was reported as spent.
`Shutdown` is one step, taken when the handlers are done, as the server does; a later
start is a new manager and is left out.  `torn` and `mixed` are history variables.

`LoginOnce` is the promise of the OAuth login: a name that upstream gave is unknown, open
for a user, saved once for that user or dropped, and then forgotten.  `OAuthLogin` is the
server's side: `AuthStateStore` and the three handlers of `codebuddy_auth_router.py`.
`call` says at which await each request is suspended (`starting`, and the three upstream
requests of a poll, `token`, `account`, `accounts`) and, once answered, what is on its way
back.  Times are ages that `Tick` counts up; `cleanup_expired`, with which every method of
the store begins, is part of `Tick`.  `OAuthPolling` EXTENDS it with the dialog of one tab
(`useOAuthPolling.ts`): the phase, the timer, the request in flight and the
`AbortController` generation, by which a late answer is known as one's own (`promise`).
Other clients of the same user and of another one call the API as they like, requests and
answers are lost, and `outcome` is a history variable.

`CodeBuddyEvents` declares what upstream sends: an event with a role, pieces of
thinking, text and tool calls, a finish and a usage.  `AnthropicResponse` and
`OpenAIResponse` are the two encoders of each protocol, of the stream and of the collected
answer, as operators from a state and an event to a state.  `StreamDelivery` instantiates
both (`A`, `O`) for one request of either protocol: the generator with its retries
(`gen`), the upstream connection (`net`), the three tasks of the streaming response and the
chunk one of them holds (`task`), the request's own task (`main`), what the server has
taken (`resp`), the middleware and the statistics (`seen`, `stats`), the client that leaves
and the server that cancels at any point.

`UsageStats` is the statistics of one user.  `db` is the committed database: every
transaction is one step, a crash keeps `db`, and a snapshot is a copy.  An hourly row is
its number of requests and of latency samples; `BoundaryDetailPlan`, `Tally`, `Groups` and
`PageAfter` are what reports and pages read, as functions of the database, the range and
the clock.  `Upgrade` is the migration of a version 3 database; `retention` is the task
that deletes details in batches.  `recorded` is a history variable.

`UpdateRelease` is the updater.  The project is its parts (the manifest, the lock module,
`web.py`, the replaced directories, the virtual environment, the data), each at a version
or `Broken`, missing or half copied.  An update or a rollback moves the backups between
the places `pending`, `latest`, `previous` and `source` and then writes the project by a
plan, part by part; every step may fail, which takes the code's branch for that
failure, and the process may be killed before each.  `cut` and `misled` are history
variables.

`MC*` modules give the constants; each `.cfg` is one run.  `*Proofs` modules hold the
theorems of the module they are named for; those of `TokenManager` are the first half of
`CredentialRefreshProofs`, whose second half rests on them.

## What the runs check

| Run | Question | Result |
|---|---|---|
| `cas` | two coroutines with snapshots of two files, beside additions, deletions, re-creations, failures and restarts | holds, with the exception of torn files below |
| `rotation` | the rotation position and the fixed credential through additions, deletions, expiry and a stale or truncated state file; with traffic, rotation comes to every usable credential | holds |
| `flight` | the scan, two switches, a probe-mode update, shutdown and crashes of one credential; all steps are the token manager's | holds: `SingleFlight` and `OnlyDisplacedEscape` name the exception `shutdown` is about |
| `shutdown` | nothing runs after shutdown | violated: a switch that is woken by the end of a refresh displaces in `_inflight` another that registered itself just before |
| `models` | no list of an earlier token is kept or joined; an evicted fetch still answers | holds |
| `gate` | one check-in at a time, none after success, no lost wake-up, answers after the quota refresh, shutdown returns | holds with forwarding |
| `hang` | shutdown returns, with the `Condition` of Python 3.10 to 3.12 (the image has 3.12) | violated: the cancelled job keeps the notification and shutdown waits for ever |
| `quota` | the quota kept is of the present meter and leaves out what was reported since; usage goes to the meter it was charged to; one probe a credential, none left by shutdown, no turn kept | holds, with the exceptions below |
| `login` | a login ends once and in a credential of its owner only, the limits hold, the tab polls one login, once at a time, and acts on its own answers | holds |
| `chat` | the stream and the collected answer tell one message; one line in the statistics and one charge, both true; upstream asked once and released; every request ends | holds, with the exceptions below |
| `usage` | totals are exact for ever, details go only below the cutoff on record, an exact report is exact, pages tell one snapshot, the retention catches up | holds, with the exceptions below |
| `release` | a whole release is left to return to, an updater that returns did all or nothing, the service does not run on the files of two releases | holds, with the exceptions below |

Some properties carry their type invariant and what only helps to read them:
`SingleFlight` of `CredentialRefresh` begins with `InflightFresh`, that of
`CredentialQuota` with `TurnHeld`, `OneAtATime` of `CheckinGate` with its types and
`WaiterHasWaker`, `OnePollAtATime` with `TabTypeOK`, `HourlyTellsAll` with the types of
`UsageStats`.

The exceptions are named in the properties.

**Token manager.**  A replacement that fails after `os.replace` (`credential_store.py:148`)
leaves new content under the old generation, and the next reload makes an older
snapshot valid for it: `MemoryOnDisk` and `NoLostUpdate` except the files in `torn`.  A
fixed credential that was expired when a request came stays replaced after its
refresh (`credential_rotation.py:86`): `PinKept` excludes that case by `lapsed`.  A
credential is fixed only if both of its writes succeeded: errors of the state file are
swallowed, and a restart then begins with another credential.

**Refresh.**  `switch_account` looks at `_inflight` once, before it waits.  The run `shutdown`
shows what that allows: a switch waits for a refresh; the refresh has ended and is still
registered; a second switch finds it finished, goes on and registers itself; the first is
woken and takes the entry (`credential_refresh.py:442`); shutdown cancels the first only,
and the second writes the credential after shutdown has returned.  Two switches that both
wait for one refresh end the same way, a step later.  `displaced` names such a task.
A refresh of a credential without `account_id` adopts an account that upstream names
(`credential_refresh.py:391`) and flags no change of account; the model takes it for the
account the credential had (`SameAccount`), so that `ChargedToSpender` says nothing of a
request sent while no account was known.

**Quota.**  Between the replacement of a credential by a switch and the next turn of its
handler (`admin_router.py:373`) the entry is still that of the former account, and usage of
the new one may be deducted from it; both end with the handler's invalidation.  A
replacement that fails after its rename changes the meter with neither a new generation
nor an invalidation.  A probe that an invalidation removed from `_inflight` is known to
nobody and may outlive shutdown (`OnlyEvictedOutlive`); its answer is thrown away.

**Chat.**  A request that the server cancels in its very completion may leave neither a
record nor a drop (`CountedOnce`), and one that it cancels while it closes the
upstream stream leaves that to the garbage collector (`Released`).  A tool call whose
`function` is no object counts for the indexes of an OpenAI stream
(`openai_compat.py:126`) and is skipped where the answer is collected
(`stream_service.py:374`), though both are to share one reading of the events
(`codebuddy_events.py:50`): after a first piece that brings its index or id alone, the calls
of the two differ.  `StreamTellsMessage` compares the calls of OpenAI only of events
whose calls all have functions (`HaveFunctions`); texts and thinking agree always, and for
Anthropic a call without a function is a piece without name and arguments on both sides, and
one whose function is no object ends the request on both.

**Usage.**  `get_overview` reads `query_now` before its read transaction
(`usage_stats_store.py:1534`): a clean-up that begins later, or a fractional midnight
that passes between the two, makes a report call itself exact when it is not
(`Overtaken`, `MidnightPassed`).  A fractional midnight exactly at the cutoff is in
neither search, neither that of the recent midnights (line 689) nor that of the old ones
(line 763): `MidnightAtCutoff`.  `list_dimension_values` and `list_events` read the
clock after their first read and need no exception.

**Release.**  A rollback that was killed and is run again takes the half-restored project
for its safety backup and later deletes the first one's; an update after a kill trusts a
project whose data is gone, since the manifest does not list the data, and replaces the only
whole backup.  Both are `misled`, and `OneWhole` promises nothing after them.  An updater
that was killed, or could not repair its failure, leaves a project that the service may be
started on as long as the files it imports are there (`cut`).  A kill after
`scripts/` was removed leaves no updater in place; a kill while the virtual environment
is rebuilt leaves a release the next update accepts.

### Bounds

`Files`, `Tokens`, `Tasks`, `Requests` are the model's finite sets.  Two files are the
least in which a deletion moves the position of another and rotation has somewhere to
go; two tokens of two accounts distinguish a refresh from a switch;
two coroutines are the least that can overtake each other, three (a scan, two switches)
the least in which one displaces another.  `MaxGen` stops the generations, which the
code only compares: 1 or 2 updates suffice for a snapshot to be overtaken by a
deletion, a re-creation or an update.  `Fixing` turns the settings page off where a run
is about updates only; `rotation` turns it on.  `MaxAttempts` is 2, a
first attempt and a retry; the code makes six (one and the five of `retry_delays`).
`MaxRotation` bounds the count that the settings page may set.  In `ModelsCache` two fetches let an
evicted one come back after its successor; in `CheckinGate` one credential and two
accounts let the credential move between accounts while two requests and the cycle want
both.  In `quota` one credential has all of the manager's state, since nothing relates two
but a check-in of their account and the semaphore; two coroutines let an evicted probe
meet its successor; two invalidations and one change of account put an invalidation
before and after the change; at most one torn write falls between two invalidations.

In `login` two users and two names let a client meddle with the login of another and a
tab begin a second login while answers to its first are under way; two calls are the
least that overlap; `MaxActive`, `MaxAttempts`, `Ttl` and `Window` are 1, so that every
limit is met and every age expires.  In `chat` upstream sends up to three of eight
events, enough to open, interleave and end two blocks or two tool calls that are named by
index, by id or by neither, with one retry.  In `usage` an hour is two ticks and the
retention two, a midnight falls within an hour, the range 1..5 begins within one, batches
and pages hold one row, and three histories of version 3 make the upgrade keep, merge and
rename rows, with all details or with what a clean-up of the older program has kept
(`Remains`); two events of up to two hours are before and after a snapshot, a cutoff and a
midnight.  A request or a report lasts at most `MaxDuration`, for time-outs keep both
far shorter than the retention (`2 * MaxDuration <= Retention`), and the clock is not set
back.  In `release` two directories (the frontend and the scripts, which hold the updater)
stand for all that are replaced alike, `src` among them; three runs in a row let a
kill be followed by the run that is to repair it and by the one after.

Symmetry is used by `quota` (credentials, coroutines, the meters of a kind), `flight`
(the two switches) and `login` (the names of logins).  It is sound there: they check
safety only, and no definition or property distinguishes the members of those sets.
Deadlock is not checked: all of these systems may come to rest.

### Fairness

`Traffic` (chat requests keep coming) is used for `RotationServesAll` only, and as the
premise of what is claimed.  The fetches' and the check-in tasks' fairness
says that a suspended coroutine goes on: every upstream call has a timeout of 30
seconds, every delay is finite and the event loop runs what is ready.  In `chat`
`WF(Upstream \/ Request)` says the same of one request: httpx's timeouts end every wait
for upstream, and a send ends when the client reads or leaves.  In `usage` the
retention task's waits end and its clean-ups go on or fail (weak fairness); that one
succeeds in the end is strong fairness of `CleanUpBatch`: a database that can be reached
again and again is not locked for ever.  `login`, `quota`, `flight`, `cas` and `release`
check safety only.  Nothing is assumed of users, expiry, midnight, shutdown, kills or
restarts.

### Refinement

`CredentialRefresh` implements `TokenManager`: its writes are the token manager's actions and
what it keeps besides is hidden.  The login implements `LoginOnce`: `LoginOf` maps what the
store and the history say of a name to its phase.  Both are checked by a run (`flight`,
`login`) and proved.

## What is proved

`CredentialRefreshProofs` proves of the token manager `TypeOK`, `MemoryOnDisk`,
`NoLostUpdate`, `ChargedToSpender`, `CurrentListed` and `PinKept` for any files, tokens,
coroutines and requests.  The invariants are not inductive alone.

- `Backed` adds to `MemoryOnDisk` that a file with content on disk and none in
  memory, or the reverse, is torn; it makes a reload harmless.
- `SnapInv` strengthens `NoLostUpdate`: a snapshot's generation is at most the
  present one, and when they are equal the file is untouched or deleted with the
  generation already moved on.  This is where deletion must bump the generation.
- `ReqInv` is the same for the quota generation of a request.
- `PinInv` ties the fixed file to the settings, the state file and the list, so that a
  restart finds the same position.

`ModelsCacheProofs` proves `TypeOK`, `CacheCurrent` and `JoinsCurrent`.  Besides the
types, which say that a fetch in flight runs and for that credential, the inductive
invariant needs `Synced`: outside the torn files the list in memory is the directory,
so that a reload changes no credential without an eviction.

`CredentialQuotaProofs` proves all five invariants of `quota` and the types, for any
credentials, meters, requests and coroutines.

- `PresentInv` adds to `CachedForPresent` that a probe's invalidation count is at most the
  present one and that a probe that is not outdated asks for the present meter, with the
  same exceptions: the answer it brings may be kept.
- `UsageInv` adds to `UsageDeducted` that a request's generation is at most the present
  one, that only reported requests are in the totals, and that a probe that is not
  outdated, once answered, has every reported request of its meter either in its
  answer or in the totals since it began.  That is why `_usage_totals` is read
  before the request is sent and may be forgotten only with an invalidation.
- `FlightInv` adds to `SingleFlight` and `OnlyEvictedOutlive` that no probe was made under
  an invalidation to come, and that whoever waits for the pacer is a background probe,
  which shutdown finds in the set of background tasks.
- `ChargeInv`, under `DeductedWhereCharged`, relates a request, whose meter is fixed when it
  is sent, to the generation: while the generation stands, the meter is the present one
  or the credential is marked.  From there it follows what was charged into the totals,
  into what a probe has seen and into the entry, and nothing is kept of a deleted
  credential, so that one created under the same id begins empty.

Of the refresh it proves `Implements`, that every behaviour of `CredentialRefresh` is
one of `TokenManager`, and from it (`Inherits`) that the invariants of the token manager
hold of it, and then `RefreshTypeOK`, `SingleFlight`, `OnlyDisplacedEscape` and
`CrashKeepsMark`.

- `Flight` is inductive for the first three: who waits for a task is suspended for that
  only (`Waits`), who does anything has a credential, only the job of a credential is
  queued or joined and a probe-mode update has no task (`Placed`), and after shutdown
  nothing is registered and nothing is queued that would be (`Quiet`).
- `Holds` says that a coroutine that runs has a snapshot of its credential, and one
  between the two requests a snapshot with the mark; with `NoLostUpdate` and
  `MemoryOnDisk`, inherited from `TokenManager`, it gives `CrashKeepsMark`.

`CheckinGateProofs` proves `OneAtATime` and `OncePerDay`.  `Gate` is inductive: a
suspended coroutine has the account and the credential it goes on with (`Needs`); the gate of
an account is taken exactly while one request or job asks upstream (`Posters`); at most
one of each source waits, with its flag up, and not for its own source (`Waiters`).  That
every waiter has somebody to wake it (`Wakers`) needs that a cancelled wait forwards its
notification (`ForwardsWakeup`), which `hang` shows to be necessary; with it `Gate` gives
`OneAtATime`.  `OncePerDay` follows from `Gate` alone.

`OAuthPollingProofs` proves `LoginEndsOnce`, the refinement of `LoginOnce`, and
`LimitsHold`, `OnePollAtATime` and `AnswersAreOwn`.

- `LoginInv` gives the refinement: the types, that a suspended call has a user and, in a
  poll, a name (`Named`); that what was saved is consumed and was saved once and for its
  owner (`Stored`); and that a user has at most `MaxActive` logins open or reserved
  (`Limited`).  Every step is then one step of `LoginOnce` or none: consumption and saving
  are one step of the server, which is what a second poll of the same login meets.
- `LimitsHold` adds that a consumed login keeps no token (`Forgetful`) and that the attempts
  of a user are in the order they came in: those that leave the window are then the first
  ones, and what is left is shorter.
- `TabInv` says of the tab that the request it awaits is one it sent, about the login it
  follows, and that every other request of its own was aborted or is a cancellation.  It
  gives `OnePollAtATime`, and, as an answer changes the tab only when its promise is the
  present one, the action property `AnswersAreOwn`.

`UsageStatsProofs` proves `DeletedBelowCutoff`, `HourlyTellsAll`, `OverviewExact` and
`PagesTellSnapshot`.

- `DetailInv` adds to the first that the clock a clean-up holds is a time, and that until
  the upgrade no manager runs and the database is the old one (`NotUpgraded`): the upgrade
  then gives each detail the bucket `recorded` has for it, since the names known at that
  moment are those of the successes (`KnownHaveSucceeded`).
- `HourlyInv` adds that the rows are the events counted by hour, for which only a record
  and the upgrade matter: a row gains one or takes over the rows renamed to its key.
- `ExactReports` proves `OverviewExact` from `HourlyInv` alone.  The hours that the range
  or a midnight cuts (`CutHours`) are those that the plan reads in detail, if their details
  are kept; any other hour is in the range and in one period as a whole, but for the exceptions
  that the property names; and rows of whole hours and details of cut ones
  together are the events of the range.
- `PagesInv` adds what relates a reader to its snapshot: numbers are given once and in order
  (`Distinct`), its clock is past (`Clocks`), and what it has shown is the part of the
  snapshot above its cursor (`Shows`).  An event is at most `MaxDuration` older than
  its record and a reader lasts no longer, so that every row it could miss is within
  the retention; and the page after a cursor is the page at the offset the cursor has
  reached (`PageContinues`).

`UpdateReleaseProofs` proves `TypeOK`, `OneWhole`, `AllOrNothing` and `ServiceWhole`.  The
inductive invariant says that every copy of the installation (the project, the three backups
and the pending ones) is `Good` or is none: one that passes `_ensure_safe_installation` and
has its data is whole.  The order of the writes is what
keeps it.  `_deploy_release` replaces the frontend first and puts `web.py` back after the
manifest and the lock module, and `_restore_snapshot` puts `web.py` back last, so that
a project that is half written fails the check (`DeployedTo` and `RestoredTo` say how far it
is).  `OfUpdate` and `OfRollback` add at each place of the updater which copy is the
old project, so that a rotation always leaves one whole.

`StreamDeliveryProofs` proves `TypeOK`, `Released`, `AccountsTell` (with `CountedOnce`) and
`StreamTellsMessage` for any events, any number of them and any number of retries.
`StreamInv` is inductive for the first three:

- `Control` and `Counting` say where the generator, the connection, the tasks and the
  recording thread can be together; they give `Released` and `CountedOnce`.
- `Sending`: nothing is told to the server before the body starts, and the response is
  complete exactly when the body's task is done.
- `Departure`: a client that is said to have left has left, or the request was
  cancelled, and a response that is not complete has a reason.
- `Working` and `Flow` follow the chunks from the adapter through the queue and the
  body's task to the wire.  Until an error is observed none of them is an error, and the last
  one ends the stream (`Undisturbed`); afterwards the only way on is the error chunk
  (`Disturbed`).
- `Told`: what the answer or the stream said agrees with what the statistics were told.

Of the two adapters this needs only that what they pass on holds no error and that a
stream that was finalised ends in `message_stop` or `[DONE]`, which is proved of each
operator of the encoders.

`StreamTellsMessage` needs the content.  Its proof has two halves.

- What an adapter has returned so far is related to what the collecting side holds of the
  same events.  `View` is the relation for Anthropic.  `Twin`: the encoder and the
  aggregator keep the same finish, usage, indexes and tools.  `Line`: the chunks are well
  formed, and the open block is the last one the client has assembled.  `Row` and `Agree`:
  the assembled blocks are the final blocks of the aggregator, but for the tools of the
  group that is not closed.  That group is the last run of tool blocks, which the
  aggregator has in the order of arrival and the encoder will send in the order of the
  indexes; when it is closed both agree (`FlushTold`, `LastRun`).  `Wall` says that no tool
  stands directly before the group: only thinking or text closes one, so that a run that
  `_final_blocks` sorts is one group and not two.  `Echo` is the relation for OpenAI: what is
  heard of the chunks is what the aggregator has added up, with the same indexes for the
  calls that bring none.  `CaptureTold`, `ScalarTold`, `CallsTold` and `FinalizeTold`, and
  `EchoTold` and `EchoEnds`, take the relation through each operator of the two encoders;
  `Follows` is either relation.
- `Telling` is inductive beside `StreamInv` and follows the chunks through the request.
  While its tasks live, the chunks sent, the one held and those queued are, one after
  another, what the adapter returned (`Yielded`): they follow the message while the stream
  is read, may end in an error once it has failed, and tell the whole message once it has
  been finalised (`Fine`).  The client has a beginning of that, and a beginning is `Fine`
  as well (`FineSoFar`).  Without the tasks, what the client has got stays (`Left`).

The assumptions are the named ones of the modules: file names are ordered, the
markers `Absent`, `Corrupt`, `None` are none of the values, the largest rotation count and
the limits are positive, a content that can be refreshed has a refresh token, the probe
modes are not accounts, tokens that are pending are tokens, the sets of logins and calls are finite, an old database has recorded finitely many events
of finitely many models, numbered from 1, midnights and ranges are times, the
replaced directories are named once with the frontend first, the tool calls of an event are a
sequence of records, each with an integer index or none and one of `Ids` or none (`IsCall`),
the bounds are natural.  TLC evaluates them in every run.

The liveness properties are only model-checked: `RotationServesAll`, `Answered`,
`AnswersAfterProbes`, `ShutdownEnds`, `RequestEnds` and `RetentionGoesOn` rest on fairness
and ENABLED, which the prover does not treat.

The theorems of the library on induction take the induction hypothesis as a
parameter, which the provers cannot instantiate.  Where a sum over rows or a fold over
chunks has to be followed, the proofs take a smallest counterexample instead, from the
well-foundedness of the numbers or of the subsets of a finite set.

## Plan

What the project does not have yet, the most consequential first.

1. `Lifespan`: start-up and shutdown order of the managers, over the modules above.
2. `LoginGuard`: the windows and concurrent password checks of the sign-in, sessions.
3. The frontend's recovery from a failed chunk.

## Not modelled

Wording, logging, JSON and HTTP syntax, headers and the mapping of requests between
protocols are data without shared state.  Of the statistics the SQL is modelled by what it
returns; the filters, facets and labels, the `unknown` bucket, the limit of a breakdown, the
signature of the cursor, percentiles and the counter of dropped events are left out.  Of
the updater the download, checksum, validation and staging of an archive, its questions to
the operator, the metadata and unfinished pending backups are left out.  Password
hashing, release packaging and the views of the frontend are outside what a state
machine says anything useful about.  Sign-in takes and returns its places under one
lock in one `try`/`finally`; sessions, keys and settings are single statements or
transactions.  Upstream is external: only the outcomes the code distinguishes are
modelled.  Threads appear only behind locks (`RLock` in the token and quota managers) or
transactions, so that their critical sections are single steps as well.
