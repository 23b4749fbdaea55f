# A verification of Uni2API

Uni2API is a Python server (FastAPI, `src/main.py`, `src/api/`) that offers the OpenAI
and Anthropic APIs on top of a pool of upstream accounts. This directory holds TLA+
models of the parts of it where concurrency, failures and restarts decide whether it is
correct, the TLC configurations that check them on small instances, and proofs, checked
by TLAPS, of what holds for instances of any size.

Every definition that models code is listed in `PROJECT.json` ("map") with the lines it
stands for; "hazards" there is the list of things that are hard to test in this code and
the properties that cover them.

1. [The system](#1-the-system)
2. [The modules and the code](#2-the-modules-and-the-code)
3. [The runs](#3-the-runs)
4. [Disagreements found, and cases excepted](#4-disagreements-found-and-cases-excepted)
5. [Fairness](#5-fairness)
6. [The proofs](#6-the-proofs)
7. [What is not modelled](#7-what-is-not-modelled)
8. [Plan](#8-plan)
9. [Running it](#9-running-it)

## 1. The system

One process runs an asyncio event loop. Route handlers that block run on the threads of
the server's pool (40 by default); services start threads of their own for image tasks,
file tasks, imports, password re-logins, registrations, the backup schedule and the
account watcher. Services are singletons with a `threading.Lock` or `RLock` each and keep
their state in memory, written through to a JSON file, a database or a Git repository.

| Component | State | Operations | Talks to | Hard behaviour | Module |
|---|---|---|---|---|---|
| **Account pool** `services/account_service.py` | accounts by access token, images in progress per token, aliases from replaced tokens, counts of refusals, progress tables; the accounts are stored | take and release an image slot, check an account, refresh its token, log in again with the password, mark results, import, delete, edit | generation loop, watcher, admin API, upstream, storage | tokens change under threads that hold them; checks, refreshes and edits interleave around network calls; restarts | `AccountPool`, `SlotPool`, `AccountChecks`, `ProgressJobs` |
| **Generation loop** `services/protocol/conversation.py` | local: retry counters, whether the attempt had output | attempt, retry, combine several images | pool, upstream client | which failures are retried, with which account, how often; partial failure of a batch | `ImageGeneration` |
| **Image tasks** `services/image_task_service.py` | tasks by owner and client id; stored | submit, list, generate, continue a poll, recover, expire | generation loop, storage | repeated submissions, crash with tasks under way, failing saves | `ImageTasks`, `TaskLifecycle` |
| **Completion cache** `services/protocol/chat_completion_cache.py` | answers with an expiry, calls under way | look up, own, join, store, fail, replay | every text API, `LoggedCall` | single flight over threads; generators suspended inside locks | `ChatCompletionCache` |
| **Upstream client** `services/openai_backend_api.py` | a session per call | conversation, polling for images, search, exports, uploads | upstream | what a poll may take for a finished answer | `ImagePolling`, `SearchAnswers`, `EditableTasks` |
| **Proxy and clearance** `services/proxy_service.py` | clearance bundles, flight locks, settings | choose an egress, refresh a bundle (single flight) | upstream client, register service, FlareSolverr | followers given stale bundles, a flight that fails | `ProxyClearance` |
| **Register service** `services/register_service.py`, `register/openai_register.py` | configuration and switch (stored), counters, a runner thread, its workers | start, stop, reset, run; register an account | mailboxes, pool, clearance | start and stop racing the run; workers that stop anywhere | `Registration` |
| **Mailbox providers** `services/register/mail_provider.py` | the turn of the providers, the pool of Outlook mailboxes (stored), handed-out aliases (stored) | create an address, wait for a code, mark a mailbox | registration workers, mail servers | two registrations on one address or one inbox | `Registration`, `MailCodes` |
| **API keys** `services/auth_service.py` | keys; stored | authenticate, create, edit, delete | every route, storage | loads that fail, several writers | `KeyStore` |
| **OAuth logins** `services/oauth_login_service.py` | sessions in memory | start, finish, purge | pool | several pages open, expiry, failed exchanges | `OAuthSessions` |
| **Import jobs** `services/cpa_service.py`, `sub2api_service.py` | the servers with a job each; stored | start, report, edit and delete a server | pool, remote servers | reports against edits, restarts | `ImportJobs` |
| **Backup** `services/backup_service.py` | a running flag, the record of the last backup (stored) | run, schedule, rotate | storage, R2 | one at a time, failure of a step, rotation | `Backups` |
| **Call log** `services/log_service.py` | a JSONL file | log a call as it ends, delete | every API | streams that fail or are left; append against rewrite | `CallLog` |
| **Storage** `services/storage/` | files, tables or a Git repository | load, save | pool, keys | saves of several steps, crashes, two services on one backend | `KeyStore` |
| **File tasks** `services/editable_file_task_service.py` | tasks; stored | submit, export, recover | upstream client | a generation paid for twice | `EditableTasks` |
| **Image files** `services/image_storage_service.py`, `image_service.py` | files, copies, index | save, list, delete, sync, clean up | generation loop, admin API | the index against the files | `ImageFiles` |
| **Configuration, content filter, protocol adapters, routes** | settings | read, update, translate | all | settings that change under running requests | as constants, choices or variables of the others |
| **Web console, scripts** | none of the system's | | admin API | | |

What makes each component correct:

- *Pool*: the counter shown for an account is the number of images it is generating; no
  account is overbooked; a replaced token never gets an account back; a restart finds
  what the pool held; every request ends. The watcher condemns an account only with
  cause. A progress page is told that its job is done, not earlier and not never.
- *Generation loop*: it ends, as far as upstream lets it; a failing image does not cost
  the others; it retries what the changelog says.
- *Image tasks*: one thread per task; no task without a thread, none lost, no success
  taken back; every task ends; a timed-out task can be continued. *File tasks*: paid for
  once.
- *Cache*: one computation per key; only whole answers; nobody waits for a call that is
  over; every request ends and a replay is a good answer.
- *Upstream client*: a poll or a search that returns in time returns the whole reply.
- *Clearance*: a follower gets the newest bundle, and every call returns.
- *Registration*: an address is registered once unless its record is lost, a code goes to
  its own registration if the mail says whose it is, and a run that should end does.
- *Keys and storage*: what was confirmed stays and what was deleted stays away, except for
  faults that the backend does not withstand.
- *OAuth*: a code goes out with its own verifier, and a login can be finished as long as
  it is young. *Imports*: reports do not undo the operator's edits, and a job's numbers
  add up. *Backup*: one at a time, and the one shown as last is there. *Log*: one record
  per call, with the outcome its caller saw. *Image files*: what was given out is served,
  what was deleted is gone.

## 2. The modules and the code

Definitions commented as mutants are plausible bugs used to show that each property can
fail; nothing else refers to them.

Modules of small, independent services are checked together: `MCSupply` (the pool and what
supplies it), `MCTasks` (image tasks and backups), `MCServices` and `MCUpstream` (what talks to
other servers, imports among it) extend several of them, and a variable `part`, chosen by
the initial state, says whose steps a behaviour has. The parts share no variable, so that
the state space is the sum of theirs and not the product; a part that is not selected stays in one initial
state. What one component needs of another is in the component's own module: accounts as
usable or not in `ImageGeneration`, the mailbox pool in `Registration`, the threads of
`LoggedCall` in `ChatCompletionCache`, both services over one backend in `KeyStore`.

### AccountPool, and the abstract SlotPool

The grain is one section under `AccountService._lock`, with the thread's local steps up
to the next section. Network calls lie between sections, so everything else can happen
while they run.

| Variable | Code |
|---|---|
| `accounts`, `inflight`, `aliases` | `_accounts`, `_image_inflight`, `_token_aliases` |
| `store` | what the storage holds: what `save_accounts` wrote, or what a write that raised left |
| `unsaved` | history: the last save of the accounts raised |
| `issued` | tokens that have existed: the upstream never mints one twice |
| `refreshing` | holder of `_token_refresh_lock` |
| `relogin` | stage of each `_password_re_login_thread` |
| `pc`, `tok`, `act`, `cur`, `tried` | a thread's place and its locals `access_token`, `active_token` and `attempted_tokens` |

A request goes `Acquire` (`_acquire_next_candidate_token`), then through
`fetch_remote_info`: `RefreshNotNeeded`/`RefreshStart`/`RefreshSucceeds`/`RefreshFails`
(`refresh_access_token`, unforced and, after a rejection, forced),
`UpdateFromUpstream`/`UserInfoFails`, `RecordInvalidTokenSeen`, `RemoveInvalid`;
`ReleaseUnused` gives an unusable account's slot back; `MarkReleases`, then `MarkSuccess` or
`MarkFailure`, end the generation. A generation with output but no image
(`markFailureTwice`) marks a failure and then marks it again, with a second release.
Workers of `refresh_accounts` use the same check without a slot. Operators import, delete
and edit; a re-login runs in a thread of its own, outside the refresh lock; `Restart`
forgets everything but the store.

A section that changes accounts ends in `_save_accounts`, which may raise (`SaveFaults`): the
change then stays in memory, the storage is as it was or holds a file that loads as no
accounts (`LostStore`), and the exception takes the thread to its handler (`Raised`, `Thrown`).
A restart may also come in the middle of a write. When the save that belongs to the mark
of a result raises (`"mark"`), the slot was already released and the handler releases it
again. `remove_invalid_token` has a second section, the mark of an account that came back
between the deletion that found nothing and the update (`MarkInvalid`).

`Resolve` follows `_resolve_access_token_locked`: from a token without an account along
its aliases. It is written as the end of the set of tokens reached (`Chain`), without
recursion, so that it can be reasoned about; on a cycle it stays where it is, where the
code stops at a token of the cycle, none of which has an account.

Abstractions: a record is a status and a quota; which free account is taken is a choice
(the code takes them in turn); whether an invalid answer condemns an account is a choice
(the counts and the grace period behind it are `AccountChecks`); waiting for a slot is no
step. `SlotPool` is what the pool promises: sets of requests per account, which move with
the account when its token changes.

### AccountChecks, ProgressJobs

`AccountChecks` has the watcher's rounds of `api/support.py` and an operator's checks and
logins of the same accounts: a check is a request (`Answered`), the record of a success or
a refusal (`RecordSuccess`, `UpdateRecord`, `RecordInvalid`, `RecordGone`) and, in a section of its
own, the removal (`Condemn`). `invalids` is `invalid_count` up to three, `recent` and `young`
stand for the two comparisons of times (`Recedes` and `GrowsUp` are time). `refusals` and
`grounds` are ghosts that remember what a decision rests on. `ProgressJobs` is the record
(`processed`, `done`) that `refresh_accounts` and `re_login_accounts` keep for the progress
page, the threads that count into it, and the handler that dies before it counts.

### ImageGeneration

One request for `n` images on accounts that are usable or not. `Event` is an event of the
conversation: it tells the `conversation_id` and, when it is JSON, is yielded as progress,
which sets `emitted_for_token`. A request for a Codex model (`codex`) has none: its answer is
read as a whole (`stream_codex_image_outputs`), so nothing is emitted before the result and
there is no text. An attempt (`Attempt`) then ends in one of the ways of
`_generate_single_image`: `Succeeds`, `Replies`, `EndsEmpty`, `TimesOut`, `RepliesText`,
`Breaks` (TLS, connection time-out), `Refused`, `Rejected` (token). `Fails` is the common
shape of the retries: a counter below its limit and no output so far. `Collect` and
`YieldNext` are the two ways of combining images. Whether images are generated in
parallel and whether a text counts as an error are chosen initially, as a request reads
them once. `Refreshed` is a rejected token replaced by a good one, after which the attempt
is repeated: nothing counts it, in the code or here, so that a request ends only if
upstream does not reject new tokens for ever (`RefreshesEnd`, the premise of
`EveryRequestEnds`).

### ImagePolling, SearchAnswers

`ImagePolling` follows `resolve_conversation_image_urls` and `_poll_image_results` second by
second: `document` is what upstream has written of the reply, `announced` what the stream
said, `poll` the place of the poll, when it wakes, what it has found and `last_hit_key`. A
reading returns what is there; two readings that agree end the poll when both
confirmations are on; `ReadFails` waits for one of the `Backoffs` and goes on. Upstream is an
assumption: it writes the images of a reply within the settle time of the first
(`WritesInTime`), which is what the setting is for. Overlong requests are `PollTick`s before
an answer. `SearchAnswers` is the loop of `search`: an answer that was read three times
unchanged, or whose message has a final status, is returned; a failed reading counts as an
unchanged one, which `blind` remembers.

### ImageTasks, TaskLifecycle, EditableTasks

`ImageTasks` has one action per section under `ImageTaskService._lock` with its save.
`tasks` and `file` are memory and disk, `job` and `pc` the threads, `acked` what clients have
been told. A record is a status, what its error says (a time-out can be continued),
whether it has a `conversation_id`, and whether its retention is over (`Age` stands for time
passing). With `SavesMayFail` any save may raise: memory has changed, and the thread goes
where the exception takes it. `Restart` is the death of the process and `__init__`: load
(the `conversation_id` is not among the fields read), recover, clean up. `TaskLifecycle` is
the statuses a client sees.

`EditableTasks` is the same for the PPT and PSD tasks, with the export each thread runs
(`PrepareExport`, `Converse`, `AwaitFiles`, `Download`); `paid` counts what upstream generated.

### ChatCompletionCache

The owner's steps are one per section under `_lock` or under the condition of its
`InflightCall`. Both are reentrant locks with an owner and a depth. What makes the module
more than a textbook single flight is `at`: a stream is a generator whose items are taken
by `next` on whichever pool thread is free (`LoggedCall.run`, `LoggedCall.stream`), so a
request is suspended between items (`Yields`) with whatever locks it is inside of, and an
abandoned stream is closed on the event loop (`Leave`). Each request reads the settings
for itself ("off", "cache" without merging, "dedupe"), and all three are run together. A
request in mode "cache" never registers its computation, but removes the registration of
its key when it ends, whose ever it is (`Unmerged`): a third request then computes the key
beside the one that is registered.

### ProxyClearance

`Refresh` is a call of `refresh_clearance` with the egress its settings give (`Egress`); the
first takes the flight's lock (`Lead`) and solves, the others wait for it and compare what
they read before and after (`Follow`, `FollowerReturns`); `SolveFails` is every error of the
solver. `bundles` is the cache by egress; bundles are numbered in the order they were
earned, so that "newest" can be said. Settings change at any time (`Configure`).

### Registration, MailCodes

`Registration` composes the runner of `register_service.py` (`SubmitWorker`, `StopFilling`,
`Decide`, `Collect`, `LeaveRun`), the stages of `openai_register.py`'s `worker` (`Claim`,
`Authorize` under the one `platform_authorize_lock`, `CreateAccount`, `Exchange`, `SaveAccount`,
each with its failure) and the pool of mailboxes. `mailState` is the file of mailbox states;
`staleBoxes` are those in use for longer than the code waits before it hands them out
again; `created` is what the provider knows. The file is written in place: a claim or a mark
may raise (`ClaimRaises`, `MarkRaises`) and leaves the file as it was or torn, and so may a
crash; a torn file loads as `{}`, by which every mailbox is unused (`LoseRecords`). `reopened`
remembers what an operator reset, what a crash or a mark that raised left in use and what
was lost with the file, for which nobody promises anything.

`MailCodes` is how a registration gets an address and its code: the turn of the providers
(`Draw`), the creation, the four ways an inbox is read (`Inbox`, `Windows`), and the boundary
`_code_not_before` that separates old mails from new. `Windows` are the looks an inbox allows:
the reader of an Outlook mailbox (`"scan"`) goes through the newest few mails, the others
take one, the last listed or the one with the latest date. A mail (`MailRecords`) may be without a
date that can be parsed and without a recipient that can be read; the code lets both pass
(`FreshCodes`, `SharedInbox`), and so does the model. An alias is asked for and noted in two
steps (`AskAlias`, `NoteAlias`), and the creation may fail after the note (`NoteAliasFails`).

### ImportJobs, OAuthSessions

`ImportJobs` is the file of servers of `cpa_service.py` and `sub2api_service.py`: an import
thread reads its job (`ReadJob`) and writes the changed one (`WriteJob`) in two sections, as
`_update_job` does; edits and deletions come in between; a restart makes unfinished jobs
failed. CLIProxyAPI is asked for each file, and each gives a token or an error (`Fetched`).
Sub2API is asked once for all (`Export`): it may return fewer accounts, with one error for
all that are missing (`ExportErrors`), more than were asked for, or entries that are no
objects and give nothing; when the request raises every account gets an error
(`ExportRaises`). `results` remembers how many tokens and errors an import was given.
`OAuthSessions`: a session is a number in the order of creation; `Pick` is the choice
of a session by the state in a pasted URL, or by the body of the request when only the code
was pasted; `Purged` is expiry and the bound on their number.

### KeyStore, Backups, CallLog, ImageFiles

`KeyStore` has both users of a backend and the steps of a save in each: a file is opened
(empty) and written, a database deletes and inserts in a transaction, Git pulls, writes,
adds (`Stage`), looks for a difference (`IsDirty`), commits and pushes. Each is a step of its
own, since the two services share the clone and its index (`staged`) without a lock; when
both are in an add, or both in a commit, a change may be lost (`Beside`: the index is read
and written back), or the second finds the index locked and raises (`Locked`). The write of
a file may fail after it was emptied (`Unwritten`), for JSON as for Git's tree.

`Backups` has the scheduler and the console, the flag `_running`, the stages of a backup and
the rotation one deletion at a time; `bucket` is a set of upload numbers, which are the order
`list_objects` sorts by. `CallLog` has every way a call ends in `LoggedCall.run` and `stream`,
and the operator's deletion as the read and the write it is; `logFile` counts the lines of
each call by outcome, as nothing depends on the order of the lines.

`ImageFiles` has the three modes of storage; `save`, `sync_all`, listing (which repairs the
index), deletion and the removal of old files with their empty folders, at the grain of the
index lock, which the network calls are inside or outside of as in the code. A deletion
whose request fails otherwise than with an `ImageStorageError` leaves the entry; a sync may
be unable to write the index, and the process may die in a sync, a save or a deletion
(`RestartFiles`). `unentered` are the copies a broken sync has left without an entry, `early`
the images that were synchronised or deleted before their save was over.

## 3. The runs

Sizes are distinct states.

| Run | Instance | Checks |
|---|---|---|
| `pool_rotation` (161k) | 2 accounts, 3 tokens, 2 slots each, 2 requests, rate-limited accounts auto-removed, saves that raise, restarts | `TypeOK`; counters equal holders; refinement of `SlotPool`; replaced tokens stay out |
| `pool_operators` (987k) | 1 account, 2 tokens, 1 slot, 2 requests, every operator action, re-login, auto-removal of invalid accounts, restart | counters equal holders; replaced tokens stay out |
| `tasks` (58k) | image tasks: 3 keys, 2 threads, restarts, writable disk; 3 backups, `rotation_keep` 0 to 2 | none abandoned or lost; success final; refinement of `TaskLifecycle`; every task ends; the last backup is there, and backups end |
| `cache_single` (1.6M) | 3 equal streams and a plain request, 2 threads, 1 entry, all three modes, failures, departures | single flight; whole answers; no waiting in vain |
| `cache_liveness` (14k) | 3 equal plain requests, merging on and off | every request ends |
| `supply` (199k) | pool: 1 account, 2 tokens, 1 slot, 2 requests, 1 worker; registration: 2 workers, 2 mailboxes, 2 resets, starts, crashes or failed saves; mail: 2 registrations, 4 configurations, 2 mails; OAuth: 4 logins, 2 sessions, 2 requests; 1 account checked by two; 3 accounts in a job | every request ends; mailboxes taken once and runs end; codes are own; logins apart; condemned with cause; every job is done |
| `services` (2.3M) | image tasks: 3 keys, 2 threads, failing saves; 2 file tasks, 2 faults; 2 images in all modes; 3 calls; 2 API keys, 3 backends, 1 fault | one thread each; paid once; saved is served, deleted is gone; logged as ended; saved stays |
| `upstream` (344k) | 2 images, 2 accounts, in parallel and in sequence, plain and Codex; a reply of 2 images over 9 seconds; an answer of 4 pieces over 7 readings; 2 callers of a clearance, 2 egresses, 2 solved bundles each; 1 server, 2 files, 2 exported accounts, 2 imports, both services | no image lost, requests end; a poll and a search return the whole; refreshes return the newest; the operator has the last word and jobs add up |
| `pool_double_mark`, `tasks_resume`, `cache_replay`, `gen_poll_timeout` | small | violated: see section 4 |

Why these bounds are enough to meet the interesting cases:

- *Two of whatever competes* (requests, workers, callers, imports, registrations, threads):
  every hazard listed needs one that holds something and another that changes what it
  means. Where a third matters there are three: equal completion requests (an owner, a
  follower, and one that arrives after the answer), image tasks on two threads, calls in a
  log that is being rewritten, backups of which one or two are kept.
- *Two slots or one.* With two slots two requests hold the same account under different
  tokens, with one they compete.
- *Two or three tokens.* Three allow a chain of two replacements under one holder, or a
  replacement of each of two accounts. `MaxQuota = 1` makes the last image of quota
  happen; `MaxAttempts = 2` lets a request move on to another account and give up.
- *One re-login at a time* (`MaxRelogins`): a second would race the first as the first
  races the refreshes.
- *Two faults, events or edits* (`MaxStoreFaults`, `MaxEvents`, `MaxEdits`): one to make the odd
  state, one to meet it; a crash during the recovery from the first included. The storage
  has one (`MaxFaults`): a kind of fault that a backend does not withstand lifts its promise,
  so that the first of them is what the property looks at.
- *Two mails, two exported accounts* (`MaxMails`, `MaxExported`): an old and a new one, dated,
  named or neither; none, fewer or as many as were asked for, or one that gives nothing.
- *One account for the watcher*: checks of different accounts touch different records.
- *Retry limits of one* (none for connection time-outs, so that the failure without a
  retry happens too): the code's limits of three and four are constants of the module and
  used in `gen_poll_timeout`.
- *Nine seconds, settle two, interval three*: readings at the first sight of an image,
  before, at and after the settle time, failed readings that shift the others, and the end
  of the time with one image found.
- *Seven readings of four pieces*: three unchanged readings fit in before and after a
  pause.

`MaxSubmitted`, `MaxMails`, `MaxExported`, `MaxLogins`, `MaxSolved`, `MaxSaves`, `MaxUploads`
and `Pause` bound counters that have no bound in the code; each lets what it counts happen
at least as often as there are actors. (The accounts are saved once; the saves of the keys that race it
have no bound.)

Requests of the pool are interchangeable, hence the symmetry in runs without temporal
liveness. `CHECK_DEADLOCK FALSE` is given where the system comes to rest when everything
in the instance has ended; the task service never does.

## 4. Disagreements found, and cases excepted

Four runs show the code doing other than its documents say:

- **`pool_double_mark`.** A generation with output but no image calls
  `mark_image_result(token, False)`, raises inside the same `try`, and the handler marks
  again: the second release frees another request's slot, and the account may generate
  more images than its limit allows.
- **`tasks_resume`.** Continuing a timed-out task always fails: the client is constructed
  with a `proxy_url` argument its constructor does not take. The error replaces the
  time-out's, so the task cannot be continued again.
- **`cache_replay`.** A cached stream is yielded from inside `with self._lock`. Its items
  are taken by several threads, and a reentrant lock cannot be released by another thread
  than its owner: the stream ends in a `RuntimeError`, the lock is never released, and all
  text requests block from then on.
- **`gen_poll_timeout`.** The retry with another account after a poll time-out, or a text
  reply, is only made when the attempt had no output; every JSON event counts as output
  and the poll needs one. The retry the changelog announces does not happen.

Where a model shows the code falling short of a property in a case that nothing in the
repository promises, the property names the case and excepts it; every exception below
has steps in the model that reach it.

| Property | Except |
|---|---|
| `SlotsMatchHolders` | nothing: the runs leave the save of a result that raises away (`SaveFaults` without `"mark"`), which releases twice like `pool_double_mark` |
| `ReplacedTokensStayOut` | an import; a restart after a last save that raised, which finds the old token in the storage |
| `MailboxTakenOnce` | mailboxes an operator reset while in use, or that a crash or a mark whose save raised left in use for an hour; all of them, when the file of states was torn by a crash or a failing write |
| `EveryRunEnds` | runs that are started again before they ended; a start between the runner's last look at the switch and its end only sets the switch, which the runner clears |
| `CodesAreOwn` | mails without a date that can be parsed, which count as new; mails without a readable recipient (`To: <alias@duck.com>` becomes one), which anybody at the shared inbox takes; two registrations that got one DuckDuckGo alias because the look and the note are separate; `tempmail.plus`, which looks at no address |
| `CompletedAddsUp` | two imports of one server at a time; and it does not say that Sub2API gives one result per account, which it does not |
| `EveryJobIsDone` | a re-login thread that dies in its handler before it counts: the page waits for ever |
| `SavedStays` | a file that was emptied and not written, by a crash or an error; Git when its network or a write fails, the process dies between its steps, or the two services are in an add, or in a commit, at once; keys of a database that could not be read (the next key created is then saved as the only one) |
| `BackupsEnd` | a backup whose first record cannot be written: `_running` stays set until a restart |
| `SuccessIsThere` | what an operator deleted; a backup whose rotation failed halfway is recorded as an error, although it is there |
| `SavedIsServed`, `DeletedIsGone` | files that expired and have no copy; copies that a broken sync left without an entry (one that only a running sync knows counts as served); images synchronised or deleted before their save was over, which then overwrites the entry |
| `SingleFlight` | keys on which a request without merging has ended (`Unmerged`): it removed the registration of the one under way |
| `LoggedAsEnded` | a stream that ends while the operator's deletion rewrites the log |
| `ReturnedIsWhole` | failed readings, which count as unchanged ones |
| `AgreedIsWhole` | polls with a confirmation switched off, and those whose time is over |
| `EveryRequestEnds` (cache) | streams: waiting requests may occupy every thread that the stream they wait for needs |
| `EveryRequestEnds` (generation) | requests whose tokens upstream rejects and refreshes for ever |

## 5. Fairness

Mostly weak fairness of each thread's next step, and nothing of clients, operators,
expiry, failures or restarts.

- `AccountPool`, `ImageTasks`, `Registration` (`RunnerStep`, `WorkerStep`), `ProgressJobs`, `Backups`:
  "the interpreter runs every thread that can run, and every network call has a time-out".
  Waiting for the refresh lock of the pool needs no strong fairness in the instance
  checked, because each thread asks for it a bounded number of times.
- `ImageGeneration`: the loop (`Loop`) and the collection (`Yield`) are fair, events are not:
  a stream may stay silent until its time-out. That the loop ends rests on `RefreshesEnd`
  besides, an assumption on upstream which is part of the property.
- `ChatCompletionCache`: a request that has a thread goes on (`Step`); that it is given one
  (`Run`) is not assumed, and `EveryRequestEnds` speaks of requests that have one.
- Strong fairness twice, for locks that are free again and again while others take them:
  the lock of the authorization page (`Authorize`) and the flight of a clearance
  (`ClearanceProceeds`). `threading.Lock` has no queue, but
  whoever releases it goes on to network calls of seconds before it asks again, in which
  a waiter is woken.

In `tasks` the process may restart for ever and every task still ends, because recovery
ends those under way.

## 6. The proofs

Proved for every value of the constants (under the named assumptions of the modules,
which TLC evaluates in the runs):

| Theorem | Says |
|---|---|
| `SlotTypeCorrect`, `SlotBoundHolds`, `OneSlotEachHolds` | the abstract pool is type correct; no account is overbooked; no request holds two slots and no slot outlives its account. Needs only `MaxConcurrency \in Nat`; requests and tokens may be infinite |
| `PoolTypeCorrect` | type correctness of the account pool: every action, every setting, saves that raise |
| `TasksTypeCorrect`, `OneThreadEachHolds` | for any pattern of failing saves and restarts |
| `NoTaskAbandonedHolds`, `AcceptedTasksKeptHolds`, `TasksImplementLifecycle` | with a writable disk (`SavesMayFail = FALSE`) |
| `SingleFlightHolds`, `NobodyWaitsInVainHolds` | for any finite set of requests, whatever settings each of them reads |
| `GenerationTypeCorrect`, `NoImageLostHolds` | for any number of images, accounts and any limits of the retries |
| `AgreedIsWholeHolds` | for any images and any settle time, interval, waits and time-out |
| `MailboxTakenOnceHolds` | for any number of workers, mailboxes, starts, resets, saves that raise and crashes |
| `PaidOnceHolds` | for any number of file tasks, failing saves and crashes |
| `SlotsMatchHoldersHolds`, `PoolImplementsSlotPool` | for any tokens, limits, settings and finite set of requests, under `SlotConditions` (below) |
| `ReplacedTokensStayOutHolds` | for every configuration of the pool, with saves that raise |
| `SuccessIsFinalHolds` | with a writable disk |
| `WholeAnswersOnlyHolds` | for any requests, keys, threads, modes and number of entries |
| `OperatorHasLastWordHolds`, `CompletedAddsUpHolds` | for any servers, files, exported accounts and overlapping imports, of both services |
| `LoginsApartHolds` | for any logins, requests and bound on the sessions |
| `CodesAreOwnHolds` | for any registrations, mails, with and without date and recipient, and lists of providers |
| `CondemnedWithCauseHolds` | for any accounts, checked by the watcher and an operator |
| `SavedIsServedHolds`, `DeletedIsGoneHolds` | for any images, in all modes of storage, with errors, broken syncs and restarts |
| `SavedStaysHolds` | for any keys, saves and faults, on the three backends, with Git's steps apart |
| `LoggedAsEndedHolds` | for any calls and deletions |
| `SuccessIsThereHolds` | for any numbers to keep, uploads, failures and restarts |
| `ReturnedIsWholeHolds` | for any answer, provided that `Pause <= 2` |
| `AnswersAreNewestHolds` | for any callers, egresses and settings |

The proofs are in eight modules: one for each of `SlotPool`, `ImageTasks` and
`ChatCompletionCache`, two for `AccountPool` (`AccountPool_proofs`, and
`AccountPoolSlots_proofs`, which builds on it), and `Supply_proofs`, `Services_proofs` and
`Upstream_proofs`, with a section for each of the components that `MCSupply`, `MCServices` and
`MCUpstream` check together. Each inductive invariant was checked by TLC on a small
instance first.

*Slots.* The bound alone is not inductive: to see that `Replace` moves a set to an empty
place one needs that slots belong to accounts of the pool, and to count them that they
are finite. `SlotInv` has all three with the type invariant.

*Pool.* `TypeOK` is inductive as it stands because it says that a thread in a check has a
token in hand (`act`, `cur`), without which `Resolve` of it would not be a token. A lemma
per group of actions, one step per action.

*Slots of the pool.* `SlotInv` is what makes the counters equal the holders:

- `IssuedOK`: every token in use was issued, so that a token minted by the upstream is new;
- `ChainsEnd`: aliases lead from tokens without an account, not in a
  circle, so that `Resolve` of a held token is one token, found from each token of the
  chain alike. The lemmas on chains (`Reach`, `EndOf`) hold for any set of accounts and
  any table of aliases, since a step changes both;
- with auto-removal, no account's token has a successor (`NoLiveAlias`);
- `HandsAgree`, `MarksOnce`: the tokens a thread works with lead to one account, and a
  request marks its result once;
- `SlotsCounted`: the counter of a token is at most its holders, and equal to them when it
  has an account. A token without an account may have fewer, as a deletion forgets them.

`SlotConditions` leave out three cases in which the code loses count, each for a reason that
can be read in it: an import gives an account to a token that was replaced or deleted while
requests still hold slots under it (the hazard at `account_service.py:1127`); a result is
marked twice, because there was no image (`pool_double_mark` shows it) or because the save
of the first mark raised (`"mark"`); and a limited account is removed
(`auto_remove_rate_limited_accounts`, `account_service.py:1207` and `:1305`) whose token was
replaced and imported again. The instances of `pool_rotation` and `pool_operators` meet them.
The step simulation of `SlotPool` maps each account to its holders; the invariant says which
abstract step a concrete one is.

*A replaced token.* An update writes an account that is there, under the end of a chain. A
refresh or a login moves it to a token just minted, which by `IssuedOK` is nobody's alias,
and a restart finds in the store what the pool had, unless the last save raised
(`SavedOrKnown`, proved with a lemma per operation). So only an import gives an account to
a token that was replaced, or a restart that follows a failed save.

*Tasks.* One thread per task follows from "a key with a thread is queued or running":
`Submit` needs an unknown key and `ResumePoll` a failed one. The mapping to
`TaskLifecycle` needs the same invariant, to see that a thread's report finds its task
unfinished, and a writable disk, since otherwise memory may show what a restart undoes.

*Cache.* `CallInv` relates the three places a call lives in: a registered request is at a
place where it computes, stores or drops its call; whoever waits waits for a call that is
under way, about to publish, or has been told; and a merging request that computes is the
registered one of its key unless one without merging has ended on the key (`Unmerged`),
which, once so, stays so. `AnswersWhole` needs none of it: entries come from requests at
`publishing` or `answered`, which a request only leaves for the other, and who follows or
replays does so from one of these.

*Generation.* `NoImageLost` needs that a request that is over in parallel waited for all its
threads (`Collected`): no loop moves afterwards.

*Polling.* `PollingInv` says when the next reading comes: a settle time after upstream's
first image, or never (`SettleWaited`). Failed readings only push it back. With
`WritesInTime`, two readings that agree then agree on everything.

*Mailboxes.* For a mailbox that is not `reopened` the file and the workers agree
(`FileAgrees`): it is in use or used exactly while one worker has it, so that none in use is
left behind without a crash or a save that raised, and none that the provider knows is
unused. A write that loses the file reopens every mailbox that had a record in it.

*File tasks.* A task that was paid for is known to the file (`NoneForgotten`): its thread
starts after the submission was saved, and nothing forgets a task. Its id is therefore
never new again, and a thread pays once, at a place it does not return to.

*Imports.* `ImportInv` adds to the two properties that one import reports on a server that
no second one has touched, and what its report (`Reports`) may find in the file at each of
its places: what a read and the write after it leave between them is the operator's
doing, which the write looks up again, or the import's own. What is still to come and what
was counted make up what the import was given (`results`).

*Logins.* A picked session carries the login of the code (`PickedOwn`), and a young session
among the newest is there until its code is spent (`YoungKept`). That a purge spares them is
counted: the sessions above the least that is kept are too few to push it out
(`FS_Subset`, a least element of a set of numbers by well-foundedness).

*Codes.* An address comes with the mailbox and is of its kind (`AddressOfKind`); the mail
whose code is returned is newer than the boundary of its registration if it has a date,
and to its address if that can be read, except with `tempmail.plus`, whose inbox is one
(`GotOwn`); and who waits at a mailbox that
is lent (`Exclusive`) has it alone and wants a mail newer than those taken from there before
(`Alone`). The list of providers is any sequence of kinds.

*Checks.* `CondemnedWithCause` is inductive once the counter equals what was recorded since
the last good answer (`CountsRefusals`), by whichever of the checks.

*Image files.* `PhotoOK` says for each image what its save, a sync, a clean-up and a deletion
may leave of file, copy and entry at each of their places, also when the process dies
there. The index is written by one of them at a time (`SyncOwnsIndex`), which is what an
image that a sync has in hand needs; a copy that ends up without an entry is `unentered`.

*Storage.* `StoreInv` holds the promise (`PromiseKept`) until something happened that excuses
it (`Excused`), and what happened is never forgotten. Up to then a file that is open is the
only one that is not whole; the memory of the keys is what was saved last; and with Git,
whatever was written is staged, committed and pushed by one of the two services, not
always by the one that wrote it (`WrittenIsPushed`): a commit with nothing to commit means
that the other one took it along and has pushed it, or is at it. The index and the head a
service has read (`seen`) are the current ones as long as the two were never in an add, or
in a commit, at once.

*Log and backups.* A call that is not over is neither in the file nor in what a deletion is
going to write back (`FitsCall`), so it is logged once; and the archive of the backup under
way is the newest upload, of which there is none newer to count, so that no number to
keep, once above zero, puts it in excess (`NewestIsKept`).

*Search and clearance.* `PausedSince` counts the readings since upstream last wrote: a text
read three times unchanged was not continued for three readings, which a pause of at most
two does not allow. `Pause <= 2` is the same premise on upstream that the code makes with
its number of stable readings; with a longer pause the code returns a part, by design.
`ClearanceInv` says that the cache of an egress is the operator's bundle or the last one
solved, and that a call that found none was not overtaken.

Only model-checked: the liveness properties `EveryRequestEnds`, `EveryTaskEnds`, `EveryRunEnds`,
`EveryJobIsDone`, `BackupsEnd` and `EveryRefreshReturns` (the prover has no rule for fairness and
none for ENABLED), and the four properties that are violated. Every invariant and every
action property of a passing run is a theorem. No module needs induction over data, which is
out of reach too (the induction theorems take an operator as a parameter): where one did,
for what `SelectSeq` keeps of a log, of entries or of a list of backups, the model now says
it of counts, of positions or of sets, which are what the code's dictionary, lines and
sorted list amount to.

## 7. What is not modelled

- Network protocols, formats, prompts, pictures, encryption, archives and mail parsing: no
  shared state. Most of `openai_backend_api.py`, `conversation.py` (the parsing of the event
  stream) and the stages of `openai_register.py` are of this kind: requests and parsing of
  their answers, whose outcomes are the choices of the actions that model them.
- Numbers that only decide a wait or a text, as choices; round-robin order, as a choice
  among the free accounts.
- Several processes on one storage. `Restart` is one process that dies and returns;
  `KeyStore` has the two services of one process on one backend.
- The protocol adapters, the content filter, the routes and the configuration, which have
  no state of their own beyond settings; the console and the scripts.
- The failing of a write of the imports' file of servers, of the register's configuration
  and of the settings: those files are written in place and a crash may tear them.
- Parts of modelled components named in `PROJECT.json`: rotation of text tokens, keepalive
  and statistics of the pool; `update_key`; browsing a remote server and the cached Sub2API
  login; restoring settings from a backup; tags and thumbnails; filters of the log;
  expiry of a clearance bundle, which a forced refresh never looks at.

## 8. Plan

Done: the modules of section 2. What would add most, in this order:

1. The pool under an import that overlaps its holders, or a result whose save raises: an
   invariant that bounds how far counter and holders part.
2. Two processes on one store: `KeyStore` with a second `memory` that never rereads.
3. The text-token rotation of the pool with the loop of text answers.
4. The cached Sub2API login, which a late answer fills with the old credentials' token.
5. The servers' files of the imports, written in place and torn by a crash.

## 9. Running it

    tlc -workers 2 -config pool_rotation.cfg MCAccountPool.tla
    tlapm AccountPool_proofs.tla

`PROJECT.json` names the module of each configuration.
