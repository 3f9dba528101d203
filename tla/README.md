# movie-planner: a TLA+ development

movie-planner tells its Members which movies play in the cinemas they choose.
Two roles of one Node.js code base share one Postgres database: the **web** role
(`server/`) serves HTTP and live pushes, the **worker** role (`scraper/`) claims
scrape jobs and fills the catalog. A React **client** (`client/`) runs in the tabs of
a browser and caches what it read. There is no other broker: jobs are rows of a
table, notifications are Postgres `NOTIFY` messages. What is hard in this
program is therefore what several processes do to the same rows, with
notifications that may be lost and processes that may die, and what a page shows or
sends when answers come late or the record has changed under it. That is what these
modules are about.

## 1. Inventory

| Component | State | Operations | Talks to | Hard part | Correct when |
|---|---|---|---|---|---|
| TheaterSubmission (`submission-service.ts`, `submission-queries.ts`) | `theater_submissions` | submit, retry, dedup | catalog, queue, Selection | concurrent submissions of one URL; throttle and eligibility checked before the write | one pending attempt per Theater; throttle and verification hold at the insert |
| Submission resolution (`submission-resolver.ts`) | the attempt's status, member notices | live resolution, sweep, expiry | progress events, reports, Selection | lost or doubled events, two web instances, expiry against late workers | each attempt resolves once, with one notice, and a success means an active Theater |
| Job queue and worker (`pg-job-queue.ts`, `pg-job-consumer.ts`, `scraper/src/index.ts`) | `scrape_jobs`, `scrape_reports` | enqueue, claim, execute, report | queue, scrape run, progress events | claim deletes the row before the work; crashes; failing updates | a job runs on one worker; every claimed attempt ends |
| Theater catalog (`theater-service.ts`, both `theater-queries.ts`) | `theaters` | add, edit, delete, upsert, activate, reset | queue, attempts and Selections by cascade | deletion and re-addition under a running scrape | active means scraped |
| Selection (`selection-service.ts`, `entitlement.ts`) | `member_selections` | add, auto-add, remove, remember and activate | catalog, Members, billing | the quota under concurrent adds and offer changes | within the quota, only catalogued Theaters |
| Member lifecycle (`member-admin-service.ts`, `member-account-service.ts`, `verification-service.ts`) | `users.status` | verify, suspend, reinstate, erase | everything a Member owns, by cascade | transitions during a request | a suspended or erased Member does nothing more |
| Scrape run (`scrape-run.ts`, `scraper/index.ts`, `puppeteer-transport.ts`) | the summary, the shared Chromium, `scrape_attempts` | Theaters by dates, rate limit, resume | the source site, other runs of the process | partial failure, stop in the middle, cron runs beside jobs | every planned Theater is counted once and the report agrees; one Chromium |
| Sessions and tokens (`session-service.ts`, `refresh-token-repository.ts`, `auth-email-token-repository.ts`) | `refresh_tokens`, `auth_email_tokens` | login, rotate, revoke, reset, verify | Member lifecycle | revocations racing logins and rotations | a token is used once; a revocation leaves nothing alive |
| Notification bus, cron scheduler (`postgres-notification-bus.ts`, `cron-scheduler.ts`, `scraper-schedules.ts`) | LISTEN connection, registered tasks, `scrape_schedules` | connect, reconnect, subscribe, schedule changes | web to worker | lost and reordered change events | registered tasks converge to the table |
| Live push (`progress-tracker.ts`, `member-notification-tracker.ts`, `sse-bridge.ts`) | listeners, heartbeat, replay buffer | add, remove, emit | bus, browsers | write failures inside loops | one heartbeat while somebody listens |
| Users, roles, permissions (`user-service.ts`, `role-queries.ts`) | `users.role_id`, `role_permissions` | create, change role, delete, set permissions | the admin forms | check then act, two statements without a transaction | an admin remains; a replacement leaves what was asked for |
| Rate limits (`rate-limit-queries.ts`, `rate-limit-source.ts`, `middleware/rate-limit.ts`) | `rate_limit_configs`, its audit log, the copy in memory, the counters | change, reset, reload, poll | every HTTP route | a transaction run statement by statement on pool connections; reloads empty the counters | a client gets at most the maximum per counter begun in the window |
| Database start-up (`migrations.ts`, `admin-bootstrap.ts`, `schema.ts`) | `schema_migrations`, the first administrator, the seed | migrate, bootstrap, seed | Users, catalog | a death between a step and its record; two processes at once | a serving process has the whole schema; one password is logged and it is the stored one |
| Weekly programme (`AllocineScraperStrategy.ts`, `movie-queries.ts`, `showtime-queries.ts`, `date.ts`) | `movies`, `showtimes`, `weekly_programs` | scrape a date of a Theater, write its movies, showtimes and week | scrape run, Homepage | two workers on one movie, refused batches, deletion under a scrape, two clocks | a movie of the week has a showtime; known details are kept |
| Pages of the programme (`movie-service.ts`, `HomePage.tsx`, `TheaterContent.tsx`, `MovieSearchBar.tsx`) | answers cached by day, filters, the search box | read, select a day, search | programme, Selection | movies and showtimes read apart; late answers; midnight | a card has showtimes; the filter is that of the box |
| Parsers (`json-parse-cache.ts`, `theater-parser.ts`, `theater-json-parser.ts`) | the LRU cache of parsed columns | parse | catalog, movies | a caller changing a cached value; eviction | every call gets what its text says |
| Web client, Member side (`api/core.ts`, `AuthProvider`, `selection.ts`, account pages) | cookies, tab memory, query cache, pages | sign in, refresh, change the Selection, confirm, recover, erase | Sessions, Selection, submissions | several tabs on one cookie jar; lost and late answers | nothing the tab does itself ends the Session; the screen is current once at rest |
| Web client, Admin side (`pages/admin/*`, `components/admin/*`) | lists, forms, requests in flight | edit a Theater, user, role, schedule, limits, settings; act on a Member | every admin route | saves over concurrent changes; answers after the page was turned | a save changes what was typed; a dialog shows its own Member |
| Mailer (`mailer.ts`) | none | send | Sessions | a failure is swallowed | a link is issued before its e-mail |
| Reports and system pages, settings | rows read or written one at a time | read, write | | none between processes | |

`PROJECT.json` repeats the list with the status of each, and lists the hazards at
the line where each one bites.

## 2. Modules

| Module | Content |
|---|---|
| `SubmissionPipeline` | the core: submit, queue, worker, resolution, catalog, Selection and Member lifecycle around it |
| `SubmissionLifecycle` | what the pipeline promises, without locks, jobs, workers or notifications |
| `JobLedger` | what the tables of the job queue promise, without workers, browsers and page loads: the contract that `SubmissionPipeline` and `ScrapeWorker` both implement |
| `SubmissionInvariants` | the inductive invariant `IInv` and its named parts |
| `ScrapeWorker` | one worker process: queued jobs, cron ticks, their runs over Theaters and dates, the Chromium they share; its inductive invariant |
| `Sessions` | accounts, refresh tokens and e-mailed links, statement by statement |
| `SessionLedger` | what they promise, without requests, statements and row locks |
| `StaffRoles` | the Staff roster and the roles' permissions under concurrent administrators |
| `NotificationBus` | the LISTEN connection of a process |
| `ScheduleSync` | the cron tasks of the worker against the table of schedules |
| `LivePush` | the two server-sent event sinks |
| `RateLimits` | the change of a limit on pool connections, the copy in memory, one limiter |
| `CinemaWeek` | the dates of a scrape and the weeks, as operators |
| `Programme` | what scraping one Theater for one date writes; extends `CinemaWeek` |
| `Startup` | migrations, first administrator and seed of starting processes |
| `ParseCache` | the memoized parser of JSON columns |
| `BrowserAuth` | the Session of one browser over its tabs |
| `MemberCache` | the queries a Member's pages cache, and what invalidates them |
| `AdminForms` | the forms of the administration over a record that others change |
| `CronForm` | the cron expression in the schedule form |
| `Homepage` | the Homepage and a Theater's page, with the statements behind them |
| `SearchBar` | the search box and the filter of the page |
| `AccountPages` | sign-up, confirmation, recovery and erasure in one tab |
| `MembersPage` | the Admin's list of Members |
| `SubmissionPipelineProofs`, `ScrapeWorkerProofs`, `SessionsProofs`, `ProgrammeProofs` | the theorems about the module in their name; `ProgrammeProofs` also those about `CinemaWeek` |
| `NotificationProofs` | the theorems about `NotificationBus`, `ScheduleSync` and `LivePush` |
| `ServicesProofs` | the theorems about `StaffRoles`, `RateLimits`, `Startup` and `ParseCache`, and about `MCServices` as a whole |
| `FormsProofs` | the theorems about `AdminForms`, `CronForm` and `SearchBar` |
| `PagesProofs` | the theorems about `BrowserAuth`, `Homepage`, `MemberCache`, `AccountPages` and `MembersPage`, and about `MCPages` as a whole |
| `MCSubmissionPipeline`, `MCScrapeWorker` | symmetry sets and the view of the runs of the core |
| `MCServices`, `MCPages` | the other modules of the server and the scraper, and those of the client, side by side: a behaviour picks one of them in `part` and runs it, the others stutter |

The modules that `MCServices` and `MCPages` put side by side share no variable. Where two
of them meet in the program, one keeps the other's effect as a choice: `ScheduleSync` knows
the connection of `NotificationBus` as up or down, `BrowserAuth` knows `Sessions` by the
tokens it accepts and a step `SessionEnds`, `AccountPages` serves a request of `Sessions`
in one step, `Homepage` sees the rows of `Programme` change. One run for each of the two
modules lets TLC explore all of them in minutes.

### How the core corresponds to the code

Each table is a variable: `member` (`users.status`), `catalog`, `storedUrl` and
`placeholder` (`theaters`: status, URL, whether the name is still the id), `report`
(`scrape_reports`: status and the age of `claimed_at`), `job` and `queue`
(`scrape_jobs`), `sub` (`theater_submissions`, by the report id that links an
attempt to its job), `window` (attempts young enough for the throttle) and
`selection`. `client`, `worker` and `resolver` are the program counters of the
handlers that run `submit` or a Selection add, of the worker loops and of the runs
of `resolveSubmission`; `events` are terminal progress notifications in flight,
`notices` counts the notices published per attempt.

A URL is named by the Theater id it carries. `partial_success` is `success` and
`rate_limited` is `failed`, as `SCRAPE_OK_STATUSES` classes them.

An action is one statement, or one transaction. The submit transaction is split at
its statements, because what it reads early it relies on later: `LockMember`
(`SELECT ... FOR UPDATE` on the Member, the authoritative gates), `DecideAttempt`
(the lock on the Theater's row, the retry rule, the throttle) and `InsertAttempt`
(the writes and the commit). The row locks that live between those steps are
derived from the program counters (`MemberLocked`, `TheaterLocked`), and every other
action that writes a locked row waits for them. The other transactions write at
their end only and hold nothing longer than an action, except the resolution: it
reads the Theater without a lock and writes later, so it has two steps,
`DecideOutcome` and `WriteTerminal`. A worker's job has one step per database call:
`Claim`, `MarkRunning`, `Prepare` (scrape jobs), `LoadMetadata`, then `Activate` or
`ResetTheater`, then `ReportSuccess` or `ReportFailure`; any of them may throw.

Faults: a worker or the web process dies at any step (`WorkerCrash`,
`ResolverCrash`), a report update fails (`FaultyWrites`: its failure is swallowed in
two of three places), a notification is lost or received by a second web instance
(`EventLost`, `LiveStart`), a notice is not delivered (`Publish`), a submit
transaction fails at any statement (`ClientAbort`).

### The worker process

`SubmissionPipeline` follows one Theater's attempt through any number of workers and
knows a scrape by its effect on that Theater's row. `ScrapeWorker` opens one worker up:
the two meet in `theaters`, `scrape_jobs` and `scrape_reports` (`catalog`, `queue`,
`report`), which both have as variables. `run` is the state of each `ScrapeRun` or
`addTheaterAndScrape`, named by its report; `browser` is the module variable `_browser`
of the Puppeteer transport and `alive` the Chromium processes there really are.

`Claim` is the queue loop, which awaits one job before it takes the next; `Tick` is a
cron task, which waits for nobody. From there on both are the same code: `Prepare`, then
for each Theater `NextTheater`, `GetBrowser`, `Launched` (the await inside `getBrowser`),
`PageLoads` or `LoadFails`, one of `DateSucceeds`, `DateFails`, `DateRateLimited` per
date, `SettleTheater`; at last `CloseBrowser`, `BrowserClosed` (the await inside
`closeBrowser`) and `Record`. `RunThrows` is an exception nothing inside the loops
catches. An `add_theater` job has the same steps for its one Theater, without the
treatment of a 429, and ends in `SettleAdd`. Neither module is a step-by-step detail of the
other, since a job of `ScrapeWorker` may cover the whole catalog; what they have in common is
said by `JobLedger`, which both implement: a job is handed out once and in order, a queued
report never expires, a report is settled by its holder or by the expiry, and a Theater moves
forward only while somebody holds a job. Steps are separated where the code awaits,
because there the other runs of the process get their turn. What a date yields is a
choice; its pages, movies and showtimes are not modelled, and neither are progress
events.

### The other processes of the server

**`Sessions`.** A request in flight is a record of `request`: its operation, the statement
it is at (`pc`) and what it read. `account`, `tokens` and `links` are `users`,
`refresh_tokens` (by order of insertion; `parent` is the token a rotation replaced) and
`auth_email_tokens` (the one live link of a Member and purpose). The locks that decide the
races come from where each request stands: `FOR UPDATE` on a `users` row, which a
suspension, an erasure and a password reset hold, keeps the foreign-key check of an
`INSERT INTO refresh_tokens` waiting; a plain `UPDATE` does not. Writes of a transaction
appear at its commit. A rejected request changes no row and is no step; the expiry of a
token only makes validation refuse. `SessionLedger` has the same tables and one step per
gesture: `Succeed` ends a live token where its successor begins, `Reset` spends the link, sets
the password and revokes tokens, `Suspend` ends every session. A login is the exception it
keeps (`Grant`, to a Member who may be suspended by now), and so is the change of a password,
whose revocation is a step of its own.

**`StaffRoles`.** `staffRole`, `roleRows`, `grants` are the tables. Each request checks and
then writes on the pool with no transaction around: check and write are two steps, and
`setRolePermissions` has one for its DELETE and one for its INSERT, either of which may
fail. `overtaken` marks a request whose check another change followed.

**`NotificationBus`.** `current`, `connecting`, `timer`, `handlers` are the fields of
`BasePostgresNotificationBus`; `clients` says of every client created where it stands and
what it listens to. Steps are separated where the methods await. **`ScheduleSync`.** The web
role writes `row`, commits and publishes a snapshot; the worker loads the table once,
subscribes, and registers `tasks` from what it is told. `missed` (history) names schedules
whose last notice was lost, overtaken or came between load and subscription.

**`LivePush`.** A pipe is one HTTP response: it may be gone for a while before the server
hears `close`, and a write to it may throw inside the loop that serves the others. Both
trackers are there, with the cap per Member and the oldest pipe it ends, the backlog
replayed to a new progress listener, and the heartbeats (`intervals` that run, `handle` the
tracker can still clear).

**`RateLimits`.** `session` says what each pool connection buffers in a transaction: `BEGIN`,
the two writes and `COMMIT` each take any idle connection, as `db.query` does. The copy in
memory is reloaded after a change and by the minute's poll, and each reload makes new
limiters; `window` (history) counts what one client was let through since its first request.
What `express-rate-limit` counts is external.

**`Programme`, `CinemaWeek`.** A worker's step is one statement of `scrapeTheater`: the
upsert of a movie with details or without (its page may not answer, or another worker read
the row before), the batch of showtimes (which may be refused as a whole) and the batch of
the week. `CinemaWeek` translates `date.ts` with its two clocks: dates are UTC days, the
weekday of `from_today_limited` is local, and a day added across the start of summer time
comes out as the day before.

**`Startup`.** One step per statement that commits by itself: the execution of a migration
and its record, the first administrator's INSERT and the log line with the password, the
rows of the seed. A process may die or a statement fail between any two; two processes may
start at once. **`ParseCache`.** The `Map` in insertion order used as an LRU, and the
callers who change the value they were handed.

### The pages

**`BrowserAuth`.** `jar` is the cookie jar all tabs share, `user`, `stored` and `told` what
each tab and localStorage know. A call answered 401 waits for its tab's one refresh; the
refresh travels with the cookie of its moment and its answer changes the jar on arrival. A
call answered otherwise changes nothing and is no step. `excuse` (history) records the ways
the Session may be lost.

**`MemberCache`.** One cached query (`watched`) stands for each: of its data the model keeps
whether the server would still answer the same, since the queries share their triggers and
nothing else. The writes of the pages, their invalidations, the notice of a resolution and
refetches on mount or focus are the actions.

**`AdminForms`, `CronForm`.** `record` is the stored row, `base` what the page loaded, `draft`
the form, `save` the request in flight; `subject` chooses which page it is: the Theater form
sends the fields that differ from its copy, the others send everything. `CronForm` has the
effects that keep the expression and the simple controls of the schedule form in step.

**`Homepage`, `SearchBar`.** `entries` are the answers kept under the day selected,
`fetching` the request in flight, whose two statements (movies, showtimes) are two steps;
the filters are operators. In `SearchBar` the text of the box reaches a search once it has
rested, and answers come in any order.

**`AccountPages`, `MembersPage`.** Requests are served in one step; they or their answers may
be lost, and answers come after the page was left, the list turned or a dialog closed.
`untold`, `doubt`, `strayed` are histories that name the excuse of a property.

## 3. Runs

| Run | Question | Shows |
|---|---|---|
| `submit_races` | two Members, two handlers, one URL, three attempts | at most one pending attempt per Theater |
| `throttle` | one Member, two URLs in two concurrent transactions, suspensions, Selection adds | the throttle (one per window) and the verification gate hold at the insert |
| `resolution` | two workers, two resolution runs, a crash, failing updates, lost and doubled events, erasure | attempts resolve once, with at most one notice; the tables of the queue change as `JobLedger` says, hence terminal reports stay terminal; `IInv` holds, and with it that jobs run once |
| `catalog` | two Theaters, Staff adding, editing URLs and deleting while attempts run | a success means an active Theater; Selections stay inside catalog and quota; the abstract lifecycle is implemented |
| `submission_liveness` | a crash, failing updates, lost events, under fairness | queued jobs are claimed; attempts whose claim was stamped are resolved |
| `scrape_worker` | one worker, two Theaters, two runs of any kind, cron beside jobs, every failure, one crash of the worker or of Chromium | one Chromium unless a cron run overlaps; a 429 stops the run; the recorded outcome accounts for the plan; active Theaters stay active; each step takes a run nearer to its end; `IInv` holds |
| `services` | each of the nine other modules of server and worker, chosen at the start | a token has one successor, a link is spent once, an erasure knows the password; some request in flight always has its locks or is the victim of a deadlock; accounts, tokens and links change as `SessionLedger` says, hence a suspension ends every session; the last admin goes only by an overtaken check; a bus with handlers is never deaf; tasks follow the table; open pipes are served; the programme has showtimes and keeps details; limited scrapes stay in their week; `ServicesInv` |
| `pages` | each of the eight modules of the client, chosen at the start | a tab does not end its own Session; the screen is current once at rest; a save changes what was typed; an untouched cron is kept; a card has showtimes; the filter is that of the box; `PagesInv` |
| `attempt_may_hang` | as `submission_liveness`, for every attempt | **violated**: see below |
| `erased_not_retryable` | two Members, one erased | **violated**: see below |
| `active_placeholder` | Staff delete and re-add during a scrape | **violated**: see below |
| `rate_limited_report` | one run that meets a 429 | **violated**: see below |

**Bounds.** `MaxReports` bounds the reports ever created (1 to 3: a first attempt, a
retry, and a second Theater's or a third Member's); `MaxCrashes` allows one crash,
because a crashed process restarts idle and a second crash repeats the first;
`ThrottleMax` is 1 where the throttle must bite and 2 elsewhere; `SelectionQuota` is
1, so that a second choice meets it. `Outside` says which acts of people and of the
environment take part in a run: each run leaves out those its question does not need
(the whole set at once is beyond a five-minute run), and the proofs hold for every
value of it. Two handlers, two workers and two resolution runs are what a race takes;
the properties speak of pairs. `submit_races` and `catalog` identify states that differ in
`placeholder` and `notices` only (the VIEW `Unwatched`): no guard reads the two, and neither
do the properties of those runs.

In `scrape_worker` two reports are two runs, the fewest that overlap, and cover every
pair of kinds; two Theaters let one fail and the other succeed, or come after a 429; one
date per Theater at most, since a date only adds its outcome to the best so far and the
429 ends the loop; two Chromium names are enough to see a second one. Theaters and names
are interchangeable, so the run uses their symmetry. It is a safety run: nothing after
its bounds are used up has to happen, hence no deadlock check.

In `services`, what a race takes is two of whoever races: two requests of one Member (whose
rows are the only ones they share) with three tokens (one per login or rotation of a chain
that forks) and two links and passwords; two requests over three Staff, so that an admin can
be left, removed or created, and a role with two permissions, so that a replacement can be
seen half done; two channels and six clients, enough for a lost connection during each step
of a restore; two edits of one schedule, four versions; three pipes for a cap of two, shared
by two Members and the progress list; two administrators on two connections; two workers on
one movie in one Theater over the two days around a change of week; two processes with two
files and two deaths, which stop each of them once; a cache of two with three texts and one
that does not parse. In `pages`: two tabs and three calls (two refused in one tab, one in
the other); quotas 0 and 1, which an offer separates; two fields, a blank and a text; two
Theaters and one movie over the turn of a week, two moves of people; two phrases; two posts,
mails and four gestures; two Members on pages of one, so that the list can be turned, and
four clicks. Bounds are guards of the actions, and behaviours stop when they are used up:
hence no deadlock check. `ServicesInv` and `PagesInv` are the conjunction of what each
module says of itself, its type invariant among it. Sets of different modules have the same
elements, so that one group of permutations serves all.

**Fairness** (`Fairness`). A started handler ends (every path through it ends in a
response); the worker loop polls again after each job, failed ones included; Postgres
serves row locks in queue order, so a resolution that waits for the Member lock while
others come and go is served (strong fairness); the sweep runs every 60 seconds over
all resolvable rows; time passes. Nothing obliges people to submit, notifications to
arrive, transactions to succeed or processes to crash. Only `SubmissionPipeline` states
fairness. That something must happen is elsewhere put as safety: a bus without a connection
always has an attempt or a timer (`NeverDeaf`); while requests are in flight, one has its locks
or Postgres aborts one of two that wait for each other (`SomeoneProceeds`, over `Granted`, which
lists the lock guards of the actions as they stand); a run comes nearer to its end with every step
(`RunsWindDown`), by an order in which nothing goes on for ever, so that the worker loop, which
awaits one job before the next, is never kept by one as long as pages and statements answer or
throw; and the pages are right whenever nothing is under way.

**What the documentation says and the code does not always do.**

* `attempt_may_hang`: CONTEXT.md:104 says that an attempt ends in `succeeded` or
  `failed`. The claim deletes the queue row, `claimed_at` is stamped by a later
  statement, and the expiry only looks at stamped reports. A worker that dies in
  between leaves the attempt pending for ever. With the stamp, `ClaimedResolves` holds.
* `erased_not_retryable`: CONTEXT.md:106 and :108 let any Member retry a failed
  Theater. The retry rule takes "no attempts" to mean "introduced by Staff"; an erasure
  cascades the attempts.
* `active_placeholder`: CONTEXT.md:281 says an active Theater has its metadata.
  `activateTheater` moves whichever row has the id, also one added after the worker's
  upsert.
* `rate_limited_report`: docs/guides/advanced/scraper-rate-limiting.md:215 says that the
  report of a run that met a 429 is `rate_limited`. The summary is; the report's status is
  derived from the counters of Theaters and becomes `failed`, or `success` when what came
  before the 429 had no failure.

A remark on `ScrapeWorker`: the comment "one browser per scraper process"
(puppeteer-transport.ts:9) holds only while no cron run meets another run, which is why
`OneBrowserUnlessOverlap` says so: two concurrent `getBrowser` calls launch twice and
forget one Chromium, and a run that closes the browser fails the page another one is
loading.

### What else the modules had to say as it is

The properties name the following as exceptions, or the modules contain it as a step. None
has a run of its own.

Accounts and sessions
* A login that read the account before a suspension inserts its token after the revocation:
  the suspended Member keeps a live token and, since a rotation reads the row without its
  status, may go on rotating it, though `requireMember` refuses the pages. CONTEXT.md:37 says
  that every refresh token goes at once and that the client's refresh then fails. The step of
  the suspension itself leaves none (`SuspensionEndsSessions`). A password change has no row lock and leaves the same gap
  (CONTEXT.md:434). docs/reference/api/auth.md:537 ("No Refresh Tokens") is outdated.
* The event that tells a tab its Session is lost is dispatched once per page load
  (core.ts:8, 42, 120-122): a second loss is silent. AuthProvider's check at mount signs out
  on a 401 without trying a refresh.
* ChangePasswordPage keeps its user after the server has cleared the cookies and is sent to the login page
  as "session expired", which the comment at AccountPage.tsx:73-90 wants to avoid. Its
  timer is not cancelled on leaving (ChangePasswordPage.tsx:45). A late answer of a password
  reset logs out a session begun since.
* A link is superseded before the mailer is tried: a failed send leaves no usable link. A
  lost answer of a confirmation is shown as a failure of a confirmed account.

Staff, limits, start-up
* Two overlapping demotions or deletions leave no admin; with the user named admin demoted,
  the next start's INSERT violates its unique name and the server never starts
  (admin-bootstrap.ts:13-18). A death between that INSERT and the log line leaves an
  administrator whose password nobody saw (admin-bootstrap.ts:53-62).
* `setRolePermissions` calls itself atomic and is two statements; so is
  "Start transaction for atomic update + audit log" (rate-limit-queries.ts:60), whose BEGIN
  and COMMIT may run on different connections of the pool (db/internal/client.ts:29).
* docs/reference/api/rate-limiting.md:49, 63 promise fixed windows; every reload, the
  minute's poll included, empties the counters (rate-limit-source.ts:160). A poll may store
  an older value than a reload just did. The limiter of protected routes reads the token of
  the Authorization header only, so that cookie sessions are limited by IP. RateLimitsPage
  says "within 30 seconds" where the poll takes a minute.
* A seed cut short is never completed (schema.ts:57-87).

Bus, schedules, live push
* A timer beside a subscription can open two listening clients; `disconnect` during a
  connection attempt leaves its client open.
* A schedule change published between the worker's load and its subscription, lost, or
  overtaken by an older snapshot, stays unknown until the next change or restart.
* A progress list emptied by write failures keeps its interval running; a panel opened after
  the end of a scrape is replayed the old terminal event.

Programme
* `from_today_limited` takes the weekday from local time and the date from UTC (the
  containers run in Europe/Paris, compose.yaml:42, 117); `getWeekDates` across the start of
  summer time yields a day twice and misses the last.
* One showtime id that two screens share refuses a Theater's whole batch; cancelled showtimes
  are never deleted; an overlapping scrape whose movie page did not answer overwrites the
  director and the screenwriters with nothing.
* The Homepage's "Maintenant" and the button of today share the query key of the day: each
  shows the other's answer until the next fetch, though CONTEXT.md:145 and
  HomePage.test.tsx:435 say that "Maintenant" keeps the week's answer. Its day is the UTC
  day and its hour local, so that after midnight in Paris it lists the previous day.
* In the search box, an answer that came late keeps filtering an emptied box, and a query
  typed again right after a reset does not filter.

Administration
* Pages that send their whole form overwrite what others changed since it was loaded.
  Clearing a field of a Theater is never sent. A weekly schedule without days is saved as
  every day, and a preset or an expression that the simple controls cannot say is replaced
  by their reading of it once touched.
* A new role is two requests: when the second fails the role has no permissions and the name
  is taken. FormActions.tsx:16-21 says both buttons are disabled while submitting; in
  AddTheaterModal nobody sets the flag. CreateUserModal may be closed under its request,
  whose answer then closes a form opened since.
* In the list of Members, a reinstatement answered after the page was turned reloads the
  earlier page under the new page's numbers (MembersPage.tsx:50-69, 96-108), and its failure
  shows in the detail of another Member. `listMembers` orders by `created_at` alone.
* A profile read before the Appearance was written brings the old one back; a notice of a
  resolution does not refresh the list of the catalog.

## 4. Proofs

`SubmissionPipelineProofs` proves, for any finite sets of Members and Theaters, any
sets of handlers, workers and resolution runs and any value of the bounds (assumption
`ConstantsAssumption` only):

* `Invariant`: `Spec => []IInv`, and from it `TypeCorrect`, `OnePending`, `Throttled`,
  `SuccessMeansActive`, `Selections`, `OneFinalNotice`, `ClaimedOnce`;
* the action properties `ResolvesOnce`, `TerminalStays`, `OnlyVerifiedSubmit`;
* `Refinement`: the pipeline implements `SubmissionLifecycle`;
* `PipelineKeepsLedger`: its tables change as `JobLedger` says.

None of the safety invariants is inductive alone. At most one attempt is pending
because two transactions cannot both hold the Theater's row (`LocksExclusive`) and what
one read under its locks still holds when it writes (`DecisionsHold`): no attempt of a
locked Theater is inserted by anybody else, and a Theater that did not exist has no
attempts, since attempts refer to existing rows (`AttemptsRefer`). A success is right
when written although it was decided earlier, because the only way for an active
Theater to leave that status is its deletion, which takes the attempt with it
(`RunsJustified`). A terminal report never runs again because queued and just claimed
reports are unstamped and running (`JobsRefer`), so the only write of `running` finds
`running`. Notices are unique because the run that wrote the status owes the notice and
no other run can win the same write (`NoticesOwed`).

`ScrapeWorkerProofs` proves `Invariant` (`Spec => []IInv`), `TypeCorrect`, `OneBrowser`,
`LimitIsRespected`, `SummariesAgree` and `ActiveNeverReset` for `ScrapeWorker`, again from
`ConstantsAssumption` alone. That at most one Chromium runs is not inductive: a run about
to launch has read the variable earlier, and one about to clear it has read it before the
close. Without an overlap a run is alone in the process (`Alone`), since the loop starts a
job only when no other job runs and a cron run that meets anything counts as an overlap;
so what it read is still so, and the variable names the only Chromium (`BrowserKnown`).
The summary agrees with the plan because every planned Theater is at any time in exactly
one of four places: to be scraped, being scraped, done, failed (`Accounted`), and a run
that reaches its end neither limited nor fatal has emptied the first two (`WellFormed`).
There each step replaces one run by another good one (`OneRun` and the lemmas on the
moves of a run), and `RunStepInv` and `QuietStepInv` say once what it leaves alone.

`RunsEnd` orders runs by the Theaters before them and then by the stage and the dates of the
one at hand (`Nearer`). A Theater is given up only to the next one or to the end (`NearerLoop`),
a date only adds its outcome (`NearerDates`), and what is left, exceptions and crashes, goes
straight to the last stages (`NearerEnd`). Both numbers are natural and the second is at most a
constant, so no run has infinitely many steps.

`PipelineKeepsLedger` and `WorkerKeepsLedger` map the two views of the worker to one set of
tables. In the first `held` is the set of reports whose worker is not idle, and every step but
a claim, an end or a crash leaves that set alone although it moves a worker (`Held`): a report
has one worker (`HeldAlone`), so that the end of its job takes exactly that one away. A Theater
moves only while `held` is not empty, because whoever moves it is in it. In the second `held`
is the set of busy runs, scheduled ones among them (`LedgerEnters`, `LedgerRuns`); a restart
takes them all (`LedgerSuffers`).

In `SubmissionPipelineProofs` the proof of each conjunct goes action by action; frame lemmas
(`ClientFrame`, ..., `TimeFrame`) say once which tables an actor leaves alone, so that most
actions are one line.

**`SessionsProofs`** (`SessionsKept`, `Successor`, `SpentOnce`, `SuspensionEnds`, `ErasureKnows`,
`DeadlocksArePairs`, `NobodyStuck`, `SessionsKeepLedger`).
`SessionsInv` is restated by request: `Lasting` is what one request relies on between two
of its statements (a rotation about to insert holds a live token; an erasure under its lock
has compared the current password), `Apart` what no two requests hold at once (a token, a
Member's row, a link), and the tables have a part each (`TokenRows`, `LinkTable`). This
form implies the checked one (`Restated`) and is preserved request by request: most statements
change one request and one table, and the frame lemmas (`OnlyRequest`, `Answered`, `NoneMoves`)
leave only that request to look at. `FreeRow`,
`FreeKey` and `FreeLink` turn the guard of a lock into the fact that nobody else stands
where it would be held. Two refreshes of one token cannot both insert, since the first one
to lock the row revokes it and the second reads the row again under the lock.
Of the waits themselves, `WaitsAreShort` says that a chain of them ends after two links or
meets two requests that wait for each other, so that there is no other cycle: a deletion or a
suspension waits only for requests that wait for it (`RowHolderWaits`, which needs `SeenOwn`:
what a revocation saw stays its Member's), and a reset only for rotations that wait for nobody
(`ResetWaits`). Two that wait for each other are what `DeadlockAborts` breaks. So nobody is stuck: whoever
lacks a lock finds it with a request that locks a row or a token, or with a reset that lacks
its own (`NotGranted`); of the former and those it waits for, one has all it needs or is a
victim (`HolderProceeds`).

That a transaction of several statements is one step of `SessionLedger` is what the locks
are for. A reset spends a link that is still outstanding and unspent at its commit (`Lasting`,
`LinkTable`), and its revocation reaches only live tokens of its Member; a suspension's
reaches all of them, because its lock keeps every insertion out from the moment it looked
(`RevokesOwn`). A rotation still holds a live token when it inserts, so that its two writes
are one succession. Each table is a column function of the state (`Rows`); `AccountColumns` and
`SpentColumn` say once how a statement changes it.

**`NotificationProofs`**, for any channels, connections, Schedules, edits, Members and pipes.
That a bus is never deaf (`Listening`) needs to know who waits for the attempt in flight
(`AttemptKnown`, `WaitersKnown`): an attempt that fails leaves either the timer or a waiter
that sets it. That the tasks follow the table (`TasksKept`) is said schedule by schedule
(`TaskOK`): a schedule not named in `missed` either has a notice of its last edit under way or
its task is what the table asks for; and of an edit (`EditOK`) what it has written and not yet
published. That open pipes are served (`PipesServed`) rests on the lists themselves: a pipe
stands once in the list of its Member, no list exceeds the cap, and the member heartbeat is a
function of the lists (`MembersOK`); a removal found by its index leaves the others in place
(`RemovedAt`). The progress heartbeat is only bounded below (`ProgressOK`), since the code lets
an interval run on after the last listener failed.

**`ProgrammeProofs`** (`ProgrammeShown`, `DetailsStay`, `RowsReferToRows`, `LimitedFits`). What a
worker is about to write for the week is already stored as a showtime (`RowsStored`), unless the
Theater was deleted under it, and its movie is known (`WorkRefers`); so no row refers to what
is not there. `LimitedFits` is arithmetic: for every day, number of days and start of summer
time the dates of a limited scrape are today and days of the same cinema week.

**`ServicesProofs`.** A Staff request in flight holds a true statement about the roster unless
it is marked overtaken (`Relies`), so the last admin can only go by a request that is, and a
replacement whose role nobody else changed finds its permissions empty at the INSERT (`Roster`,
`LastAdmin`, `Replaced`). A rate limit holds per counter (`RatesKept`): what a window was let
through is at most what the counter of now has let through plus the largest maximum of the
window for every counter before it (`LimiterOK`); the linear bound needs the product of two variables, which is why
it rests on `ProductGrows`. A connection buffers and locks only inside a transaction
(`PoolOK`). A start (`StartsSafely`) never records a migration before those before it, because
the files a process has not on its list are recorded (`Applies`) and it takes the least of those
that are; one process at most is about to log a password (`OnePrints`). The parser's cache is
the tail of the history of uses (`IsTail`), each text once in it (`CacheKeepsLastUsed`).

A behaviour of `MCServices` is a behaviour of every one of its components (`ServicesBehave`),
because what does not run stutters (`OneServiceMoves`); so the theorems above hold of it, and
`ServicesKeepInv` and `LimitedScrapesKept` follow.

**`FormsProofs`** (`Forms`, `SavesTyped`, `CronKept`, `Filtered`, `SearchKept`), for any fields
and contents (a blank among them), any texts and any cron of the form. What a request carries
and what was touched is kept with it until it is served. `CronKept` rests on the round trip of
the expressions that the simple controls can say. The number of searches under way is bounded
because each was paid by something the user did, the text that has not yet rested included
(`SearchIInv`).

**`PagesProofs`**, for any number of tabs, calls, Theaters, cards, links, requests and Members, and any page size.

* `TabSignedIn`: without an excuse the jar holds a live refresh token, or the answer that brings
  it is on its way, and at most one refresh is under way (`SessionKept`); so no refresh of the
  browser is ever refused.
* `CardsShown`: a request that is half read holds what its first statement would read now, or
  is marked torn (`ReadIsCurrent`), and movies and showtimes read from one state of the
  database belong together (`ReadsMeet`), because every row of the week has a showtime. The
  kept answer has the scope its key promises (`ScopeFits`), the shared key of "Maintenant" and
  today being the exception.
* `ScreenKept`: old data is on the screen, or in an answer to come, only while the answer of a
  write or a notice is on its way that refreshes the watched query (`EntryServed`); and the
  Appearance shown is the stored one while no toggle is in flight (`LookServed`). The proof
  walks through which query keys each answer invalidates.
* `AccountKept`: the sheet waits for at most one request (`OneShown`), and what an undoubted
  verification page waits for is its own link, live until it is answered (`LinkAwaited`).
* `MembersKept`: the flag of a group of actions is up exactly while one action, or the reload
  that it asked for, is under way (`OneRuns`), and a confirmation stays open until then
  (`DialogHeld`). A page has at most `PageSize` rows because ranks are distinct (`PagesAreSmall`).
* `PagesKeepInv`: as for the services, the whole behaves as each of its components.

**Assumptions.** Each proof uses the named assumptions of the module it is about and no other.
Bounds are natural numbers, positive where a zero would leave no page, password or interval; a
Member may have two pipes at least (`PipeCapAssumption`); the maxima of a rate limit are
positive, and there is one; a blank is one of the contents of a field; `Proposed` is a Theater,
and the quota of the free offer is at most the premium one; the sets of Staff, Members,
Theaters, Chromiums and seeds are finite, since they are counted or used up; and the names the
modules use for "nobody" are in no set of the instance.

**Model-checked only.** Liveness (`ClaimedResolves`, `QueuedRuns`): the prover has no rules for
fairness here. What can be said of it as safety is proved: that the locks hold up nobody for
ever (`NobodyStuck`, stated over the lock guards instead of `ENABLED`, which is out of its reach
as well) and that runs come to an end (`RunsEnd`). That `Nearer` is well-founded is arithmetic on
two natural numbers and stays with the reader, since it would take an induction. And the four
violations, which are counterexamples. Every other property of a passing run is stated by a
theorem.

**Proved without a run of their own.** That the worker process keeps `JobLedger`
(`WorkerKeepsLedger`) would double the time of `scrape_worker`, and `resolution` checks the same
contract of the pipeline's view. What the checked properties imply: jobs run once (`ClaimedOnce`,
a conjunct of `IInv`), terminal reports stay terminal (`TerminalStays`, from `JobLedger`), a
suspension ends every session (`SuspensionEnds`, from `SessionLedger`).

## 5. Not modelled, and why

* The taking apart of HTML and JSON pages and the wording, formatting and layout of
  everything: string processing without a protocol. What a parsed page makes the code store
  is in `Programme`.
* SMTP itself; the lists of reports and the system information, reads of one statement; the
  export of a Member's data; the renaming of a role and the reset of a Staff password, writes
  of one row; the permission middleware, which reads the access token only.
* The progress panel and the pages that only render; the address columns of a Theater.
* `scrape_attempts` and resumed runs: `ScrapeOptions.reportId`, which they need, is set by no
  caller, so that a resume always answers that nothing is pending. Remembered choices of a
  Selection and their activation: no code stores one.
* Waits of two transactions for each other in `SubmissionPipeline` (resolution against erasure
  or deletion): Postgres aborts one of the two and the sweep retries; a transaction that
  writes only at its end is one step there. `Sessions` has such waits and their victim.
* What a library keeps: the counters of `express-rate-limit`, the timers of `node-cron`, the
  cache policy of the query client beyond what the pages configure.
* Two administrators' browsers at once: the other one is the changes of the record.

## 6. Plan

Done: the submission pipeline with its abstract lifecycle, the worker process, the contract of
the job queue that both views of the worker keep (`JobLedger`), sessions with what they promise
(`SessionLedger`), staff, bus and schedules, live push, rate limits, start-up, programme, and the
pages of the client; the proofs of §4. Left, in this order:

1. Abstract specifications of the remaining protocols, on the pattern of `SubmissionLifecycle`:
   a table and tasks without notices for `ScheduleSync`, a roster for `StaffRoles` whose
   overtaken checks are steps of their own.
2. `SubmissionPipeline` and `ScrapeWorker` side by side in one module over the tables they
   share, so that the attempt of a Theater meets whole-catalog runs.
3. A Selection with billing enabled, once the code stores remembered choices: offers,
   activation, the add policy against a declarative definition.
