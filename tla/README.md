# Pelicula in TLA+

A verification project for pelicula, the media-stack server and CLI in this
repository: TLA+ modules translated from the Go source, TLC configurations that
check them on small instances, and TLAPS proofs that extend the most important
results to every instance.

Contents: [The system](#the-system) ·
[What models what](#what-models-what) · [Runs](#runs) · [Bounds](#bounds) ·
[Fairness](#fairness) · [Proofs](#proofs) ·
[Disagreements](#disagreements-between-code-and-documentation) ·
[Not modelled](#not-modelled) · [Plan](#plan) · [Running it](#running-it)

## The system

`pelicula-server` is one Go process beside Radarr, Sonarr, Prowlarr (together
"\*arr"), qBittorrent, gluetun and Jellyfin, all in docker compose. Its state is one
SQLite file opened with a single connection (`internal/store/store.go`), so
each statement or transaction is atomic, and everything between two statements
interleaves. HTTP handlers, the import worker, the refresh timer, autowire,
port sync and housekeeping are goroutines.

### Components

| Component | State | Operations | Hard behaviour | What makes it correct |
|---|---|---|---|---|
| **Job queue and import pipeline** `store/jobs.go`, `pipeline/*.go`, `api/hooks.go`, `api/jobs.go` | `jobs` table; kick channel; the worker's locals; debounce timer | webhook → enqueue → kick; retry; claim, validate, finish; on failure blocklist, look up, delete, search; on a pass fulfil requests and schedule a refresh; prune; reset at start | handlers race the worker; shutdown cancels ffprobe; crash at any step; each failure step is best effort; \*arr may import an upgrade meanwhile | rows follow the promised life; nothing stays `running`; no lost wakeup; only bad files lead to deletion; what is deleted is searched again |
| **Validation** `pipeline/validate.go` | none | sample, container, duration and stream checks on ffprobe's output | an interrupted probe looks like a failed one | a shutdown is not a verdict |
| **Requests** `store/requests.go`, `api/requests.go`, `api/arr.go` | `requests` table; titles in \*arr | create (perhaps auto-approved), approve, decline, direct add; the pipeline's fulfilment | handlers read, call \*arr, then write; \*arr fails or its answer is lost; Radarr and Sonarr reuse each other's numbers | approved means added and searched; available means a file of that title passed; one open request per title; one decision |
| **Settings** `store/settings.go`, `api/settings.go` | `settings` table | read with default, write key by key | a failed read answers the default; ffprobe's absence is turned into a stored setting | no blocklisting while validation cannot work |
| **Server process** `cmd/pelicula-server/main.go` | process | start (reset, ffprobe check, worker), daily housekeeping, graceful stop | main does not wait for the worker | restart recovers what a stop cut short |
| **Accounts** `store/auth.go`, `auth/*.go`, `api/users.go` | `roles`, `sessions`, `invites` tables; Jellyfin users | login, logout, guard, register by invite, change role, delete user, purge | read role then store session; invite spent between two external steps; concurrent demotions | a session never outlives or outranks its account; an invite is spent once, for one user; an admin remains |
| **Jellyfin admin token** `clients/jellyfin/admin.go` | cached token, its mutex | get it, logging in when there is none | a login holds the mutex and may fail; logins elsewhere supersede tokens; revocation | the cached token is live; nobody waits for ever |
| **HTTP client** `httpx/client.go` | none | send, with retries by method and class of error | an error after the request was carried out; cancellation | what is not idempotent is not repeated; a call returns |
| **Autowire** `autowire/*.go`, `wire` in `main.go` | configuration of the other services; `wired` | wait, run the wizard, sign in, then list, compare, add or update each wiring | services come up late, each call may fail or lose its answer, users edit, the server restarts | converges, never adds twice, leaves alone what is right and what is the user's |
| **Port sync** `portsync/portsync.go` | none | poll gluetun and qBittorrent, set the latter | either is away; a POST arrives late | the ports agree again |
| **Status, search, downloads** `api/status.go`, `search.go`, `downloads.go` | 5 s snapshot | probe services; search both apps; delete a download through the app's queue | concurrent pollers that go away; a queue that moves between pages, a failed look-up | recent answers, one probe per interval; a deletion goes through the app that tracks the download |
| **CLI** `cmd/pelicula/*.go` | `.env`, seeded config files | up (first run, completion of `.env`, seeding, compose up), reset-config | a command that dies between two file operations and is run again; services that rewrite their files | secrets are never torn or replaced; files are seeded before the containers start |

### Interactions

- Radarr/Sonarr call `POST /api/hooks/import`; the handler (`hooks.go`) reads the
  runtime from \*arr, enqueues, and sends to the worker's channel of capacity one.
- The worker (`worker.go`) is the only goroutine that sets a row `running`. After a
  pass it calls `Store.MarkRequestsAvailable`, which is where pipeline and
  requests meet, and arms the Jellyfin refresh timer.
- After a fail (`failure.go`) it acts on \*arr: history, file, search.
- Request handlers add titles to \*arr (`arr.go`) and store the id they get; the
  worker fulfils by that id.
- Settings are read by the worker and by the request handlers and written by
  `PUT /api/settings` and by the server's start.
- Guard (`auth.go`) reads the session, which carries a copy of the role.
- `pelicula up` writes `.env`; compose passes it to the server as environment, whose
  autowire hands the admin password to Jellyfin's wizard and the webhook secret to the
  \*arr apps. `Startup` follows them along the whole way.
- Registration, user management, the library refresh and autowire share one
  `jellyfin.Admin`; every client shares `httpx`.

## What models what

### `JobLifecycle` (abstract)

What readers of the `jobs` table may rely on: `Submit`, `Start` of the oldest queued
job, `Finish`, `Retry` of a finished job, `Drop`, and `Recover`, which requeues
everything running. State: the status column and the next id.

### `Pipeline`

| In the module | In the code |
|---|---|
| `status`, `jobFile`, `jobRuntime`, `nextId` | the `jobs` rows; a row is named by the file its webhook was about, which fixes its path, title and size; whether `runtime_min` is known |
| `handler[h]` | a goroutine in `handleImportHook` or `handleRetryJob`; `pc` is the statement it executes next |
| `worker` | the worker goroutine; `pc` is the call it makes next, `verdict`/`probed` the result of `Validate`, `target` the file id `failMovie`/`failEpisode` found |
| `kick` | `Worker.kick`, `make(chan struct{}, 1)` |
| `refresh`, `unindexed` | the `time.AfterFunc` timer; passes no refresh request has covered |
| `library`, `imported`, `blocklisted`, `searching` | \*arr: the file of each title, and what the pipeline did there |
| `proc`, `ffprobe`, `restarts` | the process; a stop and a crash both count |
| `faults` | store or \*arr calls of the worker that failed outside a shutdown |
| `overridden` | nothing: whether, since this process started, `auto_blocklist` was edited, could not be read or could not be stored off |

Each statement and each external call is one action: `HookReceive`, `EnqueueSelect`,
`EnqueueInsert`, `KickWorker` for the webhook; `RetryGet`, `RetryRequeue`, `KickWorker`
for the retry; `Claim`/`ClaimNothing`/`WaitEnds`/`WorkerExits` for the loop of `Run`;
`Begin`, `Probe` (or `Panic`), `CheckShutdown`, `FinishJob`, then `MarkAvailable` or
`Gate`, `MarkHistoryFailed`, `LookupFile`, `DeleteFile`, `Search` for `process` and
`handleFailure`. `DoRefresh` is the timer, `Prune` the daily housekeeping, `Stop`, `Exit`, `Crash` and
`Start` the life of the process. The worker's context is cancelled by `Stop`, so from
then on its calls fail (`CallFails`) while it runs on until `Exit`.

`Passes(j, g)` is `Validate` on file `g` for the row of job `j`. What ffprobe reads is the file's (`Readable`,
and `RightLength` when the row has a runtime); the size is the row's, as its webhook told it, unless it told none
(`SizedBy`, `Unsized`), and whether that is too small for a sample depends on whether the row has a runtime
(`FullSize`). `Probe` takes the file that is at the path *when it runs*, which after an upgrade to the same path
need not be the one the row is about. The two
branches `failMovie`/`failEpisode` have the same steps and are one; `NoEpisodeId`
keeps their one difference.

### `RequestLifecycle` (abstract) and `Requests`

`RequestLifecycle` is what a viewer is told: pending, then one decision; declined may be
reconsidered; approved can only become available; only a row that two managers hold at once (`contested`) may be
overruled. `Requests` is the three
handlers and `POST /api/search/add` as goroutines: `CreateFind`, `ReadAutoApprove`,
`ApproveLoad`, `DeclineLoad`, `DirectAdd` start them; `Lookup`, `Search`, `Add` are `addToArr`'s
calls; `CreateInsert`, `ApproveUpdate`, `DeclineUpdate` write the row; `Abandon` is a client that
goes away, a failed statement or a crash. `itemTitle`/`present` are the libraries of
the two apps, whose ids overlap: `ItemOf(t, i)` pairs an id with the title's app, as
`MarkRequestsAvailable` pairs `arr_id` with `media_type`. `Pass` stands for a job of
`Pipeline` that passes, with its fulfilment.

### `InviteLifecycle` (abstract) and `Accounts`

`InviteLifecycle` is what an invite promises to whoever shares it: while open it may be
redeemed by one name, expire or be revoked; it never opens again. `Accounts` is
`auth.go`, `session.go`, `invites.go` and `api/users.go` over the `roles`, `sessions` and
`invites` tables and Jellyfin's accounts.

| In the module | In the code |
|---|---|
| `account`, `nextAccount` | Jellyfin's account of each name, by id; ids are never used again |
| `role`, `session`, `inviteState`, `inviteRole`, `usedBy` | the three tables; a session is a name and its copy of the role |
| `made` | the accounts created on each invite, which only the properties look at |
| `regMu`, `handler[h]` | the mutex of `handleRegister`; the locals of each handler goroutine |
| `faults` | calls that failed, clients that went away, processes that died in the middle of a handler |

`Login` (the password was accepted), then `ReadRole`, `StoreDefault` and `CreateSession` are
`startSession`; `Register`, `LockRegistration`, `CheckInvite`, `CreateUser`, `UseInvite`, `GrantRole`, `SignIn`
and `startSession` again are `handleRegister`, whose deferred unlock is in `Ends`; `ChangeRole`,
`DeleteUser`, `IssueInvite` and `RevokeInvite` pass `Guard`, which reads the session once, and go on
with `FindUser`, `StoreRole`, `DeleteAccount`, `DeleteRole`, `StoreInvite`, `DeleteInvite`. `SessionEnds` is
a logout, an expiry or the purge; `InviteExpires` is time; `AddedInJellyfin` is somebody else.

### `CreateOnce` (abstract) and `RetryClient`

`CreateOnce` is what a caller of `PostJSON`, `RawPost` or `PostForm` may rely on: at most one thing
made, plus one for each 5xx the server itself answered; success is told of something made; a
refusal is final. `RetryClient` is `send` and `once`: `Send` and `DialFails` start an attempt,
`Succeeds`, `Refused`, `ServerError` and `NoAnswer` end it, `Retries(c)` is `isTransientErr`/`isRetriableSendErr`
and `Ends` the loop's decision, `Cancel`/`GiveUp` the context. The server may carry an attempt out
(`CarryOut`) or lose it (`Lose`) at any later time.

### `AdminToken`

`jellyfin.Admin` with its callers, and Jellyfin's sessions: one per user and device, so that a login
on a device logs the former token of that device out, which is why the server has a `DeviceServer`
of its own. `Ask`, `UseCached`, `StartLogin`, `LoginWorks`, `LoginFails` are `Token` under `a.mu`; `Accepted` and
`Rejected` are the call made with it. All callers use `Token`; nothing in the repository calls `WithToken` or
`Invalidate`, so neither is an action. `Revoke` and `DashboardLogin` are others at Jellyfin.

### `PortSync`, `StatusCache`, `Downloads`

- `PortSync`: `syncOnce` as `GetForwardedPort`, `GetListenPort`, `SetListenPort`; any call may fail
  (`CallFails`), and a failed set may reach qBittorrent later (`LateSet`).
- `StatusCache`: `statusSnapshot` with its mutex, TTL and the probe's own timeout; a clock in seconds;
  services that go up and down; pollers whose request is cancelled (`Leave`). The two pings' outcomes
  come one at a time (`PingAnswers`).
- `Downloads`: `handleDeleteDownload` of several handlers: `GetPage` is one page of
  `GetAllQueueRecords`, then `DeleteItem` in the app or, when no app has it, `DeleteTorrent`.
  Records leave and join the queues between pages (`Dequeue`, `Grab`).

`MCServices` extends `RetryClient`, `AdminToken`, `StatusCache` and `Downloads`, instantiates `PortSync`, and checks
all five in one run. They share no state, so a behaviour of the run is a behaviour of one of them (`part`),
with the others at rest.

### `RequestsHistory` and `AccountsHistory`

`Requests` and `Accounts` with a record of who has met whom: the rows that two deciding handlers held at once
(`contested`, until the last of them answers), the names that two handlers ever worked on at once (`crowded`), and
whether somebody who demotes or deletes a user met another who does (`rivals`). The record is history only: no action
reads it, so every behaviour of `Requests` or `Accounts`, with handlers overlapping anywhere, is a behaviour here. In terms of it
the modules say how far the races reach that nothing in the code prevents: `RequestLifecycle`, `SessionsFollowRoles`,
`NoOrphans`, `AdminRemains` and `InvitedRoleKept` hold of every row and name outside the record, whatever goes on
beside it.

### `Setup`, `Autowire` and their composition `Startup`

| In the module | In the code |
|---|---|
| `envFile`, `temp`, `seeds` (`Setup`) | `.env`, `WriteEnv`'s temporary file, the config files; each may be cut short (`torn`) |
| `cliPc`, `cliEnv`, `cliAt`, `doomed` | the command: `cmdUp` from `loadEnvOrFatal` to `compose up`, or `cmdResetConfig` |
| `entries`, `lastId`, `arrKey`, `jellyfin`, `booted` (`Autowire`) | what the services hold: libraries, root folders, download clients, webhooks, applications; the API key; the wizard and the password |
| `token` (`Autowire`) | the token `jellyfin.Admin` caches, and whether Jellyfin still takes it |
| `wirePc`, `at`, `listed`, `key`, `pending`, `failed`, `wired` | the `wire` goroutine in `autowire.Run`, its lists, `firstErr`, and what `/api/health` reports |

In `Setup` one action is one file operation: `OpenTemp`, `WriteTemp`, `Rename` for `.env`, `OpenFile`
and `FillFile` for a seeded file, in the order of `SeedAllConfigs` (`SeedPlan`). `Dies` ends the command
between any two; `Up` runs it again. Users blank a key or delete `.env` (`EditEnv`); running services
rewrite their files (`Rewrite`). In `Autowire` a wiring is a list call, a decision (`Decision`: add,
update or keep) and a write; `CallFails` covers a call that was refused and one that was carried out but
not answered. `Login` is `adminToken`: the cached token whatever it
is worth, a login only when there is none. Jellyfin may forget the token (`TokenRevoked`, `PasswordChanged`, a reset), and then
every call made with it is a 401; other users of `Admin` may be the ones who log in (`OthersLogIn`). The five kinds of wiring share `Reconcile` because the code's comparisons have the same
shape; what differs is what a wiring wants (`Want`) and which kinds only add.

`Startup` is `Host == INSTANCE Setup` and `Server == INSTANCE Autowire` over shared containers: `ComposeUp` gives
the server the `.env` that is there and restarts it if that changed, `ComposeDown` stops it, `RemoveAll`
takes what a service holds away with its directory (an application entry is Prowlarr's, so a reset of Sonarr
leaves it, with a key that is no longer right), `ServerRestarts` is compose's restart policy.

### Proof modules

| Module | About |
|---|---|
| `PipelineProofs` | `Pipeline`: types, ownership of rows, wakeups, the refinement of `JobLifecycle` |
| `PipelineEffectsProofs`, on top of it | what `Pipeline` does to \*arr and to requests |
| `RequestsProofs` | `Requests` and `RequestsHistory` |
| `AccountsProofs` | `Accounts` and `AccountsHistory` |
| `HandlersProofs` | `AdminToken`, `StatusCache` and `Downloads` |
| `RetryClientProofs` | `RetryClient` |
| `StartupProofs` | `Startup`, the host's side: `.env`, its secrets and login, the seeded files |
| `WiringProofs`, on top of it | `Startup`, the server's side: the wirings |

`MCPipeline`, `MCRequests`, `MCAccounts`, `MCStartup` and `MCServices` hold the instances' constants,
symmetries and mixes of bounds.

## Runs

| Run | Shows |
|---|---|
| `PipelineQueue` | Two handlers, two titles, one good and one bad file: `TypeOK`, `NoLostWakeup`, `PassedIsFulfilled`, and that the pipeline implements `JobLifecycle`; with ffprobe there or not, and `auto_blocklist` edited at any time, `NoBlocklistWithoutFfprobe` |
| `PipelineUpgrade` | Three releases of one title at two paths, one without a size in its webhook, imported at any moment of the failure steps, with validation switched on and off: `DeletesOnlyJobPath`, `DeletedIsSearched`, `OutcomeBeforeEffects` |
| `PipelineLiveness` | Two releases at one path, the first too small for the title's runtime, which nobody requests (requests have no say in what gets finished and refreshed), with a failed call and a stop or crash anywhere: `RunningIsOwned`, `FailureMeansBadFile`; under fairness `EveryJobFinishes` and `RefreshHappens` |
| `Requests` | Two overlapping handlers, a movie and a series with the same id, one failed call, removals: `TypeOK`, `ApprovedWasAdded`, `AvailableWasPassed`, and that requests implement `RequestLifecycle` |
| `Accounts` | Two overlapping handlers, two invites, two sessions, one failure: `TypeOK`, `OneUserPerInvite`, `SessionsFollowRoles`, `NoOrphans`, `AdminRemains`, `InvitedRoleKept`, and that the invites table implements `InviteLifecycle` |
| `Startup` | From an empty directory to a wired stack, through commands that die, resets, users' edits, revoked tokens, lost calls and restarts: `.env` whole with its secrets (`EnvWhole`, `SecretsStay`), files seeded before the containers start (`StartsSeeded`), the password in `.env` is Jellyfin's (`StoredLoginWorks`); nothing added twice, nothing reported wired that is not, nothing right or the user's disturbed (`AddedOnce`, `WiredIsWired`, `SettledIsLeftAlone`, `UsersSettingsKept`); wired in the end (`EventuallyWired`) |
| `Services` | `RetryClient`: `CreatedOnce`, `CreatesKeepPromise` (it implements `CreateOnce`). `AdminToken`: `HeldTokensLive`, `EveryCallerServed`. `PortSync`: `PortsAgree`. `StatusCache`: `AnswersAreRecent`, `OneProbePerTTL`. `Downloads`: `DoneIsDone` |
| `PipelineTwinJobs`, `PipelineStaleDelete`, `RequestsTwice`, `AdminRevoked`, `DownloadsLookup` | One counterexample each, [below](#disagreements-between-code-and-documentation) |

Four abstract specifications are implemented by detailed ones through refinement mappings:
`JobLifecycle` by `Pipeline`, `RequestLifecycle` by `RequestsHistory`, `InviteLifecycle` by `Accounts`
and `CreateOnce` by `RetryClient`.

Each property of a passing run has, beside the definition it depends on, a
variant of that definition with a plausible bug (`RequeuedNone`, `AfterEnqueueNoKick`,
`InterruptedIgnored`, ...). `PROJECT.json` pairs them; putting the variant in place makes
TLC report the property violated, which shows that the run reaches the case.

## Bounds

| Bound | Meaning | Why it is enough |
|---|---|---|
| `MaxJobs` = 2 (1 in the runs that need no second) | rows ever inserted | the worker has one job; a second row is what it can be confused with, queued behind or a twin of |
| `Handlers` = 1 or 2 | handlers in flight | the races between statements involve two handlers, or one handler and the worker |
| `Files` 2–3, `Titles` 1–2, paths ≤ 2 | imports | same title same path, same title other path, other title: every case `FileAt`, `Passes` and `Grabs` tell apart |
| `MaxDeliveries` = 1 or 2 | deliveries of one webhook | one repetition is all deduplication is about |
| `MaxFaults` = 0 or 1 | failed calls, which may strike any step | properties that excuse failures need none; the others need one to see a step skipped |
| `MaxRestarts` = 0 or 1 | stops and crashes | a stop, the worker's last steps under a cancelled context, and the recovery of the next start |
| `MaxRequests` = 2, `MaxItems` = 1 or 2, `MaxRemovals` = 0 or 1 | requests, ids per app, removals in \*arr | two requests for one title or with one id; a title that comes back with a new id |
| `Names` = 2, `MaxAccounts` = 3 | usernames (one is the owner's), accounts ever created | two names for one invite; a name that is deleted and created again |
| `Codes` 1–2, `Tokens` 1–2 | invites ever issued, sessions live at once | one invite two registrations want, and another one beside it; two administrators signed in |
| `SeedPlan` of 4 steps over 3 files, `MaxSecrets` = 2 | seed and enforce one file, seed two others, each in another service's directory | a file before and one after the one that is cut short; a second generation of a password is what could replace the first |
| `Plan` of 5 wirings, one of each kind; `MaxEntries` = 3 | wirings | every `Decision`; an entry of the user's beside ours, and one more |
| `Mixes` in `MCStartup` | which mishaps occur together: up to 4 commands, 2 touches or edits, one death, failed call or crash | each is met by at least two others, among them a death or an edit with every other; all at once is beyond TLC |
| `Calls` = one POST and one other, `MaxTokens` = 4, `MaxRevocations`, `MaxCrashes` = 1 | HTTP calls (one per behaviour); Jellyfin tokens | the code's own bound on attempts, `MaxAttempts` = 3, is kept; a revoked token, one on each device, and a next |
| `Ports` = 3, `MaxUpsets` = 4 | values of the forwarded port; changes from outside, failures, restarts | two upsets per poll of each service |
| `MaxTime` = 9, `MaxFlips` = 1, `Pollers` = 2 | seconds; services that change | the first snapshot expires and is replaced within 9 s |
| `PageSize` = 1, `Hashes` = 2, `MaxMoves`, `MaxFailures` = 1 | queue pages | a record on a second page, and a move that shifts it |

`MCRequests` and `MCAccounts` split their behaviours into three mixes (`Bound`), each of which gives something up, because all
at once is beyond TLC. In `turns` everything happens, but one handler at a time (and, for accounts, no failure). In the others two
handlers overlap anywhere: for requests without removals and second ids (`both`), or with movies that are removed and added again
and no failing call (`removed`); for accounts around invites (`invites`: one session, no change of a role, one of the
handlers is a login or a registration), or without the issue and revocation of invites (`admins`). The theorems about these modules know no mixes.

Retries are not bounded: a job may be requeued for ever, which is why
`EveryJobFinishes` has the premise `RetriesEnd` (the oldest job is claimed first) and `RefreshHappens` the premise
`PassesEnd` (each pass pushes the timer back).

## Fairness

`Fairness` in `Pipeline` is weak fairness of
- `WorkerStep` and `HandlerStep(h)`: runnable goroutines are scheduled, and every call has a timeout
  (`httpx` clients, ffprobe's context, SQLite's busy timeout), so that it ends in success or failure;
- `DoRefresh`, provided that passes end (`PassesEnd`): a `time.AfterFunc` fires when it is left alone for its delay, but
  `scheduleRefresh` starts that delay anew with each pass, so passes that never end may hold it off for ever;
- `Exit`: main returns within its shutdown timeout, or docker kills it after `stop_grace_period`;
- `Restart`: compose restarts the container (`restart: unless-stopped`).

In `AdminToken` a login ends (10 s timeout) and
`sync.Mutex` does not starve a waiter, which is strong fairness of taking the lock. In `PortSync` the
ticker fires and what is under way arrives or is lost. In `Autowire` and `Startup` the `wire` loop runs on
(its calls and waits have timeouts), compose boots what is in its file and restarts the server;
nobody has to run a command. `EventuallyWired` assumes that the stack stays up, that the admin
password in `.env` stays the one Jellyfin has, and that the server is not left with a cached token that Jellyfin forgot: with one
it fails every pass until it restarts.

Nothing outside the process is fair: no import, webhook, approval, retry or prune ever
has to happen, and no crash has to occur. Only the actions of the code and the restart are
assumed.

## Proofs

The proofs assume only the named assumptions of the modules they are about: `PipelineAssumption`, `RequestsAssumption`,
`AccountsAssumption`, `AdminTokenAssumption`, `StatusCacheAssumption`, `DownloadsAssumption`, `CallsAssumption` and
`StartupAssumption` (which is `SetupAssumption` and `AutowireAssumption`). TLC evaluates each of them in a run. They say that
bounds are naturals, that `NoFile`, `NoTitle`, `NoName` and the like are not files, titles or names, that the maps
have their domains, that files with one path belong to one title, that there are finitely many torrents and a page holds
at least one record, that the clock may tick, that every config file has a seeding step (as each has in
`SeedAllConfigs`), and that libraries come first among the wirings (as in `autowire.Run`).
The number of handlers, files, titles, jobs, requests, names, invites, sessions, faults and
restarts is arbitrary; so are the numbers of callers, tokens, HTTP calls, services, pollers, torrents and records per
page, the plans of seeds and wirings, and the number of commands, edits and mishaps around them.

No theorem has hypotheses of its own. What the code does not prevent is in the properties, as history: `overridden`, `contested`,
`crowded`, `rivals`.

| Theorem | States | Argument |
|---|---|---|
| `PipelineProofs!TypeCorrect` | `Spec => []TypeOK` | `TypeOK` is inductive because it contains `InHand`: rows exist exactly below `nextId`, and whoever is past its first step holds an existing file or row |
| `PipelineProofs!WorkerOwnsRunning` | `Spec => [](ClaimedIsRunning /\ RunningIsOwned)` | `OwnInv` strengthens the two: the claimed row is running *and* every other running row is accounted for by a failed call. Handlers and prune touch finished rows only; a start requeues |
| `PipelineProofs!WakeupNotLost` | `Spec => []NoLostWakeup` | inductive with `TypeOK`: a row becomes queued only in a step that leaves its handler at `kick`; recovery happens before the worker runs |
| `PipelineProofs!PipelineImplementsLifecycle` | `Spec => JobLifecycle` | uses `ClaimedIsRunning`: `FinishJob` has no status guard, so that a finish is a `Finish` rests on the invariant |
| `PipelineEffectsProofs!FailureNeedsBadFile` | `Spec => []FailureMeansBadFile` | `VerdictsSound`: a fail the worker goes on with is what `Validate` finds of the probed file for the row in hand, and no probe that the shutdown killed, from the probe through the check of the context to the failure steps |
| `PipelineEffectsProofs!EffectsAreRecorded` | `Spec => OutcomeBeforeEffects` | `RecordedFirst`: whoever can still call \*arr in the failure steps has written the outcome, or a call failed |
| `PipelineEffectsProofs!OnlyJobPathDeleted` | `Spec => DeletesOnlyJobPath` | `TargetAtPath`: the file id about to be deleted was found at the job's path, and \*arr never moves a file |
| `PipelineEffectsProofs!PassesFulfil` | `Spec => []PassedIsFulfilled` | `FulfilInv`: without restarts the worker's context is never cancelled (`Uninterrupted`), and a job is about an imported file (`OnlyImported`), so that an approval before the import is one before the job |
| `PipelineEffectsProofs!DeletesSearch` | `Spec => []DeletedIsSearched` | the same `FulfilInv`: from the delete the worker can only go on to the search |
| `PipelineEffectsProofs!NothingBlocklistedWithoutFfprobe` | `Spec => NoBlocklistWithoutFfprobe` | `SwitchedOff`: a process that found no ffprobe has the setting off and is not about to blocklist, until it is overridden |
| `RequestsProofs!TypeCorrect` | `Spec => []TypeOK` | with `InHand`: a deciding handler holds an existing row and that row's title |
| `RequestsProofs!ApprovedAdded` | `Spec => []ApprovedWasAdded` | `AddedInv` = what rows claim (`RowsAdded`) and what handlers carry in memory between the \*arr call and the write (`HandlersCarry`); ids are never given to another title (`ItemsKept`) |
| `RequestsProofs!AvailablePassed` | `Spec => []AvailableWasPassed` | an approved row's id belongs to its own app's item, so that only that item's pass can make it available; `ApproveUpdate` may overwrite an available row but makes it approved |
| `RequestsProofs!RequestsImplementsLifecycle` | `HistorySpec => RequestLifecycle` | `DecidesOnce`: the record holds every conflict (`Recorded`), and a handler whose row is not contested still finds it in the status it loaded (`Undecided`), because all that happens to such a row meanwhile is a pass, which touches approved rows |
| `AccountsProofs!TypeCorrect` | `Spec => []TypeOK` | with `InHand`: whoever is past its first step holds a name or an invite |
| `AccountsProofs!OneUser` | `Spec => []OneUserPerInvite` | `RedeemInv`: from `CheckInvite` to the sign-in a handler holds `regMu` (`LockHeld`); while no call failed, an invite somebody is about to create a user on has none, and an open invite with a user is in the hands of a handler about to spend it (`Unspent`) |
| `AccountsProofs!AccountsImplementsInvites` | `Spec => InviteLifecycle` | `UseInvite`'s own condition makes it a `Redeem`; `IssueFresh`, part of `RedeemInv`, makes `StoreInvite` an `Issue` |
| `AccountsProofs!RolesFollowed`, `NothingLeftBehind` | `HistorySpec => []SessionsFollowRoles`, `HistorySpec => []NoOrphans` | `HistoryInv`: what a handler has read about a name that is not crowded still holds when it acts on it (`Prepared`), and the tables agree on that name (`AgreesOn`); a handler's step changes nothing about other names (`OnlyItsName`) |
| `AccountsProofs!AnAdminRemains`, `InvitedRoleStays` | `HistorySpec => AdminRemains`, `HistorySpec => InvitedRoleKept` | the same `HistoryInv`: beside whoever is about to be demoted or deleted there is another administrator (`Guarded`, `OtherAdmin`), unless names were crowded or demotions met; a used invite has a user (`UsedByKnown`), and a default is stored only where no role was |
| `HandlersProofs!AdminTypeCorrect` | `AdminSpec => []AdminTypeOK` | inductive |
| `HandlersProofs!TokensLive` | `AdminSpec => []HeldTokensLive` | `AdminInv`: who logs in holds the mutex with an empty cache (`Locked`), so a login supersedes no token in use (`Holding`); a login on the dashboard's device touches only that device's tokens; tokens not yet issued are nobody's (`Issued`) |
| `HandlersProofs!StatusIsRecent` | `StatusSpec => AnswersAreRecent` | `StatusInv`: what a ping found was so since the probe began, or took the probe's whole time (`AnswerHolds`), which the snapshot inherits (`ShownHolds`); a probe ends by its deadline (`Prober`) |
| `HandlersProofs!OneProbe` | `StatusSpec => OneProbePerTTL` | the same `StatusInv`: only who holds the lock probes, and finds the last snapshot no older than its probe |
| `HandlersProofs!DoneMeansDone` | `DownloadSpec => DoneIsDone` | `DownloadInv`: while no record leaves a queue and no look-up fails (`Steady`), a record that is still in the queue is on a page ahead or has been read (`NotPassed`, with `Before` the places covered), so both look-ups cannot end without it |
| `RetryClientProofs!TypeCorrect` | `Spec => []TypeOK` | with `AttemptsLeft`: a call in the loop has an attempt left |
| `RetryClientProofs!PostedOnce` | `Spec => []CreatedOnce` | `OnlyLast`: of a POST's attempts only the last can be at the server, or done, unless it was answered with 5xx; a POST in the loop has none |
| `RetryClientProofs!RetriesKeepPromise` | `Spec => CreatesKeepPromise` | `Accounted`: what the server has answered or carried out it no longer works on, and a success or refusal leaves nothing at the server; `OnlyLast` bounds what was made by the 5xx answered (`Kept`) |
| `StartupProofs!StartupImplementsSetup` | `Spec => Host!Spec` | `HostSteps`: every step of the composition is a step of the host or leaves the host's variables alone |
| `StartupProofs!EnvStaysWhole` | `Spec => []EnvWhole` | `EnvInv`: what is renamed onto `.env` is the complete temporary file (`TempReady`); nothing else writes it |
| `StartupProofs!SecretsAreKept` | `Spec => SecretsStay` | `KeepsSecrets`: while a command has an `EnvMap` to write, it holds every secret that is in `.env`, unless the file was edited since |
| `StartupProofs!StoredLogin` | `Spec => []StoredLoginWorks` | `LoginInv`: one password from `.env` through the containers and the server's environment to Jellyfin (`OnePassword`); the server runs only in containers that are up (`ServerFed`); with `EnvInv` no later command replaces it |
| `StartupProofs!FilesAreSeeded` | `Spec => StartsSeeded` | `SeedInv`: at `compose up` the command is behind the whole plan (`Place`); a file is torn only under its own write or after a death (`TornOnlyThere`); what the steps so far have seen to stays so, unless a service rewrote it (`SeenTo`) |
| `WiringProofs!StartupTyped` | `Spec => []TypeOK` | with `RunningFed`: what the server was given is what compose had |
| `WiringProofs!NeverTwice` | `Spec => []AddedOnce` | `EntriesInv`: ids are given once (`UniqueIds`), at most one entry is ours, and a list that is still to be acted on neither misses it nor takes it for another (`OursOnce`) |
| `WiringProofs!KeepsUsersSettings` | `Spec => UsersSettingsKept` | the same `EntriesInv`: the entry that is written is the one the list showed |
| `WiringProofs!WiredMeansWired` | `Spec => []WiredIsWired` | `WiringInv`: an undisturbed pass knows the key and what is where it writes (`Undisturbed`), and leaves satisfied wirings behind it or notes a failure (`Progress`) |
| `WiringProofs!SettledStaysAsItIs` | `Spec => SettledIsLeftAlone` | `Settled`: a pass that began with nothing to do still has nothing to do, so every `Decision` is to keep |

`OwnInv` is needed because neither of its parts is inductive alone: that no other row
is running is what keeps a claim from leaving two, and that the claimed row is running
is what a finish needs. `AddedInv` is needed because the fact about the row is
established by a call made several steps before the row is written. `RedeemInv` is needed because
the mutex alone says nothing of an invite whose registration ended between creating the user
and spending the invite: that no such invite exists is the part about `faults = 0`. `OursOnce` must speak of lists
besides entries because a list is acted on after others may have changed the service, and a plain "at most one of
ours" says nothing of an add that rests on an old list. `NotPassed` is inductive only with `Before`: that a record is not yet read
has to survive records that join the queue in front of it. Each of these invariants was checked by TLC before it was proved.

Only model-checked: the liveness properties `EveryJobFinishes`, `RefreshHappens`, `EventuallyWired`,
`EveryCallerServed` and `PortsAgree`, which with fairness and `ENABLED` are beyond the prover, and with `PortsAgree` all that is said of
`PortSync`. Every other property of a passing run is stated by one of the theorems.

## Disagreements between code and documentation

Each has a run whose trace shows it, and an entry under `findings` in `PROJECT.json`.

1. `PipelineTwinJobs`: `EnqueueJob` promises one active job per path but selects and
   inserts in two statements (and `RequeueJob` does not look): two deliveries leave two jobs.
2. `PipelineStaleDelete`: the failure steps delete the file that is at the job's path
   *now*. A good upgrade imported onto that path while the job was in hand is
   deduplicated, never validated, and deleted. Nor does it help to be probed: the worker may probe the upgrade
   with the row of the file before it, whose size or missing runtime can fail it.
3. `RequestsTwice`: two concurrent approvals both go through; the second may even turn
   an available request back to approved.
4. `AdminRevoked`: the cached admin token is "refreshed by the implementation" (`auth.go:94`), but no
   caller uses `WithToken` or `Invalidate`: after a revocation in Jellyfin the server presents the dead token until
   it restarts.
5. `DownloadsLookup`: when a look-up in an app's queue fails, the torrent that the app tracks is deleted straight
   from qBittorrent, although `downloads.go:68` says that the removal goes through the app.

Met while modelling, without a run of their own:

- Two overlapping requests for one title are both stored: `handleCreateRequest` looks for an open one and inserts in
  two statements, as `EnqueueJob` does.
- `main.go` "refuses to blocklist" without ffprobe by storing `auto_blocklist=false` once,
  "until it is installed"; an admin can store `true` again while it is missing, and a start that
  finds ffprobe leaves it `false`. What does hold is that each start without ffprobe switches it off anew, whatever was stored
  before (`NoBlocklistWithoutFfprobe`).
- A restart between `FinishJob` and `MarkRequestsAvailable` leaves an approved request approved for
  good, although ARCHITECTURE.md says that it becomes `available`.
- `UseInvite` failing after the user was created "cannot happen while regMu is held, short of the
  invite being deleted" (`invites.go:196`): the invite may also expire in between. The account then
  stays, without a role.
- `regMu` is there so that the sequence "cannot create two Jellyfin users for one invite"
  (`auth.go:125`): a registration that ends between the two calls leaves the invite open with a user,
  and the next registration creates a second. `OneUserPerInvite` therefore excuses failures.
- `SetRole` "updates any live sessions to match" and `DeleteRole` drops every live session, but a login
  in flight stores a session with the role it read before: `SessionsFollowRoles` and `NoOrphans` are false of names that
  two handlers work on at once (`crowded`). Two administrators who demote each other at the same time leave none
  (`rivals`).
- While a job waits, its file may be replaced at the same path; the job's row then judges the successor by the size of the
  file before it, so that a bad one may pass and a good one fail.
- A cached admin token that dies after a failed pass keeps the stack unwired until the server restarts, however right the
  password is: `adminToken` gets the same token again. It is the cause of `AdminRevoked`, met at start-up.
- A record that leaves the queue between two pages shifts the rest, so that `GetAllQueueRecords` can miss a record that was
  there all the time; `DoneIsDone` leaves that case out.
- A seed file whose writing was cut short exists, so `seedConfig` never writes it again; `reset-config` does help.

## Not modelled

- The arithmetic of `Validate`'s comparisons, sequential and on one answer of ffprobe: constants say which
  files are readable, of the right length and large enough. `Passes` says which of them counts for which row.
- The text of requests and answers, authentication of the webhook, logging, backoff durations: no
  property is about them.
- Migrations of the database: they run before anything else, once.
- Whether Jellyfin's library really contains a refreshed title: the refresh request is
  the last thing the code does. `unindexed` is about requests made.
- Two `pelicula` commands at the same time, on one checkout: nothing in the CLI locks, and nothing
  documents that it may be done.
- A POST of a dead server process, or one that times out, that reaches its service only after the *next* pass has listed:
  `CallFails` carries a call out at once or never. `RetryClient` and `PortSync` do model late requests.
- `.env.bak`, which no program reads; directories that hold no seeded file, when reset; the wizard's
  questions.
- The dashboard, nginx and compose files, except `restart: unless-stopped` and the variables compose
  insists on.
- Search, history, wanted lists, status counts and the pause/resume of a download: they only read, or are one
  call.

## Plan

Done: the modules above, and proofs of every safety property, action property and refinement the passing runs check.

Left, most important first:

1. `Fulfilment`: `Pipeline`'s finish and `Requests`' approval composed, to see which
   interleavings of an approval with a pass leave a request waiting.
2. `Validate`: the checks of `validate.go` as operators, compared with reference definitions over
   bounded inputs.

## Running it

    tlc -workers 2 -config PipelineQueue.cfg MCPipeline
    tlc -workers 2 -config Requests.cfg MCRequests
    tlc -workers 2 -config Accounts.cfg MCAccounts
    tlc -workers 2 -config Startup.cfg MCStartup
    tlc -workers 2 -config Services.cfg MCServices
    tlc -workers 2 -config AdminRevoked.cfg AdminToken
    tlapm PipelineProofs.tla
    tlapm WiringProofs.tla

and likewise for the other configurations (`PROJECT.json` names the module of each) and proof modules.
`PipelineUpgrade` is the largest run, about 6.1 million distinct states.
