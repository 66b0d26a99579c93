# A TLA+ model of statuskeet

statuskeet is a status-page service: clients report the health of their
services, a worker probes the services that have a URL, and out of both come a
status per service, incidents, and a public page. This directory holds TLA+
modules of its core and of its web application, the TLC configurations that check them, and TLAPS proofs of
what matters most. `PROJECT.json` lists components, runs, mutants, findings,
hazards and theorems, and maps every definition to the lines it models.

## 1. The system

| Component | Code | State | Operations | Interacts with |
|---|---|---|---|---|
| Status evaluator | `internal/service/status_evaluator.go` | none; reads `services`, `check_results` | `determineStatus` (pure), `Evaluate`, `EvaluateMultiple` | called by ingestion and worker; returns transitions |
| Incident manager | `internal/service/incident_manager.go` | `incidents`, `incident_services`, `incident_updates` | `ProcessTransitions`, `handleFailure`, `handleRecovery` | called with the transitions |
| Heartbeat ingestion | `internal/api/heartbeat_handler.go` | `check_results` | `Ingest` | SDK on one side, evaluator and manager on the other |
| Monitor worker | `internal/monitor/worker.go` | a ticker; `check_results` | `Start`, `run`, `check` | same pipeline, one goroutine per due service |
| Repositories | `internal/repository/*.go` | the database | one SQL statement per method | everything |
| Node SDK | `sdks/node/src/index.ts` | `timer`, `registered`, `checks`, `manualStatuses` | `start`, `stop`, `beat`, `report`, `check` | `POST /v1/services/register`, `POST /v1/heartbeat` |
| Entry points | `cmd/server/main.go`, `api/index.go`, `api/cron/check.go` | a pool, a worker | serve, shut down, one cron round | several may share one database |
| Service registry | `internal/api/service_handler.go` | `services` | `Register`, `List`, `Detail` | SDK, dashboard |
| Public page | `internal/api/public_handler.go`, `web/app/s/[slug]/page.tsx` | reads only | `Status`, `Incidents`, `overallStatus` | visitors, the dashboard |
| Authentication | `internal/service/auth_service.go`, `supabase_auth_client.go` | `users`, `organizations`, `members`, Supabase | signup, login, migration | an external auth service |
| API keys | `internal/service/apikey_service.go`, `repository/apikey_repo.go` | `api_keys` | create, list, validate, revoke | middleware, the API keys page |
| Onboarding | `internal/api/onboarding_handler.go` | `onboarding_profiles` | upsert, status | the onboarding form |
| Web: session and shell | `web/components/dashboard/shell.tsx`, `web/lib/api.ts` | `localStorage` (token, user, org, onboarded); menus | read the session, navigate, sign out | every page, other tabs |
| Web: forms | `web/app/login`, `signup`, `onboarding` | a form, its disabled button | submit, await one or two requests, store, redirect | authentication, registry, onboarding |
| Web: dashboard pages | `web/app/dashboard/**` | what was loaded | load once; create and revoke keys | public page, registry, API keys |
| Web: public site | `web/app/page.tsx`, `docs`, `pricing` | none | | |
| Middleware, config, pool | the rest | none | | |

How a result becomes an incident:

    SDK heartbeat  --> Ingest ---+                               +-> services.current_status
                                 +--> store --> Evaluate --------+
    ticker / cron --> check -----+    (window of 5)  |           +-> incidents, links, timeline
                                                     +-- transitions --> ProcessTransitions

**What is hard.** The pipeline has no transaction and no lock. A heartbeat, a
probe of the same service and the same code on another instance interleave
between any two statements; a request is cancelled when its client leaves; the
worker is cut off at shutdown; a statement may fail, or take effect and be
reported as failed. A transition (old status, new status) lives only in the
memory of the handler that saw it, after the new status has been committed. The
client chooses `checked_at`. The SDK is single-threaded but suspends in every
request and every check function. So is the web application: a form's handler
goes on after its page has been left, requests of one page overlap and are
answered in any order, several tabs share one session, and the status endpoint
reads services and incidents by two statements while the pipeline goes on.

**What makes each part correct.**
Evaluator: a worse window never gets a better status, one result does not swing
a full window, the stored status is the one the window calls for. Incident
manager: at most one open incident per service, never less severe than before,
opened for every outage, resolved by every recovery, with a timeline that tells
that story. SDK: heartbeats only after registration, none after `stop()`, a
manual report used once. Worker: every due service is probed in time. Signup:
no account without its counterpart at the auth service. Registry: all or nothing.
Status pages: rows, cards and banner agree, and no all-clear over a known outage.
Session: what is on the screen belongs to one account. Onboarding: recorded only
with a service to monitor. API keys: a key on the screen is not replaced by an older one, the list is the table.

## 2. Modules

| Module | Models | Built on |
|---|---|---|
| `StatusLogic` | the pure rules: `determineStatus`, `severityFromStatus`, `severityRank`, the escalation test, the window a `LIMIT` query returns | |
| `StatusWindow` | one service's window of results as a state machine: every window is a state | `StatusLogic` |
| `StatusPipeline` | handlers running `Ingest` or `check`, one action per SQL statement, with faults and crashes | `StatusLogic` |
| `IncidentPromise` | the abstract specification: status, open severity, and what is still owed to the incident | `StatusLogic` |
| `StatusPipelinePromise` | the refinement mapping from `StatusPipeline` to `IncidentPromise` | both |
| `StatusWindowProofs` | theorems about `determineStatus`, for every window size | `StatusWindow`, TLAPS |
| `StatusPipelineProofs` | theorems about `StatusPipeline`, for all constants, and the refinement proved | `StatusPipelinePromise`, `IncidentPromiseProofs` (instance), TLAPS |
| `IncidentPromiseProofs` | what the promise implies | `IncidentPromise`, TLAPS |
| `MonitorWorkerProofs` | theorems about `MonitorWorker`, for all constants | `MonitorWorker`, TLAPS |
| `StatusKeet` | one SDK object: calls of `start`, the interval, heartbeats in flight | |
| `StatusKeetProofs` | theorems about `StatusKeet`, for all constants | `StatusKeet`, TLAPS |
| `MonitorWorker` | when services are probed: ticker, rounds, time-outs, cancellation, the cron round | |
| `Accounts` | signup and login over the auth provider and the local tables | |
| `AccountsProofs` | theorems about `Accounts`, for any requests, e-mails and faults | `Accounts`, TLAPS |
| `StatusPage` | the status endpoint's two reads over the pipeline, and what the public page, the overview and the incidents page show of the answer | `StatusLogic`, `IncidentPromise` (instance) |
| `WebSession` | one browser tab: session, forms and their handlers, shell, the load of each page; other tabs | |
| `ApiKeysPage` | the API keys page, its overlapping handlers, the endpoints and the table | |
| `StatusPageProofs` | theorems about `StatusPage`, for any number of services | `StatusPage`, `IncidentPromiseProofs` (instance), TLAPS |
| `WebProofs` | theorems about the session, for any accounts, handlers and tabs, and about the API keys page, for any keys and handlers | `WebSession`, `ApiKeysPage`, TLAPS |
| `*MC` | instances for TLC | |

### StatusPipeline and the code

A *handler* is one execution of `Ingest` after validation, or of `check` after
the probe. Its `pc` names the statement it will execute next; each action
executes that statement and everything the code does up to the next one.

| Variable | In the code |
|---|---|
| `status` | `services.current_status` |
| `results` | what `GetRecent` would return: the newest `WindowSize` rows of `check_results` |
| `incidents` | `incidents` joined with `incident_services` and `incident_updates`, indexed by the order of `started_at` |
| `batch`, `cursor` | `results` in `Ingest`, and the loop index of `CreateBatch`, then of `EvaluateMultiple` |
| `seen`, `verdict` | `svc.CurrentStatus` and `newStatus` in `Evaluate` |
| `transitions` | the slice handed to `ProcessTransitions`, what is done removed |
| `target` | `existing` or `incident` in the incident manager |
| `clock`, `requests` | bookkeeping: the stamps handed out, the handlers started |
| `calm`, `opener` | history: was the handler alone and without error; who created the row |

Rows of `check_results` are never deleted or changed, so a row that has left the
newest five never returns: keeping only the window loses nothing. The place `k`
of a new row is the effect of `checked_at`; `Skew` bounds how late it may be.
`started_at` is read by the application before the INSERT, hence `clock` moves in
`handleFailure` and the row appears in `Create`. Titles, messages, regions,
response times and metadata are left out: no decision depends on them. The
organisation of an incident is left out because all services of a handler belong
to one.

`Faults` names what may go wrong: `"refused"` (no effect, error), `"unacked"`
(effect, error) and `"crash"` (the handler vanishes: process exit, function
frozen, request context cancelled). Reads can only be refused.

### IncidentPromise

Per service: `status`, `incident` (the severity of the open incident, or none) and
`due` (the last change is not yet in the incident). `Observe` changes the status of
a service that owes nothing, `Settle` opens, escalates or closes its incident in
one step. The mapping reads `due` off the handlers' unprocessed transitions: a
transition is settled by the write that opens-and-links, escalates or resolves,
and what follows it (the timeline entry) is invisible.

### StatusKeet

An action is what JavaScript runs between two awaits. `beats` are the heartbeats
in flight, each waiting for a check function or for the server, carrying the
reports it took; `call` is where each call of `start()` is suspended. `manual` is
`manualStatuses`: `report()` takes any of `Names`, those of `options.services` (`Services`) and
others (`Unlisted`), while a heartbeat visits `Services` only. A request may
be received although the SDK sees an error. `confirmed`, `delivered`, `stopped` and
`overlapped` are history.

### MonitorWorker

Where `StatusPipeline` orders statements, this module measures time. A prober is the
worker of a server process or a cron instance; `pc` says whether it is asking for
due services (`query`), waiting for its goroutines (`round`), or back in its caller
(`done`, `idle`, `stopped`); `probe[p][s]` is the goroutine of `check`, up to and
including its INSERT. `left` is the context: a cron round's budget running out and a
server's signal both make it 0, after which probes fail and no statement works.

Time is kept as ages (`age`: of the latest external result, `silent`: of a running
probe) and as time left, which stop counting where the code no longer tells values
apart: a result older than `check_interval` is as good as none. So behaviours are
infinite and nothing is cut off at a horizon. Statements take no time compared to
the unit; two probers can still both read a service as due before either stores.
`waiting` (time since the last result, or since a server missed one because a
statement failed or it was not running) and `ownAge` are history.

### Accounts

A request is a signup or a login; `pc` names the SQL statement or HTTP call it makes
next. Per e-mail, `users` is no row, a row with a local password, or a row linked to a
provider account, and `accounts` is what the provider has. `tx` collects what an open
transaction has done; it holds the row's and the slug's lock until it ends, and
`UserLocked`, `SlugLocked` make others wait as the unique indexes do. A duplicate key
aborts the transaction of a signup, so the lookup after it fails. Passwords are
right, and e-mails are what the provider returns: a wrong password changes nothing.
`hurried` and `troubled` are history: they record what `AllOrNothing` does not promise.

### StatusPage

The pipeline is an instance of `IncidentPromise`, which `StatusPipeline` is shown to
implement, so the reader is checked against every pipeline that keeps the promise and
not against one schedule of statements; when the pipeline breaks it (section 4), so
may the page. `answer` is the request: asked for, services read, incidents read, on
the page. `whole` says whether the read of the incidents worked; if not, the code
answers with none. Two variables are history: `changed`, the services whose row changed since
the request, and `moved`, those of `changed` and the services whose incident was owed or written
meanwhile. Of what moved a page made of two reads can say anything: the properties are about
services that stood still while the others went on. `registered` grows by registrations, which start a service as
`unknown`.

### WebSession

An action is what the browser runs between two awaits, together with the effects of
the pages it mounts (they read `localStorage` in the same turn of the router).

| Variable | In the code |
|---|---|
| `storage` | the four items of `localStorage`; `org` holds the text `"null"` for an account without an organisation |
| `route`, `view` | the page and its state hooks: `busy` is the disabled button, `asked` the request of its effect, `shown` its data |
| `shell` | `user`, `org` and the open menus of `DashboardShell`, which stays mounted between dashboard pages |
| `handlers` | `handleSubmit` and `handleStartMonitoring` in flight; `mounted` says whether their page is still there |
| `users`, `monitors`, `profiles` | the backend: accounts, those with a service, those recorded as onboarded |
| `behind` | history: the session was changed by another tab, or by a form that had been left, since the shell was mounted |

An account stands for its organisation. A request may fail before or after its effect.
A token never expires within a behaviour; names, e-mails and messages are left out.

### ApiKeysPage

Handlers of the page (`calls`) await the change and then the list; `Serve` is what the
server does and `Settle` what the page makes of the answer, so answers wait and
overtake each other. Keys are numbered in the order they are created, which is what
`NewerKeyIsNotReplaced` compares. `disturbed` (another handler, another member or a failure while
the last handler ran) is history.

## 3. Runs

| Run | Shows | Bounds |
|---|---|---|
| `window` | `determineStatus` is monotone in a single source; timestamps do not matter while the window has room; one result never swings a full window between operational and major outage | window 5, all six kinds of result: every window the program can see |
| `serial` | one handler at a time, no faults: page, incident and timeline agree; outages and recoveries reach the incidents; the pipeline implements `IncidentPromise` | 2 services, batches of up to 2, window 2, 4 handlers, late timestamps |
| `races` | two handlers, all faults: duplicates, and timeline entries after a resolution, are bounded by concurrency; an undisturbed handler heals the status and logs its transition | 1 service, window 2, 4 handlers |
| `duplicate`, `left_open` (violated) | what the comments and the site promise and two concurrent handlers break | the smallest instance that shows it |
| `sdk` | a report is used once, one for a listed service is never left behind; heartbeats follow a registration; an application that awaits `start()` can stop it | 2 services, 2 calls of `start`, 2 heartbeats in flight, 2 reports, 2 stops, 1 unlisted name |
| `sdk_stop` (violated) | `stop()` during a suspended `start()` stops nothing | same, 3 calls |
| `worker` | probes are neither late nor too frequent, a cut-off probe leaves no result, every round ends even if nothing answers | 1 server, 1 cron instance, 3 services: intervals 2 and 3, time-outs 1, 3 (the default) and a malformed URL, ticker 2, budget 2; time is unbounded |
| `accounts` | signup leaves an e-mail usable or free, success means a usable account, legacy users are never locked out, every request is answered | 3 requests, 3 e-mails (one legacy), 2 slugs, all faults |
| `web` | header, menus and data are of one account; an onboarded account has a service; no form stays disabled; nothing asks for the organisation "null" | 3 accounts (one without organisation), 2 form handlers in flight; reloads and other tabs unbounded |
| `api_keys` | no answer replaces a newer key by an older one, the list is the table once a handler ran alone, the button comes back | 2 keys, 2 handlers in flight |
| `status_page` | rows and cards of a calm service agree, banner and cards agree, no all-clear over a service that is down and was when asked | 2 services, any number of requests |

*Why the bounds are enough.* In the pipeline runs a window of two already has
every verdict: `operational`, `degraded` (a degraded report, or one failure of two),
`major_outage`, and, with a probe, `partial_outage`; `StatusWindow` covers the real size
five for the pure rules. Every disagreement found needs two handlers and at most
four; `races` interleaves any two statements of two handlers with two more before
or after them. `serial` needs two services so that a batch holds two transitions.
`MaxIncidents` is never the limit: each handler draws at most one stamp per
service of its batch. `worker` has a time-out longer than the ticker and one
shorter, a budget shorter than the slow time-out, so that cron is cut off, and a
round that outlasts a tick; `waiting` reaches the last value that `ProbedInTime`
allows. `ProbedInTime` leaves out an interval of 0, which a registration may ask for: such a
service is due again the moment its result is stored, and `waiting` can reach the bound itself. In `accounts` three requests let two signups race
for a slug, or a signup and a login for an e-mail, with a third before, between or
after them. `web` needs two accounts that differ and one without an organisation, and two
handlers so that a form left behind is answered while another is in flight; `api_keys` two
keys and two handlers, so that answers overtake each other; `status_page` two services, so
that one is calm while the other moves and the banner has to choose.

*Fairness.* `StatusPipeline!FairSpec` assumes that a started handler takes its next
step: the database answers every statement, if only with an error, and the Go
scheduler runs every goroutine. It does not assume that requests arrive.
`StatusKeet!FairSpec` assumes that intervals fire, check functions settle (the
application's obligation) and requests end (the runtime's own time limits); it
assumes nothing of the application's calls. `Accounts!FairSpec` assumes that database
and provider answer (the HTTP client gives up after 15 s). `WebSession!FairSpec` and `ApiKeysPage!KeysFairSpec` assume
that the browser settles every request, if only with an error, and resumes its handler;
nothing of the user. `MonitorWorker!FairSpec`
assumes that goroutines run, statements are answered and time goes on; it does not
assume that a probed service ever answers. The action properties and invariants
need no fairness.

`CHECK_DEADLOCK FALSE` is set where the bounds on requests and calls let a behaviour
end. `StatusWindow` never stops and is checked for deadlock.

## 4. What the runs found

1. **Duplicate incidents** (`duplicate`): two handlers read "no active incident" and
   each create one. There is no unique index and no transaction.
2. **Incidents left open** (`left_open`): a recovery that looks before the slower
   failure handler has linked its incident resolves nothing, and since the status
   is already operational no later result produces a transition. The same happens
   to the older of two duplicates: a recovery resolves only the newest.
3. **`stop()` during `start()`** (`sdk_stop`): the interval is set afterwards. The same
   overlap with a second `start()` leaks an interval that nothing can clear.

Limits that the passing runs state in their properties, with no run of their own:

- `UpdateStatus` commits before the incident is written, so an error or a crash in between
  loses the transition for good (`serial` assumes no faults, `CalmTransitionIsLogged` a
  calm handler); and of two escalations that compare with the same read the lower can be
  written last.
- `report()` stores a status under any name, `collectStatuses` looks up the names of
  `options.services` only: a report under another name stays in `manualStatuses` for ever,
  although the docs page says "The next heartbeat will include this status". `ReportIsTaken` is
  therefore about listed services; the model accepts the others (`Unlisted`) and keeps them.
- The majority rule makes the first failure of a new service a major outage, although the
  comment on `determineStatus` says "1-2 failures → degraded" of any window;
  `NoSwingOnOneResult` is about full ones.
- Between the INSERT of an incident and that of its link anything may stop the handler: the
  incident stays open without a service, and no query by service finds it (`Active` does not).
- An incident read by two handlers can be resolved twice, or escalated after it was resolved;
  `LateEntriesNeedConcurrency` bounds how often.
- Of a service that changed between its two reads the status endpoint can show an outage without
  its incident, or the reverse (`moved`).
- When handlers of the API keys page overlap, the answer that comes last decides the list, not
  the change that was made last (`disturbed`).
- Without an answer the overview shows "All Systems Operational" (`StatusPill`). The public
  page shows an error instead, and `NoFalseAllClear` is about that page.
- A dashboard page can mix two accounts when another tab signs in, or when a login is
  answered after its form was left for the dashboard: that is what `behind` excludes from
  `OneOrgOnScreen`.
- `LoadSettles` can leave "Loading..." on a page for good: no page catches a rejected
  request, and `getPublicStatus` returns the promise of the body without awaiting it.
- A key whose creation is answered to a page that has been left, or whose answer is lost, is
  never seen; and a
  registration that succeeds with a lost answer leaves an account with a service but not
  recorded as onboarded (`OnboardedHasMonitor` is one direction only).

A handler can also write the verdict of a window that is no longer the newest; the
`races` run shows that this heals: the next undisturbed check sets it right.

`accounts` needs its two history variables. An e-mail can end up locked out (its row
is linked to a deleted account, so signup says "taken" and login "invalid"), or with
a user but no organisation: after a commit whose acknowledgement was lost, after a
crash or a failed clean-up, and without any fault when a login for the e-mail runs
during a signup that then fails. No text in the repository promises otherwise, so
these are limits of `AllOrNothing` and not findings.

## 5. What is proved

Every invariant and every action property that a passing run checks is stated by a
theorem for all values of the constants; the run shows it on one instance.

### The status of a window

`StatusWindowProofs`, for every window size. A new result is inserted anywhere and the
oldest dropped, so much comes down to counting: an insertion adds the new result to `FailCount` (`InsertFailCount`), dropping the oldest takes off at most one
(`DropOldestFailCount`), and `GetRecentFailCount` says what both do together.

- `StatusIsMonotone`: `MonotoneInOneSource`. A worse result keeps or raises the number of
  failures and cannot remove a failing source (`WorseResultWorseStatus`).
- `ClockDecidesNothing`: `ClockOnlyMattersWhenFull`. Below the limit nothing is dropped, so
  all places give windows with the same results (`SameResults`) and hence one status
  (`StatusOfSameResults`).
- `NoSwing`: `NoSwingOnOneResult` for `WindowSize >= 2`; the code asks for 5. With a window
  of one the newest result alone decides, so the hypothesis is needed.

### The pipeline

`StatusPipelineProofs`, for every set of services and handlers, every window size
and bound, and every combination of faults. The only assumption is
`PipelineAssumption`.

- `TypeCorrect`: `Spec => []TypeOK`. `TypeOK` alone is not inductive: `Head` of an empty
  `transitions`, `batch[cursor]` past the end or `incidents[0]` would break it. The
  strengthening `TypeInv` adds `Placed`, which ties every `pc` to what it relies
  on (with `LocalsOK` and `SharedOK` for the values themselves): in the evaluation
  loop the cursor is inside the batch, in the incident manager there is a
  transition to process, and between the read and the last write there is a target.
- `LateEntriesAreBounded`: `LateEntriesNeedConcurrency`, for finitely many handlers. What a
  handler read may be resolved when it writes. The inductive invariant joins `LateInv` to
  `TypeInv`: `HoldersInv` (a handler that creates, escalates or resolves holds a row that exists
  or is its own), `EntriesInv` (a "resolved" entry is found on resolved incidents only) and
  `SpentInv` (late entries and handlers that still hold the incident together never exceed the
  handlers). The last is why the bound holds: a resolved incident is taken up by nobody, so each
  late entry costs a holder that there was already.
- `DuplicatesNeedConcurrency`: `OneOpenPerOpener`. Two incidents of one service with
  the same opener would both have been open when that slot read "none". The
  inductive invariant `OpenInv` adds to `TypeInv` two facts: `OpeningInv` (a slot
  between its read and its link has a stamp that no other such slot has, no active
  incident of the service has it as opener, and the row it is to link has no
  service yet) and `LinkedInv` (the opener of a linked row is a handler).
- `ConcurrencyBoundsIncidents`: a service has no more open incidents than there are
  handler slots, by an injection from incidents to openers.
- `OneHandlerOneIncident`: hence, with one slot, `AtMostOneActive`, whatever fails.

About a *calm* handler (alone, no error), whatever races and failures came before it,
the inductive invariant `CalmInv` says that it is `Undisturbed`: the services behind its
cursor have the status their window calls for (`EvaluatedSoFar`), its transitions are one per
service and lead to the status the service has (`TransitionsAreTrue`), and what it read of
the incident it works on still holds (`TargetIsTrue`).

- `StatusHeals`: `CalmHandlerHealsStatus`.
- `TransitionsAreLogged`: `CalmTransitionIsLogged`.

About handlers that run one at a time without faults (`Handler = {h}`, `Faults = {}`: the
setting of run `serial`; no other theorem excludes faults), with `OneAtATimeInv`. It
joins `OpenInv`, `CalmInv`, `RowsInv` (a row is written only after its stamp was drawn; an
incident has one service) and `SerialInv`: every handler is calm, window and status
agree for every service not being evaluated (`TrueElsewhere`), and every timeline is complete
or its next entry is on its way (`TimelinesInv`).

- `PipelineKeepsPromise`: `Spec => Promise!Spec`, the safety half of `KeepsPromise`. One lemma
  per action: `UpdateStatus` observes; the drop of a transition, the escalation, the link and
  the resolution settle; every other statement is invisible.
- `PageIsRight`: `PageTellsTheTruth`, from the refinement and `SettledConsistency` of the
  promise: what a settled service has in the abstract, the page shows in the rows.
- `TimelinesAreComplete`: `TimelineIsComplete`.

### The promise

`IncidentPromiseProofs`: the promise implies that a settled service has an open
incident at least as severe as its status exactly when it is not operational
(`SettledConsistency`, by adding that a service of unknown status is blank), and that
an open incident only becomes more severe (`SeverityRises`).

### The worker

`MonitorWorkerProofs`, for every set of services, servers and cron instances and every
interval, time-out, period and budget. The invariant `ScheduleInv` says that goroutines
run only in rounds, that what is probed has no result younger than its interval
(`DueWhenProbed`, which needs that a prober's own last result is never younger than
the latest of all), and that a probe is given up only at its time-out or with a
cancelled context.

- `ProbesAreSpaced`: `SpacedOut`, so a service sees at most one probe per prober and interval.
- `CutOffsAreSilent`: `NoFalseAlarm`, because a cancelled context refuses the INSERT too.
- `WorkerKeepsUp`: `ProbedInTime`. `KeepsUp` says for a running server and a service that
  what the server still needs until it looks at the service fits into what the service
  can wait, by where the server is in its round: a waiting probe ends within its own
  time-out, and with it the round; a done round is followed by the next tick.
  `WorkerAssumption` requires finitely many services, since `Hold` is the longest of
  their time-outs. That an interval of 0 must be left out
  came out of this proof; TLC confirmed that the strict bound is reached there.
- `WorkerTypeCorrect`: `TypeOK`, with the ranges of all clocks (`Ranges`).

### The SDK

`StatusKeetProofs`, for every number of services, other names, reports, calls of `start()` and
heartbeats in flight; the calls of `start()` only have to be finitely many. `SDKInv` has
four parts: `ReportsInOnePlace` (a report is not made, pending under one name, carried by
one heartbeat, received, or lost), `RegistrationIsReal` (what `registered` remembers is
true of the server), `CallersWait` (a heartbeat that a `start()` awaits is its only one) and
`OneInterval` (while no `start()` was overlapped, the one interval is the one `stop()`
knows of, and none is set while a `start()` runs).

- `ReportsUsedOnce`: `ReportUsedOnce`, the docs' "used once", whatever requests fail.
- `RegistrationFirst`: `RegisteredBeforeHeartbeat`.
- `StopStopsForTheCareful`: `StopStopsWhenAwaited`. Run `sdk_stop` shows what happens to the
  others; the proof shows that overlapping calls are the only way there.
- `SDKTypeOK`: type correctness; an interval's number stays within the calls of `start()`
  because the call that sets it is not yet among those that run.

### The status page

`StatusPageProofs`, for any number of services. `PageInv` takes the consistency of a
settled service from `IncidentPromiseProofs` and adds `ReadIsCurrent` (what has been read of
a service that did not change, or not move, is still so) and `Agrees` (from the second read on, cards and
rows read agree for those services). The only assumption is that the services are finite.

- `PagesAgree`: `PageAgreesWhenCalm`.
- `BannerIsTheWorst`: `BannerTellsTheWorst`; a count is positive exactly when a service has
  one of the statuses counted.
- `NeverAFalseAllClear`: `NoFalseAllClear`, for every service whose row has not changed since the
  request, its incident written or not; as the step that shows an all-clear can only be
  `Arrives`, after services have been read that were current.

### Accounts

`AccountsProofs`, for any number of requests, every set of e-mails, slugs and legacy users,
and every combination of faults. Each action is first reduced to what it does to the
request (`Ends`, `Goes`) and to the tables; the invariant `AccountsInv` is then
shown to survive every such effect. Its parts: `TypeInv` (with `LineOK`, what a request has
at hand on each line), `IdsInv` (an account belongs to one signup, and is the one
the provider has for its e-mail), `OrgsInv` (a slug is inserted by one transaction at a time
and free until its commit), `LegacyInv` (no signup passes the check of a legacy user's
e-mail) and `CleanInv` (while nothing was hurried or troubled, every e-mail is usable, free,
or in the middle of a signup).

- `AccountsTypeCorrect`: `TypeOK`. `OrgsAlwaysHaveOwners`: `OrgsHaveOwners`.
  `LegacyNeverLockedOut`: `LegacyKeepsAccess`. `SagaIsAllOrNothing`: `AllOrNothing`.
- `CreatedIsUsable`: the action property `CreatedMeansUsable`; only an acknowledged commit
  answers "created" (`OnlyCommitCreates`).

### The web application

`WebProofs`, for any accounts, form handlers in flight and other tabs:

- `SessionIsSound`: `TypeOK`, `OneOrgOnScreen` and `OnboardedHasMonitor` together
  (`SessionTypeCorrect`, `OnboardingLeavesMonitor` name two of them). The
  invariant `SessionInv` adds `Whole` (the items of a session are stored and removed
  together), `AtHome` (a handler whose page is shown is that page's, so no other page loses
  its busy state to it) and `Registered` (the second request of an onboarding follows the
  first for the same account).

And for any number of keys and handlers of the API keys page, in the same module (its
specification is called `KeysSpec` for that), with the invariant `KeysInv`: its part `Alone`
says that while nothing disturbed it, at most one handler is in flight, and its answer, once
served, carries the rows of the table.

- `ListIsCurrent`: `ListIsCurrentWhenQuiet`.
- `NewKeysStay`: `NewerKeyIsNotReplaced`. `OrderInv` says that a mounted page has at most one
  creator, that the button is disabled while it has one, that keys are created in order, and that
  the key on its way to the page is newer than the one shown.

### Only model-checked

What holds under fairness: `OutageIsLogged`, `RecoveryIsLogged`, `ReportIsTaken` (listed services),
`RequestsEnd`, `RoundsEnd`, `BusyEnds`, `CreateEnds` and the liveness half of `KeepsPromise`.
TLAPS handles neither ENABLED nor liveness under fairness. The violated properties of
section 4 are not theorems; `OneHandlerOneIncident`, `PageIsRight` and
`StopStopsForTheCareful` state settings in which what they say does hold.

## 6. Not modelled

In the backend: the loop of `Register` and the columns an upsert overwrites, the validation
of an API key by a request, the daily uptime query, the public list of all incidents and the
onboarding status, which no page calls; signup and login in legacy mode, tokens and input
validation; middleware, configuration and routing, which keep no state; anything below a SQL
statement.

In the web application: the uptime bars (their keys are UTC dates counted back in local
time, a numeric question of its own), the Copy button, the links of a page shown through the
browser's back button, expired tokens, the server rendering and cache of Next.js, and
everything that is looks: the landing, docs and pricing pages, themes, borders, the mobile
menu.

Two effects of the
database are assumed: a single statement is atomic, and a committed row is
visible to the next statement of anyone.

## 7. Plan

Order of work, most important first.

1. Done: `StatusLogic`, `StatusWindow`, `StatusPipeline`, `IncidentPromise`, the
   refinement, `StatusKeet`, type correctness and the bound on duplicates.
2. Done: `MonitorWorker`, `Accounts`.
3. Done: `StatusPage`, `WebSession`, `ApiKeysPage`, the proofs of the first two and of
   `StatusKeet`.
4. `ServiceRegistry` with heartbeats by name; API keys with the request life cycle; the
   uptime chart as a pure algorithm over dates.
5. Done: the refinement and what follows from it, calm handlers, `Accounts`, `ApiKeysPage`,
   `ProbedInTime` and the theorems of `determineStatus` for every window.
6. Proofs left: the type of `StatusPage`'s request and of every module item 4 adds, and
   that the detailed pipeline composed with the two reads satisfies `PagesAgree` through
   the refinement.

Runs stay one per question: a new module brings one passing run, and runs that
show the same defect in a different way are merged before one is added.
