# zebra_day in TLA+

Formal models of zebra_day, the label-printing service for Zebra printers: a FastAPI server over a
TapDB database, a scanner that finds printers on a subnet, a print path with a rate limiter, a
store of ZPL templates, and a CLI that works on the same database.

Paths below are those of the repository (`src/` is its root here).  Line numbers are in
`PROJECT.json` under `map`.

## 1. Inventory

### Who runs

| Actor | Where | What it shares with the others |
|---|---|---|
| the event loop | `web/app.py`, `web/routers/` | database, limiter, scan registry.  Handlers are `async` but call the synchronous client: once a handler has begun, no other handler runs until it returns or awaits.  Only the limiter's `acquire`, the login callbacks and the proxy of the user's preferences await anything |
| scan workers | daemon threads started by the response of `/config/scan/stream` | database, scan registry, one event queue each |
| response generators | pool threads that run the generator of a stream | the event queue |
| the operator's page | `static/js/zebra_modern.js` | the stream, the cancel route |
| CLI processes | `cli/` | database; each constructs a client of its own, which seeds |
| printers | port 9100, reached by `cmd_mgr.py` and `printer_protocol.py` | nothing; they answer, answer wrongly, or do not answer |

Every repository call (`TapDBFleetRepository`) is a database transaction of its own, and this is
the grain of the models: what runs in one transaction, or between two awaits, is one step.

### Components

| Component | State | Operations | What makes it correct | Status |
|---|---|---|---|---|
| Print rate limiter, `web/middleware.py` | readings per client, semaphore | acquire, release | never more than max_requests in a window, no permit lost, nothing refused that could be admitted | `PrintRateLimiter` |
| Printer registry, discovery, sync, `client.py` | printer, observation and drift instances | PATCH, sync, discover | one record per printer, printer data never overrides operator data, observations are kept | `FleetRegistry` |
| Network scan, `web/routers/ui.py`, `printer_protocol.py`, page script | scan registry, queue, stream, page | open, cancel, probe, persist, deliver, disconnect | a cancel is obeyed, the page learns the outcome, nothing is left behind | `ScanStream` |
| Print service and template store, `web/routers/api.py`, `client.py`, `cli/template.py` | template rows, job records, labels on paper | print, save, delete, seed | answers and records agree with the paper, permits come back on every path | `PrintService` |
| GUI server life cycle, `cli/gui.py` | pid file, runtime metadata, processes | start, stop, restart, status | the pid file names the server that runs; status tells where it listens | `GuiLifecycle` |
| Authentication and AI agents, `web/auth.py`, `rbac.py`, `web/ai_agent_access.py`, `web/app.py` | the session in the browser's cookie, the server's instance id | login, callback, logout, the gate, restart | a request passes only by one of the listed ways; a session is earned and ends; a login lands where it was asked to | `Paths`, `AccessRules`, `WebSessions` |
| Observability, `observability.py`, `web/middleware.py` | rollups per endpoint and family, recent events | record | the tables agree with each other and with the answers given | `RequestRollups` (partly) |
| Status cache, `cmd_mgr.py` | status and time per address | get, refresh, clear | no answer older than the TTL | `FreshStatus`, `StatusCache` |
| Simulator, `simulator.py` | simulated printers, two servers each | start, stop | every bound port belongs to a printer the manager knows, or to a start that failed | `SimulatorFleet` |
| Settings and paths, `settings.py`, `paths.py` | the configuration file, the environment | load, write a template, validate | what the validator passes loads, but for what it does not look at | `Settings` |
| Start of a process and prefix ownership file, `client.py`, `cli/gui.py`, `container_entry.py`, `web/app.py` | JSON file shared with other services, identity rows | launch, check, claim, seed, spawn | no claim is lost or taken; a server serves as it was asked to | `Deployment` |
| ZPL preview, `zpl_renderer.py` | parse position, font, barcode, origin | each command | every field is drawn once, as the commands before it say | `ZplPreview` |
| Logging, TLS, TapDB mounts, other CLI commands, API client, templates and styles | none that changes beside anything else | pass through | | not modelled |

### What is hard

The list `hazards` of `PROJECT.json` has them with their lines, those too that the code leaves open and no property
covers, each with a note that says why.  The main ones: transactions of
several actors between the steps of one operation (reads that are written back later, inserts
that meet), a cancel that lands anywhere in a scan, a stream whose reader leaves, a printer that
fails in the middle of the copies, a record that cannot be stored after the labels came out,
shared files that several processes rewrite and may die rewriting, a session that travels with every
request and is rewritten by every answer, and a configuration that is read twice.

## 2. Plan

Order: the print path and the registry first, since they touch paper and data; then the scan;
then what starts and guards the server; last the pure algorithms.

1. `PrintAdmission`, `PrintRateLimiter`, `PrintRateLimiterProofs`: abstract limiter, the code's
   limiter, refinement and proofs. *Done.*
2. `FleetRegistry`, `FleetRegistryProofs`. *Done.*
3. `ScanStream`, `ScanStreamProofs`. *Done.*
4. `PrintService`, composed with `PrintRateLimiter`, and `PrintServiceProofs`, with the proof that
   the service implements the limiter. *Done.*
5. `GuiLifecycle`, `GuiLifecycleProofs`: pid file, metadata and processes with concurrent shells;
   `restart`. *Done.*
6. `AccessRules`, `RequestRollups` and `WebSessions`, checked as one composition: browser tabs that
   share a session cookie, the awaited exchange of a callback, restarts, the gate, and the
   rollups that count what comes out; `WebSessionsProofs`. *Done.*
7. `Settings` and `Deployment`, `SimulatorFleet`, `FreshStatus` and `StatusCache`, and
   `ZplPreview` against a reference definition; `DeploymentProofs`, and `RuntimeProofs` for the others
   and for the composition. *Done.*
8. Open: labs in `FleetRegistry`; paging of the rollups.

## 3. The modules

### PrintAdmission, PrintRateLimiter

`PrintAdmission` is what a limiter promises: it remembers every admission, counts the prints under
way, and admits exactly when both limits allow it.  `PrintRateLimiter` is
`web/middleware.py`'s limiter: it keeps a pruned list per client (`log`) and a semaphore
(`permits`).  `acquire` is one step, because nothing between taking the lock and the semaphore's
fast path suspends; its three outcomes are `Admit`, `RefuseRate` and `RefuseBusy`.  The property
`AdmissionSpec` is the abstract specification under the identity mapping.

### FleetRegistry

`client.py`'s registry as chains of transactions.  `pc[a]` is where actor `a` stands in its
operation and `job[a]` what it carries.

| Operation | Actions |
|---|---|
| `update_printer_metadata` (PATCH) | `PatchRead`, `Find`, `Commit` |
| `sync_printer_metadata` | `SyncRead`, `SyncObserve` or `SyncObserveFails`, `Reconcile`, `Find`, `Commit` |
| `discover_printers` | `ScanStart`, then for each printer `ScanRead`, `Find`, `Commit`, `ScanObserve`; `ScanEnd` |
| an exception or a killed process | `Abort`, at any point |

`_upsert_instance` is `Find` (its query) and `Commit` (its flush), as nothing locks the row or makes
names unique.  Two history values serve the properties: `collided`, the names that two operations were about
to insert at once, and `base`, the record that a job has read.  Model and serial, which the code treats alike, are one fingerprint; naming,
location and defaults are one curated value.

### ScanStream

One scan from the request to its end, in four parties: routes (`OpenStream`, `Cancel`), worker
(`Begin` ... `Sentinel`), generator (`SendInit`, `StartWorker`, `Deliver`, `EndStream`,
`DropStream`) and page (`Leave`, and what `Deliver` does to it).  `ServerDies` ends the process at
any moment.  The worker's progress callback is where a cancel takes effect, and persisting has
none.

### PrintService

The print handler over the limiter (`L == INSTANCE PrintRateLimiter`, whose `Acquire`, `Release` and
`Tick` are its steps), the template store and the printer.  `loop` is the handler the event loop
is in; while it is not idle no other handler starts.  CLI processes seed, save and delete templates
between any two of its steps.  `paper` counts the labels handed to the printer.

### GuiLifecycle

The commands of `zday gui` over `gui.pid` and `server-meta.json`, which nothing locks.  `shell[s]` is where
a shell stands in its command, `proc[p]` what runs under a pid.

| Code | Actions |
|---|---|
| `_running_pid` | `FindNoFile`, `FindServer`, or `FindStale` and `UnlinkStale` |
| `start` | `CheckAuth`, find, `Ready`, `OpenMeta`, `WriteMeta`, `Spawn`, then `SeeAlive`, `OpenPid`, `WritePid` or `SeeDead`, `ClearMeta`; in the foreground `SeeDead` comes when the server ends |
| `stop` | find, `Kill`, `UnlinkPid`, `ClearMeta` |
| `restart` | find, what `stop` does, what `start` does |
| `status` | find, `Report` |

Each write of a file is two steps, as another shell may find it truncated.  Servers listen, crash and end
on their own (`Listen`, `Exit`), the machine reuses pids (`Reuse`), and a command may be killed
anywhere (`Interrupt`).

### Paths, AccessRules, RequestRollups, WebSessions

`AccessRules` has no state: the roles of `rbac.py`, which claims of Cognito or of the broker are
refused and what the others confer, the outcome of an agent's token, and by which way, if any, the
gate (`CognitoAuthMiddleware.dispatch`) lets a request in.  A route is the sequence of its segments.  The code
compares paths with `startswith`, which does not stop at the end of a segment: `Paths` has these tests, and the
constant `Longer` says which segments begin with a known name.
`RequestRollups` are the bags that `record_http_request` fills, and `Balanced` compares them with the
set of answers given, counted anew (`Tally`); `answers` is that set, a history variable.  `WebSessions` composes both: `req[r]` is
one request from `Send` to `Receive`, and `req[r].jar` the session it carries.

| Code | Actions |
|---|---|
| browser and `SessionMiddleware` | `Send` copies the cookie into the request, `Receive` writes the answer's session back |
| `/auth/login` | `LoginStart`: the state is the number of the request, a fresh token |
| the callbacks of both providers | `CallbackRefuse`, or `CallbackBegin`, then, after the await, `ExchangeDone`, `ExchangeRefused` or `ExchangeTimesOut` |
| `/auth/logout` | `Logout` |
| the gate and the handlers behind it | `VisitOpen`, `VisitBySession`, `VisitExpired`, `VisitWithoutSession`, each with one of `AdminPage`, `AuthPages`, `OtherPage` |
| a new server process | `Restart`: another instance id, no rollups, every request lost |

### Settings, Deployment

`Settings` says of a configuration and an environment whether `from_context` returns (`Loads`), which mode
results, what the mode needs, and what the validator of the config commands complains of.  Only which keys
are given and which of them are usable matters.  The parts `cognito` and `external_broker` of `authentication` are
read in every mode but only for what nothing before them gives; `cognito.domain` and its like are keys of their own,
which the loader reads and the validator does not.  `Deployment` has the processes that read it.

| Code | Actions |
|---|---|
| `container_entry.main`, `gui start`, any CLI command | `Launch` |
| `ZebraDaySettings.from_context` | `Load` |
| the checks of `gui start`; `create_app` up to the client | `Build` |
| `_ensure_prefix_ownership_registry` | `ReadRegistry`, `Truncate`, `Write` |
| `_ensure_identity_prefix_config` and the end of the transaction | `SelectRow`, `Commit` or `Rollback` |
| the rest of `gui start` | `Spawn`: the process goes on as the server, which begins again at `Load` |
| surroundings | `Edit` (the file), `StrangerClaims` (another service), `Crash` |

The three identity rows of a service are written by the same transaction with the same rules and are
one row here.  `write_text` is two steps, since opening empties the file; when two writers meet, a
shorter text may leave the end of a longer one, which the second disjunct of `Write` allows.
`raced` records that somebody wrote over what he had not read.  The identity rows know a domain in capitals (`Upper`),
the shared file as it is written in the configuration.

### SimulatorFleet

Manager and printers: `StartZpl` and `StartHttp` are the two halves of `SimulatedPrinter.start`, the second of which
raises if its port is taken; `Stop` does nothing for a printer that does not run, which is
why the port of a start that failed stays bound (`stray`).

### FreshStatus, StatusCache

`FreshStatus` promises a caller that each field is blank or what the printer was no more than the time to
live before the call, or later; it has no cache and no queries.  `StatusCache` is `get_cached_status`
and `get_full_status`: five queries one after another (`Query`), a store under the time of the call (`Store`), a
`Hit` or a `Clear`.  `StatusSpec` is the promise with `since <- now`.

### ZplPreview

The loop of `render_zpl_to_png`, one action per kind of command.  `Shown(k)`, stated over the text alone,
is what command `k` should show, and `Place(k)` where: the number of commands up to `k` that show something.
A token is a number, data, or `;`, which begins a comment.

## 4. The runs

| Run | Shows | Bounds, and why they are enough |
|---|---|---|
| `limiter` | limits, permits and the refinement of `PrintAdmission` | several clients and requests, a window shorter than the clock's range, so that admissions leave the window and permits run out while the rate still allows |
| `fleet` | all in any interleaving: rows keep their names (`RowKeepsName`), a sync leaves its trace (`SyncLeavesTrace`), printer data fills blanks only, unless the record is not as it was read (`DualAuthority`), a second row of a name needs two inserts at once (`OneRowPerName`), a PATCH hits its row, unless the name has another (`PatchHitsItsRow`) | web loop, scan thread and CLI, 4 operations, 3 ids for 2 names, so that duplicates and renames onto another printer occur; scans find one of the two names; ids and fingerprints are interchangeable (symmetry) |
| `fleet_curation` (violation) | the exception of `DualAuthority` does happen: the curated part of a record is overwritten by a discovery or sync | as `fleet` |
| `fleet_observation` (violation) | observations of a scan are the registry's values | as `fleet` |
| `scan_stream` | cancel, registry entry, order of the queue, verdict, and that page and generator come to an end | one scan of 3 addresses: a first, a middle and a last probe, any of them finding a printer.  Scans share only the registry, under ids of their own, so a second one adds nothing but states |
| `scan_saved` (violation) | the page redirects before, or without, the printers being stored | 2 addresses |
| `print_service` | answers, job records and paper agree; the printed template was current; permits come back; nobody is refused for concurrency | two requests against `max_requests = 1`, a semaphore of 1 (the hardest case for `NeverBusy`), two copies so that one can fail after another, one shipped template, one good content and one that asks for a missing field |
| `template_seed` (violation) | constructing a client overwrites saved templates | one request |
| `gui` | as long as commands do not overlap, no server is orphaned and the metadata fits | two shells and 3 commands: one that leaves something behind and two that find it; two pids, so that they are reused at once; two endpoints, so that a port may be taken or free; shells and pids are interchangeable (symmetry) |
| `gui_restart` (violation) | a restart stops the server and is then refused | as `gui` |
| `web_sessions` | sessions are earned, bound to a server process and ended by a logout; logins land where they were asked to; rollups balance; every request ends | three requests, two of them at once: a login, its callback and a third that overlaps or follows either; one restart; an administrator, a user whose role is an entitlement only, and one of another domain; a page, a page about authentication and an API route, with each kind of bearer credential; all three modes |
| `runtime` | claims, servers, ports, cache and preview, see below | two interchangeable processes (symmetry) over five versions of the file and five command lines, one edit, one claim of another service, three first contents of the shared file; domains `Z` and `z`, two in the file and one in the rows, so that a claim of the one is a stranger's in the other (`OtherPrefixes`, for prefixes that are not the service's, is empty); two ZPL and two HTTP ports that share one, so that a printer may meet its own kind; one printer, a time to live of 2 in a clock of 0..3 and one change of condition, so that a status grows stale in the cache and while it is put together; labels of up to four commands out of eleven, among them comments, malformed numbers and data that no barcode can hold |

`runtime` puts four parts side by side that share no variable: a behaviour is one of the `part` that its
first state names, while the others rest in one of their initial states.  That is sound because no action of one
part reads or writes what another has, and it keeps the state space the sum of the
parts', not their product.  An `ASSUME` of `MCRuntime` evaluates `ValidatorLeavesOpen` over the combinations of
two sections and four keys that may be missing, six values that may be flawed, five modes and three environments; one of
`MCWebSessions` has examples of the tests in `Paths`.  The assumptions of `Deployment`, `StatusCache` and `ZplPreview`, which the proofs use, are evaluated
by the same run.

Deadlock is not checked: every system here may stop, when its requests or operations are used up.

### Violations

Each names a line of the repository that says otherwise; `PROJECT.json` `findings` has the words.

* A discovery or sync writes back the record it read, so a PATCH in between is lost.
* A discovery records the registry's merged values as the observation.
* A cancelled scan discards what it found, and a completed one says "done" before it stores
  anything, while the page says that the results are already saved.
* Constructing a client, which every server start and CLI command does, upserts the shipped
  templates over saved and deleted ones.
* `gui restart` stops the server and calls `start` without an auth mode, which `start` then refuses.

### Fairness

`scan_stream` assumes weak fairness of the worker and of the generator: the worker is a thread
whose probes and database calls time out, and the server resumes a generator whose page reads and
drops one whose page has gone.  Nothing is assumed of cancels, of the page's leaving or of the
server's exit.  `print_service` assumes weak fairness of the handler in progress: nothing else gets
the loop, and connections to a printer time out after 5 seconds.  `web_sessions`
assumes that the event loop goes on with every handler, that an exchange ends by its timeout at the latest, and
that an answer reaches the browser; nothing of `Send` or `Restart`.  The other specifications have no
fairness and no liveness properties: each of their processes may stop or crash anywhere, and nothing retries.

## 5. The proofs

All proofs hold for any values of the constants, under the `ASSUME` of the module.  Every invariant that a
passing run checks, and every action property and refinement, is a theorem; section 4's bounds matter for the
liveness properties and the violations only.

`PrintRateLimiterProofs`.  None of the limiter's safety properties is inductive.  The invariant
`IInv` adds `Bookkeeping` (a log holds only admitted requests, with readings in the past) to
`LogKeepsWindow`; with both, the pruned log is the window that ends now (`KeptIsWindow`), so the
comparison the code makes is the one `WindowBound` needs.  The same lemma gives the refinement
`ImplementsAdmission`, step by step.  The clock is assumed not to go back.

`FleetRegistryProofs`.  Each actor owes something for the step it is at and the job it carries
(`JobOK`): the payload is there, the row found is of the payload's name, a sync has left its trace,
what a sync or scan is to write is what it has read with a blank filled (`Based`), who is about to insert a name as the
only one finds none in the table (`FirstOf`), and a PATCH has found its row if that is the only one of its
name (`OnTarget`).  Only `Commit` changes rows; every other step is a `Move` of one actor and keeps
what the others owe (`MoveIInv`).
With `Lone` (two operations about to insert one name are in `collided`) this is inductive, and all six properties of
the run `fleet` follow.  Their exceptions are real: the run `fleet_curation` shows that of `DualAuthority`, and
two first discoveries of one printer that overlap insert it twice.

`ScanStreamProofs`.  Every property speaks of one scan, and every step but `ServerDies` is one scan's, so
the invariant is a predicate of a scan (`ScanInv`): its registry entry follows its worker (`Entry`), a
cancel in time is still to be seen or has been (`Obeyed`), what is in the queue fits how far the worker is
(`InQueue`), and a page that reads has a verdict before it (`Told`).  `EndStream` is where they meet: the
sentinel is the last event, so a page still reading would have no verdict to come, which `Told` excludes.

`GuiLifecycleProofs`.  As long as commands run one at a time, a command knows what runs: none that can be
found from the moment it has found none, or stopped it, until it spawns one (`NoneServing`), and only its own from
then on (`OnlyOwn`).  `MoveIInv` states once what a step of a command must keep; every step is an
instance of it, except the three that fetch a pid or begin.

`PrintServiceProofs`.  `NeverBusy` needs to know who holds the permit: the handler the loop is in, and nobody
else (`Holder`).  Answers and job records are given at the end of a chain of steps, so the
invariant says at each step what is printed and recorded so far (`AtHand`), and of every other request that
what it was told is true (`Told`).  `Templated` carries the content that was read up to the send.  With `Holder`, each step of
the service is a step of the limiter or leaves it alone, and `ServiceIsLimiter` follows.

`WebSessionsProofs`.  The five invariants of the run `web_sessions` lean on each other, so one invariant
carries them.  Next to them it has:

* `Unanswered` (what a request can have at each stage: a principal or a way in only once it is answered; one that
  awaits an exchange brought back the state of its own session) and `Sessions` (`SessionIsEarned` without the events).
* `Logins`: in the cookie and in every copy of it that is on its way, a state and a path are of the same login
  (`Coherent`).  That is why the overlapping rewrites of the cookie cannot mix two logins: a session is
  always replaced whole.  `LandsWhereAsked` follows where `ExchangeDone` answers.
* `Alone` (a request in flight that nothing has overlapped is the last one sent and the only one; a
  logout of this kind still has the cookie it was sent with, and answers with none) and `Settled` (when such a
  logout is done nothing older is in flight).  They are what `SignedOutStaysOut` needs when the logout
  is received, and afterwards when an older answer could otherwise arrive.
* `Counted` (answers are those of requests answered or done, hence one of each) and `Events`.

The server has eleven kinds of step, four of which answer a visit.  What an answer does to the invariant is argued
once (`AnswerInv`, for any answer that is `Fitting` and any event that is `Noted`), what a request that goes on
waiting or raises does once (`WaitingInv`), and so for one that ends (`EndsInv`); each
handler is shown to be one of them.  `RollupsBalance` needs no induction over data: adding an answer of a
request not answered before adds one to one entry of each tally (`TallyAdd`, `Recording`).  Assumed are numeric
bounds and statuses (`SessionsAssumption`); nothing of users, claims, visits or targets.

`RuntimeProofs` has the other parts of the run `runtime`.

* `SimulatorFleet`.  `PortsAccounted` with the type invariant is inductive; the running printers' port pairs
  must be shown disjoint at each step.
* `StatusCache`.  What is in the cache was a condition of its printer at or after its time stamp, and what the
  queries have brought so far since the call began (`Dated`); with this each step of the cache is a step of
  `FreshStatus` or a stutter.  It is the stamp of the call, not of the answer, that makes it so.
* `ZplPreview`.  The parse state before command `next` is what the reference definition says of the text up to
  there: position, font and module width are those of the last commands that set them (`Current`), the pending barcode is
  the last one that no field has used up (`Coded`), and the picture has the items of the commands so far at their
  places (`Showing`).  `Showing` is stated by counting, not by recursion, so that a step extends it by one command.
* The composition.  The parts' invariants, each under its `part`, are inductive for `MCRuntime!Spec`, and its
  `TypeOK` follows.
* The validator.  `ValidatorLeavesNoMore` says of every configuration and environment what the `ASSUME` of
  `MCRuntime` evaluates for some: a refused file that the validator has passed has one of eight reasons.

`DeploymentProofs`.  Each process owes something for where it stands (`Fine`), and the claims and rows fit together (`Shared`): what it has read
fits the shared file as long as nobody raced, what it has settled on is a mode whose needs are met by the version it holds.  Only
`Write` and `StrangerClaims` change claims, and without a race both add only.

Only model-checked: liveness under fairness (`StreamEnds`, `PageLearns`, `PrintsEnd`, `RequestsEnd`), which is out of the
prover's reach, and the violations, whose point is a behaviour that TLC exhibits.

## 6. Seen on the way

Observations that no document or assertion contradicts, and that the models reproduce or leave out:

* `config bootstrap` cannot create a configuration: the loader raises before the template is written.
* The validator accepts files that `from_context` refuses (`ValidatorLeavesOpen` lists the reasons, among them a
  nested Cognito domain that is no bare host, and parts of `authentication` that are no mappings).
* A mode with a capital letter passes the validator; a process that is not started by `gui start` then
  serves with a gate that nobody can pass by logging in.
* `gui start --auth cognito` also demands the settings of the file's own mode (`Spawn`).
* A process that dies between opening and writing the shared claims file leaves it empty for every service.
* A timeout of the broker's exchange is caught by nobody and ends as a server error (`ExchangeTimesOut`).
* A request that overlaps a logout brings the session back; `SignedOutStaysOut` says so in its condition.
* An exception of a handler behind a bearer token is answered as a bad token (`OtherPage`).
* `/admin` without authentication redirects to the page for the unauthorized.
* A simulated printer whose start fails keeps its ZPL port until the process ends (`stray`).
* A failed status query leaves its fields at their defaults, which reads as "not paused".
* Field data that ends in `FS` loses these letters, and `;` cuts it (`Data`, `Kept`).
* A change of preferences that the broker has stored is answered with an error if reading it back fails.
* `save_template` asserts its read-back, although empty content is stored and then hidden, and a CLI process may
  delete the template in between (`ReadBack` does not fail in the model; the save is committed either way).

## 7. Not modelled

Clocks that go back, the growth of the limiter's table of clients and of the rollups' durations; two records in one
microsecond (their names are time stamps); a restart of the server during a print, which forgets the
limiter's state; label profiles (nothing but the seeding writes them); labs; database probes, payloads and paging of the
observability routes; the proxy that passes a user's preferences to another service; the OAuth library, the cryptography of tokens and the text of redirect targets; pixels of previews;
logging, certificates, and the commands that pass through to other tools.
The doc's order of print defaults lists a device manifest and a hard failure where the code takes the first
of the printer's profiles; nothing in the code reads a manifest.
