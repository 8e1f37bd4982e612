# TLA+ models of the RSS-2B sieve shaker kiosk

The program is a touch-screen kiosk for a laboratory sieve shaker: a Flask
server on a Raspberry Pi (`app.py` and its `*_service.py`), a page
(`index.html`, `script.js`, `shaker_ui.js`) in a local browser, and an AC dimmer
with a firmware of its own on a serial line. It runs shaking programs, records
each test as a report that a second person approves, exports approved reports
to a USB drive, deletes them a day after the export was verified, and keeps an
audit trail of all this. Everything it must not forget is in JSON files that are
loaded, altered and written back without a lock or a transaction.

This directory models its core logic, checks the models with TLC, and proves the
properties that matter most with TLAPS.

1. [Inventory](#1-inventory): the parts of the system
2. [Modules](#2-modules): what is modelled, and how it corresponds to the code
3. [Runs](#3-runs): what TLC checks, with which bounds and which fairness
4. [Proofs](#4-proofs): what TLAPS proves, from which assumptions, and how
5. [Where the code does not keep its word](#5-where-the-code-does-not-keep-its-word)
6. [Not modelled, and why](#6-not-modelled-and-why)

`PROJECT.json` lists components, runs, mutants, the source lines of every
definition, hazards, findings and theorems. Paths below are relative to the
repository.

## 1. Inventory

| part | code | state | operations | talks to |
|---|---|---|---|---|
| program runner | `shaker_run_service.py`, shaker part of `hardware_service.py` | stop, abort and complete events, result, live state, worker thread, `line_q`, serial port | run, complete, abort, status; start, stop, ensure stopped; frames with retries until OK | dimmer (serial), page (HTTP) |
| dimmer firmware | `RSS-2B AC DIMMER FINAL CODE.txt`, `shaker_firmware.txt` | one receive buffer, ready flag, load | receive interrupt, main loop | runner |
| power recovery and sessions | `app.py:600-990`, `3100-3500`, `data_service.py:1370-1495` | session file, power-audit marker, clean-stop flag, checkpoint, reports, audit rows | startup recovery, SIGTERM handler, login, logout, page reset, checkpoint PUT and DELETE | page, report store, audit log |
| report store and export retention | `data_service.py:493-630`, `1507-1710`, export routes of `app.py` | `reports.json`, `report_export_schedule.json` | create, approve, discard, delete, export, stage, confirm, purge | page, USB export, purge thread |
| approval tokens | `app.py:1640-1790`, `desktop_api/auth_store.py` | tokens in memory | issue, consume, expire | report store |
| members and password policy | member part of `data_service.py`, `desktop_api/members_routes.py` | `members.json` | login attempt, lockout, unlock, enable, change password | sessions, audit log |
| roles and permissions | `rbac_service.py`, `rbac.js` | tables | lookup | every route |
| recipes | recipe part of `data_service.py`, `desktop_api/recipes_*.py` | `recipes.json`, archive | create, edit, disable | page |
| audit log | `audit_service.py` | entries, export schedule | append, export, purge | everything |
| fingerprint sensor | `biometric_service.py` | sensor buffers, cancel event | enrol, identify, cancel | members |
| desktop API | `desktop_api/` | bearer tokens, embed tickets | issue, refresh, revoke | members, recipes |
| test run page | `shaker_ui.js`, `script.js` | the screen, timers, checkpoint writer | begin, start, poll, finish, weigh, submit, abort, log out | runner, recovery, report store |
| validation run | same, and its routes | the same, without a program thread | start, stop, record | runner, report store |
| calculation | `calculation_service.py`, `validation.js` | none | sieve arithmetic, validation of recipes | runner, reports |
| report contents, printing, PDF, USB | `report_service.py`, `print_service.py`, `pdf_generator.py`, `usb_export.py` | none | formatting, rendering, copying | report store |
| scale, clock, network, keyboard, bridge | `hx711_service.py`, `rtc_service.py`, `network_service.py`, `keyboard.js`, `bridge*.py` | devices | thin wrappers | |

What makes it hard:

- **Threads.** Flask runs one thread per request; there are a program thread, a
  serial reader thread and an export purge thread. They share events, a queue of
  lines and files, mostly without a lock.
- **A lossy line.** The dimmer has room for one frame, answers stop frames only,
  and any OK in the queue answers whoever waits for one.
- **Power.** The kiosk is switched off at the wall. Each file write is separate,
  and the startup recovery, which is a sequence of writes itself, may be cut too.
- **A page that outlives the server.** systemd restarts the server under a page
  that goes on calling it, with headers from which the server restores sessions.
- **Numbers that are used again.** A report's number is the largest number in the
  file plus one; exports and schedules refer to reports by number.

- **One of everything.** The page has one modal dialog, one verification screen with
  one continuation, one preview that holds the operator, and answers that arrive
  after the screen they were meant for is gone.
- **Records read now and saved later.** An account is read, altered and saved by
  each of a dozen routes, and an edit sends back what the page read minutes ago.

What makes each part correct is in its module's properties (section 3). The list of
hazards, each at its line, is in `PROJECT.json`.

## 2. Modules

| module | models | abstract specification |
|---|---|---|
| `ShakerRun` | program runner, its serial port, dimmer firmware | `ProgramContract` |
| `PowerRecovery` | power recovery, sessions, and the calls of the test run page | `TestRecord` |
| `ReportStore` | report store, export retention, purge thread | `ReportArchive` |
| `PageServer` | what the page meets at the server: program, load, checkpoint, reports, requests under way | detailed by the three above |
| `TestRunPage`, `ValidationPage` | the two pages of `shaker_ui.js` and the shared modal dialog | |
| `Kiosk` | composes them: login, logout, navigation, preview, and the interleaving of it all | |
| `MemberRecord` | one account and the functions that change it | |
| `Accounts` | the routes that change accounts and the session, as reads and later saves | |
| `Approvals` | the second signature: verification screen, tokens, what they are used for | |
| `MCShakerRun`, `MCReportStore` | instances for TLC | |
| `ShakerRun_proofs`, `PowerRecovery_proofs`, `ReportStore_proofs`, `Accounts_proofs`, `Approvals_proofs` | theorems about one module each | |
| `Kiosk_proofs`, `KioskWaiting_proofs`, `KioskRun_proofs` | theorems about `Kiosk`: for any user, for one who has waited for answers, and of the programs and reports of such a user | |

`TestRunPage` extends `PageServer`, `ValidationPage` extends `TestRunPage`, and
`Kiosk` extends that: the pages share one dialog and one list of requests, so that
composing them means composing their actions. `Accounts` and `Approvals` both extend
`MemberRecord`.

### ShakerRun

Each member of `Requests` is a request thread that makes one call; `Worker` is the
daemon thread of `_run_worker`. `pc` says where a thread is; a thread inside
`cmd_shaker_stop` (retried frames until an OK arrives) also has `stage`, `left`
and `acked`, and continues where `AfterStop` says. `stop`, `abort` and `complete`
are the three events of `shaker_run_service.py`, `result` and `live` its
`_run_result` and the live state of `hardware_service.py`. `rx`, `motor` and `okQ`
are the dimmer's buffer and load, and the OK lines in `line_q`.

A request's actions follow its handler: `RunProgram` is what `start_program` does
under its lock; `AbortProgram`, `AbortStop` and `AbortLive` are the steps of
`abort_program`, which takes no lock; `EnsureStopped` begins the two stops of
`ensure_shaker_stopped`. The worker's actions follow `_run_worker`, `_run_logical`,
`_run_continuous` and `_sleep_until` from `WorkerBegin` to `WorkerSignal`.
`StopWrite`, `StopAck`, `StopTimeout`, `StopWriteRaises` and `StopPlaceholder` are
the outcomes of an attempt of `send_shaker_frame`; `DimmerLoop` is an iteration of
the firmware's `loop`, and `Received` its receive interrupt, which overwrites or
garbles a frame not yet taken. `PortOpens`, `PortFails` and `Restart` are the port
and the process coming and going.

Abstractions. The mode letter of a frame is dropped, since the firmware switches
the load off for either letter. Time is dropped: a segment may end at any moment
(`WorkerElapsed`), and a wait for OK may expire at any moment, or, when
`TimelyReply` holds, only when no answer is under way. The reader thread is merged
into `DimmerLoop`: a line enters the queue when it is sent. A torn frame is the
nondeterministic mix that `Received` allows. The warm-up drain of the UART at boot,
and the worker's exception path, which no validated program reaches, are left out.
`Program` is what `validate_recipe` accepts.

`ProgramContract` knows programs, an outcome and whether an abort was asked for or
all segments ran out, and nothing of threads, events or frames. `KeepsContract`
reads status and outcome the way `get_program_status` shows them.

### PowerRecovery

The durable state is `flag` (the clean-stop file), `marker` (the power-audit marker
of the open session), `user` (the session file), `checkpoint`, `reports` and
`rows` (power-interruption rows per session). The process is `server` (down,
booting, up), `boot` (where the startup is, and what it has read) and `term` (a
SIGTERM being handled). The page is `ui`, `session`, `test`, `aborting`, `leaving`
and its calls in flight: `request`, `logout`, `put`, `del`. The rest is history.

Every write of a file is a step, and `PowerCut`, `Crash`, `Shutdown` (SIGTERM, then
the power goes) and `Restart` (SIGTERM, then systemd starts it again) may come
between any two. The startup's steps, `BootConsume` to `BootForget`, follow
`_startup_session_power_audit`; `Sigterm` its signal handler; `Login*`, `Logout*`
and `Reset*` the session routes, with the logout's detour through the shaker stop
that lets a login overtake it; `BeginTest` to `LeavePreview` the calls of
`shaker_ui.js` in their order.

`PageSurvives` says whether the page may stay loaded when only the process stops.

Abstractions. A single write is whole. One PUT and one DELETE of the checkpoint are
in flight at a time and end before the next test; one logout is in flight. The loss
of a reply after a POST has been served is merged with the loss of the page.
Logins by PIN, fingerprint and desktop write the same two files the same way and
are one action. Aborts by navigation, POSTs that fail while the server is up, and
the factory reset are left out; so are audit rows other than the power row of a
session.

`TestRecord` knows which tests have begun to be recorded, and the list of entries:
a begun test always has a checkpoint or an entry, entries are only added or closed,
and a closed entry never changes.

### ReportStore

The state is the two files, `reports` and `schedule` (`staged` and `scheduled`
batch), and for each thread its `pc` and the locals its handler holds: the list it
has loaded, the report it saves, the numbers still to delete, the schedule it has
loaded, the export it confirms. Clients are threads that serve requests one after
another; `Purger` is the thread of `_export_purge_loop`. A load and a write are
separate steps (`NewLoad`, `NewWrite`, `PutLoad`, `PutWrite`, `RemoveLoad`,
`RemoveWrite`, `StageLoad`, `StageWrite`, `ConfirmLoad`, `ConfirmWrite`,
`Unschedule`), since the code takes no lock. `Create` saves twice, as
`create_report` does. `Confirm` first purges what is due, as `confirm_report_export`
does, so that `Purge` and `Confirm` share the steps of the purge.

`Serial` restricts handlers and purge to come one at a time. It is not a lock of the
code but an assumption about use, a single kiosk page that waits for each reply and
a purge that happens to come between. `KeepsArchive` and `LastConfirmedIsPurged`
need it; types, unique numbers and `PurgesOnlyConfirmed` do not, and what an
overlapping purge breaks is in section 5.

Abstractions. A report is its number, a content that is unique, and whether it is
pending. A day is a tick of `now`; a batch is due when its number of confirmation
is at most `now`, because batches fall due in the order of their confirmation. The
purge takes numbers in any order. Writes are whole; PDF and text files, permissions
and audit rows are left out. `Crash` loses the locals and keeps the files.

`ReportArchive` promises that reports enter pending under numbers of their own, are
approved or discarded once, and go only when their number was named for removal.

### PageServer, TestRunPage, ValidationPage, Kiosk

A request of the page is a record in `calls`, in the order of sending. It is sent,
it lands (`Lands`) or is refused (`Refuses`), and its answer waits until the page
gets to it (`Answer`), in any order. `PageServer` has what landing does to the
program thread (`prog`, `begun`, `ended`), the load, the checkpoint and the reports;
it is the interface of `ShakerRun`, `PowerRecovery` and `ReportStore` as the page
sees it: a program ends by itself or because it was told to, its thread begins some
time after the request that started it, and a segment switches the load on again.

`sr` is `_sr` of `shaker_ui.js`, `val` its `_valState`; `modal` and `ask` are the one
dialog of the application and the question whose promise is open. `page`, `going`,
`goal` and `skip` are the active page, a navigation that a handler ends with, and
the guards that it passes once; `gate` and `last` are `_reportApprovalGate` and
`_lastReportPreview`.

JavaScript is not preempted: a step is what runs from a press, a timer or an answer
to the next request. So `Press` is a button, `Timers` the status poll, the
validation's timer, the automatic logout and the approval poll, and `Answer` the
continuation after an `await`. A navigation that ends a handler is a step of its own
which nothing precedes (`GoToPage`), since the guards may open the dialog.

Abstractions. A test is a number and whether its sieves are weighed; weights, times
and contents of reports are left out. Pages without a state of their own are one
page. A request that is refused has changed nothing. `Login` has the ensure-stopped of
the login route, which may fail unnoticed; that of the logout route, sent after the
one that the page has waited for, is left out. A second status poll while one
is under way does what the first one does and is not sent.

### MemberRecord, Accounts

`Record` has the fields of an account in `members.json` that guard a login: status,
count of wrong passwords, duty to change (`mustChangePassword`), password, the
commitment to a password somebody else has set (`creationPasswordHash`), history,
whether the password's cycle is over, fingerprint, permissions. Each operator is a
function of `data_service.py` (`record_failed_login`, `apply_password_change_to_member`,
`save_member`, ...) from the record as it was read to the record that is saved.

In `Accounts` a route is a check of the account followed by its list of updates
(`Starts`); `ReadsMember` and `SavesMember` are the read and the save of each. An
edit is such an update that spans two requests of the page. `strikes`, `used` and
`chosen` are history: wrong passwords since a login, reset or unlock; the passwords
the account has had; whether its owner has set the present one. Passwords are
atoms that are all strong enough, and hashing is their identity: what counts is
which are equal.

### Approvals

`tokens` is `_approval_verify_tokens`, `shown` and `awaiting` are the verification
screen and the deed its continuation (`approvalVerifyResolve`) will go on with. A
press asks for a signature (`AskRecipe`, `AskExport`, `SubmitReport`), enters
credentials (`SubmitVerify`), cancels, or leaves by the sidebar, which keeps the
continuation. `VerifyLands` is the answer of the verify routes: it issues the token
and sends the deed off with it, to whatever the continuation now is. `DeedLands` is
`_consume_approval_verify_token` in the three routes, which takes the token out
before it looks at anything. `Tick` ages tokens; accounts are disabled and enabled,
and sessions change, at any time. Each update of an account is one step here.

Every token remembers, as history, the deed its owner meant (`meant`), and
`inactive` counts the ticks since an account was active.

## 3. Runs

Every run ends within a few minutes with two workers. Every property of a run
that passes has a mutant: a plausible bug in a definition, kept beside it and marked
as such, that breaks it.

| run | instance | checks |
|---|---|---|
| `runner_live` | 3 requests among run, complete, abort, ensure; continuous and run-wait programs; timely dimmer, open port; fair | `AbortIsReported`, `FullResultRanFully`, `NoStaleOk`, `SettledOff`, `LiveEndsWithWorker`, `StopEndsProgram`, `StopEndsLoad` |
| `runner_faults` | 3 requests among run, complete, abort, start, stop; continuous and wait-run programs; slow dimmer, absent and failing port, restarts | `TypeOK`, `StatusResultIsCurrent`, `KeepsContract` |
| `recovery_stops` | 2 tests, 2 sessions, 2 stops; the page is lost with the process | `TypeOK`, `KeepsRecords`, `BootSettles`, `MarkedStopKeepsPending` |
| `recovery_live` | 1 test, 2 sessions, 2 stops; the page may survive; fair | `CheckpointRecovered`, `CutClosesPending` |
| `store_clients` | 2 clients and the purge thread, 2 reports, 1 export, no `Serial` | `TypeOK`, `PurgesOnlyConfirmed`, `IdsAreKeys` |
| `store_serial` | 1 client and the purge thread, `Serial`, 3 reports, 2 exports, 1 crash; fair | `KeepsArchive`, `LastConfirmedIsPurged` |
| `kiosk_hasty` | 2 tests, 3 reports, one press while a request is under way | `TypeOK`, `RunIsAttended`, `WeighedReportedOnce`, `EvidenceKept`, `CheckpointOutlastsTest`, `PendingHolds` |
| `kiosk_faults` | 1 test, 1 validation, 1 refused request, automatic logout, leaving a running test by navigation | `LoggedOutIsOff` |
| `kiosk_live` | 1 test, 1 validation, requests land in any order; fair | `RunEnds`, `ValidationEnds` |
| `kiosk_left` | 2 tests, automatic logout | violated: `EvidenceKept` |
| `accounts` | 1 account, 4 passwords, a history of 2, 3 changes, 4 wrong passwords, all routes, one request at a time | `AccountsTypeOK`, `MustUntilChosen`, `NoRecentPassword`, `StrikesLock`, `NoSilentUnlock` |
| `approvals` | 2 accounts with every permission but one and the factory user, 1 report, 2 recipes, the export, 2 tokens that live one tick, one press while a request is under way | `TypeOK`, `SignedByAnother`, `SignedAsMeant`, `PowerlessSoon` |

**Bounds of ShakerRun.** Three requests suffice for a run, an abort that is still
sending when the worker ends, and a second run that starts meanwhile. A stop writes
at most two frames (`StopAttempts`; the code writes ten times `MAX_RETRIES`): one
that is lost and one that is acknowledged. The queue holds two lines, so that a full
queue happens. The proofs of section 4 remove these bounds from the safety
properties.

**Bounds of PowerRecovery.** Two stops suffice for a cut and a second one inside the
recovery from it, two tests for a report that awaits approval while another test
runs, two sessions for a login that overtakes a logout and for a flag left behind.
With the page surviving, one test is enough, since a page runs one test at a time
and what can be lost or closed wrongly there is the report of that test.

**Bounds of ReportStore.** Two clients make every pair of loads and writes overlap,
with the purge thread as a third party; a larger export is only a larger set of
numbers. `stage`, in which the client names any numbers, includes every batch an
export can stage. In the serial run three reports and two exports let a number be
used again and one batch replace another.

**Bounds of Kiosk.** Two tests let the answers and polls of one arrive in the next;
three reports are both of them and one that is saved twice. A page that never ends
two validations in one session needs one. `Prompt` says that requests land in the
order of sending and that a program's thread begins before the next one lands: the
page and the server share a machine, and the thread is started by the handler.
`RunIsAttended` fails without it (section 5), `kiosk_live` does without. `MaxHaste`
bounds the presses while a request is under way; in `kiosk_hasty` the user makes one,
in the other runs the user waits, which the pages do not enforce.

**Bounds of Accounts.** One account, since no route touches two; four passwords are
one more than an account of a history of two may not use; three changes fill that
history and push its oldest entry out; four wrong passwords pass the limit of three.
`Threads` has one member: this is an assumption about use, not a lock of the code.
It fits the kiosk's own page, whose user waits for each answer. `bridge.py`, which
the service starts, also serves other machines and handles requests in threads. With
two members the last four properties fail, each in a few steps, as any unlocked
read-modify-write does (section 5).

**Bounds of Approvals.** Two accounts and the factory user are operator, signer and
somebody else; two recipes and an export compete for the one continuation; two
tokens let one be used while another waits or has expired; a tick is the lifetime of
a token, and comes at any moment. The role of the run has no
`validation-report-approve`, so that a report of the other type must be refused.
Accounts and recipes are symmetric, and none of the run's properties is a liveness
property.

**Fairness.** `ShakerRun` assumes that threads are scheduled, that the dimmer's loop
runs, and that a wait for OK ends: the code has a deadline on every one. Nothing
makes a client call, and nothing makes a segment end (`WorkerElapsed` is not fair),
so that `StopEndsProgram` is about the stop and not the deadline. `PowerRecovery`
assumes `WF(Startup)`: systemd restarts the process whenever it is down
(`Restart=always`) and the startup waits for nobody; it assumes nothing of the user
or of the power. `ReportStore` assumes that handlers run to their end, that days
pass, and that the purge thread comes round (every minute in the code). The last is
strong fairness because `Serial` makes the purge wait for a gap between requests,
which in the code it does not. `Kiosk` assumes that the page gets to the oldest
answer, that its intervals fire while they are set, that the server serves the oldest
request and that a program ends by its own time; strong fairness, because a
navigation in the middle of a handler disables everything else for a moment. It asks
nothing of the user.

**Deadlock** is checked for `ShakerRun`, where quiet states have a self-loop of
their own (`Terminated`). It is off in the others, whose behaviours end when the
bounds on tests, stops or exports are used up.

## 4. Proofs

The `_proofs` modules are checked by `tlapm` with Z3, Zenon and LS4. Every invariant
below was checked by TLC on the instances of section 3 before it was proved.

### ShakerRun

For any number of requests, any programs, attempts and capacity, any fault switches:

- `TypeCorrect`: `Spec => []TypeOK`
- `StatusCurrent`: `Spec => []StatusResultIsCurrent`
- `AbortReported`: `Spec => []AbortIsReported`
- `FullRanFully`: `Spec => []FullResultRanFully`
- `Implements`: `Spec => KeepsContract`, that is, every step of the runner is a step
  of `ProgramContract` or a stutter

With the assumption `Reliable` (a timely dimmer, an open port, no restart, no direct
start, finitely many requests), which is the situation of `runner_live`:

- `OwnOk`: `Spec => []NoStaleOk`
- `SettlesOff`: `Spec => []SettledOff`
- `LiveEnds`: `Spec => []LiveEndsWithWorker`

None of these properties is inductive. `RunInv` adds to the types: a thread is in
`cmd_shaker_stop` exactly when its `stage` is not idle, and has frames left while it
is about to write (`StopInv`); the worker's place agrees with its segment and with
the number of segments that ran out (`SegInv`); the result belongs to the program
started last or there is none, and `complete` is set only when there is one
(`ResultInv`); a program for which abort was called and which has no result yet
still has its abort event set, which is where the lock-free `abort_program` is
harmless only because `start_program` is refused while a worker lives (`AbortInv`);
and a result that is neither aborted nor early agrees with the segment counter
(`DoneInv`). `ReliableInv` adds a count: the OKs in the queue plus the answer under
way are at most the number of threads that wait for one (`OkBound`), and while the
load is on some thread has yet to switch it off (`LoadInv`). TLC checked each of these
conjuncts before it was proved. `LiveInv` extends `LiveEndsWithWorker` to the places
between the last publication and the end of the thread.

### PowerRecovery

For any number of tests, sessions and stops, and whether or not the page stays loaded
over a restart of the service:

- `TypeCorrect`: `Spec => []TypeOK`
- `StartupSettles`: `Spec => BootSettles`
- `CleanStopKeepsPending`: `Spec => MarkedStopKeepsPending`
- `Implements`: `Spec => KeepsRecords`, the refinement of `TestRecord`

The power may fail in any state, so that what the next startup finds is a fact about
all of them. `RecoveryInv` adds to the types: tests are numbered in the order they
begin, so that a late checkpoint cannot be that of a later test (`NumberInv`); no
request is under way while the process is not in service (`ServiceInv`); how far the
startup has come with what it found (`BootInv`), of which `BootSettles` is the last
step; the flag of a clean stop is remembered until the startup has looked at it
(`MarkInv`). The heart is `TraceInv`: while the process is in service, the only trace
of a test is never in the checkpoint, unless it is the test of the page, which will
still save its report; and neither a PUT nor a DELETE that is late can take that trace
away. A step of `TestRecord` that forgets a test would need the checkpoint of an
unreported test to go, and the startup removes it only in the state `clear`, where
`BootInv` has its report saved.

### ReportStore

For any finite set of clients, any calls, any bounds on reports, exports and process
kills, and whether requests overlap or not (nothing is assumed of `Serial`):

- `TypeCorrect`: `Spec => []TypeOK`
- `UniqueNumbers`: `Spec => []IdsAreKeys`
- `PurgesConfirmed`: `Spec => []PurgesOnlyConfirmed`

The type of `reports` says more than it seems: a number is at most `MaxReports`, the
number of reports created. It is given out as the largest number in a copy plus one,
and the copy may be newer than other threads' copies, so that types alone are not
inductive. `CountInv` adds that any number held anywhere (in the file, in a copy, in
a report still to be saved), plus the number of reports that are created and not
numbered yet, is at most the number created: numbering a report takes one off the
second summand for the one it may add to the first. `PlaceInv` says which locals a
thread holds at each place.

`KeyInv` extends `IdsAreKeys` to every copy that will be written back: a new number is
larger than those of the copy it came from, `Saved` replaces by number, and deleting
keeps keys; so a stale copy loses reports (section 5) but never doubles a number.

For the purge, `BatchInv` says that every batch, in the file or in a copy however
old, is that of the export it names and, when scheduled, carries the stamp of its own
confirmation. It survives stale writes because exports and confirmations are only
ever added (`Grows`, `StaysRight`). `PurgeInv` says that a purge under way is of a
batch that was due and deletes only its numbers. Together they give
`PurgesOnlyConfirmed`, which is the reason why the confirmed, unpurged batches that
the code forgets (section 5) are kept too long and never deleted too soon.

With the assumption `Serial` (a request starts, and the purge takes up a batch, when no
other is under way), which is the situation of `store_serial`, for any finite set of
clients and any bounds, the process being killed between any two steps of a handler:

- `ArchiveKept`: `Spec => KeepsArchive`, that is, every step of the store is a step of
  `ReportArchive` or a stutter

`SerialInv` says why nothing is stale then. At most one thread is in the middle of a
handler (`OneInv`), and the copy it will write back is the file as it is (`CurrentOf`).
The report it is creating has contents that no stored report has (`FreshOf`); the one
it will save again is stored, or is a stored pending one with the approval added
(`SavingOf`), so that an approval is never taken back; and what it will remove has been
named in a confirmation or by the retention, or is a single report that is pending
(`RemovalOf`). Each write is then one step of the archive (`NewWritten`,
`PutWritten`, `Removed`), which needs `KeyInv` to say that replacing and removing
by number concerns one report. A kill leaves the files alone and forgets the rest.
Without `Serial` the property is false (section 5).

### Accounts

For any passwords, members, roles, routes, history limit and bounds, and any number
of requests at once:

- `TypeCorrect`: `AccountsSpec => []AccountsTypeOK`, with the bound on the history

With `Serial` (at most one thread), which is the situation of the `accounts` run:

- `CommitmentHolds`: `AccountsSpec => []MustUntilChosen`
- `PasswordsDiffer`: `AccountsSpec => NoRecentPassword`
- `StrikesAreKept`: `AccountsSpec => StrikesLock`
- `LocksHold`: `AccountsSpec => NoSilentUnlock`

`TypeInv` adds to the types that a request which sets a password has one and that a
copy is held only while an update is under way. `SerialInv` adds two things. `Exact`:
a copy agrees with the stored account in all that the properties look at (an edit's
copy is older in its other fields), a password that is about to be set was compared
with that copy, and `clear` comes only after `set`, so that a route never lifts the
duty to change without a change. `Kept`: the account agrees with the histories, its
count with the strikes, its password and its former passwords with `used` as far
back as the limit reaches. `SavedAs` says what any save does to the account,
and each of the four theorems reads what it needs from it. The lemma
`PushedHistory` (what a change makes of the former passwords) is proved for a
sequence of any length.

### Approvals

For any accounts, roles, reports, recipes, number of tokens and lifetime. With any
user, however hasty:

- `TypeCorrect`: `Spec => []TypeOK`
- `SignsNoLonger`: `Spec => PowerlessSoon`

With `Patient` (`MaxHaste <= 1`: at most one press while a request is under way),
which is the situation of the `approvals` run:

- `SignaturesMeant`: `Spec => []SignedAsMeant`
- `OthersSign`: `Spec => []SignedByAnother`

Both of these are false with `MaxHaste = 2` (section 5). The module assumes that
bounds are natural numbers (`BoundAssumption`) and that the mark for "no deed" is none
(`DeedAssumption`).

`LastingInv` is for any user: the screen is for recipes and exports only, and a token
plus the time its owner has been inactive never exceed the lifetime (`LifeInv`), which
is the reason why a token outlives its owner's account by no more than that, although
nobody asks for the account again. `PatientInv` is for a patient one: before the one
hasty press there is one request, and screen and continuation are those it was sent
from; after it, the continuation is either still that deed or gone (`HasteInv`). So an
answer cannot meet another deed, and a token that is sent along is sent with the deed
it was asked for (`MeantInv`). `SignerInv` says that the factory session is not the one
on whose page a report was signed: one press is a logout, and a login is a second.

### Kiosk

For any number of tests, validations, reports, failures and presses, in whatever order
requests land, with or without automatic logout and the ways to leave a running test
(`Kiosk_proofs`):

- `TypeCorrect`: `Spec => []TypeOK`
- `PendingHoldsUser`: `Spec => PendingHolds`

`KioskInv` says in `Fit` what a request of each kind is about and who waits for its
answer, so that an answer always finds a continuation it fits; a preview under way is
of a report that exists, because reports are never removed here. The other parts are
the types of server, page and shell. One lemma per handler says which fields it leaves
alone and which requests it may send, and the theorems read what they need from those.

As long as the user has waited for the answers to each press before the next
(`haste = 0`, whatever `MaxHaste` allows) and with `OneFails` (requests land in the
order of sending, and at most one is refused), for any number of tests, validations and
reports and with every way to leave a page (`KioskWaiting_proofs`):

- `LoggedOutSafe`: `Spec => [](haste = 0 => LoggedOutIsOff)`
- `LoggedOutAlways`: `Spec => []LoggedOutIsOff` when `MaxHaste = 0`, the situation of
  the run `kiosk_faults`

Nothing on the server ends a validation; five handlers of the page switch it off, none
of which looks at the answer. `LoadInv` says that the load of a validation is known to
the page, or about to be switched off by a stop under way, or just switched on by a
start whose answer is under way, or else a stop has been refused, after which no other
request is; that the ensure-stopped of a logout is not overtaken by a stop sent after
it; and that an ensure-stopped that has been answered has left the load off. It rests
on `WaitInv`, which is about the page alone: an active validation is on its page and a
polled test on its own (`PageInv`), a question is not lost without an answer
(`AskInv`), nothing is saved before a test is over (`FreshInv`), the first wizard is
open before the test runs (`BeforeInv`), a validation that is being started keeps the
user where he is (`StartInv`), and a logout has no validation behind it (`OutInv`).
`WaitInv` needs no more than `haste = 0`. Each hypothesis is needed: TLC violates
`LoggedOutIsOff` with `KioskFaults.cfg` and `MaxFails = 2`, or `Prompt = FALSE`, or
`MaxHaste = 1`.

As long as the user has waited and with `Prompt`, for any number of tests, validations
and reports and with every way to leave a page (`KioskRun_proofs`):

- `RunAttended`: `Spec => [](haste = 0 => RunIsAttended)`

The property itself is about the time before a request is refused. `WatchInv` speaks of
a program that runs and has not been told to end (`Live`) and of a request for one
(`Asked`). Either has its test polled on the page of the user (`Watched`); the request
is the oldest one under way, so that nothing sent after it has landed; and no call
under way ends the test on the page or belongs to a logout (`Ends`). So it is the
program itself, or a press that tells it to end, that comes before the page lets go of
the test. That a poll by an earlier test's live state does not end the new one is
`ResetInv`: a thread that has begun has reset `programDone`, and with `Prompt` it has
begun before a poll lands. Where the page is while it polls is `WaitInv` again. TLC
violates `RunIsAttended` without `Prompt` (section 5).

As long as the user has waited and has opened no validation, in whatever order requests
land and whichever are refused (`KioskRun_proofs`, second part):

- `ReportedOnce`: `Spec => [](val.run = None => WeighedReportedOnce)`
- `ReportedOnceAlways`: `Spec => []WeighedReportedOnce` when `MaxValidations = 0`, the
  situation of the run `kiosk_hasty`

A poll, the complete button, a stop, a leave and a logout may all end one test, each by
an answer that comes when it comes. `SingleInv` says that once the report is saved
(`Filed`) or on its way (`Filing`) nothing is left that could end the test again: the
page is over with it, no wizard, choice or question is open (`PageShut`), and no call
under way is an abort or waited for by the complete button (`CallsShut`). The invariant
also says that the two exclude each other and that there is one report of either kind
(`SoleInv`); that no report has a number still to come, so that the next recipe starts
clean (`NumberInv`); and that the abort of a logout, after which the report is filed
without asking, is under way alone, with at most polls and saved checkpoints
(`ByeInv`). `BareInv` keeps the handlers of the validation out. The hypothesis is
needed: the logout from a validation goes on with the test page and files an earlier
test again (section 5). So is `haste`.

As long as the user has waited, and with `Remains` (the user never leaves a running test
for another page, `~Leaves`, and there is no automatic logout, `~AutoLogout`), for any
number of tests, validations and reports, in whatever order requests land and whichever
are refused (`KioskRun_proofs`, third part):

- `EvidenceIsKept`: `Spec => [](haste = 0 => EvidenceKept)`
- `EvidenceIsKeptAlways`: `Spec => []EvidenceKept` when `MaxHaste = 0`
- `CheckpointOutlasts`: no step taken while `haste = 0` removes the checkpoint of a
  started run whose report is neither saved nor refused
- `CheckpointOutlastsAlways`: `Spec => CheckpointOutlastsTest` when `MaxHaste = 0`

`KeptInv` calls a run `Settled` when its report is saved or was refused. The core is
`PastInv`: a started run is settled or is the last one of its page. It holds because a
run that is started, or asked for, and not yet settled (`TestOpen`, `ValOpen`) is
in one of a few situations (`TestBody`, `ValBody`): its page is the one on the screen,
shows it as running, waits for weights or a choice, or has posted its report; no
request is under way that removes the checkpoint or leads to one that does
(`Clears`); and no pending report holds the screen. The other parts are what each
handler needs for that: a program is asked for once, for the test of the page, and a
validation only when the one before is settled (`RunsInv`, `ValRunsInv`); a report is
filed of the run that its page shows (`SubjectInv`); a stop with weighed sieves waits
for its choice on the page (`HoldInv`); and a validation starts with nothing of an
earlier one under way (`EarlyInv`). The proof rests on `WaitInv`. TLC checked `KeptInv` as an invariant
under `haste = 0` on six instances with one or two tests, none to two validations,
refusals and both values of `Prompt`, up to five million states. `Remains` is needed:
section 5 has the violation by `Leaves`, and the run `kiosk_left` the one by the
automatic logout.

### Only model-checked

Liveness under fairness (`StopEndsProgram`, `StopEndsLoad`, `CheckpointRecovered`,
`CutClosesPending`, `LastConfirmedIsPurged`, `RunEnds`, `ValidationEnds`) is beyond
this prover. `KeepsArchive` is false without `Serial`, so that its theorem cannot do
without that assumption.

`EvidenceKept`, `CheckpointOutlastsTest` and `RunIsAttended` of `Kiosk` are proved for
a user who waits; for one hasty press they are checked by TLC only, in `kiosk_hasty`.
They hold for one and not for two or three, so that an invariant would have to
count what one press can do while each request is under way.

## 5. Where the code does not keep its word

The run `kiosk_left` shows one disagreement, and `PROJECT.json` quotes the lines:
`isAutoLogoutRunBlocked` (`script.js:2882`) does not see the open "Test Aborted"
choice, so that a logout for inactivity drops the aborted test without the report
that `script.js:240` promises.

The following were found with the same models and have no run of their own. A
definition in the last column is in the named module; checked with the constants
given, TLC shows a trace.

| what happens | against | definition and constants |
|---|---|---|
| Login and logout send stop frames and leave the program thread alone, which switches the load on again with its next run segment (`hardware_service.py:1272`). | `app.py:5477` "Send #00C and #00I so any background shaker run is stopped" | `EnsureStopsRun` of `MCShakerRun`: 2 requests, `Api` run and ensure; otherwise as `ShakerRunLive.cfg` |
| An abort that still repeats its stop frame switches off the load of the next program (`shaker_run_service.py:239`). | `shaker_firmware.txt:42` | `RunSegmentDrivesLoad` of `MCShakerRun`: 3 requests, `Api` run and abort |
| A logout leaves the clean-stop flag behind; a power cut in a later session of the same process is not audited (`app.py:3465`). | `app.py:870` | `OpenSessionAudited` of `PowerRecovery`: `Spec`, 1 test, 2 sessions, 1 stop, `PageSurvives` FALSE |
| A cut between the saving of a report and the removal of its checkpoint gives one test two reports (`shaker_ui.js:1327`). | `app.py:812` | `OneReportPerTest` of `PowerRecovery`: 1 test, 1 session, 1 stop |
| A second confirmed export replaces one that waits for its day: its reports are never removed (`data_service.py:1680`). | `script.js:3770` | `ConfirmedIsPurged` of `MCReportStore`: `FairSpec`, `Serial`, 2 reports, 2 exports |
| The purge thread has loaded `reports.json` to delete a report; a request saves a new one; the purge writes its copy back and the new report is gone (`data_service.py:579`). | `data_service.py:1687` "delete only its report_ids" | `DeletesOnlyItsIds` of `MCReportStore`: `Spec`, not `Serial`, 1 client that creates, approves, exports and confirms, 2 reports, 1 export |
| The purge has loaded the schedule; an export is staged; the purge writes its copy back without the batch it has purged and without the staged one (`data_service.py:1704`), whose confirmation then fails. | `data_service.py:1638` "awaiting operator verification" | `StagedSurvivesPurge` of `MCReportStore`: as above, 2 exports |
| A report is exported and deleted, the next report gets its number (`data_service.py:554`), the export is confirmed, and a day later the purge deletes the new report, which nobody has exported. Nothing overlaps here. | `script.js:3780` "No data will be erased until you confirm a successful export" | `OnlyExportedErased` of `MCReportStore`: `Spec`, `Serial`, 1 client that creates, approves, deletes, exports and confirms, 2 reports, 1 export |

Properties of `Kiosk`, `Accounts` and `Approvals` hold in their runs because of a
bound that this table lifts:

| lifted bound | fails | what happens |
|---|---|---|
| `Prompt` FALSE, 2 tests | `RunIsAttended` | The first poll of a test reads `programDone` of the last one and finishes the test while its program runs (`shaker_ui.js:859`). |
| `Leaves` TRUE, 2 tests | `EvidenceKept`, `CheckpointOutlastsTest` | Leaving a running test and choosing "Weigh" opens the wizard on the hidden page; another recipe then takes its place. |
| validations or haste at logout | `WeighedReportedOnce` | The logout of a validation goes on with the test page: an earlier test that is done gets an additional Aborted report. |
| `sr.analysis` dropped | `WeighedReportedOnce` | Without sieve analysis complete and the poll both finish the run and both save it (`shaker_ui.js:1396`); abort and the poll save one Completed and one Aborted report. |
| `unsaved` dropped | `CheckpointOutlastsTest` | A logout during a validation deletes the checkpoint although the report was refused (`shaker_ui.js:1924`); so does the approval of another report. |
| `MaxFails` 2, or `Prompt` FALSE, or `MaxHaste` 1 | `LoggedOutIsOff` | The ensure-stopped of a logout is refused, and the stop before it was refused too, or is still under way, or was never sent because the user logged out before the start was answered. |
| `MaxHaste` 3 | `RunIsAttended` | The page can be used while a logout is under way; a test started meanwhile runs under the login screen. |
| `MaxHaste` 2 | `SignedByAnother` | A logout and a login of the factory user before the verification is answered: the operator's own signature passes under the factory role. |
| `MaxHaste` 2 | `SignedAsMeant` | A second deed is asked for before the first verification is answered: its signature goes to the second (`script.js:704`). |
| `Serial` FALSE, 1 client | `KeepsArchive` | A request and the purge thread write back `reports.json` as they read it before the other's write (`data_service.py:579`). |
| 2 threads | the four properties of `Accounts` beyond types | An update saves the copy it read over another's save (`data_service.py:1150-1257`). |

Read from the code on the way, without a property: the OK of a notice that has
covered a question answers it with yes (`script.js:385-456`); a locked member who
must reset gets a session, since neither reset asks for the status; a fingerprint
login does not ask whether the password has expired; wrong passwords in a
verification are not counted; the approval of a recipe asks for no session; the
token of an export is obtained before the USB drive is looked for and may have
expired when it is used.

## 6. Not modelled, and why

Measured by lines most of the repository is not modelled, and cannot be in a way
that says something:

- `libs/sample_reference/` (more than 20 000 lines of JavaScript) is an earlier
  product's front end. No page loads it. `libs/`, `libss/` and `export/` are else
  samples, vendored code and data.
- `script.js` has large parts that later definitions of the same names replace, and
  is for the rest mostly drawing: tables, forms, charts, print layouts. What of it
  decides something (guards of navigation, the dialog, the preview's hold, logout,
  verification, profile edit) is in `Kiosk`, `Accounts` and `Approvals`.
- Formatting, rendering, device drivers and thin wrappers (printing, PDF, USB, scale,
  fingerprint sensor, clock, network, keyboard, bridge) keep no state that the
  properties depend on. The friability and scale commands of `hardware_service.py`
  belong to the earlier product and are not sent by the pages.
- `rbac_service.py` and `rbac.js` are tables; the models take a role to be any set of
  permissions. The sieve arithmetic of `calculation_service.py` is a formula per sieve
  in floating point.
- Recipes and the audit log are files that are read, altered and written in the way
  `ReportStore` models for reports; a model of each would repeat it.
- The desktop API is a second front end to the same stores for other machines, with
  tokens of its own. `app.py` started by itself listens on the loopback address only
  (`FLASK_HOST`), `bridge.py` on all of them: with desktop clients at work, one
  request at a time is no longer what happens, with the consequences of section 5.

Within the modelled parts, a single file write is whole. `_save_json_file` truncates
and writes in place, so that a cut inside a write can leave an empty file, which the
loaders read as an empty list; the models say what holds apart from that.
