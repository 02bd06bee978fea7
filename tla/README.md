# TLA+ models of ArkScope

ArkScope is a single-user investment workbench: a FastAPI *sidecar* process owns local
SQLite databases and background collection, a web client and a desktop shell talk to it,
a `daily_update` CLI and a browser extension's native host are further processes on the
same files. This directory holds TLA+ modules for the parts of it where the order of steps
decides correctness, TLC configurations for small instances, and TLAPS proofs for every
value of the constants.

Source paths below are relative to `src/src/` unless they start with `apps/`, `docs/` or
`tests/`.

## 1. Inventory

| component | state it keeps | operations | hard behaviour |
|---|---|---|---|
| **AI Research runs** (`research_runs.py`, `research_run_manager.py`, `research_threads.py`, `api/routes/research.py`, `api/routes/query.py`, `api/dependencies.py`) | rows of threads, messages, runs and events; the store's failure notes; `_TASKS` | create, schedule, claim, frame, finish, fail, cancel, archive, delete, direct stream, reconcile at boot | event loop against worker threads, crash between commits, late outcomes, split commits of older versions |
| **Research replay client** (`apps/arkscope-web/src/Research.tsx`, `researchRunReplay.ts`) | cursor, shown frames | attach, poll a page, end, fail | paging while the run ends, is deleted or interrupted |
| **Data-source scheduler** (`service/data_scheduler.py`, `scheduler_state.py`, `ibkr_gateway_lock.py`, `macro_calendar/write_lock.py`, `daily_update.py`, `api/routes/schedule.py`) | thread locks, flocks, macro lease, `scheduler_state` rows, `_LAST_ATTEMPT` | tick, Run now, CLI run, Gateway session, boot | two processes, three layers of locks, timeouts, best-effort writes, process death |
| **Lifecycle investigation** (`lifecycle_investigation/`) | leased jobs, steps, reserved model calls | start, heartbeat, reserve, bind, finish, cancel, close, recover | lease expiry against a late finish, a call whose outcome is never heard |
| **SEC capture store** (`sec_research/`) | objects, reservations, orphans, files, operation lock, writer lease | acquire, recover, put, read, cite, preview and apply a cleanup, a reset or an uninstall | crash between stage, publish and register; directory entries that are not yet durable; byte budget |
| **Portfolio capture** (`portfolio_capture*.py`, `portfolio_observations.py`, `portfolio_ibkr.py`) | capture runs, canonical positions, account settings, a thread lock and a file lock | trigger, execute, commit, copy, review, reconcile at startup | lock hand-over to a thread, failure after commit, two processes |
| **Ticker identity transition** (`ticker_identity_*.py`, `active_universe.py`) | previews, approvals, snapshots of rows, links; one profile database | preview, approve, cancel, execute, reverse, read the links | a preview read in one transaction and applied in another while the user edits |
| **Seeking Alpha body recovery** (`sa/article_body_recovery_jobs.py`, `sa/company_collector.py`) | a job and its items, one page reservation with its blocks, the article store | start, begin, admit, report, save, finish, recover, pause, cancel, checkpoint | two browsers, lost answers, stale revisions, a save over two databases |
| **Security lifecycle automation** (`service/security_lifecycle_automation_*.py`, `security_lifecycle_*.py`) | evidence and decisions | scan, decide, review | long pipeline over provider data |
| telemetry, card runs, calibration, capture stores of Seeking Alpha, news and macro stores, credentials and OAuth, routing, agents, tools, monitor, desktop shell, extension, provider clients | see `PROJECT.json` | | mostly single transactions, pure reads or network I/O |

How they interact. HTTP routes are either `async` (on the event loop; `create_research_run`
and `/query/stream`) or plain functions (on worker threads, at any moment). All research
state goes through SQLite transactions that begin with `BEGIN IMMEDIATE`. The scheduler's
supervisor starts one thread per fired source; those threads, the routes and the CLI meet
only at locks and at `scheduler_state`. IBKR collections run in a child process, started by
the thread that holds the Gateway lock; portfolio captures meet them at the same Gateway
lock. Research runs read SEC evidence and save citations of it in the profile database,
which a cleanup of the capture store consults. The browser extension reaches the recovery
journal through a native host, one process per call. The desktop shell starts and kills the
sidecar.

What makes each correct:

* *Research*: one active run per thread; a terminal status, its event and its transcript
  turn are visible together or not at all; nothing changes a finished run; no answer is
  lost or invented by a restart; the prompt contains what was settled; every claimed run
  ends.
* *Replay*: a client that stops polling has shown every frame and the run's own outcome.
* *Scheduler*: a source, the Gateway and the macro database each have one user at a time;
  no path leaks a lock; a row says `running` only for a reason; the saved scope is not
  stale when it is used; each due source gets its turn.
* *Investigation*: an outcome is decided once; a model call that was sent and not answered
  is never reported as anything but unknown; a recorded cancellation is honoured and nothing
  else looks like one; a ticker has one job at a time.
* *SEC captures*: the bytes on disk stay covered by charges and below the budget; a
  registered or cited body is there and whole after errors, deaths and power losses.
* *Portfolio capture*: locks are handed over and released exactly once; a live run is not
  declared interrupted; no account goes back to an older capture.
* *Identity transitions*: what is applied is what was approved; reversing everything
  restores the profile; the links stay readable.
* *Body recovery*: the job, the reservation and the store agree; a stored body is counted
  as saved; a cancelled job opens no further page.

`PROJECT.json` lists the hazards at their lines, with the properties that cover them.

## 2. Plan

Done: `ThreadLedger`, `ResearchRuns`, `ResearchReplay`, `DataScheduler`,
`InvestigationLedger`, `InvestigationJobs`, `SecCaptures`, `PortfolioCapture`,
`IdentityTransitions`, `BodyRecovery`, and proofs about each component: every invariant and
every action property that a passing run checks, and both refinements, are theorems
(section 6).

Next, in this order:

1. An abstract specification of `BodyRecovery` (an article is pending, taken, and then saved,
   failed or cancelled once) and of `SecCaptures` (a body is registered, cited, retired), with
   the refinements; the invariants they need are proved.
2. The run bookkeeping of the lifecycle automation, and the scheduled SEC refresh.
3. The extension's references and alarms (`article_body_recovery.js`) as the detailed
   environment of `BodyRecovery`.

## 3. The modules

Each component has a module; its `MC...` module only names model values and symmetries.

### ThreadLedger, ResearchRuns

`ThreadLedger` is the abstract promise: a thread has one admission slot and a ledger of
results; the step that empties the slot is the step that publishes one result.
`ResearchRuns` is the code. Its refinement mapping takes the active run of a thread for the
slot and the linked turns of terminal runs for the ledger; `LedgerSpec` states it.

| state | in the code |
|---|---|
| `thread`, `status`, `home`, `events`, `messages` | the four research tables; `"unborn"`/`"deleted"` mean no row |
| `verified` | legacy runs whose message and event carry equal receipts (`_verified_legacy_completion`) |
| `cached`, `opener` | `lru_cache` of `get_run_store` and the requests inside its constructor |
| `creating` | the `create_research_run` call on the event loop |
| `task`, `via`, `cancelReq` | `_TASKS`, the store a task was given, `task.cancel()` pending |
| `cancelling`, `notes`, `direct` | cancel routes in progress, `_persistence_failures`, direct streams |
| `asked`, `context`, `born`, `unread` | history variables for the properties |

One transaction is one action. A terminal event is represented by the status it announces,
a message by its role, its run and a kind: an answer, an error, an empty answer (stored, but
never part of a prompt), or an answer that a retry takes for a failure (`exhausted`). The last
is the tool-budget sentinel, which only the direct stream stores, or any text that quotes the
provider's turn limit (`_is_retryable_failed_tail`, `research_threads.py:75-81`): the executor
turns only the exact sentinel into an error, so an answer of a *succeeded* run may have this
kind, and a question sent as a retry right after it gets a context without it.
`ContextSettled` says exactly that. Transactions used by several callers (`Publish`, `TerminalizeError`,
`TerminalizeSuccess`, `Reconcile`) are operators. `Init` covers a fresh database and every
combination of event and message that a version with separate commits may have left for an
active run. Faults are transactions, schedulings or reads that raise; `Crash` keeps only the
database.

### ResearchReplay

Adds the client's poll loop to every step of `ResearchRuns`: `GET .../events` returns the
status and one page from a single read transaction, and the loop ends on a terminal status
with no further page.

### DataScheduler

A *slot* is a thread executing `run_source`, or another consumer inside
`ibkr_gateway_lock`. Its `pc` walks the function: `enter`, `flock`, `macro`, `gate`,
`gateThread`, `gateFile`, `attempt`, `collect`, `record`, `release`. The read of the saved
continuation at the gate may fail, and then counts as nothing saved (`ReadContinuation`). Each lock operation and
each database commit is one step, so that every interleaving of the two processes is
explored. `Tick` is `tick_once`: due sources in dictionary order, one market and one macro
writer per pass. What a provider returns is a choice among the outcomes the code can derive
for that source and route (`Outcomes`, `Continuation`). `Die` is the death of a process:
its locks go, an IBKR worker process stays (`orphans`). `abandoned` is a history variable:
sources whose last run was killed or could not record its end.

The timeouts of the Gateway locks are an alternative whenever the lock is busy; the time
itself is not modelled. `age` counts ticks since the last attempt, up to `Interval`.

### InvestigationLedger, InvestigationJobs

`InvestigationLedger` is what a reader of the journal is promised: a job is submitted once,
its outcome is decided once, and a job that ends with a model call outstanding ends as
`unknown`. `InvestigationJobs` is the code (`store.py`, `controller.py`); `LedgerSpec` maps
what `project_job` shows to the outcome and the reserved calls to the outstanding ones.

| state | in the code |
|---|---|
| `status`, `cancelRequested`, `calls`, `concluded` | the journal: a job's row, its cancel flag, its model calls and whether the bound result concludes |
| `life` | a controller: open, closed, or its process dead |
| `pc`, `host`, `call` | the worker thread of a job, its controller and the call in its hands |
| `stop`, `failure`, `heart` | the worker's stop event and failure flag, its lease thread |
| `asked`, `sent` | history: who asked for a cancellation, which calls left the process |

A lease is only fresh (`running`) or past (`expired`); the clock may pass it at any moment,
because a process may be suspended. One action is one transaction, one thread step, or one
fault. What the agent concludes and how a provider answers are choices.

### SecCaptures

The capture directory, the accounting tables and the two locks of `captures.py`,
`capture_lock.py`, `maintenance.py` and `schema_admin.py`. Every action is one system call or
one transaction. `installed` says whether the accounting tables exist: an acquisition installs
them (`Install`), an uninstall drops them with the files still on disk (`UninstallSchema`; a
reset charges those files as orphans instead). `staged`/`stagedD` and `published`/`publishedD` are the visible and the
durable form of each directory entry; `bytes` is the content of each inode, which is named
after the staging file it was created as. `objects`, `orphans` and `reservations` are the
accounting tables, and a `SUM(size_bytes)` over them is the number of byte positions of their
bodies (`Positions`, `Total`), which makes totals cardinalities; `rows` and `cited` are what publications and saved answers refer to;
`shared` and `lease` are the holders of the operation lock and of the writer lease; `acq`,
`finding`, `preview` and `admin` say where each writer, run and the operator is. An error, a
death (`Fail`, `AdminFails`) or a `PowerLoss` may follow any step; a power loss keeps, for each entry that was
not yet synchronised, either of its two forms.

### PortfolioCapture

`trigger`, the worker's `_execute`, the copy to the canonical tables, the user's review and
the startup reconciliation, in several processes over one profile database. `runs`, `last`,
`mode`, `archived` and `canon` are the tables; `boot`, `caller` and `worker` are the program
counters of each process's startup, each calling thread and each worker thread; `threadLock`
and `fileLock` are `_capture_lock` and the flock. A canonical position is represented by the
run it was taken from, so that "older" is a comparison of run ids. The Gateway's lock is
free or busy as the environment decides.

### IdentityTransitions

`profile` holds the rows of the lists and of `ticker_meta`, `held` the open positions. A
plan has a `status`, the `authority` and the preview it was `approved` with, and the rows it
replaced and wrote (`before`, `after`). An execution is two steps, as in the code: `job`
records what the executor has read, and the transaction that applies it compares again.
A digest is modelled by what it is taken of. Links of applied continuations are derived from
the ledger and followed as `active_universe.py` follows them. `assessed` says which plans
still have a current assessment; `origin` is a history variable for `RoundTrip`.

### BodyRecovery

The native side of article-body recovery. `owner`, `gen`, `active`, `blocks` and `task` are
the collector ledger (which browser collects, the one reserved task, what keeps pages from
being opened); `job` is the journal with its items and the bodies it was asked to replace;
`body` is the article store in another database. Each native call is one transaction; a save
is two (`saving`: the reservation was read, the body is compared and stored next). Refused
calls change nothing and have no action. The extension is external and calls in any order,
with old revisions and repeated requests included. A manifest is any set of articles without
a body. A task of no job stands for company financials, which share the reservation; its
result is not told apart, because the journal never reads it.

The model allows more than the code here: `paused` stands for a pause of the site or of Alpha
Picks alone, so a financials task may begin and open a page under it; such a task may begin
in the page gap, as only a capture of the current tab may; and page budgets never refuse.
What it leaves out only repeats: another path changes a body only once a job lists the
article (before that, any manifest may be met anyway), and later pages of a task change
nothing.

## 4. Runs

| run | what it shows |
|---|---|
| `research_core` | two runs on one thread over two lifetimes, two failing writes and a failing read of the executor anywhere: `OneActiveRun`, `ActiveThreadIsCurrent`, `TranscriptPaired`, `TerminalIsFinal`, and under fairness `ClaimedRunsFinish` |
| `research_boot` | one legacy run in every state an older version may have left, two requests racing to open the store, a new run and a direct stream on the same thread, a failing read in the executor: `AtomicPublication`, `SuccessIsAnswered`, `ContextSettled`, `NoOrphanTurns` and the refinement `LedgerSpec` |
| `research_replay` | a client attached twice, pages of two events, crash, deletion and a failing write: `ReplayComplete` |
| `scheduler_locks` | both IBKR sources, two macro sources, a Gateway session, two sidecar threads and the CLI under every write mode; restart, CLI death or a failing state write: `SourceExclusive`, `GatewayExclusive`, `MacroExclusive`, `LocksOwned`, `RunningIsExplained` |
| `scheduler_live` | two market writers, one of them a news source that leaves continuations, manual and CLI calls: one failing read or write of the state: `SnapshotFresh`, and under fairness `DueIsAttempted` |
| `investigation_jobs` | two requests for one ticker, two controllers, expiring leases, one failing journal operation: `NoLostCall`, `CancelHonoured`, `CancelledWasAsked`, `OneJobPerTicker` and the refinement `LedgerSpec` |
| `sec_captures` | two bodies of different size, two writers, a run that cites, an operator who cleans up, resets or uninstalls; errors, deaths and power losses: `ChargedUnderLease`, `WithinBudget`, `RegisteredReadable`, `CitedResolve`, `CoverKept` |
| `portfolio_capture` | two processes, a caller in each, one account, two failing writes and a crash: `LocksOwned`, `LiveRunIsRunning`, `StrandedByFailure`, `CaptureNeverOlder`, `ReviewNeverOlder`, and under fairness `LocksReleased` |
| `identity_transitions` | chained and merging renames and a delisting of three tickers, two executors, an edit by the user: `RoundTrip`, `AppliedAsApproved` |
| `identity_links` (violation) | `UniverseReadable` |
| `body_recovery` | a job of two articles, two browsers, two tasks, and one change of browser or one body changed by another path: `LedgersAgree`, `SavesCounted`, `CancelFinal` |
| `body_recovery_retry` (violation) | `FailedPageRecorded` |

Bounds.

* *Research.* Two runs on one thread are what admission, retry and history need (the pair of
  an earlier and a later run). Two lifetimes give one crash at any point and one
  reconciliation after it. Two failing writes are needed in `research_core`, because the
  hand-off that compensates a failed scheduling may fail too; elsewhere one fault at any
  step covers each error path. One read of the executor may fail in `research_core` and
  `research_boot`.
* *Scheduler.* Two sidecar threads and one CLI thread are the smallest set in which the
  thread layer and the file layer of a lock can both be contended. `MaxManual` bounds calls
  that the user or the CLI starts, `Interval` is in ticks.
* *Investigation.* Two jobs of one ticker contend for admission, two controllers are an owner
  and the one that recovers its job, one call per job is enough to be lost, and one fault
  may hit any journal operation of either.
* *SEC captures.* Sizes 1 and 2 with a budget of 3 make a charge that is forgotten, and one
  that is counted twice, both visible. Staging names are reused once nothing mentions them,
  so the number of operations is unbounded. This run checks for deadlock.
* *Portfolio.* Two runs are an older and a newer capture; two processes are the one that
  boots and the one that captures; the second fault is for the write of the failed state
  after a first failure.
* *Identity.* Three tickers allow a chain, a merge and a delisting in the middle; two of the
  four plans are approved in one behaviour; the edit of the user falls anywhere.
* *Body recovery.* Two articles are one that is settled and one that is next; two tasks are
  one that is stale and one that holds the reservation, or one of another kind. One event from
  outside, a change of browser or a body replaced by another path, falls anywhere
  (`MaxOutside`); the two together in one behaviour are left to the proofs.

Deadlock checking is off where a bounded instance stops when its bounds are used up, and the
program may be idle. The sidecar's threads, the jobs and controllers, the writers and the
browsers with their tasks are interchangeable where a cfg declares a symmetry; the liveness
runs use none.

Fairness in `ResearchRuns`. asyncio serves ready callbacks in order, so a task that is ready
again and again takes its step although routes occupy the loop in between: strong fairness
of a task's progress. A synchronous route that has started runs to its end, and the polling
client keeps sending requests after a restart: weak fairness of those steps. That a provider
stream ends is an assumption on the provider; the code has no deadline of its own around
the loop. Faults and crashes have no fairness.

Fairness in `DataScheduler`. The supervisor's loop ticks for ever and an operating-system
thread that can run does: weak fairness of `Tick` and of each call's steps. A collection is
assumed to answer (the price worker has no timeout). `Prompt` says that a thread fired by
one tick has passed its non-blocking gates, up to `_LAST_ATTEMPT`, before the next tick 30
seconds later; without it a source could be fired twice in a row and starve another. The
smallest configurable interval is several ticks; `scheduler_live` uses two market writers
and an interval of one tick, the shortest at which the two must alternate: each is due again
as soon as the other has had its tick.

Fairness in `PortfolioCapture`. A thread that has started runs on: weak fairness of the steps
of each startup, caller and worker; a process that died is started again, as the shell and
the next CLI call do. That a broker call returns is part of it. Nothing is assumed of users,
faults or deaths.

`InvestigationJobs` states `FairSpec` (worker threads run, and the clock passes a lease that
nobody renews) and `JobsEnd` under it. It is checked by hand rather than by a listed run: it
holds with one job, two controllers, two calls and two faults.

## 5. What the violations show

* `identity_links`: `apply` inserts the link of a continuation without looking at the links
  that exist. A rename and the rename back, both approved and applied, leave a circle.
  `_read_identity_links` raises on a circle, and the active universe then reports every
  ticker as unreadable. Reversal cannot undo it: `reverse_readiness`
  (`ticker_identity_transition.py:1895-1904`) refuses each of the two plans with
  `successor_has_later_transition`, because the live link of the other has its successor as
  source, and so does the model's `Reversible`.
* `body_recovery_retry`: a page that was opened and failed to parse puts itself back. When
  its task ends, `_terminal` (`sa/company_collector.py:527-528`) sets the gap before the next
  page; `_reconcile` (`sa/article_body_recovery_jobs.py:330`) takes any block, that gap
  included, for a restriction, and makes the article pending again. The design
  (`docs/superpowers/specs/2026-09-28-sa-body-recovery-continuation-design.md:174-175`) says
  that such failures remain visible and are not retried indefinitely. The test at
  `tests/test_sa_body_recovery_jobs.py:291` never admits a navigation, so it sees no gap.

The modules state five further disagreements as definitions that no listed run checks. Each
is violated by the instance given here (other constants as in the run named).

* `OnlyEarlierLivesInterrupted` (`research_boot`, one run, no legacy run, two stores):
  `get_run_store` relies on `lru_cache` for "once", which does not serialise the constructor.
  Two first requests both reconcile; the slower one may find the run that the faster one's
  request has just admitted and interrupt it.
* `CancelSettles` (`research_core`, one run, one lifetime, no faults): `task.cancel()` returns
  true for a task that has not started; the coroutine's body, with its handler, never runs,
  and the row stays queued until a second cancel or a restart.
* `DueIsAttempted` with an unconfigured source (`scheduler_live`, `Order <- OrderMarket`,
  `Configured = {news, prices}`, an interval of 3): a preflight failure returns before
  `_LAST_ATTEMPT` is set. An enabled market source without configuration is due at each tick,
  takes the one market-writer place, and the sources after it are not attempted.
* `OneGatewaySession` (`scheduler_locks`): the Gateway lock belongs to the parent of the
  worker process. When the sidecar dies the lock is free while the worker still has its
  session.
* `AttendedScope` (`scheduler_live` with `Spec`, `Order <- OrderNews`, the source `news`
  alone, one sidecar thread, an interval of 1 and two manual calls): a manual continue that is skipped stores its scope with the status
  `skipped`, which `_pending_continuation` does not recognise; the next unattended run goes
  ahead over the saved scope and its outcome clears it. A read of the state that raises has
  the same effect (`service/data_scheduler.py:530-533`, `ReadContinuation`): the run starts
  as if nothing were saved. `SnapshotFresh` excepts the calls such a read let through.

Stated as an exception of a property rather than as a disagreement:

* `ClaimedRunsFinish` excepts a run whose task could not read its row (`unread`). The
  executor reads the row before and after the claim outside `_persist`
  (`research_run_manager.py:105-148`); a read that raises right after the claim ends the task
  with the row still `running`, no task left and no note, so that the client sees a running
  run until it is cancelled or the sidecar restarts. The plan
  `docs/superpowers/plans/2026-09-20-research-continuity-repair.md:66` speaks of failing
  writes only.

Seen while reading, outside the models:

* A sidecar that boots while `daily_update` is collecting marks the CLI's row failed and
  clears its continuation (`reconcile_interrupted_running` takes every running row for its
  own), until the CLI records its outcome.
* In the extension's `article_body_recovery.js`: a cancellation of a start that is not yet
  confirmed and is then rejected leaves a reference with `cancel_requested` and neither a job
  nor a start (lines 83-101, 124, 168); a late `remember` of an old revision followed by the
  end of the event page leaves the old revision stored and the job cancelling; a start beside
  the last answer of the previous wake may overwrite `pending_start`.
* A save that was authorised before an operator's `recover` may store its body after the item
  was settled. The body is a valid one; only the count of the job differs, which is why
  `SavesCounted` speaks of bodies stored while the task was reserved.

## 6. Proofs

All proofs hold for arbitrary constants that satisfy the assumptions named in the modules.
They say that NULL-like values are not members (`RunsAssumption`, `NullAssumption`,
`NoneAssumption`, `RecoveryAssumption`), which sets are subsets of which and what maps to what
(`SlotsAssumption`, `RoutesAssumption`, `SourcesAssumption`, `TickerAssumption`,
`HostAssumption`, `SizeAssumption`, `OriginsAssumption`, `HoldingsAssumption`,
`MetaAssumption`), and that bounds are numbers (`BoundsAssumption`, `BoundAssumption`,
`SchedulerBounds`, `BudgetAssumption`, `PageAssumption`). Two say something about the code:

* `PlansAssumption`: the successor a plan names, if any, is not its own ticker
  (`ticker_identity_transition.py:876` refuses that).
* `NamesAssumption`: objects and staging files have different names, and there are finitely
  many of each, since one is named by a SHA-256 digest and the other by a random UUID. Only
  `BudgetKept` uses the finiteness, because a total over an infinite table has no meaning.

`ResearchRunsProofs` proves `TypeCorrect`, `AdmissionSafe` (`OneActiveRun`), `ThreadsHeld`
(`ActiveThreadIsCurrent`) and `PublicationAtomic` (`AtomicPublication`). None of the last
three is inductive. `DBInv` adds that rows and homes agree, that turns are stored in the
thread of their run, that an unborn run has no events, and that an active legacy run has at
most one turn. `MemInv` adds what the process knows: before the first reconciliation no
task, creation or cancel exists, and after it no legacy run is active; this is why the
executor's transactions never meet a half-published row. There is one lemma per
transaction, on `DBInv` alone, and one step per action that cites it.

`DataSchedulerProofs` proves `SchedulerTypeCorrect`, `SourcesExclusive`,
`GatewaysExclusive`, `MacrosExclusive`, `NothingLeaks` (`LocksOwned`), `RunningExplained`
and `SnapshotsFresh` (`SnapshotFresh`). Exclusion rests on two directions: `Holds` (a call past a gate holds
that gate's lock) and `LocksOwned` (a held lock belongs to a call at such a point). Neither
is inductive alone. `RunningIsExplained` and `SnapshotFresh` need them: a row of a source
changes only in the hands of the call that holds the source, or at a boot. `SnapshotFresh`
speaks of the moment before the run starts; what carries it there from the gate is `ScopeHeld`
(from its gate on, a call that could read the state knows what is saved).

`InvestigationJobsProofs` proves `TypeCorrect`, `CallsAccounted` (`NoLostCall`),
`TickerExclusive` (`OneJobPerTicker`), `CancellationHonoured` (`CancelHonoured`),
`CancellationAsked` (`CancelledWasAsked`) and `LedgerRefined` (`LedgerSpec`), for any number
of jobs, controllers and calls. `NoLostCall` needs `CallInv`: the call in a worker's hands is
the only pending one of its job while the row is in progress, and a call without a
reservation was not sent. `CancelledWasAsked` needs `StopInv`: a worker that stops without a
failed lease thread was asked to. The refinement shows, action by action, that a step either
leaves what a reader is shown unchanged or is one step of the ledger.

`ResearchTranscriptProofs` builds on `ResearchRunsProofs`. `DBStep` lists the seven
effects a step can have on the tables; one lemma shows that every action has one of them, and
each property is then proved once per effect. `TranscriptInv` holds `SuccessAnswered`
(`SuccessIsAnswered`), `ContextComplete` (`ContextSettled`), `TurnsPaired`
(`TranscriptPaired`) and `DeletionComplete` (`NoOrphanTurns`). They are not inductive without
three facts: only the executor links a turn to a run, the question of a run stays at its
place in the transcript, and no direct stream is under way before a direct turn was counted.
`ContextComplete` follows each kind of turn through every effect: a turn keeps its kind, and
only a retry that was asked directly after an `exhausted` answer leaves one out.
`ResultsFinal` proves the action property `TerminalIsFinal`, and `LedgerImplemented` the
refinement of `ThreadLedger` (`LedgerSpec`): an effect either leaves slot and ledger alone or
is one admission, one publication, one deletion. `ReplayShowsAll` (`ReplayComplete`) composes
this with a polling client. Its invariant `KeepsUp` says that the client has shown exactly the
progress up to its cursor and that the outcome of a finished run is still ahead of it;
`SoleOutcome` says that only the last event announces it, and `LegacyUninterrupted` why a
reconciled log cannot end the loop early.

`SecCapturesProofs` proves `TypeCorrect`, `RowsHaveFiles` (`RegisteredReadable`),
`CitationsResolve` (`CitedResolve`), `LeaseFindsCharges` (`ChargedUnderLease`),
`ChargesKept` (`CoverKept`) and `BudgetKept` (`WithinBudget`). The first
invariant says who may be in the store together (`Locks`), what the directory looks like
whoever stopped where (`Files`: an inode has one object name, a removal that is not durable
hides nothing visible), what a writer has prepared (`Writing`), and that an apply works on
exactly what was approved (`Cleaning`). `RegisteredReadable` needs all of them, since a
cleanup removes files by name. The budget is a second invariant on top: the tables have one
row per key, and while a writer fills its file, everything else on disk leaves room for it
(`RoomKept`). `_admit` compares a sum of three tables with the budget; that the files on disk
are at most that sum is an injection of byte positions (`ChargesCoverDisk`), so the proof
needs no induction over a sum.

`PortfolioCaptureProofs` proves `TypeCorrect`, `LocksAreOwned` (`LocksOwned`),
`LiveRunsAreRunning` (`LiveRunIsRunning`), `StrandedOnlyByFailure` (`StrandedByFailure`),
`CapturesGoForward` (`CaptureNeverOlder`) and `ReviewsGoForward` (`ReviewNeverOlder`).
`LocksOwned` is inductive with the types; the others rest on it, because the holder of the
file lock is alone in all processes. `StrandedByFailure` is not inductive, because a worker
that only has its locks to give back still counts as live: `LeftByFailure` counts those runs
too. `CaptureNeverOlder` needs `Newest` (no account holds a newer run than the one being
captured), `ReviewNeverOlder` needs what an accepted review was told (`ReviewedOnly`).

`IdentityTransitionsProofs` proves `RoundTripExact` (`RoundTrip`) and
`AppliedOnlyAsApproved` (`AppliedAsApproved`). Plans write over each other's rows and may be
reversed in any order the store permits, so the rows are not a stack, and a reversal may put
back a value that was not there before. What makes the round trip exact is a count
(`Balanced`): for each row and value, the applied plans that wrote the value less those that
replaced it are the difference between what the row shows now and what it showed at first.
With no applied plan both counts are zero.

`BodyRecoveryProofs` proves `TypeCorrect`, `LedgersTogether` (`LedgersAgree`),
`SavesAreCounted` (`SavesCounted`) and `CancellationFinal` (`CancelFinal`). The journal and
the collector name each other (`Linked`): an item handed to a task names that task, and the
task names the item. Without it a recovery or a change of browser might settle an item on
behalf of another task. `StoredKept` says what a stored body leaves until its item settles.

Only model-checked: the liveness properties `ClaimedRunsFinish`, `DueIsAttempted`
and `LocksReleased` (and `JobsEnd`, by hand). They rest on fairness, hence on `ENABLED`, which
the prover does not reason about. Facts that need induction over data, and `RECURSIVE`
operators, are out of its reach as well; no module uses the latter, and the two places that
would need a sum, the budget and the round trip, count instead.

## 7. Not modelled, and why

The repository has about 147,000 lines of implementation. Most of them are provider clients,
agent tools, prompts, evidence rules, parsers and read-only projections, whose correctness is
about data and not about the order of steps. The modules cover the durable state machines
with several actors; the map in `PROJECT.json` therefore covers a small share of all lines,
and a large one of the files named in section 1.

*Research.* Texts, timestamps, token counts, titles and model settings: no property depends
on them. The SEC citation protection around some research writes belongs to the capture
store; a refusal there is a write that raises, which is modelled.

*Scheduler.* The UI's in-memory result dictionary and the `job_runs` telemetry are written
best effort and never read for a decision. `tick_once` also calls the tracking,
lifecycle-automation and identity schedulers before the source loop, each guarded against
exceptions: other components. In the degraded mode of `FileLock` (no `fcntl`, unusable lock
directory) the code chooses to run without cross-process exclusion; the models assume a
usable directory.

*Investigation.* Disposal and adoption of finished investigations, budgets, and the agent's
reasoning.

*SEC captures.* The scheduled refresh, HTTP acquisition and the parsing of filings. One
corner is visible in the model and harmless: a power loss may bring back a staging entry
whose unlink was never synchronised, after a cleanup retired the charge of the object it was
linked to. The file is then without a charge until the next `_recover`, which comes before
anything is admitted (`CoverKept`, `ChargedUnderLease`). An uninstall leaves every remaining file
without a charge in the same way (`schema_admin.py:84` writes orphan charges for a reset only):
they stay on disk uncounted until a later acquisition installs the tables again, and its
recovery charges them before it admits anything.

*Portfolio.* `trigger(background=False)` holds both locks in one thread and needs no
hand-over; the direct `/ibkr/apply` route takes no capture lock; executions, cash legs and
the arithmetic of positions are data. A boot that finds the locks busy skips its
reconciliation, so a run left `running` by another process stays so until the next boot:
`StrandedByFailure` says what may strand a row. Settings are read twice by the code between
commit and copy; the model reads them where the copy does.

*Identity.* Priorities, tags, Seeking Alpha memberships, the review confirmation, execution
dates, provider-owned sources and timestamps. Known corners outside the properties: a plan in
`needs_review` that is approved again with an identical preview stays in review; two merges
into one ticker can only be reversed newest first.

*Body recovery.* Manifests and settings, page budgets, company financials beyond their use of
the reservation, every other native-host action, and the extension's coroutines: with one
browser and no faults a detailed model of those already had eight million states.

Hazards known and not listed in `PROJECT.json`, because no model here reaches them: the price
worker is awaited without a timeout; the outcome row of a source is written best effort; a read
that fails in a research route surfaces as an HTTP error (in the executor it does not, see
section 5).

Components marked `not_modelled` in `PROJECT.json` give their reason there.
