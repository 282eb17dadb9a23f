# precis-mcp: TLA+ models, checks and proofs

precis-mcp serves financial data to MCP clients and to an Excel add-in. It
loads ledgers and dimensions from customer sources into ClickHouse, keeps its
own records in PostgreSQL, backs both up, and answers read-only queries under
per-user permissions. Several processes share the two databases without a
coordinator: the API and MCP server, the scheduler and watcher daemons, the
backup sidecar, and operator scripts.

This directory holds TLA+ modules of the parts of that system in which order,
failure and concurrency decide whether the data is right, and of the report
engine, in which a dozen stages must agree on what a number means; the TLC
instances that check them; and proofs, for every value of the parameters, of the
safety properties of every part. Of the reports they reach up to the facts that
a statement counts; what is computed of those facts is model-checked.

- [Components](#components): the inventory, modelled or not
- loading: [Ingestion](#ingestion), [FileDelivery](#filedelivery),
  [CronScheduler and PushTrigger](#cronscheduler-and-pushtrigger),
  [Integrations](#integrations)
- keeping: [Backup](#backup), [Restore](#restore)
- answering: [the report modules](#the-report-modules),
  [Serving and Provisioning](#serving-and-provisioning),
  [ExcelSession](#excelsession)
- [Proofs](#proofs): what is proved, from what, along which argument
- [Disagreements](#disagreements-with-docs-and-comments): where the code does
  something else than a doc, comment or test says
- [Not modelled](#not-modelled), [Plan](#plan)

`PROJECT.json` maps every definition to its source lines, lists the runs with
their properties, a mutant for every property, the findings and the hazards.

    tlc -config MCIngestion_safety.cfg MCIngestion.tla     # one run
    tlapm IngestionProofs.tla                              # one module of proofs

Each module has one type invariant. It is checked as the first conjunct of the
module's main invariant (`LoadedOnce`, `SlotsAccounted`, ...), and proved with
it; `TypeCorrect` proves that of `Ingestion`.

## Components

| component | state it keeps | operations | what is hard | modelled in |
|---|---|---|---|---|
| Load attempt (`ingestion/orchestrator.py` and the stages it calls) | `load_history` row, advisory lock, `staging.<x>`, `live.<x>` | extract, validate, checks, swap, finalise | three stores that fail apart, loads of one binding that interleave, crashes between any two calls | `Ingestion` |
| Watcher, upload endpoint | files in an object store; `load_history.triggered_by` as the set of processed keys | store a file, list and load new files | a file that cannot be read, two replicas, a retry of an upload that failed | `FileDelivery` |
| Cron scheduler, period selection | none of its own; `load_history.started_at`, highest successful period | fire due bindings for a list of periods | restarts inside a window, a failed period under a watermark, months that pass unseen | `CronScheduler` |
| Push trigger | idempotency keys in process memory | run a load, answer a repeated key | a retry while the first request runs, another worker, pushes that move the scheduler's watermark | `PushTrigger` |
| Integration registry, admin routes (`ingestion/registry.py`, `admin_routes.py`) | a directory of YAML files, a copy in each process | write one file and reload, or roll back | a reload that fails, a rollback that fails, hand edits, crashes between rename and reload | `Integrations` |
| Backup run, retention (`backup/runner.py`, `prune.py`) | artifacts and manifests at a destination | back up each store, write the manifest, prune | runs that overlap each other and the loads; a store that fails; a prune over a changing listing | `Backup` |
| Restore, drill (`backup/restore.py`) | the live databases, two side databases | verify, restore, compare counts | non-empty guard against running loads; artifacts retention has taken | `Restore` |
| Scenario registry (`engine/scenario_registry.py`) | rows of `semantic.scenarios`, read anew by every stage | resolve a key, list, create | one vocabulary of real, shifted, compared and old names, looked up by stages that must agree | `ScenarioKeys` |
| Authorisation (`auth.py`, `dispatch.py`, `scope_enforcer.py`) | profiles | resolve, gate, narrow a query | an algebra of allow and deny scopes of several scenarios, merged with the caller's filters | `Access`, `ScopeFilters` |
| Resolver, retriever, transformer | a plan and results in memory | translate a request to SQL, assemble and compare results | four statements per scenario that must meet in one key; shifts, forks, commits, totals | `ReportPlan`, `Retrieval`, `Reporting`, `ReportMeaning` |
| Discovery tools (`tools/read_tools.py`) | none | search, list, inspect | scopes resolved by code of their own | `Discovery` |
| MCP server, read limiter (`mcp_external/server.py`, `concurrency.py`) | two kinds of semaphores | authenticate, dispatch, hold slots for a query | bounded waits on two semaphores, threads that never return | `Serving` |
| Administration, Keycloak (`admin_ops.py`) | users in two stores, profiles, grants, an audit table | create, disable, delete, assign | a compensating delete that may fail too, commands that interleave statement by statement | `Provisioning` |
| Excel add-in session (`excel-addin/src`) | tokens, slots, queue of calls | call a tool, refresh, sign in, disconnect | answers in any order while the token store changes | `ExcelSession` |
| Backup sidecar, listing; add-in functions; catalogue loading and reload; database pools; migrations and DDL runners; metrics; deployment | | | | no, see [Not modelled](#not-modelled) |

Interaction. A *trigger* (scheduler, watcher, push route, operator script)
calls `run_binding`, which alone writes `staging.*` and `live.*`. What a
trigger fires is decided by the registry of `Integrations` and by
`load_history`, which all triggers share. `run_backup` reads both databases
while loads go on and writes a bundle; `restore_bundle` reads a bundle and
overwrites the databases, or fills side databases. Readers (MCP tools, the
add-in) see `live.*` only, through a gate that admins edit meanwhile.

The modules compose in these places. `PushTrigger` EXTENDS `CronScheduler` over
one `load_history`; `Restore` EXTENDS `Backup`; `Serving` EXTENDS
`Provisioning`; the report modules EXTEND each other in the order
`ScenarioKeys`, `ReportPlan`, `Retrieval`, (`ScopeFilters`, `Access`),
`Reporting`, `ReportMeaning`, `Discovery`. Where two parts are checked apart,
one promises what the other assumes: `run_binding` is one load in the triggers
(`Ingestion` shows what a load does: `PublishesOrGivesUp`); a load publishes in
ClickHouse before PostgreSQL records it (`SuccessIsLive` of `Ingestion`,
`PublishLoad` before `RecordLoad` in `Backup`); a table is replaced as a whole
between two statements of a report (`Publishes` of `Ingestion`, `SwapTable` of
`Reporting`).

## Ingestion

One attempt is one call of `run_binding`. Every call to a store is one action,
so the attempts interleave exactly where the processes do.

| variable | code |
|---|---|
| `pc`, `req`, `data`, `erred`, `outcome` | where `run_binding` stands, its arguments, what the extract returned, whether a check could not run, the status about to be written |
| `lock` | `pg_try_advisory_lock` on the binding, held by a connection of its own |
| `staging`, `live` | partitions of the two tables; a partition is the set of attempts (`_load_id`) that have rows in it |
| `status`, `swapped`, `verdict`, `blamed` | columns of `load_history`: `status`, `swap_committed_at`, the verdict in `control_total_result`, the load named in a conflict's `error_message` |

| actions | code |
|---|---|
| `Start`, `Acquire`, `GiveUp`, `FindRunning`, `Refuse` | the running row, the polling of the lock, the refusal |
| `ClearStaging`, `ExtractRows`, `ExtractNothing`, `ExtractFails`, `RecordExtract` | drop the slice, run the source query, insert, `record_extract` and the two early returns (stop after extract, zero rows) |
| `ValidateShape`, `ValidateFails`, `RunChecks` | shape validation and the operator's checks; `record_checks` |
| `Replace`, `DropPromoted`, `SwapFails`, `RecordSwap` | `REPLACE PARTITION` and `DROP PARTITION`, or `EXCHANGE TABLES`; `record_swap` |
| `Finalise`, `Release`, `HistoryWriteFails` | the terminal status, the `finally` clause, and a PostgreSQL call that raises |
| `Crash`, `LoseLock` | the process dies; the lock's connection dies alone |

A ClickHouse statement that raises at the client may or may not have taken
effect; both outcomes are branches of the failing action. Rows are abstracted
to who wrote them and to one quality, `clean` or `dirty`. A check is a type
(row predicate, or tie-out against the source) and a severity. The fault
classes that may occur are the constant `Faults`, so each property is stated
with the faults under which it holds.

`LivePublication` is the abstract specification: for a reader, a slice of a
live table is a register, written in one step, by the attempt opened for that
very slice, at most once per attempt. `Ingestion` implements it with
`phase <- Phase(l)` and `cell <- <<binding, slice>>` (`Publishes`); with its
fairness it is the liveness contract `PublishesOrGivesUp`.

| property | what could go wrong without it |
|---|---|
| `LiveUnmixed` | a query counts two loads of one period |
| `LiveOnlyGated` | data an error-severity check would refuse reaches readers, or data of another period or of an attempt told to stop |
| `MutualExclusion` | two loads of a binding share a staging slice |
| `FailedIsNotLive` | an operator re-runs or reports a load that is in fact live |
| `SuccessIsLive` | `load_history` says success for data that is not there |
| `NeverEmptied` | a period that had data has none |
| `LockIsReleased`, `EveryAttemptFinishes` | a binding blocked for ever, a row that stays `running` |

Runs and bounds:

- `ingestion_safety`: a period binding with two periods and a snapshot binding,
  an error check and a warning check, every `stop_after`, two attempts, crashes
  and failing ClickHouse and PostgreSQL calls. Two attempts are enough to have a
  previous publication, leftovers of a crash, and a concurrent load; two periods
  are enough to have "another" slice. Nothing in `run_binding` orders periods,
  so they are symmetric.
- `ingestion_contract`: two fair attempts on a period binding and a snapshot
  binding, with crashes and failing ClickHouse and PostgreSQL calls, also while
  the terminal status is written and while an exception unwinds that no stage
  catches: `LockIsReleased` has to hold through the `finally` clause then.
- `ingestion_finish`: two fair attempts, every ClickHouse stage failing in a
  handled way, and the lock's connection dying: an attempt that has lost its
  lock goes on beside another, and both finish.
- `ingestion_stray` shows a disagreement, as do `MCIngestion_leftover.cfg` and
  `MCIngestion_conflict.cfg`, see below.

Fairness. `FairSpec` has weak fairness of `Step(l)` for each attempt.
`run_binding` is sequential code and its waits are bounded (the lock is polled
with `blocking_timeout`, store calls answer or raise), so a process that is
alive takes its next step; a `Crash` moves the attempt to `done`, after which
nothing is owed. `Step` is one action per attempt, so no fairness decides
*which* outcome a call has. Deadlock is not checked: the system rests once
`MaxLoads` attempts have ended.

## FileDelivery

Two processes share a landing store and nothing else. `file` is the store by
key, where `torn` is a write under way or broken off (the local store truncates
and writes in place); `remembered` the idempotency keys in the server's memory;
`rows` the rows of `load_history` by binding and file. The watcher's local
state is `pc`, `todo` (bindings left in this tick), `listing` (files left of
this binding, of which `First` is the next: the store lists in order) and
`seen`, the processed set it read once for the binding.

`AnswerDuplicate`, `BeginWrite`, `EndWrite`, `WriteFails` are the endpoint from
its look at the key on. `WakeUp`, `List`, `ReadProcessed`, `SkipFile`,
`TakeFile`, `FireLoad`, `LoadEnds`, `NextBinding`, `EndTick` are the tick, each
call an action. `ListFails` costs one binding its turn; `FileUnreadable`,
`StoreMissing` and `CallRaises` leave the tick. `StoreMissing` is a binding
whose kind of source has no store in this process: watcher.py:120 asks for it
outside the `try`, and wiring.py:423 raises KeyError. `stores` are the stores of
a daemon, built when it starts from the variables it finds. Server and watcher
may restart at any moment, the watcher also in another environment.

| property | what could go wrong without it |
|---|---|
| `LoadedOnce` | a restart or a failing call makes the watcher load a file again |
| `EveryFileFires` (under `FairSpec`) | a file without a period, a failing listing, an abandoned tick or a restart costs a stored file that carries a period its load |

`EveryFileFires` has one excuse, to be `Blocked` for good. A tick that meets an
unreadable file or a binding without a store ends there, and so does every tick
after it: what comes behind in the listing, or in the registry, is not looked at
until the daemon is started again with the missing store. watcher.py:98 says
only that the loop survives, which it does. What comes before is owed its load
all the same.

`delivery_watch` has three bindings in the order of the registry, and two
environments, in one of which the second binding has no store. The files sort as
one without a period, one that cannot be read, and one that carries a period.
The last is matched by all three: by one that also matches the first file (it
must be loaded, always), by one that also matches the second (loaded unless that
one is stored or the store stays missing), and by one behind it. There are an
upload and its repetition, uploads of the other two files, and two faults: one to
break off or to change the environment, one to hit what comes after. One
watcher, as deployed: with two, `LoadedOnce` does not hold.

Fairness: weak fairness of the watcher's `Step`. The daemon loops for ever
and its calls answer or raise. No fairness of uploads, and none of faults.

## CronScheduler and PushTrigger

`CronScheduler` is the daemon's tick. Its only memory is `load_history`, here
`last` (newest `schedule:*` row of a binding), `loaded` (periods with a
success) and `attempted`. Periods are numbers in the order of their text, with
adjustment periods between the months, because the watermark is a maximum by
text. `Selects` has the four strategies of `period_selection.py` with the
safety bound of a catch-up; `SelectionRaises` where it raises instead.
`FiresAt` is the set of instants a cron expression yields; the clock advances
inside ticks, while a tick keeps the instant it began with.

`PushTrigger` adds the two push routes over the same table: the gates in their
order (`PushVerdict`, `AdminVerdict`), the idempotency cache of a worker, which
is looked up before the load and filled after it, and loads that may succeed,
end otherwise, or raise. The load runs inside the handler, so a worker has one
at a time (`Turn`). `forgotten`, a history variable, has the requests whose
worker has since restarted and lost its cache.

| property | what could go wrong without it |
|---|---|
| `NoSilentGap` | a month below the watermark that nobody has ever tried, after a crash inside a window or a month that passed while the daemon was down |
| `NeverDoubleFires` | a restart loads a period again without a new cron instant |
| `WindowsAreServed` (under `FairSpec`) | a binding that always raises keeps those after it from their windows, or a window that came due is dropped although there was a period to load; not of an explicit strategy, whose selection always raises |
| `OneLoadPerKey` | a retry that the same worker answers is given another load, also where loads of the key failed or raised in between; only a restart forgets |
| `AnswerNamesOwnLoad` | a caller is told of a load that is not of the request's body |

`triggers` has three bindings (one whose strategy always raises, first in the
registry; a watermark; a lookback), a clock of three instants that skips a
month, so that a catch-up of more than one month happens, and four requests: a
push, its retry, the same key for another body, which is an adjustment period
right above a month of the watermark binding, and an admin call that is refused.
One fault: a load that fails, raises or dies with its worker, so that the retry
of its key starts a load of its own and the answers that follow must agree with
that one. `WindowsAreServed` asks nothing of a window for which the strategy
selects no period, because the watermark has reached the month (`NothingLeft`),
or raises (`SelectionRaises`), as it does on a watermark that is an adjustment
period, see the list below.

Fairness: weak fairness of the daemon's `TickStep`, for the same reason as the
watcher's. It contains `LoadSucceeds` and not the failing branches, so fairness
says that a load that does not fail ends. Nothing is assumed of pushes.

## Integrations

`disk` is the directory of YAML files by name, the temporary file of a write
included; `memory` is the registry of each process. `Valid` is what
`IntegrationRegistry.load` accepts: files that parse, ids that are unique,
cross references that hold, one binding per target. A write of the admin routes
is `MakeTemp`, `FillTemp`, `RenameTemp` (or `Unlink`), then `Reload`, or
`ReloadFails`, `Rollback`, `ReloadAgain` or `RollbackFails`. A handler does not
await, so the API has one write under way; an operator edits files by hand
(`HandEdit`), other processes reload (`ReloadElsewhere`), a write may fail and
the API may die at any step and come back when the directory loads.

| property | what could go wrong without it |
|---|---|
| `AtomicityContract` | a 422 that changed the disk, a 2xx whose entity is not in the registry, or a 204 whose entity still is (unless a hand-made file or the temporary file of a write the API died in holds it) |
| `RegistryIsCurrent` | some path through rollback, failed write or crash leaves memory and disk apart |
| `OneWriterPerTarget` | two bindings of one registry write one table |

`integrations_write` has four requests that depend on each other (create a
binding, move one to another target, delete it, delete its source), started
from every consistent directory over two sources, two bindings and two targets;
one file edited by hand with a text that collides, one that does not parse, or
none; two faults, since the interesting rollbacks need one fault to make the
reload fail and one to disturb the rollback. A file that cannot be *read* is left
out: an OSError or UnicodeDecodeError of registry.py:525 is no
`IntegrationConfigError`, so the answer is 500 and nothing is rolled back.

## Backup

`Backup` has one process per call of `run_backup`. The CLI and the sidecar run
the same code, nothing keeps them apart, and a run takes minutes, so runs
overlap. `pg` and `ch` are the loads recorded in PostgreSQL and published in
ClickHouse; `artifact` and `manifest` are the objects at the destination by run
id. `plan` and `sweeping` are the local state of `prune_bundles`: what it
decided to delete from the listing it took, and the manifest it is working on.

`Order` is the order of the stores in `run_backup`. `BackupStore`,
`BackupFails` and `SkipStore` are a store's turn; a failure never ends the run
and its object may have landed. `PutManifest` reads the row counts as far as
the stores answer, and pushes the manifest. `ListManifests` computes `Doomed`
(rank by `Keep`, age by `Days`, per store; the run's own bundle excluded);
`PruneArtifact` and `PruneManifest` are one delete each, `PruneManifest` after
a HEAD for every artifact. Faults: a crash, a failing store or destination
call, a failing HEAD, a destination that denies deletes, and two runs in one
second. Time is a counter in the unit of run ids.

| property | what could go wrong without it |
|---|---|
| `SnapshotOrder` (checked in `restore_guard`, over both databases) | a bundle records a load whose rows it does not hold |
| `KeepsNewest` | a manifest promises an artifact that retention had no reason to take, because overlapping prunes and partly failed runs count differently |
| `ManifestOutlives` | artifacts that no manifest lists |
| `BundleIsOwn` | a manifest binding artifacts of another run |

`backup_retention` has three runs, because with one store kept by number and
another by age (backup.yml lets each store have its own retention) the third run
is the first whose prune can overlap another prune over a bundle of which one
artifact goes and the other stays. A load goes on beside them; what the dumps
of the databases say of it is checked in `restore_guard`. Runs are symmetric and the stores outside
`Managed` are skipped, as in the code. The run has no two starts in one second
and no failing HEAD: with the first `BundleIsOwn` and with the
second `ManifestOutlives` does not hold (see below).

## Restore

`Restore` EXTENDS `Backup`: the runs, prunes and loads go on beside calls of
`restore_bundle`. `ReadManifest` takes the arguments and the manifest;
`FetchAndVerify` or `FetchRaises` is the checksummed download of everything but
ClickHouse. A real restore is `RestorePostgres`, `GuardClickHouse`,
`DropDatabases`, `RestoreClickHouse`, each a call of its own; a drill is
`DrillRestore` and `DrillCount` per database, over the `side` databases.
`Intact` is what a matching checksum means: the object its own run wrote.

| property | what could go wrong without it |
|---|---|
| `NoForceNoLoss` | a restore without `--force` takes a load away |
| `RestoredTogether` | after a restore of both databases PostgreSQL records a load that is not there |
| `DrillSuccessMeansMatch` | a drill passes a bundle it did not compare |

`restore_guard` has two runs that may crash and whose retention takes the
ClickHouse artifact of the first bundle, one load, and one call of
`restore_bundle` whose every call may fail (`OpsFail`). With `Quiet` nothing
else runs during a real restore, which is the documented order of a full
recovery (restore, then start the services); drills run beside backups, prunes
and loads. The same run has the order of dumps over both databases with a load
in flight: `SnapshotOrderUntilRestored`, since a restore may take the databases
back in two steps. `MCRestore_pruned.cfg` shows a disagreement.

## The report modules

A report is a sequence of a dozen stages that read the registry of scenarios
each anew and hand each other partial results. `Reporting` has one action per
stage: `Gate` (once per reference), `Validate`, `NormaliseBlock` (per block),
`CheckNames`, `ResolveRequest`, `Filter`, `Fork`, `ReadStatement` (one SQL
statement each) or `CannotGroup`, `Answer`; every read may fail. Between any two
of them a scenario is created (`CreateScenario`, which takes an alias in use if
the caller asks for it, as the code does) or a load swaps the fact table
(`SwapTable`).

What the stages compute is in modules without state. `ScenarioKeys`: the
vocabulary of keys (by id, by alias, shifted, compared, old names, modifiers)
and what the gate makes of them. `ReportPlan`: metrics in the order of their
dependencies, one query per scenario, comparisons, the removal of duplicate
queries. `Retrieval`: the statements of a query (sum and average over the span;
closing balances of the last month of a group; those of the span's end), their
grouping sets, the merging of results, the shifting of months back, derived
metrics and comparisons over them. `ScopeFilters`: the leaves that a filter or
a scope stands for, and their intersection. `Access`: profiles, permissions,
the verdict of the gate. `Discovery`: search, lists and row inspection.

`ReportMeaning` says the same thing a second time and in another way: what a
cell of a report *means*, as a set of facts. It knows the reference a caller
wrote, the rows as they stood at the start, and the caller's filter and scopes
member by member; it has no plan, no statements, no grouping sets, no merging.
`MeantFacts` stands between the two: the facts that the statements of one
reference are to count, by which each statement is judged.

| property | what could go wrong without it |
|---|---|
| `AnswerIsTheReport` | a number, a subtotal or a comparison is wrong, or a line is missing |
| `NumbersAreOfOneTable` | one number is computed of two loads |
| `ReadsWhatWasGated` | a scenario is read that the gate did not allow, because a later stage looked a name up again; or a statement counts rows that the scope of its scenario hides, or drops rows that the reference means |
| `GoodRequestsAreAnswered` | one stage refuses what another has accepted; or a report is answered that is not permitted |
| `DiscoveryAgreesWithReports` | search, listing or inspection show what a report would not, or hide what it would |

Numbers are fractions, a denominator of zero being the null of SQL and of
Python; months are counted from a January, so a fiscal year and a quarter are
arithmetic; a member of a dimension is a model value with a division over it
and a ragged tree beside. What is abstracted: the text of SQL (a statement is
the set of its facts, its metrics and its grouping sets), labels, formats,
scaling, sorting and caps of rows.

`reporting` starts from 142 points (71 requests and two fact tables). The
requests are every shape of grouping (none, leaf and period, quarter, division
and fiscal year, with and without totals) over flows and over balances, in
several columns (actuals, year ago, growth; prior year, gap to the budget,
budget); and, over smaller shapes, scopes (allow and deny, by kind, uneven
between scenarios, excluded domains) against filters, the five modifiers, forks
with and without target and parent, old names, unknown names, axes and filters,
and a soft dimension of another domain. The table has months in two years, so a
shift lands outside the span, and a month in which only one member has a
balance. One failing read, one scenario and one swap per report are enough to
stand between any two stages; two statements see at most two tables.

Where a property does not hold of what the code does, it says so or the
requests leave it out; each case is listed below. The mutant of
`NumbersAreOfOneTable` reads one statement in two halves between which a swap
may come, and leaves everything else right. `AnswerIsTheReport` and
`NumbersAreOfOneTable` assume that each reference is read by a query of its own
(`EachIsRead`): of two that name one set of rows the second column is empty.
`InspectionAgrees` is about a scenario named by id or alias, in a report whose
lines are of the inspected domain, and `DiscoveryAgreesWithReports` holds below
the caps on rows and members, which are left out. The requests have no `quarter` or
`fiscal_year` under a one-month shift, no fork to a target given by alias, and
no scopes that are equal as sets but written apart.

## Serving and Provisioning

`Provisioning` has the commands of the admin CLI as processes. Each statement
commits by itself, so a command is a check, then one step per statement or call
to Keycloak, and may die after any of them (`Dies`). A call to Keycloak
(`Call`) takes effect, is answered with an error, or loses its connection
before or after the effect; the last raises an exception of the HTTP library,
which the handlers do not name. Foreign keys and unique keys refuse as the
tables of `001_init.sql` do.

`Serving` puts `POST /mcp` beside them: a request is authenticated, its user
and permissions are read in two queries, and its messages are answered in turn.
A tool call that passes the gate takes a slot of its user and a slot of the
box; `sem` is asyncio's semaphore with its queue and the hand-over to a waiter
that is woken and resumes later. `TimesOut` may come before, or after a slot
has been handed over. With both slots the call is submitted to the default
executor of asyncio (server.py:564), whose queue has no bound and no timeout:
`pool` has its threads and its queue, and `ThreadStarts` is a thread taking the
first call. `EngineEnds` is the tool's end: it may never come. Other users of
the executor are left out, they only make its queue longer.

| property | what could go wrong without it |
|---|---|
| `SlotsAccounted` | a slot is lost or used twice on one of the ways out of a call |
| `OneUserCannotStarve` | a burst of one user takes the whole box |
| `NeverHangs` (under `FairSpec`) | a call waits for ever behind tools that never return, in front of the thread pool; or behind it although a thread is left |
| `DisabledStaysOut` | a user whose disabling was reported done is still answered, because one of the two stores was missed |
| `CreatedUserIsWhole` | the rollback of one creation takes the account of another |

By default concurrency.py lets 32 tools in, and the pool has min(32, cpus + 4)
threads, so fewer on a host of less than 28 processors. Where the pool is
smaller, calls that have their slots wait behind tools that do not return
without any bound, and `NeverHangs` says exactly that
(`pool.size < BoxCap /\ []PoolFull`); where it is as large, they do not wait.
`OneUserCannotStarve` is about the slots: with no more threads than `UserCap`
the tools of one user can have the whole pool.

`serving` has two kinds of start. Four requests of three users, one with two
calls, on one slot per user and two in all: then a call waits behind its own
user, a call waits for the box while it holds its user's slot, and a slot is
handed over to a waiter whose time is up. They have two threads, as many as
slots; three of them also run on one thread, where a call that has its slots
waits in the pool behind a tool that may not return. (`Left` is what a waiter
that goes leaves behind: its place in the queue, and a slot handed over to it.)
Or one request with two commands that
touch the same rows, every such pair; a third command would meet the same rows
in a state that two already produce. `OneUserCannotStarve` and the semaphores do
not depend on what a tool does, so tools are a set of granted scenarios here.

Fairness: weak fairness of `Handles`, one action per request: handlers are
scheduled and their timers fire; and of `ThreadStarts`: an idle thread takes the
next call. Nothing of the tools, nothing of commands.

## ExcelSession

JavaScript runs one continuation at a time, so an action is what happens
between two awaits; the server and the identity provider answer in any order.
`token`, `refresh` and `endpoints` are the shared store, `inflight` and
`waiters` the gate, `pc`, `bearer`, `retried` and `result` each `callTool`, and
`issued`, `session`, `usable`, `fresh` the identity provider as the add-in
meets it. `Rotates` is the realm's `revokeRefreshToken`.

`SlotsAccounted` says that the gate's count is what is in flight and a call
waits only while every slot is taken; `EveryCallEnds` that every cell of a
burst ends. `excel_burst` has three calls over two slots, so that one waits
while two interleave, with every fault. Fairness (`FairSpec`) is weak fairness
of each call's progress: every `fetch` resolves or rejects, and a continuation
that is ready runs. No fairness is assumed of a sign-in or of the environment.
`ExcelSession_rotate.cfg` checks that the add-in signs itself out only when the session is
over, which two parallel calls break. In `Expire` an access token minted for a
retry does not expire before that retry: lifetimes are minutes. `MaxToken`
bounds the tokens issued; a sign-in leaves one token per call, so that no
refresh is refused by the bound alone.

## Proofs

Eight modules hold the proofs, one per component (`TriggersProofs` is about
`CronScheduler` and `PushTrigger`, `BackupProofs` about `Backup` and `Restore`,
`ServingProofs` about `Serving` and `Provisioning`, `ReportingProofs` about the
report modules). They are for any sets of bindings, periods, users, requests,
runs and stores, any caps, retention numbers and clocks, and any interleaving,
under the assumptions named in the modules (`IngestionAssumption`,
`BackupAssumption`, ...), which say what type the constants have and which of
them are finite. What else a theorem assumes stands in its ASSUME and in the
tables below. Without such a hypothesis TLC has a counterexample, except where
the text below says that it is only inherited from the invariant.

### Loading

| theorem of `IngestionProofs` | statement | faults excluded |
|---|---|---|
| `TypeCorrect` | `Spec => []TypeOK` | none |
| `Invariant` | `Spec => []IInv` | `lockconn` |
| `NeverMixed` | `Spec => []LiveUnmixed` | `lockconn` |
| `OnlyGatedIsLive` | `Spec => []LiveOnlyGated` | `lockconn` |
| `Exclusion` | `Spec => []MutualExclusion` | `lockconn` |
| `FailuresAreNotLive` | `Spec => []FailedIsNotLive` | `lockconn` |
| `DataStays` | `Spec => NeverEmptied` | `lockconn`, `source` |
| `Refinement` | `Spec => Publishes` | `lockconn`, `source` |
| `HistoryFollows` | `Spec => SuccessIsLive` | `lockconn`, `source` |

With `source` TLC's counterexample is run `ingestion_stray`; with `lockconn` two
loads share a staging slice once the first has lost its lock, and `LiveUnmixed`
fails.

The argument. What `REPLACE PARTITION` publishes is decided by who wrote the
staging slice, which is decided by who holds the lock, so `LiveUnmixed` alone is
not inductive. `IInv` (module `IngestionInv`) adds

1. `LockInv`: the lock row names an attempt exactly while its program counter
   is between acquire and release;
2. `RowsInv`: an attempt's rows are in staging only after its insert and only
   for its own binding, and in `live` only after its swap;
3. `SliceInv`: the slice of a load under way is empty after `ClearStaging` and
   holds nobody else's rows until the swap. This is where exclusion is used: no
   other attempt of the binding can write between;
4. `GateInv`: what the early returns and checks have established about an
   attempt at each program point up to `replace`;
5. `LandedInv`: rows that landed are in the slice, when the extract query
   returns rows of its own period;
6. `StatusInv`: the status a live attempt has or is about to be given.

`ingestion_safety` checks `IInv` as an invariant on the small instance. The
proof that a step preserves it has one lemma per conjunct, with a step per
action under it. `DataStays` and `Refinement` follow from the invariant: a swap
replaces the slice by exactly the attempt's own rows, any other step leaves
`live` alone. For `HistoryFollows` the invariant is carried past the swap
(`SwapDone`): from `drop` until the lock is released the live slice is the
attempt's own, because nobody else of the binding can swap.

| theorem of `DeliveryProofs`, `TriggersProofs` | statement | assumed besides |
|---|---|---|
| `FilesLoadOnce` | `Spec => []LoadedOnce` | one watcher |
| `StoredUnlessTold` | `Spec => []AcknowledgedUnlessTold` | nothing |
| `TriggerInvariance` | `Spec => []IInv` | nothing |
| `AnswersNameOwnLoads` | `Spec => []AnswerNamesOwnLoad` | nothing |
| `KeysNameOneLoad` | `Spec => []OneLoadPerKey` | nothing |
| `WindowsFireOnce` | `Spec => NeverDoubleFires` | one daemon |
| `NoMonthIsSkipped` | `Spec => []NoSilentGap` | one daemon; the routes load into no watermark binding |

The watcher reads the processed set once per binding, so at each point of the
tick every file still listed that has a row must be in `seen`, but for the file
just fired: that is `Watch`, and restarts keep it because the rows stay. With
two watchers both may have read before either loads. `StoredUnlessTold` is
what the code keeps of a promise that `MCDelivery_retry.cfg` refutes with one
fault. Through failing writes and restarts, the upload that was acknowledged or
the one it repeats is stored whole, unless an upload of the same key failed and
its caller was told, or an upload of the same object is under way or failed and
its caller was told. What it takes is that nothing is remembered that was not
begun, and that a write which is broken off is answered (`UInv`).

The push routes look a key up before the load and remember it after it. What
makes two answers agree is that a worker runs one request at a time: `Running`
says that while a load runs its key is still free in that worker's cache,
`Kept` that an answered request has its entry until its worker restarts. Loads
that fail or raise leave no entry, and their retries start over.

The daemon keeps nothing but `load_history`, so `WindowsFireOnce` needs that
what it took on in a tick (`Window`) is still unfired when it comes to it, for
the instant the tick began with. `NoMonthIsSkipped` is the longest argument:
`Gapless` says that from each month that was loaded up to each month that was
attempted every month was attempted, and that the plan in hand begins where the
attempts end (`Adjoins`). It uses a calendar of lemmas: `Selects` of a watermark
is the run of months after the latest one, and the maximum by text of a set of
months is the latest of them. A push may load a month below the scheduler's
first, or far above its watermark, and the months between are never selected:
with three instants and a push of such a month TLC finds `NoSilentGap` violated
(the jump of the watermark is listed under [Disagreements](#disagreements-with-docs-and-comments)).
The hypothesis is therefore that the routes refuse what is asked of watermark
bindings, or nobody asks. The run goes on where the theorem stops: it has a push
right above a month, which leaves no gap.

| theorem of `IntegrationsProofs` | statement | assumed besides |
|---|---|---|
| `Invariance` | `Spec => []IInv` | nothing |
| `RegistryCurrency` | `Spec => []RegistryIsCurrent` | nothing |
| `NoTwoWriters` | `Spec => []OneWriterPerTarget` | nothing |
| `WritesAreAtomic` | `Spec => AtomicityContract` | nothing |

`RegistryIsCurrent` speaks of an API at rest, so the invariant must say what
holds during a write: what the write remembers and has done to its file
(`Progress`), and that the registry is that of the directory without the
temporary file (`InStep`). A rollback restores `found`, which `FilesKnown` and
`Progress` make equal to what the registry has.

### Keeping

| theorem | statement | assumed besides |
|---|---|---|
| `BundleInvariance` | `Spec => []BInv` | no two runs in one second |
| `BundlesAreOwn` | `Spec => []BundleIsOwn` | the same |
| `BundlesAreConsistent` | `Spec => []SnapshotOrder` | the same |
| `RetentionInvariance` | `Spec => []RetentionInv` | the same, and HEAD is answered |
| `RetentionKeepsNewest` | `Spec => []KeepsNewest` | the same |
| `ManifestsOutlive` | `Spec => ManifestOutlives` | the same |
| `RestoreInvariance` | `RSpec => []RInv` | no two runs in one second |
| `OrderedUntilRestored` | `RSpec => []SnapshotOrderUntilRestored` | the same |
| `DrillsTellTheTruth` | `RSpec => []DrillSuccessMeansMatch` | the same, and one call |
| `NothingLostWithoutForce` | `RSpec => NoForceNoLoss` | the same, and `Quiet` |
| `BothRestoredTogether` | `RSpec => RestoredTogether` | the same, `Quiet`, and one call |

`BInv` says whose objects lie under an id (`OwnIds`, `ArtifactsOwned`,
`ManifestsOwned`) and that a plan or a prune under way is of bundles whose run
writes no more (`PlansClosed`). Retention needs more than what is at the
destination, since a prune acts on a listing it took some time ago:
`PlansJustified` says that every delete still planned has a reason now. A reason
(`Reason`) is one of the retention numbers, and it only gets stronger: a
manifest goes when none of its artifacts is left, so what a listing counted as
newer is still counted, and time passes. `DoomedStores` computes a plan by rank;
`DoomedHasReason` turns the rank into the number of newer bundles of `Reason`.
A failing HEAD breaks both properties: a manifest goes before its artifact, and
with it a newer bundle that others were counted by (for `KeepsNewest` TLC needs
a failing store and a denied delete besides, and five units of time).

`SnapshotOrder` is an order of two dumps of one run and of every load:
`LoadOrder` keeps that PostgreSQL never knows more loads than ClickHouse, live or
in a bundle, and that the ClickHouse dump is made after the PostgreSQL dump.
`RInv` adds what a call has fetched, restored and compared. One call, because
two drills share the side databases, and because after a first restore of one
database alone a backup holds the two apart and a second restore takes that
bundle. With `Quiet` nothing else runs beside a real restore. Two runs in one
second break `BundleIsOwn`, `SnapshotOrder` and `DrillSuccessMeansMatch`; for
the other properties of this section TLC knows no counterexample with them, and
the hypothesis is there because the invariant has it.

### Serving

| theorem | statement | assumed besides |
|---|---|---|
| `ServingInvariance` | `Spec => []SInv` | nothing |
| `DisabledUsersStayOut` | `Spec => []DisabledStaysOut` | nothing |
| `CreatedUsersAreWhole` | `Spec => []CreatedUserIsWhole` | nothing |
| `SlotsAreAccounted` | `Spec => []SlotsAccounted` | nothing |
| `NobodyStarvesOthers` | `Spec => []OneUserCannotStarve` | nothing |
| `GateInvariance` (`ExcelSessionProofs`) | `Spec => []IInv` | nothing |
| `SlotsAreAccounted` (`ExcelSessionProofs`) | `Spec => []SlotsAccounted` | nothing |
| `NoRotationNoSignOut` (`ExcelSessionProofs`) | `Spec => OnlyGenuineSignOut` | no rotation, no fault |

A semaphore (`Consistent`) conserves free slots, held slots and slots handed
over; every waiter is in the queue exactly once, and nobody queues beside a free
slot. A request goes through two semaphores, so `Underway` ties its place to the
slots it has, and a lemma per operation (`Acquire`, `Release`, `Left`, a
hand-over) shows that the operation keeps `Consistent`. `NobodyStarvesOthers`
follows: who holds or was handed a slot of the box holds one of its user's.

For the commands, `Owned` says that the account a creation made is there as
long as its own rollback has not begun, and that a second creation of the same
id fails at Keycloak before it has anything to roll back; `ShutOut` carries what
a request that came too late may still do.

The gate of the add-in is one such semaphore of its own making: `inflight` is
the number of holders, and a queue only exists while every slot is taken.
`NoRotationNoSignOut` is what remains of the promise that
`ExcelSession_rotate.cfg` refutes: each of rotation, a lost answer, a click on
Disconnect and the end of a session (after which the user signs in while an old
call still holds its refresh token) refutes it alone.

### Reports

| theorem of `ReportingProofs` | statement | assumed besides |
|---|---|---|
| `ReportInvariance` | `DSpec => []GateInv` | `NamesApart`, `FactsOfScenarios` |
| `ScopeInvariance` | `DSpec => []ScopesHold` | the same |
| `QueryInvariance` | `DSpec => []QueriesMeant` | the same |
| `OnlyGatedIsRead` | `DSpec => []ReadsWhatWasGated` | the same |
| `DiscoveryIsSound` | `DSpec => []DiscoveryAgreesWithReports` | the same |

They are for any rows and additions, metrics, domains, dimensions (ragged ones
too), profiles, requests and fact tables, and any number of failing reads,
created scenarios and swapped tables. The constants have the types of
`ScenariosAssumption`, `RequestsAssumption`, `DimensionsAssumption` and
`FactTablesAssumption`.

*Names.* A stage that looks a reference up anew must find what the gate found,
or nothing. `NamesStay` says so: a key that one registry resolves to scenarios
there were at the start is resolved alike by every registry that loads.
`SingleStays` shows it of a scenario and its shifts, `BodyKeys` of the two sides
of a comparison. The engine also looks up keys that it has made itself:
`OwnKeyAgain` and `VersusAgain` say that the registry's own key of a node names
no more than the node, although a comparison key is split at its first `vs`.

*Hypotheses.* The registry checks the form of aliases and that no two rows it
loads share an alias or an id, but never ids against aliases. So the theorems assume `NamesApart`, by which
ids and aliases look as the repository's own do. Without it TLC has
counterexamples: a scenario is created whose alias is the id of another; the
id of a created scenario is a shifted key (`actuals_py`); an alias ends in
`vs`; a scenario is created with an id in use (the registry no longer loads, but
the engine still looks up parents by id). `FactsOfScenarios` says that a fact is of some
scenario; else the target of a fork that is an alias, which the engine takes
for an id, could name facts of no scenario, and those are read without a gate.

*The gate.* `GateInv` carries `GatedRef` from the gate through `NormaliseBlock`
and the resolver: whatever registry loads, the reference resolves to
scenarios in `ids` only, and so do its fork's parent and its fork's target. It is
a statement about every later registry, which makes it inductive although
scenarios are added between the stages. `ForkedIsAllowed` closes it: a row that
is added is not the row of a scenario there was, so its parent is the one that
was gated.

*The scopes.* One filter is sent with every statement of a call, whatever
scenario it reads. `ScopesHold` says that from the scope check on it is the
filter that the scope of each scenario in `ids` gives (`Within`), since the check
refuses scopes that differ. `EffectiveShows` says what such a filter lets
pass: the members that the caller asked for and that the scope shows, by the
definition of `ShowsMember` that has no filters in it.

*The statements.* `QueriesMeant` says that every query of the plan, and every
one still to be read, is about the scenario, months and modifiers of its
reference, as the scenarios stood at the start. Together with `ScopesHold` the
source of a query in its span is exactly `MeantFacts` (`SourceIsMeant`), and a
statement counts all of it, or, for closing balances, a part
(`StatementsOfSource`).

*Discovery.* The last answer is judged in the state after the step that gave
it, so `DiscoveryIsSound` has a lemma per tool. `SearchFinds`: the union that
`VisibleSomewhere` builds from filters is what some readable scope shows.
`ListingFinds`: the listing's test on ids agrees with the verdict of the gate.
`InspectionFinds`: the gate, the store's lookup and the scope check of an
inspection agree on one scenario, whichever of the two lookups fails, and its
conditions are those of a report's column.

### Only model-checked

- Liveness: `PublishesOrGivesUp`, `LockIsReleased`, `EveryAttemptFinishes`,
  `EveryFileFires`, `WindowsAreServed`, `NeverHangs`, `EveryCallEnds`. Liveness
  under fairness and `ENABLED` are out of the prover's reach.
- `AnswerIsTheReport` and `NumbersAreOfOneTable` compare what folds over data
  compute: sums of facts, derived metrics in the order of their operands. That
  needs induction over data; the library's induction theorems take operators as
  parameters, which the installed provers cannot instantiate. What they rest on,
  that each statement counts the facts it should, is proved.
- `GoodRequestsAreAnswered` says that no later stage refuses what was accepted
  and permitted. It is no theorem for every value of the constants: scopes are
  compared as they are written, so two that show the same members may be
  refused together (see below). The instance has no such pair.

No module that is proved about declares a RECURSIVE operator.

## Disagreements with docs and comments

`ingestion_stray` is a run: it checks one sentence of the repository and finds
it violated. The other configurations show a disagreement in the same way when
they are run by hand; they are no part of the list of runs.

| configuration | property | the code |
|---|---|---|
| `MCIngestion_stray` (run) | `NeverEmptied` | the zero-row guard tests what the query returned, not what landed in the slice; a query that returns only other periods' rows empties the live period |
| `MCIngestion_conflict` | `ConflictNamesAnother` | a refused load names itself as the load in flight |
| `MCIngestion_leftover` | `FailedChecksMeansBadData` | checks read other periods' leftovers in staging |
| `MCRestore_pruned` | `VerifiedBeforeTouched` | live databases dropped for an artifact that is gone |
| `ExcelSession_rotate` | `OnlyGenuineSignOut` | parallel 401s spend one rotating refresh token and sign the user out |
| `MCIntegrations_temp` | `AlwaysLoadable` | the temporary file of a write ends in `.yml`: another process that loads meanwhile reads it as a duplicate |
| `MCDelivery_retry` | `AcknowledgedIsStored` | the retry of an upload whose write failed is answered as a duplicate |

Noticed while modelling, and not kept as a configuration. The models have the
behaviour or name it as the limit of a property.

Loading:

- the lock of a load is never looked at again after it was acquired
  (`lockconn`);
- an attempt recorded as `failed_swap` may be live, when the statement after
  `REPLACE PARTITION` is what failed (`clickhouse`), although
  docs/operations/troubleshooting.md says live is untouched;
- a binding whose kind of source has no store in the watcher's process, and a
  file that cannot be read, end every tick at the same place (`Blocked`), while a
  listing that fails costs its own binding alone;
- `success` is recorded without a swap for a load stopped after an earlier
  stage, and the watermark counts it;
- a ClickHouse driver exception in the validate stage leaves the row `running`
  (`metadata`);
- a cron instant that passes while the loads of the previous one still run is
  swallowed: the rows written meanwhile count as its attempt;
- one success of an adjustment period blocks a watermark binding, whose
  selection raises on every later tick; a push of a later month jumps the
  watermark over the months before it;
- a file whose write is under way or was broken off is loaded as it is, and its
  row keeps the whole file from being loaded later.

Integrations:

- a create over a file that was placed by hand, when it fails to reload, is
  rolled back by removing that file;
- the delete of an entity that lives in a file of another name answers 204 and
  leaves it loaded;
- the daemons and the MCP server go on with the registry they loaded.

Keeping:

- a HEAD that fails lets a manifest go before its artifacts (`head`), and two
  runs that start in one second share a run id (`same_second`);
- a load published between the non-empty test of a restore and its DROP is lost
  without `--force`, and a backup taken during a restore may be inconsistent
  (`Quiet = FALSE`);
- the row counts a drill compares with are read after the dumps, so a load in
  between fails the drill of an intact bundle.

Reports:

- of two queries that read the same rows one is dropped, and the column of the
  second reference is empty; resolver.py:683 says the query that stays "covers
  both scenario_keys";
- under a shift by one month, `quarter` and `fiscal_year` map the labels of two
  months to one key and one value is lost;
- a fork whose target is given by alias reads nothing, since the target is
  taken for an id; inspection of a shifted key or one with modifiers returns no
  rows and no error;
- scopes of two scenarios are compared as they are written: one unrestricted
  and one that lists every member are refused together;
- `create_scenario` accepts an alias in use, after which the registry does not
  load and no scenario resolves;
- aliases are checked among themselves (`_validate_alias`) and never against
  ids: an id that is another's alias, or that looks like a shifted key, changes
  what a reference names between the gate and the statements;
- a filter no domain of the report has is dropped with a line in the log;
- in soft mode the validator accepts a parent dimension of another domain that
  the resolver refuses, and the resolver accepts a bound dimension of another
  domain that the retriever cannot group by;
- `search_hierarchy` with an unknown dimension searches all of them;
  `compatibility_aliases` of `list_scenarios` is always empty.

Serving and administration:

- a call that has its read slots may wait without bound for a thread of the
  default executor, behind the bounded wait that concurrency.py:86 promises to
  turn "a stuck slot into a clean retryable error rather than a hang";
- `tools/call`, `initialize` and `tools/list` without an id are answered,
  although a comment says notifications get no response;
- connection errors to Keycloak are no `KeycloakAdminError`: `disable_user`
  then ends before its UPDATE, and a creation whose answer was lost leaves an
  account that nobody rolls back and that makes the id unusable (409);
- `delete_profile` writes its audit row before the DELETE, which may fail;
- a renewed assignment keeps the old `expires_at`;
- a token refresh granted after the user clicked Disconnect connects the add-in
  again, without the endpoints a later refresh needs.

## Not modelled

- The sidecar's own schedule and the listings of the backup CLI: calls of
  `run_backup` overlap freely in `Backup`, which is more than a schedule does.
- Loading and validating the catalogue's YAML, its reload (one assignment of a
  reference), ibis backends, ragged views, scaling, labels, formats, Excel
  layout: data transformation that no other state depends on.
- Write scopes and plan locks: the repository has no caller of them. Renaming
  of scenarios and the YAML runner.
- Passwords, token verification, OAuth discovery, static files, the security
  audit log.
- Migrations and DDL runners, which run before the server starts.
- File formats, drivers, object-store clients, connection pools, start-up,
  metrics, deployment scripts.
- The content of PostgreSQL and ClickHouse beyond who wrote what, except in the
  report modules, where a fact table is a set of facts.
- A ClickHouse statement that takes effect after its caller has given up and
  moved on: the repository does not say how long the server may take.
- Two drills at once: they share two side databases by name, and TLC finds
  `DrillSuccessMeansMatch` violated as soon as drills of two bundles overlap.
  Nothing in the repository says they may; the runs have one drill at a time.
- Orphaned artifacts of a run that died before its manifest: nothing lists
  them, so no property of the code can be stated about them.

## Plan

1. *Migrations*: `schema_migrations` and the order in which versions apply,
   beside a server that starts too early.
2. *Catalogue reload* beside reports, with the reference each stage reads.
3. *Completeness*: `GoodRequestsAreAnswered` as a theorem, for scopes that are
   written alike.
