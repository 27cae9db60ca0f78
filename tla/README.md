# A verification model of snapl

TLA+ modules of the parts of snapl where order, failure and concurrency decide
whether it is right, TLC configurations that check them on small instances, and
theorems, for every instance, about each of these parts, whose proofs TLAPS checks.
Every safety property a passing run checks is among them, four under a condition that
[the table](#proofs) names and the run meets.
Paths below are relative to `packages/` of the repository unless they begin with
`specs/` or `docs/`; `orchestrator/` stands for `orchestrator/snapl_orchestrator/`
and likewise for the other packages.

Contents: [inventory](#inventory), [modules](#modules), [runs](#runs),
[what Temporal and asyncio are taken to do](#assumptions), [proofs](#proofs),
[disagreements](#disagreements), [plan](#plan), [not modelled](#not-modelled).

<a name="inventory"></a>
## Inventory

snapl keeps a fabric of SR Linux devices at the configuration that a source of truth
(Infrahub) holds.  A worker runs Temporal workflows; the workflows call activities,
which call the executor (gNMI SET), the collector (gNMI GET), the observer (the
difference) and the durable audit log (SQLite).  Operators start workflows and steer
drift schedules from a CLI, which is another process with the same audit log open.  The
source of truth itself is filled by a seed task, and people edit it in its own interface.

| Component | Code | State it keeps | Operations |
|---|---|---|---|
| DeployIntent | `orchestrator/workflows/deploy_intent.py` | where one execution stands, its desired state, what was collected; at most one open execution per device (workflow id `deploy-<device>`) | run, cancel; fetch, apply, collect, detect, a record around each |
| ReconcileDevices | `orchestrator/workflows/reconcile_devices.py` | the deduplicated targets, one child each, what each gave | run, cancel |
| ScanDrift | `orchestrator/workflows/scan_drift.py` | the devices listed, one evaluation each | run, cancel |
| DriftResponse | `orchestrator/workflows/drift_response.py`, `remediation.py` | one run: its scan, what it selected, its repair | fired by a schedule; cancel; closed by timeout |
| Drift schedules | `orchestrator/schedules.py`, `presentation/cli.py` | the server's Schedule: interval, mode, paused, running | ensure, set, pause, resume, trigger, delete, describe |
| Audit log | `orchestrator/audit/` | rows of `audit_events`, a lock per process, SQLite's one writer | append; query by workflow, device, time range |
| Executor | `executor/gnmi/executor.py`, `renderer.py`, `templates/` | a lock per dial host | apply, rollback, dry_run, apply_batch |
| Collector | `collector/gnmi/` | none | collect, collect_batch |
| Drift detection | `observability/structural/`, `orchestrator/adapters/srlinux.py` | none | normalize, diff, report |
| Events, observer log | `observability/events.py`, `audit.py` | handlers, a bounded list | emit, append |
| Intent store | `intent/infrahub/store.py` | none; reads Infrahub, deletes a device | get_desired_state, get_schema, delete_device |
| Seed, schema, identity | `intent/infrahub/seed.py`, `schema.py`, `identity.py`, the task `tasks/demo.py` seed | none; a client's cached schema; write Infrahub | identify, provision and wait, seed |
| CLI | `presentation/` | none | one command, one workflow or one schedule operation |
| Worker wiring | `orchestrator/worker/` | clients | start, register |

**How they meet.**  DeployIntent is called by the CLI and, as a child, by
ReconcileDevices; ReconcileDevices by the CLI and by DriftResponse; ScanDrift by the
CLI and by DriftResponse; DriftResponse by a schedule.  They share the devices, the
source of truth, the audit log, and one workflow id per device, which is the only lock
between two deploys of a device.  The seed task, the reads of the workflows and
delete_device meet in Infrahub, with no lock between them.

**What is hard.**

* An activity attempt that is cut off (timeout, cancellation, crash) goes on: the
  thread of a SET, or the transaction of an INSERT, may still take effect after the
  workflow has moved on, returned, or been followed by another.
* Cancellation is delivered once, at whatever await the workflow stands, and a child
  that absorbs it returns normally.
* A child outlives, or is terminated with, its parent, by a close policy.
* The change of a schedule and its record, the description and the write of an update,
  the two GETs of a collection, and the three queries of a desired state are separate
  calls that others can come between.
* A SET merges.  What intent no longer says stays on the device.
* A seed is some dozens of requests with no transaction round them.  Any may be the last,
  and the one that was under way may land during the next run.
* A schema is accepted at once and registered later; the client drops, without a word,
  the attributes its cached schema does not know.

**What makes each component right.**  A deploy: a result is never told without its
record, a write never without the record of what it wrote, a success stays true, every
run ends.  A reconcile: its result tells no more than its deploys did, and it returns
only when they have closed.  A scan: each device once, each half of a verdict true at some
moment, and the verdict in the log.  A response: no unattended write that was not selected
and recorded, and a run that ends on its own, so that its slot is free again.  A schedule:
no unattended writes nobody agreed to, a history that fits.  The log: append-only, once, durable.  Detection: a
report tells what the device has, and what a deploy wrote reads back as clean.  The
seed: nothing written to another project's instance, a result that is true of the
records, a run that can be repeated after any failure.  The intent store: an answer
loses no child that stood all the time, tells none on a device it was never on, and gives
it an address it has, of those the client knows.

The hazards behind these properties are listed one by one, each at its line, in
`PROJECT.json`.

<a name="modules"></a>
## Modules

| Module | Models | Composes |
|---|---|---|
| `DeployContract` | what a caller may rely on: one open deploy per device, and how a run closed tells whether it wrote | |
| `DeployIntent` | the workflow, its activities and retries, the SET thread, the INSERT, source of truth and device | implements `DeployContract` |
| `DeployIntentProofs` | theorems about the log of `DeployIntent`, then about what a deploy tells and leaves | |
| `Dedupe` | `list(dict.fromkeys(...))`, told by its result | |
| `Reconcile` | the workflow over deploys | extends `DeployContract`, `Dedupe` |
| `ScanDrift` | the workflow over changing intent and devices | extends `Dedupe` |
| `DriftResponse` | the workflow, its schedule slot and its two children | |
| `DriftSchedule` | schedule, operators' commands, runs, records | |
| `AuditLog` | what the log promises | |
| `SqliteAudit` | processes, attempts, locks, transactions, timestamps | implements `AuditLog` |
| `DriftCheck` | rendering, SET, GETs, normalization, difference, for one device | |
| `SourceOfTruth` | Infrahub: records by natural key, schema batches, requests that land late | |
| `SeedIngest` | the seed task: identity, schema, records | extends `SourceOfTruth` |
| `IntentStore` | a read of desired state, delete_device | extends `SourceOfTruth` |
| `IntentSystem` | the two over one source of truth, with edits by hand | extends both |
| `IntentSystemProofs` | theorems about `IntentSystem` | |
| `ReconcileProofs`, `ScanDriftProofs`, `DriftResponseProofs`, `DriftScheduleProofs`, `SqliteAuditProofs`, `DriftCheckProofs` | theorems about the module of that name | |
| `MC...` | small instances for TLC | the module of the same name |

### DeployIntent

`exec[d]` is the open execution of device `d`: `pc` names the await it stands at
(`"started"`, `"fetched"`, `"applied"`, `"collected"`, `"detected"`, `"terminating"` and
`"cancelling"` are records being written; `"fetch"`, `"apply"`, `"collect"` and
`"detect"` are activities), `attempt` the attempt in flight.  One action per
outcome of an await: `RecordWritten` and `RecordAttemptFails`; for an activity it
answers (`FetchSucceeds`, `ApplySucceeds`, `CollectAnswers`, `DetectAnswers`), answers
no (`FetchRejected`, `ApplyRefused`), or its attempt is lost and is retried or was the
last (`...AttemptFails`).  `CancelActivity` and `CancelRecord` deliver a cancellation;
`ServerTerminate` and `WorkerCrash` come from outside.  What an abandoned attempt was
doing stays in `writing` and `setting` and may take effect later (`LateRecord`,
`LateSet`) or not at all.  A SET in `setting` holds its host's lock until its thread
ends, except when its attempt was cut off by its own timeout: then `asyncio` has left
the `async with` and the lock is free (`locked`).

Intent and device are compared by entity (`EntityOf`, an interface or a session): of an
entity intent has, every field is compared, those it leaves unset too (`Wanted`,
`Forward`; `diff.py:229`), and what other entities carry is undesired. The terminal record
of a result carries its reason, but for WORKFLOW_CANCELLED, which names none (`RecordOf`,
`Tells`).

`landed` (the executions a SET of which reached the device), `writer` and `edited` are
history: they are read by properties only.

### Reconcile, ScanDrift, DriftResponse

One record per execution, again with the await it stands at as `pc`.  The retries of
an audit write are one step in these modules: the record is in the log, or its last
attempt failed and it may or may not be.  Children are what their own modules say of
them: `Reconcile` extends `DeployContract`, so its children share the workflow ids, and
the deploys, of whoever else deploys; `DriftResponse` takes from a scan one verdict per
device, an empty result (absorbed cancellation), a failure or a cancellation, and from
a reconcile a result per device or none.

What a result of `Reconcile` says of a device is held against how the device's own deploy
closed (`Earned`).

In `ScanDrift`, what a device is meant to carry is a version, and each of its two halves,
interfaces and neighbors, carries one, which agrees with it or does not; all of it changes
while the scan runs. `Collect` is two GETs, one for each half. `been` and `edited` are
history: how each half stood beside its intent at some moment since the scan began, and
which intents were edited.

In `DriftResponse`, a run may be closed by the server at any moment (`CloseByServer`), with
the record it was writing in the log or not.

### DriftSchedule

`schedule` is what the server keeps, `task[o]` the command an operator is at and how
far.  ensure and set are a describe and a write (`DescribeForUpdate`, `Update`), the
other changes one call; every one is followed by the append of its record, which may
fail or never be reached after the server took the call (`RecordFails`).  At any other
place a call may fail, or the process stop, with nothing changed (`Break`).  A schedule
keeps whether its runs have a timeout: ensure writes one that has none even when its
interval is as asked, and then has nothing to record (`NoUpdate`).

`applied`, `consent` and `alone` are history.  `consent` is the agreement to unattended
writes that stands: given by an operator who answered the question of the CLI, withdrawn
by a switch to report and by a delete, and "revived" when an update built on a description
from before brings the mode back.

### SqliteAudit

An attempt of an append waits for its process's lock, connects, inserts, commits and
leaves; a retry runs beside an attempt that has not been told it was given up.
Timestamps are kept as text with an offset and compared as SQLite compares them;
`InRange` is the set of row ids a time range selects, in whose order the code returns the
rows.

### DriftCheck

One device with ports and neighbours, each a record of fields.  `Deploy` renders
(`RenderInterface`, from the templates) and merges; `GetInterfaces` and `GetNeighbors`
are the two GETs, whose answers come whole or in two fragments (`Fragmented`), are put
together by `MergeFragment`, translated by `NormalizeInterface` and compared by
`ForwardItems` and `UndesiredItems` against `ENTITY_FIELD_MAP` (`InterfaceSpec`,
`BgpSpec`).  Intent and device are edited at any moment.  `put`, `disturbed` and `read`
are history.

### SourceOfTruth, SeedIngest, IntentStore, IntentSystem

An item of the seed data is a record's key, its attributes, what it needs, what it takes
if it is there and the address it brings; `Items` has those the sections of `seed.py`
can give (a child with its one device, at most one address).
`records` maps a natural key, `<<kind, name, scope>>`, to a record: one `value` that
stands for its plain attributes, its `use_case`, and `refs`, the records its relations
name.  `loaded` and `registered` are the schema batches given to the server and those it
shows; `Register` is the server's own.  `late` holds requests whose sender is gone.

`seed` is one run of the task.  `pc` names the request it is about to send:
`"identifying"` and `"counting"` (`identify`; `Require` is the guard of the task),
`"loading"` and `"polling"` (`provision_schema`), then per item `"next"` (`Resolve`, the
lookups of what it refers to), `"address"` and `"making"` (`_materialise_ip_address`),
`"lookup"` and `"saving"` (`_upsert_item` and its like).  `stage` is `"sections"` for the
generic sections in `SEED_ORDER`, `"groups"` for the shadow peer groups, which the code
takes from a Python set and so in any order, and `"sessions"`.  `cache` is the schema the
client knows: what a record is written with (`Written`) depends on it.  A read that
fails ends the run (`LookUpFails`); a write that gets no answer ends it too and may land
later (`WriteLost`, `LateRequestLands`); the operator may run the task again (`Begin`).

`reader` is one call of get_desired_state: the devices, then `"interfaces"`, then
`"sessions"`, then the answer, put together by `DeviceOf` (`_group_by_device`) and
`SelectAddress` (`_select_interface_ip`). A relation may come without an id (`Unnamed`),
and then the answer is refused when several devices were asked for (`ReadRefused`). An
address may miss the client's store (`Missing`), and then it reads as if the child did not
have it (`Resolved`); `missed` keeps which did. `deletion` is the device a call of
delete_device has found. Server ids, which the code passes between its queries, are not
kept: `gone` says which of the ids a read holds belong to nothing any more.

`made`, `disturbed`, `stood` and `ever` are history: the records that came to be during
the current run of the seed, whether anybody else changed one meanwhile, and the
children that stood throughout, or at some time during, the current read.

<a name="runs"></a>
## Runs

| Run | Instance | What it shows |
|---|---|---|
| `deploy` | 1 device, 1 path, 1 execution, 2 attempts of each activity, timeouts | types; the log has no gaps (`RecordsInOrder`); a returned result is recorded (`ReturnedResultIsRecorded`); no two terminal records (`OneTerminalRecord`); no write without an account (`WriteIsAccountable`); every run ends (`EveryRunEnds`); the contract is kept (`ImplementsContract`) |
| `deploy_device` | 2 executions, 2 fields of one entity, a value, no attempt passes its timeout | a success stays true until somebody else acts (`SuccessHolds`); SETs arrive in the order of their runs (`WritersInOrder`) |
| `deploy_orphan_set` | 2 executions, 1 field, 2 values, with timeouts | *violated*: `WritersInOrder` |
| `reconcile` | 2 devices, 2 deploys each, lists of up to 3 ids | a result is valid and says of each device how its own deploy closed (`ResultIsEarned`), it is returned when they have closed (`ReturnedMeansSettled`), the records fit it (`RecordsFit`); it ends |
| `scan` | 2 devices, listed once or twice, 1 change | each device told once, and as the log has it (`ScanTellsEveryDevice`); of a device called clean each half agreed at some moment, of one called drifted some half did not (`VerdictWasTrue`); it ends |
| `response` | 3 devices, 1 run, any verdicts | a cancelled scan is no clean scan (`ReturnedMeansScanned`); decisions and ending are recorded, and only what was found fixable is repaired (`DecisionsAreRecorded`); a run ends on its own, however its scan and its repair close, with no timeout to end it (`SlotIsGivenBack`) |
| `schedule` | 3 operators, 1 command each, 2 intervals | the trail fits the changes (`TrailFitsTheChanges`); remediate has an agreement that was not withdrawn, unless an update raced another command and brought it back (`RemediateWasConfirmed`); replaying the history gives the schedule (`HistoryTellsTheSchedule`) |
| `schedule_ensure` | 2 operators | *violated*: `EnsureKeepsTheRest` |
| `audit` | 2 processes, 2 events, 2 attempts each, 3 instants, 2 offsets | the log is what it promises (`ImplementsAuditLog`); a range is exact (`RangeIsExact`) |
| `drift_check` | 1 port and `mgmt0`, 1 neighbour, 18 intents, any 2 edits | reports tell the device; a deploy converges up to what a merge leaves; no phantom drift |
| `drift_check_unfixable` | the same | *violated*: `RepairCanFix` |
| `sot` | 2 runs of the seed, 2 versions of the data and an incomplete one, a VRF, 2 devices and one of another project, an interface, 2 addresses, a session and its group; 1 edit or deletion | a finished seed is true (`SeededMeansDeclared`); it can be run again (`OnlyDisturbedSeedsAreRefused`); another project's instance is not written (`NothingIsWrittenToTheirs`); an answer of the store holds what stood, silent about the addresses the client missed and no others (`AnswerHoldsWhatStood`); every run ends (`EverySeedEnds`) |

A *violated* run checks one sentence of the repository and finds that the code does
otherwise; see [disagreements](#disagreements).

**Bounds, and why they are enough.**

* `MaxRuns` (executions of one workflow id): an effect left behind by one run can only
  harm the next, so two are needed to compare runs and one for what a run does by
  itself.  Devices do not share state in `DeployIntent`, so one device is enough there;
  the proofs have any number.
* Two fields of one entity, each with a value or none, have an intent that sets one and
  leaves the other unset, and two intents that differ; for the order of SETs one field and
  two values do.
* Attempts: two attempts have a retry and a last attempt; a third adds nothing new.
  `DETECT` has one, as in the code.
* `MaxIds = 3` for two devices contains every pattern of a duplicate; `MaxListed = 3`
  likewise.
* `Operators = 3` with one command each: a describe and write with two commands in
  between, which is what is needed for a change to be made and undone.  The initial states
  are the settled schedules of both modes, paused or not, running ones from before runs had
  a timeout, and none.
* Instants `0..2` are half seconds: a whole second, a fraction and the next second,
  which are the two cases `isoformat` prints differently.
* `MaxChanges = 1` in `ScanDrift`: one change of both halves of a device, or of its intent,
  before, between or after its two GETs, makes a report stale, or joins two moments; the
  proof has any number.  Versions are told apart and nothing else, so the initial states
  are one of each kind (`OneOfAKind`).
* `MaxEdits = 2` in `DriftCheck`: an edit before a deploy and one after it, or two while
  a device is being read.
* `MaxSeeds = 2` and two versions of the data: one run breaks, or ends, and another finds
  what it left; the versions differ in every value and in the interface's address.
  `MaxPolls = 2`: a poll that finds the schema missing and is not the last, and one that
  is.  The initial servers are a fresh one, one with the base schema, and one with the
  base schema and another project's device.
* `MaxChanges = 1` in `IntentSystem`: one edit by hand or one deletion.  A seed and late
  requests change the records during a read besides, so a read has more than one change
  to cope with.
* The instance of `IntentSystem` has one use case, with two devices, and one device is
  asked for by its id: both ways of `DeviceOf`.
* `Closings` in `Reconcile` has one representative of each class of endings the
  contract and the workflow tell apart.

Deadlock is not checked: executions close, operators stop and the bounds end the runs.
That the workflows do not get stuck is what the liveness properties say.

**Fairness.**  `DeployIntent` and `ScanDrift` assume weak fairness of what a running
worker and the server do for an open execution: every activity has a start-to-close
timeout and a finite number of attempts, so an await is answered, retried or given up.
`Reconcile` assumes in addition that each deploy goes on until it closes, which is
`EveryRunEnds` of `DeployIntent`.  `DriftResponse` assumes that a worker goes on with the
run and that its scan and its repair close in one way or another, which is
`EveryScanEnds` and `EveryReconcileEnds`; of the execution timeout nothing is assumed, since
a schedule made before runs had one starts runs without it.  `IntentSystem` assumes that a running
seed goes on: each of its requests is answered or runs into the client's timeout, and a
poll into its deadline.  Of the server's registration of a schema nothing is assumed.
Nothing is assumed of operators, cancellations, crashes or late effects.

<a name="assumptions"></a>
## What Temporal, asyncio and the device are taken to do

The library is temporalio 1.25; these are its defaults wherever the code sets none.

* One open execution per workflow id.
* Activities run at least once.  An attempt is not told that its workflow was cancelled
  or that it was timed out by the server (none sends heartbeats); its own start-to-close
  timeout cancels its `asyncio` task in the worker, but no thread it waits for.
* A cancellation is delivered once and raises at the current await; at a gather it
  reaches every branch that has not finished.
* A child is waited for when its parent is cancelled (`WAIT_CANCELLATION_COMPLETED`)
  unless the code says `TRY_CANCEL`; a child that returns normally makes the
  cancellation vanish.
* A parent that closes terminates its children, unless the policy is ABANDON.
* An execution timeout closes a run without running any of its code.
* An exception that is not a failure of Temporal's, a pydantic error for example, makes
  the workflow task be retried for ever.
* A schedule with overlap SKIP does not fire while the run it knows of is open; a
  deleted and re-created schedule knows of none; an update has no conflict token.
* A gNMI update at `/` is one transaction and merges.  A port with any configuration
  reports the default mtu 9232 (`structural/diff.py:48`).
* Infrahub keeps natural keys unique and refuses to create a key it has; it refuses an
  update of a record that is gone and a relation to a record it does not have.  A
  deleted device takes its interfaces, sessions and groups with it, and its id is never
  given again.  A query by `device__ids` returns only children of those devices.
* A request that lands late does so once or never, and as it was sent.
* Schema batches are registered in the order they are loaded, at any time or never.
* The default namespace of addresses exists, and no one adds another project's devices
  between the identity check of a seed and its last write.

<a name="proofs"></a>
## Proofs

Everything below is proved by TLAPS of the specification the runs check, for every
value of the constants that satisfies the named assumption of the module; the runs of
`ScanDrift` start from some of its initial states, the proofs from all.  TLC checked each
inductive invariant on the small instance first.

| Module, of | Theorem | Property |
|---|---|---|
| `DeployIntentProofs`, `DeployIntent` | `TypeCorrect` | `TypeOK` |
| | `Invariance` | its inductive invariant |
| | `RecordsStayInOrder` | `RecordsInOrder` |
| | `ReturnedResultsAreRecorded` | `ReturnedResultIsRecorded` |
| | `TerminalRecordsAreUnique` | `OneTerminalRecord` |
| | `WritesAreAccountable` | `WriteIsAccountable` |
| | `DeployKeepsItsContract` | `ImplementsContract` (refinement) |
| | `SuccessLasts`, if `~Timeouts` | `SuccessHolds` |
| | `WritersStayInOrder`, if `~Timeouts` | `WritersInOrder` |
| `ReconcileProofs`, `Reconcile` | `ReconcileTypeCorrect`, `ReconcileInvariance` | `RecTypeOK`, the inductive invariant |
| | `ResultsAreEarned` | `ResultIsEarned` |
| | `ReturnedIsSettled` | `ReturnedMeansSettled` |
| | `ReconcileRecordsFit` | `RecordsFit` |
| `ScanDriftProofs`, `ScanDrift` | `ScanTypeCorrect`, `ScanInvariance` | `TypeOK`, the inductive invariant |
| | `VerdictsWereTrue` | `VerdictWasTrue` |
| | `EveryDeviceIsTold` | `ScanTellsEveryDevice` |
| `DriftResponseProofs`, `DriftResponse` | `ResponseTypeCorrect`, `ResponseInvariance` | `TypeOK`, the inductive invariant |
| | `ReturnedRunsScanned` | `ReturnedMeansScanned` |
| | `DecisionsStayRecorded` | `DecisionsAreRecorded` |
| `DriftScheduleProofs`, `DriftSchedule` | `ScheduleTypeCorrect`, `ScheduleInvariance` | `TypeOK`, the inductive invariant |
| | `TrailIsTrue` | `TrailFitsTheChanges` |
| | `UnattendedWritesWereAgreed` | `RemediateWasConfirmed` |
| | `HistoryIsTrue` | `HistoryTellsTheSchedule` |
| `SqliteAuditProofs`, `SqliteAudit` | `AuditTypeCorrect` | `TypeOK` |
| | `TimeRangeIsExact` | `RangeIsExact` |
| | `AuditIsDurable` | `ImplementsAuditLog` (refinement) |
| `DriftCheckProofs`, `DriftCheck` | `CheckTypeCorrect` | `TypeOK` |
| | `ReportIsTrue` | `ReportTellsTheDevice` |
| | `DeploysConverge` | `DeployConverges` |
| | `NoPhantoms` | `NothingOutOfThinAir` |
| `IntentSystemProofs`, `IntentSystem` | `TypeCorrect`, `Invariance` | `TypeOK`, the inductive invariant |
| | `TheirsStayUntouched` | `NothingIsWrittenToTheirs` |
| | `AnswersHoldWhatStood` | `AnswerHoldsWhatStood` |
| | `SeededTellsTheTruth`, if the data is `Unambiguous` | `SeededMeansDeclared` |
| | `SeedCanBeRunAgain`, if the data is `SelfContained` | `OnlyDisturbedSeedsAreRefused` |

**What they assume.**  Bounds are numbers; `DeployIntent` wants at least one run and one
attempt.  Null values are not values (`Unset`, `Missing`, `Absent`, `Unseen`), and the
word "none", which stands for "no device" in records, is no device.  Offsets of clocks
are whole numbers.  A schedule found at the start has no run open.  A device has finitely many
interfaces and neighbours, meant or there, and addresses come from a finite set; an
intended interface names a prefix length only with its address (`store.py:144`), a session
has its ASN (`models.py`), and no neighbour's address is the name of an interface.  A version of the seed
data is a sequence of items, a finite set of shadow groups and a sequence of sessions,
none of them one of another project's devices, which are finitely many; a child names
exactly one device it needs, an item brings at most one address along (`Items`; the
sections of `seed.py` have one `device` and one address field each), no section declares
addresses, groups or sessions, and only a session refers to what need not be there
(`SectionItems`, `GroupItems`, `SessionItems`).  Some theorems have a hypothesis of their
own.  `~Timeouts` says that no attempt outlives its start-to-close
timeout: the runs `deploy_device` and `deploy_orphan_set` check one side and the other of
it, so it cannot be dropped.  `SelfContained` says that the data makes every record it
refers to before it refers to it; a seed whose data does not is rightly refused.
`Unambiguous` says that the data names each record once and that its sessions name no
peer group it does not declare: of two items with one key the later one stands, and
the group of an undeclared name is not wired (`seed.py:513`) though a record of it may be
there.  `MCIntentSystem` has TLC check both of the instance.

**Deploy: the log.**  None of the four safety properties is inductive.  What makes them
hold is that a record is awaited before the next step begins, while an INSERT whose
attempt was given up may commit later than it should.  The invariant therefore speaks of
the records stored *and* of those on their way: the log holds every record of a step
before the open execution's await (`ExecutionInv`); a record, written or on its way,
follows the records of the steps before it, and a terminal record of the open execution
is the very one it is writing, which is why a retry cannot make a second (`RecordInv`,
`UniqueInv`); a returned result is in the log (`ResultInv`); a SET, landed or on its way,
was preceded by the records of its start and its fetch (`WriteInv`).  The proof has one
lemma per action; an action changes one device, and the log only grows, which carries the
facts about all the other records.

**Deploy: the outcome.**  Here the twenty-three actions are first sorted by what the
contract sees of them: a run starts, moves on, lands a SET or closes (`Moves`, `Lands`,
`Closes`), and everything after that is proved of the four effects.
`ContractInv` says which runs may still write: a run on its way from the start to its
SET, or closed with an ending that says it did not write, has no SET abandoned behind
it; one that has the device's answer has landed one.  That is the simulation.  Without
timeouts a SET that is on its way holds the host's lock and comes from the latest run
that could write (`OrderInv`), so when a deploy has its answer none is left, and what it
collected, what it reported and what it returned stay true in turn (`SuccessInv`).

**Reconcile.**  The invariant ties three things: how a deploy closed says whether it
wrote (`DeploysInv`, the contract again); what a reconcile knows of a device fits how
the deploy it started for it closed (`Answered`); and its records fit where it stands
(`RecordedAt`).  A deploy of somebody else can only start or close a run, which disturbs
none of them, since a closed run stays closed.  That counts add up is a lemma about a
sequence split into those that satisfy a condition and those that do not.
`Deduped` (module `Dedupe`) tells what `list(dict.fromkeys(...))` gives, rather than how
it is computed, so that no induction over the list is needed.

**Scan.**  `Truth` is the heart: how each half of each device stands now is among what has
been (`Current`); and as long as the intent of a device was not edited, the intent an
evaluation fetched still stands, each half it has read stood beside it as it was read at some
moment (`Stood`), and its verdict is of such moments (`Knows`).  The two moments may differ:
no more than this is true of two GETs.  `Accounts`
matches the verdicts of the log with the evaluations, and `Answer` says that a scan that
finishes has every report.  The count follows from a bijection between the targets and
the reports, since a device is listed once.

**Response.**  A decision is recorded from what the scan and the repair told.  The
invariant says that from the first decision on nothing it was drawn from can change
(`Told`: the scan has returned, and the repair is not open), that a decision in the log
is the one that would be made now, and that a last record follows all of them
(`LogInv`).

**Schedule.**  `Trail` says, by where an operator's command stands, what it has changed
and recorded: nothing before the call, a change without a record while it records, both
after it.  `Agreed` says that a schedule in mode remediate has an agreement, and what keeps
it is that only a set whose operator answered writes that mode, and that ensure writes the mode
it described (`Consenting`): one that brings it back without an agreement was built on a
description that no longer stands, which cannot be while commands are given one at a time
(`OneAtATime`, below).  The steps are sorted by effect (a command begins, moves on, changes the
schedule, records), since ensure and set share theirs.

That the records can be replayed needs an invariant of its own (`History`).  `OneAtATime`:
as long as each command was over before the next was given, at most one is open, and what
an update was built on still stands.  `Told`: with nothing to record, the replay gives the
schedule; while a command has a record to write, the replay gives what it was before, and
one more step with that record gives what it is (`Leads`).  Nothing is said once a change
has lost its record (`Unbroken`), nor of the run the server knows of, of which no record
tells (`Rest`).  The replay is a recursive function; the invariant carries that there is
one (`Replayable`), each record adding a value to it (`ReplayOfAppend`), so no induction
over the log is needed.

**Audit log.**  The refinement needs one fact, `CommittedIsHeld`: an attempt that has
committed finds its event among the rows, and rows are never removed.  `TimeRangeIsExact`
rests on `TextOrders`, that the order of the texts is the order of the instants, whichever
offset and whether or not the fraction is printed.

**Drift check.**  A report is made of two answers taken at different moments, each cut
into fragments, merged, normalised and looked up by name.  `CollectedHoldsAll` says what
the merge of any number of fragments holds, whatever order and repetition they come in:
every entry of each, and no other.  `MergeFragment` and `Collected` are recursive
functions, and the module brings the induction they need: a set of numbers has a least
element, so what holds of 0 and carries over from n - 1 to n has no least exception
(`UpTo`), and that such a function exists at all is proved the same way
(`RecursionHasASolution`).  From then on an answer is told by its result
(`TellsInterfaces`): each port once, with one of its addresses, or none, and the mtu it
reports.  The invariant (`IInv`) says that what was read and not yet compared tells the
device as the first GET found it, and the items of a standing report are the comparison of
such readings (`ReadsTheDevice`); that whatever is on the device, or was when it was read,
somebody put there (`AllWasPut`); and that from a SET on the device carries what was set,
and is what was read, until it is edited (`StillCarries`).  The three promises are lemmas
about `ForwardItems` and `UndesiredItems` over such readings.  Two errors of the
properties came to light in the proof: one treated a port named system0 as if it were not
protected, another chose among overlapping cases.

**The intent layer.**  That a foreign source of truth is not written is not inductive:
a run that had already passed the check could write, and so could a request that an
earlier run left behind.  The invariant says that neither exists while one of their
devices is there (`Untouched`: no schema but the base, nothing late, and every run still
at the identity check or over), and that what the runs have to do, and what is late,
never names a record of theirs, so none of their devices can come to be after the check
(`SeedInv`, `TheirsInv`).  The steps are sorted by what they do to the source of truth:
the seed reads, loads, writes or leaves a request behind (`WhatTheSeedDoes`), others
never add a device of theirs (`WhatOthersDo`).

An answer of the store is right because a child keeps its one device as long as it is
there (`RootInv`, of the records, of the late requests and of the item under way), and
what a read has gathered was told of records that stood at some time, and leaves out only
what did not stand throughout (`ReadInv`). What it tells of addresses is a fact about the
last step alone: one of those that resolved is told, an IPv4 one if there is one. The
proof found an error of an earlier version of the model, in which the delete of a device
that was gone removed what has an empty key; the guard of `DeleteDevice` is the code's.

That the task can be run again rests on `SteadyInv`: unless the run was disturbed, what
is left to do finds what it needs among the records and the items before it (`Provided`),
what the run has come to is made or still to do (`Reached`), and the next request fits
the records: an address about to be made is not there, and a record is updated if and
only if it is (`Going`).  Records that broken runs left behind can only help.

**Model-checked only.**

* Liveness, which is out of the prover's reach: `EveryRunEnds`, `EveryReconcileEnds`,
  `EveryScanEnds`, `EverySeedEnds`, and `SlotIsGivenBack`.
* What the *violated* runs refute.

<a name="disagreements"></a>
## Disagreements

Checked by a run of their own:

* **A SET outlives its lock** (`deploy_orphan_set`).  `executor.py:71` says SETs are
  serialized per host and specs/005 FR-009 that one sequence is in progress per device.
  When `apply_config` passes its timeout, its task leaves the lock while its thread
  still runs; a later SET goes out beside it and the older may land last.
* **ensure undoes a pause** (`schedule_ensure`).  `schedules.py:132` says re-running
  setup never un-pauses, nor flips the response.  Its update writes back the schedule it
  described before.  A switch to report, or a delete and a new create, that comes in
  between is undone too: remediate is back without the explicit operator command of
  specs/009 FR-012 (`consent` is then "revived").  When the write only gives an old schedule
  its run timeout, no record tells of any of it.
* **A repair that can repair nothing** (`drift_check_unfixable`).  specs/009 FR-013 says
  a scheduled run repairs only devices with a missing or mismatched value that intent
  sets.  A value put by hand in a field intent leaves unset counts as such a difference;
  the deploy renders nothing for it, its verification fails, and the next run selects
  the device again.

Met while modelling, and told here only:

* A child of a reconcile that is cancelled on its own is re-raised, the gather raises, and
  the server terminates the other deploys (specs/005 FR-004: one device's failure must
  not prevent the others).
* A cancellation delivered while DeployIntent writes a record ends it with no
  WORKFLOW_CANCELLED record (specs/005 FR-011).
* A record that cannot be written in five attempts fails the workflow: no
  WorkflowResult (specs/005 SC-004).
* A crash after the SET has it applied twice (specs/005 SC-003); a merge applied twice
  is the same merge unless the device was edited in between.
* A schedule change whose append raises has happened and is not recorded.
* `schedule mode` writes back the whole schedule it described as well: a pause or a new
  interval that another operator gave in between is undone.
* `trigger` returns the mode described before, not that of the run it started.
* A schedule deleted and created anew can have two runs open (specs/009 FR-006).
* A run closed by its timeout, or cancelled while it records its decisions, leaves
  repaired devices without a decision record (specs/009 FR-020).
* A repair that was abandoned by its run goes on during later runs in report mode.
* Queries by workflow and device return rows by id, which with two processes and a
  retry is not always the order of timestamps (`audit/abc.py`).
* The value an interface had before a change of address in intent stays on the device
  beside the new one, and only the first address reported is compared.
* A seed does not write changed relations of a record that exists (`seed.py:333`, a TODO
  of the code), where specs/001 US2 says a second seed reflects the latest intent.
  `SeededMeansDeclared` promises relations only of records the run made.
* A session's `local_ip` or `remote_ip` that is not there is left out without an error
  (`seed.py:506`), where the other references raise IntentValidationError.
* `schema.py:10` says each batch must land before the next is loaded.  A batch is loaded
  when the one before was accepted; only the attributes of the last are waited for.
* Lookups of the seed carry no branch, its creates do.
* The namespace lookup is outside the `try` of `seed()`: its errors reach the caller as
  the client's own.  A seed of a server without a schema does not raise
  IntentSchemaError, as `intent/snapl_intent/abc.py` says it does.
* A scan reads the interfaces of a device and then its neighbors.  A device that is changed in
  between may be called clean though at every moment one half of it had drifted.
* An address whose node misses the client's store (`store.py:97`; the tests pin it,
  `tests/unit/test_intent/test_store.py:632` of the repository) reads as not there: desired
  state is told without it, or with an IPv6 address in place of the IPv4 one, and no error
  tells.  An ASN that is missing reads as 0 and a peer group as none in the same way, which
  the model leaves out.
* A seed's save that lands during the next run may have that run refused by the server.
* A device seeded or edited between the three queries gives a desired state that never
  was as a whole; each of its children was.  `AnswerHoldsWhatStood` is what remains.
* `delete_device` reports an error when only its answer was lost, and unlike the seed it
  does not ask whose instance it writes.
* `ProvisionResult.changed` is true whatever the server did.  Two use cases share their
  supporting records and the keys of their devices.
* `identify` takes an instance without any DcimDevice kind for ours.

<a name="plan"></a>
## Plan

Done: `DeployIntent` with its contract and first proofs; `Reconcile`; `AuditLog` and
`SqliteAudit`; `DriftResponse`; `DriftSchedule`; `ScanDrift`; `DriftCheck`;
`SourceOfTruth`, `SeedIngest`, `IntentStore` and `IntentSystem`.

Next, in this order:

1. `Executor`: several hosts, the lock per host, apply_batch and rollback; abstract
   specification: one SET at a time per host.
2. `Observer`: the event bus and the bounded log.

Theorems: that `Executor` implements its abstract specification.

<a name="not-modelled"></a>
## Not modelled, and why

* Rendering to the terminal, colours, wording, exit codes: no state.
* Worker start-up, sandboxing, configuration: wiring.
* The in-memory audit log and the `":memory:"` database: only tests use them.
* Path parsing and error classification of the collector: text.
* Router id, AFI-SAFI and peer-group containers of the payload: written, never compared.
* An entry of a list that is itself split between two fragments: the collector's own
  comment says it stays two entries; the model leaves entries whole.
* get_schema and the counts of a ProvisionResult and of a SeedResult other than devices:
  read or printed, never acted on.  YAML parsing and the texts of errors.
* Another use case beside the one seeded, and another project's devices that appear
  while a seed runs: one check, before the first write, is all the code does.
* `tasks/` except demo.seed, `dev/`, `containerlab/`, `development/`: developer tooling
  and a lab.
