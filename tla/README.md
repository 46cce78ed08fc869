# deltaswamp in TLA+

deltaswamp is a Python library (with a Rust extension over delta-kernel-rs)
that reads and writes Delta tables through several engines and catalogs. This
directory models the parts of it whose correctness depends on the order in
which things happen - writers racing for a version, answers that get lost,
clean-ups after failures, caches and credentials that are stale when used - or on
many rules that must agree, and
checks them with TLC and TLAPS. Every definition that models code is listed in
`PROJECT.json` under `map` with the lines it translates.

## 1. The system and its parts

A call travels `Connection` -> catalog (resolve) -> `Table` (one handle) ->
`_request.derive` -> `Router` (choose an engine) -> engine -> native code ->
object store or catalog. What each part keeps and does:

| Part | State it keeps | Operations that change state | What makes it correct |
|---|---|---|---|
| `table.py` `Table` | resolved table, catalog tail, engine picks, identity reservations | append, overwrite, DML, metadata commits, publish, refresh | retries never duplicate a write; a conflict the caller sees is real; nothing is committed on stale metadata |
| `engine/kernel.py` | snapshot cache, newest catalog tail, attempts | append loop, DML loop with rebase, checkpoint, publish | an attempt is repeated only if the previous one certainly did not land |
| `crates/native/src/commit.rs` | staged files, the transaction | stage, commit, classify the answer, remove files | files of a commit that may have landed are kept |
| `dml.rs`, `rebase.rs`, `restate.rs` | deletion vectors, removed files | rewrite rows, rebase over concurrent commits | a concurrent change to the same rows is a conflict, never lost |
| `distributed.py` | `ScanPlan`, `WritePlan`, shipped credentials | plan, write on workers, commit / abort on the driver | fragments land exactly once; abort never deletes landed files |
| `credentials/` | cache per table and operation, vend locks, refresher threads, native slots | get, refresh, invalidate, rotate | a credential handed out is live; one vend at a time; refresh stops with its owner |
| `engine/metadata.py`, `values.py`, `constraints.py` | the commit being built | column, property, constraint, clustering and identity changes | a change is computed from the version it follows; ids and physical names are never reused; the protocol lists what is used |
| `catalog/` | HTTP clients, resolved caches | resolve, create, staging tables, coordinate commits | a failed create leaves no half-registered table |
| `router.py`, `capability.py`, `_request.py` | none (pure) | pick an engine | an engine that would harm the table or misread it is never chosen; no local change strands a table |
| `engine/sql.py`, `sql_backend.py` | statement ids, staged files, the warehouse in use | submit, poll, cancel, stage and load, download | what is said of a statement is so; its rows come back once; staging is cleaned |
| `engine/sharing.py`, `catalog/sharing.py` | links to files, the version being read | list, download, renew, replay | one version's rows, each once, although links expire |
| `Table.cdf`, `changes`, `plan_changes` | how far a follower has got | read a range, poll, plan for workers | every changed version once, whole and in order |
| `Table` reads, `KernelEngine.snapshot` | snapshots, commit tail, enrichment, name check | scan, count, head, dataset, plan, `added_since` | an answer is one version's, and a recent one |
| `vacuum.rs`, `logclean.rs`, `landed.rs` | none | delete unreferenced data files / expired log files | nothing a readable version needs is deleted |
| `predicate.py`, `partition.rs`, `calendar.py`, `intervals.py` | none (pure) | evaluate, prune, convert | pruning keeps every matching row; conversions are exact |
| `engine/deltars.py`, `iceberg.py` | client handles | delegate to libraries | refusals, not wrong answers |


The tests run one engine against fakes and rarely two calls at once. Hard to
test, and what the models are for: two writers, or a writer and a maintenance
command, between each other's steps; an answer that is lost after the commit
took effect, and the retry that follows; a process that dies between staging,
committing and cleaning up; a snapshot, a catalog tail or a credential that was
read before a wait and is used after it; batches of deletes that stop half-way;
a long sequence of legal changes that reaches a table nobody can read rightly.
`PROJECT.json` lists the places under `hazards`, with the properties that cover
each, or why none does yet.

## 2. Modules

| Module | Models | State | Actions and the code they stand for |
|---|---|---|---|
| `TableWrite` | `Table.append` / `overwrite`, `KernelEngine.append`, `commit.rs` | the log, what is published of it, storage; per call its tails, base snapshot, staged files, reply, error | `Open` (`_check_writable`, txn check), `ReadSnapshot`, `Stage`, `Ratify` / `Refuse` (what the log or the catalog does with the request), `Committed` / `Failed` (`finish_commit_as`, `stage_and_commit`), `NextAttempt` (the engine's loop), `Backfill`, `Reread`, `SurfaceConflict`, `ManagedConflict`, `GiveUp` (the handle's loops), and the failures `TailUnreadable`, `TailRefused`, `StageFails`, `Crash` |
| `DistributedWrite` | `WritePlan.commit`, `abort`, `commit_files`, `landed.rs` | the log, storage, requests still under way; per plan where its driver is | `PlanWrite`, `WriteFiles`, `CommitCall`, `Attempt` (tail and landed check), `CheckMoved`, `Snapshot`, `Send...`, `LandLate`, `Publish`, `Reread`, `Unanswered`, `Conflict`, `CertainFailure`, `AbortCheck`, `Delete`, `Crash` |
| `LandOrDiscard` | what a distributed write promises | the jobs whose files each version adds, the jobs whose files are gone | `Land`, `Pass` (a version of others), `Discard` |
| `DmlRebase` | DELETE, UPDATE, MERGE, replaceWhere, OPTIMIZE (`kernel.py`, `kernel_merge.py`, `dml.rs`) | versions as sets of files with rows, deleted rows and vectors; the vector files in storage | `ReadRows`, `PlanCompaction`, `StageFiles`, `Commit`, `Lose`, `Rebase` / `RefuseRebase` (`_rebase_dv_commit`), `Restage` |
| `CredentialRefresh` | `credentials/databricks.py`, `refresh.py`, `credential_slot.rs` | the clock, provider caches and vend locks, the refresher's entry, the slot, a store that reads it | `Enter`, `Acquire`, `Answered`, `Failed` (one `credentials()` call), `Track`, `Rejected`, `Collect`, `Choose`, `Refresh`, `RefreshEnds`, `Drop`, `RemoveSlot`, `Ask`, `Serve` |
| `Maintenance` | `vacuum`, `cleanup_metadata`, `restore`, `repair`, checkpoints (`kernel.py`, `vacuum.rs`, `logclean.rs`) | the clock, every version, data and vector files with times, commit files, checkpoints, sidecars | `StageWrite`, `CommitWrite`, `BeginFix`, `PlanFix`, `CommitFix`, `BeginVacuum`, `PlanVacuum`, `StartVacuum`, `DeleteFile`, `EndVacuum`, `BeginCheckpoint`, `PutCheckpoint`, `PlanCleanup`, `NextBatch`, `DeleteLogFile` |
| `TableCreate` | `plan_write` of a new name, `write_table`, `create_table` (`_create.py`, `connection.py`, `pending.rs`) | version 0 and the commits at each location, the registered name, finalize requests under way, data files, templates; per call where it is, the location it commits into, the table id it expects there, its result | a plan: `PlanWrite`, `PlanRefused`, `WriteFiles`, `CommitCall`, `Publish`, `Open`, `Finalize`, `FinalizeLate`, `RegisteredAnyway`, `CertainlyAbsent`, `Resolve`, `Attempt`, `Put`, `PutUnanswered`, `Landed`, `Register`, and after a failure `CertainFailure`, `UndoCheck`, `UndoDrop`, `Discard`, `AbortCall`; a direct call: `CheckExists`, `CreateLog`, `Enroll`, `CreateRaised`, `Created`, `WriteExisting`, `AppendData`, `CleanupCheck`, `RemoveLog`; another writer: `OtherCreate`, `OtherCommit`, `OtherDrop` |
| `TableFeatures` | `capability.py`, the protocol part of `catalog/base.py` and `engine/metadata.py` | none | the feature matrix, dependencies, what a legacy protocol implies, `with_features` |
| `EngineSupport` | `supports()` of the five engines | none | per engine, which request on which table it accepts |
| `Routing` | `_request.py`, `router.py`, the fallback in `Table._read` | the table, the handle's view of it, the read under way and the engines it has been through, the harm done so far | `Databricks` (the table changes), `Write`, `BeginRead`, `ReadStep`, `Refresh` |
| `Metadata` | `engine/metadata.py` through `KernelEngine._commit_metadata`, appends that evolve the schema, RESTORE, `reserve_identity` | every version: protocol, columns with ids and physical names, constraints, properties, files; what each client is committing; identity values generated | `Begin`, `Commit`, `Retry`, `TaskWrite`, `TaskRestart`, `PlanEnds` |
| `Warehouse` | `SqlEngine`, `SdkStatementBackend` | the table, the statements, the staging volume, the warehouse chosen; per caller the program of its call | `Begin`, `Resolve`, `NoWarehouse`, `Submit`, `Poll`, `Ended`, `GiveUp`, `Fetch`, `DownloadFails`, `Fetched`, `Stage`, `Predicate`, `Unstage`; the warehouse: `RunStatement`, `CancelArrives`, `CloseResult`, `WorkspaceChanges` |
| `Sharing` | `SharingEngine`, `SharingCatalog` | the shared table, links issued and expired, the call under way | `Call`, `Hints`, `List`, `ListChanges`, `Read`, `Renew`, `RenewPinned`, `RenewChanges`, `RenewFails`, `Reread`, `Localize`, `Replay`, `Page`; the provider: `ProviderCommits`, `Vacuum`, `LinksExpire` |
| `ChangeFeed` | `Table.cdf`, `changes`, `plan_changes`, the engines' `cdf`, `ChangesPlan` | the versions with their columns and whether the feed is on, the oldest commit kept, the engines that can be asked, the call, what the consumer has | `Call`, `Segments`, `Warehouse`, `Open`, `StreamCdf`, `CdfDone`, `Snapshot`, `Poll`, `StreamFollow`, `Yield`, `FollowRaises`, `TurnDone`, `Restart`, `Plan`, `WorkerReads` |
| `TableReads` | reads through one `Table`: `scan`, `head`, `count`, `to_pyarrow_dataset`, `plan_scan`, `added_since`; `KernelEngine.snapshot`, `snapshot.rs` | every table there has been, the handle's tail, name check and enrichment, the engine's snapshots and tail, the read under way, the tasks of a plan | `Begin`, `CheckNamed`, the enrichment (`Enrich`, `EnrichAgain`, `NoteUnread`, `Fill`, `Compare`, `Enriched`), `TakeSnapshot`, `ReadFile`, `StreamEnds`, `ReadDataset`, `DropDataset`, `TaskReads`, `TaskRestarts`, `PlanDone`; the writing thread: `RouteWrite`, `Land`, `WriteFails`, `Invalidate`, `NextGeneration`, `ReadTail`; and what happens around them |
| `TableWriteProofs`, `DistributedWriteProofs`, `DmlRebaseProofs`, `CredentialRefreshProofs`, `MaintenanceProofs`, `TableCreateProofs`, `MetadataProofs`, `WarehouseProofs` | the theorems about the module each is named after | | |

In `DistributedWrite` and `TableCreate` the constant `Settings`, in `Maintenance`
and `TableReads` the constant `Scenes`, is a set of records (the kind of table,
what each call asks for, which failures occur); a behaviour starts in any of
them and keeps it, so that one run covers scenes that are not all combined.
`Metadata` and `Routing` share `TableFeatures`, and `Routing` is built on
`EngineSupport`. `DistributedWrite` implements `LandOrDiscard`.

`MC...` modules hold the instances for TLC. A definition that no specification
uses and that stands right before a similar one is a faulty variant of it: it
stands for a bug that the property named beside it in `PROJECT.json`
(`mutants`) finds.

What the models abstract. A data file is a token; rows appear only in
`DmlRebase`, as a key, an origin and the operation that wrote them last. The
schema, partitioning and column mapping are one number, the layout. A catalog
is the order in which it ratifies versions, and how many it holds before it
wants them published. HTTP requests either take effect or not, and are either
answered or not, in every combination the client has to expect. A unit of time
in `CredentialRefresh` is about a minute; in `Maintenance` it is the longest
operation. `Routing` keeps of a table the facts some rule decides by, and
records as `harm` what the code's comments say an engine would do wrongly if it
were given the call; the engines themselves are external. In `Metadata` a data
file is one row of column chunks, each with a value that is good, null or bad,
and the version that first had its column. In `Warehouse` a statement is what
its text says. In `Sharing`, `ChangeFeed` and `TableReads` a row is its file or
version and its place there, so that a missing, doubled or foreign row shows.
`TableReads` takes building a snapshot, with its identity, and revalidating one
for a single step.

## 3. Runs

| Run | Instance | What it shows |
|---|---|---|
| `write` | two runs of one job, of which one is a stream and the other overwrites, and an unrelated append, on a path, a catalog-managed table, and one whose tail the engine cannot read again, with every failure but a lost catalog answer | staged files of landed commits stay, a txn lands once, a call lands once, the caller is told the truth, an overwrite replaces exactly what it follows, no orphans but of a rejected commit; under fairness every append lands unless a fault struck it or its tail was no longer the newest |
| `dist_calls` | three groups of settings. `Calls`: an append and a guarded overwrite, two `commit()` calls each, other writers, schema changes, crashes, lost answers, cancellation, a catalog that cannot be read. `Late`: two runs of one job, an empty one and an overwrite that lets the last writer win, with requests that take effect late. `LateAppends`: a default append, without a txn, whose requests take effect late, beside a guarded overwrite, on both kinds of table | a plan implements `LandOrDiscard`: files land or are deleted, never both, and land once unless requests outlive their answer and the plan has neither a txn nor a version it is pinned to; overwrites discard nobody; layouts fit; failures reported as certain are; every committed file is in storage; one commit per txn |
| `dml` | every three of nine jobs on three kinds of table under both isolation levels | each version is the one before it with one operation applied, to the rows it would have matched there; no row is visible twice; a deletion vector is missing only where its commit lost its answer, and none is left over |
| `credentials` | one caller, two providers of one slot, long-lived, skewed and undated credentials, one failed vend | nothing expired is handed out, no vend while a fresh credential is cached, the slot is kept fresh |
| `maintenance` | four scenes in which each two operations that share state meet: VACUUM with RESTORE/REPAIR, VACUUM with checkpoints, RESTORE/REPAIR with files lost by hand, two cleanups with v2 checkpoints | retained versions keep their files and can be built, the next commit is possible, RESTORE and REPAIR do what they say |
| `create` | two calls of every kind (planned, direct, create only, in every save mode) under one name that is a path, an external or a managed table, with another writer, lost answers, late finalize requests, failing deletions; and every kind of call that may undo its table beside an append and the other writer, any of whose steps may fall between an undo's look and its deletion (`Overlapping`) | the caller is told what happened, files land once and a call that failed leaves nothing, where nobody comes between an undo's look and its deletion; the save mode is honoured; what an undo removes is its own empty table, unless others came in after it looked |
| `routing` | 25 kinds of table, three connections, 57 calls, two changes of the table | no engine the router names does harm, by a write or in an answer; no change by a local engine leaves a table that no local engine can append to. The one harm it leaves out is a CHAR column compared by its stored bytes |
| `metadata` | two clients, 21 calls on six tables (two created here, four legacy ones; identity columns GENERATED ALWAYS and BY DEFAULT), four versions, identity blocks written by tasks that restart | no column reads another's data; references resolve and what is enabled is listed; live rows satisfy the constraints; generated identity values are unique |
| `warehouse` | two threads, 12 calls on tables of plain, VARIANT, interval and geometry values, manifests with and without counts and numbers, results that are closed, one fault of the API | what a caller is told stays true, apart from the outcomes closed and cancelled; a returned result whose manifest counts its rows and numbers its chunks has every row once; a statement that took effect did what was asked; nothing runs on or stays staged untold |
| `sharing` | 16 calls against seven servers, of which six have two versions and one, column-mapped and answering in parquet, three; two expiries of links, one failed request | scans are exact in both formats, feeds too but for the cdc files of a column-mapped table in parquet, whose rows come back as nulls; no failure without a cause, the table having moved on to deletion vectors or column mapping among them; every call ends |
| `change_feed` | eight calls, four chains of engines, four versions with three schemas, the feed off and on, one failure, restart or log cleanup | feeds and plans are exact; a follower's consumer ends with the table, but for the rest of a version that its stream broke within; a follower gets past schema changes |
| `table_reads` | ten scenes on path, external and managed tables: two reads each or a read beside a write of another thread; two commits, one maintenance run, drop or failure | every answer is exactly one version's, the one asked for or a recent one; increments neither miss nor repeat; an enrichment that began after the handle's own write is kept as current, and no older one but where the comparison with the generation and the storing fall around the clearing |

Where a doc or a comment of the repository promises more than the code keeps, the run's
property says what the code does ensure, and the promise is a property of its own that
an instance of section 5 refutes.

Bounds, and why they are enough. Races in this code are between one call and
whoever took the version it wanted, so two or three writers with two attempts
each reach every path: a first loss, a loss after a retry, attempts used up.
An unpublished cap of 1 makes the catalog demand a publish after every commit, one of
2 (`LateAppends`) after the second, so that a late request and a publish meet;
`Late` puts it out of reach. `MaxCalls` = 2 is one repetition by a restarted
driver. The table of `DmlRebase` has two files, one with rows of both keys, so
that operations on different rows of one file, on one row, and on different
files all occur. In `CredentialRefresh` a life of 10 is twice the margin, 0 is
a credential that arrives expired and -1 an undated one; `MaxTime` = 10 covers
a vend, its failure, both back-offs and the refresh after them, twice. Where
all credentials arrive expired the clock stops at `Grace` + 2, after the
grace has run out. In `Maintenance`, `Retention` 2 and `LogRetention` 3 exceed
the longest operation (`OpTime` 1) as they do in practice, `MaxTime` 4 lets
files and versions expire, and four versions with a checkpoint every second
one leave something on both sides of the boundary; two batches of `Batch` = 2
let a cleanup stop between them. In `TableCreate` two calls and two steps of
another writer are enough for a name to be taken before each of a call's own
steps, and to be taken, dropped and taken again; one retry and two `commit()`
calls give a first failure, its repetition, and a repetition by a restarted
driver. Of the settings of `MCTableCreate`, those of `Apart` leave out the fault
`overlap`, so nobody else acts between the moment an undo looks at the table and the
moment it deletes; those of `Overlapping` have it.

The tables of `MCRouting` are one or more of every kind of reference (catalog name,
path, HMS, legacy Hive), managed, external and shared, of the types TABLE,
MATERIALIZED_VIEW, METRIC_VIEW, FOREIGN and SHALLOW_CLONE, Delta and Iceberg, with a
policy, on a path delta-rs cannot write or storage without put-if-absent, behind a
bearer token, with a log that cannot be opened, and with columns and files that some
engine gets wrong; its calls are every operation, with the
options that decide a need, replaceWhere and MERGE on a CHAR column among them. Not
every combination is met, nor every rule: no table is a VIEW or STREAMING_TABLE or has
nanosecond or geospatial columns, and no call converts, publishes, reorganises, creates
or replaces. Two changes are enough for a change behind the handle after one made
through it. In `Metadata` three versions after the first hold an add, a drop and a second
add, or a change, another's change and a RESTORE; two attempts are a loss and a
repetition. Of the identity columns one is GENERATED ALWAYS and one BY DEFAULT, and
an append gives values for either. In `Warehouse` and `Sharing` one fault at a time,
because the code handles each by itself; two expiries, because a link is renewed once for
each file. A result of `Warehouse` has two chunks, and its manifest counts the rows or
not and numbers the chunks or not. In
`ChangeFeed` four versions hold a schema that changes and comes back, and
`FeedSchemaWalk` = 1 reaches the bisection that the code uses for more than 200
versions. In `TableReads` two commits are an append or a DELETE and an OPTIMIZE
of the result, and a cache of one snapshot is as good as one of many for reads
of one table.

Deadlock is checked where calls end (`TableWrite`, `DmlRebase`: `Terminated` is
the only step left). The other systems may stop: a plan that nobody commits, or
the end of the modelled time.

Fairness. `FairSpec` of `TableWrite` assumes weak fairness of each call's own
steps, `Sharing` of the call's own steps and `ChangeFeed` of the reader's: a call
runs in a thread that the operating system keeps scheduling, and every request
has a timeout. No fairness is assumed of failures, of other writers, of the
provider or of log retention, and none of one writer against another.

The properties of a module that say one thing together are checked as one
conjunction (`VersionsSound`, `CommitsSound`, `VersionsExact`, `SlotKept`, `HistoryKept`,
`LandsAsAsked`, `MetadataSound`, `ReadsExact` of `Sharing`, `FeedsExact`), whose
parts are named and explained where they are defined. Where a module has a
`TypeOK`, it is one of the parts.

What the properties leave out. `EnabledIsListed` leaves out column mapping turned
on for a table of reader version 1 and writer version 5 or 6, and
`FollowerCatchesUp` a schema that comes back; section 5 says why. Each of these leaves out
the case an instance of section 5 is about: `EnginesDoNoHarm` the CHAR column compared by its
stored bytes (`CharsPadded`), `CdfExact` the cdc files of a column-mapped table answered in
parquet (`NothingNullFilled`), `FollowerExact` the rest of a version its stream broke within
(`VersionsWhole`), `OutcomeTruthful` of `Warehouse` the outcomes closed and cancelled,
`NoOrphans` the files of rejected commits (`RefusedLeavesNothing`), `UndoSparesOthers` the
undo that others came between (`UndoneWhileEmpty`). What such an undo takes away with the
table is lost to its owner, so the first two parts of `OutcomeTruthful` of `TableCreate`
and `FilesLandOnce` are about the settings without `overlap`. `JudgedCurrent` is about tables whose
log is in storage (`ManagedCurrent`) and enrichments that were compared with the handle's
present generation (`EnrichedCurrent`); `ReadsExact` of `TableReads` holds a dataset to the
version number it was made at, of whatever table has it (`DatasetStays`).
`NeverStranded` is about tables whose constraints and column values
DuckDB evaluates. `IncrementExact` is about a table that is not re-created.
`Recent` in `TableReads` asks of a managed table only that a read is not older
than the last write whose tail the handle has read.

Timing. `CredentialRefresh` assumes that a thread's own steps take no time: it
waits only for the catalog, at most `VendTime`, or for a thread that does, and
the refresher wakes when its entry is due (the code wakes within half a
second). `Maintenance` assumes that no write, restore, repair or checkpoint
takes longer than `OpTime`, and the runs take it to be less than the retention,
which is what a retention is for. `RetainedFiles` allows for `OpTime`, because
a remove carries the time its write began and not that of its commit.

## 4. Proofs

TLAPS proves the theorems below for every value of the constants: any writers,
plans, threads, calls and files, any bounds on time, attempts and versions, any
set of scenes or faults. The assumptions are those the modules state by name
(`ConstantsAssumption`, `TimesAssumption`, ...), which TLC evaluates in every
run, and the hypotheses a theorem writes out. TLC had found each property to
hold before it was proved. A step lemma (`...Kept`, `...Settles`) stands for
one action; lemmas about the log say what appending a version leaves alone.

**`TableWriteProofs`**, seven theorems without hypotheses but one.

- `TypeCorrect`: `TypeOK` always holds.
- `AppendLandsOnce`: `LandsOnce`. Nothing in it says that a call whose commit is
  in the log will not commit again. `LandedCallsStop` adds that such a call is
  past its commit and holds an answer or an error after which the loops do not
  start over. `OnlyRatifyCommits` reduces the actions that change the log to one.
- `TxnExactlyOnce`: `TxnCommittedOnce`. `SnapshotWithoutTxn` says that between
  the txn check and the commit the base snapshot does not record the txn, and
  `TailsBehind` that no tail is ahead of the log. A commit lands only on
  the version right after its base, so nothing can be recorded in between.
- `CommittedFilesSafe`: `CommittedFilesExist`, provided that
  `"server_applied" \notin Faults`, which is needed (section 5). `FilesNamed`
  makes the files of two stagings differ, `StagedInStore` says that what is about
  to be committed is there, and `LandedCallsKeepFiles` that the error of a call
  that landed is not one that deletes.
- `CallersToldTheTruth`: `OutcomeTruthful`. What a call will be told is fixed when
  its reply comes; the invariant ties every reply and error to the log.
- `VersionsAlwaysSound`: `VersionsSound` (`TypeOK`, `OverwriteReplacesAll`). The removes of
  an overwrite are the live files of its base, and it lands right after its base.
- `NothingOrphaned`: `NoOrphans`. Every file in storage belongs to a version, to a
  staging under way, or to a call that ended without knowing, by a crash, or by a
  rejection of the catalog, after which the code keeps the files too.

**`DistributedWriteProofs`**. `SafeInv` is what the log rests on: a request under
way is of a plan whose driver is still sending or has given up (`InflightReady`,
`NoneUnderWay`), files that may still be committed are in storage (`FilesKept`),
and files about to be deleted are in no version (`DeletesUnlanded`).

- `CommitsAlwaysSound`: `CommitsSound`, late requests included.
- `CallersToldTheTruth`: `OutcomeTruthful`, under `TailAtHand`: where no request
  outlives its answer, every plan of a catalog-managed table can read the commit
  tail. A plan that cannot does not see what it committed itself, and is told
  so by `unreachable`. `LookedInv` adds that a driver that looked and found
  nothing has nothing in the log.
- `DriverImplementsLandOrDiscard`: the refinement of `LandOrDiscard`. Each step is
  a `Land`, a `Discard`, a `Pass` or a stutter; a commit lands only what
  has not landed (`LandsFresh`), but for a plan that is `Repeatable`: requests outlive
  their answer, and the plan has neither a txn nor a version it commits on or not at
  all. Only the look at the head of an attempt keeps such a plan from landing twice,
  and `MCDistributedWrite_claims.cfg` (section 5) shows that it does not always. No hypotheses.

The settings of the run satisfy `TailAtHand`.

**`DmlRebaseProofs`**. `IInv` says of an operation that is to commit that what it is
about to change are visible rows of the files it touches (`PlanInv`), and are all
the rows it would match at its base (`ReadInv`). A rebase may skip a version only
if that left those files alone, or hid other rows of them, and added nothing the
read would have matched. Of the log it says that a row came with a commit or was
there (`Origin`), and that a file's name stands for the same rows in all versions
(`NamesStand`), so that a plan made of names is right at the new base.

- `VersionsExactHolds`: `VersionsExact` (`TypeOK`, `EffectExact`, `RowsOnce`), without
  hypotheses.
- `ReadsHoldHolds`: `ReadsHold`, without hypotheses. Under WriteSerializable it
  leaves out the rows of blind appends, as the code does.
- `VectorsAlwaysAccounted`: `VectorsAccounted`, without hypotheses. A deletion vector is
  missing only where its commit landed and lost its answer (section 5), and one that no version refers to is of a commit under
  way. `VectorsInv` adds that an operation about to commit has its vector in storage.

**`CredentialRefreshProofs`**. `ProviderKeepsContract`: the action property
`ProviderContract`, without hypotheses. What a thread saw before it reached the
vend lock may be stale when it gets it. The invariant says that it is older than
the vend under way (`Seen`), that the lock's holder is the one that vends and
nothing newer than that vend is cached (`Vending`), and that a cached credential
was asked for before it was answered and is marked if it arrived expired
(`Dated`). The second look under the lock then decides rightly, and a fresh
credential has not expired.

**`MaintenanceProofs`**. `HistoryAlwaysKept` (`HistoryKept`, all of its parts:
types, retained files, readable history, the next commit) and `FixesExact`
(`FixExact`), both under `~Overlap`: no RESTORE or REPAIR runs beside a VACUUM.
That is needed (section 5). The runs that pass set `Overlap` to `FALSE`. The
invariant has two halves.

- The history (`HistorySafe`). There is a version `b` such that a reader of any
  retained version can start from it (`Base(b)`): a complete checkpoint past the
  log retention or the first commit, with every commit since, which no cleanup
  has planned to delete. A sidecar at or above `b` belongs to a checkpoint or to
  the one being saved, so that of a v2 checkpoint half written is never stale.
  The newest checkpoint at the boundary, from which a cleanup plans, becomes
  the next `b`; it exists by `WFMin` of the library.
- The files (`FilesInv`). An entry that is live no longer was removed in between
  (`Chain`), by a remove whose time is at most an operation before its commit
  (`TombsTimely`). So a VACUUM that plans at version `v` finds no file of a
  retained version: at `v` it is live; before `v` the remove that took it out is
  within the retention and still in the segment `VACUUM` reads; after `v` it was
  written since the cutoff and no remove up to `v` names it (`PlanSafe`,
  `Fresh`). What was planned stays safe to delete while others commit
  (`DoomedSafe`), because what they add was staged under new names (`NamesNew`).

**`TableCreateProofs`**. `Inv` says where tables and the registration are (`Places`),
and of each call: where it can be (`Control`); that what it is about to remove is
its own and empty (`Removal`); what it has and has not created (`Creation`); which
table it is about to commit to (`Target`); that its files are committed once, there,
and that it knows whether they are (`LandsOnce`, `LandsThere`, `Told`). Three extensions
of it carry a property each: what a call was told and what became of the table
(`OutcomeInv`), whether what it made is gone (`LeftInv`), and which table its files may
be in (`AskedInv`). A call's part is shown to survive each of its 30 kinds of step, and
what any other step is to it (`Seen`): another's table in an empty place, another's
commit, an empty table of another that goes.

- `UndoSparesOthersHolds`: the action property `UndoSparesOthers`, without hypotheses and
  from an invariant of its own (`UndoInv`). The history variable `met` holds the undos
  that others' steps came into after their look; every other undo removes an empty
  table that it found to be its own. Section 5 shows an undo that met others.
- `NothingLeftHolds`: `NothingLeft`, of every behaviour whose setting satisfies
  `NoOverlap`.
- `OutcomeTruthfulHolds`: `OutcomeTruthful`, under `NoOverlap` and `LateOrDrop`: no
  setting has both late finalize requests and another writer that drops the table.
- `LandsAsAskedHolds`: `LandsAsAsked`, under both and `NoLookalike`: beside a
  `write_table` whose layout another call shares, all tables are alike.

The last two hypotheses are needed too. TLC refutes `OutcomeTruthful` where both
faults occur: a table that was registered, filled and dropped is registered again,
empty, by the request that was still under way. For `LandsAsAsked` see section 5,
`connection.py:1516`. `NoOverlap` says
that nobody acts between an undo's look at the table and its deletion. The hypotheses
are about the setting that a behaviour starts in, so the theorems speak of part of a
run's settings whatever the others are: of the run `create`, `Apart` satisfies all three.

**`MetadataProofs`**, four theorems without hypotheses. Each change is shown to be
right on the version it was computed from; `JobsOk` says that what a client has
computed was allowed there, and a commit lands only right after it. The
assumptions on `Created`, `Foreign` and `Ops` (`TablesAssumption`, `CallsAssumption`) say
what Delta asks of a table at all: names are distinct, one column is an
identity column at most, and a table made by another writer refers only to what
it has and lists what it uses.

- `RowsSatisfyHolds`: `RowsSatisfy`. `LogOk` says it of every version, with the shape
  of versions. A change that adds a constraint looks at every row of its base
  (`ConstraintsAndProtocolFit`), a column that is dropped or renamed is in none.
- `IdentityUniqueHolds`: `IdentityUnique`, of generated values: those the data gives for a
  BY DEFAULT column are its caller's own. Blocks of plans lie below the high-water
  mark of the latest version and apart from each other (`BlocksOk`), slots of a
  block lie apart (`Slots`), and every value in the table is below the mark, once,
  and in none of these blocks (`ValuesOk`).
- `ReadsOwnColumnHolds`: `ReadsOwnColumn`. A Parquet name carries the version that
  gave it, unless it is the column's own name in a table that was never mapped;
  so a chunk of a file is of the column that has its Parquet name or of none
  (`FilesOwn`), and field ids never come back below the highest one (`IdsOk`).
- `MetadataSoundHolds`: `MetadataSound`. `VersionsSound` adds that what a version needs
  is a subset of what it lists (`Sound`), that features once listed stay listed, so
  that RESTORE finds those of the version it brings back, and that what the
  readers are not told is what the first version did not tell them.

**`WarehouseProofs`**. `Inv` says of every call what its statement's state implies
(`Behind`), that a statement nobody watches has ended or was asked to
(`Watched`), and that a staged file will be removed or was told of (`Staged`).

- `CallersToldTheTruth`: `OutcomeTruthful`; `ResultsExact`: `ResultExact`;
  `CallsLeaveNothing`: `NothingLeftBehind`, without hypotheses. The first says of a call
  that ended in state CLOSED that its statement took effect, and nothing of one
  reported as cancelled; the second holds results to their manifests as far as
  these number the chunks and count the rows.
- `EffectsExact`: `EffectExact`. `EffectInv` adds that a call's program stages what
  it writes and that a statement means what its call asked (`Means`);
  `DataStored` shows that each value lands as it was given, through the staged
  type and the cast selected for it. The hypothesis
  `ClausesDecideAlike` is a fact about `SelectSeq` for every list of clauses:
  sorting them by kind keeps the order within a kind. It is by induction over
  sequences. `MCWarehouse` has TLC evaluate it for all lists of up to three.

Checked with TLC only:

- `Routing`, `Sharing`, `ChangeFeed` and `TableReads`. `Routing` is a table of rules
  whose property compares each rule with each case: a proof would enumerate what
  TLC does. The other three assemble an answer from files, links or versions in a
  sequence, and what they say of it for every length is by induction over it.
- `SlotKept` of `CredentialRefresh`. That the slot is fresh in time depends on the
  numbers: how many vends may fail, how long each takes, and how far ahead the
  refresher begins. It holds where the back-offs of one failure fit into the
  margin; with `MaxFailures` = 2 TLC refutes it, as it should.
- Liveness (`EveryAppendLands`, `CallsEnd`, `FollowerCatchesUp`), which TLAPS as used here
  does not prove.
- What needs induction over data: `ClausesDecideAlike` above.

## 5. What the checks found

The instances `MC<module>_claims.cfg` are kept beside the runs and end in a violation of a
property that the repository states. They are run by hand, as in
`tlc -config MCSharing_claims.cfg MCSharing`. Where one names several properties, all but
the first are in comments, and each is checked by itself.

| Instance | Violated | What the code does, and what it says |
|---|---|---|
| `MCTableWrite` (two appends, a catalog that ratifies and answers 5xx) | `CommittedFilesExist` | `commit.rs:408`: a 5xx or a timeout counts among the errors after which the staged files are deleted, though the catalog may have ratified. `commit.rs:402`: "Any other failure (a timeout on the log PUT, say) may have committed, and its files are kept." |
| `MCTableWrite` (the same, the catalog answers 400 or 422) | `RefusedLeavesNothing` | `commit.rs:404`: a 400 or 422 is told as a refusal, and the files stay. `commit.rs:400`: they go when "the catalog refused it". |
| `MCDistributedWrite` (one default append of a catalog-managed table) | `FragmentsLandOnce` | `distributed.py:866`: the second commit after a publish skips the landed check. `distributed.py:516`: "Every attempt first checks whether these files already landed". |
| `MCDmlRebase` (one DELETE whose answer is lost) | `VectorsExist` | `dml.rs:613`: the deletion vector file goes on every error of the commit, also where the outcome is open. `dml.rs:548`: "take them back out if the commit does not land". |
| `MCCredentialRefresh` (two providers of one identity, the slot collected and made again) | `PublishReaches` | `credential_slot.rs:239`: a slot created again starts at generation 1, which a cached store takes for what it has. `credential_slot.rs:11`: "a store built with the slot's key in its options asks the slot for its credential on every request". |
| `MCMaintenance` (the scenes of `maintenance`, RESTORE and REPAIR allowed beside a VACUUM) | `LiveFilesStored` | `kernel.py:4838`: VACUUM deletes by a plan that a RESTORE may have overtaken. `kernel.py:4754`: it deletes "files nothing references -- not a live file, not its deletion vector". |
| `MCTableCreate` (plans beside plans, with `overlap`) | `UndoneWhileEmpty` | `pending.rs:83`: `rollback_create` looks for version 1 and then deletes version 0. `_create.py:19`: "version 0 is removed while it is still the only version". |
| `MCRouting` (as `routing`) | `CharsPadded` | `_request.py:301`: replaceWhere and MERGE derive no need from a CHAR column, nor does a predicate beyond the own grammar. `table.py:1238`: "Only the warehouse evaluates it". |
| `MCWarehouse` (as `warehouse`) | `FailureHasNoEffect` | `sql_backend.py:428`: a statement in state CLOSED is raised as `SqlStatementError`, "A statement failed, was cancelled, or timed out on the warehouse" (`:46`). |
| `MCWarehouse` (as `warehouse`) | `CancelledHasNoEffect` | `sql_backend.py:416`: the cancellation is only asked for, and the caller is told that the statement "was cancelled". Nor does "Ctrl-C cancels it too" hold during the first, blocking execute, when no statement id is known. |
| `MCSharing` (as `sharing`) | `NothingNullFilled` | `sharing.py:1277`: the test for physical column names lets a cdc file through, for its `_change_type`. `sharing.py:1284`: such a read "null-filled every column, a wrong answer". |
| `MCSharing` (as `sharing`) | `RenewsPinned` | `sharing.py:1404`: a renewal asks the unpinned query first, and its refusal, or its answer in Delta lines, ends the read. `sharing.py:861`: "the book re-runs the query pinned to the same table version". |
| `MCChangeFeed` (as `change_feed`) | `VersionsWhole` | `table.py:5717`: what is held is yielded on a `ChangeFeedSchemaChangeError` too, whose version is not where the stream broke. `table.py:5714`: "every commit before it: those are complete". |
| `MCTableReads` (one read and one write through a handle on a path) | `EnrichedCurrent` | `table.py:1089`, `:942`, `:946`: comparing the generation and storing the result are two steps, and so are clearing it and raising the generation. `table.py:943`: "the generation stops it marking its stale answer as current". |
| `MCTableReads` (one read and one write of a catalog-managed table) | `ManagedCurrent` | `table.py:946`: the generation is raised before the tail is read again. `table.py:932`: "a Table that kept the cache would keep reporting what was true before the call it just made". |
| `MCTableReads` (one read and one write that fails) | `FailureNotKept` | `table.py:1097`: `open_error` is stored beside an enrichment that succeeded meanwhile. `table.py:1094`: "A failure is not cached". |
| `MCTableReads` (one dataset on a path) | `DatasetStays` | `table.py:1942`: a dataset is pinned to the number of a version, of whatever table is at the path. `table.py:1910`: "Every scan reads the version current when the dataset was made". |

Read in the code while modelling, and not the subject of an instance:

- `distributed.py:635`: the landed check and the commit read different
  snapshots, so a late request of a plan without a txn can come between on any
  table (`dist_calls` counts such plans as `Repeatable`).
- `distributed.py:711`: "Nothing was committed." is said after a lost race
  although an earlier attempt that timed out may be the winner.
- `distributed.py:637`: a managed plan without its catalog raises the conflict
  at once; the advice at `:1194` to commit again then meets the same refusal.
- `kernel.py:3292`: during a rebase the txn is looked up on one snapshot and
  the rebase done on another.
- `refresh.py:206`: an entry and its slot are dropped in two steps, by name.
- `refresh.py:128`: a publish compares no expiry, so an older credential may
  replace a newer one.
- `databricks.py:691`: `invalidate` does not stop a vend under way.
- `credential_slot.rs:85`: a store whose slot is gone serves the credential it
  was built with.
- `logclean.rs:32`: the module says no gap can appear in the log, but the
  32 files of a batch are deleted in any order. No retained version needs
  the files in such a gap (`RetainedHistory`).
- `_create.py:644`, `connection.py:610`: these undos too look at the table and then
  delete, without anything that holds others off, so that a table that has got
  data, or that another writer registered under the name, is dropped.
- `connection.py:1516`: `write_table` compares its layout with the table it finds and
  then appends to the one at that place. If a first `write_table` had created the one it
  found, fails and removes the log, and a third writer creates a table of another
  layout there, the rows go into that one. With a third table of another layout
  among the settings TLC refutes `LandsAsAsked`.
- `connection.py:1469`: `write_table(mode="ignore")` of a new catalog table
  whose registration took effect without an answer takes its own table for
  somebody else's and returns without writing the data. `OutcomeTruthful`
  exempts this case.
- `_create.py:583`: the plan that finds a managed table registered by another
  leaves its template in storage, where the joining plan of a path or external
  table removes it.
- A finalize request that takes effect late registers an empty table after the
  plan that sent it was refused.
- `sql_backend.py:480`, `:515`: a chunk without a number is not looked for among those
  read, and rows are counted only against a manifest with a count, so a result
  can repeat or lose a chunk untold. `ResultExact` leaves such manifests out.
- `_request.py`, SET PROPERTIES `delta.enableRowTracking`: with a warehouse to
  fall back on, the router names the kernel, which then refuses the call itself.
- `router.py:335`: the stranding rules count a feature that an engine writes
  only partly as writable.
- `table.py:1774`: whether a column default has to be evaluated is decided by
  the handle's cached view, so a DEFAULT added since is written as null.
- `metadata.py:177`: column mapping turned on for a table of reader version 1
  and writer version 5 or 6 leaves `minReaderVersion` 1.
- `table.py:3143`: `changes()` is said to yield every version; one without
  changed rows yields nothing.
- `table.py:2967`: more than 200 versions are compared by bisection, which
  misses a schema that changes and comes back between the versions it looks at.
- `deltars.py:3905`: where delta-rs answers that the table records no changes, the
  first version with the feed on is looked for from the end, so an earlier
  stretch with the feed on is left out; with `allow_out_of_range` a commit can be
  skipped.
- `connection.py:1880`: a follower resolves its table by name again, and goes on
  with one that was re-created under it, as `added_since` does at a path.
- `table.py:994`: when the catalog does not answer after a write, the handle
  keeps its old tail and says nothing; the next read may be older than the write.

## 6. Not modelled, and the plan

- Predicates and pruning (`predicate.py`, `duckfilter.py`, `predicate.rs`): a
  parser and evaluator of one SQL grammar, functions of text. What happens in an
  order is modelled where predicates are used: hints in `Sharing`, partition
  pruning in `TableReads`, the reads of a rebase in `DmlRebase`.
- Value conversions (`calendar.py`, `intervals.py`, `_variant.py`, `rebase.rs`):
  functions of one value. The three that decide what a statement does are in
  `Warehouse`.
- SQL text (`sql_text.py`, `dialect.py`), storage options and path confinement
  (`_storage.py`, `confine.rs`), errors, profile and name parsing: formatting
  and parsing of strings.
- Catalog clients (`ossuc.py`, `hms.py`, `glue.py`, most of `databricks.py`):
  one request and the mapping of its answer. What they answer, late or not at
  all, is in the models that use them.
- The commits of delta-rs, pyiceberg and the SDKs: not in this repository.
- `governance.py`: single statements.
- Checksums and manifests: nothing decides by them.
- Of table creation: `create_table` in overwrite mode at a path, and the fallback
  to a warehouse statement.
- Of reads: time travel by timestamp, history, conversion to frames.

What could come next: a proof of `JudgedCurrent` of `TableReads`, which is no induction
over data and rests on what was read at the handle's generation being no older
than its last write; and a run of `TableCreate` with three writers, which the
hypothesis `NoLookalike` asks for.
