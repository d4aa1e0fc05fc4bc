# Verification of entsoe-pipeline

TLA+ specifications of the ENTSO-E pipeline (`src/`), checked with TLC on small
instances and proved about with TLAPS for every instance.

The pipeline copies data files of the ENTSO-E File Library (FMS) to an S3
landing bucket, loads them into Apache Iceberg tables, and keeps a catalogue of
the library's contents. Each stage is a batch job, started by Kestra
(`dags/*.yml`) or by hand; the jobs share nothing but three stores: the S3
bucket, the metadata database, and the lakehouse.

## 1. Inventory

| Component | State it keeps | Operations | What is hard | What makes it correct |
|---|---|---|---|---|
| **Landing synchroniser** `io/sync.py`, `io/core/*`, `jobs/landing/ingest_my_entsoe_domains.py` | S3 objects, `landing_files_registry`, temporary files `tmp_<name>` | list, select, skip, download, write, upload, delete, register | republication between listing and download; failure or death between upload and registration; overlapping runs; vanished objects | the registry never claims what was not uploaded; an error-free run is complete; failures are made up for |
| **Staging ingestion** `jobs/staging/*`, `lakehouse/`, `spark/`, `db/core/` | Iceberg tables, append-only `lakehouse_ingestion_registry` | query pending, read, merge or append, log | objects replaced between query and read; table written but log not; overlapping jobs; equal `ingested_at` | SUCCESS is never wrong; one row per key; rows never go back; all registered versions get loaded |
| **Delta metadata refresh** `fms_metadata/core/fms_metadata_delta.py`, `fms_metadata_freshness.py` | `fms_folders`, `fms_files` | read the update log, scan it, mark folders dirty, crawl them | early stop of the scan; substring matching; partial crawl | every changed folder is crawled in the end |
| **Library overview and classifier** `ftp_map_collector.py`, `domain_classifier.py`, `overview_parser.py`, the drift reports | `overview.yml`, two reports | survey both platforms, classify, report drift | the library changes between the two surveys; the reports are also rewritten by tools of their own | the reports agree with the overview |
| **Full crawl** `domain_metadata_crawler.py`, `legacy_metadata_crawler.py`, `metadata_crawlers_common.py` | the tables of the delta refresh | list folders group by group, replace a folder's rows | a listing failure taken for an empty folder; two crawlers that insert one row | everything the overview lists gets its row |
| **Checklist and preparation** `my_entsoe_domains.py`, `job_config_builder.py`, `jobs/landing/prepare_landing_ingestion.py`, `landing_bucket_schema.py`, `config_parser.py`, `path_resolver.py` | `my_entsoe_domains.yml`, `landing_folders_schema` | expand a template, crawl what it enables, compile the paths, select from them | jobs read each other's files and tables at different moments; three places decide what "enabled" means | what is enabled lands, from its own environment, in a directory that exists |
| **File library client** `api/client.py`, `api/ls_fms.py`, `api/client_side_throttler.py`, `vendor_patches/` | access token, time of the last request, mutex | log in, renew, wait, send, retry | threads, wall-clock steps, tokens that expire while a request waits | the rate stays under the limit; a request is given up only for a cause |
| **Run tracking** `logger/runs_logger.py`, `runs_tracker.py`, `api_observability.py` | request counters | count, report and reset | report and reset are two steps | every request is counted once |
| **Folder listing** `api/ls_fms.py`, the crawlers' helpers | call stack of a listing | page through a folder, descend | the folder changes while it is paged | stable items are returned once |
| **Set-up** `lakehouse/create_buckets.py`, `s3_tree_builder.py`, `db/init_entsoe_metadata_db_schema.py` | buckets, namespace, folder markers, tables | create what is missing | lost answers, overlapping runs | idempotent: repeating it completes it |
| **Preflights** `preflight/` | a test object in S3 | probe database, buckets, login | parallel probes use one key; the environment file changes meanwhile | a preflight passes only if what the job needs is there, and fails only for a cause |
| **Environment switch** `config/core/switch.py`, `env_resolver.py`, `config_loader.py` | `enviroment.yml` | load, resolve, rewrite in place | truncated and written in two steps | the environment tested is one that was selected |
| **Reports** `fms_metadata/report/`, observability loggers | none | render | | |

How they interact: the survey classifies the library into an overview; the
checklist is a template expanded with it; `prepare_landing_ingestion` crawls what
the checklist enables and turns the crawled folders into a path schema; the landing
job selects paths from it with the same checklist, lists and downloads through the
client (and so the pacing), and writes bucket and `landing_files_registry`; the
staging job joins that table with its own log and reads the bucket. Every job runs
a preflight first, which relies on the set-up programs. Landing and staging share
bucket and registry and run independently of each other; the metadata jobs share
`fms_folders` and `fms_files`.

## 2. Modules

| Module | Models |
|---|---|
| `ReliableCopy` | what any stage promises the next one: the abstract specification |
| `LandingSync` | the landing stage, one action per call of the loop of `sync_active_domains` |
| `MCLandingSync` | its instances |
| `LandingSyncProofs` | theorems about it |
| `StagingIngest` | the staging stage, one action per call of the loop of the staging job |
| `MCStagingIngest` | its instances |
| `StagingIngestProofs` | theorems about it |
| `DeltaRefresh` | the catalogue of the library: one run after another of `run_delta_metadata_refresh`, with the full crawl it falls back to |
| `MCDeltaRefresh` | its instances |
| `DeltaRefreshProofs` | theorems about it |
| `Catalogue` | what is known of the library, as data: classifier, overview, drift reports, checklist templates, path selection; operators only |
| `Preparation` | survey, full crawl, preparation and landing selection as processes that share files and tables; extends `Catalogue` |
| `MCPreparation` | its instances |
| `PreparationProofs` | theorems about paths, directories, reports and types |
| `CoverageProofs` | theorems that nothing enabled or listed falls through |
| `FmsClient` | clients, tokens, pacing, retries, counters |
| `MCFmsClient`, `FmsClientProofs` | its instance and its theorems |
| `FolderListing` | listings page by page while the folder changes |
| `MCFolderListing`, `FolderListingProofs` | its instance and its theorems |
| `Setup` | set-up programs, preflights and the environment switch, call by call |
| `MCSetup`, `SetupProofs` | its instance and its theorems |

`ReliableCopy` has a `source`, a `copy` and an `ack` per item, holding version
numbers, and three actions. It says that a copy never goes back nor overtakes
its source and that an acknowledgement never names a version that has not been
copied. Both stages are shown to implement it: TLC on small instances, TLAPS for all
(`LandingMirrors`, `StagingMirrors`). `StagingIngest` relies on the
landing stage for exactly this: it lets objects be replaced by newer ones at any
time, and registers a version only when it or a newer one is in the bucket.

### LandingSync

A *syncer* is one process of the landing job; `pc` names the call it is about to
make.

| Variable | In the code |
|---|---|
| `remote` | the file library: current version per file |
| `stored`, `lost` | the bucket; keys whose object was deleted from outside |
| `registry` | `landing_files_registry`: the fingerprinted version per key |
| `tmp` | `MANUAL_DATA_DIR/tmp_<name>` |
| `hold` | per syncer: whether the temporary file it writes or uploads is its own, has been opened by another too, or has been deleted under its hands |
| `todo`, `batch`, `job`, `data`, `errors` | the loop's mappings left, files left, current file, bytes, `metrics["errors"]` |
| `listed` | history: versions listed in this run, for `CleanRunIsComplete` |

`StartRun`, `ListFolder`, `SkipFile`, `SelectFile`, `Download`, `OpenTmp`,
`WriteTmp`, `Upload`, `Unlink`, `Register`, `FinishFolder`, `FinishRun` are the loop.
`CertainError` are the exceptions nothing outside is needed for, `ListingError`,
`CallError` and `LostAnswer` (the call took effect and raised) those a fault
causes, `Crash` the death of the process. `Publish` and `LoseObject` are the
world's. An exception abandons the rest of the folder, as the `try` around the
inner loop does. A file's contents and its fingerprint are both its version
number: a republication changes name, size or timestamp, which is what is hashed.
Files of a folder are handled in any order, folders too.

`write_bytes` empties the temporary file and then fills it (`OpenTmp`, `WriteTmp`),
and an upload reads it over some time. When another process opens the same path
in between, what is written or uploaded may be the bytes or `Torn`: empty, cut short
or mixed (`Perhaps`). A process whose file has been deleted under its hands writes
where nobody finds it, and uploads what another has left at the path, or fails. A
process alone never uploads `Torn`, which `VersionsFlow` proves, though a write that
fails or a death may leave it in the temporary file.

### StagingIngest

A *stager* is one process of the staging job.

| Variable | In the code |
|---|---|
| `stored`, `registry` | what the landing stage leaves: object version, registered version |
| `log` | `lakehouse_ingestion_registry` |
| `rows`, `snapshot` | table rows with the file and version they come from; commits per table |
| `clock` | source of `ingested_at` |
| `todo`, `work`, `cur`, `at`, `base`, `data` | contracts left, hashes queried, current contract, its `ingested_at`, the table snapshot it builds on, the bytes read |

`Query` takes the pending files, with a free choice where several log entries
share the latest `ingested_at` (the query's `ROW_NUMBER` does not order them).
`BeginContract`, `ReadFiles`, `Write`, `CommitSuccess`, `CommitFailure`,
`FinishRun` are the loop; `MergeRefused` is a conflict or an ambiguous merge,
`CallError` and `LostAnswer` are faults, `Die` is the death of the process or the
exception that ends the job. Iceberg's and Spark's part is external: a merge
commits only if the table has not changed since its snapshot, is refused when two
source rows match one target row, and an append always commits. `Copied(f)` and
`Acknowledged(f)`, the newest version of a file that its table holds and the newest
that the log calls a SUCCESS, are what `ReliableCopy` sees of it. Spark's lazy
evaluation, which fixes the snapshot and reads the files while the write is
executed, is one step `ReadFiles` before the write. One row stands for all rows of
a file.

### DeltaRefresh

One process refreshes the catalogue of one environment for the folders of one
domain, as the tasks of `dags/refresh_fms_metadata.yml` do. `pc` names the call the
run is about to make.

| Variable | In the code |
|---|---|
| `published`, `clock` | the file library: time of each file's latest update, and of all |
| `seen` | the two update logs as downloaded, entry times per file |
| `db`, `bare` | `fms_files`: `last_updated` per file; the files stored under the name that the logs use |
| `crawled` | `fms_folders.crawled_at`: no row, empty, younger or older than `freshness.max_age_days` |
| `dirty` | `dirty_folders_to_leafs` |
| `todo`, `rootMap` | full run: folders left; whether `root_files_by_name` was filled |
| `parent`, `at`, `listing`, `ok` | folder in hand, directory listed, the times found, `all_leaves_succeeded` |
| `owed`, `disturbed` | history: folders found dirty and not completed since; whether a call has failed or anything was published during a run since the last forced run began |

`StartDelta`, `Scan`, `BeginFolder`, `CrawlLeaf`, `UpsertLeaf`, `FinishFolder`,
`FinishDelta` are the delta run; `StartForced` (`--force`, `--full-scan`) and
`FallBack` (the logs cannot be had) lead to the full run: `FilterFresh`,
`FetchRoots`, `ListFolder`, `SaveFolder`, `FinishFull`. Actions ending in `Fails`
are the exceptions the code catches, `Interrupt` those it does not, Ctrl+C and
death. `GrowOld` is the passing of days. `StoppedBefore` defines the early stop
without a loop: an entry is not reached if a stretch of at least `Threshold` newer
entries, all known, precedes it. `FolderIn` and `LeafOf` are what the substring
match and `resolve_exact_fms_folder` make of a file's name, `NameIn` what the
freshness filter's `contains` finds. A nested file is stored under its path when
its folder is listed as a whole, which the scan does not recognise, and under its
bare name when its directory is (`DirOf`, `bare`).

Simplified: a listing is one step (pages are for `FolderListing`); the update time in a
log equals `lastUpdatedTimestamp` in a listing; no two files are updated in the
same second; file names are unique within an environment and file ids stable;
files do not vanish from the library; both logs are scanned alike (the second
names its folder itself, which `FolderIn` covers). A run for all domains is taken
as one run for all their folders; a full run filters and crawls domain by domain.

### Catalogue and Preparation

`Catalogue` holds the decisions, one operator per function of the code:
`classify_folder`, `get_domain_folders`, `get_legacy_archive_folders`,
`filter_fresh_folders`, `Undocumented` and `Unseen`, `build_domains_checklist` with
its three expansions, `extract_active_folders` and `ToCrawl` (what a landing run
takes for enabled and what a preparation crawls: not the same), and
`resolve_target_mappings` and `target_folders` (paths and directories). Names are
model values; `fits`, `Patterned` and `Within` say which prefix, pattern and
substring tests they pass.

`Preparation` runs them. Two crawlers, `Prepare` and `Scan`, are the preparation
job and a full crawl; one landing run and one survey go on beside them.

| Variable | In the code |
|---|---|
| `library` | items of both roots, per environment |
| `rules`, `files`, `mode` | the classifier file, the checklist templates, `active_mode` and `config_name` |
| `overview`, `begun`, `reports`, `checklist` | `overview.yml` and how much of it there is, the two drift reports, `my_entsoe_domains.yml` |
| `rows`, `fresh` | `fms_folders`; those with a recent `crawled_at` |
| `schema`, `sizes`, `dirs` | `landing_folders_schema`, the sizes reports, the directories of the bucket |
| `survey` | the classifier it has read, what it has found, where it is |
| `crawl` | per crawler: checklist read, folders planned, environment and scope, group (`round`), folders left, folder to insert, folders skipped, rows read |
| `landing` | checklist and schema it has cached, environments and paths left, what has landed |
| `ready`, `crawl.skipped`, `crawl.steady`, `landing.owed`, `landing.steady` | history: for which checklist the schema was compiled, what could not be crawled, what a landing run owes |

`fetch_environment_metadata`, `OpenOverview`, `StreamOverview`, `SaveOverview`,
`SaveReports` are the survey;
`StartPrepare`, `PlanPreparation`, `NextGroup`, `CrawlFolder`, `InsertRow`,
`EndCrawl`, `ReadFolders`, `WriteSchema`, `EndPreparation` the preparation, whose
crawling steps the full crawl (`StartScan`) shares; `ScanBreaksOff` ends one that the overview gives no answer to; `LandTree`, `LandEnvs`,
`LandEnv`, `LandPath`, `LandDone` a landing run. The look-up and the insertion of a
new folder's row are two steps, as in `save_crawled_folder_metadata`, where the
other crawler's insertion makes the job fail on the unique constraint. `Publish`, `Reclassify`,
`Configure`, `Age`, `RewriteReport`, `Regenerate` are people, time and the tools
that may be called at any moment.

`save_yaml_with_observability` empties `overview.yml` and streams it, root by root of
each environment (`Sections`). Whoever reads it meanwhile, or after a survey that died
there, finds the sections begun so far, the last of them in part: which part, `Cuts`
says, as the order of domains and folders within a root is of no account here. The
readers differ, and the model keeps it. A full crawl takes a domain that is not there
for an empty one, and breaks off on a missing environment or root (`Readable`); the
crawler of an archive logs the error and crawls nothing, so that a preparation passes
over its legacy folders (`ArchiveFolders`). A cut that leaves no valid YAML behaves as
an overview that tells nothing (`Missing`), or as a reader that fails
(`CrawlFails`). `crawl.steady`, for `FullCrawlCovers`, is lost with any write to the
file while the full crawl runs, whatever is written. The three reads of the overview
for the stale legacy folders are one step: a write between them takes `steady` away
just the same.

`my_entsoe_domains.yml` is written by the same function, and here in one step. The
properties speak of the checklist a job has read, whatever it was: one cut short is
one that enables less.

Assumed of names and files: no folder has the name of a domain or of an archive
(`NamesApart`; the code compares names wherever they stand in a path); a template
that lists environments itself puts what it enables of `TP_export` under a domain
of `domain_order` (in `Template`).

### FmsClient

One request at a time per client (`Worker`), one paced session per process and
environment, as `create_fms_client` builds them.

| Variable | In the code |
|---|---|
| `run`, `jobs` | stage of the `RunsLogger` block; requests still asked for |
| `pc`, `job`, `tries`, `nap` | call the client is about to make, request in hand, failed attempts, rest of `time.sleep` |
| `since`, `holder` | `_last_request_time` (as a distance from now), `_lock` |
| `left`, `life` | token expiry as the client and as the server see it |
| `counter` | `fms_api_counter` |
| `made`, `sent`, `lapses`, `late`, `unlucky`, `back` | history; `sent` and `lapses` count requests and interruptions of the pacing by their age, so that `RateBounded` sums them over any window that ends now |

The wall clock is a set of distances that `StepForward` and `StepBack` shift while
`Tick` moves time itself. `Answered`, `Refused` (the server finds the token
expired), `Unanswered` are the outcomes of an attempt; `tenacity` retries a page
`MaxAttempts` times, a download never. `Die` kills a process at any step.

### FolderListing

`stack` holds the calls of `list_folder_raw_items_recursive` that are under way,
each with its page index and the folders of the page still to descend into; a flat
listing has one. `FetchPage` takes the names there are at that moment, in the
server's order; a page shorter than `PageSize` is the last. Retries are
`FmsClient`'s. Directories are paths, `remote_folder` + item name: each but the root
lies in one other under one name, and there are no cycles (`DirectoriesArePaths`).
`Path(i)` are the names by which an item is reached: its own and those of the folders
above it, the least set of directories that holds its own and is closed upwards.

### Setup

Each program is a sequence of calls (`CallsOf`), made one by one by processes that
overlap; `todo` is what is left. `have`, `probe`, `db`, `contract`, `envfile`,
`wanted` are the stores: infrastructure, the readiness object, tables, the YAML
contract, `enviroment.yml` (empty while `switch_environment` writes it) and the
checklist's `environment`. `config` and `seen` are what a process loaded when it was
started. `CallFails`, `HeadFails`, `AnswerLost` are the failures, `EditContract` and
`EditChecklist` people. `excused` and `offered` are history. The code's own
outcomes are kept where they surprise: `ensure_all_buckets_exist` takes any error of
`head_bucket` for a missing bucket; `create_all` adds missing tables and never
alters one, so an added column is only detected; a preflight logs in to the active
environment alone.

## 3. Runs

| Run | Properties | Shows |
|---|---|---|
| `landing_sync` | `TypeOK`, `RegistryTellsTruth`, `CleanRunIsComplete`, `MirrorsReliably`, `HealthyFoldersConverge` | one process, three files in two folders, two of which share a temporary path and one of which never registers, two versions, two faults: its folder fails for ever, the other converges |
| `landing_overlap` | `RowHasObject` | two processes on two files with one temporary path: a row has an object, perhaps torn, never a whole file of another name |
| `landing_stale` (violation) | `RegistryTellsTruth` | two processes, one file, no fault: one uploads what the other has just truncated, or its older bytes, under the fingerprint of the whole new file |
| `staging_ingest` | `TypeOK`, `SuccessMeansLoaded`, `BusinessKeysUnique`, `CopiesReliably`, `RegisteredIsLoaded`, `QueueDrains` | one process, a merged and an appended contract, two versions, one fault |
| `staging_overlap` | `RowsNeverRegress`, `CopiesReliably` | two processes on one file, two versions: the older, read first and written last, never wins; the other safety properties are proved for any number of processes |
| `delta_refresh` | `TypeOK`, `QuietRunsComplete`, `CrawledMeansListed`, `CatalogueMovesForward`, `EveryFolderCrawled` | a nested folder, a flat one with two files and a root file; two publications, one fault, any number of runs |
| `delta_resume` (violation) | `IncompleteFoldersResume` | a folder whose listing failed is not resumed |
| `fms_client` | `TypeOK`, `RateBounded`, `GivesUpOnlyWhenUnlucky`, `CountersTellTruth`, `RunsEnd` | two clients share a session; tokens expire, answers get lost, the clock is stepped, the process is killed |
| `folder_listing` | `TypeOK`, `NothingStableMissed`, `NothingStableTwice` | a folder with a subfolder of four names each, pages of two, two changes |
| `preparation` | `TypeOK`, `EnabledExportsLand`, `EnvironmentsApart`, `DirectoryFirst`, `PathsStay`, `ReportsAgree`, `FullCrawlCovers`, `EnabledConverge` | two environments, a documented, an undocumented and a legacy folder, four templates, an edited classifier, a half-written overview; one fault and one change |
| `preparation_legacy` (violation) | `EnabledLegacyLand` | a legacy folder that is enabled and has its directory is never listed by a landing run |
| `setup` | `TypeOK`, `TestedIsSelected`, `PassedMeansReady`, `UndisturbedRunsSucceed`, `SetupConverges` | two processes run any two programs, again and again, from empty stores, with one upset |

**Bounds.** Two versions of a file are enough for every stale read: one old, one
new. In `landing_sync` two faults allow a failure during the recovery from a failure;
in `staging_ingest`, where two contracts are followed, one. `MaxAttempts` bounds the
contracts attempted: it is never reached with one process; two overlapping ones
would refuse each other for ever, so it stops them, and deadlock is not checked in
that run. In `delta_refresh` a scan stops after two known entries instead of three,
so that a log of three files has entries beyond the stop; `delta_resume` uses three.
In `fms_client` all times are one or two ticks: the interval is shorter than a
token's life, a wait can outlive the margin, a window sees two intervals. Two
attempts and two requests make one retry succeed or fail. In `preparation` the one
change and the one fault fall at any step of any process, and jobs are repeated
without bound: about 731 000 states, and many times that with a second change; each
change is itself a choice among all contents (any template for any file, an item
published or withdrawn, another classifier, ageing, a full crawl, a recompiled
checklist). `setup` (794 000 states) takes failures and edits together as one
upset; overlap needs none. `Templates`, `Rules` and library contents are small
because the operators treat folders independently but for matches of names: the
edited classifier has two publications that fit one folder; names within names
(`Within`) and archives with patterns (`Patterned`) are left to the proofs, which
hold for any. A half-written overview is seen empty or cut before the legacy folders of
PROD (`Cuts`); the proofs hold for any cuts. All bounds are in guards (`Publish`,
`LandingUploads`, `Fault`, `Query`, `Change`, `Edit`, `Ask`, `StepBack`, ...).

**Fairness.** For the stages, `WF_vars(Work(p))`: a job that has been started keeps
running, and jobs are started again and again (`dags/*.yml`, or the operator).
Publications, faults, uploads and registrations are never required to happen; there
are finitely many of them, which is what "once they cease" means in the liveness
properties. For `DeltaRefresh` it is `WF_vars(Work)`; nobody need ever force a full
run, and days need not pass. For `FmsClient` time passes, a process that is not
killed keeps running, and a request gets an answer or an error, not necessarily a
good one; that it gets one is an assumption, as `api/client.py:86` sets no timeout.
For `Preparation`, `WF_vars(Preparing)`, `WF_vars(Landing)` and
`SF_vars(StartPrepare)`: a preparation that is started again and again does not meet
a half-written overview each time, though surveys may go on for ever; surveys and full
crawls need not happen. For `Setup` a started process keeps running; that the set-up
programs are repeated is the premise of `SetupConverges`.

**Where code and documentation differ.** The three violation runs; PROJECT.json
quotes the lines. Also met, and not kept as runs:

- `README.md:178` calls the staging load idempotent: a republished file of a table
  without business keys is appended again (`Write` of `StagingIngest`).
- ADR-006 in `docs/adr` (line 46) says that only `prod/` is loaded: the query for
  pending files takes `iop/` as well.
- `README.md:362` says that only changed folders are crawled again: a folder whose
  name is a substring of a changed file's name is, too (`FolderIn`), and the freshness
  filter takes any row whose path contains a folder's name
  (`fms_metadata_freshness.py:113`, `Within`).
- `ADR-007:86` promises at most 95 requests a minute: true of one session
  (`RateBounded`), not of two processes for one environment.
- `dags/landing.yml` starts its second task from `jobs/staging/landing/`, which does
  not exist. No flow has a trigger: that jobs are repeated is left to whoever starts
  them.
- `switch_environment` reports success although an overlapping switch may have
  rewritten the file; killed between truncation and write, it leaves an empty
  `enviroment.yml`, with which no job can start.
- `download_single_file` in the delta refresh (`fms_metadata_delta.py:167`) asks for
  the logs without the check of the token's margin that listings and downloads pass
  (`ensure_token_valid`); `GivesUpOnlyWhenUnlucky` does not cover it, and a
  failure there is `FallBack` of `DeltaRefresh`.
- The registry's "hash signature of the file at the time of processing" is the hash of
  the query, not of what was read, which `SuccessMeansLoaded` shows to be harmless;
  the purge of raw files that ADR-004 plans does not exist; the update scan stops
  after three unchanged *files*, not folders.

## 4. Proofs

TLAPS checks, for any sets of processes, files, folders, contracts, keys, templates
and any bounds:

| Theorem | Statement | Assumes |
|---|---|---|
| `LandingSyncProofs!TypeCorrect` | `TypeOK` | |
| `LandingSyncProofs!RowsHaveObjects` | `RowHasObject` | |
| `LandingSyncProofs!RegistryIsTrue` | `RegistryTellsTruth` | `OneSyncer` |
| `LandingSyncProofs!LandingMirrors` | `LandingSync` implements `ReliableCopy` | `OneSyncer` |
| `LandingSyncProofs!LandingIsFounded` | `NothingUnfounded`: acknowledged <= copied <= published | `OneSyncer` |
| `LandingSyncProofs!CleanRunsComplete` | `CleanRunIsComplete` | `OneSyncer` |
| `StagingIngestProofs!TypeCorrect` | `TypeOK` | |
| `StagingIngestProofs!RowsMoveForward` | `RowsNeverRegress` | |
| `StagingIngestProofs!SuccessIsTrue` | `SuccessMeansLoaded` | `DistinctKeys` |
| `StagingIngestProofs!KeysStayUnique` | `BusinessKeysUnique` | `DistinctKeys` |
| `StagingIngestProofs!StagingMirrors` | `CopiesReliably`: `StagingIngest` implements `ReliableCopy` | `DistinctKeys` |
| `StagingIngestProofs!StagingIsFounded` | `NothingUnfounded`: logged <= loaded <= landed | `DistinctKeys` |
| `DeltaRefreshProofs!TypeCorrect` | `TypeOK` | |
| `DeltaRefreshProofs!QuietRunsAreComplete` | `QuietRunsComplete` | |
| `DeltaRefreshProofs!CrawledIsListed` | `CrawledMeansListed` | |
| `DeltaRefreshProofs!RefreshMovesForward` | `CatalogueMovesForward` | |
| `FmsClientProofs!TypeCorrect` | `TypeOK`, with mutual exclusion in a session | |
| `FmsClientProofs!GivenUpForACause` | `GivesUpOnlyWhenUnlucky` | |
| `FmsClientProofs!CountersAreTrue` | `CountersTellTruth` | |
| `FmsClientProofs!RequestsArePaced` | `RateBounded` | |
| `FolderListingProofs!TypeCorrect` | `TypeOK` | |
| `FolderListingProofs!NothingIsMissed` | `NothingStableMissed` | |
| `FolderListingProofs!NothingIsTwice` | `NothingStableTwice` | |
| `PreparationProofs!TypeCorrect` | `TypeOK`, with one row for a folder | |
| `PreparationProofs!FoldersKeepTheirPaths` | `PathsStay` | |
| `PreparationProofs!LandsFromItsEnvironment` | `EnvironmentsApart` | `NamesApart` |
| `PreparationProofs!DirectoriesPrecedeFiles` | `DirectoryFirst` | |
| `PreparationProofs!ReportsMatchTheOverview` | `ReportsAgree` | |
| `CoverageProofs!EnabledLands` | `EnabledExportsLand` | |
| `CoverageProofs!FullCrawlLeavesNothing` | `FullCrawlCovers` | |
| `SetupProofs!TypeCorrect` | `TypeOK` | |
| `SetupProofs!PassedIsReady` | `PassedMeansReady` | |
| `SetupProofs!SelectedIsTested` | `TestedIsSelected` | |
| `SetupProofs!UndisturbedSucceeds` | `UndisturbedRunsSucceed` | |

`OneSyncer` says that landing processes do not overlap; `landing_stale` shows that
it is needed. `DistinctKeys` says that no two files of a merged contract carry the
same keys. Nothing in the code ensures either, nor `NamesApart`. The other
assumptions on the constants type them and state their shape: a file lies in one
folder; directories are finitely many and are paths; `EnvOrder` and `GroupOrder` name every environment and group, no environment
twice, and R3 first among the archives, as the lists in the code do.

The argument. *Landing:* a registry row is written four calls after the listing it
was computed from, so the invariant must say what holds at each call in between:
`VersionsFlow` (listed version <= bytes <= current version; the object is no newer
than the bytes that will replace it; the temporary file holds those bytes; after
the upload the object is at least the listed version). `NamesKept` is what survives
of it under overlap: temporary files and objects are torn or have the bytes of a file
of their name. `hold` is in the invariant of one process alone: nobody else opens
what it writes. `RunsAccount` says that whatever a run has listed is registered or still in
its batch unless an error has been counted. *Staging:* `VersionsFlow` (queried hash
<= bytes read <= object; and, as long as nobody has committed since the snapshot,
no row of the table is newer than the bytes about to replace it) makes every write
a move forward; `LoggedIsLoaded` adds that what was written is still there when it
is logged, however others write in between. For the refinement, the rows of a file
must be read as one level, `Copied`: it is the greatest of a bounded set of versions
(lemma `GreatestExists`), rows of one table never regress, so each step moves one of
the levels `Acknowledged <= Copied <= stored` upwards or none (`Levels`,
`OneLevelMoves`), which is a step of `ReliableCopy` or a stutter. *Refresh:* `QuietRunsComplete` speaks of
the moments between runs only; the invariant `NothingMissed` says for each place in
a run which files may still be behind, and between runs `NewestFirst`: whatever the
catalogue is behind on is newer than all it is up to date on. That is why the scan,
which stops at entries it knows, cannot stop too early (lemma `ScanFinds`); a
publication keeps it because it is newer than everything; a failure or a publication
during a run destroys it, and `delta_resume` shows what follows. `WholeFoldersListed`
carries the fact that a folder without `crawled_at` stays dirty as a whole until it
has been listed, and `TimesAreReal` that a listing in hand is never older than what
it will replace.

*Client:* the invariant `Fortune` ties what a client believes of its token to the
server's view: unless the clock was set back, the client never gives it longer than
the server does (`left <= life`), and while a request waits, what is left of the
token plus the time since it was checked exceeds the margin; hence a refused request
has waited longer than the margin. `CountersTellTruth` is inductive once the requests
about to be sent are counted in (`Sending`, a finite set). `RateBounded` speaks of any
closed window that ends now; the invariant `Paced` adds what the window cannot see.
For every age `a`, the requests of the last `a` and those of workers that have had
their turn and not sent yet are at most one per worker, one per interruption, and one
per interval in `a + Wait(s)`, where `Wait(s)` is how long the next turn is still
away. Time moves requests to a greater age and `Wait` down together; a turn is taken
only when `Wait` is zero, which buys it the interval it spends.

*Listing:* `NoneLost` says of an item that is stable and not shifted that it has been
returned, or that one of the names on its path is still ahead of the page index of a
call under way, or in the folders of the page it descends into. `NoneTwice` says
that it has been returned at most once, that at most one name on its path is still
ahead, and that none is once it has been returned. Both rest on the position of a
name in its folder, which moves down only by a withdrawal before it and up only by a
publication before it. Facts about paths (the folders above a directory form one chain)
come from the smallest-set definition of `Above`, without induction.

*Preparation:* `Paths` says that the schema is part of the table of folders, that
the table only grows and keeps one row per folder, and that what a preparation has
read lies between the two; so replacing the schema by it moves nothing, although the
read is old. `Selection` and `Directories` follow a landing run: what it selects is
in its environment and enabled there, and has its directory for as long as the
checklist is what the preflight read. `Findings` says what a survey has in hand:
outcomes of the rules it has read, for some contents of the library; `ReportsAgree`
follows for the publication that decides, the first fit, however many fit. For coverage,
`Prepared` follows each enabled folder through the preparation (in a group still
ahead, in the group at hand, about to be inserted, in the table, or skipped), then
into what is read of the table, then into the schema; `Owing` takes it from there
through the landing run. That a group is still ahead, until it comes up, rests on
arithmetic: each group of each environment has a round (lemma `EachGroupHasARound`).
`Covering` does the same for a full crawl; for legacy folders it must add that those
found stale when the first archive begins stay planned for the others, which holds
because R3 comes first (lemma `LatestArchiveFirst`) and because the archives together
hold every legacy folder (`EachLegacyHasAnArchive`). It holds of one and the same
overview, whole or cut short by an earlier survey: a write to it takes `steady` away.
For the preparation, where the overview may be cut short or replaced at any time,
`Overviewed` says that an overview that names a legacy folder has the root for its
readers.

*Set-up:* `Progress` says for each thing a program must leave that it is there or
that a call for it is still to come, for a sequence of calls that shrinks from the
front or has its first call replaced; `Selected` that what a preflight loaded or can
still resolve has been on offer since it started. `OnCourse` is the invariant behind
`UndisturbedRunsSucceed`: a process not yet excused has left of its program a tail of
what it started with, or a call that stands for the first of it (`TurnsInto`), finds
in the stores all that the rest needs and does not make itself (`FindsAllItNeeds`),
and runs beside no other program that could spoil it (`NobodySpoils`). Such a call is
not refused (`NotRefused`), and no step of another process takes the ground away
(`OthersOnCourse`).

TLC was run on the invariants before they were proved.

Every invariant and every safety property that a passing run checks is stated by one
of these theorems. Where a proof would have liked an induction, it takes the least
element of a set of natural numbers (a counterexample of least depth, or the
greatest of a bounded set), which the library's well-foundedness of `<` gives without
an operator as a parameter.

Only model-checked: the liveness properties (`HealthyFoldersConverge`,
`RegisteredIsLoaded`, `QueueDrains`, `EveryFolderCrawled`, `RunsEnd`,
`EnabledConverge`, `SetupConverges`), as fairness and `ENABLED` are out of the prover's
reach; and the three statements that the violation runs refute.

## 5. Not modelled

Spark schemas and the schema registry (`iseberg_schema_generator.py`,
`generate_iceberg_schemas.py`): a one-way translation of type names. Report
rendering, observability back ends, notebooks, tutorials, containers: nothing the
pipeline's correctness depends on reads them. `io/core/preflight.py`
(`run_ingestion_preflight`) has no caller. YAML parsing and validation only succeeds
or fails. Jobs load their configuration when they are imported and end at once if it
cannot be read, so the resolver's fallback to PROD is not reached.

## 6. Plan

Done: `ReliableCopy`, `LandingSync`, `StagingIngest`, `DeltaRefresh`, `FmsClient`,
`FolderListing`, `Catalogue` with `Preparation`, `Setup`, and their proofs.

Left, in this order:

1. `Pipeline`: `LandingSync` and `StagingIngest` composed through bucket and
   registry, implementing two `ReliableCopy` in a row; a vanished object then fails
   a contract's read until it is restored.
2. Overlapping delta refreshes of one domain, and legacy folders in delta runs.
3. `StagingIngest` with the clocks of several hosts (`ingested_at`).
4. Proofs: what two overlapping landing processes still keep beyond `RowHasObject`;
   a `RateBounded` in real time for a clock that is not stepped.
