# PTR Alpha in TLA+

PTR Alpha collects the periodic transaction reports of U.S. legislators,
extracts transactions from PDFs (locally or with paid vision services), admits
them into one DuckDB database, and scores and backtests what they disclose.
This directory specifies the part of it whose mistakes cost money or corrupt the
record: the durable extraction queue and the coordinator that drives it, the
admission of paid results under review, the archive they belong to, the stores
around them (published database, decision ledger, staging records, prices, the
staged rebuild), the sources beside the House, and what is recommended and
evaluated on the rows.

Paths below are relative to the repository root; `ocr/`, `persistence/`,
`portfolio/` and `signals/` are under `src/analyzer/`.

## Inventory

| part | state | operations | who it talks to |
|---|---|---|---|
| extraction queue, `persistence/work_repository.py`, `ocr/contracts.py` | tables `extraction_work`, `extraction_attempts`, `extraction_results` | register, register_blocked, supersede_pending, claim, recover_expired, register_result, finish, append_admission_decision | called by the coordinator and by the quarantine, always on the owner's connection |
| coordinator, `ocr/coordinator.py` | the arguments of one run, the set of unresolved documents, futures, reviews already seen | replay of the spool, lease recovery, cancellation, escalation, seeding, dispatch, receipt, review polling, shutdown | queue, workers, admission, reviews, publication |
| workers, `ocr/workers.py` | files under `pipeline/results` | extract, publish one bundle | coordinator (futures and spool) |
| admission, `ocr/ingestion.py`, `ocr/normalization.py` | transactions and parse runs of a document | admission gate, row replacement, refusal, re-admission | queue and database in one transaction |
| reviews, `ocr/review.py` | bundles, verdicts appended per bundle, a selector per result | prepare, record, decide | reviewers write beside the owner, admission reads |
| quarantine, `scripts/quarantine_model_admissions.py` | the same tables and spool | withdraw admissions of a model | exclusive owner between runs |
| row history, `persistence/transaction_repository.py`, `parse_run_repository.py`, the two views, `scripts/` for maintenance | rows and runs of a filing, their history tables | parse, admit, reparse, mark invalid, restore, purge, reconstruct an earlier day | whoever reads `canonical_transactions` or `canonical_as_of` |
| ownership and publication, `persistence/ownership.py`, `persistence/database.py` | lease file, working file, snapshot directory, pointer file | own, connect, publish_snapshot, resolve a read path, close | every process |
| House archive, `persistence/database.py`, `house_refresh.py`, `download.py` | generations, artifacts, parse runs, staged directories | acquire, promote, parse, complete, invalidate | coordinator (scope), canonical view |
| decision receipts, `decision_snapshot.py` | hash-chained ledger and receipt files | publish, verify | commands that decide |
| GLM staging and its audit, `scripts/glm_stage.py`, `scripts/audit_sample.py` | one JSON record per document, frozen samples, verdict history, report | stage, replace with archive, sample, judge, report, promote | apart from the database until promotion |
| local OCR staging, `scripts/ocr_local_sweep.py`, `scan_ocr.py`, `ocr_local_reclassify_no_txs.py` | rows files, envelopes, attempts, manifest | read, publish, reclassify | rebuild consumes the root |
| rebuild, `scripts/rebuild_staged.py`, `audit_generation.py` | a staged database, a manifest beside it | fetch, parse, complete, repair, verify, promote | the same sources, the working database |
| price generations, `price_source.py`, `scripts/refresh_prices.py` and three maintenance scripts | cached closes, adjusted generations, certification | fetch, merge, certify, rebaseline | database |
| Senate reports, `senate_efd.py`, `persistence/source_report_repository.py` | session, search, sealed bundle, rows and inventory | search, fetch with retries, commit, ingest, audit | a live index; database |
| SEC filings, `form4.py`, `form13f.py`, `sec.py` | memoized access control, filing rows by generation | sweep of daily indices, issuer and manager fetches, insertion | SEC; database |
| Capitol Trades, `capitol_trades.py` | pages, one retained result, artifact | paginate, validate, write once | a live list; files |
| positions, `positions.py`, `entry_close.py` | lots and band estimates of a filer | buy, sell, gate of entries, entry price | signals |
| consensus, `pipeline.py`, `signals/`, `member_names.py`, `ticker_resolver.py`, `backtest/` | recommendations, their replay | recommend, query, replay a day, fund its basket | historical view, prices |
| portfolio evaluations, `portfolio/` | one account, open positions, curve | equal slots; Kelly targets | prices, recommendations |
| parsing, scoring, reports, command line, cron, doctor | little or none | see *Not modelled* | everything |

What makes them hard, and what correctness means there:

- *Queue.* Leases expire while a response is being delivered or waits to be
  decided, and a task may be claimed again. A verdict must be given once per
  attempt, never overwritten by a late delivery, and the two tables that record
  it must agree.
- *Coordinator.* It may be killed between any two commits; threads die with it,
  local worker processes may not. The next run has the tables, the spool and the
  review directory. It must import what was paid for before it gives a lease
  back, must not extract a document twice at once, and must not forget a
  document between two lanes.
- *Admission, reviews, quarantine and history.* The rows and the verdict have to
  change together; a review authorises the decision its reviewer saw, not a
  later one; an admission withdrawn must not come back without a new review; and
  whatever is admitted, retired or repaired today must not change what an
  earlier day is said to have known.
- *Publication and ledger.* Publishing closes the connection for a clone.
  Readers resolve a path, then open it. Processes die at any step, writes are
  short, power is lost between a write and its flush.
- *House archive and rebuild.* A refresh moves a directory of PDFs by renames
  and promotes a generation in a transaction; most generations are superseded
  before they are complete. The rebuild audits a file while stages may still
  write it.
- *Staging.* Readings replace each other while a sample is frozen, judged and
  offered. Threads of a batch share streaks that must stop it in time.
- *Sources.* Indices, lists and filings change while they are paged through; a
  rejection may mean "not published" or "blocked".
- *Prices, positions, consensus, portfolios.* An action rescales every earlier
  close in every later download; days without quotes, late rows and renamed
  tickers must not make a replay differ from what was recommended.

`PROJECT.json` lists the hazards line by line, with the properties that cover
each.

## Modules

| module | models | EXTENDS / INSTANCE |
|---|---|---|
| `AttemptLedger` | what the queue promises, without tables | |
| `WorkQueue` | the tables and every operation on them | instantiates `AttemptLedger` |
| `Pipeline` | coordinator, workers, reviewers, quarantine over the queue | extends `WorkQueue` |
| `SourceReview` | bundles, verdicts, selectors and readmission of one response | |
| `RowHistory` | rows and runs of one filing, live view and view of an ended day | |
| `HouseArchive` | refreshes of one archive year, results bound to its generations, completion, the canonical view | |
| `Publication` | owners, publishers, readers | |
| `DecisionLedger` | publication of decision receipts | |
| `StagedRecord` | what the audit relies on about staging records | |
| `Staging` | stagers that publish readings | instantiates `StagedRecord` |
| `StagedAudit` | sample, verdicts, report, promotion | extends `StagedRecord`, `AuditBound` |
| `AuditBound` | the confidence bound, in exact arithmetic | |
| `StageBatch` | the threads of one batch | |
| `LocalSweep` | the staging root of local OCR | |
| `Prices` | closes of one ticker and their generations | |
| `Rebuild` | the stages of a rebuild and the promotion of its file | |
| `SenateRefresh` | search, fetch, commit, ingestion, audit | |
| `SecFilings` | Form 4 sweeps, issuer and 13F fetches, insertion of rows | |
| `CapitolPages` | pages of a changing list, the retained result, its artifact | |
| `Positions`, `EntryClose` | lots of a filer; the close a trade is priced at | |
| `Consensus` | live recommendation, query, replay | |
| `EqualSlot`, `KellyTargets` | the two portfolio evaluations | |
| `Outside` | what these and the sources of filings promise together | extends `EqualSlot`, `KellyTargets`, `SecFilings`, `CapitolPages` |
| `Pipeline_proofs`, `Admissions_proofs`, `HouseArchive_proofs`, `Publication_proofs`, `DecisionLedger_proofs`, `Backlog_proofs`, `Sources_proofs`, `Portfolios_proofs` | theorems | extend the above |
| `MCWorkQueue`, `MCPipeline`, `MCOutside`, `MCSources`, `MCAdmissions`, `MCStores`, `MCBacklog`, `MCHouseArchive` | finite instances | extend the above |

Components that share state are composed: `Pipeline` is the queue, the
coordinator, the workers, the reviewers and the quarantine in one next-state
relation, and `StagedAudit` contains the stagers as `StagedRecord` allows them
to be. Components that share none are checked side by side: `MCOutside`,
`MCSources`, `MCAdmissions`, `MCStores` and `MCBacklog` put several of them in
one instance in which a behaviour moves one part and leaves the others as they were
set up. The states of the parts then add up rather than multiply, and nothing is
claimed about their interaction, since there is none.

### WorkQueue

`work`, `attempts` and `results` are the three tables, as functions over their
primary keys; an absent row is `Unregistered` or `NoResult`. A task is a binding
(document, year, generation, digest of the artifact) and a lane. The identity of
a delivery is the hash of its whole content, so a `Bundle` (attempt, outcome and
a `Serial` for the rest of the content) is its own identity. Two timestamps
(`lease_until`, `retry_at`) are only ever compared with the clock, hence the
flag `due`, which `TimePasses` sets. Every method that writes is one action:

| method | action |
|---|---|
| `register`, `register_blocked` | `Register`, `RegisterBlocked` (insert, nothing on conflict) |
| `supersede_pending(_many)` | `SupersedePending` |
| `claim` | `Claim` |
| `recover_expired` | `Recover` over the rows that are `Recoverable` |
| `register_result` | `RegisterResult` (the row moves only for the active attempt; otherwise the delivery is stored as superseded) |
| `finish` | `Finish` |
| `append_admission_decision` | `AppendDecision` |
| `effective_admission_decision` | `EffectiveDecision` |

`AttemptLedger` states the contract: an attempt is drawn once, judged at most
once, and a task is dispatched again only when its attempt was given back
unjudged or its judgement re-queued it. `ImplementsLedger` maps the tables to
it.

### Pipeline

One action is one commit of the owner, so `Kill` and `Abort` fall between any
two of them. `pc` follows `run_pipeline`: replay, lease recovery ("cancel"
starts after it), cancellation of resolved work, escalation of replayed
reviews, drain. `job` is the `receive()` in progress, whose commits are
`Receive` (register), `Ingest` (verdict and rows), `Settle` (cancel the other
lanes, or refuse an admission that resolved nothing) and `Escalate` (one insert
per lane). `resolved` is what `get_unresolved_house_doc_ids` does not return.
Workers publish (`Publish`) or fail; after a kill, a subset of the *local*
workers goes on, because they are processes and the provider calls are threads.
`SignReview` records a passing review with the decision it overrules;
`Authorised` is the comparison at admission. `Quarantine...` are the steps of
the script: decision into the spool, then the commit or a rollback.

A run is started with one of four kinds of arguments (`Modes`): none, a list of
years (`scope` restricted), `extract_doc_ids` (whole scope replayed, part of it
extracted), or `doc_ids`. `RecoverLeases` distinguishes them as the code does.

Left out on purpose: slots, back-off and quotas only delay a dispatch; every
binding is current (`HouseArchive` has the generations); the recipe refresh of
resolved documents; the publications a run makes; a change of the extraction
recipe. What the audits and the normaliser say about a table of rows is a choice
(`Rulings`), as is whether an admission resolves its document. All bundles the
queue has registered lie in the spool, so `pending_results` adds nothing to the
replay.

### SourceReview

Where `Pipeline` summarises a review as "signed, overruling this decision",
`SourceReview` has one response and the files of `ocr/review.py`: a bundle per
source of rows (the response or a proposal) and recipe, verdicts appended with
the decisions their reviewer acknowledged (`RecordVerdict`), the selector
(`WriteSelector`, a write of its own, after which a kill may come),
`HasFailedProjection` (a refusal follows the *rows*, whatever bundle they stand
in), `Allowed`, and the coordinator's admission, refusal, retraction and
readmission. Authorities and the evidence an AI review must quote are left out.

### RowHistory

One filing of one year: `rows` and `parses` with their history tables, written
by the parse, the admission, its in-place acceptance, the failed attempt, the
manual mark, the restore, the archive's promotion, the purge and the quarantine.
A transaction has an instant for `CURRENT_TIMESTAMP` (its start) and a later one
for `datetime.now()`. `Live` is `canonical_transactions`, `AsOf` is
`canonical_as_of`; `shownAt` remembers what the live view showed when a day
ended.

### Publication and DecisionLedger

The working file's content is its number of commits, a version is named by the
content sealed in it. `publish_snapshot` is `Seal` (hold looked up, checkpoint,
close), `Clone` or `CloneFails`, `Reopen`, `Announce`; opening for reading is
`Resolve` (pointer), `Probe`/`EndProbe` (shared lock on the lease), `OpenRead`.
A crash is `Leave`: the kernel drops lock and connection. `PlaceHold` and
`ReleaseHold` are the operator's. That DuckDB keeps a read-write connection and
another process's connection apart is taken from its documentation and the
code's reliance on it. The order in which a file system writes directories at a
power loss is not modelled there.

It is in `DecisionLedger`: a name is as durable as the directory or file last
flushed below it. `_publish` is `Enter`, `Link`, `FlushReceipt`, the lookup in
the ledger (`Found`, `Already`, `Repeat`), `AppendLine` or `ShortWrite` and
`Cut`, `FlushLedger`, `Serve`. A decision is the hash of its content, a line's
hash is the sequence of the decisions up to it.

### HouseArchive

`generations` is `house_archive_generations` with what each generation lists
(`house_generation_metadata`, `house_pdf_artifacts`) and the filings it removed
(`house_archive_quarantine`), in the order of `promoted_at`. `rows` counts the
live rows of `transactions` by document, source and generation; `runs` is
`pdf_parse_runs` by document, parser version and generation; `files` is the
year's directory; `fetch` is a refresh half way, with the staging directory it
holds.

| code | action |
|---|---|
| `_fetch_and_cache_pdfs_async`, nothing new | `KeepUnchanged` |
| its renames | `SwapOut`, `SwapIn`, `Quarantine` |
| `promote_house_archive` | `Promote` (generation, carried rows and carried runs at once) |
| its exception handler | `Undo` |
| `_save_parse_results`, `replace_transactions_for_docs` | `SaveRows`, `SaveFailure` |
| admission of a paid reading | `Admit` (rows of all generations are replaced) |
| `mark_house_doc_invalid` | `MarkInvalid` |
| `mark_house_generation_parse_complete` | `Complete` |

`Settles` is the test of `get_unresolved_house_doc_ids`; `Shown`, `Admitted` and
`Canonical` are the view `canonical_transactions`. A parse and a refresh do not
overlap, since both need the owner's connection; they do not overlap with a kill
either, because every other operation is one transaction.

Abstractions: one archive year, with document ids of its own. Every row passes
the validity screens (so the branch of admission that invalidates deterministic
rows is out), every row and run bears the digest of its document in its
generation, rows without a generation and filings that change their type do not
occur. Results for a superseded generation never get here: `_current_binding`
blocks them in the coordinator (`Bound`). Acquisition of the PDFs changes the
staging directory only and is part of `SwapOut`. `Undo` is one step: a kill in
its middle leaves what a kill at an earlier rename leaves.

### Staging, StagedRecord, StagedAudit, AuditBound, StageBatch

A stager locks a document, gives the live record its archived name
(`LinkAttempt`), removes the live one (`UnlinkLive`) and moves a complete file
into place (`WriteRecord`); it may die in between. `StagersWriteRecords` is the
refinement of `StagedRecord`, the three facts the audit relies on.

`StagedAudit` composes that with the operations that run under the audit lock:
`BeginSample` ... `EndSample`, a verdict in four writes (`BeginVerdict`,
`LockVerdict`, `VoidReport`, `StampRecord`, `AppendVerdict`), the report
(`BeginReport`, `WriteReport`) and the offer of promotion (`Offer`,
`InsertRefused`). Every file is replaced as a whole, so a death falls between
writes. `AuditBound` is the hypergeometric bound the report decides with:
a stratum's documents are numbered, the wrong ones first, probabilities are
numbers of samples, and the binary search is compared with the definition. The
code computes with floats; the model is exact. `StageBatch` has the threads of `stage_batch`, the two streaks under
their lock, the event that stops the batch, and the collecting main thread.

### LocalSweep

A reading takes no lock; publishing does: rows file, archive of the old
envelope, envelope, manifest are the four writes of `_publish_document_locked`
and `_write_manifest_locked`. Three scripts use one root, of which only the one
that began it may write; the reclassification rewrites envelopes of the older
rule; `consume` of the rebuild ingests what the manifest lists, if files still
match it and the PDF is the one that was read.

### Rebuild

A *stage* loads the manifest, takes the lease, writes the staged database, saves
the manifest and closes; it may die or fail between them. `promote` reads the
staged database without the lease (`OpenAudit`, `CloseAudit`), fingerprints the
file, and installs it (`Install`). `quiet` and `unsettled` are history: whether
a stage worked meanwhile, and whether a stage left a batch without refreshing
completion. A document is its result, its count, its report and its generation.

### Prices

A corporate action scales the closes of all earlier days in every later
download, so a close is the number of the known actions after its day; the raw
price is constant and an action larger than the tolerances. `Fetch` is
`_merge_price_generation` and may stop after any of its writes; `Refresh`
downloads into a temporary database that `MergeRefresh` joins; `Certify`,
`Rebaseline`, `StoreSecondFetch` are the maintenance scripts.

### SenateRefresh

The index is live: reports are published, withdrawn and revised between any two
requests. A refresh searches page by page, fetches each report with retries and
session renewals, and commits rows and inventory in one transaction, or seals a
bundle that `IngestBundle` commits later, perhaps after newer ones.
`_verify_senate_phase` is the audit of the rebuilt database.

### SecFilings and CapitolPages

`SecFilings` has the daily sweep (`StartSweep`, `RequestIndex`, `Reachable`: a
403 is trusted as "not published" only after the control request succeeded), the
filings of an issuer, 13F snapshots and discovered increases, and the insertion
of rows in `LookUp` and `Insert` under a lock of the process. `CapitolPages` has
the list by position, the checks of a page, the result that is retained whole or
not at all, and the artifact that is linked and never replaces another.

### Positions, EntryClose, Consensus

`Positions` replays the rows of a filer one by one: `Buy`, `Sell` and
`FullSale`, with lots, band estimates, the tolerance that closes dust, and the
gate on entries. The queue of lots is a function from the row that bought a lot
to the lot, so the order of the queue is the order of the rows. `EntryClose` has the definition of the entry price and the
memoized search that replaces it. `Consensus` makes a recommendation at the end
of each day from what is visible then and replays days later, after rows came
late, were retired or released, quotes were delivered late and tickers renamed.
Its inputs are built so that each rule decides some score: spellings of a member,
an acquired company, a reused symbol, a Senate report of anomalous size, an
officer of Form 4.

### EqualSlot and KellyTargets

Both are one account moved day by day. `EqualSlot`: exits due, entries pending,
snapshot, new orders (`EndDay`), at last `ComputeMetrics`. `KellyTargets`: sized
and capped targets, then for each date of the index exits, fills (`FillTarget`)
and a row of the curve. Each evaluation is repeated over a shorter window, so
that looking ahead would show as a difference.

### Seeded faults

Operators whose comment starts with "Mutant" are not part of a specification.
Each is one action or condition with a plausible mistake in it; `PROJECT.json`
pairs them with the property that must fail when the original is replaced.

## Runs

Bounds: `Attempt` bounds the claims of an instance, `Serial` the identities of
decisions per attempt and outcome, `MaxFaults` the kills and errors, `Max...`
what their names say. Where attempts or identities run out nothing but the
bounded action is disabled.

| run | instance | shows |
|---|---|---|
| `queue` (`MCOutside`) | 1 document, 1 lane (and the NULL lane), 2 attempts with 4 bundles each | every order of claims, lapses, deliveries, verdicts, decisions, cancellations: `QueueAgrees`, `DecisionsCohere`, `DecisionsStand`, `ImplementsLedger`. Two attempts give a late delivery of the first while the second is leased; two serials per outcome give chains of three decisions |
| ″ | 2 tickers, 8 sessions, all price paths and signals listed there, 2 windows | `PortfoliosAndSourcesAreSound`: books balance, every order is answered once, exits and marks are timely, caps hold, the curve of a shorter window is a prefix |
| ″ | 2 SEC sources, 3 filings of Form 4, 3 of 13F, 2 days, 1 block; 2 readers of 3 trades, 3 changes | ″: filings are stored once, a blocked sweep is not a quiet week, results are exact and complete or refused, files written once |
| `lanes` (`MCPipeline`) | 1 document, gemini and glm, 2 attempts, 3 serials, 1 fault | `AdmissionsAreGrounded`, `PaidResponsesCount`, `ResolvedIsNotExtracted`, `NothingForgotten`, `UsesQueue` over several runs |
| `scopes` (`MCSources`) | 2 documents, gemini, runs of kinds full, docs and extract, 1 fault | `ImportedBeforeDispatch`: what is outside a restricted run's extraction is still imported before any dispatch |
| ″ | 2 reports, 2 refreshes, 1 revision, 1 withdrawal, pages of 1 | `SenateIsSound`, `SenateRowsStay` |
| ″ | 4 trades of 2 owners, 2 sizes and prices; 5 days of bars | `PositionsAreSound`, `SalesTakeWhatTheyName`, `EntryIsSound` |
| ″ | 5 trades of the first day and up to 2 of 7 later, 3 decisions, 1 upset, 2 backtests | `ConsensusIsSound` |
| `admissions` (`MCAdmissions`) | 1 document, local and gemini, 2 attempts, quarantine, 1 fault | `OneExtractionPerBinding`: local workers that outlive a kill, quarantined admissions |
| ″ | 4 transactions on one filing of 2 contents, 2 generations | `HistoryIsFaithful`, `NothingIsLost` |
| ″ | 2 sources of rows, 2 recipes, 2 verdicts, 3 decisions | `AdmissionsRestOnReviews` |
| `liveness` (`MCPipeline`) | 1 document, local and gemini, 2 attempts, 1 fault | `ResponsesAreDecided`, `ReviewsEscalate` |
| `archive` | 2 filings, 2 contents, 3 generations, a local and a paid recipe, 1 row | `InSync`, `FilingsAreConsistent`, `ShownOnlyAdvances`, `SettledIsCarried`: filings change, leave and come back, refreshes are undone or killed, results come at any time |
| `stores` (`MCStores`) | 3 processes, 2 commits | `OwnershipInvariant`, `ReadersAreServed`: an owner, a publisher's successor and a reader at once |
| ″ | 2 publishers, 2 decisions | `LedgerIsSound` |
| ″ | 2 stagers, 2 documents, 3 readings | `StagingInvariant`, `StagersWriteRecords` |
| ″ | 3 days, 1 action, 2 repairs | `PriceInvariant`, `FetchesKeepEvidence` |
| ″ | 1 filing, 1 stage at a time, 2 generations | `RebuildIsSound` |
| `backlog` (`MCBacklog`) | 2 documents, 2 readings, 2 verdicts | `GateIsSound`, `VerdictsAreBound` |
| ″ | 2 strata of up to 5 documents | `BoundIsSound` |
| ″ | 4 candidates, 2 threads, threshold 2 | `BatchStops` |
| ″ | 1 document of 2 pages, 2 producers, 2 publications | `SweepIsSound` |

An invariant of a run is a conjunction of named parts; the modules state and
explain each part.

The states of `archive` are restricted to two parse runs on record (`FewRuns`; a
carried run is another one): enough to complete a generation of two filings, to
carry a settled filing twice, to settle one filing by two sources, and to fail
it again. One kind of metadata suffices, since the archive compares metadata and
digest together wherever it carries; contents are interchangeable and so are
filings. More generations only repeat the three roles.

Where one document suffices it is because every condition of the coordinator
and the queue speaks of one binding; `scopes` has two since there a run treats
documents differently. Attempts, serials, contents and filings are symmetry
where no definition tells them apart, never in the liveness run.

Larger instances were checked once and pass: `StagedAudit` with three readings
(10.7 million states), `LocalSweep` with publications counted without the
readings in flight (657,000), `RowHistory` with five transactions on two days
(3.0 million) and with two keys and two recipes (1.1 million), `SourceReview`
with three verdicts and decisions (4.1 million), `CapitolPages` with four trades
and four changes (1.8 million), `SecFilings` with three days (340,000),
`EqualSlot` with all plans and three windows (239,000), `Consensus` with
backtests at any day (176,000).

CHECK_DEADLOCK is off where the system may stop: attempts, generations, days or
trades run out. In the `Pipeline` instances without a scope a new run can always
start.

### Divergences

Four runs refute something the code's own comments promise; `PROJECT.json`
quotes the lines.

- `year_scope`: `--years` runs replay their years only but recover leases
  globally (`ocr/coordinator.py:474`). A paid response of another year, spooled
  before a crash, is later written off as superseded and bought again.
- `rereview`: the second refusal of one result has the identity of the first,
  and the run ends with an error each time (`ocr/coordinator.py:443`).
- `hold`: a hold placed during a publication is overwritten
  (`persistence/database.py:175`).
- `removed`: completion deletes the rows of filings removed by that very
  generation (`persistence/database.py:1320`). A filing that leaves in a
  generation which is superseded before it is complete stays in the canonical
  view when its successors complete.

More are visible in the models and have no run of their own. Where one of them
limits a property, its definition says so.

- `Pipeline`: a lane that returns `retry_wait` after a review of another lane
  resolved its document is dispatched again while other work keeps the run alive
  (`ocr/coordinator.py:581` says resolved queued bindings were superseded); the
  quarantine publishes its evidence where workers deliver
  (`scripts/quarantine_model_admissions.py:166`).
- `Publication`: a reader that resolved the working path before an owner took
  the lease may open the file afterwards, though README.md:206 calls an active
  owner without a snapshot an error; a reader's probe makes an acquisition fail.
- `SourceReview`: a kill between verdict and selector leaves a pass of the
  default candidate admissible without a selector; a readmission that is rolled
  back is appended all the same and needs a new acknowledging review.
- `RowHistory`: a transaction that starts before and commits after midnight is
  not seen as of the day it began in, or half seen (the model keeps a
  transaction within one day); the purge of unaccepted rows also requires an
  official filing date, so it can delete rows the view shows; an acceptance that
  updates rows in place cannot be quarantined.
- `Rebuild`: verification closes the database before it fingerprints the main
  file, so a stage that writes in between gets bytes installed that were not
  audited (`InstalledIsAudited` is claimed under `quiet`); a document demoted by
  a repair and parsed again by a stage that dies passes with a stale report when
  the counts coincide (`unsettled`); a document resolved as invalid can never be
  inventoried, so completion raises.
- `LocalSweep`: `run_sweep` never checks its canary though its docstring says
  so (`ocr_local_sweep.py:46`); the text cascade can resolve nothing; pages
  whose rows all lack an asset count as covered.
- `SenateRefresh`: rows are merged additively under their old generation, so
  after a second refresh the audit can never pass, though the ingestion is said
  to replace the chamber (`rebuild_staged.py`, `ingest_senate_window`); a later
  refresh lifts the row-count fence from old rows (`AnomaliesAreHeld` is claimed
  for one generation); a retry after a session renewal inside a POST keeps the
  old token; a report withdrawn between two pages hides another; an older bundle
  ingested late replaces a newer inventory; one unparseable report blocks every
  refresh of its window.
- `Consensus`: the replay reads the fence as it is now, so a later refresh
  changes the frame of an old day (`Unreleased`); the buyers' table of one
  ticker lists officers that the score does not count (`pipeline.py:661`).
- `EqualSlot`: a position whose planned exit session has no quote stays open
  (reported as unresolved); a position of one day bought on Friday exits at that
  Friday's close.
- `SecFilings`: a discovered increase and a snapshot share accession and cusip,
  so the later of them is dropped as stored.
- `CapitolPages`: "exact, stable result set" (`_paginate`) fails when a
  withdrawal and an addition between pages leave the total unchanged
  (`ResultsAreExact` excludes results during which a trade was withdrawn).

## Fairness

`FairSpec` assumes what the schedule gives. `cron/crontab.txt` starts a run
without arguments every night, and it may find the database owned by a longer
operation: strong fairness of `StartRun(Nightly)`. A live owner goes on with its
single-threaded loop: weak fairness of `OwnerStep`. A request to a provider has a
timeout: every worker eventually publishes or fails. Nothing is assumed of
reviewers, of leases expiring, of kills, of errors or of the quarantine. The
instance enables both of its lanes every night; a deployment that never enables
a lane makes no promise about it. It has no third serial, hence no second
admission of one result: with one, `rereview` above ends every run and nothing
after it is decided. The other modules claim no liveness.

## Proofs

Every theorem holds for all values of the constants that satisfy the named
assumptions beside their declaration (`QueueAssumption`, `PipelineAssumption`,
`PublicationAssumption`, `ArchiveAssumption`, `StagingAssumption`, ...), so for
any number of attempts, documents, processes and faults. The modules state the
invariants and `*_proofs` show them inductive, one lemma per action.

`Pipeline_proofs`: the inductive invariant `QueueInv` joins the type and the
six facts the run checks with four that carry them from step to step: the
current attempt of a row was drawn for that row (`RowOwnsItsAttempt`), what was
delivered was drawn (`DeliveredWasDrawn`), only verdicts are decisions
(`OnlyVerdictsDecide`), and a task that is absent, pending or running has no
verdict on its attempt (`QueuedIsUnjudged`), without which `Claim` and
`AppendDecision` could leave a second verdict. `OneVerdict`, `NoDeliveryLost`,
`DecisionsAgree`, `ReceiptsImmutable`, `DecidedIsFinal` and the properties the
run names (`QueueTablesAgree`, `DecisionsHaveOneOutcome`, `DecisionsAreKept`)
are its consequences, and `QueueImplementsLedger` maps each operation to a step
of `AttemptLedger`. Since `Recover` and `SupersedePending` change many rows at
once, their lemmas are about any change of status alone (`StatusOnly`).

The same module is about `Pipeline`: each commit of the coordinator, the workers, the reviewers
and the quarantine is an operation of the queue or leaves it alone
(`PipelineUsesQueue`), so all of the above holds of the pipeline. `AllInv` then
adds what ties the processes together: a lease belongs to a live request only
while nothing of its attempt was delivered (`DeliveredIsNotExtracting`), a
request runs only for the holder of a lease (`RequestsAreHeld`), and what the
coordinator has in hand (`JobInv`, `Wiring`) is what it was dispatched for.
`OneExtraction` follows.

`Admissions_proofs` is about what the pipeline does with paid responses.

- Before a run of the whole spool dispatches, it has imported every response of
  its scope. `ImportInv` says how far each phase of the replay has come, with
  one return per request and phase (`OneReturnEach`). `SpoolIsImported` holds
  with the quarantine too.
- A response that was paid for and not yet registered counts: its task stays
  active. `PaidResponsesAlwaysCount` has the hypothesis that no run is restricted
  to years, because such a run breaks it (`year_scope` under *Divergences*);
  `PaidInv` carries it, with what each phase may leave unfinished in the spool.
- The equation that defines `EffectiveDecision` on a chain of decisions has a
  solution, and each solution returns the end of its own chain (`ChainsEnd`):
  that replaces the induction over chains the provers cannot do.
  `EffectiveDecisionArrives` and `AdmissionsReviewed` rest on it.
- `AdmissionsGrounded` (`GroundedInv`, `SourceInv`, `CancelInv`) is for the
  specification without the quarantine, whose withdrawals leave a document
  resolved by nobody until the next admission. `ResolvedNotExtracted` likewise.
- `NothingIsForgotten`: an unresolved document whose lane refused it stands in
  the next lane, or its refusal waits in the spool or in the hands of the run
  (`SpooledInv`, `EscalationInv`).
- `AdmissionsFollowReviews` is the corresponding fact of `SourceReview`.

`Publication_proofs`: `PubInv` is the type, `SingleOwner`, `PublishedIsSealed`
and that a clone not yet announced equals the working file, which is what
`AnnouncementsAreCurrent` needs. The same module has two stores of readings,
and the stagers that pay for readings:

- `Prices`: closes of one scale differ from the calendar's by one offset
  (`Aligned`). A fetch may stop at any write, so `PriceInv` says of the rows
  staged beside the store, as of those stored, that what a backend returned at
  once is of one scale (`EvidenceAligned`), and that the prices shown have the
  scale of the generation they are shown under (`PricesAreOfOneScale`), as long
  as no maintenance script has run. `PricesAreAdjusted` follows, and
  `EvidenceIsKept` is the property of each step. That a repeated merge writes
  what it finds (`MergedTwice`) holds of any two series.
- `SenateRefresh`: the index is live while it is searched. A report that was
  listed when the search began and is not found yet has as many lines above it
  as the search has passed, unless a report was taken out (`SearchIsWhole`);
  publications only push it down. Rows were shown at their place and stay so
  under later revisions (`Shown`), and a refresh, a sealed bundle and the tables
  all carry this (`EfdInv`). That an audit passes one refresh alone
  (`VerifiedIsPresented`) is a count: as many rows as the report counts, with
  each of its numbers among them, leave room for no other.
- `Staging`: one stager holds a document, and `NamesInOrder` says after each of
  its renames under which name the live reading is found; hence no reading is
  lost (`ReadingsAreKept`), and the stagers implement `StagedRecord` with the
  locked documents as its busy ones.
- `StageBatch`: `BatchesStopInTime` counts. A streak at the threshold leaves room
  for no further start, so what was started after it fits the threads in flight.

`DecisionLedger_proofs`: only the last line of the ledger can be broken, and only
until the next publisher cuts it. The difficulty is a ledger that cannot be read
for a while: power loss may take the broken line away again, so what is known of
earlier lines is carried line by line even while nobody can verify them.
The same module has `RowHistory`, any number of generations, rows, commits and
days. `Orderly` is what each writer's commit does: what it adds is later than
now (or belongs to a new generation), and what it takes it archives. `PastKept`
concludes that no view of an earlier day moves, whatever the commit repaired:
the repair that a watermark of a copied run looks for is either an earlier one,
whose rows are reconstructed as before, or this one, before which stood what
stands now. Today is the harder half: the live view asks no watermark, so a run
that did not see the rows might speak for them. `RowsAreCovered` says it never
does so alone: where a run of an earlier reading happens to fit the rows of its
family, there is one that saw them (`Covers`), and every action re-establishes
it, recording, advancing, copying or restoring a run with the rows it changes.
`HistoryIsKept` and `RowsAndRunsAreArchived` follow from `HistoryInv`.

`Sources_proofs` is about what is fetched from elsewhere.

- `SecFilings`: what a source has in hand fits the step it is at (`InHand`);
  from its lookup to its insertion nobody else can store, so what it has yet to
  insert names no stored filing (`LookedUp`), and none is stored twice. Access
  that is believed is access, unless it was lost since the last request
  (`AccessIsKnown`), and a sweep that still has it leaves behind itself only
  filings that are stored or that no sweep can have (`SweepGoesWell`).
  `FilingsAreSound` follows.
- `CapitolPages`: every page before the last is full, so a reader has passed as
  many lines of the list as it has trades in hand, and what stays listed is in
  hand or below them as long as the list only grows (`ReadInOrder`): a new trade
  pushes the others down, never up. A result that is retained carries this on
  (`IsExact`), and `ResultsAreSound` follows.

`HouseArchive_proofs`: `ArchiveInv` joins the type and the four facts the run
checks with what they rest on. A refresh half way can still go back
(`CanGoBack`): what it moved to the backup and the quarantine is the old
directory, so `Undo` restores `InSync` at whatever step it starts. Rows belong
to documents their generation lists (`RowsAreListed`) and a removed document is
not listed (`RemovedIsUnlisted`); with a result bound to the latest generation,
no row can return below a completed removal. Only a person marks a document
invalid (`InvalidIsManual`), without which a failed parse, which spares
`success` and `no_txs` alone, could unsettle a document. That a last complete
generation exists (`LastExists`) is what the carried rows are taken from.
`AcceptedStep` says what one step does to one settled document; the theorems
`CompletedSettled` and `ShownAdvances` follow from it, and `SettledCarried` from
the copy that `Promote` makes.
The module has `EntryClose` too. Its code sorts the days that bar a trade; the
model numbers each by the count of the days before it, and a count below the size
of the set that no two days share is onto, so there is one bar at each place and
no induction is needed (`EntriesAreSound`, for any market).
And it has `Consensus`. A day that is over keeps its rows, its frame and the
quotes it has (`Kept`), unless a fence is lifted on a row of its window; so what
was recommended is what its rows still give (`RecommendedStands`). The replay
asks for `MIN_BUYERS` when it collects candidates and the live run only when it
scores them, and it drops other rows: `ReplayScoresTheSame` shows that neither
makes a difference. That the ranking has one row at each place, each ticker once,
is `PlacesAreTaken`, a fact about any total order of a finite set. A funded date
stays funded because quotes of past sessions are only added
(`BacktestsAreTruthful`). `RecommendationsAreSound` follows, for any filings,
names, calendar and limits.
`Positions` needs sums over any number of lots. `SumTo` is a recursive function,
and the set of places where two sums agree contains zero and the successor of
each of its members (`FromZeroOn`): that is induction without an operator as
parameter, and gives the facts about sums that the rest cites (`WholeSums`,
`WholeSumsAdd`, `SumOfFirst`). A sale names a number of shares, and over the lots
it may take from it takes no more than that (`TakenIsNamed`), and none of a lot
while an earlier one is left (`EarlierFirst`). What is cleared afterwards, for
whatever reason and in however many steps, is one set of accounts
(`ClearTwice`), each without lots or with dust (`SellIs`). `PositionInv` joins
the lots, the estimates and the ineligible accounts (`IsSound`) with the rows
they come from; `PositionsHold` and `SalesTakeNoMore` follow, for any accounts,
sizes, prices, tolerance and number of rows.

`Backlog_proofs` is about readings and rows that wait outside the database.

- `StagedAudit`: verdicts and reports are written by operations of several
  steps under the audit lock, beside the stagers. `AuditTypes` says what an
  operation has in hand at each step, and `AuditInv` that it still fits: the
  verdict in hand is on pixels of the reading the record had, and still has once
  its document is locked (`VerdictIsBound`); a complete report, saved or about to
  be, covers the whole history over a sample that was judged (`ReportsCover`),
  and none is saved while a verdict is being stamped; an offer is made under the
  report and the record it rests on (`OfferStands`). A report that accepts is
  about a sample whose critical failures are within the rate (`AcceptedRate`): no
  stratum is bounded below what it shows. `OffersAreJudged` is `GateIsSound`;
  `VerdictsStayBound` is about steps, and follows from the same invariant.
- `AuditBound`: what an audit certifies. A stratum has the samples its documents
  allow, and more errors leave fewer of them that show only so many
  (`FewerArePlausible`), so the numbers that are plausible reach from zero to one
  number and bisection finds it (`SearchIsLargest`), although it tries few. At
  most one in `TailOf` samples of a stratum shows so little that its errors are
  missed (`FewMissStratum`: the worst of those samples is not plausible); choices
  in other strata multiply both counts (`RareInCell`), what is rare in each
  uncertain stratum is rare in any (`RareInAny`), and the sum of the bounds is
  too small only where one of them is (`MissedInCell`). `BoundHolds` follows: the
  confidence that the report names is the one it has, for any strata, sizes,
  errors and confidence, in exact arithmetic.
- `LocalSweep`: a process can die between any two of its writes, so `SweepInv`
  says what each has in hand at each step (`RunnersAreReady`): the lock, its rows
  file, the envelope it will replace among the attempts. All that the root has,
  and what is under way in it, is of one producer (`OneProducer`), whoever left
  rows left a name too (`RowsAreOwned`), and every envelope was published
  (`EnvelopesArePublished`). `SweepsAreSound` follows.
- `Rebuild`: a repair changes rows and run and leaves the report. What keeps it
  from passing the audit is that a report which no later batch has overtaken
  equals the number of rows that were *read* (`ReportsAreOfTheReading`); the
  audit compares it with the rows that are stored. `QuietStays` follows the
  database from the checkpoint to the fingerprint while no stage takes the lease.
  `RebuildsAreSound` follows.

`Portfolios_proofs` is about the two portfolio evaluations, and with the results
of `Sources_proofs` about all that `Outside` promises (`PortfoliosAndSourcesHold`).

- Money is a sum over a set of positions. `SumFunction` is the community
  modules' recursive function; that its sums exist, and split and rename as sums
  do (`SumIsUnique`, `SumSplits`, `SumRenames`), is shown by induction on the
  size of the set, through the set of sizes for which it holds (`FromZeroOn`).
- `EqualSlot`: `SlotInv` is what `SlotsKeepBooks` says, and what it rests on:
  orders are for the session after their signal, positions were such orders, the
  slots are distinct by ticker. An entry costs no more than the cash, since a
  quotient times its divisor fits (`EntryFits`).
- `KellyTargets`: each cap scales weights down and rounds them down, so the
  scaled weights of a group fit the cap (`SharesFit`, `CapIs`) and later caps
  leave the earlier ones true (`ReducedWeighs`, `PortfolioIs`). What is still
  open when the curve ends had no day at which it could have been closed: the
  dates of the curve reach to the end of the delay (`ClosableIsDated`).
- No later price is looked at: the curve of an evaluation that ends earlier is a
  part of the whole one. That compares two runs of one program, one after the
  other, and the first is gone when the second moves. What the second can rely on
  is a set that the first left: all that it came by, as `Moment`s (equal slots)
  or points (`Reaches`, weighted targets), each of them the last or followed by
  another in the set. The next moment depends on quotes, signals and slots up to
  its own day and not on where the run ends (`Leads`), so the second run starts
  in the set and cannot leave it before it is over. Moments of the
  longer run may have more orders pending, all for a session after the end of the
  shorter one. The order in which orders of one rank are taken matters here: two
  that compete for the last slot must compete alike in both runs. `RowOf` and
  `PlaceOf` are where a day's row stands after the sort of the code, which is
  handed the same rows both times; the theorems hold for any such places.
  `EqualSlotHolds` and `KellyHolds` join this with the above.

The assumptions of both say what the code validates before it starts: a session
after each signal, prices that are not negative, probabilities and caps within
their bounds.

Only model-checked:

- liveness and everything under fairness;
- what depends on recursion over data: what `EffectiveDecision` returns beyond
  the end of the chain.

## Not modelled

- Parsing of House documents (text, tables, OCR cascade), names, tickers and
  reference data: functions of their input; what they return is a choice.
- Scoring and setups, backtest summaries and portfolio metrics: arithmetic on
  rows that are modelled elsewhere.
- Other repositories of the database, the command line, cron, the doctor, rule
  evaluation and reports: they call what is modelled, or print it.
- Two listed hazards have no property: the adaptive request rate of GLM
  (`ocr/coordinator.py:626`), since slots only delay a dispatch in `Pipeline`,
  and a document id that two archive years list (`persistence/database.py:1322`),
  since `HouseArchive` is one year.

## Plan

1. A second archive year in `HouseArchive`, with documents that move.
2. The request rate of GLM, beside `StageBatch`.
