# Knovaryn in TLA+

This directory is the verification project kept beside the code of Knovaryn, a
service that turns documents into training datasets.  It holds TLA+ modules
translated from the Python source, the TLC configurations that check them on
small instances, and proofs that TLAPS checks for every value of the constants.
`PROJECT.json` ties every definition to the source lines it stands for, every
property to a run, and every run's properties to a mutation of the model that
breaks them.

Paths below are relative to `src/src/knovaryn/` unless they start with `docs/`
or `tests/`.

## 1. The system

A client (REST, MCP or CLI) creates a project, adds sources, starts a pipeline
job, watches it, reviews the examples it produced, freezes them in a dataset
version and exports them.  One relational database holds all rows, one artifact
store all bytes.  Worker processes take jobs from the database.

| part | code | state | operations | what is hard |
|---|---|---|---|---|
| job runtime | `pipeline/jobs/*`, `JobRepository`, `Workspace` job calls | `jobs`, `job_checkpoints`; each worker's `Job` copy | submit, claim, run stages, heartbeat, retry, cancel, resume, run in process | several workers and the control plane write one row; crashes; leases; stale copies |
| model calls | `models/gateway.py`, `call_cache.py`, `budget.py`, `generate.py`, `abuse.py` | memory cache, `model_calls` ledger, budget counters | generate, judge, repair, account, record | money is spent between two durable writes; resume; budget interrupts |
| curation | `review.py`, `RevisionRepository`, `ReviewRepository`, `VersionRepository`, `Workspace` version and export calls | `training_examples`, revisions, decisions, versions | review, create version, export | two reviewers; read-then-write transactions; later changes to a frozen version |
| submission, commit, log | `Workspace.start_pipeline`, `commands.py` `_pipeline_stage`, `persist_pipeline_result`, `append_event`, `get_events` | idempotency keys, result rows, span keys, per-job sequences | submit, persist a result, checkpoint, append, page | two clients with one key; commit and checkpoint are two transactions; numbers taken as `max + 1` |
| artifact store | `artifacts/local.py`, `artifacts/s3.py`, `deployment/backup.py` | blobs, manifests, backup archives | put, stream, get, describe, delete, backup, restore | crashes between file operations, overlapping uploads, a backup of a moving system |
| state directory | `commands.py` | files of a local installation | init, doctor, repair, backup, restore | what "verified" means after a restore |
| quality | `pipeline/quality/*`, `domain/policies.py` | none (pure), and the judge's answers | check claims, judge pairs, decide | a judge that answers late, garbled or partly; fail-closed rules |
| planning, split | `planner.py`, `split.py` | none (pure) | plan, top up, assign splits, check leakage | quotas, rounding, group leakage |
| licence, privacy, publication | `license.py`, `scanners.py`, `privacy/report.py`, `publish/hf.py` | attempt windows | report, gate, publish | rights read in one transaction, examples in the next |
| release | `export/*` | download files, zip and digests | gate, export, build, verify | tamper evidence, determinism |
| chunking | `chunking/structure_aware.py`, `ProjectService.chunk_document` | none (one pass) | normalise, group, locate | three limits and empty blocks; page claims |
| intake | `infrastructure/intake/*`, `Workspace.add_source` | quarantined copies, artifacts, rows | accept, reject, unpack, fetch | writes that precede checks; overlap and crashes; redirects |
| access | `auth/bearer.py`, `rest/*`, `mcp/server.py` | rate windows, owners | limit, authenticate, authorise, route | requests that wait for one lock; bodies in pieces |
| adapters and data | docling, docetl, telemetry, prompts, provider clients, profiles, config | none of their own | convert | outside libraries |

How they interact: `Worker._tick` claims a job through `WorkerRepository`, whose
every call is a transaction of its own, and hands the `Job` object to
`JobEngine.run`.  The only stage of a pipeline job runs `ProjectService
.run_pipeline` (parse, chunk, split, plan, generate through `ModelGateway`,
validate), persists everything in one transaction and then checkpoints.  A
heartbeat task of the same process renews the lease behind the engine's back.
Control-plane calls write the `jobs` row with no regard to who is running it.

What makes each part correct: a job reported `succeeded` has done all of its
stages; no stage is done twice because of a crash; a cancel request is never
lost; a job is never orphaned; a paid answer is not paid for again; a budget
stops spending; a review decision applies to what the reviewer saw; a version
is what it was when it was made; one key is one job and a source's result is
stored once; an artifact that is referred to is whole; what the rules reject no
judge accepts; no group is in two splits; what is published was cleared; a release
that verifies is the one that was built; a chunk's span names where it is from;
a source row has passed the checks; a request acts within limits and rights.

A source passes through the modules in this order: `Access` lets the request in,
`Intake` takes the file, `Storage` keeps it, `Submission` makes a job of it,
`DurableJobs` executes the job, whose stage chunks (`Chunking`), plans and splits
(`Planning`), generates (`ModelCalls`), judges (`Claims`, `Semantic`,
`Preference`, `Acceptance`) and commits (`Submission`); people review and freeze
the result (`Curation`), `Licensing` clears it and `Release` packs and verifies
it; `StateDir` looks after the files of all this.

## 2. Modules

| module | models | proved in |
|---|---|---|
| `DurableJobs` | the jobs table, workers, engine, control plane | `DurableJobsProofs` |
| `JobContract` | what a client of the job runtime may rely on (abstract) | `JobContractProofs`: `DurableJobs` implements it |
| `ModelCalls` | generator, gateway, cache, ledger, budget across restarts | `ModelCallsProofs` |
| `Curation` | reviews, revisions, versions, exports, pipeline commits | `CurationProofs` |
| `Submission` | submissions under a key, the commit against the checkpoint, the event log | `ServiceProofs` |
| `Storage` | both artifact stores file by file, references, backup and restore | `StorageProofs` |
| `StateDir` | the commands that look after a local installation | `StorageProofs` |
| `Intake` | `add_source` and `IntakeService`, archives, the guarded fetch | `ServiceProofs` |
| `Access` | rate limiter, body cap, token, scope, owner, REST routes, MCP tools | `ServiceProofs` |
| `Chunking` | the structure-aware chunker and the spans of its chunks | `DatasetProofs` |
| `Claims`, `Semantic` | rule checks of a claim; rules, judge and merge for an answer | `JudgingProofs` |
| `Preference` | checks of a pair, the judge in both orders, the score | `JudgingProofs` |
| `Acceptance` | the validators, the decision, a pipeline run's report | `JudgingProofs` |
| `Planning` | planner, top-up, every split strategy, leakage check | `DatasetProofs` |
| `Licensing` | licence table, PII classes, report, gate, publication | `DatasetProofs` |
| `Release` | export gate, formats, bundle, verification | `DatasetProofs` |
| `Totals` | running totals of `Intake` and `Access` | `ServiceProofs` |
| `MCDurableJobs`, `MCModelCalls` | symmetry sets and bounds for TLC | |
| `MCDataset` | `Semantic` to `Release`, `Curation` and `Chunking` on small instances, one scene each | |
| `MCPlatform` | `Storage`, `Submission`, `StateDir`, `Intake`, `Access` the same way | |

### DurableJobs

`rows` is the `jobs` table cut down to state, lease owner, lease expiry and
cancel flag; `ckpts` the completed stages in `job_checkpoints`; `run[w]` what
worker `w` holds: its copy of the row and the engine's program counter.  A step
is one database call (one transaction of `WorkerRepository._op`), one stage
outcome, one heartbeat, one control-plane transaction, one failure or a tick.

* `Save` is `JobRepository.save`: the whole row from the writer's copy, the
  cancel flag COALESCEd.  It is what makes stale copies matter.
* `Claim` is `claim_eligible` with working row locks; `ClaimRead`/`ClaimWrite`
  is the same statement on SQLite, where FOR UPDATE is ignored and the flush is
  an UPDATE by primary key of the changed columns.
* `StartRun` to `SaveOutcome` follow `JobEngine.run` in order; each `pc` names
  the call that comes next.  The stage function is arbitrary: it may checkpoint
  itself, return, raise, exhaust the budget or notice a cancel request.
* `DbCallFails`, `ReportLost`, `KillTask`, `Crash` are the exception handlers
  and what they cannot handle.  `Renew` is a beat of `_heartbeat_loop`.
* `calls[c]` is a control-plane call under way: `ReadRow` takes a copy of the row
  and decides what the call will save, `RequestCancel`, `ResumeJob` and `RunInline`
  save it, whatever the row has become since.  No lock is held between the two.  The
  in-process run is one step from its first save, which locks the row, to its
  commit.

Left out: `attempt_count` (never read), progress, error and cost columns, events (their
append can fail, which is kept); the idempotency key and the concurrency cap of
`start_pipeline` are in `Submission`.  Time is counted in ticks; a lease is the ticks it
has left.  `Raises` counts an outage that fails several appends as one.

### JobContract

The abstract job: a reported state, the set of completed stages and the recorded
cancel request.  Stages complete after the stages before them and stay complete,
success is only reported of a complete job, a cancel request is not forgotten.
`DurableJobs!Contract` instantiates it with `state <- ` the states in `rows`,
`complete <- ckpts` and `cancelled <- ` the flags; `KeepsContract` is its
specification under that mapping.  The transition table of `state.py` is not part
of the contract, because the control plane does not follow it.

### ModelCalls

One job's pipeline stage and every attempt at it.  A request is its
fingerprint: the chunk it is about and whether it is generated or judged.  The
answer is `valid` or `invalid` for `validate_generation_output`.  `run[p]` is a
stage attempt: loop counters of `generate_for_plan`, the repair counter, the
budget accumulator, the gateway's memory cache and the request in hand.
`ledger` is `model_calls`, `stored` the responses in the artifact store, `paid`
a history variable for the provider's bill.  A step is an await: budget and
memory lookup, ledger lookup, provider call, accounting, ledger row, cache put.
The `budget` dimension is one accumulator with calls of cost `1..MaxCost`,
standing for any of `BudgetState`'s limits.

### Curation

`rows[e]` is the status and the `version_id` of an example, `revs[e]` and
`decisions[e]` its audit trail, `issued` a counter from which concurrency tokens
are drawn, `versions` the dataset versions with their manifest members.  A review
is `Send`, `Resolve` (the latest revision, read in a session of its own), then one
transaction cut in two: `ReadBase` or `Conflict`, and `Decide`, whose writes
appear at the commit.  `create_version` is `List`, `Compose`, `Stamp`.
`PersistResult` is the commit of a pipeline run.  Neither backend makes a plain
SELECT wait, and nothing is unique per revision number, so two reviews may both
pass the check and both be committed.  `disturbed` is a history variable: the
versions whose examples another commit may have touched since they were listed.
Left out: feedback and rationale texts, the reviewer's name, the export formats,
publication.

### Submission

`client[c]` is a call of `start_pipeline` between its reads and its insert,
`answers` the jobs handed out under each key.  The key's uniqueness is the table's
(`KeyFree`), not the lookup's.  `row` is the state of a job's row, `work[j]` its
executions, several of which may be under way: a lease that expires hands the job on
while its worker still works.  An execution is either a worker's (`Claim`,
`CommitStage`, then `MarkStage` in a transaction of its own, `FinishJob`) or in process
(`RunInProcess`, all in one, for a job in any state and beside a worker; it stores
nothing if nothing was accepted).  The limit counts the running jobs of the owner.
Spans and chunks are named by content, so their
primary keys refuse a second result of the same source (`SpanKeys`, `Persists`).
The log: `Number` computes `max + 1`, `Log` commits; two writers may take one
number.  A walk reads pages behind a cursor while the log grows.

### Storage

A body is its digest; a blob or a manifest is absent, torn or whole, and every
file operation of `put`, `put_stream` and `S3ArtifactStore.put` is a step.
Uploads of one body overlap; `Crash` stops them all.  `rows` are references, in
the database file or still in SQLite's log, which is what `build_backup` misses:
its checkpoint is made on a read-only connection, where the error is suppressed.
`snapshot` is a backup in the making, damaged on its way or not.

### StateDir

An entry is at a depth: 0 is where the configuration points.  That is all that is
needed to see that `restore` unpacks one level too deep.

### Intake

`intake[u]` is one `add_source`: quarantine copy, artifact, archive check, row
with audit entry.  A file is what its checks look at (suffix, magic, size,
members).  `visit` is a `safe_fetch`; a site is what `_validate_url` looks at.
Names keep their addresses during a fetch, so what a second lookup would answer is
not asked.

### Access

`request[r]` is how far a request is: at the limiter's lock (`queue`, the head
holds it), at the body, at token and scope, at the owner, at the operation.  The
time of a request is read before it waits, with no await in between, and the lock is
first come, first served, so times enter the bucket in order.  A request names the
project of its path and the example of its body or path separately: the route of a
review checks the former, the operation acts on the latter (`ActsOn`).  The list of
jobs without a project acts on everybody's.  An MCP call has the token guard and what
its tool looks at itself.  `acted` and `replies` are histories.  What an operation
does is elsewhere.

### Claims, Semantic, Preference, Acceptance

A text is a sequence of classified words (`Claims`) or a set of content tokens with
a length and a manner (`Preference`, `Acceptance`): the regular expressions and
word tables decide the class, the modules what follows from it.  Amounts are whole
multiples of a thousandth of a base unit, which is the tolerance of the code's
comparison: whether two amounts one apart are equal is up to floating-point rounding,
pair by pair (`EqualAtEdge`, any set of such pairs).  Evidence is one sentence; the
code tries each of several.  Percentages and tenths are whole numbers, averages are
kept doubled.  `Semantic` is one answer:
rules, judge, merge by text, score; the judge's array is any short sequence of
items.  `Preference` is one pair: the order is drawn, the judge is heard twice, with
a failure or garbage at either call; a judge that does not support the operation ends
the run instead (`JudgeUnsupported`).  `Acceptance` is a pipeline run over a batch
with every validator, `assemble_decision` and the report; which claims a judge
contradicted, with a reason code or without, is an input (`Contradictory`).

### Planning, Licensing, Release, Chunking

`Planning`: weights are whole numbers, so largest remainders are exact
(`plan`); the seeded hash is any map from keys to splits.  `Licensing`: a
publication is the attempt limit, the report, the gate, the upload, with sources
and examples arriving in between.  `Release`: a digest is the value it is taken of;
rows keep the texts their format keeps (where the code joins them to one string, the
module keeps them apart); `Damage` is one loss, change or addition,
with the checksum file rewritten or not.  `Chunking`: one action per branch of
`_group_units`; `chunk_document` closes the last group and makes the chunks, their
context and their spans.

## 3. Runs

| run | instance | shows |
|---|---|---|
| `jobs_core` | 2 workers, 1 job, 2 stages, late heartbeats, 1 failure, a client who cancels and runs in process | the safety invariants, `CancelSticky`, and that the runtime implements `JobContract` |
| `jobs_resume` | 1 worker, 2 jobs, 2 stages, 2 failures, SQLite, a client who resumes, also from a stale copy | completed stages are not entered again |
| `jobs_live` | 2 workers, 1 stage, 1 retry, SQLite, fair, and either 1 failure or a client who cancels once | jobs reach an outcome, workers return to polling, a cancel request ends the run |
| `calls_ledger` | 2 overlapping runners, 2 chunks, 3 attempts, 1 failure | charges are bounded by failures and overlap |
| `calls_budget` | 1 runner, budget, cap and judge, fair | spending is bounded, attempts end |
| `dataset` | one scene per step from claim to release, see below | the properties of `Claims` to `Release`, `Curation` and `Chunking` |
| `platform` | one scene per component, see below | the properties of `Storage`, `Submission`, `Intake` and `Access` |

`dataset` and `platform` pick a `scene` in the initial state and play only the actions
of one component: the components of a run share no state, so their interleavings would
add states and no behaviour.  Components that do share state are in one module.  The
scenes of `dataset`: claims (answers of one or two claims over twenty-two texts, judge
arrays of up to two items that repeat, skip, reorder or invent claims), pair (twelve
pairs, two calls of the judge in either order), run (batches of up to two candidates of
twenty-eight), plan (six compositions, totals 0, 1, 3, 7, with and without target and
cap), split (four sources in three groups, in any order, any hash), review (two reviews
and one version in the making at once, two examples, pages of one, four tokens, two
versions), rights (three of five documents, a listing of two, an attempt limit of two),
export (two examples with good or bad lineage, five formats), bundle (built, then
damaged in one place) and chunks (every document of up to four blocks of seven kinds,
with and without Docling).  Those of `platform`: uploads (two writers, two bodies, both
backends, one crash), backup (one writer at work), submit (two clients, one key, two
jobs of two executions each, also at once), log (two writers, five events, pages of
two), state (one artifact, restores two levels deep), intake (two uploaders, twelve
kinds of file, one crash), fetch (two redirects) and access (eight requests over both
servers, two at a time behind the limiter).

The properties of these runs, in a sentence each, stand before them in the
modules.  Those that hold for a reason the code does not spell out:
`StoredOnce` holds because span keys are content addresses, and at a price: after
a crash between commit and checkpoint the resumed job fails on its own keys.
`OneJobPerKey` holds by the unique column only; the limit on running jobs, which
has no such column behind it, can be passed by two submissions at once.
`SettledIsWhole` excludes crashes, because a torn blob is taken for complete by
the next `put` and found out at the next `get`.

Runs expected to fail, each a disagreement between code and documentation
(`findings` quotes the lines):

| run | what happens |
|---|---|
| `found_lease_theft` | an engine save writes the claim-time lease back over a renewed one: a job is stolen from a worker that is on time |
| `found_cancel_stuck` | a cancel request on a job no engine holds leaves it in `cancelling` for ever |
| `found_repair_silent` | a repair sends the request unchanged, and the cache answers with the reply that failed |
| `found_unreviewed_upload` | sources added after the report, or past the listing's limit, are published unreviewed |
| `found_restore_nested` | a restore unpacks one level too deep and the check after it finds nothing to check |

### Observations without a run

What else can be read off the definitions.

* `ClaimRead`/`ClaimWrite` (SQLite) let two workers claim one job, although
  `repositories.py` 251-256 says they never can.  A resume or an in-process run that
  read the row before someone else changed it saves its copy all the same.
  `RequestCancel` moves a terminal job to `cancelling`, although `jobs.md` 47-49 calls
  those states terminal and promises a `JobStateError`; no component moves it on.
* A dropped call is bought again by the resumed job: `Account` comes after the
  provider's charge and before the ledger row.  `CallCache.get` asks for another
  address than `put` stores under, so nothing is found after a restart although
  `call_cache.py` 4-6 promises it.  The callers of `judge` catch
  `BudgetExceededError`, so a stage whose judge used up the budget completes,
  although `jobs.md` 97-98 has the job pause.
* Two reviews of one revision may both be stored; the later version of a project
  takes the examples of an earlier one.
* A pair no judge has seen may score in full: the offline profile has no judge.  Where
  one is configured, a verdict of `valid` needs both replies to name one side, which
  may be the rejected one.
* Quantities within a thousandth of a base unit count as equal: 1 mm and 2 mm, 1 ms
  and 2 ms, 1 g and 2 g.  Words such as "second" or "day" count as units of their own.
* Validated rows that are not accepted are stored nowhere.
* A claim that a judge contradicts without a reason code (`semantic.py` 515) leaves the
  dimension at its full score and does not keep the example out, although
  `validators.py` 333-336 says that any contradicted claim fails it.
* Without a target a plan takes one example per chunk, whatever the cap, although
  `planner.py` 62 calls the cap a hard ceiling on the planned total.  A top-up rounds
  every share by itself: two shares of 1.5 become 2 and 2, one more than a room of
  three (`planner.py` 186; `tests/planning/test_top_up.py` 31 has it decline).
* The REST route of a review checks the project of its path (`app.py` 460) and
  `Workspace.review_example` acts on the example named, of whatever project; a
  `list_jobs` without a project lists the jobs of all (`app.py` 380).
  `docs/architecture/explorer.md` 142 says that tenants see only their projects.
* A licence text is allowed if it merely contains a token of the allowed table.
* A chunk with located units on one page and unlocated ones beside them claims
  `exact_page`.  The first list item of a list counts a lead that may not exist.
* `safe_fetch` never follows a redirect: the join in `url.py` is the wrong way
  round and yields the URL it came from.  Allowlist entries with a leading `*.`
  match nothing.  The suffix decides over unknown types although the comment in
  `intake.py` 27-28 says magic bytes may override it.
* The phrase that an exchange moves to the front of a claim is found up to four
  words only, the one it moves to the back at any length: a longer one is found one
  way round only.  A text that names both orders, or repeats words, may reverse
  itself.  A leading "not" decides the polarity before the others are counted, and a
  double negation before that: a denial of a text that already has one is not seen.
* The artifact of a refused archive stays in the store, a torn quarantine copy is
  never replaced.
* A declared body over the cap is answered 413 and then processed; on a route that
  reads no body it acts.  A body that grows over the cap may end without an answer.
* An MCP review writes an audit entry and changes no example; MCP calls have no
  limits and no owners.
* A lost entry of a backup goes unnoticed (added and changed ones do not).
  `doctor`, `repair` and `init` create the artifact directory, after which
  `restore` refuses; the index `repair` would compare is never written.

Bounds.  Two workers are enough for a theft and one worker's failure; a third
only repeats the second.  Two stages give a first, a last and a boundary
between; the invariants about stages are proved for any number.  A lease of one
or two ticks expires within a run, and a heartbeat interval of one tick makes a
timely worker renew on every tick.  `MaxFaults` bounds crashes, failed calls and
kills; `MaxStarts` the attempts at a stage.  Two chunks and two visits let the
round robin come back to a chunk it has asked about.  Two reviews are a race; four
tokens let one example be bootstrapped twice, or bootstrapped and reviewed twice
more; a page of one example and two accepted ones make a listing that is cut off.
Two writers, two bodies and one crash give every overlap of two uploads of one
body, before and after a restart; two clients are a race for a key; two jobs
of two executions each are a crash or a failure, what comes after it, and a second
job over the same sources; five events and
pages of two make a walk of three pages with ties on a page boundary.  Amounts of 0,
1, 3 and 7 are below, at and above the number of cells.  Four blocks are a heading,
a list and a table around a limit.  A cap of two with a window of two ticks lets a
third request arrive inside and outside the window; attempts to publish have a cap of
two and a window of one tick, which does the same for them.  The one pair of amounts
in `EqualAtEdge` (1 mm and 2 mm) makes both outcomes at the tolerance happen.  Cancel
and in-process run, and resume, are looked at in runs of their own, and in `jobs_live`
either something fails or a client cancels, once (`OneTrouble`): all calls with two
workers are too many states for one run.  The proofs cover every control plane.

Fairness.  `DurableJobs!Fairness`: a live worker's coroutine, its poll loop and its
heartbeat task are scheduled (one event loop, no blocking call assumed) and time
passes; failures and clients are never obliged to act.  The disjuncts of a worker's
step are one weak-fairness unit, so the model may not choose which outcome a stage
has.  `ModelCalls!FairSpec`: the same for a stage attempt. `CHECK_DEADLOCK FALSE` in
the `ModelCalls` runs: when the stage is committed, nothing is left to do.  Also in
the `dataset` and `platform` runs, which end when an inquiry is answered or a bound is
used up.  These two check safety only: none of their components
promises progress that does not depend on its callers.  `DurableJobs` never stops,
since time passes.

## 4. Proofs

`DurableJobsProofs` proves, for every number of jobs, stages and workers, every
lease, retry and failure bound, and every control plane, that `Spec` keeps
`TypeOK`, `SucceededComplete`, `CheckpointPrefix`, `RunsMatchStore`,
`SeenCancelNeverSucceeds` and `[][CancelSticky]`, from `SizesAssumption`,
`ModesAssumption` and `OwnersAssumption`.

The inductive invariant is their conjunction.  `SucceededComplete` is not
inductive by itself: the save of the outcome writes what the engine believes,
so `RunsMatchStore` says that whatever an engine counts as done, has passed
over or is about to report is durable.  That holds because checkpoints only
grow, whoever else writes.  `CheckpointPrefix` needs it to know that the stages
before the one being recorded are stored.  The proof has one lemma per action;
four lemmas (`QuietStep`, `SavingStep`, `RecordingStep`, `ClientStep`) each
cover the actions that touch the same variables.  Of the calls under way it takes
their type (`CallsOK`) and that a cancel and a resume are about to save `cancelling` and
`queued`, states that promise nothing about stages (`DraftsOK`).

`JobContractProofs` proves `Spec => KeepsContract`: every step of the runtime is a
step of `JobContract` or leaves what a client sees alone.  The same inductive
invariant does the work: it is why a save of the outcome `succeeded` finds all
stages complete, and why a checkpoint comes after its predecessors.

`CurationProofs` proves `CurationTypeOK`, `DecisionsRooted`,
`TokenMeansWhatWasSeen`, `ShownStatusIsOpen` and `QuietVersionExportsMembers` for
every number of examples, reviews, makers and versions and every page limit, from
`CurationSizes` and `CurationVerdicts`.  For reviews the invariant adds that tokens
are issued once (`TokensIssuedOnce`), that a request about to decide names a
revision on record by its token (`RequestsRooted`), and that only examples that
exist are reviewed.  Then new tokens are larger than any on record, so a race can
number two revisions alike and still not confuse them.  For versions it adds that
what a maker holds is what a listing would give now unless its version is
disturbed (`MakersTrack`), that two makers never make one version (`MakersApart`)
and that only versions in use are disturbed; `NewestAgain` says that a second cut
to the page limit takes nothing more away.

`ModelCallsProofs` proves `CallsTypeOK`, `SpendBounded`, `ServedWasPaid` and
`PaidOncePerFailure` for every number of chunks, visits, repairs, calls, attempts
and failures and every finite set of runners, from `ModelCallsSizes`,
`ModelCallsModes` and `RunnersFinite`.  `Good` states what one attempt may rely on
at each await: between the budget check and the accounting nothing else of the
attempt spends, so a call starts below the budget; an answer in hand is paid for.
`ChargesBounded` makes the last property inductive by counting runners: while the
ledger has no row of a request, every charge for it is held by a runner between
answer and row or was lost to a failure; once it has one, only the runners already
past the lookup can be charged, and those and the holders are different runners.

`EnteredStageIsNew` holds for a worker that is alone with nobody running the job in
process, and `StagesAreNotRepeated` says so in its hypotheses, which are those of
`jobs_resume`.  Then every checkpoint stored is one the engine counts as done, or that
of the stage it is in (`KnowsAll`), however stale the copies are that clients save.
With two workers it is false, which is what `found_lease_theft` is about.

What the prover can say of progress is said by measures.  `RunRank` counts the steps
a run has left at most: stages to come, tries of the stage in hand, the call that is
next.  `RunsShrink` says that every step of the worker on its job lowers it, a failed
call, a killed task and a crash included, and that nothing anybody else does raises
it; `RunsBounded` that it is bounded by `NumStages` and `MaxAttempts` and zero exactly
at rest.  So a run cannot go round for ever, whatever takes its lease away; that its
next step is taken is the part of `RunsDrain` that rests on fairness.
`AttemptsShrink` and `AttemptsBounded` are the same for a stage attempt of `ModelCalls`
(`Rank`: candidates to judge, visits, repairs, awaits) and what is behind
`AttemptsEnd`: the guard counter and the repair limit, not the answers of provider or
budget, bound the loop of `generate_for_plan`.

`SuccessIsUncancelled` is what `CancelLands` says without fairness: the step in which an
engine turns to success finds no cancel request on the row, none in its copy, and every
checkpoint stored, or its read of the flag fails.  It holds with any number of
thieves, since each looks at the flag of the row and not only at its copy.  A request
that comes after that look may find the job succeeded.

`StorageProofs` proves `SettledIsWhole`, `MarkerMeansWhole` and
`RestoredRefsResolve` for any number of writers, bodies and crashes.  `WriterOK` says
what a writer may rely on between two file operations; `InHands` that a blob that is
torn, or whole without a manifest, is in the hands of a writer that will see to it,
unless there was a crash.  When all writers are done nothing is in anybody's hands.
`BackupInv` says that a row copied by a backup has its artifact among the files
copied or still to be listed.  That holds because rows come after their artifacts and
the database is read before the artifacts are listed.  It also proves of `StateDir` why
`found_restore_nested` fails: no entry is above the directory (`StateInv`) and unpacking
puts each one level deeper, so the check that ends a restore looks where nothing is and
answers 0 for every archive, a damaged one too (`RestoreChecksNothing`).

`ServiceProofs` has one part per component.

* `Submission`.  `OneJobPerKey`: the key column is unique (`KeysUnique`), and an answer
  names a job of its key (`AnswersTrue`).  `StoredOnce`: a stored source has taken its
  spans (`SpansTaken`), whichever of the executions under way stored it (`StoringOne`,
  `StoringNothing`).  `WalkMissesOnlyTies`: what the reader lacks is ahead of its cursor
  or shares its number (`WalkOK`); a page is a least set of the entries ahead, so
  nothing between its entries is passed over.
* `Intake`.  `CallOK` follows one call: the copy is in quarantine before the file is
  stored, stored before it is checked, checked before the row is committed, and
  nothing takes copies and artifacts away.  `VisitInv` does the same for a fetch.
* `Access`.  Times enter a bucket in order because the lock is first come, first served
  and times are read on arrival (`QueueOK`).  A bucket forgets times, so the bound on
  a window cannot be read off its length: `HasCount` says that each request let through
  that still counts has an entry of its own, and that the rest are out of the window of
  everyone who waits or is still to come.  When one is let through, those in its window
  are at most the entries the bucket had, fewer than the cap; windows that begin
  earlier contain it only if they contain no more than that.  `RightsInv` says what
  each phase of a request has behind it; an owner, once set, does not change.  For an
  operation that has been called, `Guarded` turns this into: what it acts on is the
  caller's own, a review and the list of all jobs excepted, because their routes do not
  check what they act on.

`JudgingProofs` proves `RulesAreFinal` and `VerdictIsTheClaims`: what the rules said is
a function of the inquiry, and the lookup by text finds the first item about a claim
(`FirstItemDecides`).  `CertifiedIsCorroborated`: a valid verdict is reconciled from the
two replies heard, and where a judge is configured any other verdict scores 60 at most.
`AcceptedIsCertified`: a decision is a function of the example, and each of its checks
implies a conjunct; of contradictions it says only that none gave a reason, since those
without one do not count.  Of the rules themselves it proves `ClaimChecksSound`, from
`TextsAssumption`, for any texts.  An exchange of two phrases cuts a text in three parts
(`ThreeParts`), and cutting the exchanged text at the mirrored places gives the first
back (`ExchangeBack`).  Two lone quantities of one type are compared by base units in
both checks (`OneQuantity`, `ByBase`): equal amounts agree and amounts more than the
tolerance apart do not, for any rounding at the tolerance itself.  A "not" inside the
window adds one to the negations counted and nothing else, for which `OneMoreNegation`
moves the positions behind it by one (`DeniedWords`, `NoNewDouble`).

`DatasetProofs` proves, for any sources, `LeakageIsNamed`: `IntegrityIsExact` says that
the check names exactly the groups in two splits for any list, in any order; a
strategy that places keys, not sources, leaves none.  `GrowthMovesNobody` is the
action property that goes with it.  `UploadsAreCleared` traces each record of an
upload back to its report and gate: every source the report lists has a licence of the
allowed table, or one that contains a token of it, and no highly private text.  Of
other sources it says nothing (`found_unreviewed_upload`).  `VerifyIsExact` compares
archives: the digest of the root covers every file, so an archive that still states
its root has every file; `Sealed` says that what is built verifies.
`RowsAreVerifiable` follows a row to the examples it was made of.

`PlanIsExact` says that a plan spends its total, which the cap bounds only where there
is a target.  It rests on a small theory of finite sums: `Adds(g, f, S)` says that `g`
is the sum of `f` over each subset of `S`, `AddsExists` that there is such a `g`,
`SumAdds` that it is what the library's fold computes, and the lemmas between them that
sums are linear, split, and multiply over a box.  So the weights of the cells add up to
the product of the three totals (`WeightsAddUp`), the floors leave fewer examples than
there are cells with a remainder, and in a finite set in strict order exactly `k`
elements have fewer than `k` before them (`Ranks`): as many shares are rounded up as
there are examples left, and never one that is whole (`Apportions`).

`ChunksAreFaithful` follows from what each branch of the loop keeps (`LoopOK`): the groups
and the group in the making, put one behind the other, are the units read so far; each
group is in order (`Grouped`); and the count of words is never less than what the group
in the making has.  A list item or a table that would make a group too long flushes
it, and so does a text unless it is put aside into a group without words: `AddKeeps`
needs only that the group is not made too long or has no words.  That is why a lead
counted for a list (`LeadKeeps`) can make a chunk shorter and never longer.  `FlattenMore`
is the lemma about the library's fold, `SpanTells` the one about pages.

Sums, greatest and least elements are needed by several of these.  The library's
induction theorems take the predicate as an operator, which the provers cannot
instantiate, so induction is done with sets: `SmallestExists` finds the least element
of a finite set of numbers by the well-foundedness of its finite subsets, and
`SumToSteps` takes the least number at which a running total would break its law.

Assumptions on constants are the type of what the code is given, and these: handles
are unique (`SourcesAssumption`, `LicensingAssumption`: primary keys), replies carry
qualities in range (`RepliesAssumption`: clamped when parsed), amounts that rounding may
make equal are one tolerance apart (`EdgeAssumption`), texts have finitely many
words, blocks come with a count of words and page numbers that are not negative
(`LayoutsAssumption`: a length, and pages as the parser counts them), an empty key
is no key, and proportions and amounts are not negative
(`CompositionsAssumption`: the schema takes any number, but a negative proportion is no
share of anything, and the planner leaves out its cells while their weight still
counts in the whole).  TLC evaluates all of them.

Every invariant and every safety property of a step that the passing runs check is a
theorem.  Only model-checked: the liveness properties (`QueuedEventuallyRests`,
`RunsDrain`, `CancelLands` and `AttemptsEnd`), whose fairness is about ENABLED
actions and outside the prover's reach, though the measures and safety parts they
rest on are proved; and the violations of the five `found_` runs, which are
counterexamples.  Of one of them, `RestoredIsVerified`, the cause is proved.

## 5. Plan

Done: all modules above, and proofs about each of them.  What is left are the parts
of section 6, of which none keeps a state the others read.

## 6. Not modelled

* Parsers (docling, docetl), provider clients and profiles: adapters to outside
  libraries; their results are inputs of `Chunking`, `ModelCalls`, `Semantic`,
  `Preference`.
* Telemetry, logging, tracing: nothing reads them.
* Prompts, console output, report wording, the web console: formatting.
* Configuration: each setting is a constant of the module it steers.  The code
  merges defaults, files, admin, environment, request in this order, while the
  header of `config.py` and `docs/reference/config.md` 11 put the admin first; no
  caller under `src/src/knovaryn` passes files or overrides.
* `information_gain.py`, `validate_local_path`, `iter_supported_members`,
  `build_malware_scanner`: nothing under `src/src/knovaryn` calls them.
* Migrations, scripts, benchmarks, packaging.

Details the modules leave out where no property can tell: `Curation.Bootstrap` takes
the status of the row at the commit instead of the one read with the base,
`Intake.CarriesLogin` does not distinguish the spelling of the header that is removed.

`components` in `PROJECT.json` lists what is left out of the parts that are
modelled.
