# TryOps: formal models, checks and proofs

TryOps is an MLOps stack for two workloads, text generation (LLM) and virtual
try-on (VTON).  A browser talks to a Rust gateway, the gateway to a Python API,
the API to a database, an in-process job queue, a quota ledger and a router in
front of GPU worker processes.  Around them are a promotion pipeline, a Makefile
of evidence gates, and command line tools in Go and C++.  This directory holds
TLA+ modules of the parts whose correctness depends on interleavings, failures,
restarts or limits, the TLC configurations that check them on small instances,
and TLAPS proofs.  Paths below are relative to the repository.

## 1. Inventory

| Component | State it keeps | Operations | Interacts with | What is hard | What makes it correct |
| --- | --- | --- | --- | --- | --- |
| Async try-on jobs (`src/tryops/jobs.py`, job endpoints of `api.py`, `jobs` table in `db.py`) | records in memory, executor queue, pool threads, one row per job | submit, run, get, list, count, persist snapshot | callback writes the table; handlers read both | stale counts, swallowed write failures, restart with an empty queue | slots per workspace, rows and polled statuses never move back, every job settles |
| Job runner (`native/go/tryops-job-runner`) and benchmark client (`scripts/benchmark_vton_mlflow.py`) | attempt, deadline, last status | submit, retry, poll | job endpoints | an answer lost after the submission was taken | what a call reports is what became of its jobs |
| Web console (`web/src`), the try-on studio | job feed, polled job | submit, adopt a job of the feed, poll | job endpoints | feeds and polls overtake each other | it comes to rest |
| FASHN router (`scripts/serve_fashn_vton_router.py`) | `ready`, `inflight`, process of each worker, round-robin index | claim, forward, release, probe, readiness | GPU worker processes over sockets | per-worker lock against scheduler lock, slow probes, worker death | loads match claims, rotation among equals, every request is answered |
| FASHN worker (`scripts/serve_fashn_vton.py`, `run_fashn_vton_single.py`) | pipeline, run lock, counters, output files | infer, load | router, disk | memory check before the lock, client gone before the reply | gauge, files of one run |
| Inference endpoints (`src/tryops/api.py` `llm_generate`, `vton_infer`) | input copies, stored objects, rows | charge, guard, cache, call, store, clean up | all of the above | many early returns, threads that outlive their request | inputs removed, results stored, every request ends |
| Request timeouts (`src/tryops/timeouts.py`) | one thread per call | run with timeout | the endpoints | the operation outlives its timeout | nobody waits for a run without inputs |
| Semantic cache (`src/tryops/semantic_cache.py`) | list of entries | lookup, get, put, reset | `llm_generate` | shared list without a lock | bounded size, only matching and delivered answers |
| Workspaces (`src/tryops/db.py`, accounts part) | accounts, members, invitations, audit log | bootstrap, invite, accept, revoke, change role, remove | every API handler, each with its own connection | check-then-act across statements of two connections | at least one owner, no member without an accepted invitation |
| Database sessions (`src/tryops/db.py` connections and schema) | table locks, `_SCHEMA_LOCK` | connect, statements, commit, close | every handler, scrape, migration script | DDL on each connection, nested connections | known deadlocks only, every session ends |
| Quota admission (`src/tryops/quota.py`, gateway `quota*.rs`, `handlers.rs`) | Python ledger, gateway ledger and file, Postgres rows, Valkey counters | check, record, mirror, snapshot | API to gateway over HTTP, gateway to Postgres and Valkey | fallback to a second ledger, partial mirror failure, check before and record after work | no oversell, exact charges, fails closed |
| Gateway local quota ledger (`quota_store.rs`, `quota.rs`) | memory, one JSON file, billing mirror | check, save, bill, batch run | the file, Postgres | ends in the middle of a save, dropped handlers | a promise survives restarts, the file stays readable |
| Gateway proxy (`handlers.rs`, `proxy.rs`, `rate_limit.rs`, `guardrail.rs`) | minute windows, in-flight gauge, counters | admit, forward, answer | API, guardrail sidecar | handlers dropped at an await | ledgers say what happened |
| Promotion, packaging, rollback (`pipelines/promotion.py`, `deployment.py`, `policy.py`, C++ policy, Go controller) | evidence files of a candidate, package files, rollback state | promote, package, announce, roll back | plain files | reruns that overlap, stops between files, two policy engines | packages hold their evidence, what is accepted was approved |
| Makefile evidence gates (`Makefile`, `scripts`, `native_*.py`) | evidence files, native binaries | build, call, read, judge, write, exit | files of other targets | overlapping and interrupted makes, silent Python twins | a green make vouches for its evidence |
| Event dispatcher (`native/go`) | attempts, audit file | deliver with retries | webhook receivers | lost answers | an event is sent or reported unsent |
| Auth, guardrails, redaction | none | decide on one request | gateway, API | - | - |
| Native C++ and Go tools | none between calls | deterministic batch computations | files | numeric edges | agreement with a reference definition |
| Evaluation, observability, infrastructure | files | batch jobs | - | - | - |

`PROJECT.json` lists the components with their status, and the hazards, each at
its line with the properties that cover it.

How they interact: a request enters the gateway proxy, which authenticates and
limits it and forwards it to the API.  A handler of the API first finds the
workspace of the user (bootstrap), then asks for quota, directly in its own
ledger or with a call back to a gateway.  A generation then goes to the LLM
server, a try-on either synchronously or through the job queue to the FASHN
router, which picks a GPU worker.  The studio, the Go runner and the benchmark
are clients of the job endpoints.

## 2. Modules

| Module | Models | Checked by | Proofs |
| --- | --- | --- | --- |
| `JobLifecycle` | what a client may rely on: a job is accepted within the limit, begins, settles once or is lost | as `ImplementsLifecycle` | |
| `VtonJobs` | handlers, queue, pool threads, table | `MCVtonJobs` | `VtonJobsProofs` |
| `JobRequests` | a submission as its caller sees it | `MCVtonJobs` | `VtonJobsProofs` |
| `JobClients`, `JobStudio` | Go runner and benchmark; web studio | `MCVtonJobs` | `VtonJobsProofs` |
| `JobSystem` | all of these together | `MCVtonJobs` | `VtonJobsProofs` |
| `FashnRouter` | request threads, monitors, workers | `MCFashnRouter` | `FashnRouterProofs` |
| `RequestFlow` | steps, answers and timeout threads of the synchronous endpoints | `MCInference` | `InferenceProofs` |
| `SemanticCache`, `FashnWorker` | the entry list; one GPU worker | `MCInference` | `InferenceProofs` |
| `Inference` | the two endpoints over these three, disk and object store | `MCInference` | `InferenceProofs` |
| `Workspace` | requests on one shared workspace | `MCWorkspace` | `WorkspaceProofs` |
| `WorkspaceTraffic` | the same under requests that overlap, or that come one at a time | `MCWorkspace` | `WorkspaceProofs` |
| `SessionLocks` | connections and PostgreSQL table locks of any programs | `MCDatabaseSessions` | `DatabaseSessionsProofs` |
| `DatabasePrograms`, `DatabaseSessions` | the statements of the application as such programs | `MCDatabaseSessions` | `DatabaseSessionsProofs` |
| `QuotaAdmission` | API handlers, gateway handlers, Postgres, Valkey | `MCQuotaAdmission` | `AdmissionProofs` |
| `LocalLedger` | the gateway's own ledger, its file and its billing rows | `MCQuotaAdmission` | `AdmissionProofs` |
| `GatewayProxy` | handlers of `/api`, rate ledger, gauge | `MCQuotaAdmission` | `AdmissionProofs` |
| `PromotionPolicy` | the gates in Python and in C++ | `MCReleasePipeline` | `ReleasePipelineProofs` |
| `ReleasePipeline` | promotions, packagers, controller, rollbacks over files | `MCReleasePipeline` | `ReleasePipelineProofs` |
| `MakeRuns` | makes over one checkout: builds, calls, files, exits | `MCReleasePipeline` | `EvidenceGatesProofs` |
| `EvidencePrograms`, `EvidenceGates` | the scripts of the Makefile as steps; what a make says | `MCReleasePipeline` | `EvidenceGatesProofs` |

In each model an action is one step that other threads can see: a section under
a lock, one database statement, one transaction's commit, one message, one file
opened or filled.  A request is a constant that runs a handler; `step`,
`handler`, `at`, `leg`, `serve` and `call` say where it is in the source, and
their values are listed where they are declared.  Operators whose comments name
a plausible bug (`InsertUnchecked`, `LockRowPlain`, ...) stand beside the
definition they would replace; nothing uses them, and `PROJECT.json` names the
property each of them breaks.

### VtonJobs and its clients

`memory` is `_records`, `db` the `status` column, `backlog` the executor's work
queue, `thread` the position in `_run`, `handler` the position in
`vton_job_submit`.  The two reads of the active counts, the insert under the
lock (which counts again), the callback that writes the queued row, and
`executor.submit` are separate actions; so are a thread's start, its running
row, the outcome in memory and the outcome row.  `Persist` either overwrites the
row or fails and is swallowed, as `_notify_job_update` does.  `Restart` empties
everything but the table.  The inference is one step with two outcomes: the
adapter runs under a timeout and its exceptions become `failed`.  `ReadFails` is a
reading statement that fails: the modules below say who was told.

`JobRequests` adds what the caller of a submission sees: `reply[j]` is open,
under way, accepted, refused, an error or lost.  The handler counts the active
jobs once more for its answer (`api.py:792`), so a database failure there is an
error about an accepted job.  A client may hang up: the handler goes on.
`JobClients` is the Go runner, whose attempts have a deadline and are repeated,
each as a new job, and the benchmark, which submits once and polls for 320 s.
`JobStudio` polls the job it submitted or adopts one of the workspace's feed;
`feeds` holds the answers under way, which arrive in any order.  `JobSystem` puts
them side by side: a step of one of them is a step of `VtonJobs` or leaves it alone,
and a restart breaks every request, poll and feed at once.

### FashnRouter

A request probes the workers in turn (`SkipReady`, `ProbeDead`, `ProbeAsk`,
`ProbeWrite`: the socket answer is read before `ready` is written), then
`claim_worker` collects candidates and the least load under the scheduler lock
(`ReadCandidates`), reads the loads again (`ClaimMoving`, `ClaimNothing`),
forwards and releases.  Monitors are the readiness and metrics endpoints, which
probe too.  `WorkerChanges` and `WorkerDies` are the environment: a worker loads,
becomes unready or dies at any point.  The reads of all workers' loads in one
list comprehension are one step, although each takes its own lock in turn: what
the two reads of the code can disagree on is kept.

### Inference

`at[r]` is the place of a request in `llm_generate` or `_vton_infer_impl`, every
early return being an edge to its error code.  An operation under a timeout has
a thread of its own (`thread`, `result`); `Abandon` is the request that stops
waiting, after which the thread is a stray that goes on.  A `put` is five steps
of `semantic_cache.py:57-63`: the filtered list, the rebinding of
`self.entries`, the append to whatever list is current, the length, the slice;
lists are objects because two puts hold different ones.  A try-on copies its
inputs, lets the worker run on them and removes them in its `finally`; the
worker checks memory, takes its lock, loads the pipeline, reads the inputs,
writes image and report, and can stop at any point.  Output paths and object
keys are `slot`s, because the code derives them from account and `request_id`.
Similarity is a relation on prompts.

`ask[r].storage` is what the environment gives: no object store (`storage_from_env`
returns `None`: `SkipStorage`, nothing is put and no row written), one after which local
files are removed, or one beside which they are kept
(`TRYOPS_KEEP_LOCAL_RUNTIME_ARTIFACTS`); it is the same for all requests.  The other
early returns of `_persist_vton_runtime_artifacts` (`api.py:1971-1977`: no output in the
report, no path, a reference already) cannot be taken: the path of the output is the
one `api.py:1824` chose and the worker wrote into its report
(`run_fashn_vton_single.py:147`).  A put is followed by its row, four times; each call may fail,
as an error that is caught as `artifact_storage_unavailable` or
`vton_inference_failed` (a missing file, a file that is no image, a store that refuses), or as one only the
outermost handler catches.  A call that failed is taken to have had no effect.  An
`OSError` when an input is removed, which `_cleanup_runtime_paths` swallows, is left
out.

### Workspace

One shared workspace whose founder is given, users named by their e-mail, and a
bounded set of invitation ids.  Every handler first runs `bootstrap` (profile,
acceptance of pending invitations, personal workspace), then checks the caller's
role on one connection and acts on another.  An acceptance is its
`SELECT`s and one commit that writes member and invitation; a change of a member
is a read, the owner count and the update.  Databases behave as Postgres READ
COMMITTED: a statement sees committed rows, a write made from an old read wins.
`stamps` is a history of the outcomes an invitation was given.
`WorkspaceTraffic` adds whether requests overlap (`serial`): the owner count and the
pending check are only as good as the read before the write.

### SessionLocks, DatabasePrograms

Every connection executes the schema script with its `ALTER TABLE`s under the
process's `_SCHEMA_LOCK` and then the statements of its handler.  A program is
the sequence of table locks of these statements with commits and closes, a
`Maybe` where rows or the request decide.  The lock manager is PostgreSQL's
table: `AccessShare`, `RowExclusive`, `Share`, `AccessExclusive`, kept to the end
of the transaction.  `Abort` is its deadlock detector, which sees neither
`_SCHEMA_LOCK` nor that two connections belong to one thread.  Row locks are left
out.

`Alone` is constant: for each program the places it leads to on its own, each with
its open connections, its locks, and whether it is inside the schema lock.  A lock
manager makes a session wait but never changes what the session does next, so a
session among others is always at one of these places.  `DatabaseSessions` states
with it, over pairs of waiting statements, which ones can cross the schema script
(`TablesAreInOrder`).

### QuotaAdmission

One user, plan and day, with `TRYOPS_QUOTA_GATEWAY_URL` set and
`TRYOPS_GATEWAY_QUOTA_POSTGRES_ADMISSION` on.  `CheckQuota` is the gateway's
handler: client mutex, one `SELECT ... FOR UPDATE` per dimension in the order of
their names, commit or rollback, ledger overwritten and saved, Valkey, answer.
It can fail in the transaction, at the file or at Valkey, be dropped with its
connection (`Abandon`, what hyper and axum do when the caller goes away), or die
with its process.  `Call` is the API's handler: a generation asks before it
starts, a try-on checks its local ledger first, works, and asks after; without an
answer (timeout 0.5 s, connection error, 5xx) it decides in the process's own
ledger, whose `+=` is a read and a write because two threads run it.  How much
the local ledgers admit beyond the shared one after a timeout is not bounded by
the code, and no property says it is.

### LocalLedger and GatewayProxy

The gateway without Postgres admission: the decision is charged in memory and
saved while the ledger's mutex is held (temporary file created empty, filled,
renamed), then the billing row is raised, the counters, the answer.
Each step can fail, and the handler can be dropped at the awaits.  A
`quota-check` run charges a batch and saves once.  Processes end at any step and
start again from the file, if they keep one.  A process starts only when no other
has its path: nothing locks it, and two at once would share one
temporary name.

`GatewayProxy` is `proxy_api`: checks, a unit of the key's minute under the rate
ledger's mutex, the sidecar, the gauge up, the upstream's head, the gauge down,
the body, the counter.  `Drop` ends a handler at any of its awaits.

### ReleasePipeline

A promotion decides and writes its eleven evidence files in order, a packager
reads eight of them in its order (most may be missing) and writes manifest and
plan, the controller accepts or refuses the manifest it is sent, and a rollback
writes a record in the package and then the shared state.  All are processes over
plain files that may overlap and stop between any two files.  `PromotionPolicy`
decides a candidate twice: `policy.py`, and the C++ engine on lines of text.  Two
bridges write these lines, `native_policy.py` for the second opinion in the evidence
and `policy_wire.go` for the controller's own gate, and they differ.  A metadata value
is one of 21 classes of JSON values, listed in the module: whatever `str`, `int` and
truth in Python, the two flattenings, and a comparison and `atoi` in C++ tell apart.
`PythonAccepts` and `PythonRaises` are the conversions of `policy.py`, `WireText` those
of a bridge, `NativeAccepts` the readings in C++.  A value stands under the object of its gate
(`nested`), under the flat name only Python falls back to (`flat`), or under a
top-level name that the nested one flattens to (`dotted`); when both are there,
Python's order lets the top-level one win, while Go ranges over a map.  A name or text
with a line break, a NUL or a stray `=` (`plain` false) may put any line on the wire.
A value that `int` or a join cannot take ends the promotion in an exception.

### MakeRuns, EvidencePrograms, EvidenceGates

A target is its prerequisites and a sequence of steps.  `EvidencePrograms` has one
sequence per script: what it reads and what it makes of a file that is missing or
half written, which native tools it calls through which bridge and what each kind
of answer means for its verdict, the files it writes, and whether a bad verdict
ends in a bad exit code.  `MakeRuns` executes them for makes that may overlap or be
interrupted: a file is torn between its opening and its end, a tool between the
start and the end of its link.  What the scripts compute is left out.

A file has a verdict of its own: the overall one it gives, such as `passed`, or, where
it gives none, bad as soon as one check, gate or objective in it is.  `Saves` is a
write after which the script ends as the verdict says, `Notes` one of checks the
script's exit does not look at.  `Lenient` are the 17 files of which a bad one can lie
behind a green make: those of scripts that end well whatever they find (`energy_demo`,
`perf_stats`, `quota_usage`, the language model benchmarks, `llm_pareto`, whose
objectives can be missed, the drift reports, `package`, whose manifest can say
`gitops_validation_passed: false`), those that repeat such verdicts (`leaderboard`,
the optimization charts and tables), and those with a check beside the verdict
(the inclusion proof of `audit_log_report`, the queue's metrics in
`vton_job_report`, and `second_opinions`: the native decision and the lineage
validation of a promotion, split from its other `evidence` because its exit looks at
neither).  `LenientReportsMayFail` says that each of them does, behind the good end of
some undisturbed plan, so the list is no longer than it must be.
The energy sweep saves a variant as available before it prints a table that it may
not be able to print: its script can end badly after a file that does not say why.

`Solo` and `InCompany` are constant, like `Alone` above: all that a plan leads to from
its first step when nobody is in its way, with its own files and tools, and all
that it leads to whatever the others do, with its verdict and the bad reports it
has saved.  `BadReportsStop`, `PlansEndWhole` and `BadVerdictsAreSaved` say of each
plan of the Makefile by itself what a gate rests on.

## 3. Runs

| Run | Instance | What it shows |
| --- | --- | --- |
| `jobs_safety` | 2 pool threads, 1 failing call, 1 restart, in one of five scenes: free submissions; the runner with two attempts; the benchmark beside somebody else's submission; the studio alone; the studio beside a teammate, nothing failing | slots, stages, rows and polls; `ImplementsLifecycle`; what runner and benchmark report is true; every poll ends; the studio comes to rest |
| `jobs_restart` | free submissions, 1 thread, no fault | violates `RowsSettle`: after a restart a row stays queued or running for ever and keeps its slot, against `docs/vton_job_persistence_and_readiness_plan.md:31` |
| `fashn_safety` | 2 workers, 2 requests, 1 monitor, fair | loads, lock and claims agree, rotation starves nobody, every request is answered |
| `fashn_refusal` | 1 worker, the same | violates `RefusedOnlyWhenNoneReady`: a release between the two reads of the loads makes `claim_worker` return nobody |
| `inference_safety` | 2 generations over one cache of one entry, or 2 try-ons on one worker that may stop once, without an object store, or with one that replaces or joins local files | what the cache holds and hits, what is stored and removed, the worker's gauge, and that every request ends |
| `workspace_safety` | 3 users, 2 invitations, every operation one request at a time; or 2 users with 2 requests at once and fewer operations | `MembersWereInvited` in every interleaving; owner and invitations for any sequence of requests |
| `workspace_owners` | 2 concurrent requests | violates `HasOwner`: two demotions or removals both pass the owner count |
| `workspace_bootstrap` | 2 concurrent first requests | violates `OnePersonalWorkspace` |
| `sessions_safety` | two sessions in the API's process: every pair of writing programs, and every reading one beside those that take tables against the schema's order; or every writing program beside the migration script in its own process | which sessions can deadlock, and that all end |
| `quota_safety` | 2 requests of either workload, 2 API processes, 2 gateways; or 2 gateways and a batch run with one ledger file or none, 2 ends; or 4 proxied requests over a turn of the minute | no oversell, exact charges, fails closed, promises that survive restarts, ledgers that say what happened, every check ends |
| `quota_refused` | 2 requests, 1 API, 1 gateway | violates `CompletedWasAllowed`: a try-on over the limit completes, against `docs/enterprise_quota.md:53` |
| `release_safety` | one promotion of every candidate one step from a good one, and of one with each class of value at each key and place; two overlapping promotions and a packager; one promotion with overlapping packages and rollbacks; or each goal of the Makefile with an interrupt, and seven pairs of goals that share files or tools | packages hold their evidence, what is accepted was approved, both engines differ in known places only, rollbacks are recorded; what green and failed makes say |

The five violated properties are the statements of the repository quoted in
`PROJECT.json` "findings".

Parts that share no state (`QuotaAdmission`, `LocalLedger`, `GatewayProxy`; the
release and the makes) are scenes of one run: one of them moves while the others
rest.

Bounds.  `MaxFaults` and `MaxCrashes` bound failing calls and restarts of
`VtonJobs`: one of each reaches every mixture of a lost row and a lost process,
and more repeat it.  Two submissions of one workspace race for its single slot
while a third, of another workspace, fills the second thread.  `MaxFeeds` = 2 is
the fewest answers that can overtake each other.  Two workers and two requests are
the fewest for a rotation and for a release inside another's choice; the proof of
the rotation covers every number.  One cache entry makes every second put evict;
one stop of the GPU worker reaches every step it can be lost at.  Three users
(founder, admin, invited) hold every role at once; two invitations let one be
pending while another is settled.  `MaxDepth` = 3 is the deepest nesting of
connections in `api.py` (feedback with an API key whose demo account is missing), and
PostgreSQL's cycles of two sessions are those that a third can only lengthen.  Two gateways with one mutex each are the fewest that
meet at a row lock; each request is one call, so that both ledgers stay finite,
and the limits are small enough for the second to exceed them.  `LastMinute` = 1
has one turn of the minute.  `tracked` names the files a release scene follows:
all of them with one promotion, those a controller's decision hangs on with two.
`CHECK_DEADLOCK FALSE` is set because requests are finite in number or may never
arrive: a state with nothing to do is a proper end.

Fairness.  Handlers and pool threads that have started keep running (weak
fairness per thread): the interpreter and the runtimes schedule every runnable
thread and every call they make has a timeout.  Nobody has to submit, fail,
restart or die.  `ClientFairness` and `StudioFairness` say that answers are read,
status requests repeated, and that the studio's timer and effects run; no
deadline has to pass and nobody has to click.  `ClaimStep` has strong fairness,
since `threading.Lock` gives no order: a request waiting for the scheduler lock is
assumed to get it in the end.  In `Inference` a model, a matcher or a worker may
stay silent for ever; only the request and the clock of its timeout are fair.
In `QuotaAdmission` weak fairness of a handler is enough because mutex and row
locks queue their waiters; no fairness is put on failing, so a deadlock could not
hide behind its detection.  A database session has weak fairness with PostgreSQL's
detector, which runs after a second of waiting.

### What the runs say about the code

Beside the findings, these are behaviours the models had to be given, or that a
property states with its exception, and that a reader of the code may not expect.

* Jobs.  `structured_error` answers are HTTP 200 with status `rejected`: the Go
  runner takes an unknown polled status for an error, the Python benchmark polls on
  until its deadline.  A submission whose recount fails (`api.py:792`) is an accepted
  job with a 500, and the runner submits again.  A direct call whose body
  broke off (`proxy.rs:187` turns it into an empty body with the upstream's status)
  has status "" and passes (`runner.go:56`).
* Studio.  A row whose outcome was lost stays in the feed: the studio adopts the
  job, polls it, sees it finished, lets it go, and starts over without a pause.
  `StudioComesToRest` excepts exactly this.  Its `busy` flag can go down while its
  own submission is under way, because it has adopted a teammate's job.
* Inference.  A shadow call that fails or times out turns a generated answer into an
  error, although `docs/api_contract.md:128-129` says the primary answer does not
  change.  Requests with one `request_id` write over each other's image.
* Database.  Each connection takes `ACCESS EXCLUSIVE` locks in `_ensure_schema`; the
  metrics scrape, a revoked invitation and a repaired workspace name take tables in
  another order and deadlock with it, and two processes deadlock with each other's
  schema scripts.  The demo account path opens another connection (inside
  the feedback handler the third) while its first holds its locks: PostgreSQL sees no cycle, and every thread then waits for
  `_SCHEMA_LOCK`.
* Quota.  A gateway that cannot reach Postgres at its start runs without the billing
  mirror until it is restarted.  `native/README.md:66` gives the ledger file to the
  gateway and to `quota-check`; nothing locks it, and both save through one `.tmp`
  name.  `docs/enterprise_quota.md:17-18` promises that usage survives a restart:
  `PromisedWithinLimit` holds for processes that keep the file one after the other.
* Proxy.  The in-flight gauge stays raised for ever for each client that leaves
  before the head of its answer arrives, and no longer counts a request whose body
  is still being read.  A key can take twice its units around the turn of a minute.
* Release.  The engines differ on guardrails, on flat fallback keys, on top-level names
  with a dot, on a count of vulnerabilities that `atoi` wraps to zero, and on the values
  of `LaxReadings` (only C++ accepts: a list of one right word, a blank signer, an
  `unsafe_file_count` of `true`, 2^32 or `"0_1"`, extensions that are an object) and
  `StrictReadings` (only Python accepts: `" TRUE "`, a signer that is a list or an
  object, `rejected_extensions: false`, or null over the Python bridge, ...).  A few of
  these hold over one bridge only.  Both accept a metric that is NaN.  A rerun that overlaps another
  leaves evidence of both, and the packager takes it.  An approved promotion to
  `staging` raises before anything is written, as `registry.py:41` knows no such alias.
* Makefile.  A report may be built on files of an earlier make (`BuiltOnOlder`), of a
  Python twin instead of the tool (all but `NativeVerdicts`), or carry a failed check
  behind a green exit (`Lenient`): a Pareto report whose objectives are missed, a
  deployment package whose manifest could not be validated.  `EvidencePrograms` says per script which.

## 4. Proofs

All proofs are checked by TLAPS for every value of the constants, under the
`ASSUME` of each module (types of the constants, finite sets where something is
counted, positive limits), which TLC evaluates in every run.

* `VtonJobsProofs`.  `AccountLimit` alone is not inductive: a record could be
  active with nobody to move it, or a thread could revive a settled one.
  `StagesAgree` lists the nine stages a job can be in, memory, table, backlog and
  threads together, and that the backlog has no duplicate.  It is inductive with
  `TypeOK`; `AccountLimit`, `ActiveIsCarried`, `RowFollowsRecord`,
  `RowNeverRegresses`, `PollNeverRegresses` and the refinement
  `QueueImplementsLifecycle` follow from it.  `SystemImplementsJobs` carries all of
  them to `JobSystem`: no client and no studio can make the jobs do anything that
  `VtonJobs` does not.  There `RepliesFit` (what each answer to a submission says of
  its handler, or of a fault that disturbed it) and `CallsFit` (what the phase and
  the attempts of a call say of its jobs) are inductive with `TypeOK`, and give
  `VerdictsHold`.
* `FashnRouterProofs`.  `LockAndClaimsMatchSteps` (the lock is held exactly in the
  choosing step, a worker exactly while forwarding) is inductive with the types;
  with `InflightIsClaims` it is `LoadsAndClaimsAgree`.  From it follow the
  rotation bound and `OnlyReleasesDuringChoice`.
* `InferenceProofs`.  One invariant, `InferenceInv`, for both endpoints, the cache
  and the worker.  `FlowKnown` says what the place of a request tells of its answer,
  its charge, its thread and the worker; `InputsKept` and `StoredInOrder` follow the
  copies, the output files and the eight steps of storing, `ImagesStay` the image of a
  try-on that has no object store, from the worker's write on; `ObjectsInOrder` says
  which list objects of the cache are still in use, and `EntriesAreSound` who may
  have put an entry into any of them, including lists a slower put will drop.  They
  need each other: an entry's author completes only because its later steps cannot
  fail, and inputs are there during a run only because the request waits.
  `CacheSound`, `HitsMatchThePrompt`, `InputsRemoved`, `CompletedIsStored` and
  `GaugeNeverOvercounts` follow, and the action property `InputsOutliveWait`.
* `WorkspaceProofs`.  Types are proved with `StepsFitOperation` (which steps belong
  to which operation).  `MembersWereInvited` needs in addition `WorkFits`: what a
  request has read is still good enough when it writes, because memberships and
  accepted invitations are never taken back (`Keeps`).  For requests that come one
  at a time (`WorkspaceTraffic`), `ReadIsCurrent` (what the request in progress has
  read of a member or of the owners is still so) gives `SerialHasOwner`, and
  `FoundStillPending` (so are the invitations it has found pending)
  `SerialInvitationsSettleOnce`.  `NoneYet` (so is that the user has no personal
  workspace) gives `OnePersonalWorkspace` (`SerialOnePersonalWorkspace`), which no
  passing run checks.  With two requests at
  once it and `HasOwner` are false, as `workspace_bootstrap` and `workspace_owners` show.
* `AdmissionProofs`, the shared ledger.  `RowsHeld` (a transaction alone holds the rows it has
  checked) and `RoomKept` (while it fits there is room for it in each of them)
  give `NoOversell`; `DecisionsReached` gives `MirrorNeverAhead`;
  `AdmittedCommitted` gives `FailsClosed`.  `UsedIsCharged` counts units, so it needs
  that a commit adds a request that was not among the committed: `ServedOnce` (a
  handler starts on a request at most once, and a committed request is past its
  transaction), with lemmas on the cardinality of the units of a set of requests.
* `AdmissionProofs`, the gateway's own ledger.  `LedgerInv` is inductive: `SaversAgree` (who is in the middle
  of a save, and that a temporary file about to be renamed is that process's whole
  ledger), `ReadableInv` (the file is a ledger that fits the limit) and
  `PromisesAreKept` (when every process keeps the file, what was promised, plus what
  a save under way owes, is in the file and in every running memory).
  `PromisedWithinLimit` and `LedgerStaysReadable` follow.  `MirrorInv` counts the
  handlers on each side of the billing row, billed and not yet billed, against its
  count and the charges; it gives `MirrorCountsAnswers`.
* `AdmissionProofs`, the proxy.  Every step of a handler is a move from one leg to another
  that counts what it enters and leaves (`MoveStep`, on the cardinalities of the
  sets of handlers); a unit is taken once because a request that has not been
  through the rate ledger has none (`UnitsFollowRating`).  With the types this
  makes `EdgeLedgersAgree` inductive.
* `ReleasePipelineProofs`.  `ReleaseInv` follows the files from hand to hand:
  promotions write in order, so a registry entry means that everything a packager
  reads before it exists (`EntryIsLast`), so a packager that found one has all it
  read (`PackagersRead`); evidence left by a promotion that nobody overlapped is one
  run's and lies still while it is read calmly (`AloneWrites`, `CleanIsOne`); what
  was accepted carries a decision and a known alias (`AcceptedKnown`); a rollback
  names the profile only after its record (`RecordFirst`).  Its five properties
  follow; `EnginesDifferAsKnown` compares the readings of the two engines key by key
  and class by class, for every candidate and not only for those a step away from a
  good one.
* `DatabaseSessionsProofs`.  `SessionsInv` says that every running session is where
  its program would be alone (`Alone`), that whoever is inside the schema lock of a
  process holds it and nobody else, and that locks held together do not conflict;
  `LocksAgree` follows.  For `DeadlocksAreKnown`: of two modes that conflict one is
  strong, and only a session inside the schema lock of its process holds or wants
  one (`StrongLocksAreInside`).  So in a cycle within one process there is exactly one
  such session.  Whoever it waits for has a weak lock in its way and wants a weak one
  itself, so it waits for a strong one, which only the first can have: the two cross
  each other, and `TablesAreInOrder` says which statements can cross the schema script.
* `EvidenceGatesProofs`.  `GatesInv` says of any number of makes, overlapping and
  stopped anywhere, that each is at a place its plan has in `InCompany` with every
  bad file of its own among those it counts (`EachAmongOthers`), and, if it is
  undisturbed, at a place of `Solo` whose files and tools are the ones on disk
  (`EachAsAlone`).  The second is what makes overlapping hard: it needs that no other
  make opens a file it reads or writes or links a tool it calls, for every step of
  either.  The three properties follow from what each plan does by itself.

The facts that these two rest on are `ASSUME`s about the programs and plans, which
TLC evaluates in `sessions_safety` and `release_safety` for all those of the
application: that `Alone`, `Solo` and `InCompany` are closed (`AloneIsClosed`,
`SoloIsClosed`, `CompanyIsClosed`), that the schema lock is left by whoever is inside
and before the program ends (`SchemaLockIsLeft`), what is locked inside
(`StrongLocksAreInside`), and the statements about single programs and plans named
above.  They are enumerated, because they hold by what each statement and each
script is, which no argument about sequences in general could say.  The theorems lift
them to any number of sessions, processes and makes, in any order and combination;
the runs have two at a time, in chosen pairs.

The other assumptions are about the names of things and about what an instance is given:
runs of different scripts are different and none is called `none` or `torn`
(`DistinctRuns`); scenarios give every process a job, target or request of its type
and follow at least decision and registry entry (`ScenariosAreGiven`,
`ScenariosAreAsked`); the cache holds at least one entry, similarity relates keys,
requests are finitely many (`CacheAssumption`), and so are the checks of a ledger
(`LedgerAssumption`).  None of them bounds what the code may do.

Only model-checked:

* everything under fairness (`RequestsAnswered`, `ChecksEnd`, `PollingEnds`,
  `StudioComesToRest`, `RequestsEnd`, `SessionsEnd`), which the prover cannot do;
* that the programs and plans of the application have the finite facts above.

`TypeOK` of each module with proofs (`ProxyTypeOK`, `LedgerTypeOK` in the gateway's),
`ActiveIsCarried`, `RowFollowsRecord` and `LocksAgree` are proved and in no run.

## 5. Not modelled

* The event dispatcher: one pass over a file of events with retries, whose report
  says what was sent; it shares nothing with the modelled parts.
* Start-up and supervision of GPU workers, most counters and metrics texts.
* Names, profile details and the audit log of workspaces, workspaces created
  explicitly; users, plans and days beyond the one a ledger is modelled for.
* The MLflow side of the benchmark and of the pipelines
  (`benchmark_vton_mlflow.py` beyond its call, `mlflow_integration.py`): calls to a
  tracking server in one sequence, whose failure ends the script.
* Authentication, guardrails and redaction decide on one request's own text and
  keep nothing.
* Batch algorithms in C++ and Go and their Python twins: what they compute.  Image
  metrics and statistics are floating point.
* The console beyond the studio, services started by the Makefile, infrastructure.

## 6. Plan

Done in the order of the damage a fault would do: jobs and slots, GPU routing,
membership, quota; then serving, sessions, the gateway without Postgres, release
and evidence, clients and proxy.  Left:

1. `EventDispatch`: delivery with retries and duplicates at the receiver.
2. Algorithms as operators against reference definitions: LRU/TTL cache, consistent
   hash ring, retry schedule.

Runs stay few: composed modules replace the runs of their parts where they subsume
them, parts without common state are scenes of one run, and a violated run is there
only where the repository states what the code does not do.
