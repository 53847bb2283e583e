# Verification of ExposureScopeX

TLA+ models of the parts of ExposureScopeX in which several processes share
state: what they keep, what a step may do to it, and what must hold whatever
order the steps come in. TLC checks small instances, TLAPS proves the safety
theorems for every instance.

Paths below are relative to the repository root. `PROJECT.json` maps every
definition that models code to its lines.

## 1. Inventory

The repository holds two generations of the product and the scanner they grew from.

### v3: `v3/backend/app`

FastAPI handlers (`main.py`) and a pool of runner processes (`runner.py`) share
one PostgreSQL database. Nothing is passed between processes except rows.

| component | state | operations | what is hard |
|---|---|---|---|
| stage orchestrator (`runner.py`) | `scans`, `stage_runs` (status, lease, started_at), `scan_coverage`, `reports`, the advisory lock of a scan | recover, claim, heartbeat, finish, block and cancel later stages, finalize, startup recovery | leases expire under living runners; `finish_stage` and the tool's lease renewal are not guarded by the lease; the finalizer is a chain of autocommitted statements; crashes between any two |
| scan requests (`main.py`) | the same rows | start, cancel, regenerate a report | they race the runners; a status is read, seconds pass, a row is overwritten |
| asset inventory and graph (`exposure_management.py`) | `assessment_assets`, `exposure_assets` | create, discover, review, merge, start scans of hosts | long legal sequences over two ownership vocabularies |
| integration outbox (`exposure_management.py`) | `exposure_delivery_events` | enqueue, claim, send, settle | lost answers, crashes after the claim, senders that outlive their five minutes |
| exposure program (`runner.py`, `exposure_management.py`, `main.py`) | `exposure_monitors`, `exposure_monitor_runs`, `exposure_findings` | admit scans, dispatch monitors, follow results, operator decisions | two admission paths with different locks; results that arrive late, twice or never |
| stage adapters (`light_adapters.py`) | artifacts, findings | run a tool and store what it says | I/O; only their effect on the rows above matters here |
| reporting (`reporting.py`) | report files | render DOCX, PDF, evidence bundle | may fail after the scan was closed |
| evaluator (`main.py`, `evaluator_governance.py`, `client_evaluator_runs.py`, `evaluator_reporting.py`, scoring modules) | datasets, identities, integrations, adapters, semantic runs, evaluations, submissions, reports | register, approve, disable, upload, judge, evaluate, render | racing uploads of one package, entries disabled between look-up and insert, approvals that meet a disabled entry, requests lost between two inserts, two renderings of one report |
| client runner (`v3/client-runner`) | local files | probe, score, report | sequential |

### webapp: `webapp/backend/app`, `webapp/worker`

An older FastAPI application with Celery workers, Redis tenant slots, a beat
scheduler and report jobs. Its `scans` row is written by the API, the worker and the
reconciler, mostly without locks.

| component | state | operations | what is hard |
|---|---|---|---|
| scan lifecycle (`celery_app.py`, `assessments.py`, `assessment_runtime.py`, `tenant_scheduling.py`) | `scans`, `assessments`, the broker's queue and revocations, the tenant's sorted set of slots | dispatch, retry, cancel, claim, execute, reconcile, recover, retain | a status read before a wait and written back after it (`celery_app.py:1081`), a task id assigned after the task was published (`assessments.py:270`), a reconciler against a slow worker (`assessment_runtime.py:427`), second deliveries, slots that expire |
| operations (`operation_control.py`, `operation_workspaces.py`) | `operation_workspaces` | transitions, emergency stop | a stop against a dispatch that has looked already |
| scan scheduler (`scan_scheduler.py`) | schedules | dispatch what is due | a commit that releases the locks of rows still to be processed |
| report jobs (`report_jobs.py`, `reports.py`) | `report_artifacts`, the reports queue | queue, refresh, render, retry, backfill, cancel | a report refreshed under its renderer (`report_jobs.py:312`), failures written without another look |
| findings, MCP jobs, sessions, integrations | their own rows | single-row updates, imports | little: no protocol between processes |

### Others

The shell scanner (`exposurescopex.sh`, `modules/`), the front ends, deployment,
benchmarks and seed data: sequential scripts, user interface and configuration.

## 2. Modules

| module | models | extends or uses |
|---|---|---|
| `ScanContract` | what the orchestrator promises about a scan | |
| `StageRunner` | the orchestrator and the requests that touch a scan | instantiates `ScanContract` |
| `MCStageRunner` | symmetry of runners and requests | `StageRunner` |
| `AssetInventory`, `MCAssetInventory` | ownership and the scans it starts | |
| `DeliveryOutbox` | the outbox | |
| `ExposureProgram` | admission, monitors, finding history | |
| `WebScan` | the web application's scan lifecycle | |
| `WebReports` | its automatic report jobs | `WebScan` |
| `WebPlatform` | both joined where a scan queues its report; specification and properties | `WebReports` |
| `MCWebPlatform` | the eleven instances | `WebPlatform` |
| `ReleaseLedger` | what the v3 evaluator promises about release decisions | |
| `EvaluatorIntake`, `MCEvaluatorIntake` | its governance, intake and reports, seven instances | instantiates `ReleaseLedger` |
| `StageRunnerProofs`, `AssetInventoryProofs`, `DeliveryOutboxProofs`, `ExposureProgramProofs`, `WebPlatformProofs`, `EvaluatorIntakeProofs` | theorems | the module of that name, TLAPS |

The grain is the same everywhere: **one action is one transaction or one
autocommitted statement**, because that is where another process can step in. What
a process carries from one to the next is a variable of its own (`held`, `verdict`,
`todo`, `syncing`, `checked`). A clock is never modelled as a number: only what a
statement compares with `now()` is (a lease is live or expired, a row is due).

### StageRunner

One scan of `N` stages, a set of `Runners`, a set of API `Requests`. The main loop
of `runner.py` is the program counter `pc`: `down` → `startup`
(`recover_missing_reports`) → `recover` → `closing` → `requeuing`
(`recover_expired_leases`, whose coverage rows are written one at a time:
`CloseRow`, `RequeueRow`) → `claim_stage` or `Poll`. `run_stage` is `check`
(`BeginExecution`), `executing`, then `finish_stage` with any outcome an adapter
may have, `_cancel_pending_stages` if the outcome was a cancellation, and the
finalizer: `TryFinalize`, `ReadStages`, `WriteScan`, `WriteAssessment`,
`WriteAssets`, `Render`, possibly the same three writes again as `partial`,
`PersistReport`, `Unlock`. `finish_stage` has no guard on the lease since the
statement has none; `ToolHeartbeat` renews a lease it may have lost for the same
reason. `Crash` may happen anywhere and frees the advisory lock.

`cancel_scan` is `CancelScan` (nothing runs; the report comes in a later
transaction, `CancelReport`) or `RequestCancellation` (something runs).
`regenerate_report` is `RegenerateRead` and `RegenerateWrite`, because it renders in
between.

Left out: `lease_owner` and `attempt`, written but read by no statement; events; the
content of reports and artifacts; other scans, which only keep runners busy.

### AssetInventory

`local` is a host's ownership in an assessment, `global` its ownership in the
organization's graph, `Upsert` the merge of `upsert_exposure_asset` with
`_global_ownership_status` and `_combine_ownership`. Three handlers start scans.
`cleared` and `vouched` record human decisions and are read by properties only.

### DeliveryOutbox

`Selected` is the query of `deliver_one_pending_integration`, `Claim` the update
that counts the attempt, `send_integration_delivery` the request, whose answer may be
lost after the endpoint took the event. A claim outliving its five minutes is a
stall: the row becomes due again while the old sender is still going to settle it.

### ExposureProgram

Scans of one assessment, queued by hand (`start_scan`) or by its monitor, and scans of
other assessments of the same asset. `CheckMonitor` and `DispatchMonitor` are two steps
of the transaction of `queue_due_monitors` because it holds only the monitor's row
while `start_scan` holds the assessment's; hence the overlap of `overlapping_scans`. A finalizer closes a scan (`Finalize`) and
later syncs the history (`sync_scan_finding_lifecycle`) or never does (`SyncLost`); a
late runner may finalize the same scan again.

### WebScan, WebReports, WebPlatform

A scan is a row (`status`, `cancelFlag`, `taskId`, `heartbeat`, `sessionDir`) and one
task. A request that dispatches is `Checked` (its own check and the look at the
operation), `_dispatch_assessment_scan` (admission under the advisory lock and the
committed insert), `SubmitTask`, `RecordTask`; `DispatchFailed`, `RefuseDispatch` and
`ApiCrash` are the other ways out. A rescan, a retry and a due schedule differ in their
check only.

A worker (`pc`) goes `entry` → `read` → `slot` → `claim` → `check` → `start` → `loop` →
`post` → `ingest` → `close` → `closing` → `report` → `publish` → `ack`, with the detours
`stop` and `fail`. Every `_update_scan_row` is two steps: the read, taken with the step that calls it
(`Update`: the cancel flag is copied), and the write, at `pc = "write"`, which puts back
what was read. `cancel_assessment_scan` and `emergency_stop` read in one step and commit
in another (`CommitIntent`); so does the reconciler. The faults are `Redeliver`, `WorkerLost`,
`SlowWorker`, `IntentLost`; `Raise`, an exception that the execution's handlers record, and
`TaskFails`, one that nothing records because it comes before the `try`
(`celery_app.py:1073-1085`, `1123-1171`) or in the handlers: the task is acknowledged and the row
stays as it is. A slot goes in five ways: it is released, by its own task or by a second
delivery; it lapses after a lost worker (`SlotLapses`, also after `ReleaseFails`); it lapses under
a worker who outlives its ttl (`SlotOutlived`); or its key expires (`SlotKeyExpires`).

`RetryLater`'s heartbeat marks a scan that some worker has touched: `QueueLimit` counts
the others, since a claim that was lost or a write-back may return any number of scans to `queued`
without asking for admission.

A report's content is the scan status it was rendered from. `LoadReport` copies report,
scope and scan; `StoreReport` looks only for a cancellation, `FailReport` at nothing.
Three callers queue a report, through `QueueReport`: the worker, a recovered ingestion and the
backfill. Each commits the row (`_enqueue_automatic_scan_report_format`), sends the message and
writes the scope again as it had computed it, with the task's id (`PublishReport`); `scope`
holds what it will write, which by then may undo what another caller queued. Queueing and
rendering also write the scan's metadata back as they had read it (`LoadScan` and `loaded`, and
`cancel` of what a renderer holds), so either may drop a `cancel_requested` set meanwhile. One
simplification: a report rendered inline, because the broker is unreachable, is read and stored in
one step.

The backfill looks at the fifty terminal scans with the latest `completed_at`, over all tenants,
and queues at most ten per beat (`report_jobs.py:211, 230`). `outside` holds the scans it does not
reach: `NewerScansEnd` puts one there, a new `completed_at` (`Dated`) takes it back.

`left` is the behaviour's budget of scans, faults and requests. It bounds the model, not
the code; a spent budget for reports counts as a failure to queue one.
`unslotted`, `dropped` and `overtaken` are history variables that record which scans met races
the code does lose, and are read by `SlotLimit`, `AcceptedScanEnds` and `ReportShowsSuccess`
only. `unslotted`: a slot was released, lapsed or expired under its user. `dropped`: the task ended
in an error nothing records. `overtaken`: a report was queued anew while it was being rendered; its scope was
overwritten by an earlier caller; it was rendered from a row that had lost the success it was
queued for; or the row took a success that nobody queues a report for, because the worker was
lost before it did (the redelivered task finds the scan ended) or because a redelivered task
wrote an outcome back that it had read. Queueing the report again, with no renderer at work,
makes up for all of these and takes the scan out of `overtaken`.

### EvaluatorIntake

The four kinds of entry (dataset, client identity, GitHub integration, live adapter) share
one row shape and one approval protocol: `Approve` reads the draft and compares the users,
`UpdateDraft` writes `WHERE status = 'draft'`. An upload is `_resolve_client_run_identity`,
`ingest_client_runner_evaluation`, `LockPackage` (advisory lock, then the look for an
earlier submission), `InsertEvaluation`, `CommitSubmission`; until the commit nobody sees
the insert. `Migrated` names the datasets that only the workspace migration inserts, as approved
by the user who is also their creator (`migrations.py:440-458`); `Init` puts them there, nobody
registers them, and `approved_evaluator_dataset` does not tell them from others. Live, semantic and direct evaluations read what they need, wait for the
endpoint or the judge, and insert. `Abandon` ends any request anywhere. A score is any
decision, a rendering any of `MaxRenders` contents.

The database has barriers of its own behind these handlers (UNIQUE on the package, triggers
that refuse updates of evaluations and reports). They are left out on purpose: the
properties hold by what the handlers do. Storing a file is one step because one process
serves the API (`v3/compose.yml:24`) and nothing in it is awaited.

`ReleaseLedger` is what all this amounts to for a release decision, without requests: a ledger
that grows by one justified decision at a time. `EvaluatorIntake!Ledger` maps the entries that
were approved by an eligible user or inserted by the migration, the grades of completed semantic runs and the rows of
`agent_evaluations` to its three variables.

## 3. What the runs check

| run | instance | checks |
|---|---|---|
| `stage_pool` | 2 stages, 2 runners, 1 request, 1 crash | `SerialStages`, `FinalizerExclusive`, `ClosedScanHasNoOpenStage`, `ReportOnlyForClosedScan`, `MonitorRunSettledWithReport`, `CoverageNotOverstated`, `ImplementsContract` |
| `stage_live` | 2 stages, 2 runners, 1 crash, fair | `StagesClose`, `ClosedScanIsReported` |
| `asset_inventory` | two assessments whose roots are a domain and a host below it, three hosts | `ScannedWasCleared`, `VerifiedWasVouched`, `ExclusionSticks` |
| `delivery_outbox` | 2 events, 2 runners, 3 attempts, 1 crash, 2 stalls, fair | `DeliveredWasAccepted`, `GivenUpOnlyAfterRetries`, `RetriesBounded`, `EveryEventSettles` |
| `exposure_program` | 2 scans, 1 finding | `ActiveScansBounded`, `ResolvedOnEvidence`, `MonitorRunsOnlyWhileActive`, `OperatorDecisionKept` |
| `web_platform` | 11 instances of at most 2 scans, 2 workers, 2 requests, 1 renderer, 2 report attempts, fair | `SlotLimit`, `QueueLimit`, `TerminalForGood`, `ReportShowsSuccess`, `NothingRunsForEver`, `AcceptedScanEnds`, `ReportSettles` |
| `evaluator_intake` | 7 instances, 2 users, 3 datasets (one migrated), 3 other entries, 2 packages, 3 requests at a time | `PackageCountsOnce`, `DecisionsHaveProvenance`, `RestsOnApproval`, `SemanticHold`, `DisablingIsFinal`, `ReportStaysVerified`, `ImplementsLedger` |

Each passing run also checks its module's `TypeOK`. Five runs show where the code
does something else than the repository says:

| run | the text | what the code does |
|---|---|---|
| `completion_gate` | "A scan is `complete` only when all required stages succeeded" (`v3/ARCHITECTURE.md:153`) | a runner that lost its lease rewrites a required stage after the scan was declared complete |
| `preflight_barrier` | "If target resolution or scope validation fails, every later queued network stage is atomically marked blocked" (`v3/ASSESSMENT_FLOW.md:144`) | recovery closes an overdue preflight and leaves the rest queued |
| `every_run_reported` | "Every run is reportable, including partial, cancelled, and failed runs." (`v3/README.md:96`) | a crash between the last `finish_stage` and the finalizer leaves a finished run nobody closes |
| `discovery_keeps_review` | "Never let passive observation silently weaken or strengthen human review." (`exposure_management.py:112`) | rediscovery turns a verification in the graph back into an older exclusion |
| `overlapping_scans` | "scan dispatch now rejects overlapping active runs for the same assessment" (`v3/BACKEND_10_10_CHECKLIST.md:188`) | `queue_due_monitors` and `start_scan` look for an active scan under the locks of different rows; both find none and both queue one |

### Bounds

Two stages suffice for what the code distinguishes about stages: the preflight and
one behind it, before and after. Two runners give one that lost a row and one that
took it; requests read nothing of each other, so one at a time against the pool shows
their races. One crash reaches every point of a runner's program. In the inventory,
a host that is the root of one assessment and below the root of the other is where
the two vocabularies meet. In the outbox three attempts instead of five keep a first,
a middle and a last one; two stalls let two late senders meet one row. Two scans are
enough for admission (a pair) and for a history in which one scan saw a finding and
the other did not. The theorems of section 4 do not depend on any of these.

`web_platform` and `evaluator_intake` start from several small instances instead of one
large one (`MCInstances`): contention for the slot, admission at its limit, a cancellation or a
second delivery next to a lost worker, a slot that goes under its worker, an operation from
planning to its stop, a recovered report, a lost renderer, a scan too old for the backfill, a
cancelled report; registration to disabling, four uploads of two packages, a disabled adapter,
imported semantic runs, three renderings, a migrated dataset. Each gives its
race what it needs and nothing else, so that all of them fit in one run of about 400,000
states. What two such faults of different instances do together is covered by the theorems
for `SlotLimit`, `QueueLimit`, `TerminalForGood`, `ReportShowsSuccess` and all of
`EvaluatorIntake`, and not by the liveness properties.

Deadlock checking is off in `delivery_outbox`, `web_platform` and `evaluator_intake`, which
end when every event has settled or nobody asks for anything any more.

### What the properties except

Where the web application loses a race or an error, the property names the scans concerned
instead of leaving the fault out of the model, so that it says of all others what the code
guarantees:

| property | exception | what the code does then |
|---|---|---|
| `SlotLimit` | `unslotted` | a scan without its slot executes next to the one that took it |
| `TerminalForGood` | scans that are not `Over`: a worker holds them that met them alive | a slow worker writes its outcome over the reconciler's `failed`, a worker that waited for a slot writes `queued` or `running` over a cancellation |
| `TerminalForGood` | `Rewritten` by a requested recovery, or by a redelivered task that had read the success | `failed` or `cancelled` becomes a success |
| `AcceptedScanEnds` | `revoked` or `dropped`, and scans without a task | the scan stays queued: `reconcile_stale_scans` selects running scans only |
| `ReportShowsSuccess` | `overtaken` | the report shows an older outcome |
| `ReportSettles` | `outside` | the report is never repaired |
| `RestsOnApproval` | `Migrated` | creator and approver are the same user |

### Fairness

Weak fairness of a runner's own program (`Work`, `Deliver`): `asyncio.timeout` bounds
an adapter, the webhook request has a timeout, the supervisor restarts a process that
died. Weak fairness of time: leases expire, deadlines pass, rows become due. No
request, heartbeat, crash, or decision of a person is assumed to happen.

`WebPlatform` assumes as much of the web application: workers, renderers and requests that
are not lost go on; the beat comes every five minutes; clocks advance. Strong fairness is
used twice: the broker serves its queues, so a task that is offered again and again is
taken or, if revoked, discarded (`Receive`, `Discard`), and a scanner's loop ends however often it reports
progress, because the execution has a timeout. A request that fails to submit its task, or
a rendering that fails, is never assumed to do so or not to.

## 4. What is proved

All theorems hold for every value of the constants under the assumptions named in the
modules (`PlanAssumption`, `InventoryAssumption`, `OutboxAssumption`,
`ProgramAssumption`, `ScanAssumption`, `ReportAssumption`, `EvaluatorAssumption`), which
say no more than the types of the constants, that a plan is not empty, that a root is not
below itself, that scans to be dispatched have a row, and that datasets are no clients.

**StageRunnerProofs.** `TypeCorrect`, `StagesAreSerial`, `OneFinalizer`, `ClosedScans`,
`Reports`, `MonitorRuns`, `Coverage`, `Refinement`. The safety properties are not inductive: the
finalizer decides from rows it read some statements ago. The argument is
`StagesStayClosed`: no step, not even the unguarded `finish_stage` of a late runner or
the re-queueing of recovery, takes a stage out of a terminal status. Hence what the
finalizer saw still holds when it writes (`Closing`), and `IInv` adds to the types what
a process carries between two statements (`LocalsOK`). The refinement maps open stages,
a closed scan and an existing report to `ScanContract`, step by step.

**AssetInventoryProofs.** `TypeCorrect`, `ScansAreCleared`, `VerificationIsHuman`,
`ExclusionLasts`. `IInv` adds that every row a handler would scan was cleared
(`RowsAreCleared`) and that a created assessment's root was (`RootsAreCleared`).
`UpsertTyped`, `UpsertVerified` and `UpsertExcluded` say what merging can do; the rest
rests on them.

**DeliveryOutboxProofs.** `TypeCorrect`, `Delivered`, `GivenUp`, `Retries`. `IInv` adds that a
sender that thinks it succeeded did (`SentWasAccepted`) and that a sender's attempt
number never exceeds the row's (`AttemptsCounted`): this is why a late failure cannot
give an event up early.

`Retries` (`RetriesBounded`) needs an account of its own, `RetryInv`. A row is claimed past
`MaxAttempts` only if the claim that should have been the last crashed, or was overtaken while
it stalled, or if a sender overtaken earlier, whose own number is below `MaxAttempts`, fails late
and makes the row pending again. So every claim in excess, every overtaken sender that may still
do this (`LateAttempts`, a finite set of attempt numbers because each is held by one sender,
`OwnAttempt`) and the next claim if the row is already due for one (`Prepaid`) is charged to a
different crash or stall (`Paid`).

**ExposureProgramProofs.** `TypeCorrect`, `Admission`, `Resolution`, `MonitorDispatch`,
`DecisionsLast`. `IInv` adds that a runner between its look and its insert still finds
its monitor active and no other monitor scan (`DispatchReady`) and that announced
completions belong to scans that were queued (`CompletedWasQueued`).

**WebPlatformProofs.** `TypeCorrect`, `Slots`, `Queue`, `Endings`, `Successes`. `IInv` adds that whatever
names a scan (a task, a request, a recovery, a reading of the reconciler) names one with a
row (`Rows`), what a worker knows at each point of its program (`TaskOK`), and that whoever
executes is a member of the sorted set or lost its slot (`SlotsOK`, from which `SlotLimit`
follows by comparing finite sets). `QueueLimit` is inductive because only admission adds a
scan without heartbeat. `Endings` needs no more invariant than that: the worker's steps are
checked against `Spectator`, what a worker with the task of an ended scan may be doing. Its second
half, who may turn a failure into a success, follows from a list of all steps that write a
success to a row (`SuccessWrites`) and which of them can meet a scan that is over (`Rewriters`).
Lemmas about kinds of steps (`LocalStep`, `LeaveStep`, `OutsideStep`, `OverWorker`) carry
the more than fifty actions.

`Successes` (`ReportShowsSuccess`) rests on `TracedInv`: as long as a report is not overtaken,
whatever a renderer carries or the row stores (`Holds`) was read for the outcome the scope names,
and shows the success of the scan's row unless somebody stands right before queueing the report
for it (`Reporter`). Steps of the scan lifecycle record a success only together with such a
reporter (`RecordedByWorker`, `RecordedOutside`); queueing removes what was rendered
(`TracedEnqueue`), and a caller that finds nothing to do had no other success to report
(`TracedSkip`). Looking for this invariant showed that an earlier, stronger form of the property
held only within the run's budget: with a slow worker, a reconciled scan and a lost worker
together, the report keeps the older outcome. That case, and the write-back of the scope, are
among those `overtaken` names now.

**EvaluatorIntakeProofs.** `TypeCorrect`, `PackagesOnce`, `Provenance`, `Approval`, `Hold`,
`Disabling`, `Reports`, `Refinement`. `IInv` adds what a request under way may rely on: what it looked up was
approved, and is so or disabled still (`Vouched`); the package it locked has no submission
and no other holder; the run it imports is completed and the review it read is the run's.
For the refinement of `ReleaseLedger` three lemmas say which steps move the ledger's variables:
governance touches one entry and takes no approval back (`RegistryStep`), a judge's answer is
final (`GradeStep`), a result is appended (`AppendStep`). That it is a new one follows from the
numbers of the finitely many earlier ones (`Numbered`), and that it is justified from the
invariant after the step.

**Only model-checked.** The liveness properties `StagesClose`, `ClosedScanIsReported`,
`EveryEventSettles`, `NothingRunsForEver`, `AcceptedScanEnds` and `ReportSettles`: fairness and
ENABLED are beyond the prover. Every invariant, action property and refinement that a passing
run checks is a theorem. The five expected violations are counterexamples and need no proof.

## 5. Not modelled

The map covers the code in which processes share state, which is a small part of the
repository's lines. The rest has no behaviour a model of states and steps would say
something about:

- scoring (`evaluation.py`, `semantic_evaluator.py`, `risk_engine.py`), the MCP checks
  (`mcp_security.py`, 2,300 lines of probes and rules) and the parsers of scanner output:
  functions of text to floating-point numbers and findings, without a reference to check
  them against;
- report text and layout (most of `reporting.py`, `evaluator_reporting.py`,
  `scan_document_report.py`), HTML, front ends, seed data, deployment;
- the client runner (`v3/client-runner`) and the shell scanner: sequential programs around
  network tools;
- query endpoints, and the many that update one row of one user (sessions, API keys,
  integrations, investigations, notifications);
- authentication, roles and signatures: decided per request from the request.

Left out of the modelled components: in the web application the Kubernetes executor and the
local thread fallback, the deletion of assessments and reports, schedules as rows, reports
a user orders, MCP jobs and action approval; in v3 the content of evidence and artifacts
and the append-only audit events. `workflow.py` is a table no runtime code reads.

Some facts are visible in the models without a run of their own. These contradict a text of the
repository:

| the text | what the code does |
|---|---|
| "Every planned stage reaches a terminal status." (`v3/README.md:95`) | a cancellation that meets a running stage is only recorded (`main.py:3068`); when the adapter does not look at it, the later stages stay queued and `claim_stage` refuses them |
| "Fail orphaned queued/running scans whose workers stopped heartbeating." (docstring, `webapp/backend/app/services/assessment_runtime.py:428`) | only running scans are selected: a scan whose request died before it submitted the task, whose task was revoked by a cancellation that then got lost, or whose task failed outside the `try` stays queued and counts against the queue limit |
| limits are "enforced at dispatch and through expiring distributed execution leases" (`webapp/docs/OPERATIONS.md:57`), "Distributed leases prevent duplicate concurrent ownership." (`webapp/docs/SCAN_LIFECYCLE.md:46`) | a lease runs out under a living worker (`celery_app.py:1082`, `tenant_scheduling.py:33`), expires with its key (`tenant_scheduling.py:39`) or is released by a second delivery, which the Lua script lets in as a member |
| "Terminal scans cannot be silently rewritten as successful." (`webapp/docs/SCAN_LIFECYCLE.md:42`), "Never mark a stale scan completed manually." (`webapp/docs/RUNBOOKS.md:19`) | a slow worker writes `completed` over the reconciler's `failed`; a recovered ingestion completes a failed or cancelled scan; a redelivered task writes an older success back |
| "Cancellation sets durable intent" (`webapp/docs/SCAN_LIFECYCLE.md:39`) | `cancel_requested` is lost to any write of older metadata: a worker's progress, the end of the dispatching request, a report that is queued or rendered |
| production requires "independent dataset approval" (`v3/AI_EVALUATOR.md:140`) | the workspace migration inserts datasets approved by their creator (`migrations.py:440-458`), which evaluations may use afterwards |

No text says anything about the others: an
older scan finalized late may resolve a finding that a newer one saw; a recovery's delayed
coverage write may leave a succeeded stage's cases as planned or timed out; a scan cancelled
before its worker enters the execution leaves its assessment running; a report of a scan beyond the
backfill's window is not repaired; a failing
renderer can overwrite the cancellation of its report; a semantic run whose request
dies stays running; retention deletes reports that the backfill renders again; two first renderings of an
evaluation may leave a file and a digest that never match.

## 6. Plan

Done: orchestrator, inventory, outbox, exposure program, the web application's scan
lifecycle with its reports, the evaluator's governance and intake, in that order.

Every safety property of a passing run is proved. What is left:

1. An abstract scan life cycle that `WebPlatform` implements, as `ScanContract` is for the
   orchestrator and `ReleaseLedger` for the evaluator.
2. The safety halves of the liveness arguments (what a state in which nothing more can happen
   looks like), as theorems next to the runs.
