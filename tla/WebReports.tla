------------------------------- MODULE WebReports -------------------------------
(***************************************************************************)
(* The automatic report of a scan (services/report_jobs.py): a row per     *)
(* scan and format with a stable id, queued when the scan ends, rendered   *)
(* by generate_report_task on the reports queue, repaired by the backfill  *)
(* of the maintenance beat.  The three formats are handled alike and one   *)
(* after the other; one is modelled.                                       *)
(*                                                                         *)
(* A report's content is the scan status it was rendered from.  The        *)
(* report's row is read and committed in one step when it is queued: its   *)
(* primary key makes a second insert fail, and a second requeue has to     *)
(* wait for the 15 minutes.  The scan's row is read before, and its        *)
(* metadata, cancel_requested among it, written back as it was read.       *)
(***************************************************************************)
EXTENDS WebScan

CONSTANTS
  Renderers,    \* processes of the reports queue
  MaxAttempts,  \* AUTOMATIC_REPORT_MAX_ATTEMPTS, 3 in the code
  MaxRetries    \* max_retries of generate_report_task, 2 in the code

ASSUME ReportAssumption ==
  MaxAttempts \in Nat \ {0} /\ MaxRetries \in Nat

VARIABLES
  report,      \* report_artifacts.status, None before the insert
  attempt,     \* scope.generation_attempt
  wanted,      \* scope.terminal_status
  aged,        \* scope.queued_at is more than 15 minutes ago
  content,     \* the scan status the stored content shows
  jobs,        \* messages of the reports queue per scan and retry
  renderer,    \* where a renderer stands in materialize_report
  rendered,    \* what it read: scan, retry, report status, scope, scan status
               \* and cancel_requested
  backfill,    \* where the backfill stands, and for which scan
  backfilled,
  scope,       \* the generation_attempt a process that queues holds to write
               \* it again with the task's id
  loaded,      \* the cancel_requested it read with the scan, "plain" or
               \* "cancel", None before
  outside,     \* ended scans the backfill does not reach
  retracting,  \* the scan whose report a cancel_report has read, 0 for none
  overtaken    \* history: scans whose report, since it was queued, was written
               \* by an older renderer or queueing, or rendered from a row that
               \* showed something else, or whose row took a success that
               \* nobody queues a report for

artifact == <<report, attempt, wanted, aged, content>>
queueing == <<backfill, backfilled, scope, loaded>>
reportVars == <<artifact, jobs, renderer, rendered, queueing, outside,
                retracting, overtaken>>

Outcome == Terminal \cup {"recovered", "historical"}

\* The outcomes an earlier report is replaced for, and the status they leave.
Success == {"completed", "partial", "recovered"}

Shown(t) == IF t = "recovered" THEN "completed" ELSE t

Retry == 0 .. MaxRetries

\* The processes that queue reports.
Queuer == ({"worker"} \X Workers) \cup {<<"recovery", 0>>, <<"backfill", 0>>}

NoRender ==
  [scan |-> 0, retry |-> 0, report |-> None, attempt |-> 0, wanted |-> None,
   content |-> None, cancel |-> FALSE]

Render ==
  [scan : Scan \cup {0}, retry : Retry, report : {None, "generating", "failed"},
   attempt : Nat, wanted : Outcome \cup {None}, content : Status \cup {None},
   cancel : BOOLEAN]

ReportTypeOK ==
  /\ report \in [Scan -> {None, "generating", "ready", "failed", "cancelled"}]
  /\ attempt \in [Scan -> Nat]
  /\ wanted \in [Scan -> Outcome \cup {None}]
  /\ aged \in [Scan -> BOOLEAN]
  /\ content \in [Scan -> Status \cup {None}]
  /\ jobs \in [Scan \X Retry -> Nat]
  /\ renderer \in [Renderers -> {"idle", "render"}]
  /\ rendered \in [Renderers -> Render]
  /\ backfill \in {"idle", "report", "publish"}
  /\ backfilled \in Scan \cup {0}
  /\ scope \in [Queuer -> Nat]
  /\ loaded \in [Queuer -> {None, "plain", "cancel"}]
  /\ outside \subseteq Scan
  /\ retracting \in Scan \cup {0}
  /\ overtaken \subseteq Scan

ReportInit ==
  /\ report = [s \in Scan |-> None]
  /\ attempt = [s \in Scan |-> 0]
  /\ wanted = [s \in Scan |-> None]
  /\ aged = [s \in Scan |-> FALSE]
  /\ content = [s \in Scan |-> None]
  /\ jobs = [m \in Scan \X Retry |-> 0]
  /\ renderer = [k \in Renderers |-> "idle"]
  /\ rendered = [k \in Renderers |-> NoRender]
  /\ backfill = "idle" /\ backfilled = 0
  /\ scope = [c \in Queuer |-> 0]
  /\ loaded = [c \in Queuer |-> None]
  /\ outside = {}
  /\ retracting = 0
  /\ overtaken = {}
--------------------------------------------------------------------------------
(***************************************************************************)
(* Queueing.                                                               *)
(***************************************************************************)

\* Mutant: a report that is being generated is left alone for ever.
NeedsQueueUnlessGenerating(s) ==
  report[s] = None \/ (attempt[s] < MaxAttempts /\ report[s] = "failed")

\* The report is missing or safe to try again.
_automatic_report_needs_queue(s) ==
  \/ report[s] = None
  \/ /\ attempt[s] < MaxAttempts
     /\ \/ report[s] = "failed"
        \/ report[s] = "generating" /\ aged[s]

\* Mutant: an existing report is never refreshed.
NeverRefresh(s, t) == FALSE

\* An earlier snapshot is replaced when the scan ends differently.
_terminal_report_needs_refresh(s, t) ==
  /\ report[s] # None
  /\ t \in Success
  /\ wanted[s] # t

NeedsReport(s, t) ==
  _terminal_report_needs_refresh(s, t) \/ _automatic_report_needs_queue(s)

\* The scan is loaded for a report that is needed.
LoadScan(s, t, c) ==
  /\ loaded[c] = None
  /\ NeedsReport(s, t)
  /\ loaded' = [loaded EXCEPT ![c] = IF cancelFlag[s] THEN "cancel" ELSE "plain"]
  /\ UNCHANGED <<artifact, jobs, renderer, rendered, scope, outside, retracting,
                 overtaken, cancelFlag>>

\* The row is created or reset and the scan's metadata written with it.
_enqueue_automatic_scan_report_format(s, t, c) ==
  /\ loaded[c] # None
  /\ NeedsReport(s, t)
  /\ report' = [report EXCEPT ![s] = "generating"]
  /\ attempt' = [attempt EXCEPT ![s] = @ + 1]
  /\ wanted' = [wanted EXCEPT ![s] = t]
  /\ aged' = [aged EXCEPT ![s] = FALSE]
  /\ content' = [content EXCEPT ![s] = None]
  /\ cancelFlag' = [cancelFlag EXCEPT ![s] = loaded[c] = "cancel"]
  /\ scope' = [scope EXCEPT ![c] = attempt[s] + 1]
  /\ loaded' = [loaded EXCEPT ![c] = None]
  /\ overtaken' = IF \E k \in Renderers : rendered[k].scan = s
                  THEN overtaken \cup {s} ELSE overtaken \ {s}
  /\ UNCHANGED <<jobs, renderer, rendered, outside, retracting>>

\* Nothing to do, or the database failed: the caller goes on without a report.
SkipReport(c) ==
  /\ loaded' = [loaded EXCEPT ![c] = None]
  /\ UNCHANGED <<artifact, jobs, renderer, rendered, scope, outside, retracting,
                 overtaken, cancelFlag>>

\* The row does not show the outcome that the report was queued for.
Misses(s, t) == t \in Success /\ status[s] # Shown(t)

SendJob(s) ==
  /\ jobs' = [jobs EXCEPT ![<<s, 0>>] = @ + 1]
  /\ UNCHANGED <<report, content>>

\* The broker is unreachable: the report is rendered where it was queued, the
\* scan's row read and written in one step.
RenderInline(s) ==
  /\ \/ /\ report[s] \in {"generating", "failed"}
        /\ \/ /\ report' = [report EXCEPT ![s] = "ready"]
              /\ content' = [content EXCEPT ![s] = status[s]]
           \/ /\ report' = [report EXCEPT ![s] = "failed"]
              /\ UNCHANGED content
     \/ /\ report[s] \notin {"generating", "failed"}
        /\ UNCHANGED <<report, content>>
  /\ UNCHANGED jobs

\* The message, or the report itself; the scope is written again as it was
\* computed, whoever has queued the report anew since.
PublishReport(s, t, c) ==
  /\ \/ /\ SendJob(s)
        /\ overtaken' = IF wanted[s] = t THEN overtaken ELSE overtaken \cup {s}
     \/ /\ RenderInline(s)
        /\ overtaken' = IF wanted[s] = t /\ ~Misses(s, t) THEN overtaken
                        ELSE overtaken \cup {s}
  /\ attempt' = [attempt EXCEPT ![s] = scope[c]]
  /\ wanted' = [wanted EXCEPT ![s] = t]
  /\ scope' = [scope EXCEPT ![c] = 0]
  /\ UNCHANGED <<aged, renderer, rendered, loaded, outside, retracting, cancelFlag>>
--------------------------------------------------------------------------------
(***************************************************************************)
(* Rendering: generate_report_task and materialize_report.                 *)
(***************************************************************************)

\* A job finds its report ready or cancelled and returns, or loads report, scan
\* and findings.
LoadReport(k) ==
  /\ renderer[k] = "idle"
  /\ \E s \in Scan, r \in Retry :
       /\ jobs[<<s, r>>] > 0
       /\ jobs' = [jobs EXCEPT ![<<s, r>>] = @ - 1]
       /\ \/ /\ report[s] \in {None, "ready", "cancelled"}
             /\ UNCHANGED <<renderer, rendered, overtaken>>
          \/ /\ report[s] \in {"generating", "failed"}
             /\ renderer' = [renderer EXCEPT ![k] = "render"]
             /\ rendered' = [rendered EXCEPT ![k] =
                  [scan |-> s, retry |-> r, report |-> report[s],
                   attempt |-> attempt[s], wanted |-> wanted[s],
                   content |-> status[s], cancel |-> cancelFlag[s]]]
             /\ overtaken' = IF Misses(s, wanted[s]) THEN overtaken \cup {s}
                             ELSE overtaken
  /\ UNCHANGED <<artifact, queueing, outside, retracting, cancelFlag>>

EndRender(k) ==
  /\ renderer' = [renderer EXCEPT ![k] = "idle"]
  /\ rendered' = [rendered EXCEPT ![k] = NoRender]

\* The content is stored, unless the report was cancelled meanwhile, and the
\* scan's metadata as it was loaded.
StoreReport(k) ==
  /\ renderer[k] = "render"
  /\ LET s == rendered[k].scan IN
       \/ /\ report[s] = "cancelled"
          /\ UNCHANGED <<report, content, cancelFlag>>
       \/ /\ report[s] # "cancelled"
          /\ report' = [report EXCEPT ![s] = "ready"]
          /\ content' = [content EXCEPT ![s] = rendered[k].content]
          /\ cancelFlag' = [cancelFlag EXCEPT ![s] = rendered[k].cancel]
  /\ EndRender(k)
  /\ UNCHANGED <<attempt, wanted, aged, jobs, queueing, outside, retracting,
                 overtaken>>

\* Rendering raises: the status, the scope and the scan's metadata are written as
\* they were loaded, without another look (where a failed report fails in the same
\* way again, the metadata does not change and is not written); the task is
\* retried.
FailReport(k) ==
  /\ renderer[k] = "render"
  /\ LET r == rendered[k] IN
       /\ report' = IF r.report = "failed" THEN report
                    ELSE [report EXCEPT ![r.scan] = "failed"]
       /\ attempt' = [attempt EXCEPT ![r.scan] = r.attempt]
       /\ wanted' = [wanted EXCEPT ![r.scan] = r.wanted]
       /\ \/ cancelFlag' = [cancelFlag EXCEPT ![r.scan] = r.cancel]
          \/ r.report = "failed" /\ UNCHANGED cancelFlag
       /\ jobs' = IF r.retry = MaxRetries THEN jobs
                  ELSE [jobs EXCEPT ![<<r.scan, r.retry + 1>>] = @ + 1]
  /\ EndRender(k)
  /\ UNCHANGED <<aged, content, queueing, outside, retracting, overtaken>>

\* The renderer is lost and its job goes back to the broker.
RendererCrash(k) ==
  /\ renderer[k] = "render"
  /\ jobs' = [jobs EXCEPT ![<<rendered[k].scan, rendered[k].retry>>] = @ + 1]
  /\ EndRender(k)
  /\ UNCHANGED <<artifact, queueing, outside, retracting, overtaken>>

Rendering(k) == LoadReport(k) \/ StoreReport(k)

\* cancel_report reads a generating report ...
cancel_report(s) ==
  /\ retracting = 0
  /\ report[s] = "generating"
  /\ retracting' = s
  /\ UNCHANGED <<artifact, jobs, renderer, rendered, queueing, outside,
                 overtaken>>

\* ... and commits; the task it revokes would find the report cancelled anyway.
CommitRetract ==
  /\ retracting # 0
  /\ report' = [report EXCEPT ![retracting] = "cancelled"]
  /\ retracting' = 0
  /\ UNCHANGED <<attempt, wanted, aged, content, jobs, renderer, rendered,
                 queueing, outside, overtaken>>

\* A queued report grows old.
ReportAges(s) ==
  /\ report[s] = "generating"
  /\ ~aged[s]
  /\ aged' = [aged EXCEPT ![s] = TRUE]
  /\ UNCHANGED <<report, attempt, wanted, content, jobs, renderer, rendered,
                 queueing, outside, retracting, overtaken>>

\* An ended scan is no longer within the backfill's reach: fifty scans of all
\* tenants have ended after it, or ten newer ones without report fill every beat.
LeavesWindow(s) ==
  /\ status[s] \in Terminal
  /\ s \notin outside
  /\ outside' = outside \cup {s}
  /\ UNCHANGED <<artifact, jobs, renderer, rendered, queueing, retracting,
                 overtaken>>

\* The backfill's side of queueing a report.
BackfillStep(from, to) ==
  /\ backfill = from
  /\ backfill' = to
  /\ backfilled' = IF to = "idle" THEN 0 ELSE backfilled

\* The maintenance beat looks among the scans that ended last for those without
\* a usable report.
backfill_missing_scan_reports(s) ==
  /\ backfill = "idle"
  /\ status[s] \in Terminal /\ s \notin outside
  /\ _automatic_report_needs_queue(s)
  /\ backfill' = "report" /\ backfilled' = s
  /\ UNCHANGED <<artifact, jobs, renderer, rendered, scope, loaded, outside,
                 retracting, overtaken>>
================================================================================
