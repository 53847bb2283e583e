------------------------------- MODULE WebPlatform -------------------------------
(***************************************************************************)
(* The web application's control plane: the scan lifecycle of WebScan and  *)
(* the report jobs of WebReports, joined where a scan that ended, a        *)
(* recovered ingestion or the backfill queues a report.                    *)
(***************************************************************************)
EXTENDS WebReports

vars == <<scanVars, reportVars>>

Init == ScanInit /\ ReportInit

\* Queueing one report by the process c: the scan is loaded, the row committed,
\* then the message sent.  When that fails, or there is nothing to do, the caller
\* goes on; a spent budget counts as a failure.
QueueReport(s, t, c, Step(_, _), end) ==
  \/ /\ Step("report", "report")
     /\ left["report"] > 0
     /\ LoadScan(s, t, c) /\ UNCHANGED bounds
  \/ /\ Step("report", "publish")
     /\ Spend("report")
     /\ _enqueue_automatic_scan_report_format(s, t, c)
  \/ /\ Step("report", end)
     /\ NeedsReport(s, t) => left["report"] = 0
     /\ SkipReport(c) /\ UNCHANGED bounds
  \/ /\ Step("publish", end)
     /\ PublishReport(s, t, c) /\ UNCHANGED bounds

_queue_terminal_document_report(w) ==
  LET Step(from, to) == ReportStep(w, from, to) IN
  /\ QueueReport(job[w], out[w], <<"worker", w>>, Step, "ack")
  /\ UNCHANGED <<backfill, backfilled>>

QueueRecovered ==
  /\ QueueReport(recovered, "recovered", <<"recovery", 0>>, RecoveryStep, "idle")
  /\ UNCHANGED <<backfill, backfilled>>

\* What report jobs leave alone of the scan lifecycle.
lifecycle == <<fixed, assessment, operation, broker, redis, worker, request, upkeep>>

QueueHistorical ==
  /\ QueueReport(backfilled, "historical", <<"backfill", 0>>, BackfillStep, "idle")
  /\ UNCHANGED lifecycle

RendererLost(k) ==
  /\ RendererCrash(k)
  /\ Spend("outage")
  /\ UNCHANGED <<lifecycle, cancelFlag>>

RetractReport(s) ==
  /\ cancel_report(s)
  /\ Spend("retract")
  /\ UNCHANGED <<lifecycle, cancelFlag>>

NewerScansEnd(s) ==
  /\ LeavesWindow(s)
  /\ Spend("newer")
  /\ UNCHANGED <<lifecycle, cancelFlag>>

\* A renderer touches the scan's metadata only.
Renders(A) == A /\ UNCHANGED <<bounds, lifecycle>>

ReportNext ==
  \/ \E w \in Workers : _queue_terminal_document_report(w)
  \/ QueueRecovered
  \/ QueueHistorical
  \/ \E k \in Renderers :
       \/ Renders(Rendering(k))
       \/ Renders(FailReport(k))
       \/ RendererLost(k)
  \/ CommitRetract /\ UNCHANGED scanVars
  \/ \E s \in Scan :
       \/ RetractReport(s)
       \/ NewerScansEnd(s)
       \/ ReportAges(s) /\ UNCHANGED scanVars
       \/ /\ left["report"] > 0
          /\ backfill_missing_scan_reports(s)
          /\ UNCHANGED scanVars

\* A report is left behind by its row's success: the worker was lost before it
\* queued another, or a redelivered task wrote back an outcome it had read.
Unreported(s) ==
  /\ report[s] # None
  /\ \E w \in Workers :
       /\ job[w] = s /\ out[w] \in Success
       /\ \/ pc[w] = "report" /\ pc'[w] = "idle"
          \/ pc[w] = "write" /\ pc'[w] = "claim" /\ out[w] # status[s]

\* The row gets a new completed_at, which puts it in front of the backfill again.
\* Neither a recovery nor a redelivered task that writes a status back sets it.
Dated(s) ==
  /\ status'[s] \in Terminal /\ status'[s] # status[s]
  /\ recovery' = recovery
  /\ \A w \in Workers : ~(pc[w] = "write" /\ pc'[w] = "claim")

\* A step of the scan lifecycle leaves the reports alone; what a lost process had
\* loaded is gone.
NoReport ==
  /\ overtaken' = overtaken \cup {s \in Scan : Unreported(s)}
  /\ outside' = outside \ {s \in Scan : Dated(s)}
  /\ loaded' = [c \in Queuer |->
       IF \E w \in Workers : c = <<"worker", w>> /\ pc'[w] = "idle" THEN None
       ELSE loaded[c]]
  /\ UNCHANGED <<artifact, jobs, renderer, rendered, backfill, backfilled, scope,
                 retracting>>

Next == (ScanNext /\ NoReport) \/ ReportNext

Spec == Init /\ [][Next]_vars
--------------------------------------------------------------------------------
(***************************************************************************)
(* Fairness.  Workers, renderers and requests that are not lost go on; the *)
(* scan timeout ends the scanner's loop however often it reports progress; *)
(* the broker's queues are served in turn; the beat comes every 5 minutes  *)
(* and clocks advance.  Nobody has to ask for anything, and nothing has to *)
(* fail.                                                                   *)
(***************************************************************************)

Quietly(A) == A /\ NoReport

Silently(A) == A /\ UNCHANGED scanVars

Fairness ==
  /\ \A w \in Workers :
       /\ WF_vars(Quietly(Execute(w)) \/ _queue_terminal_document_report(w))
       /\ SF_vars(Quietly(ScannerExits(w) \/ StopScanner(w)))
  /\ \A q \in Requests : WF_vars(Quietly(SubmitTask(q) \/ RecordTask(q)))
  /\ \A s \in Scan :
       /\ SF_vars(Quietly(Discard(s) \/ \E w \in Workers : Receive(w, s)))
       /\ WF_vars(Quietly(HeartbeatAges(s) \/ SlotLapses(s)) \/ Silently(ReportAges(s)))
  /\ WF_vars(Quietly(CommitIntent))
  /\ WF_vars(Quietly(RecoveryFails \/ RecoveryCompletes) \/ QueueRecovered)
  /\ WF_vars(\/ Quietly(reconcile_stale_scans \/ CommitReconcile)
             \/ Silently(\E s \in Scan : backfill_missing_scan_reports(s))
             \/ QueueHistorical)
  /\ WF_vars(Silently(CommitRetract))
  /\ \A k \in Renderers : WF_vars(Renders(Rendering(k)))

FairSpec == Spec /\ Fairness
--------------------------------------------------------------------------------
(***************************************************************************)
(* Properties.                                                             *)
(***************************************************************************)

\* Every variable of the scan lifecycle and of the report jobs has its type.
TypeOK == ScanTypeOK /\ ReportTypeOK

\* At most policy.active scans of the tenant execute at any time, those aside
\* that hold no slot any more: their ttl ran out, the key expired with another
\* task's ttl, or a second delivery released it (unslotted).  In those cases the
\* limit can be exceeded; through crashes, retries and redeliveries the Lua script
\* counts every other execution, and a scan it admits again counts again.
SlotLimit ==
  Cardinality({s \in Scan : \E w \in Workers : Executes(w, s)} \ unslotted)
    <= policy.active

\* Scans waiting for a first worker never exceed the tenant's queue limit,
\* however many requests passed their checks at the same time.
QueueLimit ==
  Cardinality({s \in Scan : status[s] = "queued" /\ heartbeat[s] = None})
    <= policy.queued

\* The scan has ended and no worker holds it that met it alive: whoever has its
\* task has read a terminal status, will claim it from one, or records that it was
\* cancelled.
Over(s) ==
  /\ status[s] \in Terminal
  /\ \A w \in Workers : job[w] = s =>
       \/ pc[w] \in {"entry", "read", "claim", "report", "publish", "ack"}
       \/ pc[w] = "slot" /\ seen[w] \in Terminal
       \/ pc[w] = "write" /\ then[w] = "claim" /\ out[w] \in Terminal
       \/ pc[w] = "write" /\ then[w] = "report" /\ out[w] = "cancelled"

\* A scan that failed or was cancelled becomes a success.
Rewritten(s) ==
  status[s] \in {"failed", "cancelled"} /\ status'[s] \in {"completed", "partial"}

\* Once over, a scan is over for good: no redelivered task, late cancellation,
\* reconciliation or recovery makes it active again, and it becomes a success only
\* by a recovery somebody asked for, or by a redelivered task that read the success
\* before a late reconciliation replaced it and writes it back.  A scan that a
\* slow worker still holds is not over: that worker may write its own outcome over
\* a failure the reconciler recorded.
TerminalForGood ==
  [][\A s \in Scan : Over(s) =>
       /\ Over(s)'
       /\ Rewritten(s) =>
            \/ recovery = "ingest" /\ recovery' = "report" /\ recovered = s
            \/ \E w \in Workers :
                 /\ job[w] = s /\ pc[w] = "write" /\ then[w] = "claim"
                 /\ out[w] = status'[s]]_vars

\* A report shows the success its scan's row shows, once whoever recorded it has
\* had its turn to queue a report: a report rendered for an earlier outcome is
\* replaced when the scan is closed again, by whichever worker, or recovered.
\* Not so where row and report were written past each other: overtaken.
ReportShowsSuccess ==
  \A s \in Scan :
    /\ report[s] = "ready" /\ status[s] \in {"completed", "partial"}
    /\ \A w \in Workers : job[w] = s => pc[w] # "report"
    /\ ~(recovery = "report" /\ recovered = s)
    /\ s \notin overtaken
    /\ left["report"] > 0
    => content[s] = status[s]

\* No scan is shown as running for ever: its worker ends it, or the reconciler.
NothingRunsForEver ==
  <>[](\A s \in Scan : status[s] # "running")

\* A scan with a task ends and stays so, through lost workers, full slots and
\* redeliveries.  Left behind as queued are only scans whose task was revoked or
\* ended in an error outside the execution's try: the reconciler does not look at
\* queued scans.
AcceptedScanEnds ==
  <>[](\A s \in Scan : taskId[s] =>
         \/ status[s] \in Terminal
         \/ status[s] = "queued" /\ s \in revoked \cup dropped)

\* A scan that ended has a report that is ready, failed or cancelled, or has
\* used up its attempts, unless it is too old for the backfill to reach it.
ReportSettles ==
  <>[](\A s \in Scan : status[s] \in Terminal =>
         \/ report[s] \in {"ready", "failed", "cancelled"}
         \/ attempt[s] >= MaxAttempts
         \/ s \in outside
         \/ left["report"] = 0)
================================================================================
