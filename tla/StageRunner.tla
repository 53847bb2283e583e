------------------------------ MODULE StageRunner ------------------------------
(***************************************************************************)
(* The v3 assessment orchestrator: a pool of runner processes             *)
(* (v3/backend/app/runner.py) and the API handlers that touch a scan      *)
(* (v3/backend/app/main.py) sharing one PostgreSQL database.  The module  *)
(* follows ONE scan and its planned stages; runners meet other scans only *)
(* by being busy, which the interleaving already allows.                  *)
(*                                                                         *)
(* One action is one database transaction (or one autocommitted           *)
(* statement), because that is where another process can step in.  A      *)
(* runner's position between two of them is its pc, and the values it     *)
(* carries across them are held, todo, verdict and ret, reset when dead.  *)
(*                                                                         *)
(* Time is abstracted to what the statements compare with now(): a lease  *)
(* is live or expired, a started stage is before or past its persisted    *)
(* deadline.  Leases may expire under a runner that is still alive (its   *)
(* heartbeat can be late); lease_owner and attempt are written by the     *)
(* code but read by no statement, and are left out.                       *)
(***************************************************************************)
EXTENDS Naturals, FiniteSets

CONSTANTS
  N,           \* number of planned stages of the scan
  Required,    \* positions of the stages the plan marks required
  Runners,     \* runner processes
  Requests,    \* HTTP requests (cancel, regenerate) that may arrive
  NoRunner,    \* holder of the free advisory lock
  MaxCrashes   \* bound on runner crashes

Position == 0 .. (N - 1)

\* compile_plan numbers the stages from 0 and every profile starts with
\* scope_preflight.
ScopePreflight == 0

\* A runner that holds no stage row.
NoStage == N

ASSUME PlanAssumption ==
  /\ N \in Nat \ {0}
  /\ Required \subseteq Position
  /\ NoRunner \notin Runners
  /\ MaxCrashes \in Nat

TERMINAL_STAGE_STATUSES ==
  {"succeeded", "failed", "timed_out", "skipped", "blocked", "cancelled"}

StageStatus == TERMINAL_STAGE_STATUSES \cup {"queued", "running"}

TerminalScan == {"complete", "partial", "failed", "cancelled"}

ScanStatus == TerminalScan \cup {"queued", "running"}

CoverageStatus ==
  {"planned", "running", "completed", "failed", "timed_out", "blocked",
   "cancelled"}

\* Mutation: the scan's status is published untranslated.
UntranslatedStatus(s) == s

\* REPORT_TERMINAL_STATUSES of reporting.py, on the statuses a scan takes.
report_status_for_scan(s) == IF s = "complete" THEN "final" ELSE s

ReportStatus == {"none", "final", "partial", "failed", "cancelled"}

\* Where a runner stands: the loop of main, run_stage, and the statements of
\* finalize_if_terminal.
Finalizing ==
  {"scan", "assessment", "assets", "render", "rescan", "reassessment",
   "reassets", "persist"}
Locked == Finalizing \cup {"read", "unlock"}
Loop == {"recover", "closing", "requeuing"}
RunnerPc ==
  {"down", "startup", "check", "executing", "cancelPending", "finalize"}
    \cup Loop \cup Locked

RequestPc == {"new", "cancelReport", "regenerate", "done"}

VARIABLES
  stage,       \* stage_runs.status by position
  lease,       \* stage_runs.lease_expires_at against now()
  deadline,    \* stage_runs.started_at + timeout_seconds against now()
  coverage,    \* scan_coverage.status of the cases of each stage
  scan,        \* scans.status
  cancelReq,   \* scans.cancel_requested_at IS NOT NULL
  assessment,  \* assessments.status
  asset,       \* assessment_assets.assessment_status of the scanned asset
  report,      \* reports.status, "none" while there is no row
  monitorRun,  \* exposure_monitor_runs.status, "none" for a manual scan
  finLock,     \* holder of the scan's advisory lock
  pc,          \* runner positions
  held,        \* the stage row a runner claimed
  todo,        \* rows RETURNING'd to a runner's recovery loop
  verdict,     \* the finalizer's local scan_status
  ret,         \* where finalize_if_terminal returns to
  reqPc,       \* request positions
  reqStatus,   \* the scan status a regenerate request read
  crashes

rows == <<stage, lease, deadline, coverage>>
results == <<scan, assessment, asset, report, monitorRun>>
locals == <<held, todo, verdict, ret>>
requests == <<reqPc, reqStatus>>
vars == <<rows, results, cancelReq, finLock, pc, locals, requests, crashes>>

TypeOK ==
  /\ stage \in [Position -> StageStatus]
  /\ lease \in [Position -> {"none", "live", "expired"}]
  /\ deadline \in [Position -> {"unset", "ahead", "past"}]
  /\ coverage \in [Position -> CoverageStatus]
  /\ scan \in ScanStatus
  /\ cancelReq \in BOOLEAN
  /\ assessment \in ScanStatus
  /\ asset \in {"none", "queued", "assessed", "blocked"}
  /\ report \in ReportStatus
  /\ monitorRun \in {"none", "queued", "started", "completed", "failed"}
  /\ finLock \in Runners \cup {NoRunner}
  /\ pc \in [Runners -> RunnerPc]
  /\ held \in [Runners -> Position \cup {NoStage}]
  /\ todo \in [Runners -> SUBSET Position]
  /\ verdict \in [Runners -> TerminalScan \cup {"none"}]
  /\ ret \in [Runners -> {"recover", "closing"}]
  /\ reqPc \in [Requests -> RequestPc]
  /\ reqStatus \in [Requests -> TerminalScan \cup {"none"}]
  /\ crashes \in 0 .. MaxCrashes

Terminal(p) == stage[p] \in TERMINAL_STAGE_STATUSES
AllTerminal == \A p \in Position : Terminal(p)

\* A queued scan as _queue_assessment_scan or queue_due_monitors inserts it,
\* and runners about to be started.  A monitor's scan is linked to no asset.
Init ==
  /\ stage = [p \in Position |-> "queued"]
  /\ lease = [p \in Position |-> "none"]
  /\ deadline = [p \in Position |-> "unset"]
  /\ coverage = [p \in Position |-> "planned"]
  /\ scan = "queued"
  /\ cancelReq = FALSE
  /\ assessment = "queued"
  /\ report = "none"
  /\ \/ monitorRun = "none" /\ asset = "queued"
     \/ monitorRun = "queued" /\ asset = "none"
  /\ finLock = NoRunner
  /\ pc = [r \in Runners |-> "down"]
  /\ held = [r \in Runners |-> NoStage]
  /\ todo = [r \in Runners |-> {}]
  /\ verdict = [r \in Runners |-> "none"]
  /\ ret = [r \in Runners |-> "recover"]
  /\ reqPc = [q \in Requests |-> "new"]
  /\ reqStatus = [q \in Requests |-> "none"]
  /\ crashes = 0

Goto(r, from, to) ==
  /\ pc[r] = from
  /\ pc' = [pc EXCEPT ![r] = to]

--------------------------------------------------------------------------------
(***************************************************************************)
(* Process life: main() connects, recovers missing reports and loops; a    *)
(* crash (or an exception no handler catches) drops the locals and, with   *)
(* the connection, the advisory lock.                                      *)
(***************************************************************************)
Start(r) ==
  /\ Goto(r, "down", "startup")
  /\ UNCHANGED <<rows, results, cancelReq, finLock, locals, requests, crashes>>

\* Mutation: startup recovery left out.
SkipRecovery(r) ==
  /\ Goto(r, "startup", "recover")
  /\ UNCHANGED <<rows, results, cancelReq, finLock, locals, requests, crashes>>

\* recover_missing_reports: finalize again a closed scan that has no report.
recover_missing_reports(r) ==
  /\ \/ /\ report = "none" /\ scan \in TerminalScan /\ AllTerminal
        /\ Goto(r, "startup", "finalize")
     \/ /\ ~(report = "none" /\ scan \in TerminalScan /\ AllTerminal)
        /\ Goto(r, "startup", "recover")
  /\ ret' = [ret EXCEPT ![r] = "recover"]
  /\ UNCHANGED <<rows, results, cancelReq, finLock, held, todo, verdict,
                 requests, crashes>>

Crash(r) ==
  /\ pc[r] # "down"
  /\ crashes < MaxCrashes
  /\ crashes' = crashes + 1
  /\ pc' = [pc EXCEPT ![r] = "down"]
  /\ finLock' = IF finLock = r THEN NoRunner ELSE finLock
  /\ todo' = [todo EXCEPT ![r] = {}]
  /\ held' = [held EXCEPT ![r] = NoStage]
  /\ verdict' = [verdict EXCEPT ![r] = "none"]
  /\ ret' = [ret EXCEPT ![r] = "recover"]
  /\ UNCHANGED <<rows, results, cancelReq, requests>>

--------------------------------------------------------------------------------
(***************************************************************************)
(* Time.  A lease is read only while its stage is running, a deadline only *)
(* while it is not closed, so time matters only then.                      *)
(***************************************************************************)
LeaseExpires(p) ==
  /\ stage[p] = "running"
  /\ lease[p] = "live"
  /\ lease' = [lease EXCEPT ![p] = "expired"]
  /\ UNCHANGED <<stage, deadline, coverage, results, cancelReq, finLock, pc,
                 locals, requests, crashes>>

DeadlinePasses(p) ==
  /\ ~Terminal(p)
  /\ deadline[p] = "ahead"
  /\ deadline' = [deadline EXCEPT ![p] = "past"]
  /\ UNCHANGED <<stage, lease, coverage, results, cancelReq, finLock, pc,
                 locals, requests, crashes>>

--------------------------------------------------------------------------------
(***************************************************************************)
(* recover_expired_leases: close overdue stages, finalize each, re-queue    *)
(* stages whose lease expired.                                             *)
(***************************************************************************)
Overdue(p) == stage[p] = "running" /\ deadline[p] = "past"

\* Mutation: a stage that timed out is queued again, as if its runner were lost.
LeaseLostOrTimedOut(p) ==
  stage[p] \in {"running", "timed_out"} /\ lease[p] # "live"

LeaseLost(p) == stage[p] = "running" /\ lease[p] = "expired"

CloseOverdue(r) ==
  LET late == {p \in Position : Overdue(p)} IN
  /\ Goto(r, "recover", "closing")
  /\ stage' = [p \in Position |-> IF p \in late THEN "timed_out" ELSE stage[p]]
  /\ lease' = [p \in Position |-> IF p \in late THEN "none" ELSE lease[p]]
  /\ todo' = [todo EXCEPT ![r] = late]
  /\ UNCHANGED <<deadline, coverage, results, cancelReq, finLock, held, verdict,
                 ret, requests, crashes>>

\* The loop over the closed rows: coverage first, then finalize_if_terminal.
CloseRow(r, p) ==
  /\ Goto(r, "closing", "finalize")
  /\ p \in todo[r]
  /\ coverage' = [coverage EXCEPT ![p] = "timed_out"]
  /\ todo' = [todo EXCEPT ![r] = @ \ {p}]
  /\ ret' = [ret EXCEPT ![r] = "closing"]
  /\ UNCHANGED <<stage, lease, deadline, results, cancelReq, finLock, held,
                 verdict, requests, crashes>>

RequeueExpired(r) ==
  LET lost == {p \in Position : LeaseLost(p)} IN
  /\ Goto(r, "closing", "requeuing")
  /\ todo[r] = {}
  /\ stage' = [p \in Position |-> IF p \in lost THEN "queued" ELSE stage[p]]
  /\ lease' = [p \in Position |-> IF p \in lost THEN "none" ELSE lease[p]]
  /\ todo' = [todo EXCEPT ![r] = lost]
  /\ UNCHANGED <<deadline, coverage, results, cancelReq, finLock, held, verdict,
                 ret, requests, crashes>>

RequeueRow(r, p) ==
  /\ pc[r] = "requeuing"
  /\ p \in todo[r]
  /\ coverage' = [coverage EXCEPT ![p] = "planned"]
  /\ todo' = [todo EXCEPT ![r] = @ \ {p}]
  /\ UNCHANGED <<stage, lease, deadline, results, cancelReq, finLock, pc, held,
                 verdict, ret, requests, crashes>>

--------------------------------------------------------------------------------
(***************************************************************************)
(* claim_stage and run_stage.                                              *)
(***************************************************************************)
\* Mutation: the NOT EXISTS on earlier stages is dropped.
ClaimableInAnyOrder(p) ==
  stage[p] = "queued" /\ ~cancelReq

\* Mutation: only success, not any terminal status, lets the next stage start.
ClaimableAfterSuccess(p) ==
  /\ stage[p] = "queued"
  /\ ~cancelReq
  /\ \A prior \in Position : prior < p => stage[prior] = "succeeded"

Claimable(p) ==
  /\ stage[p] = "queued"
  /\ ~cancelReq
  /\ \A prior \in Position : prior < p => Terminal(prior)

claim_stage(r, p) ==
  /\ Goto(r, "requeuing", "check")
  /\ todo[r] = {}
  /\ Claimable(p)
  /\ stage' = [stage EXCEPT ![p] = "running"]
  /\ lease' = [lease EXCEPT ![p] = "live"]
  /\ deadline' = [deadline EXCEPT ![p] = IF @ = "unset" THEN "ahead" ELSE @]
  /\ coverage' = [coverage EXCEPT ![p] = "running"]
  /\ scan' = "running"
  /\ assessment' = "running"
  /\ monitorRun' = IF monitorRun = "queued" THEN "started" ELSE monitorRun
  /\ held' = [held EXCEPT ![r] = p]
  /\ UNCHANGED <<asset, report, cancelReq, finLock, todo, verdict, ret, requests,
                 crashes>>

\* Nothing to claim: sleep for runner_poll_seconds and loop.
Poll(r) ==
  /\ Goto(r, "requeuing", "recover")
  /\ todo[r] = {}
  /\ \A p \in Position : ~Claimable(p)
  /\ UNCHANGED <<rows, results, cancelReq, finLock, locals, requests, crashes>>

\* The cancellation check before the adapter runs; the other branch is
\* finish_stage with "cancelled".
BeginExecution(r) ==
  /\ Goto(r, "check", "executing")
  /\ ~cancelReq
  /\ UNCHANGED <<rows, results, cancelReq, finLock, locals, requests, crashes>>

heartbeat_stage(r) ==
  /\ pc[r] \in {"check", "executing"}
  /\ stage[held[r]] = "running"
  /\ deadline[held[r]] # "past"
  /\ lease' = [lease EXCEPT ![held[r]] = "live"]
  /\ UNCHANGED <<stage, deadline, coverage, results, cancelReq, finLock, pc,
                 locals, requests, crashes>>

\* The renewal inside run_command, whose WHERE names only the row.
ToolHeartbeat(r) ==
  /\ pc[r] = "executing"
  /\ lease' = [lease EXCEPT ![held[r]] = "live"]
  /\ UNCHANGED <<stage, deadline, coverage, results, cancelReq, finLock, pc,
                 locals, requests, crashes>>

blocks_downstream(p, status) == p = ScopePreflight /\ status # "succeeded"

\* The queued stages that go down with stage p.
_block_downstream(p, status) ==
  {d \in Position : blocks_downstream(p, status) /\ d > p /\ stage[d] = "queued"}

\* A tool ends, fails or runs into its deadline; run_command may also see the
\* operator's cancellation, other adapters never look.
ToolOutcome(status) ==
  \/ status \in {"succeeded", "failed", "timed_out"}
  \/ cancelReq /\ status = "cancelled"

\* The outcomes run_stage can pass to finish_stage.
Outcome(r, status) ==
  \/ pc[r] = "check" /\ cancelReq /\ status = "cancelled"
  \/ pc[r] = "executing" /\ ToolOutcome(status)

\* Mutation: a late runner no longer rewrites a stage it has lost, but still
\* writes its coverage.
FinishOwnStage(r, status) ==
  LET p == held[r] IN
  /\ Outcome(r, status)
  /\ stage' = [stage EXCEPT ![p] = IF @ = "running" THEN status ELSE @]
  /\ coverage' = [coverage EXCEPT ![p] = IF status = "succeeded" THEN "completed"
                                                               ELSE status]
  /\ lease' = [lease EXCEPT ![p] = "none"]
  /\ pc' = [pc EXCEPT ![r] = "finalize"]
  /\ held' = [held EXCEPT ![r] = NoStage]
  /\ ret' = [ret EXCEPT ![r] = "recover"]
  /\ UNCHANGED <<deadline, results, cancelReq, finLock, todo, verdict, requests,
                 crashes>>

\* finish_stage, with _block_downstream in the same transaction.
finish_stage(r, status) ==
  LET p == held[r]
      blocked == _block_downstream(p, status)
  IN
  /\ Outcome(r, status)
  /\ stage' = [d \in Position |-> IF d = p THEN status
                                  ELSE IF d \in blocked THEN "blocked"
                                  ELSE stage[d]]
  /\ coverage' = [d \in Position |->
                    IF d = p THEN IF status = "succeeded" THEN "completed"
                                  ELSE status
                    ELSE IF d \in blocked THEN "blocked" ELSE coverage[d]]
  /\ lease' = [lease EXCEPT ![p] = "none"]
  /\ pc' = [pc EXCEPT ![r] = IF status = "cancelled" THEN "cancelPending"
                                                     ELSE "finalize"]
  /\ held' = [held EXCEPT ![r] = IF status = "cancelled" THEN @ ELSE NoStage]
  /\ ret' = [ret EXCEPT ![r] = "recover"]
  /\ UNCHANGED <<deadline, results, cancelReq, finLock, todo, verdict, requests,
                 crashes>>

_cancel_pending_stages(r) ==
  LET pending == {d \in Position : d > held[r] /\ stage[d] = "queued"} IN
  /\ Goto(r, "cancelPending", "finalize")
  /\ stage' = [d \in Position |-> IF d \in pending THEN "cancelled" ELSE stage[d]]
  /\ coverage' = [d \in Position |-> IF d \in pending THEN "cancelled"
                                                      ELSE coverage[d]]
  /\ held' = [held EXCEPT ![r] = NoStage]
  /\ UNCHANGED <<lease, deadline, results, cancelReq, finLock, todo, verdict, ret,
                 requests, crashes>>

--------------------------------------------------------------------------------
(***************************************************************************)
(* finalize_if_terminal: try the advisory lock, read the stages, write the *)
(* scan, the assessment and its assets in statements of their own, render, *)
(* persist, unlock.                                                        *)
(***************************************************************************)
\* Mutation: the result of pg_try_advisory_lock is ignored.
FinalizeUnlocked(r) ==
  /\ Goto(r, "finalize", "read")
  /\ finLock' = r
  /\ UNCHANGED <<rows, results, cancelReq, locals, requests, crashes>>

TryFinalize(r) ==
  /\ \/ /\ finLock = NoRunner
        /\ Goto(r, "finalize", "read")
        /\ finLock' = r
        /\ ret' = ret
     \/ /\ finLock # NoRunner
        /\ Goto(r, "finalize", ret[r])
        /\ finLock' = finLock
        /\ ret' = [ret EXCEPT ![r] = "recover"]
  /\ UNCHANGED <<rows, results, cancelReq, held, todo, verdict, requests, crashes>>

ScanVerdict ==
  LET required_failure == \E p \in Required : stage[p] # "succeeded"
      nothing_succeeded == \A p \in Position : stage[p] # "succeeded"
  IN  IF \E p \in Position : stage[p] = "cancelled" THEN "cancelled"
      ELSE IF required_failure /\ nothing_succeeded THEN "failed"
      ELSE IF required_failure THEN "partial"
      ELSE "complete"

ReadStages(r) ==
  /\ \/ /\ AllTerminal
        /\ Goto(r, "read", "scan")
        /\ verdict' = [verdict EXCEPT ![r] = ScanVerdict]
     \/ /\ ~AllTerminal
        /\ Goto(r, "read", "unlock")
        /\ verdict' = verdict
  /\ UNCHANGED <<rows, results, cancelReq, finLock, held, todo, ret, requests,
                 crashes>>

\* Mutation: the finalizer does not write scans.status.
SkipScan(r) ==
  /\ Goto(r, "scan", "assessment") \/ Goto(r, "rescan", "reassessment")
  /\ UNCHANGED <<rows, results, cancelReq, finLock, locals, requests, crashes>>

WriteScan(r) ==
  /\ Goto(r, "scan", "assessment") \/ Goto(r, "rescan", "reassessment")
  /\ scan' = verdict[r]
  /\ UNCHANGED <<rows, assessment, asset, report, monitorRun, cancelReq, finLock,
                 locals, requests, crashes>>

WriteAssessment(r) ==
  /\ Goto(r, "assessment", "assets") \/ Goto(r, "reassessment", "reassets")
  /\ assessment' = verdict[r]
  /\ UNCHANGED <<rows, scan, asset, report, monitorRun, cancelReq, finLock,
                 locals, requests, crashes>>

WriteAssets(r) ==
  /\ Goto(r, "assets", "render") \/ Goto(r, "reassets", "persist")
  /\ asset' = IF asset = "none" THEN "none"
              ELSE IF verdict[r] \in {"complete", "partial"} THEN "assessed"
              ELSE "blocked"
  /\ UNCHANGED <<rows, scan, assessment, report, monitorRun, cancelReq, finLock,
                 locals, requests, crashes>>

\* generate_scan_reports succeeds, or raises and the run becomes partial.
RenderSucceeds(r) ==
  /\ Goto(r, "render", "persist")
  /\ verdict' = verdict

RenderFails(r) ==
  /\ Goto(r, "render", "rescan")
  /\ verdict' = [verdict EXCEPT ![r] = "partial"]

Render(r) ==
  /\ RenderSucceeds(r) \/ RenderFails(r)
  /\ UNCHANGED <<rows, results, cancelReq, finLock, held, todo, ret, requests,
                 crashes>>

\* Mutation: the monitor run is settled without the report's upsert.
SettleOnly(r) ==
  /\ Goto(r, "persist", "unlock")
  /\ monitorRun' = IF monitorRun \in {"queued", "started"} THEN "failed"
                                                           ELSE monitorRun
  /\ verdict' = [verdict EXCEPT ![r] = "none"]
  /\ UNCHANGED <<rows, scan, assessment, asset, report, cancelReq, finLock, held,
                 todo, ret, requests, crashes>>

PersistReport(r) ==
  /\ Goto(r, "persist", "unlock")
  /\ report' = report_status_for_scan(verdict[r])
  /\ monitorRun' = IF monitorRun \in {"queued", "started"}
                   THEN IF verdict[r] = "complete" THEN "completed" ELSE "failed"
                   ELSE monitorRun
  /\ verdict' = [verdict EXCEPT ![r] = "none"]
  /\ UNCHANGED <<rows, scan, assessment, asset, cancelReq, finLock, held, todo,
                 ret, requests, crashes>>

Unlock(r) ==
  /\ Goto(r, "unlock", ret[r])
  /\ finLock' = NoRunner
  /\ ret' = [ret EXCEPT ![r] = "recover"]
  /\ UNCHANGED <<rows, results, cancelReq, held, todo, verdict, requests, crashes>>

--------------------------------------------------------------------------------
(***************************************************************************)
(* API handlers.  A request that is refused (409) changes nothing.         *)
(***************************************************************************)
ReqGoto(q, from, to) ==
  /\ reqPc[q] = from
  /\ reqPc' = [reqPc EXCEPT ![q] = to]

\* Mutation: cancel_scan does not look for a running stage.
AssumeIdle == TRUE

\* running_stage is None in cancel_scan.
NoRunningStage == \A p \in Position : stage[p] # "running"

\* cancel_scan while a stage runs: only the request is recorded.
RequestCancellation(q) ==
  /\ ReqGoto(q, "new", "done")
  /\ scan \notin TerminalScan
  /\ ~NoRunningStage
  /\ cancelReq' = TRUE
  /\ UNCHANGED <<rows, results, finLock, pc, locals, reqStatus, crashes>>

\* cancel_scan with no running stage: the scan is closed here.
CancelScan(q) ==
  /\ ReqGoto(q, "new", "cancelReport")
  /\ scan \notin TerminalScan
  /\ NoRunningStage
  /\ stage' = [p \in Position |-> IF stage[p] = "queued" THEN "cancelled"
                                                         ELSE stage[p]]
  /\ coverage' = [p \in Position |-> IF stage[p] = "queued" THEN "cancelled"
                                                            ELSE coverage[p]]
  /\ cancelReq' = TRUE
  /\ scan' = "cancelled"
  /\ assessment' = "cancelled"
  /\ asset' = IF asset = "none" THEN "none" ELSE "blocked"
  /\ UNCHANGED <<lease, deadline, report, monitorRun, finLock, pc, locals,
                 reqStatus, crashes>>

\* The report of a cancelled scan, written after that transaction; rendering
\* may raise.
CancelReport(q) ==
  /\ ReqGoto(q, "cancelReport", "done")
  /\ report' \in {report, report_status_for_scan("cancelled")}
  /\ UNCHANGED <<rows, scan, assessment, asset, monitorRun, cancelReq, finLock,
                 pc, locals, reqStatus, crashes>>

\* regenerate_report reads the status, renders, then upserts.
RegenerateRead(q) ==
  /\ ReqGoto(q, "new", "regenerate")
  /\ scan \in TerminalScan
  /\ reqStatus' = [reqStatus EXCEPT ![q] = scan]
  /\ UNCHANGED <<rows, results, cancelReq, finLock, pc, locals, crashes>>

RegenerateWrite(q) ==
  /\ ReqGoto(q, "regenerate", "done")
  /\ report' \in {report, report_status_for_scan(reqStatus[q])}
  /\ reqStatus' = [reqStatus EXCEPT ![q] = "none"]
  /\ UNCHANGED <<rows, scan, assessment, asset, monitorRun, cancelReq, finLock,
                 pc, locals, crashes>>

--------------------------------------------------------------------------------
\* What a runner's own program does next.
Work(r) ==
  \/ Start(r)
  \/ recover_missing_reports(r)
  \/ CloseOverdue(r)
  \/ RequeueExpired(r)
  \/ \E p \in Position : CloseRow(r, p) \/ RequeueRow(r, p) \/ claim_stage(r, p)
  \/ Poll(r)
  \/ BeginExecution(r)
  \/ \E status \in TERMINAL_STAGE_STATUSES : finish_stage(r, status)
  \/ _cancel_pending_stages(r)
  \/ TryFinalize(r)
  \/ ReadStages(r)
  \/ WriteScan(r)
  \/ WriteAssessment(r)
  \/ WriteAssets(r)
  \/ Render(r)
  \/ PersistReport(r)
  \/ Unlock(r)

Api(q) ==
  \/ RequestCancellation(q)
  \/ CancelScan(q)
  \/ CancelReport(q)
  \/ RegenerateRead(q)
  \/ RegenerateWrite(q)

Next ==
  \/ \E r \in Runners : \/ Work(r) \/ heartbeat_stage(r) \/ ToolHeartbeat(r)
                        \/ Crash(r)
  \/ \E p \in Position : LeaseExpires(p) \/ DeadlinePasses(p)
  \/ \E q \in Requests : Api(q)

Spec == Init /\ [][Next]_vars

\* A runner's program is never suspended for ever (asyncio.timeout bounds the
\* adapter, the supervisor restarts the process) and time passes.
Fairness ==
  /\ \A r \in Runners : WF_vars(Work(r))
  /\ \A p \in Position : WF_vars(DeadlinePasses(p)) /\ WF_vars(LeaseExpires(p))

FairSpec == Spec /\ Fairness
--------------------------------------------------------------------------------
(***************************************************************************)
(* Properties.                                                             *)
(***************************************************************************)

\* The stages of a scan run one at a time and in plan order: while a stage is
\* running every earlier one is closed, whatever leases expire, runners crash
\* or late runners finish (claim_stage's NOT EXISTS against the re-queueing of
\* recover_expired_leases and the unguarded UPDATE of finish_stage).
SerialStages ==
  \A p \in Position : stage[p] = "running" =>
    \A prior \in Position : prior < p => Terminal(prior)

\* Only the runner holding pg_try_advisory_lock is between the lock and the
\* unlock of finalize_if_terminal, also after a crash released it.
FinalizerExclusive ==
  \A r \in Runners : pc[r] \in Locked <=> finLock = r

\* A scan is closed (by the finalizer or by cancel_scan) only when no stage of
\* it is queued or running: no work is left behind a closed scan.
ClosedScanHasNoOpenStage ==
  scan \in TerminalScan => AllTerminal

\* A report row exists only for a closed scan: neither the finalizer, nor
\* cancel_scan, nor regenerate_report publishes one for a run still going on.
ReportOnlyForClosedScan ==
  report # "none" => scan \in TerminalScan

\* A monitor run is settled only together with the report of its scan.
MonitorRunSettledWithReport ==
  monitorRun \in {"completed", "failed"} => report # "none"

\* Coverage is never overstated: a case counts as tested only while its stage
\* stands as succeeded, whichever late runner, recovery loop or cancellation wrote
\* the two rows last (recover_expired_leases writes them in separate statements,
\* finish_stage without a look at either).
CoverageNotOverstated ==
  \A p \in Position : coverage[p] = "completed" => stage[p] = "succeeded"

\* The orchestrator implements ScanContract: a stage is open until its status is
\* terminal, the scan closed when its status is, reported when the row exists.
Contract ==
  INSTANCE ScanContract WITH
    Planned <- Position,
    open <- {p \in Position : ~Terminal(p)},
    closed <- scan \in TerminalScan,
    reported <- report # "none"

\* Runners, recovery, cancellation and regeneration together keep that contract:
\* no stage or scan is ever reopened and no report comes before the closing.
ImplementsContract == Contract!Spec

\* ARCHITECTURE.md's completion gate: a scan is complete only when all required
\* stages succeeded.
CompletionGate ==
  scan = "complete" => \A p \in Required : stage[p] = "succeeded"

\* ASSESSMENT_FLOW.md's execution barrier: once scope_preflight is closed
\* without success no later stage is still queued.
PreflightBarrier ==
  stage[ScopePreflight] \in TERMINAL_STAGE_STATUSES \ {"succeeded"} =>
    \A p \in Position \ {ScopePreflight} : stage[p] # "queued"

\* With no operator in the way, every planned stage is eventually closed, in
\* spite of crashes and lost leases: the deadline is persisted, so re-queueing
\* cannot go on for ever.
StagesClose ==
  <>(AllTerminal \/ cancelReq)

\* A finalizer that crashed after writing the scan's status is made good: the
\* restarted runner's recover_missing_reports publishes the report.
ClosedScanIsReported ==
  (scan \in TerminalScan) ~> (report # "none")

\* README.md's product boundary: every run is reportable.  A run whose stages are
\* all closed eventually has its report.
EveryRunIsReported ==
  AllTerminal ~> (report # "none")
================================================================================
