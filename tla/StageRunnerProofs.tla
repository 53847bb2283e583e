--------------------------- MODULE StageRunnerProofs ---------------------------
(***************************************************************************)
(* Proofs about StageRunner, for any number of stages, runners, requests   *)
(* and crashes.                                                            *)
(*                                                                         *)
(* The inductive invariant is IInv.  Typed adds to the type invariant what *)
(* a runner or a request carries between two transactions.  The heart is   *)
(* StagesStayClosed: no step takes a stage out of a terminal status.  From *)
(* it follows that what the finalizer or cancel_scan saw when it decided   *)
(* to close the scan still holds when it writes (Closing).                 *)
(***************************************************************************)
EXTENDS StageRunner, TLAPS

USE PlanAssumption

\* What a runner or a request carries between two of its transactions.
LocalsOK ==
  /\ \A r \in Runners :
       /\ pc[r] \in {"check", "executing", "cancelPending"} => held[r] \in Position
       /\ pc[r] \in Finalizing => verdict[r] \in TerminalScan
  /\ \A q \in Requests : reqPc[q] = "regenerate" => reqStatus[q] \in TerminalScan

Typed == TypeOK /\ LocalsOK

\* What is known of the scan at each point of the finalizer and of a request.
Closing ==
  /\ \A r \in Runners :
       /\ pc[r] \in Finalizing => AllTerminal
       /\ pc[r] \in Finalizing \ {"scan"} => scan \in TerminalScan
  /\ \A q \in Requests :
       reqPc[q] \in {"cancelReport", "regenerate"} => scan \in TerminalScan
  /\ ClosedScanHasNoOpenStage
  /\ ReportOnlyForClosedScan
  /\ MonitorRunSettledWithReport

IInv ==
  Typed /\ SerialStages /\ FinalizerExclusive /\ Closing /\ CoverageNotOverstated

--------------------------------------------------------------------------------
\* The initial state is well typed.
LEMMA TypedInit == Init => Typed
<1> SUFFICES ASSUME Init PROVE Typed
  OBVIOUS
<1>1. /\ stage \in [Position -> StageStatus]
      /\ lease \in [Position -> {"none", "live", "expired"}]
      /\ deadline \in [Position -> {"unset", "ahead", "past"}]
      /\ coverage \in [Position -> CoverageStatus]
  BY DEF Init, StageStatus, CoverageStatus
<1>2. /\ scan \in ScanStatus
      /\ cancelReq \in BOOLEAN
      /\ assessment \in ScanStatus
      /\ asset \in {"none", "queued", "assessed", "blocked"}
      /\ report \in ReportStatus
      /\ monitorRun \in {"none", "queued", "started", "completed", "failed"}
      /\ finLock \in Runners \cup {NoRunner}
  BY DEF Init, ScanStatus, ReportStatus
<1>3. /\ pc \in [Runners -> RunnerPc]
      /\ held \in [Runners -> Position \cup {NoStage}]
      /\ todo \in [Runners -> SUBSET Position]
      /\ verdict \in [Runners -> TerminalScan \cup {"none"}]
      /\ ret \in [Runners -> {"recover", "closing"}]
  BY DEF Init, RunnerPc
<1>4. /\ reqPc \in [Requests -> RequestPc]
      /\ reqStatus \in [Requests -> TerminalScan \cup {"none"}]
      /\ crashes \in 0 .. MaxCrashes
  BY DEF Init, RequestPc
<1>5. LocalsOK
  BY DEF Init, LocalsOK, Finalizing
<1> QED
  BY <1>1, <1>2, <1>3, <1>4, <1>5 DEF Typed, TypeOK

\* Every action keeps the types and the runners' locals meaningful.
LEMMA TypedStep == Typed /\ [Next]_vars => Typed'
<1> SUFFICES ASSUME Typed, [Next]_vars PROVE Typed'
  OBVIOUS
<1> USE DEF Typed, TypeOK, LocalsOK, StageStatus, TERMINAL_STAGE_STATUSES,
     CoverageStatus, ScanStatus, TerminalScan, ReportStatus, RunnerPc,
     Finalizing, Locked, Loop, RequestPc, Goto, ReqGoto, rows, results, locals,
     requests
<1>1. ASSUME NEW r \in Runners, Start(r)
      PROVE  Typed'
  BY <1>1 DEF Start
<1>2. ASSUME NEW r \in Runners, recover_missing_reports(r)
      PROVE  Typed'
  BY <1>2 DEF recover_missing_reports
<1>3. ASSUME NEW r \in Runners, CloseOverdue(r)
      PROVE  Typed'
  BY <1>3 DEF CloseOverdue
<1>4. ASSUME NEW r \in Runners, RequeueExpired(r)
      PROVE  Typed'
  BY <1>4 DEF RequeueExpired
<1>5. ASSUME NEW r \in Runners, NEW p \in Position, CloseRow(r, p)
      PROVE  Typed'
  BY <1>5 DEF CloseRow
<1>6. ASSUME NEW r \in Runners, NEW p \in Position, RequeueRow(r, p)
      PROVE  Typed'
  BY <1>6 DEF RequeueRow
<1>7. ASSUME NEW r \in Runners, NEW p \in Position, claim_stage(r, p)
      PROVE  Typed'
  BY <1>7 DEF claim_stage
<1>8. ASSUME NEW r \in Runners, Poll(r)
      PROVE  Typed'
  BY <1>8 DEF Poll
<1>9. ASSUME NEW r \in Runners, BeginExecution(r)
      PROVE  Typed'
  BY <1>9 DEF BeginExecution
<1>10. ASSUME NEW r \in Runners, NEW status \in TERMINAL_STAGE_STATUSES, finish_stage(r, status)
      PROVE  Typed'
  BY <1>10 DEF finish_stage, Outcome, ToolOutcome, _block_downstream
<1>11. ASSUME NEW r \in Runners, _cancel_pending_stages(r)
      PROVE  Typed'
  BY <1>11 DEF _cancel_pending_stages
<1>12. ASSUME NEW r \in Runners, TryFinalize(r)
      PROVE  Typed'
  BY <1>12 DEF TryFinalize
<1>13. ASSUME NEW r \in Runners, ReadStages(r)
      PROVE  Typed'
  BY <1>13 DEF ReadStages, ScanVerdict
<1>14. ASSUME NEW r \in Runners, WriteScan(r)
      PROVE  Typed'
  BY <1>14 DEF WriteScan
<1>15. ASSUME NEW r \in Runners, WriteAssessment(r)
      PROVE  Typed'
  BY <1>15 DEF WriteAssessment
<1>16. ASSUME NEW r \in Runners, WriteAssets(r)
      PROVE  Typed'
  BY <1>16 DEF WriteAssets
<1>17. ASSUME NEW r \in Runners, Render(r)
      PROVE  Typed'
  BY <1>17 DEF Render, RenderSucceeds, RenderFails
<1>18. ASSUME NEW r \in Runners, PersistReport(r)
      PROVE  Typed'
  BY <1>18 DEF PersistReport, report_status_for_scan
<1>19. ASSUME NEW r \in Runners, Unlock(r)
      PROVE  Typed'
  BY <1>19 DEF Unlock
<1>20. ASSUME NEW r \in Runners, heartbeat_stage(r)
      PROVE  Typed'
  BY <1>20 DEF heartbeat_stage
<1>21. ASSUME NEW r \in Runners, ToolHeartbeat(r)
      PROVE  Typed'
  BY <1>21 DEF ToolHeartbeat
<1>22. ASSUME NEW r \in Runners, Crash(r)
      PROVE  Typed'
  BY <1>22 DEF Crash
<1>23. ASSUME NEW p \in Position, LeaseExpires(p)
      PROVE  Typed'
  BY <1>23 DEF LeaseExpires
<1>24. ASSUME NEW p \in Position, DeadlinePasses(p)
      PROVE  Typed'
  BY <1>24 DEF DeadlinePasses
<1>25. ASSUME NEW q \in Requests, RequestCancellation(q)
      PROVE  Typed'
  BY <1>25 DEF RequestCancellation
<1>26. ASSUME NEW q \in Requests, CancelScan(q)
      PROVE  Typed'
  BY <1>26 DEF CancelScan, NoRunningStage
<1>27. ASSUME NEW q \in Requests, CancelReport(q)
      PROVE  Typed'
  BY <1>27 DEF CancelReport, report_status_for_scan
<1>28. ASSUME NEW q \in Requests, RegenerateRead(q)
      PROVE  Typed'
  BY <1>28 DEF RegenerateRead
<1>29. ASSUME NEW q \in Requests, RegenerateWrite(q)
      PROVE  Typed'
  BY <1>29 DEF RegenerateWrite, report_status_for_scan
<1>30. CASE UNCHANGED vars
  BY <1>30 DEF vars
<1> QED
  BY <1>1, <1>2, <1>3, <1>4, <1>5, <1>6, <1>7, <1>8, <1>9, <1>10, <1>11,
     <1>12, <1>13, <1>14, <1>15, <1>16, <1>17, <1>18, <1>19, <1>20, <1>21,
     <1>22, <1>23, <1>24, <1>25, <1>26, <1>27, <1>28, <1>29, <1>30 DEF Next,
     Work, Api

--------------------------------------------------------------------------------
\* The actions that do not write stage_runs.status.
LEMMA StageUnchanged ==
  ASSUME [Next]_vars,
         \A r \in Runners :
           /\ ~CloseOverdue(r) /\ ~RequeueExpired(r)
           /\ ~_cancel_pending_stages(r)
           /\ \A p \in Position : ~claim_stage(r, p)
           /\ \A status \in TERMINAL_STAGE_STATUSES : ~finish_stage(r, status),
         \A q \in Requests : ~CancelScan(q)
  PROVE  stage' = stage
  BY DEF Next, Work, Api, vars, rows, Start, recover_missing_reports, CloseRow,
     RequeueRow, Poll, BeginExecution, TryFinalize, ReadStages, WriteScan,
     WriteAssessment, WriteAssets, Render, RenderSucceeds, RenderFails,
     PersistReport, Unlock, heartbeat_stage, ToolHeartbeat, Crash, LeaseExpires,
     DeadlinePasses, RequestCancellation, CancelReport, RegenerateRead,
     RegenerateWrite

\* No step takes a stage out of a terminal status: lease recovery re-queues only
\* running stages, a claim takes a queued one, and the unguarded UPDATE of
\* finish_stage writes a terminal status.
LEMMA StagesStayClosed ==
  Typed /\ [Next]_vars => \A p \in Position : Terminal(p) => Terminal(p)'
<1> SUFFICES ASSUME Typed, [Next]_vars, NEW d \in Position, Terminal(d)
             PROVE  Terminal(d)'
  OBVIOUS
<1> USE DEF Typed, TypeOK, LocalsOK, Terminal, TERMINAL_STAGE_STATUSES
<1>1. ASSUME NEW r \in Runners, CloseOverdue(r)
      PROVE  Terminal(d)'
  BY <1>1 DEF CloseOverdue, Overdue
<1>2. ASSUME NEW r \in Runners, RequeueExpired(r)
      PROVE  Terminal(d)'
  BY <1>2 DEF RequeueExpired, LeaseLost
<1>3. ASSUME NEW r \in Runners, NEW p \in Position, claim_stage(r, p)
      PROVE  Terminal(d)'
  BY <1>3 DEF claim_stage, Claimable
<1>4. ASSUME NEW r \in Runners, NEW status \in TERMINAL_STAGE_STATUSES, finish_stage(r, status)
      PROVE  Terminal(d)'
  BY <1>4 DEF finish_stage, Outcome, ToolOutcome, _block_downstream
<1>5. ASSUME NEW r \in Runners, _cancel_pending_stages(r)
      PROVE  Terminal(d)'
  BY <1>5 DEF _cancel_pending_stages
<1>6. ASSUME NEW q \in Requests, CancelScan(q)
      PROVE  Terminal(d)'
  BY <1>6 DEF CancelScan, NoRunningStage
<1>7. CASE stage' = stage
  BY <1>7
<1> QED
  BY <1>1, <1>2, <1>3, <1>4, <1>5, <1>6, <1>7, StageUnchanged

COROLLARY AllStaysTerminal == Typed /\ [Next]_vars /\ AllTerminal => AllTerminal'
  BY StagesStayClosed DEF AllTerminal

\* Stages run one at a time and in plan order.
LEMMA SerialStep == Typed /\ SerialStages /\ [Next]_vars => SerialStages'
<1> SUFFICES ASSUME Typed, SerialStages, [Next]_vars,
                    NEW d \in Position, stage'[d] = "running",
                    NEW prior \in Position, prior < d
             PROVE  Terminal(prior)'
  BY DEF SerialStages
<1> USE DEF Typed, TypeOK, LocalsOK
<1>a. Terminal(prior) => Terminal(prior)'
  BY StagesStayClosed
<1>b. stage[d] = "running" => Terminal(prior)
  BY DEF SerialStages
<1>1. ASSUME NEW r \in Runners, CloseOverdue(r)
      PROVE  Terminal(prior)'
  BY <1>1, <1>a, <1>b DEF CloseOverdue
<1>2. ASSUME NEW r \in Runners, RequeueExpired(r)
      PROVE  Terminal(prior)'
  BY <1>2, <1>a, <1>b DEF RequeueExpired
<1>3. ASSUME NEW r \in Runners, NEW p \in Position, claim_stage(r, p)
      PROVE  Terminal(prior)'
  BY <1>3, <1>a, <1>b DEF claim_stage, Claimable
<1>4. ASSUME NEW r \in Runners, NEW status \in TERMINAL_STAGE_STATUSES, finish_stage(r, status)
      PROVE  Terminal(prior)'
  BY <1>4, <1>a, <1>b DEF finish_stage, Outcome, ToolOutcome, _block_downstream, TERMINAL_STAGE_STATUSES
<1>5. ASSUME NEW r \in Runners, _cancel_pending_stages(r)
      PROVE  Terminal(prior)'
  BY <1>5, <1>a, <1>b DEF _cancel_pending_stages
<1>6. ASSUME NEW q \in Requests, CancelScan(q)
      PROVE  Terminal(prior)'
  BY <1>6, <1>a, <1>b DEF CancelScan
<1>7. CASE stage' = stage
  BY <1>7, <1>a, <1>b
<1> QED
  BY <1>1, <1>2, <1>3, <1>4, <1>5, <1>6, <1>7, StageUnchanged

--------------------------------------------------------------------------------
\* The advisory lock and the finalizer's position move together.
LEMMA ExclusiveStep ==
  Typed /\ FinalizerExclusive /\ [Next]_vars => FinalizerExclusive'
<1> SUFFICES ASSUME Typed, FinalizerExclusive, [Next]_vars
             PROVE  FinalizerExclusive'
  OBVIOUS
<1> USE DEF Typed, TypeOK, FinalizerExclusive, Finalizing, Locked, Loop, RunnerPc,
     Goto
<1>1. ASSUME NEW r \in Runners, Start(r)
      PROVE  FinalizerExclusive'
  BY <1>1 DEF Start
<1>2. ASSUME NEW r \in Runners, recover_missing_reports(r)
      PROVE  FinalizerExclusive'
  BY <1>2 DEF recover_missing_reports
<1>3. ASSUME NEW r \in Runners, CloseOverdue(r)
      PROVE  FinalizerExclusive'
  BY <1>3 DEF CloseOverdue
<1>4. ASSUME NEW r \in Runners, RequeueExpired(r)
      PROVE  FinalizerExclusive'
  BY <1>4 DEF RequeueExpired
<1>5. ASSUME NEW r \in Runners, NEW p \in Position, CloseRow(r, p)
      PROVE  FinalizerExclusive'
  BY <1>5 DEF CloseRow
<1>6. ASSUME NEW r \in Runners, NEW p \in Position, RequeueRow(r, p)
      PROVE  FinalizerExclusive'
  BY <1>6 DEF RequeueRow
<1>7. ASSUME NEW r \in Runners, NEW p \in Position, claim_stage(r, p)
      PROVE  FinalizerExclusive'
  BY <1>7 DEF claim_stage
<1>8. ASSUME NEW r \in Runners, Poll(r)
      PROVE  FinalizerExclusive'
  BY <1>8 DEF Poll
<1>9. ASSUME NEW r \in Runners, BeginExecution(r)
      PROVE  FinalizerExclusive'
  BY <1>9 DEF BeginExecution
<1>10. ASSUME NEW r \in Runners, NEW status \in TERMINAL_STAGE_STATUSES, finish_stage(r, status)
      PROVE  FinalizerExclusive'
  BY <1>10 DEF finish_stage, Outcome, ToolOutcome, _block_downstream
<1>11. ASSUME NEW r \in Runners, _cancel_pending_stages(r)
      PROVE  FinalizerExclusive'
  BY <1>11 DEF _cancel_pending_stages
<1>12. ASSUME NEW r \in Runners, TryFinalize(r)
      PROVE  FinalizerExclusive'
  BY <1>12 DEF TryFinalize
<1>13. ASSUME NEW r \in Runners, ReadStages(r)
      PROVE  FinalizerExclusive'
  BY <1>13 DEF ReadStages, ScanVerdict
<1>14. ASSUME NEW r \in Runners, WriteScan(r)
      PROVE  FinalizerExclusive'
  BY <1>14 DEF WriteScan
<1>15. ASSUME NEW r \in Runners, WriteAssessment(r)
      PROVE  FinalizerExclusive'
  BY <1>15 DEF WriteAssessment
<1>16. ASSUME NEW r \in Runners, WriteAssets(r)
      PROVE  FinalizerExclusive'
  BY <1>16 DEF WriteAssets
<1>17. ASSUME NEW r \in Runners, Render(r)
      PROVE  FinalizerExclusive'
  BY <1>17 DEF Render, RenderSucceeds, RenderFails
<1>18. ASSUME NEW r \in Runners, PersistReport(r)
      PROVE  FinalizerExclusive'
  BY <1>18 DEF PersistReport, report_status_for_scan
<1>19. ASSUME NEW r \in Runners, Unlock(r)
      PROVE  FinalizerExclusive'
  BY <1>19 DEF Unlock
<1>20. ASSUME NEW r \in Runners, heartbeat_stage(r)
      PROVE  FinalizerExclusive'
  BY <1>20 DEF heartbeat_stage
<1>21. ASSUME NEW r \in Runners, ToolHeartbeat(r)
      PROVE  FinalizerExclusive'
  BY <1>21 DEF ToolHeartbeat
<1>22. ASSUME NEW r \in Runners, Crash(r)
      PROVE  FinalizerExclusive'
  BY <1>22 DEF Crash
<1>23. ASSUME NEW p \in Position, LeaseExpires(p)
      PROVE  FinalizerExclusive'
  BY <1>23 DEF LeaseExpires
<1>24. ASSUME NEW p \in Position, DeadlinePasses(p)
      PROVE  FinalizerExclusive'
  BY <1>24 DEF DeadlinePasses
<1>25. ASSUME NEW q \in Requests, RequestCancellation(q)
      PROVE  FinalizerExclusive'
  BY <1>25 DEF RequestCancellation
<1>26. ASSUME NEW q \in Requests, CancelScan(q)
      PROVE  FinalizerExclusive'
  BY <1>26 DEF CancelScan, NoRunningStage
<1>27. ASSUME NEW q \in Requests, CancelReport(q)
      PROVE  FinalizerExclusive'
  BY <1>27 DEF CancelReport, report_status_for_scan
<1>28. ASSUME NEW q \in Requests, RegenerateRead(q)
      PROVE  FinalizerExclusive'
  BY <1>28 DEF RegenerateRead
<1>29. ASSUME NEW q \in Requests, RegenerateWrite(q)
      PROVE  FinalizerExclusive'
  BY <1>29 DEF RegenerateWrite, report_status_for_scan
<1>30. CASE UNCHANGED vars
  BY <1>30 DEF vars
<1> QED
  BY <1>1, <1>2, <1>3, <1>4, <1>5, <1>6, <1>7, <1>8, <1>9, <1>10, <1>11,
     <1>12, <1>13, <1>14, <1>15, <1>16, <1>17, <1>18, <1>19, <1>20, <1>21,
     <1>22, <1>23, <1>24, <1>25, <1>26, <1>27, <1>28, <1>29, <1>30 DEF Next,
     Work, Api

--------------------------------------------------------------------------------
\* What was seen of the stages and of the scan still holds when it is acted on.
LEMMA ClosingStep == Typed /\ Closing /\ [Next]_vars => Closing'
<1> SUFFICES ASSUME Typed, Closing, [Next]_vars PROVE Closing'
  OBVIOUS
<1>a. AllTerminal => AllTerminal'
  BY AllStaysTerminal
<1>b. LocalsOK
  BY DEF Typed
<1> USE <1>a, <1>b DEF Typed, TypeOK, Closing, ClosedScanHasNoOpenStage,
     ReportOnlyForClosedScan, MonitorRunSettledWithReport, Finalizing, Locked, Loop,
     TerminalScan, Goto, ReqGoto, rows, results, locals, requests
<1>1. ASSUME NEW r \in Runners, Start(r)
      PROVE  Closing'
  BY <1>1 DEF Start
<1>2. ASSUME NEW r \in Runners, recover_missing_reports(r)
      PROVE  Closing'
  BY <1>2 DEF recover_missing_reports
<1>3. ASSUME NEW r \in Runners, CloseOverdue(r)
      PROVE  Closing'
  BY <1>3 DEF CloseOverdue
<1>4. ASSUME NEW r \in Runners, RequeueExpired(r)
      PROVE  Closing'
  BY <1>4 DEF RequeueExpired
<1>5. ASSUME NEW r \in Runners, NEW p \in Position, CloseRow(r, p)
      PROVE  Closing'
  BY <1>5 DEF CloseRow
<1>6. ASSUME NEW r \in Runners, NEW p \in Position, RequeueRow(r, p)
      PROVE  Closing'
  BY <1>6 DEF RequeueRow
<1>7. ASSUME NEW r \in Runners, NEW p \in Position, claim_stage(r, p)
      PROVE  Closing'
  BY <1>7 DEF claim_stage, Claimable, AllTerminal, Terminal,
     TERMINAL_STAGE_STATUSES
<1>8. ASSUME NEW r \in Runners, Poll(r)
      PROVE  Closing'
  BY <1>8 DEF Poll
<1>9. ASSUME NEW r \in Runners, BeginExecution(r)
      PROVE  Closing'
  BY <1>9 DEF BeginExecution
<1>10. ASSUME NEW r \in Runners, NEW status \in TERMINAL_STAGE_STATUSES, finish_stage(r, status)
      PROVE  Closing'
  BY <1>10 DEF finish_stage, Outcome, ToolOutcome, _block_downstream
<1>11. ASSUME NEW r \in Runners, _cancel_pending_stages(r)
      PROVE  Closing'
  BY <1>11 DEF _cancel_pending_stages
<1>12. ASSUME NEW r \in Runners, TryFinalize(r)
      PROVE  Closing'
  BY <1>12 DEF TryFinalize
<1>13. ASSUME NEW r \in Runners, ReadStages(r)
      PROVE  Closing'
  BY <1>13 DEF ReadStages, ScanVerdict
<1>14. ASSUME NEW r \in Runners, WriteScan(r)
      PROVE  Closing'
  BY <1>14 DEF WriteScan, LocalsOK
<1>15. ASSUME NEW r \in Runners, WriteAssessment(r)
      PROVE  Closing'
  BY <1>15 DEF WriteAssessment
<1>16. ASSUME NEW r \in Runners, WriteAssets(r)
      PROVE  Closing'
  BY <1>16 DEF WriteAssets
<1>17. ASSUME NEW r \in Runners, Render(r)
      PROVE  Closing'
  BY <1>17 DEF Render, RenderSucceeds, RenderFails
<1>18. ASSUME NEW r \in Runners, PersistReport(r)
      PROVE  Closing'
  BY <1>18 DEF PersistReport, report_status_for_scan, LocalsOK
<1>19. ASSUME NEW r \in Runners, Unlock(r)
      PROVE  Closing'
  BY <1>19 DEF Unlock
<1>20. ASSUME NEW r \in Runners, heartbeat_stage(r)
      PROVE  Closing'
  BY <1>20 DEF heartbeat_stage
<1>21. ASSUME NEW r \in Runners, ToolHeartbeat(r)
      PROVE  Closing'
  BY <1>21 DEF ToolHeartbeat
<1>22. ASSUME NEW r \in Runners, Crash(r)
      PROVE  Closing'
  BY <1>22 DEF Crash
<1>23. ASSUME NEW p \in Position, LeaseExpires(p)
      PROVE  Closing'
  BY <1>23 DEF LeaseExpires
<1>24. ASSUME NEW p \in Position, DeadlinePasses(p)
      PROVE  Closing'
  BY <1>24 DEF DeadlinePasses
<1>25. ASSUME NEW q \in Requests, RequestCancellation(q)
      PROVE  Closing'
  BY <1>25 DEF RequestCancellation
<1>26. ASSUME NEW q \in Requests, CancelScan(q)
      PROVE  Closing'
  BY <1>26 DEF CancelScan, NoRunningStage, AllTerminal, Terminal, StageStatus,
     TERMINAL_STAGE_STATUSES
<1>27. ASSUME NEW q \in Requests, CancelReport(q)
      PROVE  Closing'
  BY <1>27 DEF CancelReport, report_status_for_scan
<1>28. ASSUME NEW q \in Requests, RegenerateRead(q)
      PROVE  Closing'
  BY <1>28 DEF RegenerateRead
<1>29. ASSUME NEW q \in Requests, RegenerateWrite(q)
      PROVE  Closing'
  BY <1>29 DEF RegenerateWrite, report_status_for_scan, LocalsOK
<1>30. CASE UNCHANGED vars
  BY <1>30 DEF vars
<1> QED
  BY <1>1, <1>2, <1>3, <1>4, <1>5, <1>6, <1>7, <1>8, <1>9, <1>10, <1>11,
     <1>12, <1>13, <1>14, <1>15, <1>16, <1>17, <1>18, <1>19, <1>20, <1>21,
     <1>22, <1>23, <1>24, <1>25, <1>26, <1>27, <1>28, <1>29, <1>30 DEF Next,
     Work, Api

--------------------------------------------------------------------------------
\* The actions that do not write scan_coverage.
LEMMA CoverageUnchanged ==
  ASSUME [Next]_vars,
         \A r \in Runners :
           /\ ~_cancel_pending_stages(r)
           /\ \A p \in Position : ~CloseRow(r, p) /\ ~RequeueRow(r, p) /\ ~claim_stage(r, p)
           /\ \A status \in TERMINAL_STAGE_STATUSES : ~finish_stage(r, status),
         \A q \in Requests : ~CancelScan(q)
  PROVE  coverage' = coverage
  BY DEF Next, Work, Api, vars, rows, Start, recover_missing_reports, CloseOverdue,
     RequeueExpired, Poll, BeginExecution, TryFinalize, ReadStages, WriteScan,
     WriteAssessment, WriteAssets, Render, RenderSucceeds, RenderFails,
     PersistReport, Unlock, heartbeat_stage, ToolHeartbeat, Crash, LeaseExpires,
     DeadlinePasses, RequestCancellation, CancelReport, RegenerateRead,
     RegenerateWrite

\* Only finish_stage writes a case as completed, with its stage as succeeded, and
\* whoever rewrites a succeeded stage rewrites its coverage.
LEMMA CoverageStep ==
  Typed /\ CoverageNotOverstated /\ [Next]_vars => CoverageNotOverstated'
<1> SUFFICES ASSUME Typed, CoverageNotOverstated, [Next]_vars,
                    NEW d \in Position, coverage'[d] = "completed"
             PROVE  stage'[d] = "succeeded"
  BY DEF CoverageNotOverstated
<1> USE DEF Typed, TypeOK, LocalsOK
<1>a. coverage[d] = "completed" => stage[d] = "succeeded"
  BY DEF CoverageNotOverstated
<1>1. ASSUME NEW r \in Runners, CloseOverdue(r) \/ RequeueExpired(r)
      PROVE  stage'[d] = "succeeded"
  BY <1>1, <1>a DEF CloseOverdue, Overdue, RequeueExpired, LeaseLost
<1>2. ASSUME NEW r \in Runners, NEW p \in Position, CloseRow(r, p) \/ RequeueRow(r, p)
      PROVE  stage'[d] = "succeeded"
  BY <1>2, <1>a DEF CloseRow, RequeueRow
<1>3. ASSUME NEW r \in Runners, NEW p \in Position, claim_stage(r, p)
      PROVE  stage'[d] = "succeeded"
  BY <1>3, <1>a DEF claim_stage
<1>4. ASSUME NEW r \in Runners, NEW status \in TERMINAL_STAGE_STATUSES, finish_stage(r, status)
      PROVE  stage'[d] = "succeeded"
  BY <1>4, <1>a DEF finish_stage, TERMINAL_STAGE_STATUSES
<1>5. ASSUME NEW r \in Runners, _cancel_pending_stages(r)
      PROVE  stage'[d] = "succeeded"
  BY <1>5, <1>a DEF _cancel_pending_stages
<1>6. ASSUME NEW q \in Requests, CancelScan(q)
      PROVE  stage'[d] = "succeeded"
  BY <1>6, <1>a DEF CancelScan
<1>7. CASE stage' = stage /\ coverage' = coverage
  BY <1>7, <1>a
<1> QED
  BY <1>1, <1>2, <1>3, <1>4, <1>5, <1>6, <1>7, StageUnchanged, CoverageUnchanged

--------------------------------------------------------------------------------
\* IInv is an invariant of the orchestrator.
THEOREM Invariance == Spec => []IInv
<1>1. Init => IInv
  <2> SUFFICES ASSUME Init PROVE IInv
    OBVIOUS
  <2>1. Typed
    BY TypedInit
  <2>2. SerialStages /\ FinalizerExclusive
    BY DEF Init, SerialStages, FinalizerExclusive, Locked, Finalizing
  <2>3. Closing
    BY DEF Init, Closing, ClosedScanHasNoOpenStage, ReportOnlyForClosedScan,
           MonitorRunSettledWithReport, Finalizing, TerminalScan
  <2>4. CoverageNotOverstated
    BY DEF Init, CoverageNotOverstated
  <2> QED
    BY <2>1, <2>2, <2>3, <2>4 DEF IInv
<1>2. IInv /\ [Next]_vars => IInv'
  BY TypedStep, SerialStep, ExclusiveStep, ClosingStep, CoverageStep DEF IInv
<1> QED
  BY <1>1, <1>2, PTL DEF Spec

\* Every reachable state of the database, the runners and the requests is well
\* typed; in particular the finalizer never publishes a status it did not compute.
THEOREM TypeCorrect == Spec => []TypeOK
<1>1. IInv => TypeOK
  BY DEF IInv, Typed
<1> QED
  BY <1>1, Invariance, PTL

\* Stages run one at a time and in plan order, for any pool of runners.
THEOREM StagesAreSerial == Spec => []SerialStages
<1>1. IInv => SerialStages
  BY DEF IInv
<1> QED
  BY <1>1, Invariance, PTL

\* At most one runner is finalizing the scan.
THEOREM OneFinalizer == Spec => []FinalizerExclusive
<1>1. IInv => FinalizerExclusive
  BY DEF IInv
<1> QED
  BY <1>1, Invariance, PTL

\* A closed scan leaves no stage queued or running.
THEOREM ClosedScans == Spec => []ClosedScanHasNoOpenStage
<1>1. IInv => ClosedScanHasNoOpenStage
  BY DEF IInv, Closing
<1> QED
  BY <1>1, Invariance, PTL

\* Only a closed scan has a report.
THEOREM Reports == Spec => []ReportOnlyForClosedScan
<1>1. IInv => ReportOnlyForClosedScan
  BY DEF IInv, Closing
<1> QED
  BY <1>1, Invariance, PTL

\* A monitor run is settled only with the report of its scan.
THEOREM MonitorRuns == Spec => []MonitorRunSettledWithReport
<1>1. IInv => MonitorRunSettledWithReport
  BY DEF IInv, Closing
<1> QED
  BY <1>1, Invariance, PTL

\* A case counts as tested only while its stage stands as succeeded.
THEOREM Coverage == Spec => []CoverageNotOverstated
<1>1. IInv => CoverageNotOverstated
  BY DEF IInv
<1> QED
  BY <1>1, Invariance, PTL

--------------------------------------------------------------------------------
\* A step that publishes a report does so for a closed scan and touches neither
\* the scan's status nor its stages.
LEMMA ReportStep ==
  ASSUME IInv, [Next]_vars, (report' # "none") # (report # "none")
  PROVE  /\ report' # "none"
         /\ scan \in TerminalScan
         /\ scan' = scan
         /\ stage' = stage
<1> USE DEF rows, results
<1>1. ASSUME NEW r \in Runners, PersistReport(r)
      PROVE  /\ report' # "none" /\ scan \in TerminalScan
             /\ scan' = scan /\ stage' = stage
  BY <1>1 DEF PersistReport, Goto, IInv, Typed, TypeOK, LocalsOK, Closing,
     Finalizing,
              TerminalScan, report_status_for_scan
<1>2. ASSUME NEW q \in Requests, CancelReport(q)
      PROVE  /\ report' # "none" /\ scan \in TerminalScan
             /\ scan' = scan /\ stage' = stage
  BY <1>2 DEF CancelReport, ReqGoto, IInv, Closing, report_status_for_scan
<1>3. ASSUME NEW q \in Requests, RegenerateWrite(q)
      PROVE  /\ report' # "none" /\ scan \in TerminalScan
             /\ scan' = scan /\ stage' = stage
  BY <1>3 DEF RegenerateWrite, ReqGoto, IInv, Typed, LocalsOK, Closing,
     TerminalScan,
              report_status_for_scan
<1> QED
  BY <1>1, <1>2, <1>3
     DEF Next, Work, Api, vars, Start, recover_missing_reports, CloseOverdue,
         RequeueExpired, CloseRow, RequeueRow, claim_stage, Poll, BeginExecution,
         finish_stage, _cancel_pending_stages, TryFinalize, ReadStages, WriteScan,
         WriteAssessment, WriteAssets, Render, RenderSucceeds, RenderFails, Unlock, heartbeat_stage,
         ToolHeartbeat, Crash, LeaseExpires, DeadlinePasses, RequestCancellation,
         CancelScan, RegenerateRead

\* A step that changes whether the scan is closed closes it, with every stage
\* closed after the step and no report published by it.
LEMMA CloseStep ==
  ASSUME IInv, IInv', [Next]_vars,
         (scan' \in TerminalScan) # (scan \in TerminalScan)
  PROVE  /\ scan' \in TerminalScan
         /\ AllTerminal'
         /\ report' = report
<1> USE DEF rows, results
<1>1. ASSUME NEW r \in Runners, NEW p \in Position, claim_stage(r, p)
      PROVE  FALSE
  BY <1>1 DEF claim_stage, Claimable, IInv, Closing, ClosedScanHasNoOpenStage,
              AllTerminal, Terminal, TERMINAL_STAGE_STATUSES, TerminalScan
<1>2. ASSUME NEW r \in Runners, WriteScan(r)
      PROVE  scan' \in TerminalScan /\ report' = report
  BY <1>2 DEF WriteScan, Goto, IInv, Typed, LocalsOK, Finalizing
<1>3. ASSUME NEW q \in Requests, CancelScan(q)
      PROVE  scan' \in TerminalScan /\ report' = report
  BY <1>3 DEF CancelScan, TerminalScan
<1>4. scan' \in TerminalScan /\ report' = report
  BY <1>1, <1>2, <1>3
     DEF Next, Work, Api, vars, Start, recover_missing_reports, CloseOverdue,
         RequeueExpired, CloseRow, RequeueRow, Poll, BeginExecution, finish_stage,
         _cancel_pending_stages, TryFinalize, ReadStages, WriteAssessment,
         WriteAssets, Render, RenderSucceeds, RenderFails, PersistReport, Unlock, heartbeat_stage,
         ToolHeartbeat, Crash, LeaseExpires, DeadlinePasses, RequestCancellation,
         CancelReport, RegenerateRead, RegenerateWrite
<1> QED
  BY <1>4 DEF IInv, Closing, ClosedScanHasNoOpenStage

\* The orchestrator implements the abstract contract of a scan.
THEOREM Refinement == Spec => ImplementsContract
<1>1. Init => Contract!Init
  BY DEF Init, Contract!Init, Terminal, TERMINAL_STAGE_STATUSES, TerminalScan
<1>2. IInv /\ IInv' /\ [Next]_vars => [Contract!Next]_(Contract!vars)
  <2> SUFFICES ASSUME IInv, IInv', [Next]_vars
               PROVE  Contract!Next \/ UNCHANGED Contract!vars
    OBVIOUS
  <2> DEFINE Open == {p \in Position : ~Terminal(p)}
  <2>1. Open' \in SUBSET Open
    BY StagesStayClosed DEF IInv
  <2>2. (scan \in TerminalScan => Open = {}) /\ (AllTerminal' => Open' = {})
    BY DEF IInv, Closing, ClosedScanHasNoOpenStage, AllTerminal
  <2>3. CASE (report' # "none") # (report # "none")
    BY <2>3, ReportStep DEF Contract!Next, Contract!Report, Terminal
  <2>4. CASE (scan' \in TerminalScan) # (scan \in TerminalScan)
    BY <2>2, <2>4, CloseStep DEF Contract!Next, Contract!CloseScan
  <2>5. CASE /\ (report' # "none") = (report # "none")
             /\ (scan' \in TerminalScan) = (scan \in TerminalScan)
    BY <2>1, <2>2, <2>5 DEF Contract!Next, Contract!CloseStages, Contract!vars
  <2> QED
    BY <2>3, <2>4, <2>5
<1> QED
  BY <1>1, <1>2, Invariance, PTL DEF Spec, ImplementsContract, Contract!Spec
================================================================================
