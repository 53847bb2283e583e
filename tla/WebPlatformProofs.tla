---------------------------- MODULE WebPlatformProofs ----------------------------
(***************************************************************************)
(* Proofs about WebPlatform, for any number of scans, workers, requests    *)
(* and renderers, any policy and any budget of faults.                     *)
(***************************************************************************)
EXTENDS WebPlatform, FiniteSetTheorems, TLAPS

\* Scans are inserted in order; whatever names a scan names one with a row.
Rows ==
  /\ left["scan"] <= MaxScan
  /\ \A s \in Scan : s > MaxScan - left["scan"] => status[s] = None
  /\ \A s \in queue : status[s] # None
  /\ \A q \in Requests : req[q] \in {"dispatching", "published"} =>
       reqScan[q] \in Scan /\ status[reqScan[q]] # None
  /\ recovery # "idle" => recovered \in Scan /\ status[recovered] # None
  /\ \A s \in Scan : intent.saw[s] # None \/ orphans[s] # None => status[s] # None

\* Where a worker that calls _update_scan_row may go on.
Onward == {"claim", "start", "loop", "ingest", "close", "report"}

\* A worker with a task knows its scan; it has read a status exactly from the
\* slot on; a scan it reports has ended, and before it only says that it runs.
TaskOK(w) ==
  /\ pc[w] # "idle" => job[w] \in Scan /\ status[job[w]] # None
  /\ pc[w] \in {"idle", "entry", "read"} => seen[w] = None
  /\ pc[w] = "slot" => seen[w] # None
  /\ pc[w] = "write" => then[w] \in Onward
  /\ pc[w] \in {"closing", "report", "publish"} \/ (pc[w] = "write" /\ then[w] = "report")
       => out[w] \in Terminal
  /\ pc[w] = "write" /\ then[w] \notin {"claim", "report"} => out[w] = "running"

\* A renderer and the backfill know their scan.
ReportersOK ==
  /\ \A k \in Renderers : renderer[k] = "render" => rendered[k].scan \in Scan
  /\ backfill # "idle" => backfilled \in Scan

\* Whoever executes has a slot, or had one, and the slots are within the limit.
SlotsOK ==
  /\ \A w \in Workers, s \in Scan : Executes(w, s) => s \in slots \cup unslotted
  /\ Cardinality(slots) <= policy.active

ScanInv ==
  /\ ScanTypeOK
  /\ Rows
  /\ \A w \in Workers : TaskOK(w)
  /\ SlotsOK
  /\ QueueLimit

IInv == ScanInv /\ ReportTypeOK /\ ReportersOK
--------------------------------------------------------------------------------
\* Scans are finitely many.
LEMMA FiniteScans ==
  /\ IsFiniteSet(Scan)
  /\ \A T \in SUBSET Scan : IsFiniteSet(T) /\ Cardinality(T) \in Nat
<1>1. IsFiniteSet(Scan)
  BY FS_Interval, ScanAssumption DEF Scan
<1> QED
  BY <1>1, FS_Subset, FS_CardinalityType

\* A budget that was spent is a budget.
LEMMA Spent ==
  ASSUME ScanTypeOK, NEW kind \in Bounded, Spend(kind)
  PROVE  /\ left' \in [Bounded -> Nat] /\ policy' = policy
         /\ left'["scan"] <= left["scan"]
         /\ kind # "scan" => left'["scan"] = left["scan"]
  BY DEF ScanTypeOK, Spend, Bounded

\* The row a dispatch inserts.
LEMMA NewRow ==
  ASSUME ScanTypeOK, Rows, left["scan"] > 0
  PROVE  /\ MaxScan + 1 - left["scan"] \in Scan
         /\ status[MaxScan + 1 - left["scan"]] = None
  BY ScanAssumption DEF ScanTypeOK, Rows, Scan, Bounded

\* Types: requests that dispatch.
LEMMA DispatchType ==
  ASSUME ScanInv, NEW q \in Requests, Dispatch(q)
  PROVE  ScanTypeOK'
<1> USE DEF ScanInv, bounds, row, broker, redis, worker, request, upkeep, Bounded
<1>0. ScanTypeOK
  OBVIOUS
<1>1. CASE rescan_assessment(q) \/ retry_scan_execution(q) \/ dispatch_due_schedules(q)
  BY <1>1 DEF ScanTypeOK, rescan_assessment, retry_scan_execution, dispatch_due_schedules, Checked
<1>2. CASE RefuseDispatch(q)
  BY <1>2 DEF ScanTypeOK, RefuseDispatch
<1>3. CASE _dispatch_assessment_scan(q)
  <2>1. left' \in [Bounded -> Nat] /\ policy' = policy /\ left["scan"] > 0
    BY <1>3, Spent DEF _dispatch_assessment_scan, Spend
  <2>2. MaxScan + 1 - left["scan"] \in Scan
    BY <2>1, NewRow
  <2> QED
    BY <1>3, <2>1, <2>2 DEF ScanTypeOK, _dispatch_assessment_scan, Status, Active
<1>4. CASE SubmitTask(q)
  BY <1>4 DEF ScanTypeOK, SubmitTask, Rows
<1>5. CASE DispatchFailed(q)
  BY <1>5 DEF ScanTypeOK, DispatchFailed, Status, Terminal
<1>6. CASE RecordTask(q)
  BY <1>6 DEF ScanTypeOK, RecordTask
<1>7. CASE ApiCrash(q)
  <2>1. left' \in [Bounded -> Nat] /\ policy' = policy
    BY <1>7, Spent DEF ApiCrash
  <2> QED
    BY <1>7, <2>1 DEF ScanTypeOK, ApiCrash
<1> QED
  BY <1>1, <1>2, <1>3, <1>4, <1>5, <1>6, <1>7 DEF Dispatch

\* Types: cancellation, the operation and its stop.
LEMMA ControlType ==
  ASSUME ScanInv, Control
  PROVE  ScanTypeOK'
<1> USE DEF ScanInv, bounds, row, broker, redis, worker, request, upkeep, Bounded
<1>0. ScanTypeOK /\ NoIntent \in Intent
  BY DEF NoIntent, Intent
<1>1. CASE cancel_assessment_scan
  <2>1. left' \in [Bounded -> Nat] /\ policy' = policy
    BY <1>1, Spent DEF cancel_assessment_scan
  <2>2. PICK s \in ActiveScans :
          /\ intent' = [kind |-> "cancel",
                        saw |-> [t \in Scan |-> IF t = s THEN status[s] ELSE None],
                        running |-> FALSE]
          /\ revoked' = IF taskId[s] THEN revoked \cup {s} ELSE revoked
    BY <1>1 DEF cancel_assessment_scan
  <2>3. intent' \in Intent /\ s \in Scan
    BY <2>2 DEF Intent, ActiveScans
  <2> QED
    BY <1>1, <2>1, <2>2, <2>3 DEF ScanTypeOK, cancel_assessment_scan
<1>2. CASE transition_operation_workspace
  <2>1. left' \in [Bounded -> Nat] /\ policy' = policy
    BY <1>2, Spent DEF transition_operation_workspace
  <2> QED
    BY <1>2, <2>1 DEF ScanTypeOK, transition_operation_workspace
<1>3. CASE emergency_stop
  <2>1. left' \in [Bounded -> Nat] /\ policy' = policy
    BY <1>3, Spent DEF emergency_stop
  <2>2. intent' \in Intent
    BY <1>3 DEF emergency_stop, Intent
  <2> QED
    BY <1>3, <2>1, <2>2 DEF ScanTypeOK, emergency_stop
<1>4. CASE CommitIntent
  BY <1>0, <1>4 DEF ScanTypeOK, CommitIntent, Status, Terminal, OperationStatus
<1>5. CASE IntentLost
  <2>1. left' \in [Bounded -> Nat] /\ policy' = policy
    BY <1>5, Spent DEF IntentLost
  <2> QED
    BY <1>0, <1>5, <2>1 DEF ScanTypeOK, IntentLost
<1> QED
  BY <1>1, <1>2, <1>3, <1>4, <1>5 DEF Control
--------------------------------------------------------------------------------
(***************************************************************************)
(* What a step must keep.                                                  *)
(***************************************************************************)

\* The rows a step may change without losing what names them.
LEMMA RowsKept ==
  ASSUME ScanInv, left'["scan"] = left["scan"],
         \A s \in Scan : (status'[s] = None) <=> (status[s] = None),
         queue' \subseteq Scan, \A s \in queue' : status[s] # None,
         \A q \in Requests : req'[q] \in {"dispatching", "published"} =>
           req[q] \in {"dispatching", "published"} /\ reqScan'[q] = reqScan[q],
         recovery' # "idle" => recovered' \in Scan /\ status[recovered'] # None,
         \A s \in Scan : intent'.saw[s] # None \/ orphans'[s] # None => status[s] # None
  PROVE  Rows'
  BY DEF ScanInv, Rows

\* A worker whose task is left alone keeps what it knows.
LEMMA TaskKept ==
  ASSUME ScanInv, NEW w \in Workers,
         \A s \in Scan : (status'[s] = None) => (status[s] = None),
         pc'[w] = pc[w], job'[w] = job[w], seen'[w] = seen[w], out'[w] = out[w], then'[w] = then[w]
  PROVE  TaskOK(w)'
  BY DEF ScanInv, TaskOK

\* No slot is needed by a step that gives nobody a new execution.
LEMMA SlotsKept ==
  ASSUME ScanInv, UNCHANGED <<slots, unslotted>>, policy' = policy,
         \A w \in Workers, s \in Scan : Executes(w, s)' => Executes(w, s)
  PROVE  SlotsOK'
  BY DEF ScanInv, SlotsOK

\* The queue is not longer when no scan joins it.
LEMMA QueueKept ==
  ASSUME ScanInv, policy' = policy,
         \A s \in Scan : status'[s] = "queued" /\ heartbeat'[s] = None =>
           status[s] = "queued" /\ heartbeat[s] = None
  PROVE  QueueLimit'
<1> DEFINE Waiting == {s \in Scan : status[s] = "queued" /\ heartbeat[s] = None}
           Later == {s \in Scan : status'[s] = "queued" /\ heartbeat'[s] = None}
<1>1. Later \subseteq Waiting /\ Waiting \subseteq Scan
  OBVIOUS
<1>2. Cardinality(Later) <= Cardinality(Waiting)
  BY <1>1, FiniteScans, FS_Subset
<1>3. Cardinality(Later) \in Nat /\ Cardinality(Waiting) \in Nat /\ policy.queued \in Nat
  BY <1>1, FiniteScans DEF ScanInv, ScanTypeOK, Policy
<1> QED
  BY <1>2, <1>3 DEF ScanInv, QueueLimit

\* A step of the worker w that changes nothing but its own state, the
\* assessment's status, the scans' metadata and the budget.
LEMMA LocalStep ==
  ASSUME ScanInv, NEW w \in Workers,
         left' \in [Bounded -> Nat], left'["scan"] = left["scan"], policy' = policy,
         assessment' \in Terminal \cup {"created", "running"},
         UNCHANGED <<fixed, operation, broker, redis, request, upkeep>>,
         cancelFlag' \in [Scan -> BOOLEAN],
         pc' \in [Workers -> WorkerStep], job' = job, seen' \in [Workers -> Status \cup {None}],
         out' \in [Workers -> Status], copy' \in [Workers -> BOOLEAN], then' \in [Workers -> WorkerStep],
         \A v \in Workers \ {w} : /\ pc'[v] = pc[v] /\ seen'[v] = seen[v]
                                  /\ out'[v] = out[v] /\ then'[v] = then[v],
         TaskOK(w)',
         pc'[w] = "slot" \/ (seen'[w] = seen[w] /\ pc[w] # "slot")
  PROVE  ScanInv'
<1> USE DEF fixed, broker, redis, request, upkeep
<1>1. ScanTypeOK'
  BY DEF ScanInv, ScanTypeOK
<1>2. Rows'
  BY RowsKept DEF ScanInv, Rows, ScanTypeOK
<1>3. ASSUME NEW v \in Workers PROVE TaskOK(v)'
  <2>1. CASE v = w
    BY <2>1
  <2>2. CASE v # w
    BY <2>2, TaskKept
  <2> QED
    BY <2>1, <2>2
<1>4. SlotsOK'
  BY SlotsKept DEF Executes
<1>5. QueueLimit'
  BY QueueKept
<1> QED
  BY <1>1, <1>2, <1>3, <1>4, <1>5 DEF ScanInv

\* What the helpers do to the worker's state.
LEMMA UpdateEffect ==
  ASSUME ScanTypeOK, NEW w \in Workers, NEW st \in Status, NEW next \in WorkerStep,
         Update(w, st, next), job[w] \in Scan
  PROVE  /\ pc' \in [Workers -> WorkerStep] /\ out' \in [Workers -> Status]
         /\ copy' \in [Workers -> BOOLEAN] /\ then' \in [Workers -> WorkerStep]
         /\ job' = job /\ seen' = seen
         /\ pc'[w] = "write" /\ out'[w] = st /\ then'[w] = next
         /\ \A v \in Workers \ {w} : pc'[v] = pc[v] /\ out'[v] = out[v] /\ then'[v] = then[v]
  BY DEF ScanTypeOK, Update, Goto, WorkerStep

LEMMA GotoEffect ==
  ASSUME ScanTypeOK, NEW w \in Workers, NEW step \in WorkerStep, Goto(w, step)
  PROVE  /\ pc' \in [Workers -> WorkerStep] /\ pc'[w] = step
         /\ \A v \in Workers \ {w} : pc'[v] = pc[v]
  BY DEF ScanTypeOK, Goto

LEMMA LeaveEffect ==
  ASSUME ScanTypeOK, NEW w \in Workers, Leave(w)
  PROVE  /\ pc' \in [Workers -> WorkerStep] /\ job' \in [Workers -> Scan \cup {0}]
         /\ seen' \in [Workers -> Status \cup {None}] /\ out' \in [Workers -> Status]
         /\ copy' \in [Workers -> BOOLEAN] /\ then' \in [Workers -> WorkerStep]
         /\ pc'[w] = "idle" /\ job'[w] = 0 /\ seen'[w] = None
         /\ \A v \in Workers \ {w} : /\ pc'[v] = pc[v] /\ job'[v] = job[v] /\ seen'[v] = seen[v]
                                     /\ out'[v] = out[v] /\ then'[v] = then[v]
  BY DEF ScanTypeOK, Leave, Goto, WorkerStep, Status, Active
--------------------------------------------------------------------------------
(***************************************************************************)
(* Steps of a worker.                                                      *)
(***************************************************************************)

\* The call of _update_scan_row.
LEMMA UpdateStep ==
  ASSUME ScanInv, NEW w \in Workers, NEW st \in Status, NEW next \in Onward,
         pc[w] \notin {"idle", "slot"}, Update(w, st, next),
         next = "report" => st \in Terminal,
         next \notin {"claim", "report"} => st = "running",
         assessment' \in Terminal \cup {"created", "running"},
         UNCHANGED <<bounds, row, operation, broker, redis, request, upkeep>>
  PROVE  ScanInv'
<1>1. ScanTypeOK /\ job[w] \in Scan /\ status[job[w]] # None /\ next \in WorkerStep
  BY DEF ScanInv, TaskOK, Onward, WorkerStep
<1>2. TaskOK(w)'
  BY <1>1, UpdateEffect DEF TaskOK, row
<1> QED
  BY <1>1, <1>2, UpdateEffect, LocalStep DEF bounds, row, fixed, ScanTypeOK

\* A move without a write.
LEMMA GotoStep ==
  ASSUME ScanInv, NEW w \in Workers, NEW step \in WorkerStep \ {"idle", "entry", "slot", "write"},
         pc[w] \notin {"idle", "slot"}, Goto(w, step),
         step = "read" => pc[w] \in {"entry", "read"},
         step \in {"report", "publish"} => pc[w] \in {"closing", "report", "publish"},
         step # "closing",
         left' \in [Bounded -> Nat], left'["scan"] = left["scan"], policy' = policy,
         assessment' \in Terminal \cup {"created", "running"},
         UNCHANGED <<fixed, operation, broker, redis, job, seen, out, copy, then, request, upkeep>>,
         cancelFlag' \in [Scan -> BOOLEAN]
  PROVE  ScanInv'
<1>1. ScanTypeOK /\ TaskOK(w)
  BY DEF ScanInv
<1>2. TaskOK(w)'
  BY <1>1, GotoEffect DEF TaskOK, fixed
<1> QED
  BY <1>1, <1>2, GotoEffect, LocalStep DEF ScanTypeOK

\* Steps that only move the worker or call _update_scan_row.
LEMMA LocalSteps ==
  ASSUME ScanInv, NEW w \in Workers,
         \/ Enter(w) \/ ReadStatus(w) \/ CheckCancel(w) \/ Start(w) \/ Progress(w)
         \/ StopScanner(w) \/ RecordCancelled(w) \/ ScannerExits(w) \/ Seal(w)
         \/ _ingest_scan_results(w) \/ Close(w) \/ RecordOutcome(w) \/ Raise(w) \/ RecordFailed(w)
  PROVE  ScanInv'
<1>0. /\ assessment \in Terminal \cup {"created", "running"}
      /\ left \in [Bounded -> Nat] /\ ScanTypeOK /\ TaskOK(w) /\ cancelFlag \in [Scan -> BOOLEAN]
  BY DEF ScanInv, ScanTypeOK
<1> USE <1>0 DEF Status, Active, Terminal, Onward, WorkerStep, bounds, row, fixed
<1>1. CASE Enter(w)
  BY <1>1, UpdateStep, GotoStep DEF Enter
<1>2. CASE ReadStatus(w)
  <2>1. job[w] \in Scan /\ status[job[w]] # None /\ status[job[w]] \in {"queued", "running"} \cup Terminal
    BY <1>2 DEF ReadStatus, TaskOK, ScanTypeOK
  <2>2. /\ seen' \in [Workers -> Status \cup {None}] /\ seen'[w] = status[job[w]]
        /\ \A v \in Workers \ {w} : seen'[v] = seen[v]
    BY <1>2, <2>1 DEF ReadStatus, ScanTypeOK
  <2>3. TaskOK(w)'
    BY <1>2, <2>1, <2>2, GotoEffect DEF ReadStatus, TaskOK, row
  <2> QED
    BY <1>2, <2>2, <2>3, GotoEffect, LocalStep DEF ReadStatus, ScanTypeOK
<1>3. CASE CheckCancel(w)
  BY <1>3, UpdateStep DEF CheckCancel
<1>4. CASE Start(w)
  BY <1>4, UpdateStep DEF Start
<1>5. CASE Progress(w)
  BY <1>5, UpdateStep DEF Progress
<1>6. CASE StopScanner(w)
  BY <1>6, GotoStep DEF StopScanner
<1>7. CASE RecordCancelled(w)
  BY <1>7, UpdateStep DEF RecordCancelled
<1>8. CASE ScannerExits(w)
  BY <1>8, GotoStep DEF ScannerExits
<1>9. CASE Seal(w)
  BY <1>9, UpdateStep DEF Seal
<1>10. CASE _ingest_scan_results(w)
  BY <1>10, UpdateStep, GotoStep DEF _ingest_scan_results
<1>11. CASE Close(w)
  <2>1. PICK final \in {"completed", "partial", "failed"} :
          assessment' = final /\ out' = [out EXCEPT ![w] = final]
    BY <1>11 DEF Close
  <2>2. /\ out' \in [Workers -> Status] /\ out'[w] \in Terminal
        /\ \A v \in Workers \ {w} : out'[v] = out[v]
    BY <2>1 DEF ScanTypeOK
  <2>3. TaskOK(w)'
    BY <1>11, <2>2, GotoEffect DEF Close, TaskOK, row
  <2> QED
    BY <1>11, <2>1, <2>2, <2>3, GotoEffect, LocalStep DEF Close, ScanTypeOK
<1>12. CASE RecordOutcome(w)
  <2>1. out[w] \in Terminal
    BY <1>12 DEF RecordOutcome, TaskOK
  <2> QED
    BY <1>12, <2>1, UpdateStep DEF RecordOutcome
<1>13. CASE Raise(w)
  BY <1>13, GotoStep DEF Raise
<1>14. CASE RecordFailed(w)
  BY <1>14, UpdateStep DEF RecordFailed
<1> QED
  BY <1>1, <1>2, <1>3, <1>4, <1>5, <1>6, <1>7, <1>8, <1>9, <1>10, <1>11, <1>12, <1>13, <1>14

\* A worker leaves its task, which may go back to the broker.
LEMMA LeaveStep ==
  ASSUME ScanInv, NEW w \in Workers, pc[w] # "idle", Leave(w),
         left' \in [Bounded -> Nat], left'["scan"] = left["scan"], policy' = policy,
         assessment' \in Terminal \cup {"created", "running"},
         UNCHANGED <<status, cancelFlag, taskId, sessionDir, operation, revoked, request, upkeep>>,
         heartbeat' \in [Scan -> {None, "fresh", "old"}],
         \A s \in Scan : heartbeat'[s] = None => heartbeat[s] = None,
         queue' \subseteq queue \cup {job[w]},
         slots' \subseteq Scan, unslotted' \subseteq Scan, dropped' \subseteq Scan, SlotsOK'
  PROVE  ScanInv'
<1>1. ScanTypeOK /\ job[w] \in Scan /\ status[job[w]] # None
  BY DEF ScanInv, TaskOK
<1>2. /\ queue' \subseteq Scan /\ \A s \in queue' : status[s] # None
  BY <1>1 DEF ScanInv, ScanTypeOK, Rows
<1>3. ScanTypeOK'
  BY <1>1, <1>2, LeaveEffect DEF ScanTypeOK, request, upkeep
<1>4. Rows'
  BY <1>2, RowsKept DEF ScanInv, Rows, request, upkeep
<1>5. ASSUME NEW v \in Workers PROVE TaskOK(v)'
  <2>1. CASE v = w
    BY <1>1, <2>1, LeaveEffect DEF TaskOK
  <2>2. CASE v # w
    BY <1>1, <2>2, LeaveEffect, TaskKept
  <2> QED
    BY <2>1, <2>2
<1>6. QueueLimit'
  BY QueueKept
<1> QED
  BY <1>3, <1>4, <1>5, <1>6 DEF ScanInv

\* The slot goes with the worker that releases it; another one that used it too
\* is remembered.
LEMMA Release ==
  ASSUME ScanInv, NEW w \in Workers, job[w] \in Scan, release_execution_lease(w), Leave(w),
         policy' = policy
  PROVE  SlotsOK' /\ slots' \subseteq Scan /\ unslotted' \subseteq Scan
<1>1. ScanTypeOK /\ slots' \subseteq slots /\ unslotted \subseteq unslotted'
  BY DEF ScanInv, release_execution_lease
<1>2. slots' \subseteq Scan /\ unslotted' \subseteq Scan
  BY <1>1 DEF ScanTypeOK, release_execution_lease
<1>3. Cardinality(slots') <= policy'.active
  <2>1. Cardinality(slots') <= Cardinality(slots) /\ Cardinality(slots') \in Nat /\ Cardinality(slots) \in Nat
    BY <1>1, <1>2, FiniteScans, FS_Subset DEF ScanTypeOK
  <2> QED
    BY <1>1, <2>1 DEF ScanInv, SlotsOK, ScanTypeOK, Policy
<1>4. ASSUME NEW v \in Workers, NEW s \in Scan, Executes(v, s)' PROVE s \in slots' \cup unslotted'
  <2>1. v # w /\ Executes(v, s)
    BY <1>1, <1>4, LeaveEffect DEF Executes, Scan
  <2>2. s \in slots \cup unslotted
    BY <2>1 DEF ScanInv, SlotsOK
  <2>3. CASE s = job[w]
    BY <2>1, <2>3 DEF release_execution_lease
  <2>4. CASE s # job[w]
    BY <1>1, <2>2, <2>4 DEF release_execution_lease
  <2> QED
    BY <2>3, <2>4
<1> QED
  BY <1>2, <1>3, <1>4 DEF SlotsOK

\* A worker that leaves without releasing executes nothing any more.
LEMMA Abandoned ==
  ASSUME ScanInv, NEW w \in Workers, Leave(w), UNCHANGED <<slots, unslotted>>,
         policy' = policy
  PROVE  SlotsOK' /\ slots' \subseteq Scan /\ unslotted' \subseteq Scan
<1>1. ScanTypeOK
  BY DEF ScanInv
<1>2. \A v \in Workers, s \in Scan : Executes(v, s)' => Executes(v, s)
  BY <1>1, LeaveEffect DEF Executes, Scan
<1> QED
  BY <1>1, <1>2, SlotsKept DEF ScanTypeOK

\* Steps that end with the worker leaving its task.
LEMMA LeaveSteps ==
  ASSUME ScanInv, NEW w \in Workers,
         \/ RetryLater(w) \/ Acknowledge(w) \/ WorkerLost(w) \/ TaskFails(w)
         \/ ReleaseFails(w)
  PROVE  ScanInv'
<1>0. /\ ScanTypeOK /\ TaskOK(w) /\ left \in [Bounded -> Nat] /\ dropped \subseteq Scan
      /\ assessment \in Terminal \cup {"created", "running"}
  BY DEF ScanInv, ScanTypeOK
<1> USE <1>0 DEF bounds, row, broker, redis, Bounded
<1>1. CASE RetryLater(w)
  <2>1. SlotsOK' /\ slots' \subseteq Scan /\ unslotted' \subseteq Scan
    BY <1>1, Abandoned DEF RetryLater
  <2>2. /\ heartbeat' \in [Scan -> {None, "fresh", "old"}]
        /\ \A s \in Scan : heartbeat'[s] = None => heartbeat[s] = None
    BY <1>1 DEF RetryLater, ScanTypeOK, None
  <2> QED
    BY <1>1, <2>1, <2>2, LeaveStep DEF RetryLater
<1>2. CASE Acknowledge(w)
  <2>1. SlotsOK' /\ slots' \subseteq Scan /\ unslotted' \subseteq Scan
    BY <1>2, Abandoned, Release DEF Acknowledge, TaskOK
  <2> QED
    BY <1>2, <2>1, LeaveStep DEF Acknowledge, ScanTypeOK
<1>3. CASE WorkerLost(w)
  <2>1. left' \in [Bounded -> Nat] /\ policy' = policy /\ left'["scan"] = left["scan"]
    BY <1>3, Spent DEF WorkerLost
  <2>2. SlotsOK' /\ slots' \subseteq Scan /\ unslotted' \subseteq Scan
    BY <1>3, <2>1, Abandoned DEF WorkerLost
  <2> QED
    BY <1>3, <2>1, <2>2, LeaveStep DEF WorkerLost, ScanTypeOK
<1>4. CASE TaskFails(w)
  <2>1. left' \in [Bounded -> Nat] /\ policy' = policy /\ left'["scan"] = left["scan"]
    BY <1>4, Spent DEF TaskFails
  <2>2. job[w] \in Scan /\ dropped' \subseteq Scan /\ pc[w] # "idle"
    BY <1>4 DEF TaskFails, TaskOK
  <2>3. SlotsOK' /\ slots' \subseteq Scan /\ unslotted' \subseteq Scan
    <3>1. CASE Executes(w, job[w])
      BY <1>4, <2>1, <2>2, <3>1, Release DEF TaskFails
    <3>2. CASE ~Executes(w, job[w])
      BY <1>4, <2>1, <3>2, Abandoned DEF TaskFails
    <3> QED
      BY <3>1, <3>2
  <2>4. assessment' \in Terminal \cup {"created", "running"}
    BY <1>4 DEF TaskFails, Terminal
  <2> QED
    BY <1>4, <2>1, <2>2, <2>3, <2>4, LeaveStep DEF TaskFails, ScanTypeOK
<1>5. CASE ReleaseFails(w)
  <2>1. left' \in [Bounded -> Nat] /\ policy' = policy /\ left'["scan"] = left["scan"]
    BY <1>5, Spent DEF ReleaseFails
  <2>2. SlotsOK' /\ slots' \subseteq Scan /\ unslotted' \subseteq Scan
    BY <1>5, <2>1, Abandoned DEF ReleaseFails
  <2> QED
    BY <1>5, <2>1, <2>2, LeaveStep DEF ReleaseFails, ScanTypeOK
<1> QED
  BY <1>1, <1>2, <1>3, <1>4, <1>5

\* The claim.
LEMMA ClaimStep ==
  ASSUME ScanInv, NEW w \in Workers, _claim_scan_execution(w)
  PROVE  ScanInv'
<1>0. ScanTypeOK /\ TaskOK(w) /\ job[w] \in Scan /\ status[job[w]] # None
  BY DEF ScanInv, TaskOK, _claim_scan_execution
<1> USE <1>0 DEF bounds, row, broker, redis
<1>1. CASE Refused(status[job[w]])
  <2>1. SlotsOK' /\ slots' \subseteq Scan /\ unslotted' \subseteq Scan
    BY <1>1, Release DEF _claim_scan_execution
  <2> QED
    BY <1>1, <2>1, LeaveStep DEF _claim_scan_execution, ScanTypeOK
<1>2. CASE ~Refused(status[job[w]])
  <2>1. /\ taskId' \in [Scan -> BOOLEAN] /\ UNCHANGED <<status, cancelFlag, heartbeat, sessionDir>>
        /\ pc[w] = "claim" /\ Goto(w, "check")
        /\ UNCHANGED <<bounds, assessment, operation, broker, redis, request, upkeep, job, seen, out, copy, then>>
    BY <1>2 DEF _claim_scan_execution, ScanTypeOK
  <2>2. /\ pc' \in [Workers -> WorkerStep] /\ pc'[w] = "check"
        /\ \A v \in Workers \ {w} : pc'[v] = pc[v]
    BY <2>1, GotoEffect DEF WorkerStep
  <2>3. ScanTypeOK'
    BY <2>1, <2>2 DEF ScanTypeOK, request, upkeep
  <2>4. Rows'
    BY <2>1, RowsKept DEF ScanInv, Rows, ScanTypeOK, request, upkeep
  <2>5. ASSUME NEW v \in Workers PROVE TaskOK(v)'
    <3>1. CASE v = w
      BY <3>1, <2>1, <2>2 DEF TaskOK
    <3>2. CASE v # w
      BY <3>2, <2>1, <2>2, TaskKept
    <3> QED
      BY <3>1, <3>2
  <2>6. SlotsOK'
    BY <2>1, <2>2, SlotsKept DEF Executes
  <2>7. QueueLimit'
    BY <2>1, QueueKept
  <2> QED
    BY <2>3, <2>4, <2>5, <2>6, <2>7 DEF ScanInv
<1> QED
  BY <1>1, <1>2

\* A slot is acquired.
LEMMA AcquireStep ==
  ASSUME ScanInv, NEW w \in Workers, acquire_execution_lease(w)
  PROVE  ScanInv'
<1>1. /\ ScanTypeOK /\ job[w] \in Scan /\ status[job[w]] # None
      /\ seen[w] \in Status /\ "claim" \in WorkerStep
  BY DEF ScanInv, ScanTypeOK, TaskOK, acquire_execution_lease, WorkerStep
<1>2. /\ pc' \in [Workers -> WorkerStep] /\ out' \in [Workers -> Status]
      /\ copy' \in [Workers -> BOOLEAN] /\ then' \in [Workers -> WorkerStep]
      /\ job' = job /\ seen' = seen
      /\ pc'[w] = "claim" \/ (pc'[w] = "write" /\ out'[w] = seen[w] /\ then'[w] = "claim")
      /\ \A v \in Workers \ {w} : pc'[v] = pc[v] /\ out'[v] = out[v] /\ then'[v] = then[v]
  <2>1. CASE Update(w, seen[w], "claim")
    BY <1>1, <2>1, UpdateEffect
  <2>2. CASE Goto(w, "claim") /\ UNCHANGED <<job, seen, out, copy, then>>
    BY <1>1, <2>2, GotoEffect DEF ScanTypeOK
  <2> QED
    BY <2>1, <2>2 DEF acquire_execution_lease
<1>3. /\ slots' = slots \cup {job[w]} /\ unslotted' = unslotted \ {job[w]} /\ dropped' = dropped
      /\ policy' = policy /\ left' = left
      /\ UNCHANGED <<row, assessment, operation, broker, request, upkeep>>
  BY DEF acquire_execution_lease, bounds
<1>4. ScanTypeOK'
  BY <1>1, <1>2, <1>3 DEF ScanTypeOK, row, broker, request, upkeep
<1>5. Rows'
  BY <1>3, RowsKept DEF ScanInv, Rows, ScanTypeOK, row, broker, request, upkeep
<1>6. ASSUME NEW v \in Workers PROVE TaskOK(v)'
  <2>1. CASE v = w
    BY <1>1, <1>2, <1>3, <2>1 DEF TaskOK, Onward, row
  <2>2. CASE v # w
    BY <1>2, <1>3, <2>2, TaskKept DEF row
  <2> QED
    BY <2>1, <2>2
<1>7. SlotsOK'
  <2>1. \A v \in Workers, s \in Scan : Executes(v, s)' => s \in slots' \cup unslotted'
    BY <1>2, <1>3 DEF ScanInv, SlotsOK, Executes
  <2>2. IsFiniteSet(slots) /\ Cardinality(slots) \in Nat /\ policy.active \in Nat
    BY FiniteScans DEF ScanInv, ScanTypeOK, Policy
  <2>3. Cardinality(slots') <= policy.active
    <3>1. CASE job[w] \in slots
      <4>1. slots' = slots
        BY <3>1, <1>3
      <4> QED
        BY <4>1 DEF ScanInv, SlotsOK
    <3>2. CASE job[w] \notin slots
      <4>1. Cardinality(slots') = Cardinality(slots) + 1
        BY <3>2, <1>3, <2>2, FS_AddElement
      <4>2. Cardinality(slots) < policy.active
        BY <3>2 DEF acquire_execution_lease, HasSlot
      <4> QED
        BY <4>1, <4>2, <2>2
    <3> QED
      BY <3>1, <3>2
  <2> QED
    BY <2>1, <2>3, <1>3 DEF SlotsOK
<1>8. QueueLimit'
  BY <1>3, QueueKept DEF row
<1> QED
  BY <1>4, <1>5, <1>6, <1>7, <1>8 DEF ScanInv

\* The row is written.
LEMMA WriteStep ==
  ASSUME ScanInv, NEW w \in Workers, _update_scan_row(w)
  PROVE  ScanInv'
<1>1. /\ ScanTypeOK /\ TaskOK(w) /\ pc[w] = "write" /\ job[w] \in Scan /\ status[job[w]] # None
      /\ then[w] \in Onward /\ out[w] \in Status
  BY DEF ScanInv, ScanTypeOK, TaskOK, _update_scan_row
<1>2. /\ status' = [status EXCEPT ![job[w]] = out[w]]
      /\ cancelFlag' = [cancelFlag EXCEPT ![job[w]] = copy[w]]
      /\ heartbeat' = [heartbeat EXCEPT ![job[w]] = IF out[w] \in Active THEN "fresh" ELSE @]
      /\ sessionDir' = [sessionDir EXCEPT ![job[w]] = @ \/ then[w] \in {"loop", "ingest"}]
      /\ out' = [out EXCEPT ![w] = IF then[w] = "report" THEN @ ELSE "queued"]
      /\ copy' = [copy EXCEPT ![w] = FALSE]
      /\ then' = [then EXCEPT ![w] = "idle"]
      /\ UNCHANGED <<bounds, taskId, assessment, operation, broker, redis, job, seen, request, upkeep>>
  BY DEF _update_scan_row
<1>3. /\ pc' \in [Workers -> WorkerStep] /\ pc'[w] = then[w]
      /\ \A v \in Workers \ {w} : pc'[v] = pc[v]
  BY <1>1, GotoEffect DEF _update_scan_row, Onward, WorkerStep
<1>4. /\ out' \in [Workers -> Status] /\ copy' \in [Workers -> BOOLEAN]
      /\ then' \in [Workers -> WorkerStep]
      /\ then[w] = "report" => out'[w] = out[w]
      /\ \A v \in Workers \ {w} : out'[v] = out[v] /\ then'[v] = then[v]
  BY <1>1, <1>2 DEF ScanTypeOK, Status, Active, WorkerStep
<1>5. /\ status' \in [Scan -> Status \cup {None}] /\ cancelFlag' \in [Scan -> BOOLEAN]
      /\ heartbeat' \in [Scan -> {None, "fresh", "old"}]
      /\ sessionDir' \in [Scan -> BOOLEAN]
  BY <1>1, <1>2 DEF ScanTypeOK
<1>6. ScanTypeOK'
  BY <1>1, <1>2, <1>3, <1>4, <1>5 DEF ScanTypeOK, bounds, broker, redis, request, upkeep
<1>7. \A s \in Scan : (status'[s] = None) <=> (status[s] = None)
  BY <1>1, <1>2 DEF ScanTypeOK, Status, Active, Terminal, None
<1>8. Rows'
  BY <1>2, <1>7, RowsKept DEF ScanInv, Rows, ScanTypeOK, bounds, broker, request, upkeep
<1>9. ASSUME NEW v \in Workers PROVE TaskOK(v)'
  <2>1. CASE v = w
    BY <1>1, <1>2, <1>3, <1>4, <1>7, <2>1 DEF TaskOK, Onward
  <2>2. CASE v # w
    BY <1>2, <1>3, <1>4, <1>7, <2>2, TaskKept
  <2> QED
    BY <2>1, <2>2
<1>10. SlotsOK'
  BY <1>1, <1>2, <1>3, SlotsKept DEF redis, Executes, bounds
<1>11. QueueLimit'
  <2>1. \A s \in Scan : status'[s] = "queued" /\ heartbeat'[s] = None =>
          status[s] = "queued" /\ heartbeat[s] = None
    BY <1>1, <1>2 DEF ScanTypeOK, Active, None
  <2> QED
    BY <1>2, <2>1, QueueKept DEF bounds
<1> QED
  BY <1>6, <1>8, <1>9, <1>10, <1>11 DEF ScanInv

\* A step that moves no worker, nor inserts a row.
LEMMA OutsideStep ==
  ASSUME ScanInv, ScanTypeOK', UNCHANGED worker, SlotsOK',
         policy' = policy, left'["scan"] = left["scan"],
         \A s \in Scan : (status'[s] = None) <=> (status[s] = None),
         \A s \in Scan : status'[s] = "queued" /\ heartbeat'[s] = None =>
           status[s] = "queued" /\ heartbeat[s] = None,
         \A s \in queue' : status[s] # None,
         \A q \in Requests : req'[q] \in {"dispatching", "published"} =>
           req[q] \in {"dispatching", "published"} /\ reqScan'[q] = reqScan[q],
         recovery' # "idle" => recovered' \in Scan /\ status[recovered'] # None,
         \A s \in Scan : intent'.saw[s] # None \/ orphans'[s] # None => status[s] # None
  PROVE  ScanInv'
<1>1. Rows'
  BY RowsKept DEF ScanTypeOK
<1>2. \A w \in Workers : TaskOK(w)'
  BY TaskKept DEF worker
<1>3. QueueLimit'
  BY QueueKept
<1> QED
  BY <1>1, <1>2, <1>3 DEF ScanInv

\* A task is delivered twice, a worker is slow, a task is received.
LEMMA DeliveryStep ==
  ASSUME ScanInv, NEW w \in Workers,
         Redeliver(w) \/ SlowWorker(w) \/ \E s \in Scan : Receive(w, s)
  PROVE  ScanInv'
<1>0. /\ ScanTypeOK /\ TaskOK(w) /\ left \in [Bounded -> Nat]
      /\ (recovery # "idle" => recovered \in Scan /\ status[recovered] # None)
      /\ \A s \in Scan : intent.saw[s] # None \/ orphans[s] # None => status[s] # None
      /\ \A s \in queue : status[s] # None
  BY DEF ScanInv, ScanTypeOK, Rows
<1> USE <1>0 DEF bounds, row, broker, redis, request, upkeep, Bounded
<1>1. CASE Redeliver(w)
  <2>1. left' \in [Bounded -> Nat] /\ policy' = policy /\ left'["scan"] = left["scan"]
    BY <1>1, Spent DEF Redeliver
  <2>2. job[w] \in Scan /\ status[job[w]] # None
    BY <1>1 DEF Redeliver, TaskOK
  <2>3. ScanTypeOK'
    BY <1>1, <2>1, <2>2 DEF ScanTypeOK, Redeliver, worker
  <2>4. SlotsOK'
    BY <1>1, <2>1, SlotsKept DEF Redeliver, Executes, worker
  <2> QED
    BY <1>1, <2>1, <2>2, <2>3, <2>4, OutsideStep DEF Redeliver
<1>2. CASE SlowWorker(w)
  <2>1. left' \in [Bounded -> Nat] /\ policy' = policy /\ left'["scan"] = left["scan"]
    BY <1>2, Spent DEF SlowWorker
  <2>2. ScanTypeOK'
    BY <1>2, <2>1 DEF ScanTypeOK, SlowWorker, worker
  <2>3. SlotsOK'
    BY <1>2, <2>1, SlotsKept DEF SlowWorker, Executes, worker
  <2>4. \A s \in Scan : heartbeat'[s] = None => heartbeat[s] = None
    BY <1>2 DEF SlowWorker, ScanTypeOK, None
  <2> QED
    BY <1>2, <2>1, <2>2, <2>3, <2>4, OutsideStep DEF SlowWorker
<1>3. ASSUME NEW s \in Scan, Receive(w, s) PROVE ScanInv'
  <2>1. /\ pc[w] = "idle" /\ s \in queue /\ queue' = queue \ {s}
        /\ job' = [job EXCEPT ![w] = s]
        /\ UNCHANGED <<bounds, row, assessment, operation, revoked, redis, seen, out, copy, then,
                       request, upkeep>>
    BY <1>3 DEF Receive, FirstIdle
  <2>2. /\ pc' \in [Workers -> WorkerStep] /\ pc'[w] = "entry"
        /\ \A v \in Workers \ {w} : pc'[v] = pc[v]
    BY <1>3, GotoEffect DEF Receive, WorkerStep
  <2>3. /\ job' \in [Workers -> Scan \cup {0}] /\ job'[w] = s
        /\ \A v \in Workers \ {w} : job'[v] = job[v]
    BY <2>1 DEF ScanTypeOK
  <2>4. ScanTypeOK'
    BY <2>1, <2>2, <2>3 DEF ScanTypeOK
  <2>5. Rows'
    BY <2>1, RowsKept DEF ScanInv, Rows, ScanTypeOK
  <2>6. ASSUME NEW v \in Workers PROVE TaskOK(v)'
    <3>1. CASE v = w
      BY <3>1, <2>1, <2>2, <2>3 DEF TaskOK
    <3>2. CASE v # w
      BY <3>2, <2>1, <2>2, <2>3, TaskKept
    <3> QED
      BY <3>1, <3>2
  <2>7. seen[w] = None
    BY <2>1 DEF TaskOK
  <2>8. SlotsOK'
    BY <2>1, <2>2, <2>3, <2>7, SlotsKept DEF Executes
  <2>9. QueueLimit'
    BY <2>1, QueueKept
  <2> QED
    BY <2>4, <2>5, <2>6, <2>8, <2>9 DEF ScanInv
<1> QED
  BY <1>1, <1>2, <1>3
--------------------------------------------------------------------------------
(***************************************************************************)
(* Steps of requests, of the operation, of time and upkeep.                *)
(***************************************************************************)

\* The admission of a scan.
LEMMA AdmissionStep ==
  ASSUME ScanInv, NEW q \in Requests, _dispatch_assessment_scan(q)
  PROVE  ScanInv'
<1>0. ScanTypeOK /\ Rows
  BY DEF ScanInv
<1>1. ScanTypeOK'
  BY DispatchType DEF Dispatch
<1> DEFINE new == MaxScan + 1 - left["scan"]
<1>2. /\ left' = [left EXCEPT !["scan"] = @ - 1] /\ left["scan"] > 0 /\ policy' = policy
      /\ status' = [status EXCEPT ![new] = "queued"]
      /\ reqScan' = [reqScan EXCEPT ![q] = new] /\ req' = [req EXCEPT ![q] = "dispatching"]
      /\ UNCHANGED <<cancelFlag, taskId, heartbeat, sessionDir, operation, broker, redis, worker, upkeep>>
  BY DEF _dispatch_assessment_scan, Spend
<1>3. new \in Scan /\ status[new] = None
  BY <1>0, <1>2, NewRow
<1>4. left["scan"] \in Nat /\ left'["scan"] = left["scan"] - 1
  BY <1>0, <1>2 DEF ScanTypeOK, Bounded
<1>5. status'[new] = "queued" /\ \A s \in Scan \ {new} : status'[s] = status[s]
  BY <1>0, <1>2, <1>3 DEF ScanTypeOK
<1>6. Rows'
  <2>1. left'["scan"] <= MaxScan
    BY <1>0, <1>4, ScanAssumption DEF Rows
  <2>2. \A s \in Scan : s > MaxScan - left'["scan"] => status'[s] = None
    BY <1>0, <1>4, <1>5, ScanAssumption DEF Rows, Scan
  <2>3. \A s \in queue' : status'[s] # None
    BY <1>0, <1>2, <1>5 DEF Rows, ScanTypeOK, broker, None
  <2>4. \A r \in Requests : req'[r] \in {"dispatching", "published"} =>
          reqScan'[r] \in Scan /\ status'[reqScan'[r]] # None
    <3> SUFFICES ASSUME NEW r \in Requests, req'[r] \in {"dispatching", "published"}
                 PROVE  reqScan'[r] \in Scan /\ status'[reqScan'[r]] # None
      OBVIOUS
    <3>1. CASE r = q
      BY <3>1, <1>0, <1>2, <1>3, <1>5 DEF ScanTypeOK, None
    <3>2. CASE r # q
      BY <3>2, <1>0, <1>2, <1>5 DEF ScanTypeOK, Rows, None
    <3> QED
      BY <3>1, <3>2
  <2>5. recovery' # "idle" => recovered' \in Scan /\ status'[recovered'] # None
    BY <1>0, <1>2, <1>5 DEF Rows, upkeep, None
  <2>6. \A s \in Scan : intent'.saw[s] # None \/ orphans'[s] # None => status'[s] # None
    BY <1>0, <1>2, <1>5 DEF Rows, upkeep, None
  <2> QED
    BY <2>1, <2>2, <2>3, <2>4, <2>5, <2>6 DEF Rows
<1>7. \A w \in Workers : TaskOK(w)'
  <2>1. \A s \in Scan : (status'[s] = None) => (status[s] = None)
    BY <1>3, <1>5
  <2> QED
    BY <1>2, <2>1, TaskKept DEF worker
<1>8. SlotsOK'
  BY <1>2, SlotsKept DEF redis, Executes, worker
<1>9. QueueLimit'
  <2> DEFINE Queued == {s \in Scan : status[s] = "queued"}
             Later == {s \in Scan : status'[s] = "queued" /\ heartbeat'[s] = None}
  <2>1. Cardinality(Queued) < policy.queued
    BY DEF _dispatch_assessment_scan, Admits, InStatus
  <2>2. Later \subseteq Queued \cup {new}
    BY <1>5
  <2>3. IsFiniteSet(Queued) /\ Cardinality(Queued) \in Nat
    BY FiniteScans
  <2>4. new \notin Queued
    BY <1>3 DEF None
  <2>5. Cardinality(Queued \cup {new}) = Cardinality(Queued) + 1 /\ IsFiniteSet(Queued \cup {new})
    BY <2>3, <2>4, FS_AddElement
  <2>6. Cardinality(Later) <= Cardinality(Queued) + 1 /\ Cardinality(Later) \in Nat
    BY <2>2, <2>5, FS_Subset, FiniteScans
  <2>7. policy.queued \in Nat
    BY <1>0 DEF ScanTypeOK, Policy
  <2>8. Cardinality(Later) <= policy'.queued
    BY <1>2, <2>1, <2>3, <2>6, <2>7
  <2> QED
    BY <2>8 DEF QueueLimit
<1> QED
  BY <1>1, <1>6, <1>7, <1>8, <1>9 DEF ScanInv

\* Requests that dispatch.
LEMMA DispatchStep ==
  ASSUME ScanInv, NEW q \in Requests, Dispatch(q)
  PROVE  ScanInv'
<1>0. /\ ScanTypeOK /\ ScanTypeOK'
      /\ (recovery # "idle" => recovered \in Scan /\ status[recovered] # None)
      /\ \A s \in Scan : intent.saw[s] # None \/ orphans[s] # None => status[s] # None
      /\ \A s \in queue : status[s] # None
  BY DispatchType DEF ScanInv, Rows
<1> USE <1>0 DEF bounds, row, broker, redis, request, upkeep
<1>1. CASE rescan_assessment(q) \/ retry_scan_execution(q) \/ dispatch_due_schedules(q) \/ RefuseDispatch(q)
  <2>1. /\ UNCHANGED <<bounds, row, assessment, operation, broker, redis, worker, reqScan, upkeep>>
        /\ \E step \in {"idle", "checked"} : req' = [req EXCEPT ![q] = step]
    BY <1>1 DEF rescan_assessment, retry_scan_execution, dispatch_due_schedules, Checked, RefuseDispatch
  <2>2. SlotsOK'
    BY <2>1, SlotsKept DEF Executes, worker
  <2>3. \A r \in Requests : req'[r] \in {"dispatching", "published"} => req[r] \in {"dispatching", "published"}
    BY <2>1 DEF ScanTypeOK
  <2> QED
    BY <2>1, <2>2, <2>3, OutsideStep
<1>2. CASE _dispatch_assessment_scan(q)
  BY <1>2, AdmissionStep
<1>3. CASE SubmitTask(q)
  <2>1. SlotsOK'
    BY <1>3, SlotsKept DEF SubmitTask, Executes, worker
  <2>2. reqScan[q] \in Scan /\ status[reqScan[q]] # None
    BY <1>3 DEF SubmitTask, ScanInv, Rows
  <2>3. \A r \in Requests : req'[r] \in {"dispatching", "published"} => req[r] \in {"dispatching", "published"}
    BY <1>3 DEF SubmitTask, ScanTypeOK
  <2> QED
    BY <1>3, <2>1, <2>2, <2>3, OutsideStep DEF SubmitTask
<1>4. CASE DispatchFailed(q) \/ RecordTask(q) \/ ApiCrash(q)
  <2>1. /\ req[q] \in {"dispatching", "published"}
        /\ req' = [req EXCEPT ![q] = "idle"] /\ reqScan' = [reqScan EXCEPT ![q] = 0]
        /\ UNCHANGED <<operation, broker, redis, worker, upkeep, heartbeat>>
        /\ status' = status \/ status' = [status EXCEPT ![reqScan[q]] = "failed"]
    BY <1>4 DEF DispatchFailed, RecordTask, ApiCrash
  <2>2. policy' = policy /\ left'["scan"] = left["scan"]
    BY <1>4, Spent DEF DispatchFailed, RecordTask, ApiCrash, Bounded
  <2>3. SlotsOK'
    BY <2>1, <2>2, SlotsKept DEF Executes, worker
  <2>4. reqScan[q] \in Scan /\ status[reqScan[q]] # None
    BY <2>1 DEF ScanInv, Rows
  <2>5. \A s \in Scan : /\ (status'[s] = None) <=> (status[s] = None)
                        /\ status'[s] = "queued" => status[s] = "queued"
    BY <2>1, <2>4 DEF ScanTypeOK, None
  <2>6. \A r \in Requests : req'[r] \in {"dispatching", "published"} =>
          req[r] \in {"dispatching", "published"} /\ reqScan'[r] = reqScan[r]
    BY <2>1 DEF ScanTypeOK
  <2> QED
    BY <2>1, <2>2, <2>3, <2>5, <2>6, OutsideStep
<1> QED
  BY <1>1, <1>2, <1>3, <1>4 DEF Dispatch


\* Cancellation, the operation and its stop.
LEMMA ControlStep ==
  ASSUME ScanInv, Control
  PROVE  ScanInv'
<1>0. /\ ScanTypeOK /\ ScanTypeOK'
      /\ (recovery # "idle" => recovered \in Scan /\ status[recovered] # None)
      /\ \A s \in Scan : intent.saw[s] # None \/ orphans[s] # None => status[s] # None
      /\ \A s \in queue : status[s] # None
  BY ControlType DEF ScanInv, Rows
<1>1. UNCHANGED <<heartbeat, queue, redis, worker, request, orphans, recovery, recovered>>
  BY DEF Control, cancel_assessment_scan, transition_operation_workspace, emergency_stop,
     CommitIntent, IntentLost, row, broker, upkeep
<1>2. policy' = policy /\ left'["scan"] = left["scan"]
  BY <1>0, Spent DEF Control, cancel_assessment_scan, transition_operation_workspace,
     emergency_stop, CommitIntent, IntentLost, Bounded, bounds
<1>3. SlotsOK'
  BY <1>1, <1>2, SlotsKept DEF redis, Executes, worker
<1>4. \A s \in Scan : /\ (status'[s] = None) <=> (status[s] = None)
                      /\ status'[s] = "queued" => status[s] = "queued"
  <2>1. CASE CommitIntent
    BY <1>0, <2>1 DEF CommitIntent, None
  <2>2. CASE status' = status
    BY <2>2
  <2> QED
    BY <2>1, <2>2 DEF Control, cancel_assessment_scan, transition_operation_workspace,
       emergency_stop, IntentLost, row
<1>5. \A s \in Scan : intent'.saw[s] # None => status[s] # None
  <2>1. CASE cancel_assessment_scan \/ emergency_stop
    BY <2>1 DEF cancel_assessment_scan, emergency_stop, ActiveScans, Active, None
  <2>2. CASE CommitIntent \/ IntentLost
    BY <2>2 DEF CommitIntent, IntentLost, NoIntent
  <2>3. CASE transition_operation_workspace
    BY <1>0, <2>3 DEF transition_operation_workspace, upkeep
  <2> QED
    BY <2>1, <2>2, <2>3 DEF Control
<1> QED
  BY <1>0, <1>1, <1>2, <1>3, <1>4, <1>5, OutsideStep DEF request

\* Time and upkeep.
LEMMA UpkeepStep ==
  ASSUME ScanInv, Upkeep
  PROVE  ScanInv'
<1>0. /\ ScanTypeOK /\ left \in [Bounded -> Nat]
      /\ (recovery # "idle" => recovered \in Scan /\ status[recovered] # None)
      /\ \A s \in Scan : intent.saw[s] # None \/ orphans[s] # None => status[s] # None
      /\ \A s \in queue : status[s] # None
  BY DEF ScanInv, Rows, ScanTypeOK
<1> USE <1>0 DEF bounds, row, broker, request, upkeep
<1>1. ASSUME NEW s \in Scan, SlotLapses(s) PROVE ScanInv'
  <2>1. ScanTypeOK'
    BY <1>1 DEF SlotLapses, ScanTypeOK, worker
  <2>2. Cardinality(slots') <= Cardinality(slots) /\ Cardinality(slots') \in Nat /\ Cardinality(slots) \in Nat
    BY <1>1, FiniteScans, FS_Subset DEF SlotLapses, ScanTypeOK
  <2>3. SlotsOK'
    BY <1>1, <2>2 DEF SlotLapses, ScanInv, SlotsOK, Executes, worker, ScanTypeOK, Policy
  <2> QED
    BY <1>1, <2>1, <2>3, OutsideStep DEF SlotLapses
<1>2. CASE SlotKeyExpires
  <2>1. left' \in [Bounded -> Nat] /\ policy' = policy /\ left'["scan"] = left["scan"]
    BY <1>2, Spent DEF SlotKeyExpires, Bounded
  <2>2. ScanTypeOK'
    BY <1>2, <2>1 DEF SlotKeyExpires, ScanTypeOK, worker
  <2>3. Cardinality(slots') = 0
    BY <1>2, FS_EmptySet DEF SlotKeyExpires
  <2>4. SlotsOK'
    BY <1>2, <2>1, <2>3 DEF SlotKeyExpires, ScanInv, SlotsOK, Executes, worker, ScanTypeOK, Policy
  <2> QED
    BY <1>2, <2>1, <2>2, <2>4, OutsideStep DEF SlotKeyExpires
<1>3. CASE CommitReconcile
  <2>1. ScanTypeOK'
    BY <1>3 DEF CommitReconcile, ScanTypeOK, redis, worker, Status, Terminal
  <2>2. SlotsOK'
    BY <1>3, SlotsKept DEF redis, CommitReconcile, Executes, worker
  <2>3. \A s \in Scan : /\ (status'[s] = None) <=> (status[s] = None)
                        /\ status'[s] = "queued" => status[s] = "queued"
    BY <1>3 DEF CommitReconcile, None
  <2>4. \A s \in Scan : orphans'[s] = None
    BY <1>3 DEF CommitReconcile
  <2> QED
    BY <1>3, <2>1, <2>2, <2>3, <2>4, OutsideStep DEF CommitReconcile
<1>4. CASE reconcile_stale_scans
  <2>1. ScanTypeOK'
    BY <1>4 DEF reconcile_stale_scans, ScanTypeOK, redis, worker
  <2>2. SlotsOK'
    BY <1>4, SlotsKept DEF redis, reconcile_stale_scans, Executes, worker
  <2>3. \A s \in Scan : orphans'[s] # None => status[s] # None
    BY <1>4 DEF reconcile_stale_scans, None
  <2> QED
    BY <1>4, <2>1, <2>2, <2>3, OutsideStep DEF reconcile_stale_scans
<1>5. CASE RecoveryFails \/ RecoveryCompletes
  <2>1. ScanTypeOK'
    BY <1>5 DEF RecoveryFails, RecoveryCompletes, ScanTypeOK, redis, worker, Status, Terminal
  <2>2. SlotsOK'
    BY <1>5, SlotsKept DEF redis, RecoveryFails, RecoveryCompletes, Executes, worker
  <2>3. \A s \in Scan : /\ (status'[s] = None) <=> (status[s] = None)
                        /\ status'[s] = "queued" => status[s] = "queued"
    BY <1>5 DEF RecoveryFails, RecoveryCompletes, ScanTypeOK, None
  <2> QED
    BY <1>5, <2>1, <2>2, <2>3, OutsideStep DEF RecoveryFails, RecoveryCompletes
<1>6. ASSUME NEW s \in Scan, retry_scan_ingestion(s) PROVE ScanInv'
  <2>1. left' \in [Bounded -> Nat] /\ policy' = policy /\ left'["scan"] = left["scan"]
    BY <1>6, Spent DEF retry_scan_ingestion, Bounded
  <2>2. ScanTypeOK'
    BY <1>6, <2>1 DEF retry_scan_ingestion, ScanTypeOK, redis, worker
  <2>3. SlotsOK'
    BY <1>6, <2>1, SlotsKept DEF redis, retry_scan_ingestion, Executes, worker
  <2>4. status[s] # None
    BY <1>6 DEF retry_scan_ingestion, Terminal, None
  <2> QED
    BY <1>6, <2>1, <2>2, <2>3, <2>4, OutsideStep DEF retry_scan_ingestion
<1>7. ASSUME NEW s \in Scan, Discard(s) \/ HeartbeatAges(s) \/ retention_maintenance_task(s) PROVE ScanInv'
  <2>1. ScanTypeOK'
    BY <1>7 DEF Discard, HeartbeatAges, retention_maintenance_task, ScanTypeOK, redis, worker
  <2>2. SlotsOK'
    BY <1>7, SlotsKept DEF redis, Discard, HeartbeatAges, retention_maintenance_task, Executes, worker
  <2>3. \A t \in Scan : heartbeat'[t] = None => heartbeat[t] = None
    BY <1>7 DEF Discard, HeartbeatAges, retention_maintenance_task, ScanTypeOK, None
  <2> QED
    BY <1>7, <2>1, <2>2, <2>3, OutsideStep DEF Discard, HeartbeatAges, retention_maintenance_task
<1>8. ASSUME NEW s \in Scan, SlotOutlived(s) PROVE ScanInv'
  <2>1. left' \in [Bounded -> Nat] /\ policy' = policy /\ left'["scan"] = left["scan"]
    BY <1>8, Spent DEF SlotOutlived, Bounded
  <2>2. ScanTypeOK'
    BY <1>8, <2>1 DEF SlotOutlived, ScanTypeOK, worker
  <2>3. Cardinality(slots') <= Cardinality(slots) /\ Cardinality(slots') \in Nat /\ Cardinality(slots) \in Nat
    BY <1>8, FiniteScans, FS_Subset DEF SlotOutlived, ScanTypeOK
  <2>4. SlotsOK'
    BY <1>8, <2>1, <2>3 DEF SlotOutlived, ScanInv, SlotsOK, Executes, worker, ScanTypeOK, Policy
  <2> QED
    BY <1>8, <2>1, <2>2, <2>4, OutsideStep DEF SlotOutlived
<1> QED
  BY <1>1, <1>2, <1>3, <1>4, <1>5, <1>6, <1>7, <1>8 DEF Upkeep

\* Every step of the scan lifecycle.
LEMMA ScanStep ==
  ASSUME ScanInv, ScanNext
  PROVE  ScanInv'
<1>1. ASSUME NEW w \in Workers, Execute(w) PROVE ScanInv'
  BY <1>1, WriteStep, LocalSteps, AcquireStep, LeaveSteps, ClaimStep DEF Execute
<1>2. ASSUME NEW w \in Workers, Disturb(w) \/ SlowWorker(w) \/ \E s \in Scan : Receive(w, s) PROVE ScanInv'
  BY <1>2, LocalSteps, LeaveSteps, DeliveryStep DEF Disturb
<1> QED
  BY <1>1, <1>2, DispatchStep, ControlStep, UpkeepStep DEF ScanNext
--------------------------------------------------------------------------------
(***************************************************************************)
(* Steps of the report jobs.                                               *)
(***************************************************************************)

\* What queueing a report does to the report and to the scan's metadata.
Queueing(s, t, c) ==
  \/ LoadScan(s, t, c)
  \/ _enqueue_automatic_scan_report_format(s, t, c)
  \/ SkipReport(c)
  \/ PublishReport(s, t, c)

\* Queueing a report: the read, the row, nothing, or the message.
LEMMA QueueType ==
  ASSUME ReportTypeOK, ReportersOK, ScanTypeOK, NEW s \in Scan, NEW t \in Outcome,
         NEW c \in Queuer, Queueing(s, t, c),
         backfill' \in {"idle", "report", "publish"}, backfilled' \in Scan \cup {0},
         backfill' # "idle" => backfilled' \in Scan
  PROVE  ReportTypeOK' /\ ReportersOK' /\ cancelFlag' \in [Scan -> BOOLEAN]
<1>0. cancelFlag \in [Scan -> BOOLEAN]
  BY DEF ScanTypeOK
<1> USE <1>0 DEF artifact
<1>1. CASE _enqueue_automatic_scan_report_format(s, t, c)
  <2>1. /\ attempt' \in [Scan -> Nat] /\ scope' \in [Queuer -> Nat]
        /\ overtaken' \subseteq Scan /\ loaded' \in [Queuer -> {None, "plain", "cancel"}]
        /\ cancelFlag' \in [Scan -> BOOLEAN]
    BY <1>1 DEF _enqueue_automatic_scan_report_format, ReportTypeOK
  <2> QED
    BY <1>1, <2>1 DEF _enqueue_automatic_scan_report_format, ReportTypeOK, ReportersOK
<1>2. CASE LoadScan(s, t, c) \/ SkipReport(c)
  <2>1. loaded' \in [Queuer -> {None, "plain", "cancel"}]
    BY <1>2 DEF LoadScan, SkipReport, ReportTypeOK
  <2> QED
    BY <1>2, <2>1 DEF LoadScan, SkipReport, ReportTypeOK, ReportersOK
<1>3. CASE PublishReport(s, t, c)
  <2>1. /\ attempt' \in [Scan -> Nat] /\ scope' \in [Queuer -> Nat]
        /\ wanted' \in [Scan -> Outcome \cup {None}]
        /\ overtaken' \subseteq Scan
        /\ UNCHANGED <<aged, renderer, rendered, loaded, outside, retracting, cancelFlag>>
    BY <1>3 DEF PublishReport, ReportTypeOK
  <2>2. CASE SendJob(s)
    <3>1. jobs' \in [Scan \X Retry -> Nat]
      BY <2>2, ReportAssumption DEF SendJob, ReportTypeOK, Retry
    <3> QED
      BY <2>1, <2>2, <3>1 DEF SendJob, ReportTypeOK, ReportersOK
  <2>3. CASE RenderInline(s)
    <3>1. /\ report' \in [Scan -> {None, "generating", "ready", "failed", "cancelled"}]
          /\ content' \in [Scan -> Status \cup {None}]
          /\ jobs' = jobs
      <4>1. status[s] \in Status \cup {None}
        BY DEF ScanTypeOK
      <4>2. \/ report' = report \/ report' = [report EXCEPT ![s] = "ready"]
            \/ report' = [report EXCEPT ![s] = "failed"]
        BY <2>3 DEF RenderInline
      <4>3. content' = content \/ content' = [content EXCEPT ![s] = status[s]]
        BY <2>3 DEF RenderInline
      <4>4. report' \in [Scan -> {None, "generating", "ready", "failed", "cancelled"}]
        BY <4>2 DEF ReportTypeOK
      <4>5. content' \in [Scan -> Status \cup {None}]
        BY <4>1, <4>3 DEF ReportTypeOK
      <4> QED
        BY <2>3, <4>4, <4>5 DEF RenderInline
    <3> QED
      BY <2>1, <3>1 DEF ReportTypeOK, ReportersOK
  <2> QED
    BY <1>3, <2>2, <2>3 DEF PublishReport
<1> QED
  BY <1>1, <1>2, <1>3 DEF Queueing

\* A step that leaves the scans alone, their metadata and the budget aside.
LEMMA ScanUntouched ==
  ASSUME ScanInv, UNCHANGED lifecycle, cancelFlag' \in [Scan -> BOOLEAN],
         left' \in [Bounded -> Nat], left'["scan"] = left["scan"], policy' = policy
  PROVE  ScanInv'
<1> USE DEF lifecycle, fixed, broker, redis, request, upkeep
<1>1. ScanTypeOK'
  BY DEF ScanInv, ScanTypeOK, worker
<1>2. SlotsOK'
  BY SlotsKept DEF Executes, worker
<1> QED
  BY <1>1, <1>2, OutsideStep DEF ScanInv, Rows

\* The three ends of a report's queueing.
LEMMA QueueStep ==
  ASSUME IInv,
         (\E w \in Workers : _queue_terminal_document_report(w)) \/ QueueRecovered \/ QueueHistorical
  PROVE  IInv'
<1>0. /\ ScanInv /\ ScanTypeOK /\ ReportTypeOK /\ ReportersOK /\ left \in [Bounded -> Nat]
      /\ \A s \in Scan : intent.saw[s] # None \/ orphans[s] # None => status[s] # None
      /\ \A s \in queue : status[s] # None
      /\ recovery # "idle" => recovered \in Scan /\ status[recovered] # None
      /\ backfill # "idle" => backfilled \in Scan
  BY DEF IInv, ScanInv, ScanTypeOK, Rows, ReportersOK
<1> USE <1>0
<1>1. ASSUME Spend("report") \/ UNCHANGED bounds
      PROVE  left' \in [Bounded -> Nat] /\ left'["scan"] = left["scan"] /\ policy' = policy
  BY <1>1, Spent DEF bounds, Bounded
<1>2. ASSUME NEW w \in Workers, _queue_terminal_document_report(w) PROVE IInv'
  <2>1. PICK from \in {"report", "publish"}, to \in {"report", "publish", "ack"} :
          ReportStep(w, from, to) /\ (Spend("report") \/ UNCHANGED bounds)
    BY <1>2 DEF _queue_terminal_document_report, QueueReport
  <2>2. job[w] \in Scan /\ out[w] \in Outcome
    BY <2>1 DEF ReportStep, ScanInv, TaskOK, Outcome
  <2>3. Queueing(job[w], out[w], <<"worker", w>>) /\ UNCHANGED <<backfill, backfilled>>
    BY <1>2 DEF _queue_terminal_document_report, QueueReport, Queueing
  <2>4. <<"worker", w>> \in Queuer
    BY DEF Queuer
  <2>5. ReportTypeOK' /\ ReportersOK' /\ cancelFlag' \in [Scan -> BOOLEAN]
    BY <2>2, <2>3, <2>4, QueueType DEF ReportTypeOK, ReportersOK
  <2>6. ScanInv'
    BY <1>1, <2>1, <2>5, GotoStep DEF ReportStep, WorkerStep, ScanTypeOK
  <2> QED
    BY <2>5, <2>6 DEF IInv
<1>3. CASE QueueRecovered
  <2>1. PICK from \in {"report", "publish"}, to \in {"report", "publish", "idle"} :
          RecoveryStep(from, to) /\ (Spend("report") \/ UNCHANGED bounds)
    BY <1>3 DEF QueueRecovered, QueueReport
  <2>2. recovered \in Scan /\ status[recovered] # None
    BY <2>1 DEF RecoveryStep
  <2>3. Queueing(recovered, "recovered", <<"recovery", 0>>) /\ UNCHANGED <<backfill, backfilled>>
    BY <1>3 DEF QueueRecovered, QueueReport, Queueing
  <2>4. <<"recovery", 0>> \in Queuer
    BY DEF Queuer
  <2>5. ReportTypeOK' /\ ReportersOK' /\ cancelFlag' \in [Scan -> BOOLEAN]
    BY <2>2, <2>3, <2>4, QueueType DEF ReportTypeOK, ReportersOK, Outcome
  <2>6. ScanTypeOK'
    BY <1>1, <2>1, <2>2, <2>5 DEF RecoveryStep, ScanTypeOK, fixed, broker, redis, worker, request
  <2>7. SlotsOK'
    BY <1>1, <2>1, SlotsKept DEF RecoveryStep, Executes, redis, worker
  <2>8. ScanInv'
    BY <1>1, <2>1, <2>2, <2>6, <2>7, OutsideStep DEF RecoveryStep, fixed, broker, request
  <2> QED
    BY <2>5, <2>8 DEF IInv
<1>4. CASE QueueHistorical
  <2>1. PICK from \in {"report", "publish"}, to \in {"report", "publish", "idle"} :
          BackfillStep(from, to) /\ (Spend("report") \/ UNCHANGED bounds)
    BY <1>4 DEF QueueHistorical, QueueReport
  <2>2. UNCHANGED lifecycle
    BY <1>4 DEF QueueHistorical
  <2>3. Queueing(backfilled, "historical", <<"backfill", 0>>)
    BY <1>4 DEF QueueHistorical, QueueReport, Queueing
  <2>4. /\ backfill' \in {"idle", "report", "publish"} /\ backfilled \in Scan
        /\ backfilled' \in Scan \cup {0} /\ (backfill' # "idle" => backfilled' \in Scan)
    BY <2>1 DEF BackfillStep
  <2>5. <<"backfill", 0>> \in Queuer
    BY DEF Queuer
  <2>6. ReportTypeOK' /\ ReportersOK' /\ cancelFlag' \in [Scan -> BOOLEAN]
    BY <2>3, <2>4, <2>5, QueueType DEF Outcome
  <2> QED
    BY <1>1, <2>1, <2>2, <2>6, ScanUntouched DEF IInv
<1> QED
  BY <1>2, <1>3, <1>4

\* Rendering, cancelling and ageing of reports.
LEMMA RenderType ==
  ASSUME ReportTypeOK, ReportersOK, ScanTypeOK,
         \/ \E k \in Renderers : LoadReport(k) \/ StoreReport(k) \/ FailReport(k) \/ RendererCrash(k)
         \/ CommitRetract
         \/ \E s \in Scan : \/ cancel_report(s) \/ ReportAges(s) \/ backfill_missing_scan_reports(s)
                          \/ LeavesWindow(s)
  PROVE  ReportTypeOK' /\ ReportersOK'
<1> USE DEF artifact, queueing
<1>1. ASSUME NEW k \in Renderers, LoadReport(k) PROVE ReportTypeOK' /\ ReportersOK'
  <2>1. PICK s \in Scan, r \in Retry :
         /\ jobs[<<s, r>>] > 0
         /\ jobs' = [jobs EXCEPT ![<<s, r>>] = @ - 1]
         /\ \/ UNCHANGED <<renderer, rendered, overtaken>>
            \/ /\ report[s] \in {"generating", "failed"}
               /\ renderer' = [renderer EXCEPT ![k] = "render"]
               /\ rendered' = [rendered EXCEPT ![k] =
                    [scan |-> s, retry |-> r, report |-> report[s],
                     attempt |-> attempt[s], wanted |-> wanted[s],
                     content |-> status[s], cancel |-> cancelFlag[s]]]
               /\ overtaken' \in {overtaken, overtaken \cup {s}}
    BY <1>1 DEF LoadReport
  <2>2. jobs' \in [Scan \X Retry -> Nat]
    BY <2>1 DEF ReportTypeOK
  <2>3. UNCHANGED <<artifact, queueing, outside, retracting>>
    BY <1>1 DEF LoadReport
  <2>4. CASE UNCHANGED <<renderer, rendered, overtaken>>
    BY <2>2, <2>3, <2>4 DEF ReportTypeOK, ReportersOK
  <2>5. CASE ~UNCHANGED <<renderer, rendered, overtaken>>
    <3> DEFINE new == [scan |-> s, retry |-> r, report |-> report[s], attempt |-> attempt[s],
                       wanted |-> wanted[s], content |-> status[s], cancel |-> cancelFlag[s]]
    <3>1. new \in Render /\ new.scan = s
      BY <2>1, <2>5 DEF Render, ReportTypeOK, ScanTypeOK
    <3> HIDE DEF new
    <3>2. rendered' \in [Renderers -> Render] /\ \A j \in Renderers : j # k => rendered'[j] = rendered[j]
      BY <2>1, <2>5, <3>1 DEF ReportTypeOK, new
    <3>3. rendered'[k].scan \in Scan
      BY <2>1, <2>5 DEF ReportTypeOK
    <3> QED
      BY <2>1, <2>2, <2>3, <2>5, <3>2, <3>3 DEF ReportTypeOK, ReportersOK
  <2> QED
    BY <2>4, <2>5
<1>2. NoRender \in Render
  BY ReportAssumption DEF NoRender, Render, Retry
<1>3. ASSUME NEW k \in Renderers, EndRender(k)
      PROVE  /\ renderer' \in [Renderers -> {"idle", "render"}] /\ rendered' \in [Renderers -> Render]
             /\ \A j \in Renderers : renderer'[j] = "render" => renderer[j] = "render" /\ rendered'[j] = rendered[j]
  BY <1>2, <1>3 DEF EndRender, ReportTypeOK
<1>4. ASSUME NEW k \in Renderers, StoreReport(k) PROVE ReportTypeOK' /\ ReportersOK'
  <2>1. rendered[k] \in Render /\ rendered[k].content \in Status \cup {None}
    BY DEF ReportTypeOK, Render
  <2> QED
    BY <1>3, <1>4, <2>1 DEF StoreReport, ReportTypeOK, ReportersOK
<1>5. ASSUME NEW k \in Renderers, FailReport(k) PROVE ReportTypeOK' /\ ReportersOK'
  <2>1. /\ rendered[k].scan \in Scan /\ rendered[k].retry \in Retry
        /\ rendered[k].attempt \in Nat /\ rendered[k].wanted \in Outcome \cup {None}
    BY <1>5 DEF FailReport, ReportTypeOK, ReportersOK, Render
  <2>2. rendered[k].retry # MaxRetries => rendered[k].retry + 1 \in Retry
    BY <2>1, ReportAssumption DEF Retry
  <2>3. jobs' \in [Scan \X Retry -> Nat]
    BY <1>5, <2>1, <2>2 DEF FailReport, ReportTypeOK
  <2> QED
    BY <1>3, <1>5, <2>1, <2>3 DEF FailReport, ReportTypeOK, ReportersOK
<1>6. ASSUME NEW k \in Renderers, RendererCrash(k) PROVE ReportTypeOK' /\ ReportersOK'
  <2>1. rendered[k].scan \in Scan /\ rendered[k].retry \in Retry
    BY <1>6 DEF RendererCrash, ReportTypeOK, ReportersOK, Render
  <2>2. jobs' \in [Scan \X Retry -> Nat]
    BY <1>6, <2>1 DEF RendererCrash, ReportTypeOK
  <2> QED
    BY <1>3, <1>6, <2>2 DEF RendererCrash, ReportTypeOK, ReportersOK
<1>7. CASE CommitRetract
  BY <1>7 DEF CommitRetract, ReportTypeOK, ReportersOK
<1>8. ASSUME NEW s \in Scan, \/ cancel_report(s) \/ ReportAges(s) \/ backfill_missing_scan_reports(s)
                             \/ LeavesWindow(s)
      PROVE  ReportTypeOK' /\ ReportersOK'
  BY <1>8 DEF cancel_report, ReportAges, backfill_missing_scan_reports, LeavesWindow, ReportTypeOK,
     ReportersOK
<1> QED
  BY <1>1, <1>4, <1>5, <1>6, <1>7, <1>8

\* What a renderer writes to a scan's metadata is what it read.
LEMMA RenderFlag ==
  ASSUME ReportTypeOK, ScanTypeOK, NEW k \in Renderers, Rendering(k) \/ FailReport(k)
  PROVE  cancelFlag' \in [Scan -> BOOLEAN]
<1>1. cancelFlag \in [Scan -> BOOLEAN] /\ rendered[k].cancel \in BOOLEAN
  BY DEF ScanTypeOK, ReportTypeOK, Render
<1>2. CASE LoadReport(k)
  BY <1>1, <1>2 DEF LoadReport
<1>3. CASE StoreReport(k)
  BY <1>1, <1>3 DEF StoreReport
<1>4. CASE FailReport(k)
  BY <1>1, <1>4 DEF FailReport
<1> QED
  BY <1>2, <1>3, <1>4 DEF Rendering

\* The initial states.
LEMMA Initially == Init => IInv
<1> SUFFICES ASSUME Init PROVE IInv
  OBVIOUS
<1>1. PICK i \in Instances : policy = i.policy /\ operation = i.operation /\ left = i.budget
  BY DEF Init, ScanInit
<1>2. /\ i.policy \in Policy /\ i.operation \in OperationStatus \cup {None}
      /\ i.budget \in [Bounded -> Nat] /\ i.budget["scan"] <= MaxScan
  BY ScanAssumption
<1>3. NoIntent \in Intent /\ NoRender \in Render
  BY ReportAssumption DEF NoIntent, Intent, NoRender, Render, Retry
<1>4. ScanTypeOK
  BY <1>1, <1>2, <1>3 DEF Init, ScanInit, ScanTypeOK, Status, Active, WorkerStep
<1>5. Rows
  BY <1>1, <1>2 DEF Init, ScanInit, Rows, NoIntent
<1>6. \A w \in Workers : TaskOK(w)
  BY DEF Init, ScanInit, TaskOK
<1>7. SlotsOK
  <2>1. Cardinality(slots) = 0
    BY FS_EmptySet DEF Init, ScanInit
  <2> QED
    BY <1>4, <2>1 DEF Init, ScanInit, SlotsOK, Executes, ScanTypeOK, Policy
<1>8. QueueLimit
  <2>1. {s \in Scan : status[s] = "queued" /\ heartbeat[s] = None} = {}
    BY DEF Init, ScanInit, None
  <2>2. Cardinality({s \in Scan : status[s] = "queued" /\ heartbeat[s] = None}) = 0
    BY <2>1, FS_EmptySet
  <2>3. policy.queued \in Nat
    BY <1>4 DEF ScanTypeOK, Policy
  <2> QED
    BY <2>2, <2>3 DEF QueueLimit
<1>9. ReportTypeOK /\ ReportersOK
  BY <1>3 DEF Init, ReportInit, ReportTypeOK, ReportersOK
<1> QED
  BY <1>4, <1>5, <1>6, <1>7, <1>8, <1>9 DEF IInv, ScanInv

\* Every step preserves the invariant.
LEMMA Inductive == IInv /\ [Next]_vars => IInv'
<1> SUFFICES ASSUME IInv, [Next]_vars PROVE IInv'
  OBVIOUS
<1>0. ScanInv /\ ScanTypeOK /\ ReportTypeOK /\ ReportersOK /\ left \in [Bounded -> Nat]
  BY DEF IInv, ScanInv, ScanTypeOK
<1> USE <1>0
<1>1. ASSUME UNCHANGED scanVars PROVE ScanInv'
  BY <1>1, ScanUntouched DEF scanVars, bounds, row, fixed, lifecycle, ScanTypeOK
<1>2. ASSUME UNCHANGED <<artifact, jobs, renderer, rendered, backfill, backfilled, scope, retracting>>,
             overtaken' \subseteq Scan, outside' \subseteq Scan,
             loaded' \in [Queuer -> {None, "plain", "cancel"}]
      PROVE  ReportTypeOK' /\ ReportersOK'
  BY <1>2 DEF artifact, ReportTypeOK, ReportersOK
<1>3. CASE UNCHANGED vars
  BY <1>1, <1>2, <1>3 DEF vars, reportVars, queueing, IInv, ReportTypeOK
<1>4. CASE ScanNext /\ NoReport
  <2>1. /\ overtaken' \subseteq Scan /\ outside' \subseteq Scan
        /\ loaded' \in [Queuer -> {None, "plain", "cancel"}]
    BY <1>4 DEF NoReport, ReportTypeOK
  <2> QED
    BY <1>2, <1>4, <2>1, ScanStep DEF IInv, NoReport
<1>5. CASE ReportNext
  <2>1. ASSUME (\E k \in Renderers : RendererLost(k))
               \/ \E s \in Scan : RetractReport(s) \/ NewerScansEnd(s)
        PROVE  IInv'
    <3>1. left' \in [Bounded -> Nat] /\ left'["scan"] = left["scan"] /\ policy' = policy
      BY <2>1, Spent DEF RendererLost, RetractReport, NewerScansEnd, Bounded
    <3>2. UNCHANGED lifecycle /\ cancelFlag' \in [Scan -> BOOLEAN]
      BY <2>1 DEF RendererLost, RetractReport, NewerScansEnd, ScanTypeOK
    <3>3. ReportTypeOK' /\ ReportersOK'
      BY <2>1, RenderType DEF RendererLost, RetractReport, NewerScansEnd
    <3> QED
      BY <3>1, <3>2, <3>3, ScanUntouched DEF IInv
  <2>2. ASSUME NEW k \in Renderers, Renders(Rendering(k)) \/ Renders(FailReport(k)) PROVE IInv'
    <3>1. cancelFlag' \in [Scan -> BOOLEAN] /\ ReportTypeOK' /\ ReportersOK'
      BY <2>2, RenderFlag, RenderType DEF Renders, Rendering
    <3> QED
      BY <2>2, <3>1, ScanUntouched DEF Renders, IInv, bounds
  <2>3. ASSUME UNCHANGED scanVars,
               CommitRetract \/ \E s \in Scan : ReportAges(s) \/ backfill_missing_scan_reports(s)
        PROVE  IInv'
    BY <1>1, <2>3, RenderType DEF IInv
  <2> QED
    BY <1>5, QueueStep, <2>1, <2>2, <2>3 DEF ReportNext
<1> QED
  BY <1>3, <1>4, <1>5 DEF Next

\* The invariant holds in every reachable state.
THEOREM Invariant == Spec => []IInv
  BY Initially, Inductive, PTL DEF Spec

\* Every variable has its type in every reachable state.
THEOREM TypeCorrect == Spec => []TypeOK
<1>1. IInv => TypeOK
  BY DEF IInv, ScanInv, TypeOK
<1> QED
  BY <1>1, Invariant, PTL

\* The scans that execute hold a slot, or had one taken from under them; the
\* slots are within the policy, so the executions with a slot are.
THEOREM Slots == Spec => []SlotLimit
<1>1. ASSUME IInv PROVE SlotLimit
  <2> DEFINE Executing == {s \in Scan : \E w \in Workers : Executes(w, s)}
  <2>1. Executing \ unslotted \subseteq slots /\ slots \subseteq Scan
    BY <1>1 DEF IInv, ScanInv, SlotsOK, ScanTypeOK
  <2>2. Cardinality(Executing \ unslotted) <= Cardinality(slots)
    BY <2>1, FiniteScans, FS_Subset
  <2>3. /\ Cardinality(Executing \ unslotted) \in Nat /\ Cardinality(slots) \in Nat
        /\ policy.active \in Nat /\ Cardinality(slots) <= policy.active
    BY <1>1, <2>1, FiniteScans DEF IInv, ScanInv, SlotsOK, ScanTypeOK, Policy
  <2> QED
    BY <2>2, <2>3 DEF SlotLimit
<1> QED
  BY <1>1, Invariant, PTL

\* The admission under the advisory lock keeps the tenant's queue within its
\* limit, whatever the requests checked before they had the lock.
THEOREM Queue == Spec => []QueueLimit
<1>1. IInv => QueueLimit
  BY DEF IInv, ScanInv
<1> QED
  BY <1>1, Invariant, PTL
--------------------------------------------------------------------------------
(***************************************************************************)
(* Scans that are over.                                                    *)
(***************************************************************************)

\* What Over asks of the worker w, once it has the task of a scan that ended.
Spectator(w) ==
  \/ pc[w] \in {"entry", "read", "claim", "report", "publish", "ack"}
  \/ pc[w] = "slot" /\ seen[w] \in Terminal
  \/ pc[w] = "write" /\ then[w] = "claim" /\ out[w] \in Terminal
  \/ pc[w] = "write" /\ then[w] = "report" /\ out[w] = "cancelled"

\* A step outside the workers must leave the scan a terminal status.
LEMMA OverOutside ==
  ASSUME NEW s \in Scan, Over(s), UNCHANGED worker, status'[s] \in Terminal
  PROVE  Over(s)'
  BY DEF Over, worker

\* A step of w must besides leave w a spectator, or without the task.
LEMMA OverWorker ==
  ASSUME NEW s \in Scan, NEW w \in Workers, Over(s), status'[s] \in Terminal,
         \A v \in Workers \ {w} : /\ pc'[v] = pc[v] /\ job'[v] = job[v] /\ seen'[v] = seen[v]
                                  /\ out'[v] = out[v] /\ then'[v] = then[v],
         job'[w] = s => Spectator(w)'
  PROVE  Over(s)'
<1>1. ASSUME NEW v \in Workers, job'[v] = s PROVE Spectator(v)'
  <2>1. CASE v = w
    BY <1>1, <2>1
  <2>2. CASE v # w
    BY <1>1, <2>2 DEF Over, Spectator
  <2> QED
    BY <2>1, <2>2
<1> QED
  BY <1>1 DEF Over, Spectator

\* A worker that leaves its task has none.
LEMMA OverLeave ==
  ASSUME ScanTypeOK, NEW s \in Scan, NEW w \in Workers, Over(s), status'[s] \in Terminal, Leave(w)
  PROVE  Over(s)'
<1>1. job'[w] # s
  BY LeaveEffect DEF Scan
<1> QED
  BY <1>1, LeaveEffect, OverWorker

\* A worker that only moves, or reads for a write, and is a spectator afterwards
\* if it has the task.
LEMMA OverLocal ==
  ASSUME ScanInv, NEW s \in Scan, NEW w \in Workers, Over(s),
         \/ Enter(w) \/ ReadStatus(w) \/ CheckCancel(w) \/ Start(w) \/ Progress(w)
         \/ StopScanner(w) \/ RecordCancelled(w) \/ ScannerExits(w) \/ Seal(w)
         \/ _ingest_scan_results(w) \/ Close(w) \/ RecordOutcome(w) \/ Raise(w) \/ RecordFailed(w)
         \/ acquire_execution_lease(w)
  PROVE  Over(s)'
<1>0. /\ ScanTypeOK /\ status[s] \in Terminal
      /\ job[w] = s => Spectator(w)
  BY DEF ScanInv, Over, Spectator
<1>1. /\ status' = status /\ job' = job
      /\ \A v \in Workers \ {w} : /\ pc'[v] = pc[v] /\ seen'[v] = seen[v]
                                  /\ out'[v] = out[v] /\ then'[v] = then[v]
  <2>1. CASE \/ Enter(w) \/ CheckCancel(w) \/ Start(w) \/ Progress(w) \/ RecordCancelled(w)
             \/ Seal(w) \/ _ingest_scan_results(w) \/ RecordOutcome(w) \/ RecordFailed(w)
    BY <1>0, <2>1 DEF Enter, CheckCancel, Start, Progress, RecordCancelled, Seal,
       _ingest_scan_results, RecordOutcome, RecordFailed, Update, Goto, ScanTypeOK, row
  <2>2. CASE ReadStatus(w) \/ StopScanner(w) \/ ScannerExits(w) \/ Close(w) \/ Raise(w)
    BY <1>0, <2>2 DEF ReadStatus, StopScanner, ScannerExits, Close, Raise, Goto, ScanTypeOK, row
  <2>3. CASE acquire_execution_lease(w)
    BY <1>0, <2>3 DEF acquire_execution_lease, Update, Goto, ScanTypeOK, row
  <2> QED
    BY <2>1, <2>2, <2>3
<1>2. ASSUME job[w] = s PROVE Spectator(w)'
  <2>1. CASE Enter(w)
    <3>1. CASE Update(w, "cancelled", "report")
      BY <1>0, <3>1 DEF Update, Goto, Spectator, ScanTypeOK, Terminal
    <3>2. CASE Goto(w, "read")
      BY <1>0, <3>2 DEF Goto, Spectator, ScanTypeOK
    <3> QED
      BY <2>1, <3>1, <3>2 DEF Enter
  <2>2. CASE ReadStatus(w)
    BY <1>0, <1>2, <2>2 DEF ReadStatus, Goto, Spectator, ScanTypeOK
  <2>3. CASE acquire_execution_lease(w)
    <3>1. seen[w] \in Terminal
      BY <1>0, <1>2, <2>3 DEF acquire_execution_lease, Spectator
    <3>2. CASE Update(w, seen[w], "claim")
      BY <1>0, <3>1, <3>2 DEF Update, Goto, Spectator, ScanTypeOK
    <3>3. CASE Goto(w, "claim")
      BY <1>0, <3>3 DEF Goto, Spectator, ScanTypeOK
    <3> QED
      BY <2>3, <3>2, <3>3 DEF acquire_execution_lease
  <2>4. pc[w] \notin {"check", "start", "loop", "stop", "post", "ingest", "close", "closing", "fail"}
    BY <1>0, <1>2 DEF Spectator
  <2> QED
    BY <2>1, <2>2, <2>3, <2>4 DEF CheckCancel, Start, Progress, StopScanner, RecordCancelled,
       ScannerExits, Seal, _ingest_scan_results, Close, RecordOutcome, Raise, RecordFailed
<1> QED
  BY <1>0, <1>1, <1>2, OverWorker

\* Steps of a worker that write, take, leave or acknowledge.
LEMMA OverExecute ==
  ASSUME ScanInv, NEW s \in Scan, NEW w \in Workers, Over(s),
         \/ Execute(w) \/ Disturb(w) \/ SlowWorker(w) \/ \E t \in Scan : Receive(w, t)
  PROVE  Over(s)'
<1>0. /\ ScanTypeOK /\ TaskOK(w) /\ status[s] \in Terminal
      /\ job[w] = s => Spectator(w)
  BY DEF ScanInv, Over, Spectator
<1> USE DEF row
<1>1. CASE _update_scan_row(w)
  <2>1. status'[s] \in Terminal
    BY <1>0, <1>1 DEF _update_scan_row, Spectator, ScanTypeOK, Terminal
  <2>2. job' = job /\ \A v \in Workers \ {w} :
          pc'[v] = pc[v] /\ seen'[v] = seen[v] /\ out'[v] = out[v] /\ then'[v] = then[v]
    BY <1>0, <1>1 DEF _update_scan_row, Goto, ScanTypeOK
  <2>3. job[w] = s => Spectator(w)'
    BY <1>0, <1>1 DEF _update_scan_row, Goto, Spectator, ScanTypeOK
  <2> QED
    BY <2>1, <2>2, <2>3, OverWorker
<1>2. CASE _claim_scan_execution(w)
  <2>1. CASE Leave(w)
    BY <1>0, <1>2, <2>1, OverLeave DEF _claim_scan_execution
  <2>2. CASE ~Refused(status[job[w]]) /\ Goto(w, "check")
    <3>1. job[w] # s
      BY <1>0, <2>2 DEF Refused
    <3>2. UNCHANGED <<status, job, seen, out, then>>
      BY <1>2, <2>2 DEF _claim_scan_execution
    <3> QED
      BY <1>0, <2>2, <3>1, <3>2, OverWorker DEF Goto, ScanTypeOK
  <2> QED
    BY <1>2, <2>1, <2>2 DEF _claim_scan_execution
<1>3. CASE \/ RetryLater(w) \/ Acknowledge(w) \/ WorkerLost(w) \/ TaskFails(w)
           \/ ReleaseFails(w)
  BY <1>0, <1>3, OverLeave DEF RetryLater, Acknowledge, WorkerLost, TaskFails, ReleaseFails
<1>4. ASSUME NEW t \in Scan, Receive(w, t) PROVE Over(s)'
  <2>1. Spectator(w)'
    BY <1>0, <1>4 DEF Receive, Goto, Spectator, ScanTypeOK
  <2>2. UNCHANGED <<status, seen, out, then>> /\ \A v \in Workers \ {w} : pc'[v] = pc[v] /\ job'[v] = job[v]
    BY <1>0, <1>4 DEF Receive, Goto, ScanTypeOK
  <2> QED
    BY <1>0, <2>1, <2>2, OverWorker
<1>5. CASE Redeliver(w) \/ SlowWorker(w)
  BY <1>0, <1>5, OverOutside DEF Redeliver, SlowWorker
<1> QED
  BY <1>1, <1>2, <1>3, <1>4, <1>5, OverLocal DEF Execute, Disturb

\* Requests, cancellations, stops, the reconciler and recoveries write terminal
\* statuses only, but for the row a dispatch inserts, which is new.
LEMMA OverUpkeep ==
  ASSUME ScanInv, NEW s \in Scan, Over(s),
         (\E q \in Requests : Dispatch(q)) \/ Control \/ Upkeep
  PROVE  Over(s)'
<1>0. ScanTypeOK /\ Rows /\ status[s] \in Terminal
  BY DEF ScanInv, Over
<1> USE DEF row
<1>1. ASSUME NEW q \in Requests, Dispatch(q) PROVE Over(s)'
  <2>1. CASE _dispatch_assessment_scan(q)
    <3>1. status[MaxScan + 1 - left["scan"]] = None
      BY <1>0, <2>1, NewRow DEF _dispatch_assessment_scan, Spend
    <3>2. None \notin Terminal
      BY DEF None, Terminal
    <3>3. status'[s] \in Terminal
      BY <1>0, <2>1, <3>1, <3>2 DEF _dispatch_assessment_scan, ScanTypeOK
    <3> QED
      BY <2>1, <3>3, OverOutside DEF _dispatch_assessment_scan
  <2>2. CASE DispatchFailed(q)
    <3>1. status'[s] \in Terminal
      BY <1>0, <2>2 DEF DispatchFailed, ScanTypeOK, Terminal
    <3> QED
      BY <2>2, <3>1, OverOutside DEF DispatchFailed
  <2>3. CASE \/ rescan_assessment(q) \/ retry_scan_execution(q) \/ dispatch_due_schedules(q)
             \/ RefuseDispatch(q) \/ SubmitTask(q) \/ RecordTask(q) \/ ApiCrash(q)
    BY <1>0, <2>3, OverOutside DEF rescan_assessment, retry_scan_execution, dispatch_due_schedules,
       Checked, RefuseDispatch, SubmitTask, RecordTask, ApiCrash
  <2> QED
    BY <1>1, <2>1, <2>2, <2>3 DEF Dispatch
<1>2. CASE Control
  <2>1. status'[s] \in Terminal /\ UNCHANGED worker
    BY <1>0, <1>2 DEF Control, cancel_assessment_scan, transition_operation_workspace, emergency_stop,
       CommitIntent, IntentLost, Terminal
  <2> QED
    BY <2>1, OverOutside
<1>3. CASE Upkeep
  <2>1. ASSUME CommitReconcile \/ RecoveryCompletes PROVE Over(s)'
    <3>1. status'[s] \in Terminal /\ UNCHANGED worker
      BY <1>0, <2>1 DEF CommitReconcile, RecoveryCompletes, ScanTypeOK, Terminal
    <3> QED
      BY <3>1, OverOutside
  <2>2. ASSUME \/ reconcile_stale_scans \/ RecoveryFails \/ SlotKeyExpires
               \/ \E t \in Scan : \/ Discard(t) \/ HeartbeatAges(t) \/ SlotLapses(t) \/ SlotOutlived(t)
                                  \/ retry_scan_ingestion(t) \/ retention_maintenance_task(t)
        PROVE  Over(s)'
    BY <1>0, <2>2, OverOutside DEF reconcile_stale_scans, RecoveryFails, SlotKeyExpires, Discard,
       HeartbeatAges, SlotLapses, SlotOutlived, retry_scan_ingestion, retention_maintenance_task
  <2> QED
    BY <1>3, <2>1, <2>2 DEF Upkeep
<1> QED
  BY <1>1, <1>2, <1>3

\* Reports never write a scan's status.
LEMMA OverReport ==
  ASSUME ScanInv, NEW s \in Scan, Over(s), ReportNext
  PROVE  Over(s)' /\ status' = status
<1>0. ScanTypeOK /\ status[s] \in Terminal
  BY DEF ScanInv, Over
<1> USE DEF row, fixed, lifecycle
<1>1. ASSUME NEW w \in Workers, _queue_terminal_document_report(w) PROVE Over(s)' /\ status' = status
  <2>1. PICK from \in {"report", "publish"}, to \in {"report", "publish", "ack"} : ReportStep(w, from, to)
    BY <1>1 DEF _queue_terminal_document_report, QueueReport
  <2>2. Spectator(w)' /\ UNCHANGED <<status, job, seen, out, then>> /\ \A v \in Workers \ {w} : pc'[v] = pc[v]
    BY <1>0, <2>1 DEF ReportStep, Goto, Spectator, ScanTypeOK
  <2> QED
    BY <1>0, <2>2, OverWorker
<1>2. CASE UNCHANGED <<status, worker>>
  BY <1>0, <1>2, OverOutside
<1>3. QueueRecovered => UNCHANGED <<status, worker>>
  BY DEF QueueRecovered, QueueReport, RecoveryStep
<1>4. QueueHistorical => UNCHANGED <<status, worker>>
  BY DEF QueueHistorical
<1> QED
  BY <1>1, <1>2, <1>3, <1>4 DEF ReportNext, RendererLost, RetractReport, NewerScansEnd, Renders, scanVars

\* Who writes a success into a row: a worker with the scan's task, or a recovery.
LEMMA SuccessWrites ==
  ASSUME ScanTypeOK, ScanNext, NEW s \in Scan, status'[s] # status[s],
         status'[s] \in {"completed", "partial"}
  PROVE  \/ RecoveryCompletes /\ recovered = s
         \/ \E w \in Workers : _update_scan_row(w) /\ job[w] = s
<1> USE DEF row
<1>1. ASSUME NEW q \in Requests, Dispatch(q) PROVE FALSE
  BY <1>1 DEF Dispatch, rescan_assessment, retry_scan_execution, dispatch_due_schedules, Checked,
     RefuseDispatch, _dispatch_assessment_scan, SubmitTask, DispatchFailed, RecordTask, ApiCrash, ScanTypeOK
<1>2. CASE Control
  BY <1>2 DEF Control, cancel_assessment_scan, transition_operation_workspace, emergency_stop,
     CommitIntent, IntentLost
<1>3. ASSUME NEW w \in Workers, Execute(w) PROVE _update_scan_row(w) /\ job[w] = s
  <2>1. CASE _update_scan_row(w)
    BY <2>1 DEF _update_scan_row, ScanTypeOK
  <2>2. CASE ~_update_scan_row(w)
    BY <1>3, <2>2 DEF Execute, Enter, ReadStatus, acquire_execution_lease, RetryLater,
       _claim_scan_execution, CheckCancel, Start, StopScanner, RecordCancelled, ScannerExits, Seal,
       _ingest_scan_results, Close, RecordOutcome, RecordFailed, Acknowledge
  <2> QED
    BY <2>1, <2>2
<1>4. ASSUME NEW w \in Workers, Disturb(w) \/ SlowWorker(w) \/ \E t \in Scan : Receive(w, t) PROVE FALSE
  BY <1>4 DEF Disturb, Progress, Raise, TaskFails, ReleaseFails, WorkerLost, Redeliver, SlowWorker, Receive
<1>5. CASE Upkeep
  <2>1. CASE RecoveryCompletes
    BY <2>1 DEF RecoveryCompletes, ScanTypeOK
  <2>2. CASE ~RecoveryCompletes
    BY <1>5, <2>2 DEF Upkeep, reconcile_stale_scans, CommitReconcile, RecoveryFails, SlotKeyExpires,
       Discard, HeartbeatAges, SlotLapses, SlotOutlived, retry_scan_ingestion, retention_maintenance_task
  <2> QED
    BY <2>1, <2>2
<1> QED
  BY <1>1, <1>2, <1>3, <1>4, <1>5 DEF ScanNext

\* Who makes a success of a scan that is over.
LEMMA Rewriters ==
  ASSUME ScanInv, NEW s \in Scan, Over(s), ScanNext, Rewritten(s)
  PROVE  \/ recovery = "ingest" /\ recovery' = "report" /\ recovered = s
         \/ \E w \in Workers :
              /\ job[w] = s /\ pc[w] = "write" /\ then[w] = "claim"
              /\ out[w] = status'[s]
<1>1. ScanTypeOK /\ status'[s] # status[s] /\ status'[s] \in {"completed", "partial"}
  BY DEF ScanInv, Rewritten
<1>2. CASE RecoveryCompletes /\ recovered = s
  BY <1>2 DEF RecoveryCompletes
<1>3. ASSUME NEW w \in Workers, _update_scan_row(w), job[w] = s
      PROVE  pc[w] = "write" /\ then[w] = "claim" /\ out[w] = status'[s]
  <2>1. pc[w] = "write" /\ status'[s] = out[w]
    BY <1>1, <1>3 DEF _update_scan_row, ScanTypeOK
  <2> QED
    BY <1>1, <1>3, <2>1 DEF Over
<1> QED
  BY <1>1, <1>2, <1>3, SuccessWrites

\* A scan that has ended, and whose remaining deliveries all met it ended, never
\* becomes active again, and a success only by a recovery or a late write-back.
THEOREM Endings == Spec => TerminalForGood
<1> DEFINE Allowed(s) ==
      \/ recovery = "ingest" /\ recovery' = "report" /\ recovered = s
      \/ \E w \in Workers :
           /\ job[w] = s /\ pc[w] = "write" /\ then[w] = "claim"
           /\ out[w] = status'[s]
<1>1. ASSUME IInv, [Next]_vars, NEW s \in Scan, Over(s) PROVE Over(s)' /\ (Rewritten(s) => Allowed(s))
  <2>0. ScanInv
    BY <1>1 DEF IInv
  <2>1. CASE ScanNext
    <3>1. Over(s)'
      BY <1>1, <2>0, <2>1, OverExecute, OverUpkeep DEF ScanNext
    <3> QED
      BY <1>1, <2>0, <2>1, <3>1, Rewriters
  <2>2. CASE ReportNext
    BY <1>1, <2>0, <2>2, OverReport DEF Rewritten
  <2>3. CASE UNCHANGED vars
    BY <1>1, <2>3, OverOutside DEF vars, scanVars, row, Over, Rewritten
  <2> QED
    BY <1>1, <2>1, <2>2, <2>3 DEF Next
<1>2. IInv /\ [Next]_vars =>
        [\A s \in Scan : Over(s) =>
           /\ Over(s)'
           /\ Rewritten(s) =>
                \/ recovery = "ingest" /\ recovery' = "report" /\ recovered = s
                \/ \E w \in Workers :
                     /\ job[w] = s /\ pc[w] = "write" /\ then[w] = "claim"
                     /\ out[w] = status'[s]]_vars
  BY <1>1
<1> QED
  BY <1>2, Invariant, PTL DEF Spec, TerminalForGood
--------------------------------------------------------------------------------
(***************************************************************************)
(* Reports that show their scan's success.  What a report shows, or will   *)
(* show once a renderer stores it, is the status the row had when it was   *)
(* loaded.  As long as row and report were not written past each other,    *)
(* that is the success the report was queued for, if it was queued for     *)
(* one; so a success recorded later either is the same, or somebody is     *)
(* about to find that the report was queued for something else.            *)
(***************************************************************************)

AtWork(k, s) == renderer[k] = "render" /\ rendered[k].scan = s

\* The report of s shows c or is about to.
Holds(s, c) ==
  \/ report[s] = "ready" /\ content[s] = c
  \/ \E k \in Renderers : AtWork(k, s) /\ rendered[k].content = c

\* Somebody is about to queue the report of s for another success.
Reporter(s) ==
  \/ \E w \in Workers :
       job[w] = s /\ pc[w] = "report" /\ out[w] \in Success /\ out[w] # wanted[s]
  \/ recovery = "report" /\ recovered = s /\ wanted[s] # "recovered"

Traced(s) ==
  /\ \A k \in Renderers : AtWork(k, s) =>
       rendered[k].wanted = wanted[s] /\ report[s] # None
  /\ \A c \in Status \cup {None} : Holds(s, c) =>
       /\ wanted[s] \in Success => c = Shown(wanted[s])
       /\ left["report"] > 0 /\ status[s] \in {"completed", "partial"} =>
            c = status[s] \/ Reporter(s)

TracedInv == \A s \in Scan \ overtaken : Traced(s)

\* A step that gives a report nothing new to show, and takes away nobody who
\* would queue it again.
LEMMA StillTraced ==
  ASSUME NEW s \in Scan, Traced(s), wanted'[s] = wanted[s],
         report[s] # None => report'[s] # None,
         \A k \in Renderers : AtWork(k, s)' => AtWork(k, s) /\ rendered'[k] = rendered[k],
         \A c \in Status \cup {None} : Holds(s, c)' => Holds(s, c),
         left'["report"] > 0 => left["report"] > 0,
         left'["report"] > 0 /\ status'[s] \in {"completed", "partial"} =>
           \/ Reporter(s)'
           \/ status'[s] = status[s] /\ ~Reporter(s)
           \/ \A c \in Status \cup {None} : Holds(s, c) => c = status'[s]
  PROVE  Traced(s)'
<1>1. ASSUME NEW k \in Renderers, AtWork(k, s)'
      PROVE  rendered'[k].wanted = wanted'[s] /\ report'[s] # None
  BY <1>1 DEF Traced
<1>2. ASSUME NEW c \in Status \cup {None}, Holds(s, c)'
      PROVE  /\ wanted'[s] \in Success => c = Shown(wanted'[s])
             /\ left'["report"] > 0 /\ status'[s] \in {"completed", "partial"} =>
                  c = status'[s] \/ Reporter(s)'
  BY <1>2 DEF Traced
<1> QED
  BY <1>1, <1>2 DEF Traced, Shown

\* How a step may record a success, and that it loses no worker at its report.
Recorded(s) ==
  \/ status'[s] = status[s]
  \/ status'[s] \notin {"completed", "partial"}
  \/ \E w \in Workers : /\ job[w] = s /\ pc[w] = "write" /\ pc'[w] = "claim"
                        /\ out[w] = status'[s]
  \/ \E w \in Workers : job'[w] = s /\ pc'[w] = "report" /\ out'[w] = status'[s]
  \/ recovery' = "report" /\ recovered' = s /\ status'[s] = "completed"

Stays(s) ==
  /\ \A w \in Workers : job[w] = s /\ pc[w] = "report" =>
       \/ job'[w] = s /\ pc'[w] = "report" /\ out'[w] = out[w]
       \/ pc'[w] = "idle"
  /\ recovery = "report" => recovery' = "report" /\ recovered' = recovered
  /\ left'["report"] > 0 => left["report"] > 0

\* A budget is never topped up.
LEMMA BudgetShrinks ==
  ASSUME ScanTypeOK, (\E b \in Bounded : Spend(b)) \/ UNCHANGED bounds
  PROVE  left'["report"] > 0 => left["report"] > 0
<1>1. left \in [Bounded -> Nat] /\ "report" \in Bounded
  BY DEF ScanTypeOK, Bounded
<1>2. ASSUME NEW b \in Bounded, Spend(b) PROVE left'["report"] > 0 => left["report"] > 0
  BY <1>1, <1>2 DEF Spend
<1> QED
  BY <1>2 DEF bounds

\* Steps of a worker.
LEMMA RecordedByWorker ==
  ASSUME ScanInv, NEW s \in Scan, NEW w \in Workers,
         \/ Execute(w) \/ Disturb(w) \/ SlowWorker(w) \/ \E t \in Scan : Receive(w, t)
  PROVE  Recorded(s) /\ Stays(s)
<1>0. ScanTypeOK /\ TaskOK(w)
  BY DEF ScanInv
<1> USE DEF row
<1>1. CASE _update_scan_row(w)
  <2>1. /\ job' = job /\ pc[w] = "write" /\ pc'[w] = then[w] /\ then[w] \in Onward
        /\ \A v \in Workers \ {w} : pc'[v] = pc[v] /\ out'[v] = out[v]
        /\ then[w] = "report" => out'[w] = out[w]
        /\ then[w] \notin {"claim", "report"} => out[w] = "running"
        /\ status'[s] = IF s = job[w] THEN out[w] ELSE status[s]
        /\ UNCHANGED <<bounds, upkeep>>
    BY <1>0, <1>1 DEF _update_scan_row, Goto, TaskOK, ScanTypeOK
  <2>2. Recorded(s)
    BY <2>1 DEF Recorded
  <2>3. left'["report"] > 0 => left["report"] > 0
    BY <1>0, <2>1, BudgetShrinks
  <2> QED
    BY <2>1, <2>2, <2>3 DEF Stays, upkeep
<1>2. ASSUME status' = status, UNCHANGED upkeep,
             (\E b \in Bounded : Spend(b)) \/ UNCHANGED bounds,
             \A v \in Workers \ {w} : job'[v] = job[v] /\ pc'[v] = pc[v] /\ out'[v] = out[v],
             \/ pc[w] # "report" \/ pc'[w] = "idle"
             \/ pc'[w] = pc[w] /\ job'[w] = job[w] /\ out'[w] = out[w]
      PROVE  Recorded(s) /\ Stays(s)
  <2>1. left'["report"] > 0 => left["report"] > 0
    BY <1>0, <1>2, BudgetShrinks
  <2> QED
    BY <1>2, <2>1 DEF Recorded, Stays, upkeep
<1>3. CASE \/ Enter(w) \/ CheckCancel(w) \/ Start(w) \/ Progress(w) \/ RecordCancelled(w)
           \/ Seal(w) \/ _ingest_scan_results(w) \/ RecordOutcome(w) \/ RecordFailed(w)
  <2>1. /\ status' = status /\ UNCHANGED <<upkeep, bounds>> /\ pc[w] # "report"
        /\ \A v \in Workers \ {w} : job'[v] = job[v] /\ pc'[v] = pc[v] /\ out'[v] = out[v]
    BY <1>0, <1>3 DEF Enter, CheckCancel, Start, Progress, RecordCancelled, Seal,
       _ingest_scan_results, RecordOutcome, RecordFailed, Update, Goto, ScanTypeOK
  <2> QED
    BY <1>2, <2>1
<1>4. CASE ReadStatus(w) \/ StopScanner(w) \/ ScannerExits(w) \/ Close(w) \/ Raise(w)
  <2>1. /\ status' = status /\ UNCHANGED <<upkeep, bounds>> /\ pc[w] # "report"
        /\ \A v \in Workers \ {w} : job'[v] = job[v] /\ pc'[v] = pc[v] /\ out'[v] = out[v]
    BY <1>0, <1>4 DEF ReadStatus, StopScanner, ScannerExits, Close, Raise, Goto, ScanTypeOK
  <2> QED
    BY <1>2, <2>1
<1>5. CASE _claim_scan_execution(w)
  <2>1. CASE Leave(w) /\ UNCHANGED row
    BY <1>0, <1>2, <1>5, <2>1, LeaveEffect DEF _claim_scan_execution
  <2>2. CASE Goto(w, "check") /\ UNCHANGED <<status, job, out>>
    BY <1>0, <1>2, <1>5, <2>2 DEF _claim_scan_execution, Goto, ScanTypeOK
  <2> QED
    BY <1>5, <2>1, <2>2 DEF _claim_scan_execution
<1>6. CASE RetryLater(w) \/ Acknowledge(w)
  BY <1>0, <1>2, <1>6, LeaveEffect DEF RetryLater, Acknowledge
<1>7. CASE WorkerLost(w) \/ TaskFails(w) \/ ReleaseFails(w)
  <2>1. \E b \in Bounded : Spend(b)
    BY <1>7 DEF WorkerLost, TaskFails, ReleaseFails, Bounded
  <2> QED
    BY <1>0, <1>2, <1>7, <2>1, LeaveEffect DEF WorkerLost, TaskFails, ReleaseFails
<1>8. CASE Redeliver(w) \/ SlowWorker(w)
  <2>1. \E b \in Bounded : Spend(b)
    BY <1>8 DEF Redeliver, SlowWorker, Bounded
  <2> QED
    BY <1>2, <1>8, <2>1 DEF Redeliver, SlowWorker, worker
<1>9. ASSUME NEW t \in Scan, Receive(w, t) PROVE Recorded(s) /\ Stays(s)
  <2>1. /\ status' = status /\ UNCHANGED <<upkeep, bounds>> /\ pc[w] # "report"
        /\ \A v \in Workers \ {w} : job'[v] = job[v] /\ pc'[v] = pc[v] /\ out'[v] = out[v]
    BY <1>0, <1>9 DEF Receive, FirstIdle, Goto, ScanTypeOK
  <2> QED
    BY <1>2, <2>1
<1>10. CASE acquire_execution_lease(w)
  <2>1. /\ status' = status /\ UNCHANGED <<upkeep, bounds>> /\ pc[w] # "report"
        /\ \A v \in Workers \ {w} : job'[v] = job[v] /\ pc'[v] = pc[v] /\ out'[v] = out[v]
    BY <1>0, <1>10 DEF acquire_execution_lease, Update, Goto, ScanTypeOK
  <2> QED
    BY <1>2, <2>1
<1> QED
  BY <1>1, <1>3, <1>4, <1>5, <1>6, <1>7, <1>8, <1>9, <1>10 DEF Execute, Disturb

\* Steps of requests and of the upkeep: only a recovery records a success.
LEMMA RecordedOutside ==
  ASSUME ScanInv, NEW s \in Scan,
         (\E q \in Requests : Dispatch(q)) \/ Control \/ Upkeep
  PROVE  Recorded(s) /\ Stays(s)
<1>0. ScanTypeOK
  BY DEF ScanInv
<1> USE DEF row
<1>1. ASSUME UNCHANGED worker, (\E b \in Bounded : Spend(b)) \/ UNCHANGED bounds,
             recovery = "report" => recovery' = "report" /\ recovered' = recovered
      PROVE  Stays(s)
  <2>1. left'["report"] > 0 => left["report"] > 0
    BY <1>0, <1>1, BudgetShrinks
  <2> QED
    BY <1>1, <2>1 DEF Stays, worker
<1>2. ASSUME NEW q \in Requests, Dispatch(q) PROVE Recorded(s) /\ Stays(s)
  <2>1. CASE _dispatch_assessment_scan(q)
    <3>1. Recorded(s)
      BY <1>0, <2>1 DEF _dispatch_assessment_scan, Recorded, ScanTypeOK
    <3>2. \E b \in Bounded : Spend(b)
      BY <2>1 DEF _dispatch_assessment_scan, Bounded
    <3> QED
      BY <1>1, <2>1, <3>1, <3>2 DEF _dispatch_assessment_scan, upkeep
  <2>2. CASE DispatchFailed(q)
    <3>1. Recorded(s)
      BY <1>0, <2>2 DEF DispatchFailed, Recorded, ScanTypeOK
    <3> QED
      BY <1>1, <2>2, <3>1 DEF DispatchFailed, upkeep
  <2>3. CASE ApiCrash(q)
    <3>1. \E b \in Bounded : Spend(b)
      BY <2>3 DEF ApiCrash, Bounded
    <3> QED
      BY <1>1, <2>3, <3>1 DEF ApiCrash, Recorded, upkeep
  <2>4. CASE \/ rescan_assessment(q) \/ retry_scan_execution(q) \/ dispatch_due_schedules(q)
             \/ RefuseDispatch(q) \/ SubmitTask(q) \/ RecordTask(q)
    BY <1>1, <2>4 DEF rescan_assessment, retry_scan_execution, dispatch_due_schedules,
       Checked, RefuseDispatch, SubmitTask, RecordTask, Recorded, upkeep
  <2> QED
    BY <1>2, <2>1, <2>2, <2>3, <2>4 DEF Dispatch
<1>3. CASE Control
  <2>1. Recorded(s)
    BY <1>3 DEF Control, cancel_assessment_scan, transition_operation_workspace, emergency_stop,
       CommitIntent, IntentLost, Recorded
  <2>2. (\E b \in Bounded : Spend(b)) \/ UNCHANGED bounds
    BY <1>3 DEF Control, cancel_assessment_scan, transition_operation_workspace, emergency_stop,
       CommitIntent, IntentLost, Bounded
  <2>3. UNCHANGED <<worker, recovery, recovered>>
    BY <1>3 DEF Control, cancel_assessment_scan, transition_operation_workspace, emergency_stop,
       CommitIntent, IntentLost, upkeep
  <2> QED
    BY <1>1, <2>1, <2>2, <2>3
<1>4. CASE Upkeep
  <2>1. CASE CommitReconcile
    <3>1. Recorded(s)
      BY <2>1 DEF CommitReconcile, Recorded
    <3> QED
      BY <1>1, <2>1, <3>1 DEF CommitReconcile
  <2>2. CASE RecoveryCompletes
    <3>1. Recorded(s)
      BY <1>0, <2>2 DEF RecoveryCompletes, Recorded, ScanTypeOK
    <3> QED
      BY <1>1, <2>2, <3>1 DEF RecoveryCompletes
  <2>3. CASE reconcile_stale_scans \/ RecoveryFails
    BY <1>1, <2>3 DEF reconcile_stale_scans, RecoveryFails, Recorded
  <2>4. CASE SlotKeyExpires
    <3>1. \E b \in Bounded : Spend(b)
      BY <2>4 DEF SlotKeyExpires, Bounded
    <3> QED
      BY <1>1, <2>4, <3>1 DEF SlotKeyExpires, Recorded, upkeep
  <2>5. ASSUME NEW t \in Scan, retry_scan_ingestion(t) PROVE Recorded(s) /\ Stays(s)
    <3>1. \E b \in Bounded : Spend(b)
      BY <2>5 DEF retry_scan_ingestion, Bounded
    <3> QED
      BY <1>1, <2>5, <3>1 DEF retry_scan_ingestion, Recorded
  <2>6. ASSUME NEW t \in Scan,
               \/ Discard(t) \/ HeartbeatAges(t) \/ SlotLapses(t) \/ retention_maintenance_task(t)
        PROVE  Recorded(s) /\ Stays(s)
    BY <1>1, <2>6 DEF Discard, HeartbeatAges, SlotLapses, retention_maintenance_task, Recorded, upkeep
  <2>7. ASSUME NEW t \in Scan, SlotOutlived(t) PROVE Recorded(s) /\ Stays(s)
    <3>1. \E b \in Bounded : Spend(b)
      BY <2>7 DEF SlotOutlived, Bounded
    <3> QED
      BY <1>1, <2>7, <3>1 DEF SlotOutlived, Recorded, upkeep
  <2> QED
    BY <1>4, <2>1, <2>2, <2>3, <2>4, <2>5, <2>6, <2>7 DEF Upkeep
<1> QED
  BY <1>2, <1>3, <1>4

\* A step of the scan lifecycle records a success nobody has to hear of, or one
\* that somebody is going to queue a report for.
LEMMA TracedScan ==
  ASSUME IInv, TracedInv, ScanNext, NoReport
  PROVE  TracedInv'
<1> SUFFICES ASSUME NEW s \in Scan \ overtaken' PROVE Traced(s)'
  BY DEF TracedInv
<1>0. /\ ScanInv /\ s \notin overtaken /\ Traced(s) /\ ~Unreported(s)
      /\ UNCHANGED <<report, wanted, content, renderer, rendered>>
  BY DEF IInv, TracedInv, NoReport, artifact
<1>1. Recorded(s) /\ Stays(s)
  BY <1>0, RecordedByWorker, RecordedOutside DEF ScanNext
<1>2. ASSUME NEW c \in Status \cup {None} PROVE Holds(s, c)' <=> Holds(s, c)
  BY <1>0 DEF Holds, AtWork
<1>3. ASSUME NEW c \in Status \cup {None}, Holds(s, c) PROVE report[s] # None
  BY <1>0, <1>3 DEF Holds, Traced, None
<1>4. ASSUME NEW c \in Status \cup {None}, Holds(s, c), Reporter(s) PROVE Reporter(s)'
  <2>1. report[s] # None
    BY <1>3, <1>4
  <2>2. \A w \in Workers : job[w] = s /\ pc[w] = "report" /\ out[w] \in Success => pc'[w] # "idle"
    BY <1>0, <2>1 DEF Unreported
  <2> QED
    BY <1>0, <1>1, <1>4, <2>2 DEF Reporter, Stays
<1>5. ASSUME NEW c \in Status \cup {None}, Holds(s, c),
             left'["report"] > 0, status'[s] \in {"completed", "partial"}
      PROVE  c = status'[s] \/ Reporter(s)'
  <2>1. report[s] # None /\ left["report"] > 0
    BY <1>1, <1>3, <1>5 DEF Stays
  <2>2. CASE status'[s] = status[s]
    BY <1>0, <1>4, <1>5, <2>1, <2>2 DEF Traced
  <2>3. ASSUME NEW w \in Workers, job'[w] = s, pc'[w] = "report", out'[w] = status'[s]
        PROVE  c = status'[s] \/ Reporter(s)'
    <3>1. CASE wanted[s] = status'[s]
      BY <1>0, <1>5, <3>1 DEF Traced, Success, Shown
    <3>2. CASE wanted[s] # status'[s]
      BY <1>0, <1>5, <2>3, <3>2 DEF Reporter, Success
    <3> QED
      BY <3>1, <3>2
  <2>4. CASE recovery' = "report" /\ recovered' = s /\ status'[s] = "completed"
    <3>1. CASE wanted[s] = "recovered"
      BY <1>0, <1>5, <2>4, <3>1 DEF Traced, Success, Shown
    <3>2. CASE wanted[s] # "recovered"
      BY <1>0, <2>4, <3>2 DEF Reporter
    <3> QED
      BY <3>1, <3>2
  <2>5. ASSUME NEW w \in Workers, job[w] = s, pc[w] = "write", pc'[w] = "claim",
               out[w] = status'[s]
        PROVE  status'[s] = status[s]
    BY <1>0, <1>5, <2>1, <2>5 DEF Unreported, Success
  <2> QED
    BY <1>1, <1>5, <2>2, <2>3, <2>4, <2>5 DEF Recorded
<1>6. ASSUME NEW k \in Renderers, AtWork(k, s)'
      PROVE  rendered'[k].wanted = wanted'[s] /\ report'[s] # None
  BY <1>0, <1>6 DEF Traced, AtWork
<1>7. ASSUME NEW c \in Status \cup {None}, Holds(s, c)'
      PROVE  /\ wanted'[s] \in Success => c = Shown(wanted'[s])
             /\ left'["report"] > 0 /\ status'[s] \in {"completed", "partial"} =>
                  c = status'[s] \/ Reporter(s)'
  BY <1>0, <1>2, <1>5, <1>7 DEF Traced
<1> QED
  BY <1>6, <1>7 DEF Traced, Shown

\* A report that is queued is a new generation, which nothing holds yet, or was
\* queued under a renderer.
LEMMA TracedEnqueue ==
  ASSUME IInv, TracedInv, NEW s \in Scan, NEW t \in Outcome, NEW c \in Queuer,
         _enqueue_automatic_scan_report_format(s, t, c), status' = status,
         left'["report"] > 0 => left["report"] > 0,
         \A d \in Scan \ {s} : Reporter(d) /\ wanted'[d] = wanted[d] => Reporter(d)'
  PROVE  TracedInv'
<1> SUFFICES ASSUME NEW d \in Scan \ overtaken' PROVE Traced(d)'
  BY DEF TracedInv
<1>0. ReportTypeOK
  BY DEF IInv
<1>1. renderer' = renderer /\ rendered' = rendered
  BY DEF _enqueue_automatic_scan_report_format
<1>2. CASE d = s
  <2>1. report'[d] = "generating"
    BY <1>0, <1>2 DEF _enqueue_automatic_scan_report_format, ReportTypeOK
  <2>2. \A k \in Renderers : ~AtWork(k, d)'
    BY <1>1, <1>2 DEF _enqueue_automatic_scan_report_format, AtWork
  <2>3. \A x : ~Holds(d, x)'
    BY <2>1, <2>2 DEF Holds
  <2> QED
    BY <2>2, <2>3 DEF Traced
<1>3. CASE d # s
  <2>1. /\ report'[d] = report[d] /\ content'[d] = content[d] /\ wanted'[d] = wanted[d]
        /\ d \notin overtaken
    BY <1>0, <1>3 DEF _enqueue_automatic_scan_report_format, ReportTypeOK
  <2>2. \A x \in Status \cup {None} : Holds(d, x)' => Holds(d, x)
    BY <1>1, <2>1 DEF Holds, AtWork
  <2>3. \A k \in Renderers : AtWork(k, d)' => AtWork(k, d) /\ rendered'[k] = rendered[k]
    BY <1>1 DEF AtWork
  <2>4. Traced(d) /\ (Reporter(d) => Reporter(d)')
    BY <1>3, <2>1 DEF TracedInv
  <2> QED
    BY <2>1, <2>2, <2>3, <2>4, StillTraced
<1> QED
  BY <1>2, <1>3

\* The scan is loaded, or nothing is queued, by somebody who had no other success
\* to report.
LEMMA TracedSkip ==
  ASSUME TracedInv, UNCHANGED <<artifact, renderer, rendered, overtaken>>, status' = status,
         left'["report"] > 0 => left["report"] > 0,
         \A d \in Scan : Reporter(d) => Reporter(d)' \/ ~(left'["report"] > 0)
  PROVE  TracedInv'
<1> SUFFICES ASSUME NEW d \in Scan \ overtaken' PROVE Traced(d)'
  BY DEF TracedInv
<1>1. UNCHANGED <<report, content, wanted, renderer, rendered>> /\ d \notin overtaken
  BY DEF artifact
<1>2. \A x \in Status \cup {None} : Holds(d, x)' => Holds(d, x)
  BY <1>1 DEF Holds, AtWork
<1>3. \A k \in Renderers : AtWork(k, d)' => AtWork(k, d) /\ rendered'[k] = rendered[k]
  BY <1>1 DEF AtWork
<1>4. Traced(d)
  BY <1>1 DEF TracedInv
<1> QED
  BY <1>1, <1>2, <1>3, <1>4, StillTraced

\* The message brings nothing to show; a report rendered in its place shows the
\* row, which is what it was queued for.
LEMMA TracedPublish ==
  ASSUME IInv, TracedInv, NEW s \in Scan, NEW t \in Outcome, NEW c \in Queuer,
         PublishReport(s, t, c), status' = status,
         left'["report"] > 0 => left["report"] > 0,
         \A d \in Scan : Reporter(d) /\ wanted'[d] = wanted[d] => Reporter(d)'
  PROVE  TracedInv'
<1> SUFFICES ASSUME NEW d \in Scan \ overtaken' PROVE Traced(d)'
  BY DEF TracedInv
<1>0. ReportTypeOK /\ status[s] \in Status \cup {None}
  BY DEF IInv, ScanInv, ScanTypeOK
<1>1. /\ renderer' = renderer /\ rendered' = rendered /\ d \notin overtaken
      /\ wanted'[d] = wanted[d]
      /\ d = s => wanted[s] = t
  BY <1>0 DEF PublishReport, ReportTypeOK
<1>2. Traced(d) /\ (Reporter(d) => Reporter(d)')
  BY <1>1 DEF TracedInv
<1>3. \A k \in Renderers : AtWork(k, d)' => AtWork(k, d) /\ rendered'[k] = rendered[k]
  BY <1>1 DEF AtWork
<1>4. CASE /\ report[d] # None => report'[d] # None
           /\ report'[d] = "ready" => report[d] = "ready" /\ content'[d] = content[d]
  <2>1. \A x \in Status \cup {None} : Holds(d, x)' => Holds(d, x)
    BY <1>1, <1>4 DEF Holds, AtWork
  <2> QED
    BY <1>1, <1>2, <1>3, <1>4, <2>1, StillTraced
<1>5. CASE d = s /\ report'[s] = "ready" /\ content'[s] = status[s] /\ ~Misses(s, t)
  <2>1. ASSUME NEW x \in Status \cup {None}, Holds(s, x)' PROVE Holds(s, x) \/ x = status[s]
    BY <1>1, <1>5, <2>1 DEF Holds, AtWork
  <2>2. \A k \in Renderers : AtWork(k, s)' =>
          rendered'[k].wanted = wanted'[s] /\ report'[s] # None
    BY <1>1, <1>2, <1>3, <1>5 DEF Traced, None
  <2>3. ASSUME NEW x \in Status \cup {None}, Holds(s, x)'
        PROVE  /\ wanted'[s] \in Success => x = Shown(wanted'[s])
               /\ left'["report"] > 0 /\ status'[s] \in {"completed", "partial"} =>
                    x = status'[s] \/ Reporter(s)'
    BY <1>1, <1>2, <1>5, <2>1, <2>3 DEF Traced, Misses
  <2> QED
    BY <1>5, <2>2, <2>3 DEF Traced, Shown
<1>6. \/ /\ report[d] # None => report'[d] # None
         /\ report'[d] = "ready" => report[d] = "ready" /\ content'[d] = content[d]
      \/ d = s /\ report'[s] = "ready" /\ content'[s] = status[s] /\ ~Misses(s, t)
  <2>1. CASE SendJob(s)
    BY <2>1 DEF SendJob
  <2>2. CASE RenderInline(s) /\ (s \notin overtaken' => ~Misses(s, t))
    BY <1>0, <2>2 DEF RenderInline, ReportTypeOK, None
  <2> QED
    BY <2>1, <2>2 DEF PublishReport
<1> QED
  BY <1>4, <1>5, <1>6

\* Whoever has another success to report for s queues it.
LEMMA Queues ==
  ASSUME NEW s \in Scan, NEW t \in Success, wanted[s] # t
  PROVE  NeedsReport(s, t)
  BY DEF NeedsReport, _terminal_report_needs_refresh, _automatic_report_needs_queue

\* The three ends of a report's queueing.
LEMMA TracedQueueing ==
  ASSUME IInv, TracedInv,
         (\E w \in Workers : _queue_terminal_document_report(w)) \/ QueueRecovered \/ QueueHistorical
  PROVE  TracedInv'
<1>0. ScanInv /\ ScanTypeOK /\ ReportersOK /\ left \in [Bounded -> Nat]
  BY DEF IInv, ScanInv, ScanTypeOK
<1>1. ASSUME Spend("report") \/ UNCHANGED bounds
      PROVE  left'["report"] > 0 => left["report"] > 0
  BY <1>0, <1>1, BudgetShrinks DEF Bounded
<1>2. ASSUME NEW w \in Workers, _queue_terminal_document_report(w) PROVE TracedInv'
  <2>1. /\ status' = status /\ job' = job /\ out' = out
        /\ recovery' = recovery /\ recovered' = recovered
        /\ \A v \in Workers \ {w} : pc'[v] = pc[v]
        /\ pc[w] \in {"report", "publish"}
    BY <1>0, <1>2 DEF _queue_terminal_document_report, QueueReport, ReportStep, Goto, ScanTypeOK,
       fixed, upkeep
  <2>2. job[w] \in Scan /\ out[w] \in Outcome /\ <<"worker", w>> \in Queuer
    BY <1>0, <2>1 DEF ScanInv, TaskOK, Outcome, Queuer
  <2>3. ASSUME NEW d \in Scan, Reporter(d), wanted'[d] = wanted[d], d # job[w] \/ pc[w] # "report"
        PROVE  Reporter(d)'
    BY <2>1, <2>3 DEF Reporter
  <2>4. CASE /\ Spend("report")
             /\ _enqueue_automatic_scan_report_format(job[w], out[w], <<"worker", w>>)
    <3>1. left'["report"] > 0 => left["report"] > 0
      BY <1>1, <2>4
    <3> QED
      BY <2>1, <2>2, <2>3, <2>4, <3>1, TracedEnqueue
  <2>5. CASE /\ NeedsReport(job[w], out[w]) => left["report"] = 0
             /\ UNCHANGED <<bounds, artifact, renderer, rendered, overtaken>>
    <3>1. left' = left /\ wanted' = wanted
      BY <2>5 DEF bounds, artifact
    <3>2. ASSUME NEW d \in Scan, Reporter(d) PROVE Reporter(d)' \/ ~(left'["report"] > 0)
      <4>1. CASE d # job[w] \/ pc[w] # "report"
        BY <2>3, <3>1, <3>2, <4>1
      <4>2. CASE d = job[w] /\ out[w] \in Success /\ out[w] # wanted[d]
        BY <2>2, <2>5, <3>1, <4>2, Queues
      <4>3. CASE d = job[w] /\ ~(out[w] \in Success /\ out[w] # wanted[d])
        BY <2>1, <3>1, <3>2, <4>3 DEF Reporter
      <4> QED
        BY <4>1, <4>2, <4>3
    <3> QED
      BY <2>1, <2>5, <3>1, <3>2, TracedSkip
  <2>6. CASE /\ pc[w] = "publish" /\ UNCHANGED bounds
             /\ PublishReport(job[w], out[w], <<"worker", w>>)
    <3>1. left'["report"] > 0 => left["report"] > 0
      BY <1>1, <2>6
    <3> QED
      BY <2>1, <2>2, <2>3, <2>6, <3>1, TracedPublish
  <2>7. CASE /\ pc'[w] = pc[w] /\ UNCHANGED bounds
             /\ UNCHANGED <<artifact, renderer, rendered, overtaken>>
    <3>1. left' = left /\ wanted' = wanted
      BY <2>7 DEF bounds, artifact
    <3>2. \A d \in Scan : Reporter(d) => Reporter(d)'
      BY <2>1, <2>7, <3>1 DEF Reporter
    <3> QED
      BY <2>1, <2>7, <3>1, <3>2, TracedSkip
  <2>8. ASSUME ReportStep(w, "report", "report") PROVE pc'[w] = pc[w]
    BY <1>0, <2>8 DEF ReportStep, Goto, ScanTypeOK
  <2> QED
    BY <1>2, <2>4, <2>5, <2>6, <2>7, <2>8 DEF _queue_terminal_document_report, QueueReport, ReportStep,
       LoadScan, SkipReport
<1>3. CASE QueueRecovered
  <2>1. /\ status' = status /\ UNCHANGED <<pc, job, out>>
        /\ recovery \in {"report", "publish"}
    BY <1>3 DEF QueueRecovered, QueueReport, RecoveryStep, fixed, worker
  <2>2. /\ recovered \in Scan /\ "recovered" \in Outcome /\ "recovered" \in Success
        /\ <<"recovery", 0>> \in Queuer
    BY <1>0, <2>1 DEF ScanInv, Rows, Outcome, Success, Queuer
  <2>3. ASSUME NEW d \in Scan, Reporter(d), wanted'[d] = wanted[d],
               d # recovered \/ recovery # "report"
        PROVE  Reporter(d)'
    BY <2>1, <2>3 DEF Reporter
  <2>4. CASE /\ Spend("report")
             /\ _enqueue_automatic_scan_report_format(recovered, "recovered", <<"recovery", 0>>)
    <3>1. left'["report"] > 0 => left["report"] > 0
      BY <1>1, <2>4
    <3> QED
      BY <2>1, <2>2, <2>3, <2>4, <3>1, TracedEnqueue
  <2>5. CASE /\ NeedsReport(recovered, "recovered") => left["report"] = 0
             /\ UNCHANGED <<bounds, artifact, renderer, rendered, overtaken>>
    <3>1. left' = left /\ wanted' = wanted
      BY <2>5 DEF bounds, artifact
    <3>2. ASSUME NEW d \in Scan, Reporter(d) PROVE Reporter(d)' \/ ~(left'["report"] > 0)
      <4>1. CASE d # recovered \/ recovery # "report"
        BY <2>3, <3>1, <3>2, <4>1
      <4>2. CASE d = recovered /\ "recovered" # wanted[d]
        BY <2>2, <2>5, <3>1, <4>2, Queues
      <4>3. CASE d = recovered /\ "recovered" = wanted[d]
        BY <2>1, <3>1, <3>2, <4>3 DEF Reporter
      <4> QED
        BY <4>1, <4>2, <4>3
    <3> QED
      BY <2>1, <2>5, <3>1, <3>2, TracedSkip
  <2>6. CASE /\ recovery = "publish" /\ UNCHANGED bounds
             /\ PublishReport(recovered, "recovered", <<"recovery", 0>>)
    <3>1. left'["report"] > 0 => left["report"] > 0
      BY <1>1, <2>6
    <3> QED
      BY <2>1, <2>2, <2>3, <2>6, <3>1, TracedPublish
  <2>7. CASE /\ UNCHANGED <<bounds, recovery, recovered>>
             /\ UNCHANGED <<artifact, renderer, rendered, overtaken>>
    <3>1. left' = left /\ wanted' = wanted
      BY <2>7 DEF bounds, artifact
    <3>2. \A d \in Scan : Reporter(d) => Reporter(d)'
      BY <2>1, <2>7, <3>1 DEF Reporter
    <3> QED
      BY <2>1, <2>7, <3>1, <3>2, TracedSkip
  <2> QED
    BY <1>3, <2>4, <2>5, <2>6, <2>7 DEF QueueRecovered, QueueReport, RecoveryStep, LoadScan, SkipReport
<1>4. CASE QueueHistorical
  <2>1. /\ status' = status /\ UNCHANGED <<pc, job, out, recovery, recovered>>
        /\ backfill \in {"report", "publish"}
    BY <1>4 DEF QueueHistorical, QueueReport, BackfillStep, lifecycle, fixed, worker, upkeep
  <2>2. /\ backfilled \in Scan /\ "historical" \in Outcome /\ <<"backfill", 0>> \in Queuer
    BY <1>0, <2>1 DEF ReportersOK, Outcome, Queuer
  <2>3. ASSUME NEW d \in Scan, Reporter(d), wanted'[d] = wanted[d] PROVE Reporter(d)'
    BY <2>1, <2>3 DEF Reporter
  <2>4. Spend("report") \/ UNCHANGED bounds
    BY <1>4 DEF QueueHistorical, QueueReport
  <2>5. left'["report"] > 0 => left["report"] > 0
    BY <1>1, <2>4
  <2>6. CASE _enqueue_automatic_scan_report_format(backfilled, "historical", <<"backfill", 0>>)
    BY <2>1, <2>2, <2>3, <2>5, <2>6, TracedEnqueue
  <2>7. CASE UNCHANGED <<artifact, renderer, rendered, overtaken>>
    <3>1. wanted' = wanted
      BY <2>7 DEF artifact
    <3> QED
      BY <2>1, <2>3, <2>5, <2>7, <3>1, TracedSkip
  <2>8. CASE PublishReport(backfilled, "historical", <<"backfill", 0>>)
    BY <2>1, <2>2, <2>3, <2>5, <2>8, TracedPublish
  <2> QED
    BY <1>4, <2>6, <2>7, <2>8 DEF QueueHistorical, QueueReport, LoadScan, SkipReport
<1> QED
  BY <1>2, <1>3, <1>4

\* Rendering, cancelling and ageing of reports, which leave the scans alone.
LEMMA TracedRendering ==
  ASSUME IInv, TracedInv, UNCHANGED <<status, pc, job, out, recovery, recovered>>,
         left'["report"] > 0 => left["report"] > 0,
         \/ \E k \in Renderers : LoadReport(k) \/ StoreReport(k) \/ FailReport(k) \/ RendererCrash(k)
         \/ CommitRetract
         \/ \E s \in Scan : \/ cancel_report(s) \/ ReportAges(s) \/ backfill_missing_scan_reports(s)
                          \/ LeavesWindow(s)
  PROVE  TracedInv'
<1> SUFFICES ASSUME NEW d \in Scan \ overtaken' PROVE Traced(d)'
  BY DEF TracedInv
<1>0. ReportTypeOK /\ ReportersOK /\ status[d] \in Status \cup {None}
  BY DEF IInv, ScanInv, ScanTypeOK
<1>1. ASSUME wanted'[d] = wanted[d], d \notin overtaken,
             report[d] # None => report'[d] # None,
             \A k \in Renderers : AtWork(k, d)' => AtWork(k, d) /\ rendered'[k] = rendered[k],
             \A x \in Status \cup {None} :
               report'[d] = "ready" /\ content'[d] = x => Holds(d, x)
      PROVE  Traced(d)'
  <2>1. \A x \in Status \cup {None} : Holds(d, x)' => Holds(d, x)
    BY <1>1 DEF Holds
  <2>2. Traced(d) /\ (Reporter(d) <=> Reporter(d)')
    BY <1>1 DEF TracedInv, Reporter
  <2> QED
    BY <1>1, <2>1, <2>2, StillTraced
<1>2. ASSUME NEW k \in Renderers, LoadReport(k) PROVE Traced(d)'
  <2>1. PICK s \in Scan, r \in Retry :
         \/ UNCHANGED <<renderer, rendered, overtaken>>
         \/ /\ report[s] \in {"generating", "failed"}
            /\ renderer' = [renderer EXCEPT ![k] = "render"]
            /\ rendered' = [rendered EXCEPT ![k] =
                 [scan |-> s, retry |-> r, report |-> report[s],
                  attempt |-> attempt[s], wanted |-> wanted[s], content |-> status[s],
                  cancel |-> cancelFlag[s]]]
            /\ overtaken' = IF Misses(s, wanted[s]) THEN overtaken \cup {s} ELSE overtaken
    BY <1>2 DEF LoadReport
  <2>2. UNCHANGED <<report, content, wanted>> /\ renderer[k] = "idle" /\ d \notin overtaken
    BY <1>2, <2>1 DEF LoadReport, artifact
  <2>3. CASE UNCHANGED <<renderer, rendered, overtaken>>
    BY <1>1, <2>2, <2>3 DEF Holds, AtWork
  <2>4. CASE ~UNCHANGED <<renderer, rendered, overtaken>>
    <3>1. /\ rendered'[k].scan = s /\ rendered'[k].wanted = wanted[s]
          /\ rendered'[k].content = status[s]
          /\ \A j \in Renderers \ {k} : renderer'[j] = renderer[j] /\ rendered'[j] = rendered[j]
      BY <1>0, <2>1, <2>4 DEF ReportTypeOK
    <3>2. CASE d # s
      <4>1. \A j \in Renderers : AtWork(j, d)' => AtWork(j, d) /\ rendered'[j] = rendered[j]
        BY <3>1, <3>2 DEF AtWork
      <4> QED
        BY <1>1, <2>2, <4>1 DEF Holds
    <3>3. CASE d = s
      <4>1. report[d] # None /\ ~Misses(d, wanted[d])
        BY <2>1, <2>4, <3>3 DEF None
      <4>2. Traced(d) /\ (Reporter(d) => Reporter(d)')
        BY <2>2 DEF TracedInv, Reporter
      <4>3. ASSUME NEW j \in Renderers, AtWork(j, d)'
            PROVE  rendered'[j].wanted = wanted'[d] /\ report'[d] # None
        <5>1. CASE j = k
          BY <2>2, <3>1, <3>3, <4>1, <5>1
        <5>2. CASE j # k
          BY <2>2, <3>1, <4>2, <4>3, <5>2 DEF Traced, AtWork
        <5> QED
          BY <5>1, <5>2
      <4>4. ASSUME NEW x \in Status \cup {None}, Holds(d, x)' PROVE Holds(d, x) \/ x = status[d]
        BY <2>2, <3>1, <3>3, <4>4 DEF Holds, AtWork
      <4>5. ASSUME NEW x \in Status \cup {None}, Holds(d, x)'
            PROVE  /\ wanted'[d] \in Success => x = Shown(wanted'[d])
                   /\ left'["report"] > 0 /\ status'[d] \in {"completed", "partial"} =>
                        x = status'[d] \/ Reporter(d)'
        BY <2>2, <4>1, <4>2, <4>4, <4>5 DEF Traced, Misses
      <4> QED
        BY <4>3, <4>5 DEF Traced, Shown
    <3> QED
      BY <3>2, <3>3
  <2> QED
    BY <2>3, <2>4
<1>3. ASSUME NEW k \in Renderers, EndRender(k)
      PROVE  /\ \A j \in Renderers : AtWork(j, d)' => AtWork(j, d) /\ rendered'[j] = rendered[j]
  BY <1>0, <1>3 DEF EndRender, AtWork, ReportTypeOK
<1>4. ASSUME NEW k \in Renderers, StoreReport(k) PROVE Traced(d)'
  <2>1. /\ EndRender(k) /\ wanted' = wanted /\ overtaken' = overtaken
        /\ rendered[k].scan \in Scan /\ renderer[k] = "render"
    BY <1>0, <1>4 DEF StoreReport, ReportersOK
  <2>2. \/ report'[d] = report[d] /\ content'[d] = content[d]
        \/ /\ d = rendered[k].scan /\ report'[d] = "ready"
           /\ content'[d] = rendered[k].content
    BY <1>0, <1>4, <2>1 DEF StoreReport, ReportTypeOK
  <2>3. \A x \in Status \cup {None} : report'[d] = "ready" /\ content'[d] = x => Holds(d, x)
    BY <2>1, <2>2 DEF Holds, AtWork
  <2> QED
    BY <1>1, <1>3, <2>1, <2>2, <2>3 DEF None
<1>5. ASSUME NEW k \in Renderers, FailReport(k) PROVE Traced(d)'
  <2>1. /\ EndRender(k) /\ content' = content /\ overtaken' = overtaken
        /\ rendered[k].scan \in Scan /\ renderer[k] = "render"
    BY <1>0, <1>5 DEF FailReport, ReportersOK
  <2>2. report'[d] = report[d] \/ report'[d] = "failed"
    BY <1>0, <1>5, <2>1 DEF FailReport, ReportTypeOK
  <2>3. wanted'[d] = IF d = rendered[k].scan THEN rendered[k].wanted ELSE wanted[d]
    BY <1>0, <1>5, <2>1 DEF FailReport, ReportTypeOK
  <2>4. wanted'[d] = wanted[d]
    BY <2>1, <2>3 DEF TracedInv, Traced, AtWork
  <2>5. \A x \in Status \cup {None} : report'[d] = "ready" /\ content'[d] = x => Holds(d, x)
    BY <2>1, <2>2 DEF Holds
  <2> QED
    BY <1>1, <1>3, <2>1, <2>2, <2>4, <2>5 DEF None
<1>6. ASSUME NEW k \in Renderers, RendererCrash(k) PROVE Traced(d)'
  BY <1>1, <1>3, <1>6 DEF RendererCrash, artifact, Holds
<1>7. CASE CommitRetract
  <2>1. report'[d] = report[d] \/ report'[d] = "cancelled"
    BY <1>0, <1>7 DEF CommitRetract, ReportTypeOK
  <2> QED
    BY <1>1, <1>7, <2>1 DEF CommitRetract, Holds, AtWork, None
<1>8. ASSUME NEW s \in Scan, \/ cancel_report(s) \/ ReportAges(s) \/ backfill_missing_scan_reports(s)
                             \/ LeavesWindow(s)
      PROVE  Traced(d)'
  BY <1>1, <1>8 DEF cancel_report, ReportAges, backfill_missing_scan_reports, LeavesWindow, artifact,
     Holds, AtWork
<1> QED
  BY <1>2, <1>4, <1>5, <1>6, <1>7, <1>8

\* Every step keeps the reports traced.
LEMMA TracedInductive == IInv /\ TracedInv /\ [Next]_vars => TracedInv'
<1> SUFFICES ASSUME IInv, TracedInv, [Next]_vars PROVE TracedInv'
  OBVIOUS
<1>0. ScanTypeOK
  BY DEF IInv, ScanInv
<1>1. CASE UNCHANGED vars
  BY <1>1 DEF vars, scanVars, reportVars, artifact, row, worker, upkeep, bounds,
     TracedInv, Traced, AtWork, Holds, Reporter, Shown
<1>2. CASE ScanNext /\ NoReport
  BY <1>2, TracedScan
<1>3. CASE ReportNext
  <2>1. ASSUME UNCHANGED lifecycle,
               (\E b \in Bounded : Spend(b)) \/ UNCHANGED bounds,
               \/ \E k \in Renderers : LoadReport(k) \/ StoreReport(k) \/ FailReport(k) \/ RendererCrash(k)
               \/ CommitRetract
               \/ \E s \in Scan : \/ cancel_report(s) \/ ReportAges(s) \/ backfill_missing_scan_reports(s)
                                \/ LeavesWindow(s)
        PROVE  TracedInv'
    <3>1. left'["report"] > 0 => left["report"] > 0
      BY <1>0, <2>1, BudgetShrinks
    <3> QED
      BY <2>1, <3>1, TracedRendering DEF lifecycle, fixed, worker, upkeep
  <2>2. ASSUME (\E k \in Renderers : RendererLost(k))
               \/ \E s \in Scan : RetractReport(s) \/ NewerScansEnd(s)
        PROVE  TracedInv'
    BY <2>1, <2>2 DEF RendererLost, RetractReport, NewerScansEnd, Bounded
  <2>3. ASSUME NEW k \in Renderers, Renders(Rendering(k)) \/ Renders(FailReport(k)) PROVE TracedInv'
    BY <2>1, <2>3 DEF Renders, Rendering
  <2>4. ASSUME UNCHANGED scanVars,
               CommitRetract \/ \E s \in Scan : ReportAges(s) \/ backfill_missing_scan_reports(s)
        PROVE  TracedInv'
    BY <2>1, <2>4 DEF scanVars, lifecycle, row, fixed
  <2> QED
    BY <1>3, <2>2, <2>3, <2>4, TracedQueueing DEF ReportNext
<1> QED
  BY <1>1, <1>2, <1>3 DEF Next

\* A report that is ready shows the success its scan's row shows, however often
\* the scan was closed, reconciled and recovered in between, except where row and
\* report were written past each other.
THEOREM Successes == Spec => []ReportShowsSuccess
<1>1. Init => TracedInv
  BY DEF Init, ReportInit, TracedInv, Traced, AtWork, Holds, None
<1>2. IInv /\ TracedInv => ReportShowsSuccess
  <2> SUFFICES ASSUME IInv, TracedInv, NEW s \in Scan,
                      report[s] = "ready", status[s] \in {"completed", "partial"},
                      \A w \in Workers : job[w] = s => pc[w] # "report",
                      ~(recovery = "report" /\ recovered = s),
                      s \notin overtaken, left["report"] > 0
               PROVE  content[s] = status[s]
    BY DEF ReportShowsSuccess
  <2>1. Traced(s) /\ ~Reporter(s)
    BY DEF TracedInv, Reporter
  <2>2. content[s] \in Status \cup {None} /\ Holds(s, content[s])
    BY DEF IInv, ReportTypeOK, Holds
  <2> QED
    BY <2>1, <2>2 DEF Traced
<1> QED
  BY <1>1, <1>2, Invariant, TracedInductive, PTL DEF Spec
================================================================================
