--------------------------------- MODULE WebScan ---------------------------------
(***************************************************************************)
(* The scan lifecycle of the web application: API requests that dispatch,  *)
(* cancel, stop and recover the scans of one assessment, the Celery broker,*)
(* the workers that execute them (webapp/backend/app/services/celery_app.py*)
(* and api/v1/assessments.py), the tenant's execution slots in Redis and   *)
(* the reconciler of scans without heartbeat.                              *)
(*                                                                         *)
(* One action is one transaction or one call to the broker or Redis.  The  *)
(* exceptions are reads: a step that decides to call _update_scan_row also *)
(* takes that function's read of the row, whose write is the next step.    *)
(* Nothing locks the row between the two, nor between the two halves of a  *)
(* request, so every write may rest on a row that has changed since.       *)
(*                                                                         *)
(* A scan has one task for ever (nothing but dispatch assigns an id), so a *)
(* task is named by its scan.  The clock appears as what it allows: a      *)
(* heartbeat that grew old, a slot that lapsed.  Scans run by the Celery   *)
(* worker itself; the Kubernetes executor and the local thread fallback    *)
(* are not modelled.                                                       *)
(***************************************************************************)
EXTENDS Naturals, FiniteSets

CONSTANTS
  MaxScan,     \* scan rows of the assessment, numbered by created_at
  Workers,     \* Celery worker processes, numbered
  Requests,    \* concurrent API requests or scheduler beats that dispatch,
               \* numbered
  Instances    \* initial situations: the tenant's policy, the status of the
               \* assessment's operation, and how often scans, faults and
               \* requests may happen

Scan == 1 .. MaxScan

Bounded ==
  {"scan", "crash", "delay", "cancel", "transition", "recovery", "report",
   "outage", "retract", "newer", "lapse"}

Active == {"queued", "running"}

Terminal == {"completed", "partial", "failed", "cancelled"}

Retriable == {"partial", "failed", "cancelled"}

\* No status was read, no row is there.
None == "none"

Status == Active \cup Terminal

OperationStatus ==
  {"planning", "approved", "active", "paused", "completed", "stopped", "archived"}

Policy == [active : Nat \ {0}, queued : Nat]

ASSUME ScanAssumption ==
  /\ MaxScan \in Nat
  /\ Workers \subseteq Nat /\ Requests \subseteq Nat
  /\ Instances \subseteq [policy : Policy, operation : OperationStatus \cup {None},
                          budget : [Bounded -> Nat]]
  /\ \A i \in Instances : i.budget["scan"] <= MaxScan

VARIABLES
  policy,      \* the organization's execution policy
  left,        \* what is left of the behaviour's budget
  status,      \* scans.status
  cancelFlag,  \* scans.scan_metadata.cancel_requested
  taskId,      \* scans.celery_task_id is set
  heartbeat,   \* scans.heartbeat_at: None, "fresh", or "old" past the cutoff
  sessionDir,  \* scans.session_dir is set
  assessment,  \* assessments.status
  operation,   \* operation_workspaces.status, None without an operation
  queue,       \* tasks the broker holds
  revoked,     \* tasks the workers were told to discard
  slots,       \* the members of the tenant's sorted set of slots
  unslotted,   \* history: scans whose slot went while a worker was using it
  dropped,     \* history: scans with a task that ended in an error before or
               \* after the part of the execution that records one
  pc,          \* where a worker stands in run_assessment_scan
  job,         \* the scan of its task, 0 for none
  seen,        \* the status it read before it asked for a slot
  out,         \* the status its pending _update_scan_row writes
  copy,        \* the cancel_requested it read for that write
  then,        \* where it goes on after that write
  req,         \* where a dispatching request stands
  reqScan,     \* the scan row it inserted, 0 for none
  intent,      \* the cancellation or emergency stop under way
  orphans,     \* what the reconciler read: None, or the cancel_requested of
               \* a running scan with an old heartbeat
  recovery,    \* where a retry of the result ingestion stands
  recovered    \* the scan it is for, 0 for none

bounds == <<policy, left>>
row == <<status, cancelFlag, taskId, heartbeat, sessionDir>>
fixed == <<status, taskId, heartbeat, sessionDir>>
broker == <<queue, revoked>>
redis == <<slots, unslotted, dropped>>
worker == <<pc, job, seen, out, copy, then>>
request == <<req, reqScan>>
upkeep == <<intent, orphans, recovery, recovered>>
scanVars == <<bounds, row, assessment, operation, broker, redis, worker,
              request, upkeep>>

WorkerStep ==
  {"idle", "entry", "read", "slot", "write", "claim", "check", "start", "loop",
   "stop", "post", "ingest", "close", "closing", "fail", "report", "publish", "ack"}

NoIntent == [kind |-> None, saw |-> [s \in Scan |-> None], running |-> FALSE]

Intent ==
  [kind : {None, "cancel", "stop"}, saw : [Scan -> Active \cup {None}],
   running : BOOLEAN]

ScanTypeOK ==
  /\ policy \in Policy
  /\ left \in [Bounded -> Nat]
  /\ status \in [Scan -> Status \cup {None}]
  /\ cancelFlag \in [Scan -> BOOLEAN]
  /\ taskId \in [Scan -> BOOLEAN]
  /\ heartbeat \in [Scan -> {None, "fresh", "old"}]
  /\ sessionDir \in [Scan -> BOOLEAN]
  /\ assessment \in Terminal \cup {"created", "running"}
  /\ operation \in OperationStatus \cup {None}
  /\ queue \subseteq Scan
  /\ revoked \subseteq Scan
  /\ slots \subseteq Scan
  /\ unslotted \subseteq Scan
  /\ dropped \subseteq Scan
  /\ pc \in [Workers -> WorkerStep]
  /\ job \in [Workers -> Scan \cup {0}]
  /\ seen \in [Workers -> Status \cup {None}]
  /\ out \in [Workers -> Status]
  /\ copy \in [Workers -> BOOLEAN]
  /\ then \in [Workers -> WorkerStep]
  /\ req \in [Requests -> {"idle", "checked", "dispatching", "published"}]
  /\ reqScan \in [Requests -> Scan \cup {0}]
  /\ intent \in Intent
  /\ orphans \in [Scan -> {None, "plain", "cancel"}]
  /\ recovery \in {"idle", "ingest", "report", "publish"}
  /\ recovered \in Scan \cup {0}

\* The assessment has been created and nothing dispatched.
ScanInit ==
  /\ \E i \in Instances :
       policy = i.policy /\ operation = i.operation /\ left = i.budget
  /\ status = [s \in Scan |-> None]
  /\ cancelFlag = [s \in Scan |-> FALSE]
  /\ taskId = [s \in Scan |-> FALSE]
  /\ heartbeat = [s \in Scan |-> None]
  /\ sessionDir = [s \in Scan |-> FALSE]
  /\ assessment = "created"
  /\ queue = {} /\ revoked = {}
  /\ slots = {} /\ unslotted = {} /\ dropped = {}
  /\ pc = [w \in Workers |-> "idle"]
  /\ job = [w \in Workers |-> 0]
  /\ seen = [w \in Workers |-> None]
  /\ out = [w \in Workers |-> "queued"]
  /\ copy = [w \in Workers |-> FALSE]
  /\ then = [w \in Workers |-> "idle"]
  /\ req = [q \in Requests |-> "idle"]
  /\ reqScan = [q \in Requests |-> 0]
  /\ intent = NoIntent
  /\ orphans = [s \in Scan |-> None]
  /\ recovery = "idle" /\ recovered = 0

Spend(kind) ==
  /\ left[kind] > 0
  /\ left' = [left EXCEPT ![kind] = @ - 1]
  /\ UNCHANGED policy

\* Idle processes do not differ: the one with the lowest number goes first.
FirstIdle(p, step) == step[p] = "idle" /\ \A r \in DOMAIN step : r < p => step[r] # "idle"

ActiveScans == {s \in Scan : status[s] \in Active}

InStatus(st) == Cardinality({s \in Scan : status[s] = st})
--------------------------------------------------------------------------------
(***************************************************************************)
(* Requests that dispatch a scan.                                          *)
(***************************************************************************)

\* operation_execution_issue finds nothing: there is no operation, or it is
\* active.  Its approval window may close at any time: RefuseDispatch.
MayExecute == operation \in {None, "active"}

\* The request has passed its own check and _dispatch_assessment_scan's look at
\* the operation; it does not hold the advisory lock yet.
Checked(q) ==
  /\ FirstIdle(q, req)
  /\ Cardinality({r \in Requests : req[r] = "checked"}) < left["scan"]
  /\ MayExecute
  /\ req' = [req EXCEPT ![q] = "checked"]
  /\ UNCHANGED <<bounds, row, assessment, operation, broker, redis, worker,
                 reqScan, upkeep>>

\* Starting the new assessment, or starting it again.
rescan_assessment(q) == assessment # "running" /\ Checked(q)

retry_scan_execution(q) ==
  /\ \E s \in Scan : status[s] \in Retriable
  /\ ActiveScans = {}
  /\ Checked(q)

\* One due schedule of the assessment, inside its window.
dispatch_due_schedules(q) == ActiveScans = {} /\ Checked(q)

\* Authorization, the artifact quota or the tenant's limits refuse the scan.
RefuseDispatch(q) ==
  /\ req[q] = "checked"
  /\ req' = [req EXCEPT ![q] = "idle"]
  /\ UNCHANGED <<bounds, row, assessment, operation, broker, redis, worker,
                 reqScan, upkeep>>

\* Mutant: only running scans count.
AdmitsRunningOnly == InStatus("running") < policy.active

\* The tenant's limits as counted under its advisory lock.
Admits ==
  /\ InStatus("running") < policy.active
  /\ InStatus("queued") < policy.queued

\* The row is inserted and committed before the task is submitted.
_dispatch_assessment_scan(q) ==
  /\ req[q] = "checked"
  /\ Admits
  /\ Spend("scan")
  /\ LET s == MaxScan + 1 - left["scan"] IN
       /\ status' = [status EXCEPT ![s] = "queued"]
       /\ reqScan' = [reqScan EXCEPT ![q] = s]
  /\ assessment' = "running"
  /\ req' = [req EXCEPT ![q] = "dispatching"]
  /\ UNCHANGED <<cancelFlag, taskId, heartbeat, sessionDir, operation, broker,
                 redis, worker, upkeep>>

\* apply_async succeeds.
SubmitTask(q) ==
  /\ req[q] = "dispatching"
  /\ queue' = queue \cup {reqScan[q]}
  /\ req' = [req EXCEPT ![q] = "published"]
  /\ UNCHANGED <<bounds, row, assessment, operation, revoked, redis, worker,
                 reqScan, upkeep>>

\* No capable worker, or the broker is unreachable.
DispatchFailed(q) ==
  /\ req[q] = "dispatching"
  /\ status' = [status EXCEPT ![reqScan[q]] = "failed"]
  /\ cancelFlag' = [cancelFlag EXCEPT ![reqScan[q]] = FALSE]
  /\ assessment' = "failed"
  /\ req' = [req EXCEPT ![q] = "idle"]
  /\ reqScan' = [reqScan EXCEPT ![q] = 0]
  /\ UNCHANGED <<bounds, taskId, heartbeat, sessionDir, operation, broker,
                 redis, worker, upkeep>>

\* The end of the request stores the task's id and the metadata the request
\* built, over whatever was written to the row since the insert.
RecordTask(q) ==
  /\ req[q] = "published"
  /\ taskId' = [taskId EXCEPT ![reqScan[q]] = TRUE]
  /\ cancelFlag' = [cancelFlag EXCEPT ![reqScan[q]] = FALSE]
  /\ req' = [req EXCEPT ![q] = "idle"]
  /\ reqScan' = [reqScan EXCEPT ![q] = 0]
  /\ UNCHANGED <<bounds, status, heartbeat, sessionDir, assessment, operation,
                 broker, redis, worker, upkeep>>

\* The API process dies in the middle of a dispatch.
ApiCrash(q) ==
  /\ req[q] \in {"dispatching", "published"}
  /\ Spend("crash")
  /\ req' = [req EXCEPT ![q] = "idle"]
  /\ reqScan' = [reqScan EXCEPT ![q] = 0]
  /\ UNCHANGED <<row, assessment, operation, broker, redis, worker, upkeep>>

Dispatch(q) ==
  \/ rescan_assessment(q)
  \/ retry_scan_execution(q)
  \/ dispatch_due_schedules(q)
  \/ RefuseDispatch(q)
  \/ _dispatch_assessment_scan(q)
  \/ SubmitTask(q)
  \/ DispatchFailed(q)
  \/ RecordTask(q)
  \/ ApiCrash(q)
--------------------------------------------------------------------------------
(***************************************************************************)
(* Cancellation, the operation and its emergency stop.                     *)
(***************************************************************************)

\* The request reads the newest active scan and tells the workers to discard
\* its task, when the row has its id; what it writes is committed at its end.
cancel_assessment_scan ==
  /\ intent.kind = None
  /\ Spend("cancel")
  /\ \E s \in ActiveScans :
       /\ \A t \in ActiveScans : t <= s
       /\ intent' = [kind |-> "cancel",
                     saw |-> [t \in Scan |-> IF t = s THEN status[s] ELSE None],
                     running |-> FALSE]
       /\ revoked' = IF taskId[s] THEN revoked \cup {s} ELSE revoked
  /\ UNCHANGED <<row, assessment, operation, queue, redis, worker, request,
                 orphans, recovery, recovered>>

\* TRANSITIONS of operation_control.py, the emergency stop aside.
Transitions ==
  {<<"planning", "approved">>, <<"approved", "active">>, <<"paused", "active">>,
   <<"active", "paused">>, <<"active", "completed">>, <<"paused", "completed">>,
   <<"completed", "archived">>, <<"stopped", "archived">>}

transition_operation_workspace ==
  /\ intent.kind # "stop"
  /\ Spend("transition")
  /\ \E to \in OperationStatus :
       <<operation, to>> \in Transitions /\ operation' = to
  /\ UNCHANGED <<row, assessment, broker, redis, worker, request, upkeep>>

\* The operation's row is locked to the end of the request, its scans are not.
emergency_stop ==
  /\ intent.kind = None
  /\ operation \in {"approved", "active", "paused"}
  /\ Spend("transition")
  /\ intent' = [kind |-> "stop",
                saw |-> [s \in Scan |-> IF status[s] \in Active THEN status[s]
                                                                ELSE None],
                running |-> assessment = "running"]
  /\ UNCHANGED <<row, assessment, operation, broker, redis, worker, request,
                 orphans, recovery, recovered>>

\* A scan read as queued becomes cancelled; for a running one the flag is left
\* for its worker.
CommitIntent ==
  /\ intent.kind # None
  /\ status' = [s \in Scan |->
       IF intent.saw[s] = "queued" THEN "cancelled" ELSE status[s]]
  /\ cancelFlag' = [s \in Scan |-> cancelFlag[s] \/ intent.saw[s] # None]
  /\ assessment' = IF \/ intent.kind = "stop" /\ intent.running
                      \/ /\ intent.kind = "cancel"
                         /\ \E s \in Scan : intent.saw[s] = "queued"
                   THEN "cancelled" ELSE assessment
  /\ operation' = IF intent.kind = "stop" THEN "stopped" ELSE operation
  /\ intent' = NoIntent
  /\ UNCHANGED <<bounds, taskId, heartbeat, sessionDir, broker, redis, worker,
                 request, orphans, recovery, recovered>>

\* The API process dies before the commit; a revocation is out already.
IntentLost ==
  /\ intent.kind # None
  /\ Spend("crash")
  /\ intent' = NoIntent
  /\ UNCHANGED <<row, assessment, operation, broker, redis, worker, request,
                 orphans, recovery, recovered>>

Control ==
  \/ cancel_assessment_scan
  \/ transition_operation_workspace
  \/ emergency_stop
  \/ CommitIntent
  \/ IntentLost
--------------------------------------------------------------------------------
(***************************************************************************)
(* The worker.                                                             *)
(***************************************************************************)

cancel_requested(s) == status[s] = "cancelled" \/ cancelFlag[s]

Goto(w, step) == pc' = [pc EXCEPT ![w] = step]

\* The worker leaves its task: local state is gone.
Leave(w) ==
  /\ Goto(w, "idle")
  /\ job' = [job EXCEPT ![w] = 0]
  /\ seen' = [seen EXCEPT ![w] = None]
  /\ out' = [out EXCEPT ![w] = "queued"]
  /\ copy' = [copy EXCEPT ![w] = FALSE]
  /\ then' = [then EXCEPT ![w] = "idle"]

\* The call of _update_scan_row and its read of the row's metadata.
Update(w, st, next) ==
  /\ Goto(w, "write")
  /\ out' = [out EXCEPT ![w] = st]
  /\ copy' = [copy EXCEPT ![w] = cancelFlag[job[w]]]
  /\ then' = [then EXCEPT ![w] = next]
  /\ UNCHANGED <<job, seen>>

\* The UPDATE: status and metadata as computed from the read.
_update_scan_row(w) ==
  /\ pc[w] = "write"
  /\ LET s == job[w] IN
       /\ status' = [status EXCEPT ![s] = out[w]]
       /\ cancelFlag' = [cancelFlag EXCEPT ![s] = copy[w]]
       /\ heartbeat' = [heartbeat EXCEPT
            ![s] = IF out[w] \in Active THEN "fresh" ELSE @]
       /\ sessionDir' = [sessionDir EXCEPT ![s] = @ \/ then[w] \in {"loop", "ingest"}]
  /\ Goto(w, then[w])
  /\ out' = [out EXCEPT ![w] = IF then[w] = "report" THEN @ ELSE "queued"]
  /\ copy' = [copy EXCEPT ![w] = FALSE]
  /\ then' = [then EXCEPT ![w] = "idle"]
  /\ UNCHANGED <<bounds, taskId, assessment, operation, broker, redis, job,
                 seen, request, upkeep>>

\* A worker takes a task off the broker; it is acknowledged when it ends.
Receive(w, s) ==
  /\ FirstIdle(w, pc) /\ s \in queue
  /\ queue' = queue \ {s}
  /\ Goto(w, "entry")
  /\ job' = [job EXCEPT ![w] = s]
  /\ UNCHANGED <<bounds, row, assessment, operation, revoked, redis, seen, out,
                 copy, then, request, upkeep>>

\* A worker that heard of the revocation discards the task.
Discard(s) ==
  /\ s \in queue \cap revoked
  /\ queue' = queue \ {s}
  /\ UNCHANGED <<bounds, row, assessment, operation, revoked, redis, worker,
                 request, upkeep>>

\* run_assessment_scan looks for a cancellation first.
Enter(w) ==
  /\ pc[w] = "entry"
  /\ \/ cancel_requested(job[w]) /\ Update(w, "cancelled", "report")
     \/ /\ ~cancel_requested(job[w])
        /\ Goto(w, "read")
        /\ UNCHANGED <<job, seen, out, copy, then>>
  /\ UNCHANGED <<bounds, row, assessment, operation, broker, redis, request,
                 upkeep>>

\* _scan_row_state: the status that will be written back with the manifest.
ReadStatus(w) ==
  /\ pc[w] = "read"
  /\ seen' = [seen EXCEPT ![w] = status[job[w]]]
  /\ Goto(w, "slot")
  /\ UNCHANGED <<bounds, row, assessment, operation, broker, redis, job, out,
                 copy, then, request, upkeep>>

\* Mutant: off by one.
HasSlotOrOneMore(s) == s \in slots \/ Cardinality(slots) <= policy.active

\* The Lua script: a member keeps its slot, others need a free one.
HasSlot(s) == s \in slots \/ Cardinality(slots) < policy.active

\* With the slot, the worker manifest is saved under the status read before;
\* an error in that is logged only.
acquire_execution_lease(w) ==
  /\ pc[w] = "slot"
  /\ HasSlot(job[w])
  /\ slots' = slots \cup {job[w]}
  /\ unslotted' = unslotted \ {job[w]}
  /\ \/ Update(w, seen[w], "claim")
     \/ Goto(w, "claim") /\ UNCHANGED <<job, seen, out, copy, then>>
  /\ UNCHANGED <<bounds, row, assessment, operation, broker, dropped, request,
                 upkeep>>

\* Without one the heartbeat is touched and the task retried later.
RetryLater(w) ==
  /\ pc[w] = "slot"
  /\ ~HasSlot(job[w])
  /\ heartbeat' = [heartbeat EXCEPT ![job[w]] = "fresh"]
  /\ queue' = queue \cup {job[w]}
  /\ Leave(w)
  /\ UNCHANGED <<bounds, status, cancelFlag, taskId, sessionDir, assessment,
                 operation, revoked, redis, request, upkeep>>

\* A worker inside the slot of s, from the script's success to the release.
Executes(w, s) == job[w] = s /\ seen[w] # None /\ pc[w] # "slot"

\* release_execution_lease in the finally clause.  A second delivery of the
\* task shares the slot and loses it here.
release_execution_lease(w) ==
  /\ slots' = slots \ {job[w]}
  /\ unslotted' = IF \E v \in Workers \ {w} : Executes(v, job[w])
                  THEN unslotted \cup {job[w]} ELSE unslotted

\* Mutant: a failed scan may be claimed again.
RefusedUnlessFailed(st) == st \in Terminal \ {"failed"}

\* Statuses that end a scan for a redelivered task.
Refused(st) == st \in Terminal

\* The claim, under the row's lock: a task for a scan that ended is ignored.
_claim_scan_execution(w) ==
  /\ pc[w] = "claim"
  /\ \/ /\ Refused(status[job[w]])
        /\ release_execution_lease(w)
        /\ Leave(w)
        /\ UNCHANGED <<row, dropped>>
     \/ /\ ~Refused(status[job[w]])
        /\ taskId' = [taskId EXCEPT ![job[w]] = TRUE]
        /\ Goto(w, "check")
        /\ UNCHANGED <<status, cancelFlag, heartbeat, sessionDir, redis, job,
                       seen, out, copy, then>>
  /\ UNCHANGED <<bounds, assessment, operation, broker, request, upkeep>>

\* execute_assessment_scan looks for a cancellation once more.
CheckCancel(w) ==
  /\ pc[w] = "check"
  /\ \/ cancel_requested(job[w]) /\ Update(w, "cancelled", "report")
     \/ ~cancel_requested(job[w]) /\ Update(w, "running", "start")
  /\ UNCHANGED <<bounds, row, assessment, operation, broker, redis, request,
                 upkeep>>

\* The assessment is marked running, the command prepared and the scanner
\* process started.
Start(w) ==
  /\ pc[w] = "start"
  /\ assessment' = "running"
  /\ Update(w, "running", "loop")
  /\ UNCHANGED <<bounds, row, operation, broker, redis, request, upkeep>>

\* Output lines and the ten-second heartbeat are saved as progress.
Progress(w) ==
  /\ pc[w] = "loop"
  /\ ~cancel_requested(job[w])
  /\ Update(w, "running", "loop")
  /\ UNCHANGED <<bounds, row, assessment, operation, broker, redis, request,
                 upkeep>>

\* A cancellation is seen: the process group is ended, its output preserved.
StopScanner(w) ==
  /\ pc[w] = "loop"
  /\ cancel_requested(job[w])
  /\ assessment' = "cancelled"
  /\ Goto(w, "stop")
  /\ UNCHANGED <<bounds, row, operation, broker, redis, job, seen, out, copy,
                 then, request, upkeep>>

RecordCancelled(w) ==
  /\ pc[w] = "stop"
  /\ Update(w, "cancelled", "report")
  /\ UNCHANGED <<bounds, row, assessment, operation, broker, redis, request,
                 upkeep>>

\* The scanner process exits between two looks at the cancellation.
ScannerExits(w) ==
  /\ pc[w] = "loop"
  /\ ~cancel_requested(job[w])
  /\ Goto(w, "post")
  /\ UNCHANGED <<bounds, row, assessment, operation, broker, redis, job, seen,
                 out, copy, then, request, upkeep>>

\* Evidence is captured and sealed, then the ingestion announced.
Seal(w) ==
  /\ pc[w] = "post"
  /\ Update(w, "running", "ingest")
  /\ UNCHANGED <<bounds, row, assessment, operation, broker, redis, request,
                 upkeep>>

\* Ingestion, with its own progress write when it succeeds.
_ingest_scan_results(w) ==
  /\ pc[w] = "ingest"
  /\ \/ Update(w, "running", "close")
     \/ Goto(w, "close") /\ UNCHANGED <<job, seen, out, copy, then>>
  /\ UNCHANGED <<bounds, row, assessment, operation, broker, redis, request,
                 upkeep>>

\* The outcome goes to the assessment ...
Close(w) ==
  /\ pc[w] = "close"
  /\ \E final \in {"completed", "partial", "failed"} :
       assessment' = final /\ out' = [out EXCEPT ![w] = final]
  /\ Goto(w, "closing")
  /\ UNCHANGED <<bounds, row, operation, broker, redis, job, seen, copy, then,
                 request, upkeep>>

\* ... and, after the tool runs were saved, to the scan.
RecordOutcome(w) ==
  /\ pc[w] = "closing"
  /\ Update(w, out[w], "report")
  /\ UNCHANGED <<bounds, row, assessment, operation, broker, redis, request,
                 upkeep>>

\* The timeout, the artifact quota or any other exception inside the execution's
\* try.
Raise(w) ==
  /\ pc[w] \in {"start", "loop", "stop", "post", "close", "closing"}
  /\ Goto(w, "fail")
  /\ UNCHANGED <<bounds, row, assessment, operation, broker, redis, job, seen,
                 out, copy, then, request, upkeep>>

RecordFailed(w) ==
  /\ pc[w] = "fail"
  /\ assessment' = "failed"
  /\ Update(w, "failed", "report")
  /\ UNCHANGED <<bounds, row, operation, broker, redis, request, upkeep>>

\* The database or Redis fails where nothing records it: before the execution's
\* try, or in its handlers.  The task is acknowledged, the row stays.
TaskFails(w) ==
  /\ pc[w] \in {"entry", "read", "slot", "claim", "check", "fail"}
  /\ Spend("crash")
  /\ dropped' = dropped \cup {job[w]}
  /\ IF Executes(w, job[w]) THEN release_execution_lease(w)
                            ELSE UNCHANGED <<slots, unslotted>>
  /\ \/ UNCHANGED assessment
     \/ pc[w] = "fail" /\ assessment' = "failed"
  /\ Leave(w)
  /\ UNCHANGED <<row, operation, broker, request, upkeep>>

\* The scan's side of _queue_terminal_document_report.
ReportStep(w, from, to) ==
  /\ pc[w] = from
  /\ Goto(w, to)
  /\ UNCHANGED <<fixed, assessment, operation, broker, redis, job, seen,
                 out, copy, then, request, upkeep>>

\* The task ends: the slot is released if there was one, the task acknowledged.
Acknowledge(w) ==
  /\ pc[w] = "ack"
  /\ IF seen[w] = None THEN UNCHANGED <<slots, unslotted>>
                       ELSE release_execution_lease(w)
  /\ Leave(w)
  /\ UNCHANGED <<bounds, row, assessment, operation, broker, dropped, request,
                 upkeep>>

\* The task ends, but Redis fails: the slot stays until it lapses.
ReleaseFails(w) ==
  /\ seen[w] # None
  /\ pc[w] = "ack" \/ (pc[w] = "claim" /\ Refused(status[job[w]]))
  /\ Spend("lapse")
  /\ Leave(w)
  /\ UNCHANGED <<row, assessment, operation, broker, redis, request, upkeep>>

\* Mutant: the task was acknowledged when it was received.
WorkerLostWithTask(w) ==
  /\ pc[w] # "idle"
  /\ Spend("crash")
  /\ Leave(w)
  /\ UNCHANGED <<row, assessment, operation, broker, redis, request, upkeep>>

\* The worker process is lost; its task goes back to the broker, its slot stays.
WorkerLost(w) ==
  /\ pc[w] # "idle"
  /\ Spend(IF pc[w] \in {"report", "publish"} THEN "outage" ELSE "crash")
  /\ queue' = queue \cup {job[w]}
  /\ Leave(w)
  /\ UNCHANGED <<row, assessment, operation, revoked, redis, request, upkeep>>

\* The broker delivers a task again although its worker is still at it: the
\* connection was lost or the visibility timeout of 48 hours passed.
Redeliver(w) ==
  /\ pc[w] # "idle" /\ job[w] \notin queue
  /\ Spend("delay")
  /\ queue' = queue \cup {job[w]}
  /\ UNCHANGED <<row, assessment, operation, revoked, redis, worker, request,
                 upkeep>>

\* The worker's own next steps; reporting is left to the composition.
Execute(w) ==
  \/ _update_scan_row(w)
  \/ Enter(w)
  \/ ReadStatus(w)
  \/ acquire_execution_lease(w)
  \/ RetryLater(w)
  \/ _claim_scan_execution(w)
  \/ CheckCancel(w)
  \/ Start(w)
  \/ StopScanner(w)
  \/ RecordCancelled(w)
  \/ ScannerExits(w)
  \/ Seal(w)
  \/ _ingest_scan_results(w)
  \/ Close(w)
  \/ RecordOutcome(w)
  \/ RecordFailed(w)
  \/ Acknowledge(w)

\* What may happen to a worker at any time.
Disturb(w) ==
  \/ Progress(w)
  \/ Raise(w)
  \/ TaskFails(w)
  \/ ReleaseFails(w)
  \/ WorkerLost(w)
  \/ Redeliver(w)
--------------------------------------------------------------------------------
(***************************************************************************)
(* Time and upkeep.                                                        *)
(***************************************************************************)

\* A heartbeat nobody renews grows old; it is looked at for running scans only.
HeartbeatAges(s) ==
  /\ status[s] = "running" /\ heartbeat[s] = "fresh"
  /\ \A w \in Workers : job[w] # s
  /\ heartbeat' = [heartbeat EXCEPT ![s] = "old"]
  /\ UNCHANGED <<bounds, status, cancelFlag, taskId, sessionDir, assessment,
                 operation, broker, redis, worker, request, upkeep>>

\* So does that of a worker busy with evidence or ingestion for longer than the
\* cutoff of 10 minutes; only the loop renews it.
SlowWorker(w) ==
  /\ pc[w] \in {"stop", "post", "ingest", "fail"}
  /\ status[job[w]] = "running" /\ heartbeat[job[w]] = "fresh"
  /\ Spend("delay")
  /\ heartbeat' = [heartbeat EXCEPT ![job[w]] = "old"]
  /\ UNCHANGED <<status, cancelFlag, taskId, sessionDir, assessment, operation,
                 broker, redis, worker, request, upkeep>>

\* The slot of a lost worker lapses with its score.
SlotLapses(s) ==
  /\ s \in slots
  /\ \A w \in Workers : ~Executes(w, s)
  /\ slots' = slots \ {s}
  /\ UNCHANGED <<bounds, row, assessment, operation, broker, unslotted, dropped,
                 worker, request, upkeep>>

\* So does that of a worker who is longer at the scan than its ttl, fifteen
\* minutes more than the timeout of the scanner alone.
SlotOutlived(s) ==
  /\ s \in slots
  /\ \E w \in Workers : Executes(w, s)
  /\ Spend("lapse")
  /\ slots' = slots \ {s}
  /\ unslotted' = unslotted \cup {s}
  /\ UNCHANGED <<row, assessment, operation, broker, dropped, worker, request,
                 upkeep>>

\* EXPIRE on the whole sorted set is renewed only when a slot is added, with
\* that task's ttl: the key may go before the scores of longer scans.
SlotKeyExpires ==
  /\ slots # {}
  /\ Spend("lapse")
  /\ slots' = {}
  /\ unslotted' = unslotted \cup {s \in slots : \E w \in Workers : Executes(w, s)}
  /\ UNCHANGED <<row, assessment, operation, broker, dropped, worker, request,
                 upkeep>>

\* Mutant: scans that were asked to stop are left to their worker.
ReconcileUnlessCancelled ==
  LET lost == {s \in Scan : /\ status[s] = "running" /\ heartbeat[s] = "old"
                            /\ ~cancelFlag[s]} IN
  /\ orphans = [s \in Scan |-> None]
  /\ lost # {}
  /\ orphans' = [s \in Scan |-> IF s \in lost THEN "plain" ELSE None]
  /\ UNCHANGED <<bounds, row, assessment, operation, broker, redis, worker,
                 request, intent, recovery, recovered>>

\* Running scans whose heartbeat is older than the cutoff are read ...
reconcile_stale_scans ==
  LET lost == {s \in Scan : status[s] = "running" /\ heartbeat[s] = "old"} IN
  /\ orphans = [s \in Scan |-> None]
  /\ lost # {}
  /\ orphans' = [s \in Scan |-> IF s \notin lost THEN None
                                ELSE IF cancelFlag[s] THEN "cancel" ELSE "plain"]
  /\ UNCHANGED <<bounds, row, assessment, operation, broker, redis, worker,
                 request, intent, recovery, recovered>>

\* Mutant: the reason is written as the status.
CommitOrphaned ==
  LET lost == {s \in Scan : orphans[s] # None} IN
  /\ lost # {}
  /\ status' = [s \in Scan |-> IF s \in lost THEN "orphaned" ELSE status[s]]
  /\ orphans' = [s \in Scan |-> None]
  /\ UNCHANGED <<bounds, cancelFlag, taskId, heartbeat, sessionDir, assessment,
                 operation, broker, redis, worker, request, intent, recovery,
                 recovered>>

\* ... and failed, whatever they have become.
CommitReconcile ==
  LET lost == {s \in Scan : orphans[s] # None} IN
  /\ lost # {}
  /\ status' = [s \in Scan |-> IF s \in lost THEN "failed" ELSE status[s]]
  /\ cancelFlag' = [s \in Scan |-> IF s \in lost THEN orphans[s] = "cancel"
                                                ELSE cancelFlag[s]]
  /\ assessment' = IF assessment = "running" THEN "failed" ELSE assessment
  /\ orphans' = [s \in Scan |-> None]
  /\ UNCHANGED <<bounds, taskId, heartbeat, sessionDir, operation, broker, redis,
                 worker, request, intent, recovery, recovered>>

\* A retry of the ingestion: only for a scan that is not active and whose
\* session directory is kept.
retry_scan_ingestion(s) ==
  /\ recovery = "idle"
  /\ status[s] \in Terminal
  /\ sessionDir[s]
  /\ Spend("recovery")
  /\ recovery' = "ingest" /\ recovered' = s
  /\ UNCHANGED <<row, assessment, operation, broker, redis, worker, request,
                 intent, orphans>>

RecoveryFails ==
  /\ recovery = "ingest"
  /\ recovery' = "idle" /\ recovered' = 0
  /\ UNCHANGED <<bounds, row, assessment, operation, broker, redis, worker,
                 request, intent, orphans>>

\* Scan and assessment are completed without another look at their status.
RecoveryCompletes ==
  /\ recovery = "ingest"
  /\ status' = [status EXCEPT ![recovered] = "completed"]
  /\ assessment' = "completed"
  /\ recovery' = "report"
  /\ UNCHANGED <<bounds, cancelFlag, taskId, heartbeat, sessionDir, operation,
                 broker, redis, worker, request, intent, orphans, recovered>>

\* The scan's side of queueing the recovered report.
RecoveryStep(from, to) ==
  /\ recovery = from
  /\ recovery' = to
  /\ recovered' = IF to = "idle" THEN 0 ELSE recovered
  /\ UNCHANGED <<fixed, assessment, operation, broker, redis, worker,
                 request, intent, orphans>>

\* Artifacts past their retention of 30 days are removed with the reference to
\* them, which only a recovery looks at; no worker is at the scan by then.
retention_maintenance_task(s) ==
  /\ left["recovery"] > 0
  /\ status[s] \in Terminal
  /\ \A w \in Workers : job[w] # s
  /\ sessionDir[s]
  /\ sessionDir' = [sessionDir EXCEPT ![s] = FALSE]
  /\ UNCHANGED <<bounds, status, cancelFlag, taskId, heartbeat, assessment,
                 operation, broker, redis, worker, request, upkeep>>

Upkeep ==
  \/ reconcile_stale_scans
  \/ CommitReconcile
  \/ RecoveryFails
  \/ RecoveryCompletes
  \/ SlotKeyExpires
  \/ \E s \in Scan :
       \/ Discard(s)
       \/ HeartbeatAges(s)
       \/ SlotLapses(s)
       \/ SlotOutlived(s)
       \/ retry_scan_ingestion(s)
       \/ retention_maintenance_task(s)

\* Every step that does not touch a report.
ScanNext ==
  \/ \E q \in Requests : Dispatch(q)
  \/ Control
  \/ \E w \in Workers :
       \/ Execute(w)
       \/ Disturb(w)
       \/ SlowWorker(w)
       \/ \E s \in Scan : Receive(w, s)
  \/ Upkeep
================================================================================
