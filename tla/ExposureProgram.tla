----------------------------- MODULE ExposureProgram ----------------------------
(***************************************************************************)
(* The recurring exposure program of v3 around one asset: which scans are  *)
(* admitted (start_scan and the monitors of queue_due_monitors), and how   *)
(* the finding history of the organization follows their results           *)
(* (sync_scan_finding_lifecycle).                                          *)
(*                                                                         *)
(* A scan is here only active or closed; how it gets there, and that a     *)
(* late runner may finalize it once more, is StageRunner's matter.  The    *)
(* scans are those of one assessment, started by hand or by its monitor,   *)
(* and those of other assessments of the same asset.  A monitor's scan is  *)
(* not linked to the asset (queue_due_monitors writes no                   *)
(* assessment_asset_scans row).  Time is what the code compares with       *)
(* now(): a monitor is due, a scope authorization has expired.             *)
(***************************************************************************)
EXTENDS Naturals, FiniteSets

CONSTANTS
  MaxScans,   \* bound on the scans ever queued
  Findings    \* fingerprints of findings above "info"

ASSUME ProgramAssumption == MaxScans \in Nat

Scan == 1 .. MaxScans   \* in order of creation

OperatorStatus == {"open", "accepted_risk", "dismissed", "needs_revalidation"}
Lifecycle == OperatorStatus \cup {"resolved", "none"}
Results == {"complete", "limited"}   \* limited: partial, failed or cancelled

VARIABLES
  kind,       \* who queued a scan: "manual", "monitor" or "other" assessment
  active,     \* scans queued or running
  observed,   \* findings rows of each scan
  syncing,    \* the result a finalizer carries to the history, or "no"
  monitor,    \* exposure_monitors.status, "none" for no row
  due,        \* next_run_at <= now()
  checked,    \* queue_due_monitors found no active scan and will insert one
  scopeValid, \* the stored scope authorization has not expired
  life,       \* exposure_findings.lifecycle_status, "none" for no row
  located,    \* exposure_findings.asset_id is the asset
  lastSeen,   \* exposure_findings.last_seen_scan_id, 0 for no row
  announced   \* keys of the events enqueued for delivery

scanVars == <<kind, active, observed, syncing>>
monitorVars == <<monitor, due, checked>>
findingVars == <<life, located, lastSeen>>
vars == <<scanVars, monitorVars, scopeValid, findingVars, announced>>

\* enqueue_integration_deliveries inserts a key once; a finding's payload is its
\* title and severity and the scan.
EventKey ==
  ({"finding.opened", "finding.resolved"} \X Findings \X Scan)
    \cup ({"scan.completed"} \X Results \X Scan)
    \cup {<<"monitor.blocked">>}

TypeOK ==
  /\ kind \in [Scan -> {"none", "manual", "monitor", "other"}]
  /\ active \subseteq Scan
  /\ observed \in [Scan -> SUBSET Findings]
  /\ syncing \in [Scan -> Results \cup {"no"}]
  /\ monitor \in {"none", "active", "paused", "blocked"}
  /\ due \in BOOLEAN
  /\ checked \in BOOLEAN
  /\ scopeValid \in BOOLEAN
  /\ life \in [Findings -> Lifecycle]
  /\ located \in [Findings -> BOOLEAN]
  /\ lastSeen \in [Findings -> Scan \cup {0}]
  /\ announced \subseteq EventKey
  /\ \A f \in Findings : life[f] = "none" <=> lastSeen[f] = 0
  /\ \A s \in Scan : s \in active \/ syncing[s] # "no" => kind[s] # "none"

Init ==
  /\ kind = [s \in Scan |-> "none"]
  /\ active = {}
  /\ observed = [s \in Scan |-> {}]
  /\ syncing = [s \in Scan |-> "no"]
  /\ monitor = "none"
  /\ due = FALSE
  /\ checked = FALSE
  /\ scopeValid = TRUE
  /\ life = [f \in Findings |-> "none"]
  /\ located = [f \in Findings |-> FALSE]
  /\ lastSeen = [f \in Findings |-> 0]
  /\ announced = {}

--------------------------------------------------------------------------------
(***************************************************************************)
(* Scan admission.                                                         *)
(***************************************************************************)
\* The next scan row.
Queue(s, who) ==
  /\ kind[s] = "none"
  /\ \A earlier \in Scan : earlier < s => kind[earlier] # "none"
  /\ kind' = [kind EXCEPT ![s] = who]
  /\ active' = active \cup {s}
  /\ UNCHANGED <<observed, syncing>>

\* An active scan of the assessment itself.
ActiveScan == \E s \in active : kind[s] \in {"manual", "monitor"}

\* Mutation: the handler does not look for an active scan.
StartUnchecked(s) ==
  /\ scopeValid
  /\ Queue(s, "manual")
  /\ UNCHANGED <<monitorVars, scopeValid, findingVars, announced>>

\* The assessment row is locked, so check and insert are one step.
start_scan(s) ==
  /\ scopeValid
  /\ ~ActiveScan
  /\ Queue(s, "manual")
  /\ UNCHANGED <<monitorVars, scopeValid, findingVars, announced>>

\* A scan of the same asset for another assessment of the organization.
StartOtherAssessment(s) ==
  /\ Queue(s, "other")
  /\ UNCHANGED <<monitorVars, scopeValid, findingVars, announced>>

ScopeExpires ==
  /\ scopeValid
  /\ scopeValid' = FALSE
  /\ UNCHANGED <<scanVars, monitorVars, findingVars, announced>>

--------------------------------------------------------------------------------
(***************************************************************************)
(* Monitors.  queue_due_monitors locks the monitor's row, not the          *)
(* assessment: between its look at the scans and its insert other          *)
(* transactions commit, except those that need the monitor's row.          *)
(***************************************************************************)
create_exposure_monitor ==
  /\ ~checked
  /\ monitor' = "active"
  /\ due' = TRUE
  /\ UNCHANGED <<scanVars, checked, scopeValid, findingVars, announced>>

\* Mutation: the runner does not hold the monitor's row.
UpdateUnlocked(status) ==
  /\ monitor # "none"
  /\ monitor' = status
  /\ UNCHANGED <<scanVars, due, checked, scopeValid, findingVars, announced>>

update_exposure_monitor(status) ==
  /\ monitor # "none" /\ ~checked
  /\ monitor' = status
  /\ UNCHANGED <<scanVars, due, checked, scopeValid, findingVars, announced>>

MonitorDue ==
  /\ monitor # "none" /\ ~due
  /\ due' = TRUE
  /\ UNCHANGED <<scanVars, monitor, checked, scopeValid, findingVars, announced>>

Selected == monitor = "active" /\ due /\ ~checked

BlockMonitor ==
  /\ Selected
  /\ ~scopeValid
  /\ monitor' = "blocked"
  /\ announced' = announced \cup {<<"monitor.blocked">>}
  /\ UNCHANGED <<scanVars, due, checked, scopeValid, findingVars>>

PostponeMonitor ==
  /\ Selected
  /\ scopeValid /\ ActiveScan
  /\ due' = FALSE
  /\ UNCHANGED <<scanVars, monitor, checked, scopeValid, findingVars, announced>>

CheckMonitor ==
  /\ Selected
  /\ scopeValid /\ ~ActiveScan
  /\ checked' = TRUE
  /\ UNCHANGED <<scanVars, monitor, due, scopeValid, findingVars, announced>>

DispatchMonitor(s) ==
  /\ checked
  /\ checked' = FALSE
  /\ due' = FALSE
  /\ Queue(s, "monitor")
  /\ UNCHANGED <<monitor, scopeValid, findingVars, announced>>

--------------------------------------------------------------------------------
(***************************************************************************)
(* Results.                                                                *)
(***************************************************************************)
\* An adapter (nuclei_baseline stands for those that do) stores a finding, also
\* one of a runner that lost its lease.
Observe(s, f) ==
  /\ kind[s] # "none"
  /\ observed' = [observed EXCEPT ![s] = @ \cup {f}]
  /\ UNCHANGED <<kind, active, syncing, monitorVars, scopeValid, findingVars,
                 announced>>

\* The finalizer closes the scan, or closes it once more, and goes on to the
\* finding history.
Finalize(s, result) ==
  /\ kind[s] # "none" /\ syncing[s] = "no"
  /\ active' = active \ {s}
  /\ syncing' = [syncing EXCEPT ![s] = result]
  /\ UNCHANGED <<kind, observed, monitorVars, scopeValid, findingVars, announced>>

\* cancel_scan closes a scan without synchronizing the history.
Cancel(s) ==
  /\ s \in active
  /\ active' = active \ {s}
  /\ UNCHANGED <<kind, observed, syncing, monitorVars, scopeValid, findingVars,
                 announced>>

\* The runner dies, or the synchronization raises and is only logged.
SyncLost(s) ==
  /\ syncing[s] # "no"
  /\ syncing' = [syncing EXCEPT ![s] = "no"]
  /\ UNCHANGED <<kind, active, observed, monitorVars, scopeValid, findingVars,
                 announced>>

Linked(s) == kind[s] # "monitor"

\* Mutation: a finding seen again is open again, whatever a person decided.
AlwaysReopen(s, f) ==
  IF f \in observed[s] THEN "open" ELSE life[f]

\* A finding's status after the loop over the scan's observations.
Promoted(s, f) ==
  IF f \in observed[s] /\ life[f] \in {"none", "resolved"} THEN "open" ELSE life[f]

\* Mutation: limited coverage is enough to call a finding resolved.
ResolvedByAnyScan(s, f) ==
  /\ Linked(s)
  /\ located[f]
  /\ life[f] \in {"open", "needs_revalidation"}
  /\ f \notin observed[s]

\* What a complete scan of the asset no longer shows.  The row's scan can be s
\* already, when s is synchronized again.
ResolvedBy(s, f) ==
  /\ syncing[s] = "complete"
  /\ Linked(s)
  /\ located[f]
  /\ life[f] \in {"open", "needs_revalidation"}
  /\ f \notin observed[s] /\ lastSeen[f] # s

sync_scan_finding_lifecycle(s) ==
  /\ syncing[s] # "no"
  /\ syncing' = [syncing EXCEPT ![s] = "no"]
  /\ life' = [f \in Findings |-> IF ResolvedBy(s, f) THEN "resolved"
                                                     ELSE Promoted(s, f)]
  /\ located' = [f \in Findings |-> located[f] \/ (f \in observed[s] /\ Linked(s))]
  /\ lastSeen' = [f \in Findings |-> IF f \in observed[s] THEN s ELSE lastSeen[f]]
  /\ announced' = announced
       \cup {<<"finding.opened", f, s>> :
               f \in {g \in observed[s] : life[g] \in {"none", "resolved"}}}
       \cup {<<"finding.resolved", f, s>> : f \in {g \in Findings : ResolvedBy(s, g)}}
       \cup {<<"scan.completed", syncing[s], s>>}
  /\ UNCHANGED <<kind, active, observed, monitorVars, scopeValid>>

\* Mutation: the handler does not ask whether the finding exists.
UpdateUnknown(f, status) ==
  /\ life' = [life EXCEPT ![f] = status]
  /\ UNCHANGED <<scanVars, monitorVars, scopeValid, located, lastSeen, announced>>

\* A person's decision about a finding.
update_exposure_finding_lifecycle(f, status) ==
  /\ life[f] # "none"
  /\ life' = [life EXCEPT ![f] = status]
  /\ UNCHANGED <<scanVars, monitorVars, scopeValid, located, lastSeen, announced>>

--------------------------------------------------------------------------------
Next ==
  \/ \E s \in Scan :
       \/ start_scan(s)
       \/ StartOtherAssessment(s)
       \/ DispatchMonitor(s)
       \/ \E f \in Findings : Observe(s, f)
       \/ \E result \in Results : Finalize(s, result)
       \/ Cancel(s)
       \/ SyncLost(s)
       \/ sync_scan_finding_lifecycle(s)
  \/ ScopeExpires
  \/ create_exposure_monitor
  \/ \E status \in {"active", "paused"} : update_exposure_monitor(status)
  \/ MonitorDue
  \/ BlockMonitor
  \/ PostponeMonitor
  \/ CheckMonitor
  \/ \E f \in Findings, status \in OperatorStatus :
       update_exposure_finding_lifecycle(f, status)

Spec == Init /\ [][Next]_vars
--------------------------------------------------------------------------------
ActiveOf(who) == {s \in active : kind[s] = who}

\* BACKEND_10_10_CHECKLIST.md says that dispatch rejects overlapping active runs
\* of one assessment.  start_scan and queue_due_monitors look for an active scan
\* under the locks of different rows, so both may find none.
OneActiveScan ==
  \A s, t \in ActiveOf("manual") \cup ActiveOf("monitor") : s = t

\* How far that overlap goes: one scan started by hand and one of the monitor,
\* whichever was first, never a third and never two of the same origin.
ActiveScansBounded ==
  /\ \A s, t \in ActiveOf("manual") : s = t
  /\ \A s, t \in ActiveOf("monitor") : s = t

\* A monitor that is paused or blocked dispatches nothing: whoever pauses it
\* between the runner's look at the scans and its insert waits for the runner.
MonitorRunsOnlyWhileActive ==
  [][\A s \in Scan : kind[s] = "none" /\ kind'[s] = "monitor" =>
       monitor = "active" /\ monitor' = "active"]_vars

\* No scan, first, late or repeated, changes a finding that a person accepted or
\* dismissed (sync_scan_finding_lifecycle against the operator's PATCH).
OperatorDecisionKept ==
  [][\A f \in Findings :
       life[f] \in {"accepted_risk", "dismissed"} /\ life'[f] # life[f] =>
         \E status \in OperatorStatus :
           update_exposure_finding_lifecycle(f, status)]_vars

\* A resolved finding was resolved by a scan of its asset that completed and is
\* not the one that saw it last, and the resolution was announced.
ResolvedOnEvidence ==
  \A f \in Findings : life[f] = "resolved" =>
    /\ located[f]
    /\ \E t \in Scan : /\ <<"finding.resolved", f, t>> \in announced
                       /\ <<"scan.completed", "complete", t>> \in announced
                       /\ Linked(t) /\ lastSeen[f] # t
================================================================================
