------------------------- MODULE ExposureProgramProofs --------------------------
(***************************************************************************)
(* Theorems about ExposureProgram, for any number of scans and findings.   *)
(* The invariant adds what the runner knows between its look at the scans  *)
(* and its insert (the monitor is active and has no active scan, because   *)
(* it holds the monitor's row) and that only queued scans are announced as *)
(* completed, so that a later insert cannot change what a resolution       *)
(* rested on.                                                              *)
(***************************************************************************)
EXTENDS ExposureProgram, TLAPS

DispatchReady ==
  checked => monitor = "active" /\ ActiveOf("monitor") = {}

CompletedWasQueued ==
  \A t \in Scan :
    <<"scan.completed", "complete", t>> \in announced => kind[t] # "none"

IInv ==
  /\ TypeOK
  /\ DispatchReady
  /\ ActiveScansBounded
  /\ CompletedWasQueued
  /\ ResolvedOnEvidence

LEMMA Initially == Init => IInv
<1> SUFFICES ASSUME Init PROVE IInv
  OBVIOUS
<1>1. TypeOK
  BY DEF Init, TypeOK, Lifecycle, Results
<1>2. DispatchReady /\ ActiveScansBounded
  BY DEF Init, DispatchReady, ActiveScansBounded, ActiveOf
<1>3. CompletedWasQueued /\ ResolvedOnEvidence
  BY DEF Init, CompletedWasQueued, ResolvedOnEvidence
<1> QED BY <1>1, <1>2, <1>3 DEF IInv

--------------------------------------------------------------------------------
\* Admission: a step that queues one scan keeps the bound if no scan of its kind
\* is active.
LEMMA QueueKeepsBound ==
  ASSUME IInv, NEW s \in Scan, NEW who \in {"manual", "monitor", "other"},
         Queue(s, who), who # "other" => ActiveOf(who) = {}
  PROVE  /\ ActiveScansBounded'
         /\ kind' \in [Scan -> {"none", "manual", "monitor", "other"}]
         /\ active' \subseteq Scan
         /\ \A t \in Scan : kind[t] # "none" => kind'[t] = kind[t]
         /\ \A t \in Scan : t \in active' => kind'[t] # "none"
         /\ who # "monitor" => ActiveOf("monitor")' = ActiveOf("monitor")
  <1>1. /\ kind' = [kind EXCEPT ![s] = who]
        /\ active' = active \cup {s}
        /\ kind[s] = "none"
        /\ kind \in [Scan -> {"none", "manual", "monitor", "other"}]
        /\ active \subseteq Scan
        /\ \A t \in Scan : t \in active => kind[t] # "none"
    BY DEF Queue, IInv, TypeOK
  <1>2. s \notin active
    BY <1>1
  <1>3. \A t \in active : kind'[t] = kind[t]
    BY <1>1, <1>2
  <1>4. kind'[s] = who
    BY <1>1
  <1>5. ActiveScansBounded'
    BY <1>1, <1>2, <1>3, <1>4 DEF IInv, ActiveScansBounded, ActiveOf
  <1>6. who # "monitor" => ActiveOf("monitor")' = ActiveOf("monitor")
    BY <1>1, <1>2, <1>3, <1>4 DEF ActiveOf
  <1> QED BY <1>1, <1>2, <1>3, <1>4, <1>5, <1>6

\* What a resolution rests on survives every step that keeps the findings and
\* the announcements and never changes the kind of a queued scan.
LEMMA EvidenceSurvives ==
  ASSUME IInv, UNCHANGED findingVars,
         announced' = announced \/ announced' = announced \cup {<<"monitor.blocked">>},
         \A t \in Scan : kind[t] # "none" => kind'[t] = kind[t]
  PROVE  (CompletedWasQueued /\ ResolvedOnEvidence)'
  <1>1. announced \subseteq announced'
    OBVIOUS
  <1>2. \A t \in Scan : <<"scan.completed", "complete", t>> \in announced' =>
                        <<"scan.completed", "complete", t>> \in announced
    OBVIOUS
  <1>3. CompletedWasQueued'
    BY <1>2 DEF IInv, CompletedWasQueued
  <1>4. ResolvedOnEvidence'
    <2> SUFFICES ASSUME NEW f \in Findings, life'[f] = "resolved"
                 PROVE  /\ located'[f]
                        /\ \E t \in Scan :
                             /\ <<"finding.resolved", f, t>> \in announced'
                             /\ <<"scan.completed", "complete", t>> \in announced'
                             /\ Linked(t)' /\ lastSeen'[f] # t
      BY DEF ResolvedOnEvidence
    <2>1. life' = life /\ located' = located /\ lastSeen' = lastSeen
      BY DEF findingVars
    <2>2. PICK t \in Scan : /\ <<"finding.resolved", f, t>> \in announced
                            /\ <<"scan.completed", "complete", t>> \in announced
                            /\ Linked(t) /\ lastSeen[f] # t
      BY <2>1 DEF IInv, ResolvedOnEvidence
    <2>3. kind[t] # "none"
      BY <2>2 DEF IInv, CompletedWasQueued
    <2>4. Linked(t)'
      BY <2>2, <2>3 DEF Linked
    <2>5. located'[f]
      BY <2>1 DEF IInv, ResolvedOnEvidence
    <2> QED BY <1>1, <2>1, <2>2, <2>4, <2>5
  <1> QED BY <1>3, <1>4

--------------------------------------------------------------------------------
LEMMA SyncPreserves ==
  ASSUME IInv, NEW s \in Scan, sync_scan_finding_lifecycle(s)
  PROVE  IInv'
<1> USE DEF sync_scan_finding_lifecycle
<1> DEFINE opened == {<<"finding.opened", f, s>> :
                        f \in {g \in observed[s] : life[g] \in {"none", "resolved"}}}
           resolved == {<<"finding.resolved", f, s>> :
                          f \in {g \in Findings : ResolvedBy(s, g)}}
<1>1. announced' = announced \cup opened \cup resolved
                     \cup {<<"scan.completed", syncing[s], s>>}
  OBVIOUS
<1>2. /\ syncing[s] \in Results /\ kind[s] # "none"
      /\ observed[s] \subseteq Findings
  BY DEF IInv, TypeOK
<1>3. /\ opened \subseteq EventKey
      /\ resolved \subseteq EventKey
      /\ <<"scan.completed", syncing[s], s>> \in EventKey
  BY <1>2 DEF EventKey
<1>4. \A t \in Scan : <<"scan.completed", "complete", t>> \in announced' =>
        t = s \/ <<"scan.completed", "complete", t>> \in announced
  BY <1>1
<1>5. /\ announced \subseteq announced'
      /\ <<"scan.completed", syncing[s], s>> \in announced'
      /\ \A f \in Findings : ResolvedBy(s, f) =>
           <<"finding.resolved", f, s>> \in announced'
  BY <1>1
<1>6. announced' \subseteq EventKey
  BY <1>1, <1>3 DEF IInv, TypeOK
<1> HIDE DEF opened, resolved
<1>7. \A f \in Findings :
        /\ Promoted(s, f) \in Lifecycle
        /\ Promoted(s, f) = "none" <=> life[f] = "none" /\ f \notin observed[s]
  BY DEF Promoted, IInv, TypeOK, Lifecycle, OperatorStatus
<1>8. \A f \in Findings : ResolvedBy(s, f) => life[f] # "none"
  BY DEF ResolvedBy
<1>9. s # 0
  BY DEF Scan
<1>10. TypeOK'
  <2>1. /\ syncing' \in [Scan -> Results \cup {"no"}]
        /\ \A t \in Scan : syncing'[t] # "no" => syncing[t] # "no"
    BY DEF IInv, TypeOK
  <2>2. /\ life' = [f \in Findings |-> IF ResolvedBy(s, f) THEN "resolved"
                                                         ELSE Promoted(s, f)]
        /\ lastSeen' = [f \in Findings |-> IF f \in observed[s] THEN s
                                                              ELSE lastSeen[f]]
    OBVIOUS
  <2>3. located' \in [Findings -> BOOLEAN]
    BY DEF IInv, TypeOK
  <2>4. lastSeen' \in [Findings -> Scan \cup {0}]
    BY DEF IInv, TypeOK
  <2> HIDE DEF sync_scan_finding_lifecycle
  <2>5. ASSUME NEW f \in Findings
        PROVE  /\ life'[f] \in Lifecycle
               /\ life'[f] = "none" <=> lastSeen'[f] = 0
    <3>1. /\ Promoted(s, f) \in Lifecycle
          /\ Promoted(s, f) = "none" <=> life[f] = "none" /\ f \notin observed[s]
      BY <1>7
    <3>2. life[f] = "none" <=> lastSeen[f] = 0
      BY DEF IInv, TypeOK
    <3>3. lastSeen'[f] = 0 <=> f \notin observed[s] /\ lastSeen[f] = 0
      BY <1>9, <2>2
    <3>4. CASE ResolvedBy(s, f)
      <4>1. life'[f] = "resolved"
        BY <2>2, <3>4
      <4>2. life[f] # "none"
        BY <1>8, <3>4
      <4> QED BY <3>1, <3>2, <3>3, <4>1, <4>2 DEF Lifecycle
    <3>5. CASE ~ResolvedBy(s, f)
      <4>1. life'[f] = Promoted(s, f)
        BY <2>2, <3>5
      <4> QED BY <3>1, <3>2, <3>3, <4>1
    <3> QED BY <3>4, <3>5
  <2>6. life' \in [Findings -> Lifecycle]
    BY <2>2, <2>5
  <2> USE DEF sync_scan_finding_lifecycle
  <2> QED
    BY <1>6, <2>1, <2>3, <2>4, <2>5, <2>6
    DEF IInv, TypeOK, monitorVars
<1>11. (DispatchReady /\ ActiveScansBounded)'
  BY DEF IInv, DispatchReady, ActiveScansBounded, ActiveOf, monitorVars
<1>12. CompletedWasQueued'
  BY <1>2, <1>4 DEF IInv, CompletedWasQueued
<1>13. ResolvedOnEvidence'
  <2> SUFFICES ASSUME NEW f \in Findings, life'[f] = "resolved"
               PROVE  /\ located'[f]
                      /\ \E t \in Scan :
                           /\ <<"finding.resolved", f, t>> \in announced'
                           /\ <<"scan.completed", "complete", t>> \in announced'
                           /\ Linked(t)' /\ lastSeen'[f] # t
    BY DEF ResolvedOnEvidence
  <2>1. /\ located[f] => located'[f]
        /\ f \notin observed[s] => lastSeen'[f] = lastSeen[f]
        /\ \A t \in Scan : Linked(t)' <=> Linked(t)
    BY DEF Linked
  <2>2. CASE ResolvedBy(s, f)
    BY <1>5, <2>1, <2>2 DEF ResolvedBy
  <2>3. CASE ~ResolvedBy(s, f)
    <3>1. Promoted(s, f) = "resolved"
      BY <2>3
    <3>2. life[f] = "resolved" /\ f \notin observed[s]
      BY <3>1 DEF Promoted
    <3>3. PICK t \in Scan : /\ <<"finding.resolved", f, t>> \in announced
                            /\ <<"scan.completed", "complete", t>> \in announced
                            /\ Linked(t) /\ lastSeen[f] # t
      BY <3>2 DEF IInv, ResolvedOnEvidence
    <3>4. located[f]
      BY <3>2 DEF IInv, ResolvedOnEvidence
    <3> QED BY <1>5, <2>1, <3>2, <3>3, <3>4
  <2> QED BY <2>2, <2>3
<1> QED BY <1>10, <1>11, <1>12, <1>13 DEF IInv

--------------------------------------------------------------------------------
LEMMA Inductive == IInv /\ [Next]_vars => IInv'
<1> SUFFICES ASSUME IInv, [Next]_vars PROVE IInv'
  OBVIOUS
<1> USE DEF scanVars, monitorVars, findingVars
<1>1. CASE UNCHANGED vars
  <2>1. TypeOK'
    BY <1>1 DEF IInv, TypeOK, vars
  <2>2. (DispatchReady /\ ActiveScansBounded)'
    BY <1>1 DEF IInv, DispatchReady, ActiveScansBounded, ActiveOf, vars
  <2>3. (CompletedWasQueued /\ ResolvedOnEvidence)'
    BY <1>1, EvidenceSurvives DEF vars
  <2> QED BY <2>1, <2>2, <2>3 DEF IInv
<1>2. ASSUME NEW s \in Scan, start_scan(s) PROVE IInv'
  <2>1. Queue(s, "manual") /\ ActiveOf("manual") = {}
    BY <1>2 DEF start_scan, ActiveScan, ActiveOf
  <2>2. (CompletedWasQueued /\ ResolvedOnEvidence)'
    BY <1>2, <2>1, QueueKeepsBound, EvidenceSurvives DEF start_scan
  <2>3. TypeOK'
    BY <1>2, <2>1, QueueKeepsBound DEF start_scan, Queue, IInv, TypeOK
  <2>4. (DispatchReady /\ ActiveScansBounded)'
    BY <1>2, <2>1, QueueKeepsBound DEF start_scan, IInv, DispatchReady
  <2> QED BY <2>2, <2>3, <2>4 DEF IInv
<1>3. ASSUME NEW s \in Scan, StartOtherAssessment(s) PROVE IInv'
  <2>1. Queue(s, "other")
    BY <1>3 DEF StartOtherAssessment
  <2>2. (CompletedWasQueued /\ ResolvedOnEvidence)'
    BY <1>3, <2>1, QueueKeepsBound, EvidenceSurvives DEF StartOtherAssessment
  <2>3. TypeOK'
    BY <1>3, <2>1, QueueKeepsBound DEF StartOtherAssessment, Queue, IInv, TypeOK
  <2>4. (DispatchReady /\ ActiveScansBounded)'
    BY <1>3, <2>1, QueueKeepsBound DEF StartOtherAssessment, IInv, DispatchReady
  <2> QED BY <2>2, <2>3, <2>4 DEF IInv
<1>4. ASSUME NEW s \in Scan, DispatchMonitor(s) PROVE IInv'
  <2>1. Queue(s, "monitor") /\ ActiveOf("monitor") = {}
    BY <1>4 DEF DispatchMonitor, IInv, DispatchReady
  <2>2. (CompletedWasQueued /\ ResolvedOnEvidence)'
    BY <1>4, <2>1, QueueKeepsBound, EvidenceSurvives DEF DispatchMonitor
  <2>3. TypeOK'
    BY <1>4, <2>1, QueueKeepsBound DEF DispatchMonitor, Queue, IInv, TypeOK
  <2>4. (DispatchReady /\ ActiveScansBounded)'
    BY <1>4, <2>1, QueueKeepsBound DEF DispatchMonitor, DispatchReady
  <2> QED BY <2>2, <2>3, <2>4 DEF IInv
<1>5. ASSUME \/ ScopeExpires \/ create_exposure_monitor \/ MonitorDue
             \/ \E status \in {"active", "paused"} : update_exposure_monitor(status)
             \/ BlockMonitor \/ PostponeMonitor \/ CheckMonitor
      PROVE  IInv'
  <2> USE <1>5 DEF ScopeExpires, create_exposure_monitor, MonitorDue,
                   update_exposure_monitor, BlockMonitor, PostponeMonitor,
                   CheckMonitor, Selected
  <2>1. /\ UNCHANGED <<scanVars, findingVars>>
        /\ announced' = announced
             \/ announced' = announced \cup {<<"monitor.blocked">>}
    OBVIOUS
  <2>2. (CompletedWasQueued /\ ResolvedOnEvidence)'
    BY <2>1, EvidenceSurvives
  <2>3. TypeOK'
    <3>1. /\ monitor' \in {"none", "active", "paused", "blocked"}
          /\ due' \in BOOLEAN /\ checked' \in BOOLEAN /\ scopeValid' \in BOOLEAN
      BY DEF IInv, TypeOK
    <3>2. announced' \subseteq EventKey
      BY <2>1 DEF IInv, TypeOK, EventKey
    <3> QED BY <2>1, <3>1, <3>2 DEF IInv, TypeOK
  <2>4. ActiveScansBounded'
    BY <2>1 DEF IInv, ActiveScansBounded, ActiveOf
  <2>5. DispatchReady'
    BY <2>1 DEF IInv, DispatchReady, ActiveOf, ActiveScan
  <2> QED BY <2>2, <2>3, <2>4, <2>5 DEF IInv
<1>6. ASSUME NEW s \in Scan,
             \/ \E f \in Findings : Observe(s, f)
             \/ \E result \in Results : Finalize(s, result)
             \/ Cancel(s) \/ SyncLost(s)
      PROVE  IInv'
  <2> USE <1>6 DEF Observe, Finalize, Cancel, SyncLost
  <2>1. /\ UNCHANGED <<kind, monitorVars, scopeValid, findingVars, announced>>
        /\ active' \subseteq active
    OBVIOUS
  <2>2. (CompletedWasQueued /\ ResolvedOnEvidence)'
    BY <2>1, EvidenceSurvives
  <2>3. /\ observed' \in [Scan -> SUBSET Findings]
        /\ syncing' \in [Scan -> Results \cup {"no"}]
        /\ \A t \in Scan : syncing'[t] # "no" => kind[t] # "none"
    BY DEF IInv, TypeOK
  <2>4. TypeOK'
    BY <2>1, <2>3 DEF IInv, TypeOK
  <2>5. (DispatchReady /\ ActiveScansBounded)'
    BY <2>1 DEF IInv, DispatchReady, ActiveScansBounded, ActiveOf
  <2> QED BY <2>2, <2>4, <2>5 DEF IInv
<1>7. ASSUME NEW f \in Findings, NEW status \in OperatorStatus,
             update_exposure_finding_lifecycle(f, status)
      PROVE  IInv'
  <2> USE <1>7 DEF update_exposure_finding_lifecycle
  <2>1. status \in Lifecycle /\ status \notin {"none", "resolved"}
    BY DEF Lifecycle, OperatorStatus
  <2>2. TypeOK'
    BY <2>1 DEF IInv, TypeOK
  <2>3. (DispatchReady /\ ActiveScansBounded /\ CompletedWasQueued)'
    BY DEF IInv, DispatchReady, ActiveScansBounded, ActiveOf, CompletedWasQueued
  <2>4. ResolvedOnEvidence'
    BY <2>1 DEF IInv, TypeOK, ResolvedOnEvidence, Linked
  <2> QED BY <2>2, <2>3, <2>4 DEF IInv
<1> QED
  BY <1>1, <1>2, <1>3, <1>4, <1>5, <1>6, <1>7, SyncPreserves DEF Next

\* The strengthened invariant of ExposureProgram.
THEOREM Invariance == Spec => []IInv
  BY Initially, Inductive, PTL DEF Spec

\* Every variable keeps its type; a finding's row always names the scan that saw
\* it last.
THEOREM TypeCorrect == Spec => []TypeOK
<1>1. IInv => TypeOK
  BY DEF IInv
<1> QED BY <1>1, Invariance, PTL

\* However start_scan and queue_due_monitors interleave, an assessment never has
\* two active scans of the same origin.
THEOREM Admission == Spec => []ActiveScansBounded
<1>1. IInv => ActiveScansBounded
  BY DEF IInv
<1> QED BY <1>1, Invariance, PTL

\* A finding is resolved only on the evidence of a complete scan of its asset.
THEOREM Resolution == Spec => []ResolvedOnEvidence
<1>1. IInv => ResolvedOnEvidence
  BY DEF IInv
<1> QED BY <1>1, Invariance, PTL

\* A monitor dispatches only while it is active, before and after the insert.
THEOREM MonitorDispatch == Spec => MonitorRunsOnlyWhileActive
<1>1. ASSUME IInv, [Next]_vars, NEW s \in Scan, kind[s] = "none", kind'[s] = "monitor"
      PROVE  monitor = "active" /\ monitor' = "active"
  <2>1. CASE \E t \in Scan : DispatchMonitor(t)
    BY <1>1, <2>1 DEF DispatchMonitor, IInv, DispatchReady
  <2>2. ASSUME NEW t \in Scan, start_scan(t) PROVE FALSE
    BY <1>1, <2>2 DEF start_scan, Queue, IInv, TypeOK
  <2>3. ASSUME NEW t \in Scan, StartOtherAssessment(t) PROVE FALSE
    BY <1>1, <2>3 DEF StartOtherAssessment, Queue, IInv, TypeOK
  <2>4. CASE UNCHANGED kind
    BY <1>1, <2>4
  <2> QED
    BY <1>1, <2>1, <2>2, <2>3, <2>4
    DEF Next, vars, scanVars, Observe, Finalize, Cancel, SyncLost,
        sync_scan_finding_lifecycle, ScopeExpires, create_exposure_monitor,
        update_exposure_monitor, MonitorDue, BlockMonitor, PostponeMonitor,
        CheckMonitor, update_exposure_finding_lifecycle
<1>2. IInv /\ [Next]_vars =>
        [\A s \in Scan : kind[s] = "none" /\ kind'[s] = "monitor" =>
           monitor = "active" /\ monitor' = "active"]_vars
  BY <1>1
<1> QED BY <1>2, Invariance, PTL DEF Spec, MonitorRunsOnlyWhileActive

\* Only a person changes what a person accepted or dismissed.
THEOREM DecisionsLast == Spec => OperatorDecisionKept
<1> DEFINE Decided(f) == \E status \in OperatorStatus :
                           update_exposure_finding_lifecycle(f, status)
<1>1. ASSUME IInv, [Next]_vars, NEW f \in Findings,
             life[f] \in {"accepted_risk", "dismissed"}, life'[f] # life[f]
      PROVE  Decided(f)
  <2>1. ASSUME NEW s \in Scan, sync_scan_finding_lifecycle(s) PROVE FALSE
    <3>1. ~ResolvedBy(s, f) /\ Promoted(s, f) = life[f]
      BY <1>1 DEF ResolvedBy, Promoted
    <3> QED BY <1>1, <2>1, <3>1 DEF sync_scan_finding_lifecycle
  <2>2. ASSUME NEW g \in Findings, NEW status \in OperatorStatus,
               update_exposure_finding_lifecycle(g, status)
        PROVE  Decided(f)
    <3>1. g = f
      BY <1>1, <2>2 DEF update_exposure_finding_lifecycle, IInv, TypeOK
    <3> QED BY <2>2, <3>1
  <2>3. CASE UNCHANGED life
    BY <1>1, <2>3
  <2> QED
    BY <1>1, <2>1, <2>2, <2>3
    DEF Next, vars, findingVars, start_scan, StartOtherAssessment,
        DispatchMonitor, Observe, Finalize, Cancel, SyncLost, ScopeExpires,
        create_exposure_monitor, update_exposure_monitor, MonitorDue,
        BlockMonitor, PostponeMonitor, CheckMonitor
<1>2. IInv /\ [Next]_vars =>
        [\A f \in Findings :
           life[f] \in {"accepted_risk", "dismissed"} /\ life'[f] # life[f] =>
             Decided(f)]_vars
  BY <1>1
<1> QED BY <1>2, Invariance, PTL DEF Spec, OperatorDecisionKept
================================================================================
