SPECIFICATION Spec
CONSTANTS
  MaxScans = 2
  Findings = {f1}
INVARIANTS
  TypeOK
  ActiveScansBounded
  ResolvedOnEvidence
PROPERTIES
  MonitorRunsOnlyWhileActive
  OperatorDecisionKept
