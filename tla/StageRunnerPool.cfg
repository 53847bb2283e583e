SPECIFICATION Spec
CONSTANTS
  N = 2
  Required = {0}
  Runners = {r1, r2}
  Requests = {q1}
  NoRunner = NoRunner
  MaxCrashes = 1
SYMMETRY Symmetry
INVARIANTS
  TypeOK
  SerialStages
  FinalizerExclusive
  ClosedScanHasNoOpenStage
  ReportOnlyForClosedScan
  MonitorRunSettledWithReport
  CoverageNotOverstated
PROPERTY
  ImplementsContract
