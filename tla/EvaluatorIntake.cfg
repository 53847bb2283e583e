SPECIFICATION Spec
CONSTANTS
  u1 = u1
  u2 = u2
  d1 = d1
  d2 = d2
  d3 = d3
  i1 = i1
  g1 = g1
  a1 = a1
  Users = {u1, u2}
  Datasets = {d1, d2, d3}
  Migrated = {d3}
  Identities = {i1}
  Integrations = {g1}
  Adapters = {a1}
  Packages = {p1, p2}
  Requests = {q1, q2, q3}
  Classification <- MCClassification
  Independent = TRUE
  AllowInternal = TRUE
  MaxEvaluations = 3
  MaxRuns = 2
  MaxRenders = 2
  Instances <- MCInstances
SYMMETRY Symmetry
INVARIANTS TypeOK PackageCountsOnce DecisionsHaveProvenance RestsOnApproval SemanticHold
PROPERTIES DisablingIsFinal ReportStaysVerified ImplementsLedger
CHECK_DEADLOCK FALSE
