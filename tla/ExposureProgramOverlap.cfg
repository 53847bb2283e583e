SPECIFICATION Spec
CONSTANTS
  MaxScans = 2
  Findings = {f1}
INVARIANT
  OneActiveScan
