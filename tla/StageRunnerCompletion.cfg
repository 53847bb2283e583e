SPECIFICATION Spec
CONSTANTS
  N = 2
  Required = {0, 1}
  Runners = {r1, r2}
  Requests = {}
  NoRunner = NoRunner
  MaxCrashes = 0
INVARIANT
  CompletionGate
