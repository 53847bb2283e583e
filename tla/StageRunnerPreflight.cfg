SPECIFICATION Spec
CONSTANTS
  N = 2
  Required = {0, 1}
  Runners = {r1}
  Requests = {}
  NoRunner = NoRunner
  MaxCrashes = 1
INVARIANT
  PreflightBarrier
