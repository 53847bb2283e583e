SPECIFICATION FairSpec
CONSTANTS
  N = 2
  Required = {0}
  Runners = {r1, r2}
  Requests = {}
  NoRunner = NoRunner
  MaxCrashes = 1
PROPERTIES
  StagesClose
  ClosedScanIsReported
