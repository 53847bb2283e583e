SPECIFICATION Spec
CONSTANTS
  domain = domain
  child = child
  domainHost = domainHost
  childHost = childHost
  otherHost = otherHost
  Assessments <- MCAssessments
  Hosts <- MCHosts
  Root <- MCRoot
  Below <- MCBelow
INVARIANTS
  TypeOK
  ScannedWasCleared
  VerifiedWasVouched
PROPERTY
  ExclusionSticks
