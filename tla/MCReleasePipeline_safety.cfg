CONSTANTS
  p1 = p1
  p2 = p2
  k1 = k1
  k2 = k2
  r1 = r1
  r2 = r2
  demo = demo
  staging = staging
  m1 = m1
  m2 = m2
  Makes = {m1, m2}
  Targets <- MakefileTargets
  Occasions <- AllOccasions
  Promotions = {p1, p2}
  Packagers = {k1, k2}
  Rollbacks = {r1, r2}
  Profiles = {demo, staging}
  Scenarios <- AllScenes
SPECIFICATION SceneSpec
INVARIANTS
  PackagesHoldAllEvidence
  AcceptedWasApproved
  EvidenceOfOneRun
  EnginesDifferAsKnown
  RollbackWasRecorded
  GreenVouches
  NativeAnswersGate
  FailureIsOnRecord
CHECK_DEADLOCK FALSE
