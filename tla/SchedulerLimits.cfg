SPECIFICATION Spec
CONSTANTS
  p1 = p1 p2 = p2 j1 = j1 j2 = j2 j3 = j3 s1 = s1 s2 = s2 s3 = s3
  NoProc = NoProc NoJob = NoJob NoBackend = NoBackend NoRequest = NoRequest NoFile = NoFile
  Proc = {p1, p2}
  Job = {j1, j2, j3}
  Backend <- TwoBackends
  Session <- ThreeSessions
  Order <- TwoOrder
  MaxConcurrency <- TwoConcurrency
  MachineMax = 2
  SessionMax = 1
  Request <- LimitRequests
  ReadySets <- TwoReady
  QwenHealth <- AnyHealth
  HealthCommand = TRUE
  MayFail = TRUE
  MaxCrashes = 1
SYMMETRY Symmetry
INVARIANTS TypeOK MachineLimit SessionLimit BackendLimit NoUntrackedWorker
