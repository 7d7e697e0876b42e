SPECIFICATION Spec
CONSTANTS
  p1 = p1 p2 = p2 j1 = j1 j2 = j2 j3 = j3 s1 = s1 s2 = s2 s3 = s3
  NoProc = NoProc NoJob = NoJob NoBackend = NoBackend NoRequest = NoRequest NoFile = NoFile
  Proc = {p1}
  Job = {j1, j2, j3}
  Backend <- TwoBackends
  Session <- TwoSessions
  Order <- TwoOrder
  MaxConcurrency <- TwoConcurrency
  MachineMax = 1
  SessionMax = 1
  Request <- ResumeRequests
  ReadySets <- TwoReady
  QwenHealth <- Healthy
  HealthCommand = FALSE
  MayFail = FALSE
  MaxCrashes = 0
INVARIANTS MachineLimit
