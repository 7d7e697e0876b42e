SPECIFICATION Spec
CONSTANTS
  p1 = p1 p2 = p2 j1 = j1 j2 = j2 j3 = j3 s1 = s1 s2 = s2 s3 = s3
  NoProc = NoProc NoJob = NoJob NoBackend = NoBackend NoRequest = NoRequest NoFile = NoFile
  Proc = {p1, p2}
  Job = {j1, j2}
  Backend <- FourBackends
  Session <- OneSession
  Order <- FourOrder
  MaxConcurrency <- OneEach
  MachineMax = 2
  SessionMax = 2
  Request <- RotationRequests
  ReadySets <- SomeReady
  QwenHealth <- AnyHealth
  HealthCommand = TRUE
  MayFail = TRUE
  MaxCrashes = 0
PROPERTIES ImplementsAdmission RotationHonoured
