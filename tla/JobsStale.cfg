SPECIFICATION Spec
CONSTANTS
  c1 = c1 c2 = c2 j1 = j1 j2 = j2 j3 = j3
  NoClient = NoClient NoJob = NoJob NoFile = NoFile
  Client = {c1, c2}
  Job = {j1, j2, j3}
  Op = {"wait", "resume"}
  Outcome = {"timeout"}
  MaxCrashes = 0
SYMMETRY Symmetry
INVARIANTS ResumedOnce
