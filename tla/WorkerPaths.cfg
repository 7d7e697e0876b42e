SPECIFICATION FairSpec
CONSTANTS
  Option <- Options
  MaxOut = 1
  MayKill = TRUE
CHECK_DEADLOCK FALSE
INVARIANTS TypeOK CheckpointIsQuiet NoOrphan
PROPERTIES SideEffectsNotRepeated FinalStatusKept WorkerReports InterruptEnds
