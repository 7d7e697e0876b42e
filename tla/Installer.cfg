SPECIFICATION Spec
CONSTANTS
    p1 = p1
    p2 = p2
    v1 = v1
    builtin = builtin
    NoFile = NoFile
    Empty = Empty
    Torn = Torn
    NoData = NoData
    Proc = {p1, p2}
    Version = {builtin, v1}
    Builtin = builtin
    MinSupport = 2
    May <- MCMay
    World <- MCWorld
    Manifest <- MCManifest
    DataSet <- MCDataSet
    MaxFaults = 2
    MaxStarts = 3
    MaxEdits = 2
INVARIANTS TypeOK ReplacedAtOnce OneFaultKeepsBundle UserTextKept SkillsRecoverable InstalledIsWhole TrainedMeetsGate
PROPERTIES UnverifiedStaysOut
CHECK_DEADLOCK FALSE
