SPECIFICATION Spec
CONSTANTS
    s1 = s1
    s2 = s2
    cli = cli
    NoJob = NoJob
    NoFile = NoFile
    NoClient = NoClient
    NoDecision = NoDecision
    Client = {s1, s2, cli}
    Server = {s1, s2}
    Job = {1, 2}
    Scene <- MCScene
INVARIANTS TypeOK ReviewedOrSafe CallerDecides RetryOnlyInspect ShutdownStopsOwn ObservationAgrees OutcomeRecorded
CHECK_DEADLOCK FALSE
