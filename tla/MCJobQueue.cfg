SPECIFICATION FairSpec
CONSTANTS
    j1 = j1
    p1 = p1
    p2 = p2
    c1 = c1
    c2 = c2
    Jobs = {j1}
    Projects = {"film"}
    Workers = {"cpu"}
    Procs = {p1, p2}
    Clients = {c1, c2}
    ProjectOf <- OneProject
    WorkerOf <- OneWorker
    MaxRetries = 1
    NoJob = NoJob
    NoProc = NoProc
INVARIANTS
    TypeOK
    ExclusiveExecution
    ActiveJobHeld
    AttemptsBounded
    RecordMatchesState
PROPERTIES
    ImplementsLifecycle
    AttemptsSettle
    QueueServed
CHECK_DEADLOCK FALSE
