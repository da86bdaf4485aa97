SPECIFICATION MCSpec
CONSTANTS
    p1 = p1
    p2 = p2
    Procs = {p1, p2}
    Callers = {p1, p2}
    Jobs = {"j1"}
    Configurations <- Files
    NumProfiles = 3
    Requested = "high"
    Device = 0
    Probes <- Reports
    MinimumFree = 1
    Uses <- Utilities
    Providers <- Setups
    Assignments <- Either
    MaxRetries = 1
    NoProc = NoProc
    NoJob = NoJob
    NoSnapshot = NoSnapshot
    NoProfile = NoProfile
    NoCaller = NoCaller
    Pad = 1
    Timelines <- Films
INVARIANTS
    TypeOK
    DeviceOwned
    SnapshotsLoadable
    ExecutedAsRecorded
    NothingLeft
    OutputWhole
    OutputKept
    CancelledUnpublished
    SubtitlesFollowClips
PROPERTIES
    NeverMoreDemanding
    ExecutionEnds
    ProcessesEnd
CHECK_DEADLOCK FALSE
