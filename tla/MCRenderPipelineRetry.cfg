SPECIFICATION Spec
CONSTANTS
    r1 = r1
    r2 = r2
    NoCandidate = NoCandidate
    Runs <- OnlyFirst
    NumShots = 2
    Dialogue <- FirstShot
    LipSync <- FirstShot
    Connected <- SecondShot
    Editable <- NoShots
    Mortal <- NoRuns
    Recovering <- NoRuns
    MaxRetries = 1
INVARIANTS
    RetryableAfterEnd
CHECK_DEADLOCK FALSE
