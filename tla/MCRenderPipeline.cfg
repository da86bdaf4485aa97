SPECIFICATION Spec
CONSTANTS
    r1 = r1
    r2 = r2
    NoCandidate = NoCandidate
    Runs <- BothRuns
    NumShots = 2
    Dialogue <- FirstShot
    LipSync <- FirstShot
    Connected <- SecondShot
    Editable <- NoShots
    Mortal <- OnlySecond
    Recovering <- OnlyFirst
    MaxRetries = 0
INVARIANTS
    TypeOK
    InProgressOwned
    SingleSelection
    ContinuousRenders
    PromptCancellation
    SucceededPublished
CHECK_DEADLOCK FALSE
