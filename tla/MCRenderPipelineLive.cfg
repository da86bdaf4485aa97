SPECIFICATION FairSpec
CONSTANTS
    r1 = r1
    r2 = r2
    NoCandidate = NoCandidate
    Runs <- OnlyFirst
    NumShots = 2
    Dialogue <- FirstShot
    LipSync <- FirstShot
    Connected <- SecondShot
    Editable <- BothShots
    Mortal <- OnlyFirst
    Recovering <- OnlyFirst
    MaxRetries = 1
PROPERTIES
    CancellationEnds
CHECK_DEADLOCK FALSE
