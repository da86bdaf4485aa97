SPECIFICATION Spec
CONSTANTS
    r1 = r1
    r2 = r2
    MaxLoad = 2
    k1 = k1
    c1 = c1
    c2 = c2
    NoCandidate = NoCandidate
    Candidates <- FiveCandidates
    Clients <- TwoClients
    MaxEdits = 2
    Runs <- TwoRuns
    Clips <- OneClip
    LipSync = FALSE
    MaxRetries = 1
INVARIANTS
    TypeOK
    SelectionAgrees
    MarksExplained
    ConnectedFollow
    RetriesCounted
    PromptCancellation
    VerdictShown
PROPERTIES
    RejectionsKept
SYMMETRY Symmetry
CONSTRAINT LightLoad
CHECK_DEADLOCK FALSE
