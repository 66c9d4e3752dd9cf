SPECIFICATION MCSpec
CONSTANTS
    Job = {j1, j2}
    Worker = {w1, w2}
    MaxAttempts = 3
    RetryDelays <- ShortDelays
    Faults = TRUE
    MayCrash = TRUE
    MaxStops = 1
    NoJob = NoJob
    Flusher = {f1, f2}
    BatchSize = 2
    TTL = 2
    MaxEvents = 2
INVARIANTS
    OneCopy
    NothingForgotten
    FailedMeansExhausted
    AttemptsTellTries
    RecordingKept
    NoEventTwice
    ListedReplayExists
PROPERTIES
    ImplementsDelivery
    JobEnds
    AbandonedBufferExpires
