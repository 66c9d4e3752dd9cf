SPECIFICATION ReplaySpec
CONSTANTS
    Flusher = {f1, f2}
    BatchSize = 2
    TTL = 2
    MaxEvents = 2
CHECK_DEADLOCK FALSE
PROPERTIES
    UploadLosesNothing
