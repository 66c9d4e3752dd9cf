SPECIFICATION MCSpec
CONSTANTS
    v1 = v1
    v2 = v2
    s1 = s1
    Visitor = {v1, v2}
    Session = {s1}
    Owner <- OneOwner
    Contact = {c1}
    Visit = {q1}
    Request = {r1}
    Platform = {p1}
    Nil = Nil
    None = None
    Empty = Empty
    Value = {t1}
    Page = {g1}
    Faults = TRUE
    MaxStarts = 2
    MaxBeat = 1
CHECK_DEADLOCK FALSE
INVARIANTS
    AttributionTruthful
PROPERTIES
    QueuedRowIsFinal
    NothingErased
    OldSessionsGo
