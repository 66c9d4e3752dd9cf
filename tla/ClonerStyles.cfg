SPECIFICATION Spec
CONSTANTS
    p1 = p1
    p2 = p2
    p3 = p3
    p4 = p4
    s1 = s1
    s2 = s2
    i1 = i1
    i2 = i2
    Page = {p1, p2, p3, p4}
    Asset = {s1, s2, i1, i2}
    Style = {s1, s2}
    Site <- Sites
    Worker = {w1, w2}
    Response = {r1, r2}
    MaxPages = 3
    MaxAssets = 5
    MaxBytes = 5
    MaxBody = 2
INVARIANT
    StylesRewritten
CHECK_DEADLOCK FALSE
