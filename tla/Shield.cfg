SPECIFICATION Spec
CONSTANTS
    Campaign = {c1, c2}
    Slug = {s1, s2}
    Domain = {d1}
    Project = {p1, p2}
    Request = {r1, r2}
    MaxCampaigns = 1
    MaxCalls = 4
    None = None
    Visitor = {v1}
    Hook = {h1}
SYMMETRY Symmetry
INVARIANTS
    EditReachesVisitors
    QuotaNearlyKept
    OneStory
PROPERTIES
    DecisionRecorded
