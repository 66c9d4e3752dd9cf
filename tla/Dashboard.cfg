SPECIFICATION MCSpec
CONSTANTS
    Account = {a1, a2}
    Request = {r1, r2}
    Token = {t1}
    Link = {l1}
    MaxCalls = 5
    AccessTTL = 1
    None = None
    Project = {p1}
    Key = {k1, k2}
    Domain = {d1}
    Origin = {d1, d2, NoDomain}
    Connection = {q1, q2}
    CacheTTL = 2
    NoDomain = NoDomain
    Rule = {rule1}
    Event = {lead, purchase}
    Editor = {e1, e2}
    Page = {g1, g2}
    ListTTL = 1
SYMMETRY Symmetry
INVARIANTS
    OldSessionsEnd
    LostRightExpires
    SomeoneAdministers
    ResolvedRowRecent
    AppliedRulesRecent
    AskedForStands
PROPERTIES
    DeletedStaysDeleted
