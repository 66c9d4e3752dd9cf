SPECIFICATION Spec
CONSTANTS
    Account = {a1, a2}
    Request = {r1, r2}
    Token = {t1}
    Link = {l1}
    MaxCalls = 5
    AccessTTL = 1
    None = None
PROPERTIES
    ManagersSpareAdmins
