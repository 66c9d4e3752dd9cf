SPECIFICATION RulesSpec
CONSTANTS
    Rule = {r1}
    Event = {lead, purchase}
    Editor = {e1, e2}
    Page = {}
    ListTTL = 1
PROPERTIES
    UpdateIsPatch
