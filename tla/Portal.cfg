SPECIFICATION Spec
CONSTANTS
    Surfaces = {"edge", "site", "api"}
    Emails = {e1}
    Sessions = {s1, s2}
    Links = {l1, l2}
    Codes = {}
    Names = {}
    Keys = {}
    None = None
    MaxUpsets = 3
PROPERTIES
    GetsIn
