SPECIFICATION Spec
CONSTANTS
    Surfaces = {"edge", "site", "api"}
    Emails = {e1, e2}
    Sessions = {s1, s2}
    Links = {l1}
    Codes = {c1}
    Names = {n1}
    Keys = {k1, k2}
    None = None
    MaxUpsets = 1
SYMMETRY Alike
PROPERTIES
    ActsAsSignedIn
