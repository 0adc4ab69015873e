SPECIFICATION Spec
CONSTANTS
    Names = {n1}
    Launches <- MCLaunches
    ByteBits = 2
    V6 <- MCV6
    V4 <- MCV4
    Reqs = {r1, r2}
    NoName = NoName
    MaxIndex = 4
    MaxEvents = 4
INVARIANTS
    AddressesDistinct
    DeletedHasNoRecord
PROPERTIES
    RecordsHeal
    Supervised
