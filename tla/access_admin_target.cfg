SPECIFICATION Spec
CONSTANTS
    Users = {u1, u2}
    Sessions = {s1, s2}
    Requests = {r1, r2}
    None = None
    MaxVersion = 5
    RoleWishes = {"admin", "user"}
    StatusWishes = {"blocked"}
SYMMETRY Symmetry
CHECK_DEADLOCK FALSE
PROPERTY
    AdminsManageOnlyUsers
