SPECIFICATION LossySpec
CONSTANTS
    Users = {u1}
    Sessions = {s1, s2}
    Requests = {r1, r2}
    None = None
    MaxVersion = 4
    RoleWishes = {"super_admin", "user"}
    StatusWishes = {"active", "blocked"}
SYMMETRY Symmetry
INVARIANTS
    TypeOK
    VersionKeyCovers
    CacheGrantsWhatRowGrants
    AdmissionFresh
PROPERTY
    CommitClosesGap
