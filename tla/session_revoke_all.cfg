SPECIFICATION Spec
CONSTANTS
    Sessions = {s1, s2, s3}
    Devices = {d1, d2}
    Requests = {r1, r2}
    None = None
SYMMETRY Symmetry
PROPERTY
    RevokeAllReachesRotated
