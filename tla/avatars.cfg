SPECIFICATION AvatarSpec
CONSTANTS
    Keys = {k1, k2, k3}
    AvatarRequests = {r1, r2, r3}
    None = None
SYMMETRY Symmetry
INVARIANTS
    DanglingExplained
PROPERTIES
    UploadServed
