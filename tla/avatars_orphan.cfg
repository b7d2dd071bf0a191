SPECIFICATION AvatarSpec
CONSTANTS
    Keys = {k1, k2}
    AvatarRequests = {r1, r2}
    None = None
SYMMETRY Symmetry
PROPERTIES
    RemovalDeletesWhatItClears
