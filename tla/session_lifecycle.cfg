SPECIFICATION Spec
CONSTANTS
    Sessions = {s1, s2, s3}
    Devices = {d1}
    Requests = {r1, r2}
    None = None
SYMMETRY Symmetry
INVARIANTS
    RotatedOnce
    RevokedUnlessRaced
PROPERTIES
    RevokesWhatItSaw
    ReuseEndsFamilies
    ImplementsRegister
