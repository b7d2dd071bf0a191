SPECIFICATION Spec
CONSTANTS
    Ids = {i1, i2}
    Requests = {r1, r2}
    MaxAttempts = 2
    MaxOverlaps = 2
    Absent = Absent
SYMMETRY Symmetry
INVARIANTS TypeOK OneLiveCode OneSessionAndOverlaps AttemptsAndOverlaps
