SPECIFICATION RolloutSpec
CONSTANTS
    Images = {i1, i2}
    Commands = {c1, c2}
    None = None
SYMMETRY Symmetry
INVARIANTS
    DeployedPassed
