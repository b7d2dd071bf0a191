CONSTANTS
    NumSources = 2
    Attempts = 2
    LastDay = 1
    None = None
    i1 = i1
    i2 = i2
    whole1 = whole1
    whole2 = whole2
    unattested = unattested
    Runs = {r1, r2}
    Images = {i1, i2}
    Indexes = {whole1, whole2, unattested}
    Malformed = {}
    Manifest <- MCManifest
    Exceptions <- MCExceptions
    Services <- MCServices
    Findings <- MCFindings
SPECIFICATION Spec
INVARIANTS ReleaseTypeOK SentIsApproved OneImagePerSource
PROPERTIES NoAutomaticDowngrade
CHECK_DEADLOCK FALSE
SYMMETRY Symmetry
