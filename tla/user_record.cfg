SPECIFICATION Spec
CONSTANTS
    Columns <- ProfileColumns
    Fields <- ProfileFields
    Values = {1, 2}
    Null = Null
    Requests = {r1, r2}
    Offers <- ProfileOffers
SYMMETRY Symmetry
INVARIANTS
    WholeUnlessStale
PROPERTIES
    CreatedOnce
    LeavesTheRest
