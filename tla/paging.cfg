CONSTANTS
    None = None
    Rows = {r1, r2, r3}
    Times = {1, 2, 3}
    Queries <- MCQueries
SPECIFICATION Spec
INVARIANTS WalkTypeOK QuietWalkIsTheList AdditionsHideNothing AdminsSeeUsers
SYMMETRY Symmetry
