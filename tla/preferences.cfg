SPECIFICATION Spec
CONSTANTS
    Columns <- PreferenceColumns
    Fields <- PreferenceFields
    Values = {1, 2}
    Null = Null
    Requests = {r1, r2}
    Offers <- PreferenceOffers
SYMMETRY Symmetry
INVARIANT
    FieldsWhole
