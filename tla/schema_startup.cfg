\* All start together and crash once.
SPECIFICATION FairSpec
CONSTANTS
    Servers = {s1, s2}
    Commands = {c1}
    Tables <- MCTables
    References <- MCReferences
    Additions <- MCAdditions
    MaxCrashes = 1
INVARIANTS TypeOK ServingIsComplete
PROPERTIES AllOrNothing FailsOnlyWhenDone EveryoneServes
