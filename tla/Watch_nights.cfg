CONSTANTS
    Entities <- MCEntities
    Isolatable <- MCIsolatable
    MayBeEmpty <- MCNone
    Anchor = "Students"
    Files <- MCNone
    Lists <- MCLists
    Optional <- MCNone
    StaleAfter = 3
    MissedAfter = 2
    Days = 4
    Opens = 1
    Closes = 2
    MaxRuns = 2
    Kept = 2
    Results <- MCResults
    Places <- MCPlaces
SPECIFICATION Spec
INVARIANTS
    SurfacesAgree
    GreenIsEarned
CHECK_DEADLOCK FALSE
