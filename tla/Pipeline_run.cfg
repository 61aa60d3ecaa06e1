CONSTANTS
    Entities <- MCEntities
    Isolatable = {"Family"}
    MayBeEmpty = {"StudentAttendance"}
    Anchor = "Students"
    Files <- MCFiles
    Lists <- MCLists
    Optional <- MCOptional
    Orders <- MCOrders
    Feeds <- MCFeeds
SPECIFICATION Spec
INVARIANTS
    OnlyAWholeNightLeaves
    LedgerIsComplete
    ExitCodeContract
CHECK_DEADLOCK FALSE
