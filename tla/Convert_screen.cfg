CONSTANTS
    Entities <- MCEntities
    Isolatable <- MCIsolatable
    MayBeEmpty <- MCMayBeEmpty
    Anchor = "Students"
    Files <- MCNone
    Lists <- MCLists
    Optional <- MCNone
    StaleAfter = 3
    MissedAfter = 2
    Districts <- MCDistricts
    Configured <- MCConfigured
    Blank = "blank"
    Folders <- MCFolders
    Sizes <- MCSizes
    MaxJobs = 3
    Starts <- MCStarts
SPECIFICATION Spec
INVARIANTS
    ConsentIsForTheRun
    CardSendsItsOwnRun
    ToldIsTrue
    HistoryAgrees
PROPERTIES EveryJobIsAnswered
CHECK_DEADLOCK FALSE
