CONSTANTS
    Entities <- MCEntities
    Isolatable = {"Family"}
    MayBeEmpty = {"StudentAttendance"}
    Anchor = "Students"
    Files <- MCFiles
    Lists <- MCLists
    Optional = {}
    Grades <- MCGrades
    Cases <- MCCases
    KeyOrder <- MCKeyOrder
    Cleaned <- MCCleaned
    CodeGrade <- MCCodeGrade
    Patterned <- MCPatterned
    MarkValue <- MCMarkValue
    PortionRule <- MCPortionRule
    CategoryMap <- MCCategoryMap
SPECIFICATION RosterSpec
INVARIANTS
    ReferencesResolve
    WhoShipsIsPlaced
    OneLessonOneClass
    RetakeFollowsTheWholeHistory
    DayIsCountedOnce
CHECK_DEADLOCK FALSE
