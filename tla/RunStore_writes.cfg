CONSTANTS
    Writers = {"nightly", "window", "convert"}
    Readers = {"home"}
    Newest = 3
    NFiles = 3
    MaxSeconds = 2
    Settings <- MCSettings
SPECIFICATION FairSpec
INVARIANTS MigrationErrorIsReal WrittenIsRead
PROPERTIES NeverDowngraded EveryWriteEnds
CHECK_DEADLOCK FALSE
