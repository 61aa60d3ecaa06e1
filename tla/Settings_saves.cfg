CONSTANTS
    Holders = {"window", "other"}
    Districts = {"A"}
    People = {"ann", "bob"}
    MaxSeconds = 1
    MaxOps = 2
    MaxDamage = 1
SPECIFICATION Spec
INVARIANTS
    OnlyAcceptedIsWritten
PROPERTIES
    UnreadIsPreserved
    ToldGoneIsGone
CHECK_DEADLOCK FALSE
