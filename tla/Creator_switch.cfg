CONSTANTS
    Own = {sd1, sd2}
    sd1 = sd1
    sd2 = sd2
    Shipped = "shipped"
    Bases = {"full", "lean"}
    OwnNames = {"own"}
    HandEdits <- MCHandEdits
    Budgets <- Alone
SYMMETRY Districts
SPECIFICATION CreatorSpec
INVARIANTS
    ShownIsSaved
CHECK_DEADLOCK FALSE
