CONSTANTS
    Own = {sd1, sd2}
    sd1 = sd1
    sd2 = sd2
    Shipped = "shipped"
    Bases = {"full", "lean"}
    OwnNames = {"own"}
    HandEdits <- MCHandEdits
    Budgets <- MCBudgets
SYMMETRY Districts
SPECIFICATION CreatorSpec
INVARIANTS
    RowsAreWhatConverts
PROPERTIES
    ConfirmedWasTested
CHECK_DEADLOCK FALSE
