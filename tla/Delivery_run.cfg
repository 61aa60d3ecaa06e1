CONSTANTS
    CsvFiles = {1, 2, 3}
    Standalone = {2, 3}
    Interactive <- MCInteractive
    Unattended <- MCUnattended
    Budget = 6
    Durations = {0, 3}
    Midnights = {2, 99}
    MayRewrite = TRUE
SPECIFICATION DeliverySpec
INVARIANTS
    SuccessMeansWhole
    OnlyTheEnvelope
    UnverifiedServerGetsNothing
    RetriesStayInBudget
CHECK_DEADLOCK FALSE
