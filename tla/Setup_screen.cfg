SPECIFICATION Spec
CONSTANTS
    Own = "me"
    Districts <- MCDistricts
    Tested <- MCTested
    Folders <- MCFolders
    Times = {"3am"}
    Accounts = {"me", "svc"}
    Typed <- MCTyped
    Starts <- MCStarts
    WizardActs = 2
    SettingsActs = 3
    MaxRaces = 1
    MaxJobs = 2
CHECK_DEADLOCK FALSE
INVARIANTS
    RecordIsTheTask
    DriftIsTold
    FinishIsTrue
PROPERTY NoSilentDowngrade
