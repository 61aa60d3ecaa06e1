CONSTANTS
    Runs = {r1, r2}
    NFiles = 2
    Original = Original
    Absent = Absent
    Folders <- MCFolders
SPECIFICATION Spec
SYMMETRY Symmetry
INVARIANTS MovedAsideIsKept LiveDirsUntouched AllOrNothing
PROPERTIES ImplementsAtomicOutput
CHECK_DEADLOCK FALSE
